--------------------------- MODULE KubeConfigCache ---------------------------
(***************************************************************************)
(* The process-wide maps of common/mysql_lib.go that keep, by cluster id,  *)
(* the columns of xkb_cluster every Kubernetes client is built from:       *)
(* ClusterMap (kube_config), ClusterTokenMap (bearer_token) and            *)
(* ClusterVersionMap (kube_version).  They have no lock and no expiry; a   *)
(* lookup that misses SELECTs the row and loads the map, Update_Cluster    *)
(* deletes the entries of the id it wrote, and no other change of the      *)
(* table touches them.                                                     *)
(***************************************************************************)
EXTENDS Integers, FiniteSets

CONSTANTS
    Clusters,     \* values of xkb_cluster.cluster_id
    Columns,      \* the cached columns, one map each
    Readers,      \* goroutines that look a column up
    Writers,      \* goroutines that serve a change of the table
    MaxVer,       \* bound: changes of the table
    Absent        \* no row; no entry in a map

ASSUME KubeConfigCacheAssumption ==
    /\ MaxVer \in Nat
    /\ Absent \notin Nat

Values == 0..MaxVer
Causes == {"not evicted", "late load"}

VARIABLES
    table,   \* value of each column of each cluster's row
    ver,     \* changes made so far: every change writes a value of its own
    maps,    \* the maps
    pc,      \* reader: "idle", "lookup", "select", "load", "again"
    col,     \* reader: the column it wants
    cid,     \* reader: the cluster it asks for
    row,     \* reader: what its SELECT returned
    todo,    \* writer: columns whose entry it has still to delete
    wid,     \* writer: the cluster id it deletes
    touched, \* history: what others did to the map after the reader loaded it
    cause    \* history: why an entry may differ from the table

readVars == <<pc, col, cid, row, touched>>
mapVars  == <<table, ver, maps, readVars, todo, wid, cause>>

MapsInit ==
    /\ table = [k \in Columns |-> [c \in Clusters |-> Absent]]
    /\ ver = 0
    /\ maps = [k \in Columns |-> [c \in Clusters |-> Absent]]
    /\ pc = [r \in Readers |-> "idle"]
    /\ col \in [Readers -> Columns]
    /\ cid \in [Readers -> Clusters]
    /\ row = [r \in Readers |-> Absent]
    /\ todo = [w \in Writers |-> {}]
    /\ wid \in [Writers -> Clusters]
    /\ touched = [r \in Readers |-> {}]
    /\ cause = [k \in Columns |-> [c \in Clusters |-> {}]]

Exists(c) == \E k \in Columns : table[k][c] # Absent

-----------------------------------------------------------------------------
(* GetKubeConfigByClusterId, GetBearerTokenByClusterId and                 *)
(* GetKubeVersionByClusterId: the same steps on a map of their own.        *)

TurnTo(r, stage) == pc' = [pc EXCEPT ![r] = stage]

Ask(r, k, c) ==
    /\ pc[r] = "idle"
    /\ TurnTo(r, "lookup")
    /\ col' = [col EXCEPT ![r] = k]
    /\ cid' = [cid EXCEPT ![r] = c]
    /\ row' = [row EXCEPT ![r] = Absent]
    /\ touched' = [touched EXCEPT ![r] = {}]
    /\ UNCHANGED <<table, ver, maps, todo, wid, cause>>

\* A hit is the answer; a miss goes to the table.
Lookup(r) ==
    /\ pc[r] = "lookup"
    /\ TurnTo(r, IF maps[col[r]][cid[r]] = Absent THEN "select" ELSE "idle")
    /\ UNCHANGED <<table, ver, maps, col, cid, row, touched, todo, wid, cause>>

Select(r) ==
    /\ pc[r] = "select"
    /\ TurnTo(r, "load")
    /\ row' = [row EXCEPT ![r] = table[col[r]][cid[r]]]
    /\ UNCHANGED <<table, ver, maps, col, cid, touched, todo, wid, cause>>

\* Other readers past their own load of the same map find it changed.
Touch(k, me) ==
    touched' = [r \in Readers |->
                  IF r # me /\ pc[r] = "again" /\ col[r] = k
                  THEN touched[r] \cup {"load"} ELSE touched[r]]

\* RowsToMap(&m) makes m a new map of the rows of one SELECT: what the map held
\* before is gone.
Loaded(c, v) == [d \in Clusters |-> IF d = c THEN v ELSE Absent]

\* Mutant: the rows of a SELECT are not put into the map at all.
LoadDropped(r) ==
    /\ pc[r] = "load"
    /\ TurnTo(r, "again")
    /\ UNCHANGED <<table, ver, maps, col, cid, row, touched, todo, wid, cause>>

Load(r) ==
    /\ pc[r] = "load"
    /\ TurnTo(r, "again")
    /\ maps' = [maps EXCEPT ![col[r]] = Loaded(cid[r], row[r])]
    /\ cause' = [cause EXCEPT ![col[r]] =
                   [d \in Clusters |->
                      IF d = cid[r] /\ row[r] \notin {Absent, table[col[r]][d]}
                      THEN {"late load"} ELSE {}]]
    /\ Touch(col[r], r)
    /\ UNCHANGED <<table, ver, col, cid, row, todo, wid>>

\* The map is read once more; no entry means "errClusterId", an empty token,
\* or (kube_version) a failed type assertion.
Again(r) ==
    /\ pc[r] = "again"
    /\ TurnTo(r, "idle")
    /\ UNCHANGED <<table, ver, maps, col, cid, row, touched, todo, wid, cause>>

AnswersNothing(r) == Again(r) /\ maps[col[r]][cid[r]] = Absent

-----------------------------------------------------------------------------
(* The table.                                                              *)

\* Columns ks of cluster c get the value v.
SetRow(ks, c, v) ==
    [k \in Columns |-> IF k \in ks THEN [table[k] EXCEPT ![c] = v] ELSE table[k]]

\* Entries that no statement deletes when columns ks of cluster c change.
LeftBehind(ks, c) ==
    [k \in Columns |-> IF k \in ks /\ maps[k][c] # Absent
                       THEN [cause[k] EXCEPT ![c] = @ \cup {"not evicted"}] ELSE cause[k]]

NextVer == ver < MaxVer /\ ver' = ver + 1

\* Add_Cluster: nothing is evicted, though entries of an earlier row of that
\* id may still be there.
Add(w, c) ==
    /\ todo[w] = {} /\ ~Exists(c)
    /\ NextVer
    /\ table' = SetRow(Columns, c, ver)
    /\ cause' = LeftBehind(Columns, c)
    /\ UNCHANGED <<maps, readVars, todo, wid>>

\* Edit_Cluster: one column, any column; nothing is evicted.
Edit(w, c, k) ==
    /\ todo[w] = {} /\ Exists(c)
    /\ NextVer
    /\ table' = SetRow({k}, c, ver)
    /\ cause' = LeftBehind({k}, c)
    /\ UNCHANGED <<maps, readVars, todo, wid>>

\* DelById_Cluster: nothing is evicted.
Del(w, c) ==
    /\ todo[w] = {} /\ Exists(c)
    /\ table' = SetRow(Columns, c, Absent)
    /\ cause' = LeftBehind(Columns, c)
    /\ UNCHANGED <<ver, maps, readVars, todo, wid>>

\* Mutant: the entries are deleted before the row is written, so that lookups
\* in between may have put them back.
UpdateEvictsFirst(w, c, d) ==
    /\ todo[w] = {} /\ Exists(c) /\ (d = c \/ ~Exists(d))
    /\ NextVer
    /\ table' = [k \in Columns |-> [table[k] EXCEPT ![c] = Absent, ![d] = ver]]
    /\ cause' = IF d = c THEN cause ELSE LeftBehind(Columns, c)
    /\ UNCHANGED <<maps, readVars, todo, wid>>

\* Update_Cluster: every column, cluster_id included; then the entries of the
\* id the row has now are deleted, those of the id it had are not.
Update(w, c, d) ==
    /\ todo[w] = {} /\ Exists(c) /\ (d = c \/ ~Exists(d))
    /\ NextVer
    /\ table' = [k \in Columns |-> [table[k] EXCEPT ![c] = Absent, ![d] = ver]]
    /\ cause' = IF d = c THEN cause ELSE LeftBehind(Columns, c)
    /\ todo' = [todo EXCEPT ![w] = Columns]
    /\ wid' = [wid EXCEPT ![w] = d]
    /\ UNCHANGED <<maps, readVars>>

\* delete(common.ClusterMap, u.ClusterId) and its two companions, in turn.
Evict(w, k) ==
    /\ k \in todo[w]
    /\ maps' = [maps EXCEPT ![k][wid[w]] = Absent]
    /\ cause' = [cause EXCEPT ![k][wid[w]] = {}]
    /\ todo' = [todo EXCEPT ![w] = @ \ {k}]
    /\ touched' = [r \in Readers |->
                     IF pc[r] = "again" /\ col[r] = k /\ cid[r] = wid[w]
                     THEN touched[r] \cup {"evict"} ELSE touched[r]]
    /\ UNCHANGED <<table, ver, pc, col, cid, row, wid>>

\* The process starts again with empty maps.
Restart ==
    /\ maps' = [k \in Columns |-> [c \in Clusters |-> Absent]]
    /\ cause' = [k \in Columns |-> [c \in Clusters |-> {}]]
    /\ pc' = [r \in Readers |-> "idle"]
    /\ todo' = [w \in Writers |-> {}]
    /\ UNCHANGED <<table, ver, col, cid, row, touched, wid>>

ReaderStep(r) == Lookup(r) \/ Select(r) \/ Load(r) \/ Again(r)

MapsNext ==
    \/ \E r \in Readers : ReaderStep(r) \/ \E k \in Columns, c \in Clusters : Ask(r, k, c)
    \/ \E w \in Writers, c \in Clusters :
         \/ Add(w, c) \/ Del(w, c)
         \/ \E k \in Columns : Edit(w, c, k)
         \/ \E d \in Clusters : Update(w, c, d)
    \/ \E w \in Writers, k \in Columns : Evict(w, k)
    \/ Restart

MapsSpec == MapsInit /\ [][MapsNext]_mapVars

-----------------------------------------------------------------------------
MapsTypeOK ==
    /\ table \in [Columns -> [Clusters -> Values \cup {Absent}]]
    /\ ver \in 0..MaxVer
    /\ maps \in [Columns -> [Clusters -> Values \cup {Absent}]]
    /\ pc \in [Readers -> {"idle", "lookup", "select", "load", "again"}]
    /\ col \in [Readers -> Columns]
    /\ cid \in [Readers -> Clusters]
    /\ row \in [Readers -> Values \cup {Absent}]
    /\ todo \in [Writers -> SUBSET Columns]
    /\ wid \in [Writers -> Clusters]
    /\ touched \in [Readers -> SUBSET {"load", "evict"}]
    /\ cause \in [Columns -> [Clusters -> SUBSET Causes]]

\* An entry differs from the table only while an Update has yet to delete it,
\* because a change that deletes nothing (Add, Edit, Del, the old id of an
\* Update) passed it by, or because a reader loaded a row it had selected
\* before the change.  Such an entry has no expiry.
StaleEntryHasCause ==
    \A k \in Columns, c \in Clusters :
        \/ maps[k][c] \in {Absent, table[k][c]}
        \/ \E w \in Writers : k \in todo[w] /\ wid[w] = c
        \/ cause[k][c] # {}

\* A lookup that found the row in the table and then finds no entry for it has
\* been overtaken: another goroutine loaded or evicted the map in between.
LostEntryWasTouched ==
    [][\A r \in Readers : (AnswersNothing(r) /\ row[r] # Absent) => touched[r] # {}]_mapVars

\* "Get kubeconfig string by cluster ID": a lookup whose SELECT returned a row
\* answers with a value, unless an Update of that cluster evicted it meanwhile.
ExistingClusterIsFound ==
    [][\A r \in Readers :
         (AnswersNothing(r) /\ row[r] # Absent) => "evict" \in touched[r]]_mapVars
=============================================================================
