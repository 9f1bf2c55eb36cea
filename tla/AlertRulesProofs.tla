-------------------------- MODULE AlertRulesProofs --------------------------
(***************************************************************************)
(* AlertRules, proved for any number of clusters, rules, requests and      *)
(* handlers, any listing limit, with and without faults, and whether or    *)
(* not the API server takes an Update without a resourceVersion.           *)
(***************************************************************************)
EXTENDS AlertRules, FiniteSetTheorems, TLAPS

\* A request past its first read knows its rule, and the cluster of that rule
\* never changes: UpdateAlertRule leaves the column out, ids are not reused.
RequestOf(h) ==
    /\ pc[h] \in {"read", "reread"} => op[h] # "add"
    /\ pc[h] = "reread" => op[h] = "toggle"
    /\ (pc[h] \in {"read", "reread", "save"} /\ op[h] # "add") => id[h] \in 1..(nextId - 1)
    /\ (pc[h] = "save" /\ op[h] \in {"update", "toggle"}) => copy[h] # NoRow
    /\ (pc[h] = "save" /\ op[h] = "update" /\ rows[id[h]] # NoRow)
          => copy[h].cluster = rows[id[h]].cluster
    /\ (pc[h] \in {"reread", "save"} /\ op[h] # "add" /\ target[h] # NoCluster
          /\ rows[id[h]] # NoRow) => target[h] = rows[id[h]].cluster
    /\ pc[h] \in {"apply", "create"} => target[h] \in Clusters

RequestOK == \A h \in Handlers : RequestOf(h)

\* No row has an id that AUTO_INCREMENT has yet to hand out.
IdsFresh == \A r \in Rules : r >= nextId => rows[r] = NoRow

\* Versions stand for the contents they were taken from.
VersionsOK ==
    /\ \A c \in Clusters :
         /\ crdVer[c] <= tableVer[c]
         /\ crdVer[c] = tableVer[c] => crd[c] = Published(rows, c)
    /\ \A h \in Handlers : pc[h] \in {"apply", "create"} =>
         /\ listVer[h] <= tableVer[target[h]]
         /\ listVer[h] = tableVer[target[h]] => listing[h] = Published(rows, target[h])

\* StaleHasCause, said of versions.
BehindHasCause ==
    \A c \in Clusters :
        \/ crdVer[c] = tableVer[c]
        \/ \E h \in Handlers : SyncDue(h, c)
        \/ cause[c] # {}

IInv == TypeOK /\ RequestOK /\ IdsFresh /\ VersionsOK /\ BehindHasCause

Table == [Rules -> Row \cup {NoRow}]

-----------------------------------------------------------------------------
\* A sync publishes rules.
LEMMA PublishedType ==
    ASSUME NEW t \in Table, NEW c
    PROVE  Published(t, c) \in SUBSET PromRule
<1>1. \A r \in Listed(t, c) : r \in Rules /\ t[r] \in Row
  BY DEF Listed, RowsOf, Table
<1> QED BY <1>1 DEF Published, PromRules, PromRule, Row

\* What is published for a cluster depends on the rows of that cluster only.
LEMMA PublishedOfOthers ==
    ASSUME NEW t \in Table, NEW u \in Table, NEW c, NEW r \in Rules,
           \A s \in Rules \ {r} : t[s] = u[s],
           t[r] = NoRow \/ t[r].cluster # c,
           u[r] = NoRow \/ u[r].cluster # c
    PROVE  Published(t, c) = Published(u, c)
<1>1. RowsOf(t, c) = RowsOf(u, c)
  BY DEF RowsOf
<1>2. Listed(t, c) = Listed(u, c)
  BY <1>1 DEF Listed
<1>3. \A s \in Listed(t, c) : t[s] = u[s]
  BY <1>1 DEF Listed, RowsOf
<1> QED BY <1>2, <1>3 DEF Published, PromRules

-----------------------------------------------------------------------------
LEMMA InitIInv == Init => IInv
<1> SUFFICES ASSUME Init PROVE IInv
  OBVIOUS
<1> USE AlertRulesAssumption DEF Init
<1>1. TypeOK
  BY DEF TypeOK, Rules, Stages, Ops, Row
<1>2. RequestOK /\ IdsFresh
  BY DEF RequestOK, RequestOf, IdsFresh
<1>3. ASSUME NEW c \in Clusters PROVE crd[c] = Published(rows, c)
  <2>1. RowsOf(rows, c) = {}
    BY DEF RowsOf
  <2> QED BY <2>1 DEF Published, PromRules, Listed
<1>4. VersionsOK /\ BehindHasCause
  BY <1>3 DEF VersionsOK, BehindHasCause
<1> QED BY <1>1, <1>2, <1>4 DEF IInv

\* Whatever statement it is, a change of row r of cluster c keeps the
\* invariant when the handler goes on to sync c, or a cause is noted.
LEMMA StoreKeepsIInv ==
    ASSUME IInv,
           NEW h \in Handlers, NEW r \in Rules, NEW c \in Clusters,
           NEW new \in Row \cup {NoRow},
           pc[h] = "save",
           Store(h, r, c, new),
           rows[r] = NoRow => r = nextId,
           rows[r] # NoRow => rows[r].cluster = c,
           new # NoRow => new.cluster = c,
           nextId' \in {nextId, nextId + 1}, r < nextId', nextId' \in 1..(MaxRules + 1),
           id' \in [Handlers -> 0..MaxRules],
           target' \in [Handlers -> Clusters \cup {NoCluster}],
           cause' \in [Clusters -> SUBSET Causes],
           \A g \in Handlers \ {h} : id'[g] = id[g] /\ target'[g] = target[g],
           \A d \in Clusters : cause[d] \subseteq cause'[d],
           target'[h] = c \/ cause'[c] # {},
           UNCHANGED <<crd, op, copy, listing, served, listVer, crdVer>>
    PROVE  IInv'
<1> USE AlertRulesAssumption DEF Store, Goto
<1> USE DEF IInv
<1>0. /\ rows \in Table /\ rows' \in Table
      /\ rows' = [rows EXCEPT ![r] = new]
      /\ tableVer' = [tableVer EXCEPT ![c] = @ + 1]
      /\ pc' = [pc EXCEPT ![h] = "list"]
  BY DEF TypeOK, Table
<1>1. TypeOK'
  <2>1. pc' \in [Handlers -> Stages] /\ tableVer' \in [Clusters -> Nat]
    BY <1>0 DEF TypeOK, Stages
  <2> QED BY <1>0, <2>1 DEF TypeOK, Table
<1>2. \A g \in Handlers \ {h} : pc'[g] = pc[g]
  BY <1>0 DEF TypeOK
<1>3. pc'[h] = "list"
  BY <1>0 DEF TypeOK
<1>4. \A s \in Rules \ {r} : rows'[s] = rows[s]
  BY <1>0 DEF Table
<1>5. rows'[r] = new
  BY <1>0 DEF Table
<1>6. RequestOK'
  <2> SUFFICES ASSUME NEW g \in Handlers \ {h}
               PROVE  RequestOf(g)'
    BY <1>3 DEF RequestOK, RequestOf
  <2>1. (pc[g] \in {"read", "reread", "save"} /\ op[g] # "add") =>
           id[g] \in Rules /\ id[g] < nextId
    BY DEF RequestOK, RequestOf, TypeOK, Rules
  <2>2. RequestOf(g) /\ pc'[g] = pc[g] /\ id'[g] = id[g] /\ target'[g] = target[g]
    BY <1>2 DEF RequestOK
  <2>3. (pc[g] \in {"reread", "save"} /\ op[g] # "add" /\ id[g] = r /\ rows'[id[g]] # NoRow)
           => rows[id[g]] # NoRow /\ rows'[id[g]].cluster = rows[id[g]].cluster
    BY <1>5, <2>1
  <2>4. (pc[g] \in {"read", "reread", "save"} /\ op[g] # "add" /\ id[g] # r)
           => rows'[id[g]] = rows[id[g]]
    BY <1>4, <2>1
  <2>5. (pc[g] \in {"read", "reread", "save"} /\ op[g] # "add") => id'[g] \in 1..(nextId' - 1)
    BY <2>2 DEF RequestOf, TypeOK
  <2> QED BY <2>2, <2>3, <2>4, <2>5 DEF RequestOf
<1>7. IdsFresh'
  BY <1>4 DEF IdsFresh, Rules, TypeOK
<1>8. \A d \in Clusters \ {c} : Published(rows', d) = Published(rows, d)
  <2> SUFFICES ASSUME NEW d \in Clusters \ {c}
               PROVE  Published(rows', d) = Published(rows, d)
    OBVIOUS
  <2>1. rows[r] = NoRow \/ rows[r].cluster # d
    OBVIOUS
  <2>2. rows'[r] = NoRow \/ rows'[r].cluster # d
    BY <1>5
  <2>3. \A t, u \in Table :
           /\ \A s \in Rules \ {r} : t[s] = u[s]
           /\ t[r] = NoRow \/ t[r].cluster # d
           /\ u[r] = NoRow \/ u[r].cluster # d
           => Published(t, d) = Published(u, d)
    BY PublishedOfOthers
  <2> QED BY ONLY <1>0, <1>4, <2>1, <2>2, <2>3
<1>9. tableVer'[c] = tableVer[c] + 1 /\ \A d \in Clusters \ {c} : tableVer'[d] = tableVer[d]
  BY <1>0 DEF TypeOK
<1>10. VersionsOK'
  <2>1. ASSUME NEW d \in Clusters
        PROVE  /\ crdVer'[d] <= tableVer'[d]
               /\ crdVer'[d] = tableVer'[d] => crd'[d] = Published(rows', d)
    <3>1. /\ crdVer[d] <= tableVer[d]
          /\ crdVer[d] = tableVer[d] => crd[d] = Published(rows, d)
      BY DEF VersionsOK
    <3>2. crdVer[d] \in Nat /\ tableVer[d] \in Nat /\ crdVer'[d] = crdVer[d] /\ crd'[d] = crd[d]
      BY DEF TypeOK
    <3> QED BY ONLY <1>8, <1>9, <3>1, <3>2
  <2>2. ASSUME NEW g \in Handlers, pc'[g] \in {"apply", "create"}
        PROVE  /\ listVer'[g] <= tableVer'[target'[g]]
               /\ listVer'[g] = tableVer'[target'[g]] =>
                     listing'[g] = Published(rows', target'[g])
    <3>1. g # h /\ pc[g] \in {"apply", "create"} /\ target'[g] = target[g] /\ target[g] \in Clusters
        BY <1>2, <1>3, <2>2 DEF RequestOK, RequestOf
    <3>2. /\ listVer[g] <= tableVer[target[g]]
          /\ listVer[g] = tableVer[target[g]] => listing[g] = Published(rows, target[g])
      BY <3>1 DEF VersionsOK
    <3>3. listVer[g] \in Nat /\ tableVer[target[g]] \in Nat /\ listVer'[g] = listVer[g]
          /\ listing'[g] = listing[g]
      BY <3>1 DEF TypeOK
    <3> QED BY ONLY <1>8, <1>9, <3>1, <3>2, <3>3
  <2> QED BY <2>1, <2>2 DEF VersionsOK
<1>11. BehindHasCause'
  <2> SUFFICES ASSUME NEW d \in Clusters
               PROVE  \/ crdVer'[d] = tableVer'[d]
                      \/ \E g \in Handlers : SyncDue(g, d)'
                      \/ cause'[d] # {}
    BY DEF BehindHasCause
  <2>1. CASE d = c
    BY <1>3, <2>1 DEF SyncDue
  <2>2. CASE d # c
    <3>1. CASE crdVer[d] = tableVer[d]
      BY <1>9, <2>2, <3>1
    <3>2. CASE cause[d] # {}
      BY <3>2
    <3>3. ASSUME NEW g \in Handlers, SyncDue(g, d) PROVE SyncDue(g, d)'
      BY <1>2, <1>9, <2>2, <3>3 DEF SyncDue
    <3> QED BY <3>1, <3>2, <3>3 DEF BehindHasCause
  <2> QED BY <2>1, <2>2
<1> QED BY <1>1, <1>6, <1>7, <1>10, <1>11

\* What one handler does between its stores: the table and the objects stay,
\* and the handler does not drop a sync it owes without a cause.
LEMMA HandlerKeepsIInv ==
    ASSUME IInv, TypeOK',
           NEW h \in Handlers,
           UNCHANGED <<rows, nextId, crd, tableVer, crdVer>>,
           \A g \in Handlers \ {h} :
              /\ pc'[g] = pc[g] /\ op'[g] = op[g] /\ id'[g] = id[g]
              /\ target'[g] = target[g] /\ copy'[g] = copy[g]
              /\ listing'[g] = listing[g] /\ listVer'[g] = listVer[g],
           \A d \in Clusters : cause[d] \subseteq cause'[d],
           RequestOf(h)',
           pc'[h] \in {"apply", "create"} =>
              /\ listVer'[h] <= tableVer[target'[h]]
              /\ listVer'[h] = tableVer[target'[h]] =>
                    listing'[h] = Published(rows, target'[h]),
           \A d \in Clusters : SyncDue(h, d) => SyncDue(h, d)' \/ cause'[d] # {}
    PROVE  IInv'
<1> USE DEF IInv
<1>1. RequestOK'
  <2> SUFFICES ASSUME NEW g \in Handlers \ {h} PROVE RequestOf(g)'
    BY DEF RequestOK
  <2>1. RequestOf(g)
    BY DEF RequestOK
  <2> QED BY <2>1 DEF RequestOf
<1>2. IdsFresh'
  BY DEF IdsFresh
<1>3. VersionsOK'
  <2>1. ASSUME NEW g \in Handlers \ {h}, pc[g] \in {"apply", "create"}
        PROVE  /\ listVer[g] <= tableVer[target[g]]
               /\ listVer[g] = tableVer[target[g]] => listing[g] = Published(rows, target[g])
    BY <2>1 DEF VersionsOK
  <2>2. ASSUME NEW g \in Handlers, pc'[g] \in {"apply", "create"}
        PROVE  /\ listVer'[g] <= tableVer[target'[g]]
               /\ listVer'[g] = tableVer[target'[g]] => listing'[g] = Published(rows, target'[g])
    BY <2>1, <2>2
  <2> QED BY <2>2 DEF VersionsOK
<1>4. BehindHasCause'
  <2> SUFFICES ASSUME NEW d \in Clusters, crdVer[d] # tableVer[d], cause'[d] = {}
               PROVE  \E g \in Handlers : SyncDue(g, d)'
    BY DEF BehindHasCause
  <2>1. PICK g \in Handlers : SyncDue(g, d)
    BY DEF BehindHasCause
  <2>2. CASE g = h
    BY <2>1, <2>2
  <2>3. CASE g # h
    BY <2>1, <2>3 DEF SyncDue
  <2> QED BY <2>2, <2>3
<1> QED BY <1>1, <1>2, <1>3, <1>4

\* A write of the object by a handler that then finishes or goes on to Create.
LEMMA LandKeepsIInv ==
    ASSUME IInv,
           NEW h \in Handlers,
           pc[h] \in {"apply", "create"},
           Land(h),
           Goto(h, "idle") \/ Goto(h, "create"),
           UNCHANGED <<tableVars, op, id, target, copy, listing, served, tableVer,
                       listVer>>
    PROVE  IInv'
<1> USE DEF IInv, Land, Goto, tableVars
<1> DEFINE c == target[h]
<1>1. /\ c \in Clusters
      /\ listVer[h] <= tableVer[c]
      /\ listVer[h] = tableVer[c] => listing[h] = Published(rows, c)
  BY DEF RequestOK, RequestOf, VersionsOK
<1>2. /\ tableVer[c] \in Nat /\ crdVer[c] \in Nat /\ listVer[h] \in Nat
      /\ crdVer[c] <= tableVer[c]
  BY <1>1 DEF TypeOK, VersionsOK
<1>3. TypeOK'
  <2>1. pc' \in [Handlers -> Stages]
    BY DEF TypeOK, Stages
  <2>2. crd' \in [Clusters -> SUBSET PromRule] /\ crdVer' \in [Clusters -> Nat]
    BY DEF TypeOK
  <2>3. cause' \in [Clusters -> SUBSET Causes]
    BY DEF TypeOK, Causes
  <2> QED BY <2>1, <2>2, <2>3 DEF TypeOK
<1>4. pc'[h] \in {"idle", "create"} /\ \A g \in Handlers \ {h} : pc'[g] = pc[g]
  BY DEF TypeOK
<1>5. RequestOK'
  <2> SUFFICES ASSUME NEW g \in Handlers PROVE RequestOf(g)'
    BY DEF RequestOK
  <2>1. RequestOf(g)
    BY DEF RequestOK
  <2>2. CASE g = h
    BY <1>1, <1>4, <2>2 DEF RequestOf
  <2>3. CASE g # h
    BY <1>4, <2>1, <2>3 DEF RequestOf
  <2> QED BY <2>2, <2>3
<1>6. IdsFresh'
  BY DEF IdsFresh
<1>7. /\ crd'[c] = listing[h] /\ crdVer'[c] = listVer[h]
      /\ \A d \in Clusters \ {c} : crd'[d] = crd[d] /\ crdVer'[d] = crdVer[d] /\ cause'[d] = cause[d]
  BY <1>1 DEF TypeOK
<1>8. VersionsOK'
  <2>1. ASSUME NEW d \in Clusters
        PROVE  /\ crdVer'[d] <= tableVer[d]
               /\ crdVer'[d] = tableVer[d] => crd'[d] = Published(rows, d)
    <3>1. CASE d = c
      BY ONLY <1>1, <1>7, <3>1
    <3>2. CASE d # c
      BY <1>7, <3>2 DEF VersionsOK
    <3> QED BY <3>1, <3>2
  <2>2. ASSUME NEW g \in Handlers, pc'[g] \in {"apply", "create"}
        PROVE  /\ listVer[g] <= tableVer[target[g]]
               /\ listVer[g] = tableVer[target[g]] => listing[g] = Published(rows, target[g])
    <3>1. pc[g] \in {"apply", "create"}
      BY <1>4, <2>2
    <3> QED BY <3>1 DEF VersionsOK
  <2> QED BY <2>1, <2>2 DEF VersionsOK
<1>9. BehindHasCause'
  <2> SUFFICES ASSUME NEW d \in Clusters, crdVer'[d] # tableVer[d], cause'[d] = {}
               PROVE  \E g \in Handlers : SyncDue(g, d)'
    BY DEF BehindHasCause
  <2>1. cause[d] = {} /\ crdVer[d] # tableVer[d] /\ (d = c => listVer[h] # tableVer[d])
    <3>1. CASE d # c
      BY <1>7, <3>1
    <3>2. CASE d = c
      <4>1. cause'[c] = IF listVer[h] = tableVer[c] THEN {}
                        ELSE IF listVer[h] < crdVer[c] THEN cause[c] \cup {"overtaken"}
                        ELSE cause[c]
        BY <1>1 DEF TypeOK
      <4> QED BY <1>1, <1>2, <1>7, <3>2, <4>1
    <3> QED BY <3>1, <3>2
  <2>2. PICK g \in Handlers : SyncDue(g, d)
    BY <2>1 DEF BehindHasCause
  <2>3. g # h
    BY <2>1, <2>2 DEF SyncDue
  <2> QED BY <1>4, <2>2, <2>3 DEF SyncDue
<1> QED BY <1>3, <1>5, <1>6, <1>8, <1>9

-----------------------------------------------------------------------------
LEMMA StoreExistingKeepsIInv ==
    ASSUME IInv,
           NEW h \in Handlers, NEW new \in Row \cup {NoRow},
           pc[h] = "save", op[h] # "add",
           StoreExisting(h, new),
           (new # NoRow /\ rows[id[h]] # NoRow) => new.cluster = rows[id[h]].cluster,
           UNCHANGED <<nextId, crd, op, id, target, copy, listing, served, listVer, crdVer>>
    PROVE  IInv'
<1>1. /\ id[h] \in Rules /\ id[h] < nextId
      /\ nextId \in 1..(MaxRules + 1)
  BY DEF IInv, RequestOK, RequestOf, TypeOK, Rules
<1>2. ASSUME rows[id[h]] # NoRow PROVE IInv'
  <2> DEFINE c == rows[id[h]].cluster
  <2>1. c \in Clusters /\ cause \in [Clusters -> SUBSET Causes]
    BY <1>1, <1>2 DEF IInv, TypeOK, Row
  <2>2. /\ Store(h, id[h], c, new)
        /\ cause' = IF target[h] # NoCluster THEN cause
                    ELSE [cause EXCEPT ![c] = @ \cup {"unknown cluster"}]
    BY <1>2 DEF StoreExisting
  <2>3. cause' \in [Clusters -> SUBSET Causes] /\ \A d \in Clusters : cause[d] \subseteq cause'[d]
    BY <2>1, <2>2 DEF Causes
  <2>4. target[h] # NoCluster => target[h] = c
    BY <1>2 DEF IInv, RequestOK, RequestOf
  <2>5. target'[h] = c \/ cause'[c] # {}
    BY <2>1, <2>2, <2>4
  <2>6. id' \in [Handlers -> 0..MaxRules] /\ target' \in [Handlers -> Clusters \cup {NoCluster}]
    BY DEF IInv, TypeOK
  <2>7. (new # NoRow => new.cluster = c) /\ nextId' = nextId /\ id' = id /\ target' = target
    BY <1>2
  <2> HIDE DEF c
  <2>8. rows[id[h]].cluster = c
    BY DEF c
  <2>9. /\ rows[id[h]] # NoRow
        /\ id[h] \in Rules /\ id[h] < nextId' /\ nextId' \in 1..(MaxRules + 1)
        /\ Store(h, id[h], c, new)
    BY <1>1, <1>2, <2>2, <2>7
  <2>10. \A g \in Handlers \ {h} : id'[g] = id[g] /\ target'[g] = target[g]
    BY <2>7
  <2> QED BY <2>1, <2>3, <2>5, <2>6, <2>7, <2>8, <2>9, <2>10, StoreKeepsIInv
<1>3. ASSUME rows[id[h]] = NoRow PROVE IInv'
  <2>1. pc' = [pc EXCEPT ![h] = "list"] /\ UNCHANGED <<rows, tableVer, cause>>
    BY <1>3 DEF StoreExisting, Goto
  <2>2. TypeOK' /\ pc'[h] = "list" /\ \A g \in Handlers \ {h} : pc'[g] = pc[g]
    BY <2>1 DEF IInv, TypeOK, Stages
  <2>3. RequestOf(h)'
    BY <2>2 DEF RequestOf
  <2>4. \A d \in Clusters : ~SyncDue(h, d)
    BY DEF SyncDue
  <2> QED BY <2>1, <2>2, <2>3, <2>4, HandlerKeepsIInv
<1> QED BY <1>2, <1>3

LEMMA NextIInv == IInv /\ [Next]_vars => IInv'
<1> SUFFICES ASSUME IInv, [Next]_vars PROVE IInv'
  OBVIOUS
<1> USE AlertRulesAssumption
<1>u. CASE UNCHANGED vars
  BY <1>u DEF vars, tableVars, reqVars, histVars, IInv, TypeOK, RequestOK, RequestOf,
              IdsFresh, VersionsOK, BehindHasCause, SyncDue
<1>c. CASE Crash
  <2>1. TypeOK' /\ \A g \in Handlers : pc'[g] = "idle"
    BY <1>c DEF Crash, IInv, TypeOK, tableVars, Stages, Causes
  <2>2. RequestOK'
    BY <2>1 DEF RequestOK, RequestOf
  <2>3. IdsFresh' /\ VersionsOK'
    BY <1>c, <2>1 DEF Crash, IInv, IdsFresh, VersionsOK, tableVars
  <2>4. BehindHasCause'
    <3> SUFFICES ASSUME NEW d \in Clusters, crdVer[d] # tableVer[d]
                 PROVE  cause'[d] # {}
      BY <1>c DEF BehindHasCause, Crash
    <3>1. cause'[d] = IF \E g \in Handlers : SyncDue(g, d)
                      THEN cause[d] \cup {"crash"} ELSE cause[d]
      BY <1>c DEF Crash
    <3>2. cause[d] # {} \/ \E g \in Handlers : SyncDue(g, d)
      BY DEF IInv, BehindHasCause
    <3> QED BY <3>1, <3>2
  <2> QED BY <2>1, <2>2, <2>3, <2>4 DEF IInv
<1>h. ASSUME NEW h \in Handlers, Begin(h) \/ Step(h) PROVE IInv'
  <2> USE DEF tableVars, histVars
  <2>begin. CASE Begin(h)
    <3> USE <2>begin DEF Begin, Goto
    <3>0. /\ pc' \in [Handlers -> Stages] /\ op' \in [Handlers -> Ops]
          /\ id' \in [Handlers -> 0..MaxRules] /\ served' \in 0..MaxRequests
      BY DEF IInv, TypeOK, Stages, Ops
    <3>1. TypeOK' /\ \A g \in Handlers \ {h} : pc'[g] = pc[g] /\ op'[g] = op[g] /\ id'[g] = id[g]
      BY <3>0 DEF IInv, TypeOK
    <3>2. \/ pc'[h] = "save" /\ op'[h] = "add"
          \/ pc'[h] = "read" /\ op'[h] # "add" /\ id'[h] \in 1..(nextId - 1)
      BY DEF IInv, TypeOK, Ops
    <3>3. RequestOf(h)'
      BY <3>2 DEF RequestOf
    <3>4. \A d \in Clusters : ~SyncDue(h, d)
      BY DEF SyncDue
    <3> QED BY <3>1, <3>2, <3>3, <3>4, HandlerKeepsIInv
  <2>read. CASE Read(h)
    <3> USE <2>read DEF Read, Goto
    <3>1. op[h] # "add" /\ id[h] \in 1..(nextId - 1) /\ id[h] \in Rules
      BY DEF IInv, RequestOK, RequestOf, TypeOK, Rules
    <3>2. rows[id[h]] # NoRow => rows[id[h]] \in Row /\ rows[id[h]].cluster \in Clusters
      BY <3>1 DEF IInv, TypeOK, Row
    <3>3. /\ TypeOK'
          /\ \A g \in Handlers \ {h} : pc'[g] = pc[g] /\ target'[g] = target[g]
                                       /\ copy'[g] = copy[g]
      BY <3>1, <3>2 DEF IInv, TypeOK, Stages
    <3>4. \/ /\ rows[id[h]] # NoRow /\ copy'[h] = rows[id[h]]
             /\ target'[h] = rows[id[h]].cluster
             /\ pc'[h] = IF op[h] = "toggle" THEN "reread" ELSE "save"
          \/ /\ target'[h] = NoCluster
             /\ pc'[h] = IF op[h] = "update" THEN "idle"
                         ELSE IF op[h] = "del" THEN "save" ELSE "reread"
      BY <3>1 DEF IInv, TypeOK
    <3>5. RequestOf(h)'
      BY <3>1, <3>4 DEF RequestOf, IInv, TypeOK, Ops
    <3>6. \A d \in Clusters : ~SyncDue(h, d)
      BY DEF SyncDue
    <3>7. pc'[h] \notin {"apply", "create"}
      BY <3>4
    <3> QED BY <3>3, <3>5, <3>6, <3>7, HandlerKeepsIInv
  <2>reread. CASE Reread(h)
    <3> USE <2>reread DEF Reread, Goto
    <3>1. op[h] = "toggle" /\ id[h] \in 1..(nextId - 1) /\ id[h] \in Rules
      BY DEF IInv, RequestOK, RequestOf, TypeOK, Rules
    <3>2. rows[id[h]] \in Row \cup {NoRow}
      BY <3>1 DEF IInv, TypeOK
    <3>3. /\ TypeOK'
          /\ \A g \in Handlers \ {h} : pc'[g] = pc[g] /\ copy'[g] = copy[g]
      BY <3>1, <3>2 DEF IInv, TypeOK, Stages
    <3>4. \/ rows[id[h]] # NoRow /\ copy'[h] = rows[id[h]] /\ pc'[h] = "save"
          \/ pc'[h] = "idle"
      BY DEF IInv, TypeOK
    <3>5. RequestOf(h)'
      BY <3>1, <3>4 DEF RequestOf, IInv, RequestOK
    <3>6. \A d \in Clusters : ~SyncDue(h, d)
      BY DEF SyncDue
    <3>7. pc'[h] \notin {"apply", "create"}
      BY <3>4
    <3> QED BY <3>3, <3>5, <3>6, <3>7, HandlerKeepsIInv
  <2>add. CASE SaveAdd(h)
    <3> USE <2>add DEF SaveAdd, Saving
    <3>1. PICK c \in Clusters, s \in Sources, b \in Bodies :
             /\ target' = [target EXCEPT ![h] = c]
             /\ Store(h, nextId, c, [cluster |-> c, source |-> s, body |-> b, enabled |-> TRUE])
      OBVIOUS
    <3> DEFINE new == [cluster |-> c, source |-> s, body |-> b, enabled |-> TRUE]
    <3>2. new \in Row \cup {NoRow} /\ new.cluster = c
      BY DEF Row
    <3>3. nextId \in Rules /\ rows[nextId] = NoRow /\ nextId' = nextId + 1
          /\ nextId' \in 1..(MaxRules + 1) /\ nextId < nextId'
      BY DEF IInv, IdsFresh, TypeOK, Rules
    <3>4. /\ id' \in [Handlers -> 0..MaxRules]
          /\ target' \in [Handlers -> Clusters \cup {NoCluster}]
          /\ cause' \in [Clusters -> SUBSET Causes]
          /\ target'[h] = c
          /\ \A g \in Handlers \ {h} : id'[g] = id[g] /\ target'[g] = target[g]
      BY <3>1, <3>3 DEF IInv, TypeOK, Rules
    <3>5. \A d \in Clusters : cause[d] \subseteq cause'[d]
      OBVIOUS
    <3>6. Store(h, nextId, c, new)
      BY <3>1
    <3> HIDE DEF new
    <3> QED BY <3>2, <3>3, <3>4, <3>5, <3>6, StoreKeepsIInv
  <2>update. CASE SaveUpdate(h)
    <3> USE <2>update DEF SaveUpdate, Saving
    <3>1. PICK s \in Sources, b \in Bodies :
             StoreExisting(h, [copy[h] EXCEPT !.source = s, !.body = b])
      OBVIOUS
    <3>2. copy[h] \in Row
      BY DEF IInv, RequestOK, RequestOf, TypeOK
    <3> DEFINE new == [copy[h] EXCEPT !.source = s, !.body = b]
    <3>3. new \in Row /\ new.cluster = copy[h].cluster
      BY <3>2 DEF Row
    <3>4. rows[id[h]] # NoRow => copy[h].cluster = rows[id[h]].cluster
      BY DEF IInv, RequestOK, RequestOf
    <3>5. StoreExisting(h, new)
      BY <3>1
    <3> HIDE DEF new
    <3> QED BY <3>3, <3>4, <3>5, StoreExistingKeepsIInv
  <2>del. CASE SaveDel(h)
    BY <2>del, StoreExistingKeepsIInv DEF SaveDel, Saving
  <2>toggle. CASE SaveToggle(h)
    <3> USE <2>toggle DEF SaveToggle, Saving
    <3>1. copy[h] \in Row
      BY DEF IInv, RequestOK, RequestOf, TypeOK
    <3> DEFINE new == [rows[id[h]] EXCEPT !.enabled = ~copy[h].enabled]
    <3>2. id[h] \in Rules
      BY DEF IInv, RequestOK, RequestOf, TypeOK, Rules
    <3>3. CASE rows[id[h]] # NoRow
      <4>1. rows[id[h]] \in Row /\ (~copy[h].enabled) \in BOOLEAN
        BY <3>1, <3>2, <3>3 DEF IInv, TypeOK, Row
      <4>2. new \in Row /\ new.cluster = rows[id[h]].cluster
        BY <4>1 DEF Row
      <4>3. StoreExisting(h, new)
        OBVIOUS
      <4> HIDE DEF new
      <4> QED BY <4>2, <4>3, StoreExistingKeepsIInv
    <3>4. CASE rows[id[h]] = NoRow
      <4>1. StoreExisting(h, NoRow)
        BY <3>4 DEF StoreExisting
      <4> QED BY <4>1, StoreExistingKeepsIInv
    <3> QED BY <3>3, <3>4
  <2>fails. CASE SaveFails(h)
    <3> USE <2>fails DEF SaveFails, Goto
    <3>1. TypeOK' /\ pc'[h] = "idle" /\ \A g \in Handlers \ {h} : pc'[g] = pc[g]
      BY DEF IInv, TypeOK, Stages
    <3>2. RequestOf(h)' /\ \A d \in Clusters : ~SyncDue(h, d)
      BY <3>1 DEF RequestOf, SyncDue
    <3> QED BY <3>1, <3>2, HandlerKeepsIInv
  <2>list. CASE List(h)
    <3> USE <2>list DEF List, Goto
    <3>1. CASE target[h] = NoCluster
      <4>1. TypeOK' /\ pc'[h] = "idle" /\ \A g \in Handlers \ {h} : pc'[g] = pc[g]
        BY <3>1 DEF IInv, TypeOK, Stages
      <4>2. RequestOf(h)' /\ \A d \in Clusters : ~SyncDue(h, d)
        BY <3>1, <4>1 DEF RequestOf, SyncDue
      <4>3. UNCHANGED <<listing, listVer, cause>>
        BY <3>1
      <4> QED BY <4>1, <4>2, <4>3, HandlerKeepsIInv
    <3>2. ASSUME target[h] # NoCluster, pc'[h] = "apply",
                 listing' = [listing EXCEPT ![h] = Published(rows, target[h])],
                 listVer' = [listVer EXCEPT ![h] = tableVer[target[h]]],
                 pc' = [pc EXCEPT ![h] = "apply"],
                 UNCHANGED cause
          PROVE  IInv'
      <4>1. target[h] \in Clusters
        BY <3>2 DEF IInv, TypeOK
      <4>2. Published(rows, target[h]) \in SUBSET PromRule
        BY PublishedType DEF IInv, TypeOK, Table
      <4>3. /\ TypeOK'
            /\ \A g \in Handlers \ {h} : pc'[g] = pc[g] /\ listing'[g] = listing[g]
                                         /\ listVer'[g] = listVer[g]
        BY <3>2, <4>1, <4>2 DEF IInv, TypeOK, Stages
      <4>4. listing'[h] = Published(rows, target[h]) /\ listVer'[h] = tableVer[target[h]]
            /\ tableVer[target[h]] \in Nat
        BY <3>2, <4>1 DEF IInv, TypeOK
      <4>5. RequestOf(h)' /\ \A d \in Clusters : SyncDue(h, d) => SyncDue(h, d)'
        BY <3>2, <4>1, <4>4 DEF RequestOf, SyncDue
      <4>6. listVer'[h] <= tableVer[target[h]]
        BY <4>4
      <4>7. pc'[h] # "save"
        BY <3>2
      <4> QED BY <3>2, <4>3, <4>4, <4>5, <4>6, <4>7, HandlerKeepsIInv
    <3>3. ASSUME target[h] # NoCluster, Fail(h), UNCHANGED <<listing, listVer>>
          PROVE  IInv'
      <4> USE <3>3 DEF Fail
      <4>1. target[h] \in Clusters
        BY DEF IInv, TypeOK
      <4>2. TypeOK' /\ pc'[h] = "idle" /\ \A g \in Handlers \ {h} : pc'[g] = pc[g]
        BY DEF IInv, TypeOK, Stages, Causes
      <4>3. RequestOf(h)'
        BY <4>2 DEF RequestOf
      <4>4. \A d \in Clusters : cause[d] \subseteq cause'[d]
        BY DEF IInv, TypeOK
      <4>5. \A d \in Clusters : SyncDue(h, d) => cause'[d] # {}
        BY <4>1 DEF IInv, TypeOK, SyncDue
      <4> QED BY <4>2, <4>3, <4>4, <4>5, HandlerKeepsIInv
    <3>4. pc' = [pc EXCEPT ![h] = "apply"] => pc'[h] = "apply"
      BY DEF IInv, TypeOK
    <3> QED BY <3>1, <3>2, <3>3, <3>4
  <2>write. CASE ApplyDelete(h) \/ ApplyUpdate(h) \/ Create(h)
    <3>1. pc[h] \in {"apply", "create"} /\ target[h] \in Clusters
      BY <2>write DEF ApplyDelete, ApplyUpdate, Create, IInv, RequestOK, RequestOf
    <3>2. UNCHANGED <<tableVars, op, id, target, copy, listing, served, tableVer, listVer>>
      BY <2>write DEF ApplyDelete, ApplyUpdate, Create
    <3>3. \/ Land(h) /\ (Goto(h, "idle") \/ Goto(h, "create"))
          \/ Fail(h) /\ UNCHANGED <<crd, crdVer>>
          \/ pc[h] = "apply" /\ Goto(h, "create") /\ UNCHANGED <<crd, crdVer, cause>>
      BY <2>write DEF ApplyDelete, ApplyUpdate, Create
    <3>4. CASE Land(h) /\ (Goto(h, "idle") \/ Goto(h, "create"))
      BY <3>1, <3>2, <3>4, LandKeepsIInv
    <3>5. CASE Fail(h) /\ UNCHANGED <<crd, crdVer>>
      <4> USE <3>1, <3>2, <3>5 DEF Fail, Goto
      <4>1. TypeOK' /\ pc'[h] = "idle" /\ \A g \in Handlers \ {h} : pc'[g] = pc[g]
        BY DEF IInv, TypeOK, Stages, Causes
      <4>2. RequestOf(h)'
        BY <4>1 DEF RequestOf
      <4>3. \A d \in Clusters : cause[d] \subseteq cause'[d]
        BY DEF IInv, TypeOK
      <4>4. \A d \in Clusters : SyncDue(h, d) => cause'[d] # {}
        BY DEF IInv, TypeOK, SyncDue
      <4> QED BY <4>1, <4>2, <4>3, <4>4, HandlerKeepsIInv
    <3>6. CASE pc[h] = "apply" /\ Goto(h, "create") /\ UNCHANGED <<crd, crdVer, cause>>
      <4> USE <3>1, <3>2, <3>6 DEF Goto
      <4>1. TypeOK' /\ pc'[h] = "create" /\ \A g \in Handlers \ {h} : pc'[g] = pc[g]
        BY DEF IInv, TypeOK, Stages
      <4>2. RequestOf(h)'
        BY <4>1 DEF RequestOf
      <4>3. /\ listVer[h] <= tableVer[target[h]]
            /\ listVer[h] = tableVer[target[h]] => listing[h] = Published(rows, target[h])
        BY DEF IInv, VersionsOK
      <4>4. \A d \in Clusters : SyncDue(h, d) => SyncDue(h, d)'
        BY <4>1 DEF SyncDue
      <4> QED BY <4>1, <4>2, <4>3, <4>4, HandlerKeepsIInv
    <3> QED BY <3>3, <3>4, <3>5, <3>6
  <2> QED
    BY <1>h, <2>begin, <2>read, <2>reread, <2>add, <2>update, <2>del, <2>toggle, <2>fails,
       <2>list, <2>write DEF Step
<1> QED BY <1>u, <1>c, <1>h DEF Next

-----------------------------------------------------------------------------
\* The inductive invariant holds throughout.
THEOREM Invariance == Spec => []IInv
<1>1. Init => IInv
  BY InitIInv
<1>2. IInv /\ [Next]_vars => IInv'
  BY NextIInv
<1> QED BY <1>1, <1>2, PTL DEF Spec

\* Every variable of AlertRules keeps its type.
THEOREM TypeCorrect == Spec => []TypeOK
<1>1. IInv => TypeOK
  BY DEF IInv
<1> QED BY <1>1, Invariance, PTL

\* The PrometheusRule of a cluster is behind the alert_rule table only while a
\* sync is due or for one of the listed causes, for any number of overlapping
\* AddRule, UpdateRule, DelRule and ToggleRule requests, faults and restarts.
THEOREM StaleOnlyForCause == Spec => []StaleHasCause
<1>1. IInv => StaleHasCause
  BY DEF IInv, VersionsOK, BehindHasCause, StaleHasCause
<1> QED BY <1>1, Invariance, PTL

-----------------------------------------------------------------------------
\* "SyncPrometheusRule syncs all enabled MRBoard rules to a PrometheusRule CRD", as
\* far as it is true: once every handler has answered and no cause is on record, an
\* enabled rule is missing from its cluster's object only if the cluster has SyncLimit
\* newer rows, enabled or not; and the object holds nothing but enabled rules.
THEOREM OnlyNewestPublished ==
    Spec => []((\A h \in Handlers : pc[h] = "idle") =>
                 \A c \in Clusters : cause[c] = {} =>
                   /\ crd[c] \subseteq PromRules(rows, RowsOf(rows, c))
                   /\ \A r \in RowsOf(rows, c) :
                        Publishable(rows[r]) /\ [rule |-> r, body |-> rows[r].body] \notin crd[c]
                          => Cardinality({s \in RowsOf(rows, c) : s > r}) >= SyncLimit)
<1> DEFINE Q == (\A h \in Handlers : pc[h] = "idle") =>
                  \A c \in Clusters : cause[c] = {} =>
                    /\ crd[c] \subseteq PromRules(rows, RowsOf(rows, c))
                    /\ \A r \in RowsOf(rows, c) :
                         Publishable(rows[r]) /\ [rule |-> r, body |-> rows[r].body] \notin crd[c]
                           => Cardinality({s \in RowsOf(rows, c) : s > r}) >= SyncLimit
<1>1. StaleHasCause => Q
  <2> SUFFICES ASSUME StaleHasCause, \A h \in Handlers : pc[h] = "idle",
                      NEW c \in Clusters, cause[c] = {}
               PROVE  /\ crd[c] \subseteq PromRules(rows, RowsOf(rows, c))
                      /\ \A r \in RowsOf(rows, c) :
                           Publishable(rows[r]) /\ [rule |-> r, body |-> rows[r].body] \notin crd[c]
                             => Cardinality({s \in RowsOf(rows, c) : s > r}) >= SyncLimit
    OBVIOUS
  <2>1. \A h \in Handlers : ~SyncDue(h, c)
    BY DEF SyncDue
  <2>2. crd[c] = PromRules(rows, Listed(rows, c))
    BY <2>1 DEF StaleHasCause, Published
  <2>3. crd[c] \subseteq PromRules(rows, RowsOf(rows, c))
    BY <2>2 DEF PromRules, Listed
  <2>4. ASSUME NEW r \in RowsOf(rows, c), Publishable(rows[r]),
               [rule |-> r, body |-> rows[r].body] \notin crd[c]
        PROVE  Cardinality({s \in RowsOf(rows, c) : s > r}) >= SyncLimit
    <3> DEFINE Newer == {s \in RowsOf(rows, c) : s > r}
    <3>1. IsFiniteSet(Rules)
      BY AlertRulesAssumption, FS_Interval DEF Rules
    <3>2. Newer \in SUBSET Rules
      BY DEF RowsOf
    <3>3. Cardinality(Newer) \in Nat /\ SyncLimit \in Nat
      BY <3>1, <3>2, FS_Subset, FS_CardinalityType, AlertRulesAssumption
    <3>4. r \notin Listed(rows, c)
      BY <2>2, <2>4 DEF PromRules
    <3>5. ~(Cardinality(Newer) < SyncLimit)
      BY <3>4 DEF Listed
    <3> QED BY <3>3, <3>5
  <2> QED BY <2>3, <2>4
<1> HIDE DEF Q
<1>2. Spec => []Q
  BY <1>1, StaleOnlyForCause, PTL
<1> QED BY <1>2 DEF Q
=============================================================================
