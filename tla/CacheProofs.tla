----------------------------- MODULE CacheProofs -----------------------------
(***************************************************************************)
(* The two caches between a page and what it is about: the process-wide    *)
(* maps of KubeConfigCache and the Redis lists of ResourceLists.  Neither  *)
(* reads the other's state, so each is proved by itself, from its own      *)
(* module's assumption and no theorem of the other: the first for any      *)
(* clusters, columns, readers, writers and number of changes; the second   *)
(* for any kind, any resources, any number of request and rebuild          *)
(* goroutines, requests, changes and restarts.                             *)
(***************************************************************************)
EXTENDS KubeConfigCache, ResourceLists, TLAPS

-----------------------------------------------------------------------------
(* The maps of KubeConfigCache.                                            *)

\* StaleEntryHasCause is inductive beside the types.
MapsIInv == MapsTypeOK /\ StaleEntryHasCause

LEMMA MapsTypeStep == MapsTypeOK /\ [MapsNext]_mapVars => MapsTypeOK'
<1> SUFFICES ASSUME MapsTypeOK, [MapsNext]_mapVars PROVE MapsTypeOK'
  OBVIOUS
<1> USE KubeConfigCacheAssumption DEF MapsTypeOK
<1>u. CASE UNCHANGED mapVars
  BY <1>u DEF mapVars, readVars
<1>r. ASSUME NEW r \in Readers, ReaderStep(r) \/ \E k \in Columns, c \in Clusters : Ask(r, k, c)
      PROVE  MapsTypeOK'
  <2>1. CASE \E k \in Columns, c \in Clusters : Ask(r, k, c)
    BY <2>1 DEF Ask, TurnTo
  <2>2. CASE Lookup(r)
    BY <2>2 DEF Lookup, TurnTo
  <2>3. CASE Select(r)
    BY <2>3 DEF Select, TurnTo
  <2>4. CASE Load(r)
    <3>1. Loaded(cid[r], row[r]) \in [Clusters -> Values \cup {Absent}]
      BY DEF Loaded
    <3>2. maps' \in [Columns -> [Clusters -> Values \cup {Absent}]]
      BY <2>4, <3>1 DEF Load
    <3>3. cause' \in [Columns -> [Clusters -> SUBSET Causes]]
      BY <2>4 DEF Load, Causes
    <3>4. touched' \in [Readers -> SUBSET {"load", "evict"}]
      BY <2>4 DEF Load, Touch
    <3> QED BY <2>4, <3>2, <3>3, <3>4 DEF Load, TurnTo
  <2>5. CASE Again(r)
    BY <2>5 DEF Again, TurnTo
  <2> QED BY <1>r, <2>1, <2>2, <2>3, <2>4, <2>5 DEF ReaderStep
<1>w. ASSUME NEW w \in Writers, NEW c \in Clusters,
             \/ Add(w, c) \/ Del(w, c)
             \/ \E k \in Columns : Edit(w, c, k)
             \/ \E d \in Clusters : Update(w, c, d)
      PROVE  MapsTypeOK'
  <2>1. \A ks \in SUBSET Columns, v \in Values \cup {Absent} :
           SetRow(ks, c, v) \in [Columns -> [Clusters -> Values \cup {Absent}]]
    BY DEF SetRow
  <2>2. \A ks \in SUBSET Columns : LeftBehind(ks, c) \in [Columns -> [Clusters -> SUBSET Causes]]
    BY DEF LeftBehind, Causes
  <2>3. NextVer => ver \in Values /\ ver' \in 0..MaxVer
    BY DEF NextVer, Values
  <2>4. CASE Add(w, c)
    BY <2>1, <2>2, <2>3, <2>4 DEF Add, readVars
  <2>5. CASE Del(w, c)
    BY <2>1, <2>2, <2>5 DEF Del, readVars
  <2>6. ASSUME NEW k \in Columns, Edit(w, c, k) PROVE MapsTypeOK'
    BY <2>1, <2>2, <2>3, <2>6 DEF Edit, readVars
  <2>7. ASSUME NEW d \in Clusters, Update(w, c, d) PROVE MapsTypeOK'
    <3>1. table' \in [Columns -> [Clusters -> Values \cup {Absent}]]
      BY <2>3, <2>7 DEF Update
    <3>2. cause' \in [Columns -> [Clusters -> SUBSET Causes]]
      BY <2>2, <2>7 DEF Update
    <3> QED BY <2>3, <2>7, <3>1, <3>2 DEF Update, readVars
  <2> QED BY <1>w, <2>4, <2>5, <2>6, <2>7
<1>e. ASSUME NEW w \in Writers, NEW k \in Columns, Evict(w, k) PROVE MapsTypeOK'
  BY <1>e DEF Evict
<1>s. CASE Restart
  BY <1>s DEF Restart
<1> QED BY <1>u, <1>r, <1>w, <1>e, <1>s DEF MapsNext

-----------------------------------------------------------------------------
\* What StaleEntryHasCause says of one entry.
Excused(k, c) ==
    \/ maps[k][c] \in {Absent, table[k][c]}
    \/ \E w \in Writers : k \in todo[w] /\ wid[w] = c
    \/ cause[k][c] # {}

LEMMA MapsInitIInv == MapsInit => MapsIInv
<1> SUFFICES ASSUME MapsInit PROVE MapsIInv
  OBVIOUS
<1> USE KubeConfigCacheAssumption DEF MapsInit
<1>1. MapsTypeOK
  BY DEF MapsTypeOK, Values
<1>2. StaleEntryHasCause
  BY DEF StaleEntryHasCause
<1> QED BY <1>1, <1>2 DEF MapsIInv

\* A load leaves every entry equal to the table's, or marks it.
LEMMA LoadExcuses ==
  ASSUME MapsTypeOK, StaleEntryHasCause, NEW r \in Readers, Load(r),
         NEW k \in Columns, NEW c \in Clusters
  PROVE  Excused(k, c)'
<1> USE DEF MapsTypeOK, Load, Excused
<1>0. Excused(k, c)
  BY DEF StaleEntryHasCause
<1>1. CASE k # col[r]
  <2>1. maps'[k] = maps[k] /\ cause'[k] = cause[k]
    BY <1>1
  <2> QED BY <1>0, <2>1
<1>2. CASE k = col[r] /\ c = cid[r] /\ row[r] # Absent
  <2>1. maps'[k][c] = row[r]
    BY <1>2 DEF Loaded
  <2>2. row[r] # table[k][c] => cause'[k][c] = {"late load"}
    BY <1>2
  <2> QED BY <2>1, <2>2
<1>3. CASE k = col[r] /\ ~(c = cid[r] /\ row[r] # Absent)
  <2>1. maps'[k][c] = Absent
    BY <1>3 DEF Loaded
  <2> QED BY <2>1
<1> QED BY <1>1, <1>2, <1>3

\* A change of the table marks the entries it passes by, and spares none.
LEMMA ChangeExcuses ==
  ASSUME MapsTypeOK, StaleEntryHasCause, NEW w \in Writers, NEW c \in Clusters,
         \/ Add(w, c) \/ Del(w, c)
         \/ \E k \in Columns : Edit(w, c, k)
         \/ \E d \in Clusters : Update(w, c, d),
         NEW k \in Columns, NEW e \in Clusters
  PROVE  Excused(k, e)'
<1> USE DEF MapsTypeOK, Excused
<1>0. Excused(k, e)
  BY DEF StaleEntryHasCause
\* A writer that has entries to delete still has them.
<1>1. ASSUME NEW v \in Writers, k \in todo[v] PROVE k \in todo'[v] /\ wid'[v] = wid[v]
  BY <1>1 DEF Add, Del, Edit, Update
<1>2. maps' = maps
  BY DEF Add, Del, Edit, Update
<1>3. ASSUME NEW ks \in SUBSET Columns, NEW v, table' = SetRow(ks, c, v),
             cause' = LeftBehind(ks, c)
      PROVE  Excused(k, e)'
  <2>1. CASE k \in ks /\ e = c
    BY <1>2, <1>3, <2>1 DEF LeftBehind
  <2>2. CASE ~(k \in ks /\ e = c)
    <3>1. table'[k][e] = table[k][e]
      BY <1>3, <2>2 DEF SetRow
    <3>2. cause[k][e] \subseteq cause'[k][e]
      BY <1>3, <2>2 DEF LeftBehind
    <3> QED BY <1>0, <1>1, <1>2, <3>1, <3>2
  <2> QED BY <2>1, <2>2
<1>4. CASE Add(w, c)
  BY <1>3, <1>4 DEF Add
<1>5. CASE Del(w, c)
  BY <1>3, <1>5 DEF Del
<1>6. ASSUME NEW j \in Columns, Edit(w, c, j) PROVE Excused(k, e)'
  <2>1. {j} \in SUBSET Columns
    OBVIOUS
  <2> QED BY <1>3, <1>6, <2>1 DEF Edit
<1>7. ASSUME NEW d \in Clusters, Update(w, c, d) PROVE Excused(k, e)'
  <2>1. CASE e = d
    <3>1. k \in todo'[w] /\ wid'[w] = d
      BY <1>7 DEF Update
    <3> QED BY <2>1, <3>1
  <2>2. CASE e # d /\ e = c
    <3>1. maps[k][c] # Absent => cause'[k][c] # {}
      BY <1>7, <2>2 DEF Update, LeftBehind
    <3> QED BY <1>2, <2>2, <3>1
  <2>3. CASE e # d /\ e # c
    <3>1. table'[k][e] = table[k][e]
      BY <1>7, <2>3 DEF Update
    <3>2. cause[k][e] \subseteq cause'[k][e]
      BY <1>7, <2>3 DEF Update, LeftBehind
    <3> QED BY <1>0, <1>1, <1>2, <3>1, <3>2
  <2> QED BY <2>1, <2>2, <2>3
<1> QED BY <1>4, <1>5, <1>6, <1>7

LEMMA MapsStep == MapsIInv /\ [MapsNext]_mapVars => StaleEntryHasCause'
<1> SUFFICES ASSUME MapsTypeOK, StaleEntryHasCause, [MapsNext]_mapVars,
                    NEW k \in Columns, NEW c \in Clusters
             PROVE  Excused(k, c)'
  BY DEF MapsIInv, StaleEntryHasCause, Excused
<1>0. Excused(k, c)
  BY DEF StaleEntryHasCause, Excused
<1>u. ASSUME UNCHANGED <<table, maps, todo, wid, cause>> PROVE Excused(k, c)'
  BY <1>0, <1>u DEF Excused
<1>v. CASE UNCHANGED mapVars
  BY <1>u, <1>v DEF mapVars
<1>r. ASSUME NEW r \in Readers, ReaderStep(r) \/ \E j \in Columns, d \in Clusters : Ask(r, j, d)
      PROVE  Excused(k, c)'
  BY <1>r, <1>u, LoadExcuses DEF ReaderStep, Ask, Lookup, Select, Again
<1>w. ASSUME NEW w \in Writers, NEW d \in Clusters,
             \/ Add(w, d) \/ Del(w, d)
             \/ \E j \in Columns : Edit(w, d, j)
             \/ \E e \in Clusters : Update(w, d, e)
      PROVE  Excused(k, c)'
  BY <1>w, ChangeExcuses
<1>e. ASSUME NEW w \in Writers, NEW j \in Columns, Evict(w, j) PROVE Excused(k, c)'
  <2> USE <1>e DEF MapsTypeOK, Evict, Excused
  <2>1. CASE k = j /\ c = wid[w]
    <3>1. maps'[k][c] = Absent
      BY <2>1
    <3> QED BY <3>1
  <2>2. CASE ~(k = j /\ c = wid[w])
    <3>1. maps'[k][c] = maps[k][c]
      BY <2>2
    <3>2. cause'[k][c] = cause[k][c]
      BY <2>2
    <3>3. ASSUME NEW v \in Writers, k \in todo[v], wid[v] = c
          PROVE  k \in todo'[v] /\ wid'[v] = c
      BY <2>2, <3>3
    <3> QED BY <1>0, <3>1, <3>2, <3>3
  <2> QED BY <2>1, <2>2
<1>s. CASE Restart
  BY <1>s DEF Restart, Excused
<1> QED BY <1>v, <1>r, <1>w, <1>e, <1>s DEF MapsNext

\* The types and the excuse of every stale entry hold together throughout.
THEOREM MapsInvariance == MapsSpec => []MapsIInv
<1>1. MapsIInv /\ [MapsNext]_mapVars => MapsIInv'
  BY MapsTypeStep, MapsStep DEF MapsIInv
<1> QED BY <1>1, MapsInitIInv, PTL DEF MapsSpec

\* The maps, the table and every goroutine's variables keep their types,
\* whatever lookups and changes overlap.
THEOREM MapsTypeCorrect == MapsSpec => []MapsTypeOK
BY MapsInvariance, PTL DEF MapsIInv

\* An entry of ClusterMap and its companions differs from the table only for
\* one of the causes the model names: no interleaving adds another one.
THEOREM StaleEntryOnlyForCause == MapsSpec => []StaleEntryHasCause
BY MapsInvariance, PTL DEF MapsIInv

-----------------------------------------------------------------------------
(* Lookups that found the row and lost its entry.                          *)

\* What a reader past its load knows: the row it selected is in the map, or
\* another goroutine changed the map after it.
Kept(r) ==
    pc[r] = "again" /\ row[r] # Absent =>
        maps[col[r]][cid[r]] # Absent \/ touched[r] # {}

LoadedIsThere == \A r \in Readers : Kept(r)

\* A step that leaves reader r's variables and the maps alone, or only marks r.
LEMMA OthersKeep ==
  ASSUME NEW r \in Readers, Kept(r), maps' = maps, pc'[r] = pc[r],
         col'[r] = col[r], cid'[r] = cid[r], row'[r] = row[r],
         touched'[r] = touched[r]
  PROVE  Kept(r)'
BY DEF Kept

LEMMA KeptStep == MapsTypeOK /\ LoadedIsThere /\ [MapsNext]_mapVars => LoadedIsThere'
<1> SUFFICES ASSUME MapsTypeOK, LoadedIsThere, [MapsNext]_mapVars, NEW r \in Readers
             PROVE  Kept(r)'
  BY DEF LoadedIsThere
<1> USE DEF MapsTypeOK
<1>0. Kept(r)
  BY DEF LoadedIsThere
<1>v. CASE UNCHANGED mapVars
  BY <1>0, <1>v, OthersKeep DEF mapVars, readVars
\* The reader itself: it is past its load only by its own load.
<1>o. ASSUME ReaderStep(r) \/ \E k \in Columns, c \in Clusters : Ask(r, k, c)
      PROVE  Kept(r)'
  <2>1. CASE Load(r)
    <3>1. maps'[col[r]] = Loaded(cid[r], row[r])
      BY <2>1 DEF Load
    <3>2. row[r] # Absent => maps'[col[r]][cid[r]] = row[r]
      BY <3>1 DEF Loaded
    <3> QED BY <2>1, <3>2 DEF Load, Kept
  <2>2. CASE ~Load(r)
    <3>1. pc'[r] # "again"
      BY <1>o, <2>2 DEF ReaderStep, Ask, Lookup, Select, Again, TurnTo
    <3> QED BY <3>1 DEF Kept
  <2> QED BY <2>1, <2>2
\* Another reader: only its load touches the map, and says so.
<1>r. ASSUME NEW q \in Readers, q # r,
             ReaderStep(q) \/ \E k \in Columns, c \in Clusters : Ask(q, k, c)
      PROVE  Kept(r)'
  <2>1. CASE Load(q)
    <3>1. pc'[r] = pc[r] /\ UNCHANGED <<col, cid, row>>
      BY <1>r, <2>1 DEF Load, TurnTo
    <3>2. CASE pc[r] = "again" /\ col[r] = col[q]
      <4>1. touched'[r] = touched[r] \cup {"load"}
        BY <1>r, <2>1, <3>2 DEF Load, Touch
      <4> QED BY <4>1 DEF Kept
    <3>3. CASE pc[r] = "again" /\ col[r] # col[q]
      <4>1. touched'[r] = touched[r]
        BY <1>r, <2>1, <3>3 DEF Load, Touch
      <4>2. maps'[col[r]] = maps[col[r]]
        BY <2>1, <3>3 DEF Load
      <4> QED BY <1>0, <3>1, <4>1, <4>2 DEF Kept
    <3>4. CASE pc[r] # "again"
      BY <3>1, <3>4 DEF Kept
    <3> QED BY <3>2, <3>3, <3>4
  <2>2. CASE ~Load(q)
    <3>1. maps' = maps /\ pc'[r] = pc[r] /\ col'[r] = col[r] /\ cid'[r] = cid[r]
          /\ row'[r] = row[r] /\ touched'[r] = touched[r]
      BY <1>r, <2>2 DEF ReaderStep, Ask, Lookup, Select, Again, TurnTo
    <3> QED BY <1>0, <3>1, OthersKeep
  <2> QED BY <2>1, <2>2
<1>w. ASSUME NEW w \in Writers, NEW c \in Clusters,
             \/ Add(w, c) \/ Del(w, c)
             \/ \E k \in Columns : Edit(w, c, k)
             \/ \E d \in Clusters : Update(w, c, d)
      PROVE  Kept(r)'
  <2>1. UNCHANGED <<maps, readVars>>
    BY <1>w DEF Add, Del, Edit, Update
  <2> QED BY <1>0, <2>1, OthersKeep DEF readVars
\* An eviction of the reader's own entry is recorded with the reader.
<1>e. ASSUME NEW w \in Writers, NEW k \in Columns, Evict(w, k) PROVE Kept(r)'
  <2>1. UNCHANGED <<pc, col, cid, row>>
    BY <1>e DEF Evict
  <2>2. CASE pc[r] = "again" /\ col[r] = k /\ cid[r] = wid[w]
    <3>1. touched'[r] = touched[r] \cup {"evict"}
      BY <1>e, <2>2 DEF Evict
    <3> QED BY <3>1 DEF Kept
  <2>3. CASE ~(pc[r] = "again" /\ col[r] = k /\ cid[r] = wid[w])
    <3>1. touched'[r] = touched[r]
      BY <1>e, <2>3 DEF Evict
    <3>2. pc[r] = "again" => maps'[col[r]][cid[r]] = maps[col[r]][cid[r]]
      BY <1>e, <2>3 DEF Evict
    <3> QED BY <1>0, <2>1, <3>1, <3>2 DEF Kept
  <2> QED BY <2>2, <2>3
<1>s. CASE Restart
  BY <1>s DEF Restart, Kept
<1> QED BY <1>v, <1>o, <1>r, <1>w, <1>e, <1>s DEF MapsNext

\* A lookup whose SELECT returned a row answers "errClusterId" only when
\* another goroutine loaded or evicted the map after it: with no overlap a
\* cluster that is in the table is found.
THEOREM LostOnlyByOthers == MapsSpec => LostEntryWasTouched
<1>1. MapsInit => LoadedIsThere
  BY DEF MapsInit, LoadedIsThere, Kept
<1>2. ASSUME LoadedIsThere, NEW r \in Readers, AnswersNothing(r), row[r] # Absent
      PROVE  touched[r] # {}
  BY <1>2 DEF LoadedIsThere, Kept, AnswersNothing, Again
<1>3. MapsTypeOK /\ LoadedIsThere /\ [MapsNext]_mapVars =>
        [\A r \in Readers : (AnswersNothing(r) /\ row[r] # Absent) => touched[r] # {}]_mapVars
  BY <1>2
<1> QED BY <1>1, <1>3, KeptStep, MapsTypeCorrect, PTL DEF MapsSpec, LostEntryWasTouched

-----------------------------------------------------------------------------
(* The lists of ResourceLists.                                             *)

\* The handler h has changed r and its ClearCache has not looked for keys yet.
Unlooked(h, r) == At(h, "keys") /\ r \in proc[h].changed

\* The same as StaleHasCause of a list that is on its way to the cache: once a
\* ClearCache has looked for keys it will not find that list any more.
ReadHasCause ==
    \A p \in Procs : (proc[p] # None /\ proc[p].rows # None) =>
        \A r \in Resources : proc[p].rows[r] # live[r] =>
            \/ r \in proc[p].excused
            \/ \E h \in Handlers : Unlooked(h, r)

IInv == TypeOK /\ StaleHasCause /\ ReadHasCause

-----------------------------------------------------------------------------
(* Types.                                                                  *)

LEMMA ExcuseTask ==
    ASSUME NEW x \in Tasks \cup {None}, NEW rs \in SUBSET Resources
    PROVE  /\ Excuse(x, rs) \in Tasks \cup {None}
           /\ (Excuse(x, rs) = None) = (x = None)
           /\ x # None => /\ Excuse(x, rs) \in Tasks
                          /\ Excuse(x, rs).stage = x.stage
                          /\ Excuse(x, rs).rows = x.rows
                          /\ Excuse(x, rs).changed = x.changed
                          /\ Excuse(x, rs).rest = x.rest
                          /\ x.excused \subseteq Excuse(x, rs).excused
                          /\ x.rows # None => rs \subseteq Excuse(x, rs).excused
BY ResourceListsAssumption DEF Excuse, Tasks

LEMMA ExcuseList ==
    ASSUME NEW x \in Lists \cup {None}, NEW rs \in SUBSET Resources
    PROVE  /\ Excuse(x, rs) \in Lists \cup {None}
           /\ (Excuse(x, rs) = None) = (x = None)
           /\ x # None => /\ Excuse(x, rs).rows = x.rows
                          /\ x.excused \cup rs \subseteq Excuse(x, rs).excused
BY ResourceListsAssumption DEF Excuse, Lists, Rows

LEMMA TaskType ==
    ASSUME NEW stage \in Stages, NEW op \in Ops, NEW key \in Keys,
           NEW res \in Resources \cup {None}, NEW val \in Vals \cup {None}
    PROVE  Task(stage, op, key, res, val) \in Tasks
BY DEF Task, Tasks

LEMMA StoredType ==
    ASSUME TypeOK, NEW p \in Procs, NEW k \in Keys, proc[p] # None, proc[p].rows # None
    PROVE  /\ Stored(p, k) \in Lists
           /\ Stored(p, k) # None
BY ResourceListsAssumption DEF TypeOK, ProcsOK, Stored, Lists, Rows, Tasks, Of, Resources

\* The state x of a goroutine has what its stage needs.
Fit(x) == x \in Tasks \cup {None} /\ (x # None =>
            /\ x.stage \in {"insert", "count", "store"} => x.rows # None
            /\ x.stage = "apply" => x.res # None
            /\ x.stage \in {"apply", "keys"} => x.rows = None)

LEMMA FitProcs == ProcsOK <=> /\ proc = [p \in Procs |-> proc[p]]
                              /\ \A p \in Procs : Fit(proc[p])
BY DEF ProcsOK, Fit, At

\* One goroutine changes its state, those of others may be excused.
LEMMA ExcusedProcs ==
    ASSUME ProcsOK, NEW h \in Procs, NEW x, Fit(x), NEW rs \in SUBSET Resources,
           proc' = [p \in Procs |-> IF p = h THEN x ELSE Excuse(proc[p], rs)]
    PROVE  ProcsOK'
<1>1. ASSUME NEW p \in Procs PROVE Fit(proc'[p])
  <2>1. CASE p = h
    BY <2>1
  <2>2. CASE p # h
    <3>1. proc[p] \in Tasks \cup {None} /\ Fit(proc[p]) /\ proc'[p] = Excuse(proc[p], rs)
      BY <2>2, FitProcs DEF Fit
    <3>2. proc[p] # None => Excuse(proc[p], rs).res = proc[p].res
      BY DEF Excuse
    <3> QED BY <3>1, <3>2, ExcuseTask DEF Fit
  <2> QED BY <2>1, <2>2
<1>2. proc' = [p \in Procs |-> proc'[p]]
  OBVIOUS
<1> QED BY <1>1, <1>2 DEF ProcsOK, Fit, At

LEMMA OneProc ==
    ASSUME ProcsOK, NEW h \in Procs, NEW x, Fit(x), proc' = [proc EXCEPT ![h] = x]
    PROVE  ProcsOK'
BY DEF ProcsOK, Fit, At

\* A goroutine goes on to a stage that needs no more than it has.
LEMMA GotoType ==
    ASSUME ProcsOK, NEW p \in Procs, NEW stage \in Stages \ {"apply"}, proc[p] # None,
           Goto(p, stage), proc[p].rows # None \/ stage \notin {"insert", "count", "store"},
           proc[p].rows = None \/ stage # "keys"
    PROVE  ProcsOK'
<1>1. Fit([proc[p] EXCEPT !.stage = stage])
  BY DEF ProcsOK, Tasks, Fit
<1>2. proc' = [proc EXCEPT ![p] = [proc[p] EXCEPT !.stage = stage]]
  BY DEF Goto
<1> QED BY <1>1, <1>2, OneProc

LEMMA AnswerType ==
    ASSUME ProcsOK, NEW p \in Procs, Answer(p)
    PROVE  ProcsOK'
BY OneProc DEF Answer, Fit

LEMMA BeginType ==
    ASSUME ProcsOK, NEW h \in Procs,
           NEW stage \in {"list", "apply", "keys", "lock"}, NEW op \in Ops, NEW key \in Keys,
           NEW res \in Resources \cup {None}, NEW val \in Vals \cup {None},
           stage = "apply" => res # None,
           proc' = [proc EXCEPT ![h] = Task(stage, op, key, res, val)]
    PROVE  ProcsOK'
<1>1. Task(stage, op, key, res, val) \in Tasks
  BY TaskType DEF Stages
<1>2. Fit(Task(stage, op, key, res, val))
  BY <1>1 DEF Task, Fit
<1> QED BY <1>2, OneProc

LEMMA LookType ==
    ASSUME TypeOK, NEW h \in Handlers, NEW k \in Spaces \cup {All}, Look(h, k)
    PROVE  TypeOK'
<1>1. CASE Kind.hits /\ cache[k] # None
  BY <1>1, ResourceListsAssumption DEF Look, TypeOK, ProcsOK, At
<1>2. CASE ~(Kind.hits /\ cache[k] # None)
  <2>1. Begin(h, "list", "page", k, None, None)
    BY <1>2 DEF Look
  <2>2. h \in Procs /\ k \in Keys /\ "page" \in Ops
    BY DEF Procs, Keys, Ops
  <2>3. proc' = [proc EXCEPT ![h] = Task("list", "page", k, None, None)]
    BY <2>1 DEF Begin
  <2>4. ProcsOK'
    BY <2>2, <2>3, BeginType DEF TypeOK
  <2> QED BY <2>1, <2>4, ResourceListsAssumption DEF Begin, TypeOK
<1> QED BY <1>1, <1>2

LEMMA BeginHandlerType ==
    ASSUME TypeOK, NEW h \in Handlers,
           \/ \E op \in {"create", "edit"}, r \in Resources, v \in Vals : BeginChange(h, op, r, v)
           \/ \E r \in Resources : BeginChange(h, "delete", r, None)
           \/ BeginClear(h)
    PROVE  TypeOK'
<1>1. PICK stage \in {"apply", "keys"}, op \in Ops, r \in Resources \cup {None},
           v \in Vals \cup {None} :
             Begin(h, stage, op, All, r, v) /\ (stage = "apply" => r # None)
  BY ResourceListsAssumption DEF BeginChange, BeginClear, Ops
<1>2. h \in Procs /\ All \in Keys
  BY DEF Procs, Keys
<1>3. proc' = [proc EXCEPT ![h] = Task(stage, op, All, r, v)]
  BY <1>1 DEF Begin
<1>4. ProcsOK'
  BY <1>1, <1>2, <1>3, BeginType DEF TypeOK
<1> QED BY <1>1, <1>4, ResourceListsAssumption DEF Begin, TypeOK

LEMMA ReadListType ==
    ASSUME TypeOK, NEW p \in Procs, ReadList(p)
    PROVE  TypeOK'
<1>0. proc[p] # None
  BY DEF ReadList, At
<1>1. ASSUME Goto(p, "unlock") PROVE ProcsOK'
  BY <1>0, <1>1, GotoType DEF Stages, TypeOK
<1>2. ASSUME Answer(p) PROVE ProcsOK'
  BY <1>2, AnswerType DEF TypeOK
<1>3. ASSUME NEW rest \in SUBSET Resources, NEW stage \in Stages \ {"apply", "keys"},
             proc' = [proc EXCEPT ![p].rows = live, ![p].rest = rest, ![p].stage = stage]
      PROVE  ProcsOK'
  <2>1. [proc[p] EXCEPT !.rows = live, !.rest = rest, !.stage = stage] \in Tasks
    BY <1>0 DEF TypeOK, ProcsOK, Tasks
  <2>2. proc' = [proc EXCEPT ![p] = [proc[p] EXCEPT !.rows = live, !.rest = rest, !.stage = stage]]
    BY <1>3
  <2>3. [proc[p] EXCEPT !.rows = live, !.rest = rest, !.stage = stage].rows # None
    BY <1>0, ResourceListsAssumption DEF TypeOK, ProcsOK, Tasks
  <2>4. Fit([proc[p] EXCEPT !.rows = live, !.rest = rest, !.stage = stage])
    BY <1>0, <2>1, <2>3 DEF Fit, TypeOK, ProcsOK, Tasks
  <2> QED BY <2>2, <2>4, OneProc DEF TypeOK
<1> DEFINE found == IF p \in Workers THEN {r \in Resources : live[r] # None} ELSE {}
           then  == IF p \in Workers /\ \E r \in Resources : live[r] # None
                    THEN "insert" ELSE AfterRows(p)
<1>4. found \in SUBSET Resources /\ then \in Stages \ {"apply", "keys"}
  BY DEF AfterRows, Stages
<1>5. ASSUME proc' = [proc EXCEPT ![p].rows = live, ![p].rest = found, ![p].stage = then]
      PROVE  ProcsOK'
  <2> HIDE DEF found, then
  <2> QED BY <1>3, <1>4, <1>5
<1>6. \/ proc' = [proc EXCEPT ![p].rows = live, ![p].rest = found, ![p].stage = then]
      \/ Answer(p)
      \/ Goto(p, "unlock")
  BY DEF ReadList
<1>7. ProcsOK'
  BY <1>1, <1>2, <1>5, <1>6
<1> QED BY <1>7, ResourceListsAssumption DEF ReadList, TypeOK

LEMMA StoreType ==
    ASSUME TypeOK, NEW p \in Procs, StoreCount(p) \/ StoreList(p)
    PROVE  TypeOK'
<1>1. proc[p] # None /\ proc[p].rows # None /\ proc[p].key \in Keys
  BY DEF StoreCount, StoreList, At, TypeOK, ProcsOK, Tasks
<1>2. cache' \in [Keys -> Lists \cup {None}]
  BY <1>1, StoredType DEF StoreCount, StoreList, TypeOK, Keys
<1>3. ProcsOK'
  <2>1. ASSUME NEW stage \in Stages \ {"apply", "keys"}, Goto(p, stage) PROVE ProcsOK'
    BY <1>1, <2>1, GotoType DEF TypeOK
  <2>2. ASSUME Answer(p) PROVE ProcsOK'
    BY <2>2, AnswerType DEF TypeOK
  <2>3. Answer(p) \/ Goto(p, "store") \/ Goto(p, "unlock")
    BY DEF StoreCount, StoreList
  <2> QED BY <2>1, <2>2, <2>3 DEF Stages
<1>4. UNCHANGED <<live, index, locked, events, crashes>>
  BY DEF StoreCount, StoreList
<1> QED BY <1>2, <1>3, <1>4 DEF TypeOK

LEMMA ApplyType ==
    ASSUME TypeOK, NEW h \in Handlers, Apply(h)
    PROVE  TypeOK'
<1> DEFINE op == proc[h].op   r == proc[h].res   clears == op \in Kind.clears
<1>1. /\ h \in Procs /\ proc[h] # None /\ proc[h] \in Tasks
      /\ r \in Resources /\ proc[h].val \in Vals \cup {None} /\ proc[h].rows = None
  BY DEF Apply, At, Procs, TypeOK, ProcsOK, Tasks
<1>2. UNCHANGED <<index, locked, events, crashes>>
  BY DEF Apply
<1>3. ASSUME Becomes(op, r, proc[h].val), clears,
             proc' = [proc EXCEPT ![h].changed = {r}, ![h].stage = "keys"], cache' = cache
      PROVE  TypeOK'
  <2>1. Fit([proc[h] EXCEPT !.changed = {r}, !.stage = "keys"])
    BY <1>1 DEF Tasks, Stages, Fit
  <2>2. ProcsOK'
    BY <1>1, <1>3, <2>1, OneProc DEF TypeOK
  <2>3. live' \in Rows
    BY <1>1, <1>3 DEF Becomes, TypeOK, Rows
  <2> QED BY <1>2, <1>3, <2>2, <2>3 DEF TypeOK
<1>4. ASSUME Becomes(op, r, proc[h].val),
             cache' = [k \in Keys |-> Excuse(cache[k], {r})],
             proc' = [p \in Procs |-> IF p = h THEN None ELSE Excuse(proc[p], {r})]
      PROVE  TypeOK'
  <2>1. ProcsOK'
    BY <1>1, <1>4, ExcusedProcs DEF TypeOK, Fit
  <2>2. cache' \in [Keys -> Lists \cup {None}]
    <3>1. \A k \in Keys : cache[k] \in Lists \cup {None}
      BY DEF TypeOK
    <3>2. {r} \in SUBSET Resources
      BY <1>1
    <3> HIDE DEF r
    <3>3. \A k \in Keys : Excuse(cache[k], {r}) \in Lists \cup {None}
      BY <3>1, <3>2, ExcuseList
    <3> QED BY <1>4, <3>3
  <2>3. live' \in Rows
    BY <1>1, <1>4 DEF Becomes, TypeOK, Rows
  <2> QED BY <1>2, <2>1, <2>2, <2>3 DEF TypeOK
<1>5. ASSUME Goto(h, "keys") \/ Answer(h), UNCHANGED <<live, cache>> PROVE TypeOK'
  <2>1. ProcsOK'
    BY <1>1, <1>5, GotoType, AnswerType DEF TypeOK, Stages
  <2> QED BY <1>2, <1>5, <2>1 DEF TypeOK
<1> QED BY <1>3, <1>4, <1>5 DEF Apply

\* ClearKeys of any of the key sets it may find.
LEMMA ClearKeysType ==
    ASSUME TypeOK, NEW h \in Handlers, ClearKeys(h)
    PROVE  TypeOK'
<1>1. h \in Procs /\ proc[h] # None /\ proc[h] \in Tasks /\ proc[h].changed \in SUBSET Resources
  BY DEF ClearKeys, At, Procs, TypeOK, ProcsOK, Tasks
<1>2. PICK found \in SUBSET Keys :
        /\ proc' = [p \in Procs |->
                      IF p = h
                      THEN [proc[h] EXCEPT !.rest = found,
                                           !.stage = IF found = {} THEN "dropCount" ELSE "drop"]
                      ELSE Excuse(proc[p], proc[h].changed)]
        /\ cache' = [k \in Keys |-> IF k \in found \cup {Count} THEN cache[k]
                                    ELSE Excuse(cache[k], proc[h].changed)]
  BY DEF ClearKeys
<1>3. Fit([proc[h] EXCEPT !.rest = found,
                          !.stage = IF found = {} THEN "dropCount" ELSE "drop"])
  BY <1>1 DEF Tasks, Stages, Fit
<1>4. ProcsOK'
  BY <1>1, <1>2, <1>3, ExcusedProcs DEF TypeOK
<1>5. cache' \in [Keys -> Lists \cup {None}]
  BY <1>1, <1>2, ExcuseList DEF TypeOK
<1> QED BY <1>4, <1>5 DEF ClearKeys, TypeOK

LEMMA DeletedType ==
    ASSUME TypeOK, NEW h \in Procs, NEW k, proc[h] # None, Deleted(h, k)
    PROVE  cache' \in [Keys -> Lists \cup {None}]
<1>1. proc[h].changed \in SUBSET Resources
  BY DEF TypeOK, ProcsOK, Tasks
<1>2. k \in Keys => Excuse(cache[k], proc[h].changed) \in Lists \cup {None}
  BY <1>1, ExcuseList DEF TypeOK
<1> QED BY <1>2 DEF Deleted, TypeOK

LEMMA ClearType ==
    ASSUME TypeOK, NEW h \in Handlers, ClearKey(h) \/ ClearCount(h)
    PROVE  TypeOK'
<1>1. h \in Procs /\ proc[h] # None /\ proc[h] \in Tasks
  BY DEF ClearKey, ClearCount, At, Procs, TypeOK, ProcsOK
<1>2. UNCHANGED <<live, index, locked, events, crashes>>
  BY DEF ClearKey, ClearCount
<1>3. CASE ClearCount(h)
  <2>1. cache' \in [Keys -> Lists \cup {None}]
    BY <1>1, <1>3, DeletedType DEF ClearCount
  <2>2. ProcsOK'
    BY <1>1, <1>3, AnswerType DEF ClearCount, TypeOK
  <2> QED BY <1>2, <2>1, <2>2 DEF TypeOK
<1>4. CASE ClearKey(h)
  <2>1. PICK k \in proc[h].rest :
          /\ Deleted(h, k)
          /\ proc' = [proc EXCEPT ![h].rest = @ \ {k},
                                  ![h].stage = IF proc[h].rest = {k} THEN "dropCount" ELSE @]
    BY <1>4 DEF ClearKey
  <2>2. cache' \in [Keys -> Lists \cup {None}]
    BY <1>1, <2>1, DeletedType
  <2>3. Fit([proc[h] EXCEPT !.rest = @ \ {k},
                            !.stage = IF proc[h].rest = {k} THEN "dropCount" ELSE @])
    BY <1>1, <1>4 DEF ClearKey, At, Tasks, Stages, Fit
  <2>4. ProcsOK'
    BY <1>1, <2>1, <2>3, OneProc DEF TypeOK
  <2> QED BY <1>2, <2>2, <2>4 DEF TypeOK
<1> QED BY <1>3, <1>4

LEMMA RebuildType ==
    ASSUME TypeOK, NEW w \in Workers,
           UpdateIndex(w) \/ TakeLock(w) \/ InsertRow(w) \/ Unlock(w)
    PROVE  TypeOK'
<1>1. w \in Procs
  BY DEF Procs
<1>2. CASE UpdateIndex(w)
  <2>1. "index" \in Ops /\ All \in Keys
    BY DEF Ops, Keys
  <2>2. ProcsOK'
    BY <1>1, <1>2, <2>1, BeginType DEF UpdateIndex, StartRebuild, TypeOK
  <2> QED BY <1>2, <2>2 DEF UpdateIndex, StartRebuild, TypeOK
<1>3. CASE TakeLock(w)
  <2>1. ProcsOK'
    BY <1>1, <1>3, GotoType DEF TakeLock, At, TypeOK, Stages
  <2> QED BY <1>3, <2>1 DEF TakeLock, TypeOK
<1>4. CASE InsertRow(w)
  <2>1. proc[w] # None /\ proc[w] \in Tasks /\ proc[w].rows # None
    BY <1>1, <1>4 DEF InsertRow, At, TypeOK, ProcsOK
  <2>2. PICK r \in proc[w].rest :
          /\ index' = [index EXCEPT ![r] = proc[w].rows[r]] \/ UNCHANGED index
          /\ proc' = [proc EXCEPT ![w].rest = @ \ {r},
                                  ![w].stage = IF proc[w].rest = {r} THEN "count" ELSE @]
    BY <1>4 DEF InsertRow
  <2>3. Fit([proc[w] EXCEPT !.rest = @ \ {r},
                            !.stage = IF proc[w].rest = {r} THEN "count" ELSE @])
    BY <1>4, <2>1 DEF InsertRow, At, Tasks, Stages, Fit
  <2>4. ProcsOK'
    BY <1>1, <2>2, <2>3, OneProc DEF TypeOK
  <2>5. index' \in Rows
    BY <2>1, <2>2 DEF TypeOK, Tasks, Rows
  <2> QED BY <1>4, <2>4, <2>5 DEF InsertRow, TypeOK
<1>5. CASE Unlock(w)
  <2>1. ProcsOK'
    BY <1>1, <1>5, AnswerType DEF Unlock, TypeOK
  <2> QED BY <1>5, <2>1 DEF Unlock, TypeOK
<1> QED BY <1>2, <1>3, <1>4, <1>5

LEMMA OutsideType ==
    ASSUME TypeOK, NEW r \in Resources, NEW v \in Vals \cup {None}, ChangeOutside(r, v)
    PROVE  TypeOK'
<1>1. ASSUME NEW p \in Procs PROVE Fit(Excuse(proc[p], {r}))
  <2>1. proc[p] \in Tasks \cup {None} /\ Fit(proc[p])
    BY FitProcs DEF TypeOK, Fit
  <2>2. proc[p] # None => Excuse(proc[p], {r}).res = proc[p].res
    BY DEF Excuse
  <2> QED BY <2>1, <2>2, ExcuseTask DEF Fit
<1>2. ProcsOK'
  BY <1>1 DEF ChangeOutside, ExcuseAll, ProcsOK, Fit, At
<1>3. cache' \in [Keys -> Lists \cup {None}]
  BY ExcuseList DEF ChangeOutside, ExcuseAll, TypeOK
<1>4. events' \in 0..MaxEvents
  BY ResourceListsAssumption DEF ChangeOutside, TypeOK
<1> QED BY <1>2, <1>3, <1>4 DEF ChangeOutside, TypeOK, Rows

\* What goroutines that end now would have cleared.
Undone == UNION {proc[p].changed : p \in {q \in Procs : proc[q] # None}}

LEMMA UndoneType == TypeOK => Undone \in SUBSET Resources
BY DEF Undone, TypeOK, ProcsOK, Tasks

LEMMA CrashType == TypeOK /\ Crash => TypeOK'
<1> SUFFICES ASSUME TypeOK, Crash PROVE TypeOK'
  OBVIOUS
<1>1. cache' = [k \in Keys |-> Excuse(cache[k], Undone)]
  BY DEF Crash, Undone
<1>2. cache' \in [Keys -> Lists \cup {None}]
  BY <1>1, UndoneType, ExcuseList DEF TypeOK
<1>3. ProcsOK'
  BY DEF Crash, ProcsOK, At
<1>4. crashes' \in 0..MaxCrashes
  BY ResourceListsAssumption DEF Crash, TypeOK
<1> QED BY <1>2, <1>3, <1>4 DEF Crash, TypeOK

LEMMA OtherType ==
    ASSUME TypeOK,
           \/ \E r \in Resources : DeleteRow(r)
           \/ \E k \in Keys : Expire(k)
           \/ LockExpires
           \/ UNCHANGED vars
    PROVE  TypeOK'
<1>1. UNCHANGED proc => ProcsOK'
  BY DEF TypeOK, ProcsOK, At
<1>2. CASE \E r \in Resources : DeleteRow(r)
  <2>1. events' \in 0..MaxEvents
    BY <1>2, ResourceListsAssumption DEF DeleteRow, TypeOK
  <2> QED BY <1>1, <1>2, <2>1 DEF DeleteRow, TypeOK, Rows
<1>3. CASE \E k \in Keys : Expire(k)
  BY <1>1, <1>3 DEF Expire, TypeOK
<1>4. CASE LockExpires
  BY <1>1, <1>4 DEF LockExpires, TypeOK
<1>5. CASE UNCHANGED vars
  BY <1>1, <1>5 DEF vars, TypeOK
<1> QED BY <1>2, <1>3, <1>4, <1>5

LEMMA TypeStep == TypeOK /\ [Next]_vars => TypeOK'
<1> SUFFICES ASSUME TypeOK, [Next]_vars PROVE TypeOK'
  OBVIOUS
<1>1. ASSUME NEW h \in Handlers, Serve(h) PROVE TypeOK'
  <2>1. h \in Procs
    BY DEF Procs
  <2> QED BY <1>1, <2>1, LookType, BeginHandlerType, ReadListType, StoreType, ApplyType,
             ClearKeysType, ClearType DEF Serve
<1>2. ASSUME NEW w \in Workers, UpdateIndex(w) \/ Rebuild(w) PROVE TypeOK'
  <2>1. w \in Procs
    BY DEF Procs
  <2> QED BY <1>2, <2>1, RebuildType, ReadListType, StoreType DEF Rebuild
<1> QED BY <1>1, <1>2, OutsideType, CrashType, OtherType DEF Next

LEMMA InitType == Init => TypeOK
<1> SUFFICES ASSUME Init PROVE TypeOK
  OBVIOUS
<1>1. live \in Rows /\ index \in Rows
  BY DEF Init, Rows
<1>2. ProcsOK
  BY DEF Init, ProcsOK, At
<1>3. events \in 0..MaxEvents /\ crashes \in 0..MaxCrashes
  BY ResourceListsAssumption DEF Init
<1>4. cache \in [Keys -> Lists \cup {None}] /\ locked \in BOOLEAN
  BY DEF Init
<1> QED BY <1>1, <1>2, <1>3, <1>4 DEF TypeOK

\* Every reachable state of the cached lists, the index and its lock has its type.
THEOREM TypeCorrect == Spec => []TypeOK
<1> QED BY InitType, TypeStep, PTL DEF Spec

-----------------------------------------------------------------------------
(* Causes.                                                                 *)

SomePending(k, r) == \E h \in Handlers : Pending(h, k, r)
SomeUnlooked(r)   == \E h \in Handlers : Unlooked(h, r)

\* What may become of the list under a key in one step: it stays, and what
\* changes or is no longer pending excuses it; or a list just read is stored.
Stays(k) ==
    /\ cache[k] # None
    /\ cache'[k].rows = cache[k].rows
    /\ cache[k].excused \subseteq cache'[k].excused
    /\ \A r \in Of(k) : live'[r] # live[r] \/ SomePending(k, r)
                          => r \in cache'[k].excused \/ SomePending(k, r)'

Arrives(k) ==
    /\ UNCHANGED live
    /\ \E p \in Procs : /\ proc[p] # None /\ proc[p].rows # None
                        /\ cache'[k] = Stored(p, k)
    /\ \A r \in Of(k) : SomeUnlooked(r) => SomePending(k, r)'

\* And of the list a goroutine has read.
Waits(p) ==
    /\ proc[p] # None /\ proc[p].rows # None
    /\ proc'[p].rows = proc[p].rows
    /\ proc[p].excused \subseteq proc'[p].excused
    /\ \A r \in Resources : live'[r] # live[r] \/ SomeUnlooked(r)
                              => r \in proc'[p].excused \/ SomeUnlooked(r)'

Reads(p) == UNCHANGED live /\ proc'[p].rows = live

\* The invariant is kept by any step of that kind.
LEMMA CausesKept ==
    ASSUME IInv,
           \A k \in Keys : cache'[k] # None => Stays(k) \/ Arrives(k),
           \A p \in Procs : (proc'[p] # None /\ proc'[p].rows # None) => Waits(p) \/ Reads(p)
    PROVE  StaleHasCause' /\ ReadHasCause'
<1>0. \A k \in Keys : Of(k) \subseteq Resources
  BY DEF Of, Resources
<1>1. StaleHasCause'
  <2> SUFFICES ASSUME NEW k \in Keys, cache'[k] # None, NEW r \in Of(k),
                      cache'[k].rows[r] # live'[r]
               PROVE  r \in cache'[k].excused \/ SomePending(k, r)'
    BY DEF StaleHasCause, SomePending
  <2>1. CASE Stays(k)
    <3>1. cache[k].rows[r] # live[r] => r \in cache[k].excused \/ SomePending(k, r)
      BY <2>1 DEF IInv, StaleHasCause, Stays, SomePending
    <3> QED BY <2>1, <3>1 DEF Stays
  <2>2. CASE Arrives(k)
    <3>1. PICK p \in Procs : proc[p] # None /\ proc[p].rows # None /\ cache'[k] = Stored(p, k)
      BY <2>2 DEF Arrives
    <3>2. r \in Resources /\ cache'[k].rows[r] = proc[p].rows[r]
      BY <1>0, <3>1 DEF Stored
    <3>3. r \in proc[p].excused \/ SomeUnlooked(r)
      BY <2>2, <3>1, <3>2 DEF IInv, ReadHasCause, SomeUnlooked, Arrives
    <3>4. r \in proc[p].excused => r \in cache'[k].excused
      BY <3>1 DEF Stored
    <3> QED BY <2>2, <3>3, <3>4 DEF Arrives
  <2> QED BY <2>1, <2>2
<1>2. ReadHasCause'
  <2> SUFFICES ASSUME NEW p \in Procs, proc'[p] # None, proc'[p].rows # None,
                      NEW r \in Resources, proc'[p].rows[r] # live'[r]
               PROVE  r \in proc'[p].excused \/ SomeUnlooked(r)'
    BY DEF ReadHasCause, SomeUnlooked
  <2>1. CASE Waits(p)
    <3>1. proc[p].rows[r] # live[r] => r \in proc[p].excused \/ SomeUnlooked(r)
      BY <2>1 DEF IInv, ReadHasCause, Waits, SomeUnlooked
    <3> QED BY <2>1, <3>1 DEF Waits
  <2>2. CASE Reads(p)
    BY <2>2 DEF Reads
  <2> QED BY <2>1, <2>2
<1> QED BY <1>1, <1>2

\* A goroutine that is about no ClearCache changes its state, the cluster and
\* the cache stay: nothing becomes of any list.
LEMMA OneProcKeeps ==
    ASSUME IInv, NEW p \in Procs, NEW x, proc' = [proc EXCEPT ![p] = x],
           UNCHANGED <<live, cache>>,
           proc[p] = None \/ proc[p].stage \notin {"keys", "drop", "dropCount"},
           x # None /\ x.rows # None =>
               \/ x.rows = live
               \/ proc[p] # None /\ x.rows = proc[p].rows /\ x.excused = proc[p].excused
    PROVE  StaleHasCause' /\ ReadHasCause'
<1>1. proc \in [Procs -> Tasks \cup {None}]
  BY DEF IInv, TypeOK, ProcsOK
<1>2. ASSUME NEW h \in Handlers, NEW r, NEW k, Pending(h, k, r) PROVE Pending(h, k, r)'
  <2>1. h # p /\ h \in Procs
    BY <1>2 DEF Pending, Procs
  <2> QED BY <1>1, <1>2, <2>1 DEF Pending
<1>3. ASSUME NEW h \in Handlers, NEW r, Unlooked(h, r) PROVE Unlooked(h, r)'
  <2>1. h # p /\ h \in Procs
    BY <1>3 DEF Unlooked, At, Procs
  <2> QED BY <1>1, <1>3, <2>1 DEF Unlooked, At
<1>4. ASSUME NEW k \in Keys, cache'[k] # None PROVE Stays(k)
  BY <1>2, <1>4 DEF Stays, SomePending
<1>5. ASSUME NEW q \in Procs, proc'[q] # None, proc'[q].rows # None PROVE Waits(q) \/ Reads(q)
  <2>1. CASE q # p
    BY <1>1, <1>3, <1>5, <2>1 DEF Waits, SomeUnlooked
  <2>2. CASE q = p
    BY <1>1, <1>3, <1>5, <2>2 DEF Waits, Reads, SomeUnlooked
  <2> QED BY <2>1, <2>2
<1> QED BY <1>4, <1>5, CausesKept

LEMMA SameKeeps == IInv /\ UNCHANGED <<live, cache, proc>> => StaleHasCause' /\ ReadHasCause'
BY DEF IInv, StaleHasCause, ReadHasCause, Pending, Unlooked, At

LEMMA BeginKeeps ==
    ASSUME IInv, NEW p \in Procs, NEW stage, NEW op, NEW key, NEW res, NEW val,
           proc[p] = None, UNCHANGED <<live, cache>>,
           proc' = [proc EXCEPT ![p] = Task(stage, op, key, res, val)]
    PROVE  StaleHasCause' /\ ReadHasCause'
<1>1. Task(stage, op, key, res, val).rows = None
  BY DEF Task
<1> QED BY <1>1, OneProcKeeps

LEMMA GotoKeeps ==
    ASSUME IInv, NEW p \in Procs, NEW stage, proc[p] # None, Goto(p, stage),
           proc[p].stage \notin {"keys", "drop", "dropCount"}, UNCHANGED <<live, cache>>
    PROVE  StaleHasCause' /\ ReadHasCause'
<1>1. proc' = [proc EXCEPT ![p] = [proc[p] EXCEPT !.stage = stage]]
  BY DEF Goto
<1>2. proc[p] \in Tasks
  BY DEF IInv, TypeOK, ProcsOK
<1>3. /\ [proc[p] EXCEPT !.stage = stage].rows = proc[p].rows
      /\ [proc[p] EXCEPT !.stage = stage].excused = proc[p].excused
  BY <1>2 DEF Tasks
<1> QED BY <1>1, <1>3, OneProcKeeps

LEMMA AnswerKeeps ==
    ASSUME IInv, NEW p \in Procs, Answer(p), UNCHANGED <<live, cache>>,
           proc[p].stage \notin {"keys", "drop", "dropCount"}
    PROVE  StaleHasCause' /\ ReadHasCause'
BY OneProcKeeps DEF Answer

LEMMA ReadListKeeps ==
    ASSUME IInv, NEW p \in Procs, ReadList(p)
    PROVE  StaleHasCause' /\ ReadHasCause'
<1>1. /\ proc[p] # None /\ proc[p] \in Tasks /\ UNCHANGED <<live, cache>>
      /\ proc[p].stage \notin {"keys", "drop", "dropCount"}
  BY DEF ReadList, At, IInv, TypeOK, ProcsOK
<1>2. CASE Answer(p) \/ Goto(p, "unlock")
  BY <1>1, <1>2, AnswerKeeps, GotoKeeps
<1>3. ASSUME NEW rest, NEW stage,
             proc' = [proc EXCEPT ![p].rows = live, ![p].rest = rest, ![p].stage = stage]
      PROVE  StaleHasCause' /\ ReadHasCause'
  <2>1. [proc[p] EXCEPT !.rows = live, !.rest = rest, !.stage = stage].rows = live
    BY <1>1 DEF Tasks
  <2>2. proc' = [proc EXCEPT ![p] = [proc[p] EXCEPT !.rows = live, !.rest = rest, !.stage = stage]]
    BY <1>3
  <2> QED BY <1>1, <2>1, <2>2, OneProcKeeps
<1> QED BY <1>2, <1>3 DEF ReadList

\* A list stored while a ClearCache has yet to look for keys is found by it.
LEMMA StoreKeeps ==
    ASSUME IInv, NEW p \in Procs, StoreCount(p) \/ StoreList(p)
    PROVE  StaleHasCause' /\ ReadHasCause'
<1>1. /\ proc[p] # None /\ proc[p].rows # None /\ proc[p] \in Tasks
      /\ proc[p].stage \in {"count", "store"} /\ UNCHANGED live
      /\ proc \in [Procs -> Tasks \cup {None}]
  BY DEF StoreCount, StoreList, At, IInv, TypeOK, ProcsOK
<1>2. \/ UNCHANGED cache
      \/ \E k \in Keys : cache' = [cache EXCEPT ![k] = Stored(p, k)]
  BY <1>1 DEF StoreCount, StoreList, Keys, Tasks
<1>3. PICK x : /\ proc' = [proc EXCEPT ![p] = x]
               /\ x # None => x.rows = proc[p].rows /\ x.excused = proc[p].excused
  <2>1. CASE Answer(p)
    BY <2>1 DEF Answer
  <2>2. ASSUME NEW stage, Goto(p, stage)
        PROVE  \E x : /\ proc' = [proc EXCEPT ![p] = x]
                      /\ x # None => x.rows = proc[p].rows /\ x.excused = proc[p].excused
    <3>1. proc' = [proc EXCEPT ![p] = [proc[p] EXCEPT !.stage = stage]]
      BY <2>2 DEF Goto
    <3>2. /\ [proc[p] EXCEPT !.stage = stage].rows = proc[p].rows
          /\ [proc[p] EXCEPT !.stage = stage].excused = proc[p].excused
      BY <1>1 DEF Tasks
    <3> QED BY <3>1, <3>2
  <2>3. Answer(p) \/ \E stage : Goto(p, stage)
    BY DEF StoreCount, StoreList
  <2> QED BY <2>1, <2>2, <2>3
<1>4. CASE UNCHANGED cache
  BY <1>1, <1>3, <1>4, OneProcKeeps
<1>5. ASSUME NEW k \in Keys, cache' = [cache EXCEPT ![k] = Stored(p, k)]
      PROVE  StaleHasCause' /\ ReadHasCause'
  <2>0. cache \in [Keys -> Lists \cup {None}]
    BY DEF IInv, TypeOK
  <2>1. ASSUME NEW h \in Handlers, NEW r, NEW j, Pending(h, j, r) PROVE Pending(h, j, r)'
    <3>1. h # p /\ h \in Procs
      BY <1>1, <2>1 DEF Pending, Procs
    <3> QED BY <1>1, <1>3, <2>1, <3>1 DEF Pending
  <2>2. ASSUME NEW h \in Handlers, NEW r, Unlooked(h, r)
        PROVE  Unlooked(h, r)' /\ \A j : Pending(h, j, r)
    <3>1. h # p /\ h \in Procs
      BY <1>1, <2>2 DEF Unlooked, At, Procs
    <3> QED BY <1>1, <1>3, <2>2, <3>1 DEF Unlooked, At, Pending
  <2>3. ASSUME NEW j \in Keys, cache'[j] # None PROVE Stays(j) \/ Arrives(j)
    <3>1. CASE j = k
      BY <1>1, <1>5, <2>0, <2>1, <2>2, <3>1 DEF Arrives, SomePending, SomeUnlooked
    <3>2. CASE j # k
      BY <1>1, <1>5, <2>0, <2>1, <2>3, <3>2 DEF Stays, SomePending
    <3> QED BY <3>1, <3>2
  <2>4. ASSUME NEW q \in Procs, proc'[q] # None, proc'[q].rows # None PROVE Waits(q) \/ Reads(q)
    BY <1>1, <1>3, <2>2, <2>4 DEF Waits, SomeUnlooked
  <2> QED BY <2>3, <2>4, CausesKept
<1> QED BY <1>2, <1>4, <1>5

LEMMA RebuildKeeps ==
    ASSUME IInv, NEW w \in Workers,
           UpdateIndex(w) \/ TakeLock(w) \/ InsertRow(w) \/ Unlock(w)
    PROVE  StaleHasCause' /\ ReadHasCause'
<1>1. w \in Procs
  BY DEF Procs
<1>2. CASE UpdateIndex(w)
  BY <1>1, <1>2, BeginKeeps DEF UpdateIndex, StartRebuild
<1>3. CASE TakeLock(w)
  BY <1>1, <1>3, GotoKeeps DEF TakeLock, At
<1>4. CASE Unlock(w)
  BY <1>1, <1>4, AnswerKeeps DEF Unlock, At
<1>5. CASE InsertRow(w)
  <2>1. proc[w] # None /\ proc[w] \in Tasks /\ proc[w].stage = "insert" /\ UNCHANGED <<live, cache>>
    BY <1>1, <1>5 DEF InsertRow, At, IInv, TypeOK, ProcsOK
  <2>2. PICK r : proc' = [proc EXCEPT ![w].rest = @ \ {r},
                                      ![w].stage = IF proc[w].rest = {r} THEN "count" ELSE @]
    BY <1>5 DEF InsertRow
  <2> DEFINE x == [proc[w] EXCEPT !.rest = @ \ {r},
                                  !.stage = IF proc[w].rest = {r} THEN "count" ELSE @]
  <2>3. x.rows = proc[w].rows /\ x.excused = proc[w].excused
    BY <2>1 DEF Tasks
  <2>4. proc' = [proc EXCEPT ![w] = x]
    BY <2>2
  <2> HIDE DEF x
  <2> QED BY <1>1, <2>1, <2>3, <2>4, OneProcKeeps
<1> QED BY <1>2, <1>3, <1>4, <1>5

\* An Excuse of all lists and goroutines for what changes, h's own apart.
LEMMA ExcuseKeeps ==
    ASSUME IInv, NEW rs \in SUBSET Resources,
           \A r \in Resources : live'[r] # live[r] => r \in rs,
           \A k \in Keys : cache'[k] = Excuse(cache[k], rs),
           \A p \in Procs : \/ proc'[p] = Excuse(proc[p], rs)
                            \/ proc'[p] = None /\ \A k, r : Pending(p, k, r) => r \in rs
    PROVE  StaleHasCause' /\ ReadHasCause'
<1>1. /\ \A k \in Keys : cache[k] \in Lists \cup {None}
      /\ \A p \in Procs : proc[p] \in Tasks \cup {None}
  BY DEF IInv, TypeOK, ProcsOK
<1>2. \A k \in Keys : Of(k) \subseteq Resources
  BY DEF Of, Resources
<1>3. ASSUME NEW h \in Handlers, NEW k, NEW r, Pending(h, k, r), r \notin rs
      PROVE  Pending(h, k, r)'
  <2>1. h \in Procs
    BY DEF Procs
  <2>2. proc'[h] = Excuse(proc[h], rs)
    BY <1>3, <2>1
  <2> QED BY <1>1, <1>3, <2>1, <2>2, ExcuseTask DEF Pending
<1>4. ASSUME NEW h \in Handlers, NEW r, Unlooked(h, r), r \notin rs PROVE Unlooked(h, r)'
  <2>1. h \in Procs
    BY DEF Procs
  <2>2. proc'[h] = Excuse(proc[h], rs)
    BY <1>4, <2>1 DEF Unlooked, Pending, At
  <2> QED BY <1>1, <1>4, <2>1, <2>2, ExcuseTask DEF Unlooked, At
<1>5. ASSUME NEW k \in Keys, cache'[k] # None PROVE Stays(k)
  <2>1. /\ cache[k] # None /\ cache'[k].rows = cache[k].rows
        /\ cache[k].excused \cup rs \subseteq cache'[k].excused
    BY <1>1, <1>5, ExcuseList
  <2> QED BY <1>2, <1>3, <2>1 DEF Stays, SomePending
<1>6. ASSUME NEW q \in Procs, proc'[q] # None, proc'[q].rows # None PROVE Waits(q)
  <2>1. /\ proc[q] # None /\ proc'[q].rows = proc[q].rows
        /\ proc[q].excused \cup rs \subseteq proc'[q].excused
    BY <1>1, <1>6, ExcuseTask
  <2> QED BY <1>4, <1>6, <2>1 DEF Waits, SomeUnlooked
<1> QED BY <1>5, <1>6, CausesKept

LEMMA ApplyKeeps ==
    ASSUME IInv, NEW h \in Handlers, Apply(h)
    PROVE  StaleHasCause' /\ ReadHasCause'
<1> DEFINE op == proc[h].op   r == proc[h].res   clears == op \in Kind.clears
<1>1. /\ h \in Procs /\ proc[h] # None /\ proc[h] \in Tasks /\ proc[h].stage = "apply"
      /\ r \in Resources /\ proc \in [Procs -> Tasks \cup {None}] /\ live \in Rows
  BY DEF Apply, At, Procs, IInv, TypeOK, ProcsOK, Tasks
<1>2. \A k \in Keys : Of(k) \subseteq Resources
  BY DEF Of, Resources
<1>3. ASSUME Becomes(op, r, proc[h].val) PROVE \A s \in Resources : live'[s] # live[s] => s \in {r}
  BY <1>1, <1>3 DEF Becomes, Rows
<1>4. ASSUME Becomes(op, r, proc[h].val),
             proc' = [proc EXCEPT ![h].changed = {r}, ![h].stage = "keys"], cache' = cache
      PROVE  StaleHasCause' /\ ReadHasCause'
  <2>1. /\ proc'[h] # None /\ proc'[h].stage = "keys" /\ proc'[h].changed = {r}
        /\ proc'[h].rows = proc[h].rows /\ proc'[h].excused = proc[h].excused
    <3>1. [proc[h] EXCEPT !.changed = {r}, !.stage = "keys"] \in Tasks
      BY <1>1 DEF Tasks, Stages
    <3> QED BY <1>1, <1>4, <3>1, ResourceListsAssumption DEF Tasks
  <2>2. \A q \in Procs \ {h} : proc'[q] = proc[q]
    BY <1>1, <1>4
  <2>3. ASSUME NEW s \in {r} PROVE Unlooked(h, s)' /\ \A k : Pending(h, k, s)'
    BY <2>1 DEF Unlooked, At, Pending
  <2>4. ASSUME NEW g \in Handlers, NEW k, NEW s, Pending(g, k, s) PROVE Pending(g, k, s)'
    <3>1. g # h /\ g \in Procs
      BY <1>1, <2>4 DEF Pending, Procs
    <3> QED BY <2>2, <2>4, <3>1 DEF Pending
  <2>5. ASSUME NEW g \in Handlers, NEW s, Unlooked(g, s) PROVE Unlooked(g, s)'
    <3>1. g # h /\ g \in Procs
      BY <1>1, <2>5 DEF Unlooked, At, Procs
    <3> QED BY <2>2, <2>5, <3>1 DEF Unlooked, At
  <2>6. ASSUME NEW k \in Keys, cache'[k] # None PROVE Stays(k)
    BY <1>2, <1>3, <1>4, <2>3, <2>4, <2>6 DEF Stays, SomePending
  <2>7. ASSUME NEW q \in Procs, proc'[q] # None, proc'[q].rows # None PROVE Waits(q)
    <3>1. /\ proc[q] # None /\ proc'[q].rows = proc[q].rows
          /\ proc[q].excused \subseteq proc'[q].excused
      BY <1>1, <2>1, <2>2, <2>7
    <3> QED BY <1>3, <1>4, <2>3, <2>5, <2>7, <3>1 DEF Waits, SomeUnlooked
  <2> QED BY <2>6, <2>7, CausesKept
<1>5. ASSUME Becomes(op, r, proc[h].val),
             cache' = [k \in Keys |-> Excuse(cache[k], {r})],
             proc' = [p \in Procs |-> IF p = h THEN None ELSE Excuse(proc[p], {r})]
      PROVE  StaleHasCause' /\ ReadHasCause'
  <2>1. \A k, s : Pending(h, k, s) => s \in {r}
    BY <1>1 DEF Pending
  <2>2. \A k \in Keys : cache'[k] = Excuse(cache[k], {r})
    BY <1>5
  <2>3. \A p \in Procs : \/ proc'[p] = Excuse(proc[p], {r})
                         \/ proc'[p] = None /\ \A k, s : Pending(p, k, s) => s \in {r}
    BY <1>5, <2>1
  <2>4. \A s \in Resources : live'[s] # live[s] => s \in {r}
    BY <1>3, <1>5
  <2>5. {r} \in SUBSET Resources
    BY <1>1
  <2> HIDE DEF r
  <2> QED BY <2>2, <2>3, <2>4, <2>5, ExcuseKeeps
<1>6. ASSUME Goto(h, "keys") \/ Answer(h), UNCHANGED <<live, cache>>
      PROVE  StaleHasCause' /\ ReadHasCause'
  BY <1>1, <1>6, GotoKeeps, AnswerKeeps
<1> QED BY <1>4, <1>5, <1>6 DEF Apply

LEMMA OutsideKeeps ==
    ASSUME IInv, NEW r \in Resources, NEW v \in Vals \cup {None}, ChangeOutside(r, v)
    PROVE  StaleHasCause' /\ ReadHasCause'
<1>1. \A s \in Resources : live'[s] # live[s] => s \in {r}
  BY DEF ChangeOutside, IInv, TypeOK, Rows
<1>2. /\ \A k \in Keys : cache'[k] = Excuse(cache[k], {r})
      /\ \A p \in Procs : proc'[p] = Excuse(proc[p], {r})
  BY DEF ChangeOutside, ExcuseAll
<1>3. {r} \in SUBSET Resources
  OBVIOUS
<1> QED BY <1>1, <1>2, <1>3, ExcuseKeeps

\* A restart ends every ClearCache: what it had still to clear is excused.
LEMMA CrashKeeps ==
    ASSUME IInv, Crash
    PROVE  StaleHasCause' /\ ReadHasCause'
<1>1. cache' = [k \in Keys |-> Excuse(cache[k], Undone)] /\ live' = live
  BY DEF Crash, Undone
<1>2. proc' = [p \in Procs |-> None]
  BY DEF Crash
<1>3. ASSUME NEW p \in Procs, NEW k, NEW r, Pending(p, k, r) PROVE r \in Undone
  BY <1>3 DEF Pending, Undone
<1>4. Undone \in SUBSET Resources
  BY UndoneType DEF IInv
<1> HIDE DEF Undone
<1> QED BY <1>1, <1>2, <1>3, <1>4, ExcuseKeeps

\* The ClearCache looks for keys: what it finds, and the counts, it will delete;
\* any other list, and one that is on its way, is excused.
LEMMA ClearKeysKeeps ==
    ASSUME IInv, NEW h \in Handlers, ClearKeys(h)
    PROVE  StaleHasCause' /\ ReadHasCause'
<1> DEFINE mine == proc[h].changed
<1>1. /\ h \in Procs /\ proc[h] # None /\ proc[h] \in Tasks /\ proc[h].stage = "keys"
      /\ proc[h].rows = None /\ mine \in SUBSET Resources /\ UNCHANGED live
      /\ \A p \in Procs : proc[p] \in Tasks \cup {None}
      /\ \A k \in Keys : cache[k] \in Lists \cup {None}
  BY DEF ClearKeys, At, Procs, IInv, TypeOK, ProcsOK, Tasks
<1>2. PICK found \in SUBSET Keys :
        /\ proc' = [p \in Procs |->
                      IF p = h
                      THEN [proc[h] EXCEPT !.rest = found,
                                           !.stage = IF found = {} THEN "dropCount" ELSE "drop"]
                      ELSE Excuse(proc[p], proc[h].changed)]
        /\ cache' = [k \in Keys |-> IF k \in found \cup {Count} THEN cache[k]
                                    ELSE Excuse(cache[k], proc[h].changed)]
  BY DEF ClearKeys
<1>3. /\ proc'[h].rest = found /\ proc'[h].changed = mine /\ proc'[h].rows = None
      /\ proc'[h].stage = IF found = {} THEN "dropCount" ELSE "drop"
  BY <1>1, <1>2 DEF Tasks
<1>4. \A p \in Procs \ {h} : proc'[p] = Excuse(proc[p], mine)
  BY <1>2
<1>5. \A k \in Keys : Of(k) \subseteq Resources
  BY DEF Of, Resources
<1>6. proc'[h] # None
  <2>1. proc'[h] \in Tasks
    BY <1>1, <1>2 DEF Tasks, Stages
  <2> QED BY <2>1, ResourceListsAssumption
<1>7. ASSUME NEW g \in Handlers \ {h}, NEW k, NEW r
      PROVE  /\ Pending(g, k, r) => Pending(g, k, r)'
             /\ Unlooked(g, r) => Unlooked(g, r)'
  <2>1. g \in Procs \ {h}
    BY DEF Procs
  <2>2. proc[g] # None => /\ proc'[g] # None /\ proc'[g].stage = proc[g].stage
                          /\ proc'[g].changed = proc[g].changed /\ proc'[g].rest = proc[g].rest
    BY <1>1, <1>4, <2>1, ExcuseTask, ResourceListsAssumption
  <2> QED BY <2>2 DEF Pending, Unlooked, At
<1> HIDE DEF mine
<1>8. ASSUME NEW k \in Keys, cache'[k] # None PROVE Stays(k)
  <2>1. CASE k \in found \cup {Count}
    <3>1. cache'[k] = cache[k]
      BY <1>2, <2>1
    <3>2. ASSUME NEW r, Pending(h, k, r) PROVE Pending(h, k, r)'
      BY <1>3, <1>6, <2>1, <3>2 DEF Pending, mine
    <3> QED BY <1>1, <1>7, <1>8, <3>1, <3>2 DEF Stays, SomePending
  <2>2. CASE k \notin found \cup {Count}
    <3>1. cache'[k] = Excuse(cache[k], mine)
      BY <1>2, <2>2 DEF mine
    <3>2. /\ cache[k] # None /\ cache'[k].rows = cache[k].rows
          /\ cache[k].excused \cup mine \subseteq cache'[k].excused
      BY <1>1, <1>8, <3>1, ExcuseList
    <3>3. \A r : Pending(h, k, r) => r \in mine
      BY DEF Pending, mine
    <3> QED BY <1>1, <1>7, <3>2, <3>3 DEF Stays, SomePending
  <2> QED BY <2>1, <2>2
<1>9. ASSUME NEW q \in Procs, proc'[q] # None, proc'[q].rows # None PROVE Waits(q)
  <2>1. q # h
    BY <1>3, <1>9
  <2>2. /\ proc[q] # None /\ proc'[q].rows = proc[q].rows
        /\ proc[q].excused \cup mine \subseteq proc'[q].excused
    <3>1. /\ proc'[q] = Excuse(proc[q], mine) /\ proc[q] \in Tasks \cup {None}
          /\ mine \in SUBSET Resources
      BY <1>1, <1>4, <2>1
    <3>2. proc[q] # None
      BY <1>9, <3>1, ExcuseTask
    <3>3. /\ proc'[q].rows = proc[q].rows /\ proc[q].excused \subseteq proc'[q].excused
          /\ proc[q].rows # None => mine \subseteq proc'[q].excused
      BY <3>1, <3>2, ExcuseTask
    <3> QED BY <1>9, <3>2, <3>3
  <2>3. \A r : Unlooked(h, r) => r \in mine
    BY DEF Unlooked, mine
  <2>4. \A r \in Resources : SomeUnlooked(r) => r \in proc'[q].excused \/ SomeUnlooked(r)'
    BY <1>7, <2>2, <2>3 DEF SomeUnlooked
  <2> QED BY <1>1, <1>9, <2>2, <2>4 DEF Waits
<1> QED BY <1>8, <1>9, CausesKept

\* One deletion: the list is gone, or it stays and is excused.
LEMMA ClearKeeps ==
    ASSUME IInv, NEW h \in Handlers, ClearKey(h) \/ ClearCount(h)
    PROVE  StaleHasCause' /\ ReadHasCause'
<1> DEFINE mine == proc[h].changed
<1>1. /\ h \in Procs /\ proc[h] # None /\ proc[h] \in Tasks
      /\ proc[h].stage \in {"drop", "dropCount"} /\ UNCHANGED live
      /\ proc \in [Procs -> Tasks \cup {None}] /\ mine \in SUBSET Resources
      /\ cache \in [Keys -> Lists \cup {None}]
  BY DEF ClearKey, ClearCount, At, Procs, IInv, TypeOK, ProcsOK, Tasks
<1>2. PICK k, x :
        /\ Deleted(h, k)
        /\ proc' = [proc EXCEPT ![h] = x]
        /\ x # None => x.rows = proc[h].rows /\ x.excused = proc[h].excused
        /\ \A j : j # k => \A r : Pending(h, j, r) => Pending(h, j, r)'
  <2>1. CASE ClearCount(h)
    <3>1. Deleted(h, Count) /\ proc' = [proc EXCEPT ![h] = None] /\ proc[h].stage = "dropCount"
      BY <2>1 DEF ClearCount, Answer, At
    <3>2. \A j : j # Count => \A r : ~Pending(h, j, r)
      BY <3>1 DEF Pending
    <3> QED BY <3>1, <3>2
  <2>2. CASE ClearKey(h)
    <3>1. PICK k \in proc[h].rest :
            /\ Deleted(h, k)
            /\ proc' = [proc EXCEPT ![h].rest = @ \ {k},
                                    ![h].stage = IF proc[h].rest = {k} THEN "dropCount" ELSE @]
      BY <2>2 DEF ClearKey
    <3> DEFINE x == [proc[h] EXCEPT !.rest = @ \ {k},
                                    !.stage = IF proc[h].rest = {k} THEN "dropCount" ELSE @]
    <3>2. /\ x \in Tasks /\ x.rows = proc[h].rows /\ x.excused = proc[h].excused
          /\ x.changed = proc[h].changed /\ x.rest = proc[h].rest \ {k}
          /\ x.stage = IF proc[h].rest = {k} THEN "dropCount" ELSE proc[h].stage
      BY <1>1 DEF Tasks, Stages
    <3>3. proc[h].stage = "drop"
      BY <2>2 DEF ClearKey, At
    <3>4. proc' = [proc EXCEPT ![h] = x]
      BY <3>1
    <3>5. proc'[h] = x /\ x # None
      BY <1>1, <3>2, <3>4, ResourceListsAssumption
    <3> HIDE DEF x
    <3>6. ASSUME NEW j, j # k, NEW r, Pending(h, j, r) PROVE Pending(h, j, r)'
      <4>1. r \in proc[h].changed /\ j \in proc[h].rest \cup {Count}
        BY <3>3, <3>6 DEF Pending
      <4>2. CASE proc[h].rest = {k}
        BY <3>2, <3>5, <3>6, <4>1, <4>2 DEF Pending
      <4>3. CASE proc[h].rest # {k}
        BY <3>2, <3>3, <3>5, <3>6, <4>1, <4>3 DEF Pending
      <4> QED BY <4>2, <4>3
    <3> QED BY <3>1, <3>2, <3>4, <3>6
  <2> QED BY <2>1, <2>2
<1>3. ASSUME NEW g \in Handlers \ {h}, NEW j, NEW r
      PROVE  /\ Pending(g, j, r) => Pending(g, j, r)'
             /\ Unlooked(g, r) => Unlooked(g, r)'
  <2>1. g \in Procs /\ proc'[g] = proc[g]
    BY <1>1, <1>2 DEF Procs
  <2> QED BY <2>1 DEF Pending, Unlooked, At
<1>4. \A r : ~Unlooked(h, r)
  BY <1>1 DEF Unlooked, At
<1> HIDE DEF mine
<1>5. ASSUME NEW j \in Keys, cache'[j] # None PROVE Stays(j)
  <2>1. CASE j = k
    <3>1. cache'[j] = Excuse(cache[j], mine)
      BY <1>1, <1>2, <1>5, <2>1 DEF Deleted, mine
    <3>2. /\ cache[j] # None /\ cache'[j].rows = cache[j].rows
          /\ cache[j].excused \cup mine \subseteq cache'[j].excused
      BY <1>1, <1>5, <3>1, ExcuseList
    <3>3. \A r : Pending(h, j, r) => r \in mine
      BY DEF Pending, mine
    <3> QED BY <1>1, <1>3, <3>2, <3>3 DEF Stays, SomePending
  <2>2. CASE j # k
    <3>1. cache'[j] = cache[j]
      BY <1>1, <1>2, <2>2 DEF Deleted
    <3> QED BY <1>1, <1>2, <1>3, <1>5, <2>2, <3>1 DEF Stays, SomePending
  <2> QED BY <2>1, <2>2
<1>6. ASSUME NEW q \in Procs, proc'[q] # None, proc'[q].rows # None PROVE Waits(q)
  <2>1. /\ proc[q] # None /\ proc'[q].rows = proc[q].rows /\ proc'[q].excused = proc[q].excused
    BY <1>1, <1>2, <1>6
  <2> QED BY <1>1, <1>3, <1>4, <1>6, <2>1 DEF Waits, SomeUnlooked
<1> QED BY <1>5, <1>6, CausesKept

LEMMA OtherKeeps ==
    ASSUME IInv,
           \/ \E r \in Resources : DeleteRow(r)
           \/ \E k \in Keys : Expire(k)
           \/ LockExpires
           \/ UNCHANGED vars
    PROVE  StaleHasCause' /\ ReadHasCause'
<1>1. CASE UNCHANGED <<live, cache, proc>>
  BY <1>1, SameKeeps
<1>2. ASSUME NEW k \in Keys, Expire(k) PROVE StaleHasCause' /\ ReadHasCause'
  <2>1. cache' = [cache EXCEPT ![k] = None] /\ UNCHANGED <<live, proc>>
    BY <1>2 DEF Expire
  <2>2. cache \in [Keys -> Lists \cup {None}]
    BY DEF IInv, TypeOK
  <2>3. \A j \in Keys : cache'[j] # None => cache'[j] = cache[j]
    BY <2>1, <2>2
  <2> QED BY <2>1, <2>3 DEF IInv, StaleHasCause, ReadHasCause, Pending, Unlooked, At
<1> QED BY <1>1, <1>2 DEF DeleteRow, LockExpires, vars

LEMMA ServeKeeps ==
    ASSUME IInv, NEW h \in Handlers, Serve(h)
    PROVE  StaleHasCause' /\ ReadHasCause'
<1>1. h \in Procs
  BY DEF Procs
<1>2. ASSUME NEW stage, NEW op, NEW key, NEW res, NEW val, Begin(h, stage, op, key, res, val)
      PROVE  StaleHasCause' /\ ReadHasCause'
  BY <1>1, <1>2, BeginKeeps DEF Begin
<1>3. ASSUME NEW k \in Spaces \cup {All}, Look(h, k) PROVE StaleHasCause' /\ ReadHasCause'
  <2>1. UNCHANGED <<live, cache, proc>> \/ Begin(h, "list", "page", k, None, None)
    BY <1>3 DEF Look
  <2> QED BY <1>2, <2>1, SameKeeps
<1> QED BY <1>1, <1>2, <1>3, ReadListKeeps, StoreKeeps, ApplyKeeps, ClearKeysKeeps, ClearKeeps
        DEF Serve, BeginChange, BeginClear

LEMMA NextIInv == IInv /\ [Next]_vars => IInv'
<1> SUFFICES ASSUME IInv, [Next]_vars PROVE StaleHasCause' /\ ReadHasCause'
  BY TypeStep DEF IInv
<1>1. ASSUME NEW w \in Workers, UpdateIndex(w) \/ Rebuild(w)
      PROVE  StaleHasCause' /\ ReadHasCause'
  <2>1. w \in Procs
    BY DEF Procs
  <2> QED BY <1>1, <2>1, RebuildKeeps, ReadListKeeps, StoreKeeps DEF Rebuild
<1> QED BY <1>1, ServeKeeps, OutsideKeeps, CrashKeeps, OtherKeeps DEF Next

LEMMA InitIInv == Init => IInv
<1> SUFFICES ASSUME Init PROVE StaleHasCause /\ ReadHasCause
  BY InitType DEF IInv
<1> QED BY DEF Init, StaleHasCause, ReadHasCause

\* A cached list or count that no longer shows the cluster has a reason: a change
\* without ClearCache, a ClearCache still on its way, or one that failed or came
\* by while the list was being read.
THEOREM StaleOnlyForCause == Spec => []StaleHasCause
<1>1. IInv => StaleHasCause
  BY DEF IInv
<1> QED BY InitIInv, NextIInv, <1>1, PTL DEF Spec
=============================================================================
