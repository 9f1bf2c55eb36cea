---------------------------- MODULE ResourceLists ----------------------------
(***************************************************************************)
(* The lists of one kind of resources of one cluster, as Redis caches them *)
(* (the List handlers of controllers/deploy.go, service.go, pod.go, ...,   *)
(* models/public_model.go ClearCache), and the rebuild of the search index *)
(* (controllers/search.go, models/search_model.go), which writes the same  *)
(* keys.  A page takes the list under its key or reads the cluster and     *)
(* stores what it read; a handler that changes the cluster may clear all   *)
(* keys afterwards; nobody holds a lock meanwhile.                         *)
(***************************************************************************)
EXTENDS Integers, FiniteSets

CONSTANTS
    Spaces,     \* namespaces
    Names,      \* names of resources within a namespace
    Vals,       \* what a row of the list may show of a resource
    Kind,       \* the kind of resources, one of the records below
    Handlers,   \* request goroutines
    Workers,    \* goroutines that rebuild the index
    MaxEvents,  \* bound: requests and changes from outside
    MaxCrashes, \* bound: restarts of the process
    Faults,     \* calls of Redis, MySQL and the cluster may fail
    All,        \* the key of the list of all namespaces (nameSpace = "")
    Count,      \* the kind's field of the hash count_<cluster> (home page)
    None

\* Per kind: the changes after which the handler calls ClearCache, whether the
\* key List reads is the one it writes, whether List stores the count, whether
\* the rebuild stores the list.
Listed(clears, hits, counts, rebuilt) ==
    [clears |-> clears, hits |-> hits, counts |-> counts, rebuilt |-> rebuilt]

Deploy    == Listed({"create"}, TRUE,  TRUE,  TRUE)
Service   == Listed({"create"}, TRUE,  TRUE,  TRUE)
ConfigMap == Listed({"create"}, TRUE,  TRUE,  TRUE)
Pod       == Listed({},         TRUE,  TRUE,  TRUE)
Secret    == Listed({"create"}, FALSE, TRUE,  FALSE)
Ingress   == Listed({"create"}, TRUE,  FALSE, FALSE)
Daemonset == Listed({},         TRUE,  FALSE, FALSE)
Job       == Listed({},         TRUE,  FALSE, FALSE)
Pvc       == Listed({"delete"}, TRUE,  FALSE, FALSE)

Kinds     == {Deploy, Service, ConfigMap, Pod, Secret, Ingress, Daemonset, Job, Pvc}
Resources == Spaces \X Names
Keys      == Spaces \cup {All, Count}
Procs     == Handlers \cup Workers

Of(k)  == IF k \in Spaces THEN {k} \X Names ELSE Resources
Rows   == [Resources -> Vals \cup {None}]
Stages == {"list", "insert", "count", "store", "apply", "keys", "drop", "dropCount",
           "lock", "unlock"}
Ops    == {"page", "index", "create", "edit", "delete", "clear"}

\* A cached list, and of its history the resources that have changed since it
\* was read and for which nobody will clear it.
Lists == [rows: Rows, excused: SUBSET Resources]

\* A goroutine: the stage it is at, what it is about, the list it has read and
\* what excuses it, the change it has made and not yet cleared for, and what
\* remains to do: keys to drop, or resources whose row is to be inserted.
Tasks == [stage: Stages, op: Ops, key: Keys, res: Resources \cup {None},
          val: Vals \cup {None}, rows: Rows \cup {None}, excused: SUBSET Resources,
          changed: SUBSET Resources, rest: SUBSET (Resources \cup Keys)]

ASSUME ResourceListsAssumption ==
    /\ Kind \in Kinds
    /\ MaxEvents \in Nat /\ MaxCrashes \in Nat
    /\ Faults \in BOOLEAN
    /\ All \notin Spaces /\ Count \notin Spaces \cup {All}
    /\ Handlers \cap Workers = {}
    /\ None \notin Vals \cup Resources \cup Keys
    /\ None \notin Rows \cup Lists \cup Tasks

VARIABLES
    live,    \* the cluster: what each resource shows, None if there is none
    cache,   \* Redis: the list under each key, None if there is none
    index,   \* xkb_index: the message of each resource's row, None if no row
    locked,  \* Redis: the key updateIndex exists
    proc,    \* what each goroutine does, None when it does nothing
    events,  \* requests and changes from outside so far
    crashes  \* restarts so far

vars == <<live, cache, index, locked, proc, events, crashes>>

Task(stage, op, key, res, val) ==
    [stage |-> stage, op |-> op, key |-> key, res |-> res, val |-> val, rows |-> None,
     excused |-> {}, changed |-> {}, rest |-> {}]

Init ==
    /\ live \in [Resources -> Vals \cup {None}]
    /\ cache = [k \in Keys |-> None]
    /\ index = [r \in Resources |-> None]
    /\ locked = FALSE
    /\ proc = [p \in Procs |-> None]
    /\ events = 0
    /\ crashes = 0

At(p, stage)   == proc[p] # None /\ proc[p].stage = stage
Goto(p, stage) == proc' = [proc EXCEPT ![p].stage = stage]
Answer(p)      == proc' = [proc EXCEPT ![p] = None]

Begin(h, stage, op, key, res, val) ==
    /\ proc[h] = None /\ events < MaxEvents
    /\ proc' = [proc EXCEPT ![h] = Task(stage, op, key, res, val)]
    /\ events' = events + 1
    /\ UNCHANGED <<live, cache, index, locked, crashes>>

\* x, a cached list, a goroutine or None, with one more reason to be out of date.
Excuse(x, rs) ==
    IF x = None \/ rs = {} THEN x
    ELSE IF x.rows = None THEN x ELSE [x EXCEPT !.excused = @ \cup rs]

ExcuseAll(rs) == /\ cache' = [k \in Keys |-> Excuse(cache[k], rs)]
                 /\ proc' = [p \in Procs |-> Excuse(proc[p], rs)]

-----------------------------------------------------------------------------
(* The list page.                                                          *)

\* A list under the key is the answer; otherwise the cluster is asked.
Look(h, k) ==
    IF Kind.hits /\ cache[k] # None
    THEN /\ proc[h] = None /\ events < MaxEvents
         /\ events' = events + 1
         /\ UNCHANGED <<live, cache, index, locked, proc, crashes>>
    ELSE Begin(h, "list", "page", k, None, None)

AfterRows(p) == IF p \in Workers \/ (proc[p].key = All /\ Kind.counts) THEN "count" ELSE "store"

\* DeployList, SvcList, ...: a failure is answered, or ends the rebuild.
ReadList(p) ==
    /\ At(p, "list")
    /\ \/ proc' = [proc EXCEPT
             ![p].rows = live,
             ![p].rest = IF p \in Workers THEN {r \in Resources : live[r] # None} ELSE {},
             ![p].stage = IF p \in Workers /\ \E r \in Resources : live[r] # None
                          THEN "insert" ELSE AfterRows(p)]
       \/ Faults /\ p \in Handlers /\ Answer(p)
       \/ Faults /\ p \in Workers /\ Goto(p, "unlock")
    /\ UNCHANGED <<live, cache, index, locked, events, crashes>>

\* What is stored under k: the list itself, of k's namespaces.
Stored(p, k) ==
    [rows    |-> [r \in Resources |-> IF r \in Of(k) THEN proc[p].rows[r] ELSE None],
     excused |-> proc[p].excused \cap Of(k)]

\* HSet of the number of rows; the home page shows it.
StoreCount(p) ==
    /\ At(p, "count")
    /\ \/ cache' = [cache EXCEPT ![Count] = Stored(p, Count)]
       \/ Faults /\ UNCHANGED cache
    /\ Goto(p, IF p \in Handlers \/ Kind.rebuilt THEN "store" ELSE "unlock")
    /\ UNCHANGED <<live, index, locked, events, crashes>>

\* SetEx, whatever ClearCache has done in the meantime.
StoreList(p) ==
    /\ At(p, "store")
    /\ \/ cache' = [cache EXCEPT ![proc[p].key] = Stored(p, proc[p].key)]
       \/ Faults /\ UNCHANGED cache
    /\ IF p \in Handlers THEN Answer(p) ELSE Goto(p, "unlock")
    /\ UNCHANGED <<live, index, locked, events, crashes>>

-----------------------------------------------------------------------------
(* Handlers that change the cluster, and ClearCache.                       *)

\* Create, an edit or Del of one resource; "clear" is the Clear handler.
BeginChange(h, op, r, v) == Begin(h, "apply", op, All, r, v)
BeginClear(h)            == Begin(h, "keys", "clear", All, None, None)

Becomes(op, r, v) ==
    /\ (live[r] = None) = (op = "create")
    /\ live' = [live EXCEPT ![r] = IF op = "delete" THEN None ELSE v]

\* The change itself.  A handler that clears does so also after a failure.
Apply(h) ==
    LET op == proc[h].op   r == proc[h].res   clears == op \in Kind.clears IN
    /\ At(h, "apply")
    /\ \/ /\ Becomes(op, r, proc[h].val)
          /\ IF clears
             THEN /\ proc' = [proc EXCEPT ![h].changed = {r}, ![h].stage = "keys"]
                  /\ UNCHANGED cache
             ELSE /\ cache' = [k \in Keys |-> Excuse(cache[k], {r})]
                  /\ proc' = [p \in Procs |-> IF p = h THEN None ELSE Excuse(proc[p], {r})]
       \/ /\ (live[r] = None) # (op = "create") \/ Faults
          /\ IF clears THEN Goto(h, "keys") ELSE Answer(h)
          /\ UNCHANGED <<live, cache>>
    /\ UNCHANGED <<index, locked, events, crashes>>

\* Mutant: ClearCache deletes the list of all namespaces only.
ClearKeysOfAll(h) ==
    /\ At(h, "keys")
    /\ \E found \in {{k \in {All} : cache[k] # None}} \cup (IF Faults THEN {{}} ELSE {}) :
         proc' = [p \in Procs |->
                    IF p = h
                    THEN [proc[h] EXCEPT !.rest = found,
                                         !.stage = IF found = {} THEN "dropCount" ELSE "drop"]
                    ELSE Excuse(proc[p], proc[h].changed)]
    /\ UNCHANGED <<live, cache, index, locked, events, crashes>>

\* ClearCache lists the keys there are: a list that is on its way is not among
\* them.  Nothing is deleted when KEYS fails.
ClearKeys(h) ==
    /\ At(h, "keys")
    /\ \E found \in {{k \in Keys \ {Count} : cache[k] # None}}
                       \cup (IF Faults THEN {{}} ELSE {}) :
         /\ proc' = [p \in Procs |->
                       IF p = h
                       THEN [proc[h] EXCEPT !.rest = found,
                                            !.stage = IF found = {} THEN "dropCount" ELSE "drop"]
                       ELSE Excuse(proc[p], proc[h].changed)]
         /\ cache' = [k \in Keys |-> IF k \in found \cup {Count} THEN cache[k]
                                     ELSE Excuse(cache[k], proc[h].changed)]
    /\ UNCHANGED <<live, index, locked, events, crashes>>

Deleted(h, k) ==
    \/ cache' = [cache EXCEPT ![k] = None]
    \/ Faults /\ cache' = [cache EXCEPT ![k] = Excuse(@, proc[h].changed)]

\* It deletes them one by one,
ClearKey(h) ==
    /\ At(h, "drop")
    /\ \E k \in proc[h].rest :
         /\ Deleted(h, k)
         /\ proc' = [proc EXCEPT ![h].rest = @ \ {k},
                                 ![h].stage = IF proc[h].rest = {k} THEN "dropCount" ELSE @]
    /\ UNCHANGED <<live, index, locked, events, crashes>>

\* and the counts at last.
ClearCount(h) ==
    /\ At(h, "dropCount")
    /\ Deleted(h, Count)
    /\ Answer(h)
    /\ UNCHANGED <<live, index, locked, events, crashes>>

-----------------------------------------------------------------------------
(* The rebuild of the search index.                                        *)

StartRebuild(w) ==
    /\ proc[w] = None
    /\ proc' = [proc EXCEPT ![w] = Task("lock", "index", All, None, None)]
    /\ UNCHANGED <<live, cache, index, locked, events, crashes>>

\* UpdateIndex answers "alreadyRunning" or starts a goroutine, which takes the
\* lock itself.  EXISTS says no when it fails.
UpdateIndex(w) == (~locked \/ Faults) /\ StartRebuild(w)

\* AddLock; whether it got the lock is not looked at.
TakeLock(w) ==
    /\ At(w, "lock")
    /\ locked' = TRUE \/ (Faults /\ UNCHANGED locked)
    /\ Goto(w, "list")
    /\ UNCHANGED <<live, cache, index, events, crashes>>

\* Mutant: the rows of the last resource are left out.
InsertRowButLast(w) ==
    /\ At(w, "insert")
    /\ \E r \in proc[w].rest :
         /\ index' = IF proc[w].rest = {r} THEN index
                     ELSE [index EXCEPT ![r] = proc[w].rows[r]]
         /\ proc' = [proc EXCEPT ![w].rest = @ \ {r},
                                 ![w].stage = IF proc[w].rest = {r} THEN "count" ELSE @]
    /\ UNCHANGED <<live, cache, locked, events, crashes>>

\* InsertIndex of one row of the list: insert, or update the message.
InsertRow(w) ==
    /\ At(w, "insert")
    /\ \E r \in proc[w].rest :
         /\ \/ index' = [index EXCEPT ![r] = proc[w].rows[r]]
            \/ Faults /\ UNCHANGED index
         /\ proc' = [proc EXCEPT ![w].rest = @ \ {r},
                                 ![w].stage = IF proc[w].rest = {r} THEN "count" ELSE @]
    /\ UNCHANGED <<live, cache, locked, events, crashes>>

\* The key is deleted, whoever has set it.
Unlock(w) ==
    /\ At(w, "unlock")
    /\ locked' = FALSE \/ (Faults /\ UNCHANGED locked)
    /\ Answer(w)
    /\ UNCHANGED <<live, cache, index, events, crashes>>

\* The Del handler of the search page removes a row, for instance of a resource
\* that is gone: no rebuild does.
DeleteRow(r) ==
    /\ events < MaxEvents /\ index[r] # None
    /\ index' = [index EXCEPT ![r] = None]
    /\ events' = events + 1
    /\ UNCHANGED <<live, cache, locked, proc, crashes>>

-----------------------------------------------------------------------------
(* The surroundings.                                                       *)

\* The cluster changes without MRBoard.
ChangeOutside(r, v) ==
    /\ events < MaxEvents /\ live[r] # v
    /\ live' = [live EXCEPT ![r] = v]
    /\ ExcuseAll({r})
    /\ events' = events + 1
    /\ UNCHANGED <<index, locked, crashes>>

\* Lists expire (after 10 minutes to 24 hours), counts do not.
Expire(k) ==
    /\ k # Count /\ cache[k] # None
    /\ cache' = [cache EXCEPT ![k] = None]
    /\ UNCHANGED <<live, index, locked, proc, events, crashes>>

\* The lock expires after two hours, be the rebuild over or not.
LockExpires ==
    /\ locked
    /\ locked' = FALSE
    /\ UNCHANGED <<live, cache, index, proc, events, crashes>>

\* The process restarts: every goroutine is gone, and with it the ClearCache of
\* a change just made; Redis, MySQL and the cluster stay as they are.
Crash ==
    /\ crashes < MaxCrashes
    /\ crashes' = crashes + 1
    /\ proc' = [p \in Procs |-> None]
    /\ cache' = [k \in Keys |->
                   Excuse(cache[k], UNION {proc[p].changed : p \in {q \in Procs : proc[q] # None}})]
    /\ UNCHANGED <<live, index, locked, events>>

Rebuild(w) ==
    \/ TakeLock(w) \/ ReadList(w) \/ InsertRow(w) \/ StoreCount(w) \/ StoreList(w) \/ Unlock(w)

Serve(h) ==
    \/ \E k \in Spaces \cup {All} : Look(h, k)
    \/ \E op \in {"create", "edit"}, r \in Resources, v \in Vals : BeginChange(h, op, r, v)
    \/ \E r \in Resources : BeginChange(h, "delete", r, None)
    \/ BeginClear(h)
    \/ ReadList(h) \/ StoreCount(h) \/ StoreList(h)
    \/ Apply(h) \/ ClearKeys(h) \/ ClearKey(h) \/ ClearCount(h)

Next ==
    \/ \E h \in Handlers : Serve(h)
    \/ \E w \in Workers : UpdateIndex(w) \/ Rebuild(w)
    \/ \E r \in Resources : DeleteRow(r)
    \/ \E r \in Resources, v \in Vals \cup {None} : ChangeOutside(r, v)
    \/ \E k \in Keys : Expire(k)
    \/ LockExpires
    \/ Crash

Spec == Init /\ [][Next]_vars

\* Redis drops a key that expires, rebuilds are asked for again and again
\* (SearchPage.tsx: "需将接口 /task/v1/UpdateIndex 部署成定时任务，每天执行一次"),
\* and a rebuild goes on as long as Redis and MySQL answer.  That the cluster does
\* when it is asked for the list is not assumed: its client has no timeout.
FairSpec ==
    /\ Spec
    /\ WF_vars(LockExpires)
    /\ \A w \in Workers :
         WF_vars(TakeLock(w) \/ InsertRow(w) \/ StoreCount(w) \/ StoreList(w) \/ Unlock(w))
    /\ SF_vars(\E w \in Workers : UpdateIndex(w))

-----------------------------------------------------------------------------
\* A goroutine has what its stage needs; whoever changes the cluster has no list.
ProcsOK ==
    /\ proc \in [Procs -> Tasks \cup {None}]
    /\ \A p \in Procs :
         /\ (At(p, "insert") \/ At(p, "count") \/ At(p, "store")) => proc[p].rows # None
         /\ At(p, "apply") => proc[p].res # None
         /\ (At(p, "apply") \/ At(p, "keys")) => proc[p].rows = None

TypeOK ==
    /\ live \in Rows
    /\ cache \in [Keys -> Lists \cup {None}]
    /\ index \in Rows
    /\ locked \in BOOLEAN
    /\ ProcsOK
    /\ events \in 0..MaxEvents /\ crashes \in 0..MaxCrashes

\* The handler h has changed r and its ClearCache has still to come by k.
Pending(h, k, r) ==
    /\ proc[h] # None /\ r \in proc[h].changed
    /\ \/ proc[h].stage = "keys"
       \/ proc[h].stage = "drop" /\ k \in proc[h].rest \cup {Count}
       \/ proc[h].stage = "dropCount" /\ k = Count

\* A cached list or count differs from the cluster in a resource only if the
\* resource has since changed without a ClearCache, if the ClearCache of the
\* change is still on its way to the key, or if it failed or missed the list
\* because the list was being read when it came by.
StaleHasCause ==
    \A k \in Keys : cache[k] # None =>
        \A r \in Of(k) : cache[k].rows[r] # live[r] =>
            \/ r \in cache[k].excused
            \/ \E h \in Handlers : Pending(h, k, r)

\* The index follows the cluster: when a resource no longer changes, its row
\* comes to show it and goes on showing it, whichever rebuilds overlap and
\* though a restart may leave the lock behind, unless a rebuild waits for the
\* cluster's list for ever.
IndexFollows ==
    \A r \in Resources, v \in Vals :
        <>[](live[r] = v) => <>[](index[r] = v) \/ \E w \in Workers : <>[]At(w, "list")
=============================================================================
