----------------------------- MODULE AlertRules -----------------------------
(***************************************************************************)
(* Alert rules and their copy in Kubernetes.  The alert_rule table holds   *)
(* the rules; the enabled rules of source "mrboard" of each cluster are    *)
(* copied to one PrometheusRule object of that cluster, "mrboard-rules".   *)
(* Every HTTP handler (AddRule, UpdateRule, DelRule, ToggleRule of         *)
(* controllers/alert.go) first changes the table and then calls            *)
(* SyncPrometheusRule, which lists the table and writes the object: other  *)
(* handlers can come between any two of these steps.  A failed sync is     *)
(* logged and never retried, and nothing resynchronises later.             *)
(***************************************************************************)
EXTENDS Integers, FiniteSets

CONSTANTS
    Clusters,            \* cluster ids that have a kubeconfig
    NoCluster,           \* the empty ClusterId a failed read leaves
    Bodies,              \* what a rule says: name, expr, duration, labels...
    Handlers,            \* request goroutines that may run at the same time
    MaxRules,            \* bound: rows ever inserted
    MaxRequests,         \* bound: requests ever served
    SyncLimit,           \* rows that one sync lists (1000 in the code)
    UnconditionalUpdate, \* the API server takes an Update without resourceVersion
    Faults,              \* database and API calls may fail, the process may crash
    NoRow                \* no such row

ASSUME AlertRulesAssumption ==
    /\ NoCluster \notin Clusters
    /\ MaxRules \in Nat
    /\ MaxRequests \in Nat
    /\ SyncLimit \in Nat
    /\ UnconditionalUpdate \in BOOLEAN
    /\ Faults \in BOOLEAN
    /\ NoRow \notin [cluster: Clusters, source: {"mrboard", "loki"},
                     body: Bodies, enabled: BOOLEAN]

Rules    == 1..MaxRules
Sources  == {"mrboard", "loki"}
Row      == [cluster: Clusters, source: Sources, body: Bodies, enabled: BOOLEAN]
PromRule == [rule: Rules, body: Bodies]
Ops      == {"add", "update", "del", "toggle"}
Stages   == {"idle", "read", "reread", "save", "list", "apply", "create"}
Causes   == {"unknown cluster", "failed", "overtaken", "crash"}

VARIABLES
    rows,     \* the alert_rule table
    nextId,   \* its AUTO_INCREMENT counter: ids are never reused
    crd,      \* rules in each cluster's PrometheusRule; {} when it is absent
    pc,       \* where each handler stands
    op,       \* which handler it is
    id,       \* the rule it is about
    target,   \* the cluster it will sync
    copy,     \* the row it read
    listing,  \* the rules its sync listed
    served,   \* requests begun so far
    tableVer, \* history: changes made to each cluster's rows
    listVer,  \* history: tableVer when a handler listed
    crdVer,   \* history: listVer of the write that made crd what it is
    cause     \* history: why a cluster's object may be behind the table

tableVars == <<rows, nextId>>
reqVars   == <<pc, op, id, target, copy, listing, served>>
histVars  == <<tableVer, listVer, crdVer, cause>>
vars      == <<tableVars, crd, reqVars, histVars>>

-----------------------------------------------------------------------------
(* What a sync publishes.                                                  *)

RowsOf(t, c) == {r \in Rules : t[r] # NoRow /\ t[r].cluster = c}

\* GetAlertRules(clusterId, 1, SyncLimit): the newest rows of the cluster,
\* whatever their source and state.  Ids stand for the order of CreatedAt.
Listed(t, c) ==
    {r \in RowsOf(t, c) : Cardinality({s \in RowsOf(t, c) : s > r}) < SyncLimit}

Publishable(row) == row.enabled /\ row.source = "mrboard"

PromRules(t, ids) ==
    {[rule |-> r, body |-> t[r].body] : r \in {s \in ids : Publishable(t[s])}}

Published(t, c) == PromRules(t, Listed(t, c))

-----------------------------------------------------------------------------
Init ==
    /\ rows = [r \in Rules |-> NoRow]
    /\ nextId = 1
    /\ crd = [c \in Clusters |-> {}]
    /\ pc = [h \in Handlers |-> "idle"]
    /\ op = [h \in Handlers |-> "add"]
    /\ id = [h \in Handlers |-> 0]
    /\ target = [h \in Handlers |-> NoCluster]
    /\ copy = [h \in Handlers |-> NoRow]
    /\ listing = [h \in Handlers |-> {}]
    /\ served = 0
    /\ tableVer = [c \in Clusters |-> 0]
    /\ listVer = [h \in Handlers |-> 0]
    /\ crdVer = [c \in Clusters |-> 0]
    /\ cause = [c \in Clusters |-> {}]

Goto(h, stage) == pc' = [pc EXCEPT ![h] = stage]

\* A request arrives: any handler, about any rule there is or was.
Begin(h) ==
    /\ pc[h] = "idle"
    /\ served < MaxRequests
    /\ served' = served + 1
    /\ \/ op' = [op EXCEPT ![h] = "add"] /\ Goto(h, "save") /\ UNCHANGED id
       \/ \E o \in {"update", "del", "toggle"}, r \in 1..(nextId - 1) :
            /\ op' = [op EXCEPT ![h] = o]
            /\ id' = [id EXCEPT ![h] = r]
            /\ Goto(h, "read")
    /\ UNCHANGED <<tableVars, crd, target, copy, listing, histVars>>

(* GetAlertRule.  UpdateRule gives up on an error; DelRule and ToggleRule  *)
(* ignore it and go on with a rule whose ClusterId is empty.               *)
Read(h) ==
    /\ pc[h] = "read"
    /\ \/ /\ rows[id[h]] # NoRow
          /\ copy' = [copy EXCEPT ![h] = rows[id[h]]]
          /\ target' = [target EXCEPT ![h] = rows[id[h]].cluster]
          /\ Goto(h, IF op[h] = "toggle" THEN "reread" ELSE "save")
       \/ /\ rows[id[h]] = NoRow \/ Faults
          /\ copy' = [copy EXCEPT ![h] = NoRow]
          /\ target' = [target EXCEPT ![h] = NoCluster]
          /\ Goto(h, CASE op[h] = "update" -> "idle"
                       [] op[h] = "del"    -> "save"
                       [] OTHER            -> "reread")
    /\ UNCHANGED <<tableVars, crd, op, id, listing, served, histVars>>

\* ToggleAlertRule reads the row a second time and gives up on an error.
Reread(h) ==
    /\ pc[h] = "reread"
    /\ \/ /\ rows[id[h]] # NoRow
          /\ copy' = [copy EXCEPT ![h] = rows[id[h]]]
          /\ Goto(h, "save")
       \/ /\ rows[id[h]] = NoRow \/ Faults
          /\ Goto(h, "idle")
          /\ UNCHANGED copy
    /\ UNCHANGED <<tableVars, crd, op, id, target, listing, served, histVars>>

\* Row r of cluster c becomes new, and the handler goes on to its sync.
Store(h, r, c, new) ==
    /\ rows' = [rows EXCEPT ![r] = new]
    /\ tableVer' = [tableVer EXCEPT ![c] = @ + 1]
    /\ Goto(h, "list")

\* An UPDATE or DELETE statement on rule id[h]: no row, no change, no error.
StoreExisting(h, new) ==
    \/ /\ rows[id[h]] # NoRow
       /\ Store(h, id[h], rows[id[h]].cluster, new)
       /\ cause' = IF target[h] # NoCluster THEN cause
                   ELSE [cause EXCEPT ![rows[id[h]].cluster] = @ \cup {"unknown cluster"}]
    \/ /\ rows[id[h]] = NoRow
       /\ Goto(h, "list")
       /\ UNCHANGED <<rows, tableVer, cause>>

Saving(h, o) == pc[h] = "save" /\ op[h] = o

\* Mutant: AddRule leaves out the default for an empty source.
SaveAddEmptySource(h) ==
    /\ Saving(h, "add")
    /\ nextId \in Rules
    /\ \E c \in Clusters, b \in Bodies :
         /\ target' = [target EXCEPT ![h] = c]
         /\ Store(h, nextId, c,
                  [cluster |-> c, source |-> "", body |-> b, enabled |-> TRUE])
    /\ id' = [id EXCEPT ![h] = nextId]
    /\ nextId' = nextId + 1
    /\ UNCHANGED <<crd, op, copy, listing, served, listVer, crdVer, cause>>

\* AddRule: INSERT an enabled rule, of source "mrboard" unless told otherwise.
SaveAdd(h) ==
    /\ Saving(h, "add")
    /\ nextId \in Rules
    /\ \E c \in Clusters, s \in Sources, b \in Bodies :
         /\ target' = [target EXCEPT ![h] = c]
         /\ Store(h, nextId, c,
                  [cluster |-> c, source |-> s, body |-> b, enabled |-> TRUE])
    /\ id' = [id EXCEPT ![h] = nextId]
    /\ nextId' = nextId + 1
    /\ UNCHANGED <<crd, op, copy, listing, served, listVer, crdVer, cause>>

\* UpdateRule: UPDATE with the copy read earlier, "Enabled" among its columns.
SaveUpdate(h) ==
    /\ Saving(h, "update")
    /\ \E s \in Sources, b \in Bodies :
         StoreExisting(h, [copy[h] EXCEPT !.source = s, !.body = b])
    /\ UNCHANGED <<nextId, crd, op, id, target, copy, listing, served, listVer, crdVer>>

\* Mutant: DelRule returns without syncing the cluster.
SaveDelNoSync(h) ==
    /\ Saving(h, "del")
    /\ rows' = [rows EXCEPT ![id[h]] = NoRow]
    /\ tableVer' = IF rows[id[h]] = NoRow THEN tableVer
                   ELSE [tableVer EXCEPT ![rows[id[h]].cluster] = @ + 1]
    /\ Goto(h, "idle")
    /\ UNCHANGED <<nextId, crd, op, id, target, copy, listing, served, listVer,
                   crdVer, cause>>

SaveDel(h) ==
    /\ Saving(h, "del")
    /\ StoreExisting(h, NoRow)
    /\ UNCHANGED <<nextId, crd, op, id, target, copy, listing, served, listVer, crdVer>>

\* ToggleAlertRule: UPDATE of column "Enabled" only.
SaveToggle(h) ==
    /\ Saving(h, "toggle")
    /\ StoreExisting(h, [rows[id[h]] EXCEPT !.enabled = ~copy[h].enabled])
    /\ UNCHANGED <<nextId, crd, op, id, target, copy, listing, served, listVer, crdVer>>

\* The statement fails, or there is no id left for it: the handler answers -1.
SaveFails(h) ==
    /\ pc[h] = "save"
    /\ Faults \/ (op[h] = "add" /\ nextId \notin Rules)
    /\ Goto(h, "idle")
    /\ UNCHANGED <<tableVars, crd, op, id, target, copy, listing, served, histVars>>

-----------------------------------------------------------------------------
(* SyncPrometheusRule(target[h]).                                          *)

\* The sync ends with an error that the handler logs.
Fail(h) ==
    /\ cause' = [cause EXCEPT ![target[h]] = @ \cup {"failed"}]
    /\ Goto(h, "idle")

\* The object now holds what this handler listed.
Land(h) ==
    LET c == target[h] IN
    /\ crd' = [crd EXCEPT ![c] = listing[h]]
    /\ crdVer' = [crdVer EXCEPT ![c] = listVer[h]]
    /\ cause' = [cause EXCEPT ![c] =
                   IF listVer[h] = tableVer[c] THEN {}
                   ELSE IF listVer[h] < crdVer[c] THEN @ \cup {"overtaken"} ELSE @]

\* ClientSet(""), a nil clientset or a failed SELECT ends the sync here.
List(h) ==
    /\ pc[h] = "list"
    /\ \/ /\ target[h] = NoCluster
          /\ Goto(h, "idle")
          /\ UNCHANGED <<listing, listVer, cause>>
       \/ /\ target[h] # NoCluster
          /\ listing' = [listing EXCEPT ![h] = Published(rows, target[h])]
          /\ listVer' = [listVer EXCEPT ![h] = tableVer[target[h]]]
          /\ Goto(h, "apply")
          /\ UNCHANGED cause
       \/ /\ target[h] # NoCluster /\ Faults
          /\ Fail(h)
          /\ UNCHANGED <<listing, listVer>>
    /\ UNCHANGED <<tableVars, crd, op, id, target, copy, served, tableVer, crdVer>>

\* Nothing to publish: the object is deleted; "not found" is no error.
ApplyDelete(h) ==
    /\ pc[h] = "apply" /\ listing[h] = {}
    /\ \/ Land(h) /\ Goto(h, "idle")
       \/ Faults /\ Fail(h) /\ UNCHANGED <<crd, crdVer>>
    /\ UNCHANGED <<tableVars, op, id, target, copy, listing, served, tableVer, listVer>>

(* Something to publish: Update, and on any error Create.  Update fails    *)
(* when the object is absent, when the API server insists on a             *)
(* resourceVersion, and on a fault, which can also lose only the answer.   *)
ApplyUpdate(h) ==
    /\ pc[h] = "apply" /\ listing[h] # {}
    /\ \/ /\ crd[target[h]] # {} /\ UnconditionalUpdate
          /\ Land(h)
          /\ \/ Goto(h, "idle")
             \/ Faults /\ Goto(h, "create")
       \/ /\ crd[target[h]] = {} \/ ~UnconditionalUpdate \/ Faults
          /\ Goto(h, "create")
          /\ UNCHANGED <<crd, crdVer, cause>>
    /\ UNCHANGED <<tableVars, op, id, target, copy, listing, served, tableVer, listVer>>

Create(h) ==
    /\ pc[h] = "create"
    /\ \/ /\ crd[target[h]] = {}
          /\ Land(h) /\ Goto(h, "idle")
       \/ /\ crd[target[h]] # {} \/ Faults
          /\ Fail(h) /\ UNCHANGED <<crd, crdVer>>
    /\ UNCHANGED <<tableVars, op, id, target, copy, listing, served, tableVer, listVer>>

-----------------------------------------------------------------------------
\* Handler h has yet to publish the present rows of cluster c.
SyncDue(h, c) ==
    /\ target[h] = c
    /\ \/ pc[h] = "list"
       \/ pc[h] \in {"apply", "create"} /\ listVer[h] = tableVer[c]

\* The process dies and starts again: requests are lost, the stores stay.
Crash ==
    /\ Faults
    /\ \E h \in Handlers : pc[h] # "idle"
    /\ pc' = [h \in Handlers |-> "idle"]
    /\ cause' = [c \in Clusters |-> IF \E h \in Handlers : SyncDue(h, c)
                                    THEN cause[c] \cup {"crash"} ELSE cause[c]]
    /\ UNCHANGED <<tableVars, crd, op, id, target, copy, listing, served,
                   tableVer, listVer, crdVer>>

Step(h) ==
    \/ Read(h) \/ Reread(h)
    \/ SaveAdd(h) \/ SaveUpdate(h) \/ SaveDel(h) \/ SaveToggle(h) \/ SaveFails(h)
    \/ List(h) \/ ApplyDelete(h) \/ ApplyUpdate(h) \/ Create(h)

Next == Crash \/ \E h \in Handlers : Begin(h) \/ Step(h)

Spec == Init /\ [][Next]_vars

-----------------------------------------------------------------------------
TypeOK ==
    /\ rows \in [Rules -> Row \cup {NoRow}]
    /\ nextId \in 1..(MaxRules + 1)
    /\ crd \in [Clusters -> SUBSET PromRule]
    /\ pc \in [Handlers -> Stages]
    /\ op \in [Handlers -> Ops]
    /\ id \in [Handlers -> 0..MaxRules]
    /\ target \in [Handlers -> Clusters \cup {NoCluster}]
    /\ copy \in [Handlers -> Row \cup {NoRow}]
    /\ listing \in [Handlers -> SUBSET PromRule]
    /\ served \in 0..MaxRequests
    /\ tableVer \in [Clusters -> Nat]
    /\ listVer \in [Handlers -> Nat]
    /\ crdVer \in [Clusters -> Nat]
    /\ cause \in [Clusters -> SUBSET Causes]

\* A cluster's PrometheusRule differs from the rules a sync would publish now
\* only while some handler still has its sync ahead of it, or for a cause that
\* happened: a failed sync, a rule whose cluster a failed read had hidden, an
\* older listing written over a newer one, or a restart before the sync.  In
\* particular no handler forgets to sync after it changed the table.
StaleHasCause ==
    \A c \in Clusters :
        \/ crd[c] = Published(rows, c)
        \/ \E h \in Handlers : SyncDue(h, c)
        \/ cause[c] # {}
=============================================================================
