--------------------------- MODULE WorkloadEdits ---------------------------
(***************************************************************************)
(* Edits of one Deployment (models/deploy_model.go, controllers/deploy.go) *)
(* and the backups that go with them (controllers/backup.go).  The object  *)
(* lives in the API server; every handler works on a copy: it stores the   *)
(* object's YAML in xkb_backup, Gets the object, changes the fields it is  *)
(* about and Updates it.  The server rejects an Update whose               *)
(* resourceVersion or uid is not the object's.  A YAML edit sends back a   *)
(* document the user opened earlier; Recover sends back a stored one.      *)
(* StatefulSets, ConfigMaps, Secrets, Services, Ingresses, CronJobs and    *)
(* HPAs go the same way; the *Route kinds of the gateway API differ in one *)
(* step (YamlRefreshes).                                                   *)
(***************************************************************************)
EXTENDS Integers, FiniteSets

CONSTANTS
    Handlers,      \* request goroutines
    Operations,    \* which of the operations below the instance serves
    Vals,          \* values of a field
    Escaped,       \* values whose YAML text contains a backslash
    Garbled,       \* what such a value is once MySQL has unescaped it
    MaxRequests,   \* bound: requests ever served
    MaxVersion,    \* bound: versions the cluster's own controllers may reach
    Tries,         \* attempts of retry.RetryOnConflict (5 in DefaultRetry)
    YamlRefreshes, \* the YAML update first copies the live resourceVersion
    HandWritten,   \* a YAML edit may carry no resourceVersion and no uid
    Faults,        \* calls may fail
    None

\* What the handlers of controllers/deploy.go change and whether they back up.
Edit(fields, backup) == [kind |-> "edit", fields |-> fields, backup |-> backup]

Labels       == Edit({"labels"}, TRUE)
Image        == Edit({"image"}, TRUE)
UpdateImage  == Edit({"image"}, FALSE)
Replicas     == Edit({"replicas"}, FALSE)
Strategy     == Edit({"strategy"}, TRUE)
Modify       == Edit({"replicas", "historyLimit", "image", "port"}, FALSE)
Host         == Edit({"hostAliases"}, TRUE)
Resource     == Edit({"resources"}, TRUE)
Probe        == Edit({"probes"}, TRUE)
Env          == Edit({"env"}, TRUE)
Lifecycle    == Edit({"lifecycle"}, TRUE)
Tolerations  == Edit({"tolerations"}, TRUE)
NodeAffinity == Edit({"nodeAffinity"}, TRUE)
PodAffinity  == Edit({"podAffinity"}, TRUE)

Template == {"image", "port", "hostAliases", "resources", "probes", "env", "lifecycle",
             "tolerations", "nodeAffinity", "podAffinity", "restartedAt"}

ModifyByYaml == [kind |-> "yaml",     fields |-> {},              backup |-> TRUE]
RollBack     == [kind |-> "rollback", fields |-> Template,        backup |-> TRUE]
Restart      == [kind |-> "restart",  fields |-> {"restartedAt"}, backup |-> FALSE]
Create       == [kind |-> "create",   fields |-> {},              backup |-> FALSE]
Del          == [kind |-> "del",      fields |-> {},              backup |-> TRUE]
DelRoute     == [kind |-> "del",      fields |-> {},              backup |-> FALSE]
Backup       == [kind |-> "save",     fields |-> {},              backup |-> TRUE]
Recover      == [kind |-> "recover",  fields |-> {},              backup |-> FALSE]

AllOperations ==
    {Labels, Image, UpdateImage, Replicas, Strategy, Modify, Host, Resource, Probe, Env,
     Lifecycle, Tolerations, NodeAffinity, PodAffinity, ModifyByYaml, RollBack, Restart,
     Create, Del, DelRoute, Backup, Recover}

\* The fields that some operation of the instance is about.
Fields == UNION {o.fields : o \in Operations \ {RollBack}} \cup {"rest"}
TemplateFields == Template \cap Fields

Specs     == [Fields -> Vals \cup {Garbled}]
Objects   == [uid: Nat, rv: Nat, spec: Specs]
Documents == [uid: Nat \cup {None}, rv: Nat \cup {None}, spec: Specs]
Stages    == {"backup", "get", "rs", "row", "refresh", "update", "patch", "delete",
              "create"}

\* A request in progress: where its goroutine stands, the operation, the value
\* the user asked for, the document it will send, the conflicts it has met; and
\* of its history the fields the user means to change and whether its backup is
\* not of the object it works on.
Requests == [stage: Stages, op: AllOperations, val: Vals, body: Documents \cup {None},
             tries: Nat, intent: SUBSET Fields, missed: BOOLEAN]

ASSUME WorkloadEditsAssumption ==
    /\ Operations \subseteq AllOperations
    /\ Escaped \subseteq Vals
    /\ Garbled \notin Vals
    /\ MaxRequests \in Nat /\ MaxVersion \in Nat /\ Tries \in Nat \ {0}
    /\ YamlRefreshes \in BOOLEAN /\ HandWritten \in BOOLEAN /\ Faults \in BOOLEAN
    /\ None \notin Nat
    /\ None \notin Objects \cup Documents \cup Requests \cup Specs

VARIABLES
    obj,       \* the object in the API server, None when there is none
    next,      \* the resourceVersion of the next write, and uid of the next object
    templates, \* pod templates of the object's ReplicaSets
    backups,   \* rows of xkb_backup: documents, or None for an empty content
    req,       \* the request each handler serves, None when it serves none
    served     \* requests begun so far

vars == <<obj, next, templates, backups, req, served>>

With(spec, fs, v) == [f \in Fields |-> IF f \in fs THEN v ELSE spec[f]]
TemplateOf(spec)  == [f \in TemplateFields |-> spec[f]]
WithTemplate(spec, t) == [f \in Fields |-> IF f \in TemplateFields THEN t[f] ELSE spec[f]]

\* InsertBackup escapes quotes and nothing else: MySQL drops the backslashes.
Stored(spec) == [f \in Fields |-> IF spec[f] \in Escaped THEN Garbled ELSE spec[f]]

Init ==
    /\ \E v \in Vals : obj = [uid |-> 1, rv |-> 1, spec |-> [f \in Fields |-> v]]
    /\ next = 2
    /\ templates = {TemplateOf(obj.spec)}
    /\ backups = {}
    /\ req = [h \in Handlers |-> None]
    /\ served = 0

At(h, stage) == req[h] # None /\ req[h].stage = stage
Answer(h)    == req' = [req EXCEPT ![h] = None]

-----------------------------------------------------------------------------
(* The API server.                                                         *)

Accepts(doc) == /\ obj # None
                /\ doc.uid \in {None, obj.uid}
                /\ doc.rv \in {None, obj.rv}

\* Handlers whose backup no longer matters once the object changes now.
Exposed(g) == \/ req[g].stage \in {"get", "refresh", "delete"}
              \/ req[g].stage = "update" /\ req[g].body.rv = None

\* h answers; whoever has just backed up has done so for nothing.
Overtake(h) ==
    req' = [g \in Handlers |->
              IF g = h \/ req[g] = None THEN None
              ELSE [req[g] EXCEPT !.missed = @ \/ Exposed(g)]]

\* The object gets a new content; an Update that changes nothing is no write.
Write(h, spec) ==
    IF spec = obj.spec
    THEN UNCHANGED <<obj, next>> /\ Answer(h)
    ELSE /\ obj' = [obj EXCEPT !.rv = next, !.spec = spec]
         /\ next' = next + 1
         /\ Overtake(h)

\* The cluster's controllers: a new template gets its ReplicaSet, and the
\* status is updated now and then, which takes a new version too.
Reconcile ==
    /\ obj # None /\ next <= MaxVersion
    /\ templates' = templates \cup {TemplateOf(obj.spec)}
    /\ obj' = [obj EXCEPT !.rv = next]
    /\ next' = next + 1
    /\ UNCHANGED <<backups, req, served>>

-----------------------------------------------------------------------------
(* The handlers.                                                           *)

\* The call an operation makes first, its backup apart.
FirstCall(o) ==
    [edit     |-> "get",
     rollback |-> "get",
     yaml     |-> IF YamlRefreshes THEN "refresh" ELSE "update",
     recover  |-> "row",
     restart  |-> "patch",
     create   |-> "create",
     del      |-> "delete"][o.kind]

First(o) == IF o.backup THEN "backup" ELSE FirstCall(o)

\* The handler goes on whether or not it has a backup; Backup itself answers.
AfterBackup(h, missed) ==
    IF req[h].op.kind = "save"
    THEN Answer(h)
    ELSE req' = [req EXCEPT ![h].stage = FirstCall(req[h].op), ![h].missed = missed]

Receive(h, o, v, doc, intent) ==
    /\ req[h] = None /\ served < MaxRequests
    /\ served' = served + 1
    /\ req' = [req EXCEPT ![h] = [stage |-> First(o), op |-> o, val |-> v, body |-> doc,
                                  tries |-> 0, intent |-> intent, missed |-> FALSE]]
    /\ UNCHANGED <<obj, next, templates, backups>>

\* A request of any kind but YAML arrives.
Begin(h, o, v) ==
    /\ o.kind # "yaml"
    /\ Receive(h, o, v, None, IF o.kind = "recover" THEN Fields ELSE o.fields \cap Fields)

\* The user opens the YAML, changes one field and sends the rest back as it was.
BeginYaml(h, f, v) ==
    /\ ModifyByYaml \in Operations /\ obj # None
    /\ Receive(h, ModifyByYaml, v, [obj EXCEPT !.spec = With(@, {f}, v)], {f})

\* Or the document is the user's own and replaces everything.
BeginOwnYaml(h, v) ==
    /\ ModifyByYaml \in Operations /\ HandWritten
    /\ Receive(h, ModifyByYaml, v,
               [uid |-> None, rv |-> None, spec |-> [f \in Fields |-> v]], Fields)

\* Mutant: the row is never inserted.
BackupDropped(h) ==
    /\ At(h, "backup")
    /\ AfterBackup(h, FALSE)
    /\ UNCHANGED <<obj, next, templates, backups, served>>

\* GetDeployYaml and InsertBackup; what either returns is ignored, so that a
\* failed read stores an empty row.
SaveBackup(h) ==
    /\ At(h, "backup")
    /\ \/ /\ obj # None
          /\ backups' = backups \cup {[obj EXCEPT !.spec = Stored(@)]}
          /\ AfterBackup(h, FALSE)
       \/ /\ obj = None \/ Faults
          /\ backups' = backups \cup {None}
          /\ AfterBackup(h, TRUE)
       \/ /\ Faults
          /\ UNCHANGED backups
          /\ AfterBackup(h, TRUE)
    /\ UNCHANGED <<obj, next, templates, served>>

\* Mutant: the copy has the version of the object as it is when it is sent.
GetUnversioned(h) ==
    /\ At(h, "get")
    /\ \/ /\ obj # None
          /\ req' = [req EXCEPT
                ![h].body = [obj EXCEPT !.rv = None,
                                        !.spec = With(@, req[h].op.fields, req[h].val)],
                ![h].stage = "update"]
       \/ (obj = None \/ Faults) /\ Answer(h)
    /\ UNCHANGED <<obj, next, templates, backups, served>>

\* Mutant: the error of the Get is not looked at.
GetUnchecked(h) ==
    /\ At(h, "get")
    /\ req' = [req EXCEPT
          ![h].body = IF obj = None THEN None
                      ELSE [obj EXCEPT !.spec = With(@, req[h].op.fields, req[h].val)],
          ![h].stage = "update"]
    /\ UNCHANGED <<obj, next, templates, backups, served>>

\* Get, and the change of the fields of the operation in the copy.
Get(h) ==
    /\ At(h, "get")
    /\ \/ /\ obj # None /\ req[h].op.kind = "edit"
          /\ req' = [req EXCEPT
                ![h].body = [obj EXCEPT !.spec = With(@, req[h].op.fields, req[h].val)],
                ![h].stage = "update"]
       \/ /\ obj # None /\ req[h].op.kind = "rollback"
          /\ req' = [req EXCEPT ![h].body = obj, ![h].stage = "rs"]
       \/ (obj = None \/ Faults) /\ Answer(h)
    /\ UNCHANGED <<obj, next, templates, backups, served>>

\* DeployRollBack: the template of the ReplicaSet the user chose, which the
\* controller may have removed since.
GetReplicaSet(h) ==
    /\ At(h, "rs")
    /\ \/ \E t \in templates :
            req' = [req EXCEPT ![h].body.spec = WithTemplate(@, t), ![h].stage = "update"]
       \/ Answer(h)
    /\ UNCHANGED <<obj, next, templates, backups, served>>

\* Recover: GetBackupById; an empty or garbled content may not parse.
GetRow(h) ==
    /\ At(h, "row")
    /\ \/ \E b \in backups \ {None} :
            req' = [req EXCEPT ![h].body = b,
                               ![h].stage = IF YamlRefreshes THEN "refresh" ELSE "update"]
       \/ /\ \/ None \in backups \/ backups = {} \/ Faults
             \/ \E b \in backups \ {None}, f \in Fields : b.spec[f] = Garbled
          /\ Answer(h)
    /\ UNCHANGED <<obj, next, templates, backups, served>>

\* UpdateTCPRouteByYaml and its like take the live object's resourceVersion.
Refresh(h) ==
    /\ At(h, "refresh")
    /\ \/ obj # None /\ req' = [req EXCEPT ![h].body.rv = obj.rv, ![h].stage = "update"]
       \/ (obj = None \/ Faults) /\ Answer(h)
    /\ UNCHANGED <<obj, next, templates, backups, served>>

UpdateLands(h) ==
    /\ At(h, "update")
    /\ Accepts(req[h].body)
    /\ Write(h, req[h].body.spec)
    /\ UNCHANGED <<templates, backups, served>>

\* Mutant: the retried function Gets the object again and takes its version.
UpdateConflictsRefetch(h) ==
    /\ At(h, "update")
    /\ obj # None /\ ~Accepts(req[h].body)
    /\ IF req[h].op.kind = "rollback" /\ req[h].tries + 1 < Tries
       THEN req' = [req EXCEPT ![h].tries = @ + 1,
                               ![h].body.rv = obj.rv, ![h].body.uid = obj.uid]
       ELSE Answer(h)
    /\ UNCHANGED <<obj, next, templates, backups, served>>

\* Only DeployRollBack retries, with the copy it has.
UpdateConflicts(h) ==
    /\ At(h, "update")
    /\ obj # None /\ ~Accepts(req[h].body)
    /\ IF req[h].op.kind = "rollback" /\ req[h].tries + 1 < Tries
       THEN req' = [req EXCEPT ![h].tries = @ + 1]
       ELSE Answer(h)
    /\ UNCHANGED <<obj, next, templates, backups, served>>

\* There is no object, or the call fails, be it after the write: then
\* UpdateLands has taken place and the answer is an error.
UpdateFails(h) ==
    /\ At(h, "update")
    /\ obj = None \/ Faults
    /\ Answer(h)
    /\ UNCHANGED <<obj, next, templates, backups, served>>

\* DeployRestart: one Patch of one annotation, merged by the server.
Patch(h) ==
    /\ At(h, "patch")
    /\ \/ obj # None /\ Write(h, With(obj.spec, req[h].op.fields, req[h].val))
       \/ (obj = None \/ Faults) /\ Answer(h) /\ UNCHANGED <<obj, next>>
    /\ UNCHANGED <<templates, backups, served>>

\* DeployDel deletes whatever bears the name.
Delete(h) ==
    /\ At(h, "delete")
    /\ \/ obj # None /\ obj' = None /\ templates' = {} /\ Overtake(h)
       \/ (obj = None \/ Faults) /\ Answer(h) /\ UNCHANGED <<obj, templates>>
    /\ UNCHANGED <<next, backups, served>>

\* DeployCreate, DeployYamlCreateV2: an object that exists is left alone.
CreateNew(h) ==
    /\ At(h, "create")
    /\ \/ /\ obj = None
          /\ obj' = [uid |-> next, rv |-> next, spec |-> [f \in Fields |-> req[h].val]]
          /\ next' = next + 1
          /\ templates' = {TemplateOf(obj'.spec)}
       \/ (obj # None \/ Faults) /\ UNCHANGED <<obj, next, templates>>
    /\ Answer(h)
    /\ UNCHANGED <<backups, served>>

Step(h) ==
    \/ SaveBackup(h) \/ Get(h) \/ GetReplicaSet(h) \/ GetRow(h) \/ Refresh(h)
    \/ UpdateLands(h) \/ UpdateConflicts(h) \/ UpdateFails(h)
    \/ Patch(h) \/ Delete(h) \/ CreateNew(h)

Next ==
    \/ Reconcile
    \/ \E h \in Handlers :
         \/ \E o \in Operations, v \in Vals : Begin(h, o, v)
         \/ \E f \in Fields, v \in Vals : BeginYaml(h, f, v)
         \/ \E v \in Vals : BeginOwnYaml(h, v)
         \/ Step(h)

Spec == Init /\ [][Next]_vars

-----------------------------------------------------------------------------
TypeOK ==
    /\ obj \in Objects \cup {None}
    /\ next \in Nat
    /\ templates \in SUBSET [TemplateFields -> Vals \cup {Garbled}]
    /\ backups \in SUBSET (Objects \cup {None})
    /\ req \in [Handlers -> Requests \cup {None}]
    /\ \A h \in Handlers : (At(h, "rs") \/ At(h, "refresh") \/ At(h, "update"))
                              => req[h].body # None
    /\ served \in 0..MaxRequests

\* However handlers overlap, an Update that lands changes no field but those
\* its user meant to change: the resourceVersion of the copy keeps it from
\* undoing an edit it has not seen.  Only the YAML update of the kinds that
\* overwrite the version (the *Route kinds) gives that up.
OnlyIntended ==
    [][\A h \in Handlers, f \in Fields :
         (UpdateLands(h) /\ obj'.spec[f] # obj.spec[f])
             => f \in req[h].intent \/ (YamlRefreshes /\ req[h].op.kind = "yaml")]_vars

\* A handler that backs up has stored the very content it replaces or deletes,
\* unless its backup failed or somebody else wrote between the two.
BackupPrecedesChange ==
    [][\A h \in Handlers :
         ((UpdateLands(h) \/ Delete(h)) /\ obj' # obj /\ req[h].op.backup /\ ~req[h].missed)
             => \E b \in backups \ {None} : b.spec = Stored(obj.spec)]_vars

\* "确认恢复 ... 这将覆盖当前资源" (BackupList.tsx): once Recover has sent its row and
\* answered, the object has the row's content.
RecoverOverwrites ==
    [][\A h \in Handlers :
         (At(h, "update") /\ req[h].op.kind = "recover" /\ req'[h] = None /\ obj # None)
             => obj' # None /\ obj'.spec = req[h].body.spec]_vars

\* A rollback that met a conflict never lands: RetryOnConflict sends the same
\* stale copy again.
ConflictIsFinal == [][\A h \in Handlers : UpdateLands(h) => req[h].tries = 0]_vars

-----------------------------------------------------------------------------
(* The abstract specification: edits that overlap are as good as atomic.   *)

\* The groups of fields that one request sets: a YAML edit of one field, a
\* document of the user's own, and the fields of each operation.
Groups == {o.fields \cap Fields : o \in Operations} \cup {{f} : f \in Fields} \cup {Fields}

Atomic == INSTANCE AtomicEdits WITH
            content <- IF obj = None THEN None ELSE obj.spec,
            revisions <- templates,
            Garble <- Stored

\* Every step of the handlers is an edit of AtomicEdits or leaves the content
\* alone, unless the YAML update overwrites the version.
ImplementsAtomicEdits == Atomic!Spec
=============================================================================
