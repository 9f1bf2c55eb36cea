------------------------ MODULE WorkloadEditsProofs ------------------------
(***************************************************************************)
(* WorkloadEdits, proved for any handlers, operations, values, faults and  *)
(* numbers of requests.                                                    *)
(***************************************************************************)
EXTENDS WorkloadEdits, TLAPS

Kinds == {"edit", "yaml", "rollback", "restart", "create", "del", "save", "recover"}

LEMMA OperationKinds ==
  ASSUME NEW o \in AllOperations
  PROVE  /\ o.kind \in Kinds
         /\ o.kind = "rollback" => o = RollBack
         /\ o.kind = "save" => o = Backup
         /\ o.kind = "yaml" => o = ModifyByYaml
         /\ o.kind = "restart" => o = Restart
         /\ o.kind = "create" => o = Create
         /\ o.kind = "recover" => o = Recover
<1> DEFINE Edits == {Labels, Image, UpdateImage, Replicas, Strategy, Modify, Host, Resource,
                     Probe, Env, Lifecycle, Tolerations, NodeAffinity, PodAffinity}
<1>1. CASE o \in Edits
  <2>1. o.kind = "edit"
    BY <1>1 DEF Edit, Labels, Image, UpdateImage, Replicas, Strategy, Modify, Host, Resource,
                Probe, Env, Lifecycle, Tolerations, NodeAffinity, PodAffinity
  <2> QED BY <2>1 DEF Kinds
<1>2. CASE o = ModifyByYaml
  BY <1>2 DEF ModifyByYaml, Kinds
<1>3. CASE o = RollBack
  BY <1>3 DEF RollBack, Kinds
<1>4. CASE o = Restart
  BY <1>4 DEF Restart, Kinds
<1>5. CASE o = Create
  BY <1>5 DEF Create, Kinds
<1>6. CASE o \in {Del, DelRoute}
  BY <1>6 DEF Del, DelRoute, Kinds
<1>7. CASE o = Backup
  BY <1>7 DEF Backup, Kinds
<1>8. CASE o = Recover
  BY <1>8 DEF Recover, Kinds
<1> QED BY <1>1, <1>2, <1>3, <1>4, <1>5, <1>6, <1>7, <1>8 DEF AllOperations

LEMMA SavesBackUp ==
  /\ Backup.backup /\ ModifyByYaml.backup /\ RollBack.backup
  /\ ~Restart.backup /\ ~Create.backup /\ ~Recover.backup
  /\ RollBack.fields = Template
  BY DEF Backup, ModifyByYaml, RollBack, Restart, Create, Recover

LEMMA FirstCallStage ==
  \A o \in AllOperations : /\ First(o) \in Stages
                           /\ o.kind # "save" => FirstCall(o) \in Stages
<1> SUFFICES ASSUME NEW o \in AllOperations
             PROVE  /\ First(o) \in Stages
                    /\ o.kind # "save" => FirstCall(o) \in Stages
  OBVIOUS
<1>1. o.kind \in Kinds /\ (o.kind = "save" => o = Backup)
  BY OperationKinds
<1>2. o.kind # "save" => FirstCall(o) \in Stages
  BY <1>1 DEF FirstCall, Stages, Kinds
<1>3. ~o.backup => o.kind # "save"
  BY <1>1, SavesBackUp
<1> QED BY <1>2, <1>3 DEF First, Stages

LEMMA SpecsClosed ==
  /\ \A s \in Specs, v \in Vals : \A fs : With(s, fs, v) \in Specs
  /\ \A s \in Specs : Stored(s) \in Specs
  /\ \A s \in Specs : TemplateOf(s) \in [TemplateFields -> Vals \cup {Garbled}]
  /\ \A s \in Specs, t \in [TemplateFields -> Vals \cup {Garbled}] : WithTemplate(s, t) \in Specs
  /\ \A v \in Vals : [f \in Fields |-> v] \in Specs
  BY DEF Specs, With, Stored, TemplateOf, WithTemplate, TemplateFields

-----------------------------------------------------------------------------
HasBody(h) == (At(h, "rs") \/ At(h, "refresh") \/ At(h, "update")) => req[h].body # None

\* TypeOK in a form that speaks of one handler at a time.
LEMMA TypeParts ==
  TypeOK <=> /\ obj \in Objects \cup {None} /\ next \in Nat /\ served \in 0..MaxRequests
             /\ templates \in SUBSET [TemplateFields -> Vals \cup {Garbled}]
             /\ backups \in SUBSET (Objects \cup {None})
             /\ req \in [Handlers -> Requests \cup {None}]
             /\ \A h \in Handlers : HasBody(h)
  BY DEF TypeOK, HasBody

LEMMA ReceiveType ==
  ASSUME TypeOK, NEW h \in Handlers, NEW o \in AllOperations, NEW v \in Vals,
         NEW doc \in Documents \cup {None}, NEW intent \in SUBSET Fields,
         First(o) \in {"rs", "refresh", "update"} => doc # None,
         Receive(h, o, v, doc, intent)
  PROVE  TypeOK'
<1> USE WorkloadEditsAssumption
<1>1. [stage |-> First(o), op |-> o, val |-> v, body |-> doc, tries |-> 0,
       intent |-> intent, missed |-> FALSE] \in Requests
  BY FirstCallStage DEF Requests
<1>2. req' \in [Handlers -> Requests \cup {None}]
  BY <1>1 DEF Receive, TypeOK
<1>3. \A g \in Handlers : HasBody(g)'
  BY DEF Receive, TypeOK, HasBody, At
<1>4. served' \in 0..MaxRequests
  BY DEF Receive, TypeOK
<1> QED BY <1>2, <1>3, <1>4 DEF Receive, TypeOK, HasBody

-----------------------------------------------------------------------------
(* What a step of h does to the requests: it replaces h's own, and marks   *)
(* others at most.                                                         *)

Marked(q, r) == \E m \in BOOLEAN : r # None /\ q = [r EXCEPT !.missed = m]

Bystanders(h) == \A g \in Handlers \ {h} : req'[g] = req[g] \/ Marked(req'[g], req[g])

\* The request h goes on with.
Becomes(h, q) == /\ req' \in [Handlers -> Requests \cup {None}]
                 /\ req'[h] = q
                 /\ Bystanders(h)

LEMMA AnswerBecomes ==
  ASSUME TypeOK, NEW h \in Handlers, Answer(h)
  PROVE  Becomes(h, None)
  BY DEF Answer, Becomes, Bystanders, TypeOK

LEMMA OvertakeBecomes ==
  ASSUME TypeOK, NEW h \in Handlers, Overtake(h)
  PROVE  Becomes(h, None)
<1> DEFINE M(g) == [req[g] EXCEPT !.missed = @ \/ Exposed(g)]
<1>1. ASSUME NEW g \in Handlers, req[g] # None
      PROVE  M(g) \in Requests /\ \E m \in BOOLEAN : M(g) = [req[g] EXCEPT !.missed = m]
  <2>1. req[g] \in Requests
    BY <1>1 DEF TypeOK
  <2>2. (req[g].missed \/ Exposed(g)) \in BOOLEAN
    OBVIOUS
  <2> QED BY <2>1, <2>2 DEF Requests
<1>2. \A g \in Handlers : req'[g] = IF g = h \/ req[g] = None THEN None ELSE M(g)
  BY DEF Overtake
<1> HIDE DEF M
<1>3. req' = [g \in Handlers |-> IF g = h \/ req[g] = None THEN None ELSE M(g)]
  BY DEF Overtake, M
<1>4. req' \in [Handlers -> Requests \cup {None}]
  BY <1>1, <1>3
<1>5. Bystanders(h)
  <2> SUFFICES ASSUME NEW g \in Handlers \ {h}
               PROVE  req'[g] = req[g] \/ Marked(req'[g], req[g])
    BY DEF Bystanders
  <2>1. CASE req[g] = None
    BY <2>1, <1>2
  <2>2. CASE req[g] # None
    <3>1. req'[g] = M(g)
      BY <2>2, <1>2
    <3> QED BY <3>1, <2>2, <1>1 DEF Marked
  <2> QED BY <2>1, <2>2
<1> QED BY <1>2, <1>4, <1>5 DEF Becomes

LEMMA WriteBecomes ==
  ASSUME TypeOK, NEW h \in Handlers, NEW s, Write(h, s)
  PROVE  Becomes(h, None)
  BY AnswerBecomes, OvertakeBecomes DEF Write

\* What a handler that keeps its request makes of it.
LEMMA UpdateBecomes ==
  ASSUME TypeOK, NEW h \in Handlers, req[h] # None, NEW q \in Requests,
         req' = [req EXCEPT ![h] = q]
  PROVE  Becomes(h, q)
  BY DEF Becomes, Bystanders, TypeOK

LEMMA BecomesType ==
  ASSUME TypeOK, NEW h \in Handlers, NEW q, Becomes(h, q),
         q # None /\ q.stage \in {"rs", "refresh", "update"} => q.body # None
  PROVE  \A g \in Handlers : HasBody(g)'
<1> SUFFICES ASSUME NEW g \in Handlers PROVE HasBody(g)'
  OBVIOUS
<1>1. CASE g = h
  BY <1>1 DEF Becomes, HasBody, At
<1>2. CASE g # h /\ req'[g] = req[g]
  BY <1>2 DEF TypeOK, HasBody, At
<1>3. CASE g # h /\ Marked(req'[g], req[g])
  <2>1. req[g] \in Requests
    BY <1>3 DEF TypeOK, Marked
  <2>2. req'[g].stage = req[g].stage /\ req'[g].body = req[g].body
    BY <1>3, <2>1 DEF Marked, Requests
  <2>3. HasBody(g)
    BY DEF TypeOK, HasBody
  <2> QED BY <2>1, <2>2, <2>3, <1>3 DEF HasBody, At, Marked
<1> QED BY <1>1, <1>2, <1>3 DEF Becomes, Bystanders

\* The record a handler holds after a step that keeps its request, field by
\* field.
LEMMA Moved ==
  ASSUME NEW r \in Requests, NEW b \in Documents \cup {None}, NEW stage \in Stages,
         NEW m \in BOOLEAN, NEW n \in Nat
  PROVE  /\ [r EXCEPT !.body = b, !.stage = stage] \in Requests
         /\ [r EXCEPT !.stage = stage, !.missed = m] \in Requests
         /\ [r EXCEPT !.tries = n] \in Requests
  BY DEF Requests

LEMMA ObjectDocument == Objects \subseteq Documents
  BY DEF Objects, Documents

AfterSave(h, m) == [req[h] EXCEPT !.stage = FirstCall(req[h].op), !.missed = m]

LEMMA AfterBackupBecomes ==
  ASSUME TypeOK, NEW h \in Handlers, req[h] # None, NEW m \in BOOLEAN, AfterBackup(h, m)
  PROVE  \/ Becomes(h, None)
         \/ req[h].op.kind # "save" /\ Becomes(h, AfterSave(h, m)) /\ AfterSave(h, m) \in Requests
<1>1. req[h] \in Requests /\ req[h].op \in AllOperations
  BY DEF TypeOK, Requests
<1>2. CASE req[h].op.kind = "save"
  BY <1>2, AnswerBecomes DEF AfterBackup
<1>3. CASE req[h].op.kind # "save"
  <2>1. AfterSave(h, m) \in Requests
    BY <1>1, <1>3, FirstCallStage, Moved DEF AfterSave
  <2>2. req' = [req EXCEPT ![h] = AfterSave(h, m)]
    BY <1>3 DEF AfterBackup, AfterSave
  <2> QED BY <1>3, <2>1, <2>2, UpdateBecomes
<1> QED BY <1>2, <1>3

GetEdit(h) == [req[h] EXCEPT
                 !.body = [obj EXCEPT !.spec = With(@, req[h].op.fields, req[h].val)],
                 !.stage = "update"]
GetRollback(h) == [req[h] EXCEPT !.body = obj, !.stage = "rs"]
Chosen(h, t)   == [req[h] EXCEPT
                     !.body = [req[h].body EXCEPT !.spec = WithTemplate(req[h].body.spec, t)],
                     !.stage = "update"]
Restored(h, b) == [req[h] EXCEPT !.body = b,
                                 !.stage = IF YamlRefreshes THEN "refresh" ELSE "update"]
Refreshed(h)   == [req[h] EXCEPT !.body = [req[h].body EXCEPT !.rv = obj.rv],
                                 !.stage = "update"]
Retried(h)     == [req[h] EXCEPT !.tries = @ + 1]

LEMMA GetBecomes ==
  ASSUME TypeOK, NEW h \in Handlers, Get(h)
  PROVE  \/ Becomes(h, None)
         \/ obj # None /\ req[h].op.kind = "edit" /\ Becomes(h, GetEdit(h)) /\ GetEdit(h) \in Requests
         \/ obj # None /\ req[h].op.kind = "rollback" /\ Becomes(h, GetRollback(h))
            /\ GetRollback(h) \in Requests
<1>1. req[h] \in Requests /\ req[h] # None /\ req[h].val \in Vals
  BY DEF Get, At, TypeOK, Requests
<1>2. CASE Answer(h)
  BY <1>2, AnswerBecomes
<1>3. CASE /\ obj # None /\ req[h].op.kind = "edit"
           /\ req' = [req EXCEPT
                ![h].body = [obj EXCEPT !.spec = With(@, req[h].op.fields, req[h].val)],
                ![h].stage = "update"]
  <2>1. obj \in Objects /\ obj.spec \in Specs
    BY <1>3 DEF TypeOK, Objects
  <2>2. With(obj.spec, req[h].op.fields, req[h].val) \in Specs
    BY <1>1, <2>1, SpecsClosed
  <2>3. [obj EXCEPT !.spec = With(@, req[h].op.fields, req[h].val)] \in Objects
    BY <2>1, <2>2 DEF Objects
  <2>4. GetEdit(h) \in Requests
    BY <1>1, <2>3, ObjectDocument, Moved DEF GetEdit, Stages
  <2>5. req' = [req EXCEPT ![h] = GetEdit(h)]
    BY <1>3 DEF GetEdit
  <2> QED BY <1>1, <1>3, <2>4, <2>5, UpdateBecomes
<1>4. CASE /\ obj # None /\ req[h].op.kind = "rollback"
           /\ req' = [req EXCEPT ![h].body = obj, ![h].stage = "rs"]
  <2>1. GetRollback(h) \in Requests
    BY <1>1, <1>4, ObjectDocument, Moved DEF GetRollback, Stages, TypeOK
  <2>2. req' = [req EXCEPT ![h] = GetRollback(h)]
    BY <1>4 DEF GetRollback
  <2> QED BY <1>1, <1>4, <2>1, <2>2, UpdateBecomes
<1> QED BY <1>2, <1>3, <1>4 DEF Get

LEMMA GetReplicaSetBecomes ==
  ASSUME TypeOK, NEW h \in Handlers, GetReplicaSet(h)
  PROVE  \/ Becomes(h, None)
         \/ \E t \in templates : Becomes(h, Chosen(h, t)) /\ Chosen(h, t) \in Requests
<1>1. req[h] \in Requests /\ req[h] # None /\ req[h].body \in Documents
  BY DEF GetReplicaSet, At, TypeOK, Requests
<1>2. CASE Answer(h)
  BY <1>2, AnswerBecomes
<1>3. ASSUME NEW t \in templates,
             req' = [req EXCEPT ![h].body.spec = WithTemplate(@, t), ![h].stage = "update"]
      PROVE  Becomes(h, Chosen(h, t)) /\ Chosen(h, t) \in Requests
  <2>1. WithTemplate(req[h].body.spec, t) \in Specs
    <3>1. t \in [TemplateFields -> Vals \cup {Garbled}] /\ req[h].body.spec \in Specs
      BY <1>1 DEF TypeOK, Documents
    <3> QED BY <3>1, SpecsClosed
  <2>2. [req[h].body EXCEPT !.spec = WithTemplate(@, t)] \in Documents
    BY <1>1, <2>1 DEF Documents
  <2>3. Chosen(h, t) \in Requests
    BY <1>1, <2>2, Moved DEF Chosen, Stages
  <2>4. req' = [req EXCEPT ![h] = Chosen(h, t)]
    BY <1>3 DEF Chosen
  <2> QED BY <1>1, <2>3, <2>4, UpdateBecomes
<1> QED BY <1>2, <1>3 DEF GetReplicaSet

LEMMA GetRowBecomes ==
  ASSUME TypeOK, NEW h \in Handlers, GetRow(h)
  PROVE  \/ Becomes(h, None)
         \/ \E b \in backups \ {None} : Becomes(h, Restored(h, b)) /\ Restored(h, b) \in Requests
<1>1. req[h] \in Requests /\ req[h] # None
  BY DEF GetRow, At, TypeOK
<1>2. CASE Answer(h)
  BY <1>2, AnswerBecomes
<1>3. ASSUME NEW b \in backups \ {None},
             req' = [req EXCEPT ![h].body = b,
                                ![h].stage = IF YamlRefreshes THEN "refresh" ELSE "update"]
      PROVE  Becomes(h, Restored(h, b)) /\ Restored(h, b) \in Requests
  <2>1. b \in Documents
    BY ObjectDocument DEF TypeOK
  <2>2. (IF YamlRefreshes THEN "refresh" ELSE "update") \in Stages
    BY DEF Stages
  <2>3. Restored(h, b) \in Requests
    BY <1>1, <2>1, <2>2, Moved DEF Restored
  <2>4. req' = [req EXCEPT ![h] = Restored(h, b)]
    BY <1>3 DEF Restored
  <2> QED BY <1>1, <2>3, <2>4, UpdateBecomes
<1> QED BY <1>2, <1>3 DEF GetRow

LEMMA RefreshBecomes ==
  ASSUME TypeOK, NEW h \in Handlers, Refresh(h)
  PROVE  \/ Becomes(h, None)
         \/ obj # None /\ Becomes(h, Refreshed(h)) /\ Refreshed(h) \in Requests
<1>1. req[h] \in Requests /\ req[h] # None /\ req[h].body \in Documents
  BY DEF Refresh, At, TypeOK, Requests
<1>2. CASE Answer(h)
  BY <1>2, AnswerBecomes
<1>3. CASE obj # None /\ req' = [req EXCEPT ![h].body.rv = obj.rv, ![h].stage = "update"]
  <2>1. obj.rv \in Nat
    BY <1>3 DEF TypeOK, Objects
  <2>2. [req[h].body EXCEPT !.rv = obj.rv] \in Documents
    BY <1>1, <2>1 DEF Documents
  <2>3. Refreshed(h) \in Requests
    BY <1>1, <2>2, Moved DEF Refreshed, Stages
  <2>4. req' = [req EXCEPT ![h] = Refreshed(h)]
    BY <1>3 DEF Refreshed
  <2> QED BY <1>1, <1>3, <2>3, <2>4, UpdateBecomes
<1> QED BY <1>2, <1>3 DEF Refresh

LEMMA UpdateConflictsBecomes ==
  ASSUME TypeOK, NEW h \in Handlers, UpdateConflicts(h)
  PROVE  \/ Becomes(h, None)
         \/ req[h].op.kind = "rollback" /\ Becomes(h, Retried(h)) /\ Retried(h) \in Requests
<1>1. req[h] \in Requests /\ req[h] # None /\ req[h].tries + 1 \in Nat
  BY DEF UpdateConflicts, At, TypeOK, Requests
<1>2. CASE Answer(h)
  BY <1>2, AnswerBecomes
<1>3. CASE req[h].op.kind = "rollback" /\ req' = [req EXCEPT ![h].tries = @ + 1]
  <2>1. Retried(h) \in Requests
    BY <1>1 DEF Retried, Requests
  <2>2. req' = [req EXCEPT ![h] = Retried(h)]
    BY <1>3 DEF Retried
  <2> QED BY <1>1, <1>3, <2>1, <2>2, UpdateBecomes
<1> QED BY <1>2, <1>3 DEF UpdateConflicts

LEMMA SaveBackupBecomes ==
  ASSUME TypeOK, NEW h \in Handlers, SaveBackup(h)
  PROVE  \/ Becomes(h, None)
         \/ req[h].op.kind # "save"
            /\ \E m \in BOOLEAN : Becomes(h, AfterSave(h, m)) /\ AfterSave(h, m) \in Requests
<1>1. req[h] # None /\ \E m \in BOOLEAN : AfterBackup(h, m)
  BY DEF SaveBackup, At
<1> QED BY <1>1, AfterBackupBecomes

-----------------------------------------------------------------------------
(* The inductive invariant.  A version is given to one content and never   *)
(* again: a document that bears the object's version was made from the     *)
(* content the object has.                                                 *)

Current(d) == obj # None /\ d.rv = obj.rv

StageOK(r) ==
    /\ r.stage = "rs"      => r.op.kind = "rollback"
    /\ r.stage = "row"     => r.op.kind = "recover"
    /\ r.stage = "refresh" => r.op.kind \in {"yaml", "recover"} /\ YamlRefreshes
    /\ r.stage = "update"  => r.op.kind \in {"edit", "rollback", "yaml", "recover"}

EditOK(r) ==
    /\ r.intent = r.op.fields \cap Fields
    /\ r.stage = "update" =>
         /\ r.body.rv # None
         /\ Current(r.body) => r.body.spec = With(obj.spec, r.op.fields, r.val)

RollbackOK(r) ==
    /\ r.intent = TemplateFields
    /\ r.stage = "rs" =>
         /\ r.body.rv # None
         /\ Current(r.body) => r.body.uid = obj.uid /\ r.body.spec = obj.spec
    /\ r.stage = "update" =>
         /\ r.body.rv # None
         /\ Current(r.body) => /\ r.body.uid = obj.uid
                               /\ \E t \in templates : r.body.spec = WithTemplate(obj.spec, t)

YamlOK(r) ==
    /\ r.body # None
    /\ \/ r.intent = Fields /\ r.body.spec = [f \in Fields |-> r.val]
       \/ \E f \in Fields :
            /\ r.intent = {f}
            /\ ~YamlRefreshes =>
                 /\ r.body.rv # None
                 /\ Current(r.body) => r.body.spec = With(obj.spec, {f}, r.val)

RecoverOK(r) ==
    /\ r.intent = Fields
    /\ (~YamlRefreshes /\ r.stage = "update") =>
         /\ r.body.rv # None
         /\ Current(r.body) => r.body.spec = Stored(obj.spec)

RequestOK(r) ==
    /\ r.op \in Operations
    /\ StageOK(r)
    /\ r.body # None /\ r.body.rv # None => r.body.rv < next
    /\ r.tries > 0 => /\ r.op.kind = "rollback" /\ r.stage = "update"
                      /\ obj # None => r.body.rv # obj.rv
    /\ r.op.kind = "edit"     => EditOK(r)
    /\ r.op.kind = "rollback" => RollbackOK(r)
    /\ r.op.kind = "yaml"     => YamlOK(r)
    /\ r.op.kind = "recover"  => RecoverOK(r)

HandlerOK(h) == req[h] # None => RequestOK(req[h])

RowOK(b) == b.rv < next /\ (Current(b) => b.spec = Stored(obj.spec))

ObjectOK == obj # None => obj.rv < next
RowsOK   == \A b \in backups \ {None} : RowOK(b)

IInv == /\ TypeOK
        /\ ObjectOK
        /\ RowsOK
        /\ \A h \in Handlers : HandlerOK(h)

\* What any step does to the object: nothing, or it has a version that no
\* document bears yet, or it is gone.
Advance ==
    /\ next \in Nat /\ next' \in Nat /\ next <= next'
    /\ \/ obj' = obj /\ templates \subseteq templates'
       \/ obj' = None
       \/ obj' # None /\ obj'.rv = next

LEMMA CurrentBefore ==
  ASSUME Advance, NEW d, d.rv \in Nat \cup {None}, d.rv # None => d.rv < next, Current(d)'
  PROVE  obj' = obj /\ Current(d) /\ templates \subseteq templates'
<1>1. obj' # None /\ d.rv = obj'.rv
  BY DEF Current
<1>2. ~(obj' # None /\ obj'.rv = next)
  BY <1>1, WorkloadEditsAssumption DEF Advance
<1> QED BY <1>1, <1>2 DEF Advance, Current

LEMMA Undisturbed ==
  ASSUME Advance, NEW r \in Requests, RequestOK(r),
         r.stage \in {"rs", "refresh", "update"} => r.body # None
  PROVE  RequestOK(r)'
<1>1. r.body # None => r.body.rv \in Nat \cup {None}
  BY DEF Requests, Documents
<1>2. r.body # None /\ Current(r.body)' =>
         obj' = obj /\ Current(r.body) /\ templates \subseteq templates'
  BY <1>1, CurrentBefore DEF RequestOK
<1>3. r.body # None /\ r.body.rv # None => r.body.rv < next'
  BY <1>1 DEF RequestOK, Advance
<1>4. StageOK(r)'
  BY DEF RequestOK, StageOK
<1>5. r.tries > 0 /\ obj' # None => r.body.rv # obj'.rv
  BY <1>2 DEF RequestOK, Current
<1>6. r.op.kind = "edit" => EditOK(r)'
  BY <1>2 DEF RequestOK, EditOK
<1>7. r.op.kind = "rollback" => RollbackOK(r)'
  BY <1>2 DEF RequestOK, RollbackOK
<1>8. r.op.kind = "yaml" => YamlOK(r)'
  BY <1>2 DEF RequestOK, YamlOK
<1>9. r.op.kind = "recover" => RecoverOK(r)'
  BY <1>2 DEF RequestOK, RecoverOK
<1> QED BY <1>3, <1>4, <1>5, <1>6, <1>7, <1>8, <1>9 DEF RequestOK

\* The mark of an overtaken backup is no part of RequestOK.
LEMMA MarkKeepsOK ==
  ASSUME NEW r \in Requests, NEW q, Marked(q, r), RequestOK(r)
  PROVE  RequestOK(q)
<1>1. /\ q.stage = r.stage /\ q.op = r.op /\ q.val = r.val /\ q.body = r.body
      /\ q.tries = r.tries /\ q.intent = r.intent
  BY DEF Marked, Requests
<1> QED BY <1>1 DEF RequestOK, StageOK, EditOK, RollbackOK, YamlOK, RecoverOK

\* A step that leaves h with a good request, or with none, keeps all good.
LEMMA BecomesOK ==
  ASSUME TypeOK, \A g \in Handlers : HandlerOK(g), Advance,
         NEW h \in Handlers, NEW q, Becomes(h, q), q # None => RequestOK(q)'
  PROVE  \A g \in Handlers : HandlerOK(g)'
<1> SUFFICES ASSUME NEW g \in Handlers, req'[g] # None PROVE RequestOK(req[g])'
  BY DEF HandlerOK
<1> USE DEF RequestOK, StageOK, EditOK, RollbackOK, YamlOK, RecoverOK, Current
<1>1. CASE g = h
  BY <1>1 DEF Becomes
<1>2. CASE g # h
  <2> DEFINE r == req[g]
  <2>1. req'[g] = r \/ Marked(req'[g], r)
    BY <1>2 DEF Becomes, Bystanders
  <2>2. r # None
    BY <2>1 DEF Marked
  <2>3. r \in Requests /\ RequestOK(r) /\ (r.stage \in {"rs", "refresh", "update"} => r.body # None)
    BY <2>2 DEF TypeOK, HandlerOK, At
  <2>4. PICK p \in Requests : p = r
    BY <2>3
  <2>5. RequestOK(p)'
    <3>1. RequestOK(p)
      BY <2>3, <2>4
    <3>2. p.stage \in {"rs", "refresh", "update"} => p.body # None
      BY <2>3, <2>4
    <3> HIDE DEF RequestOK
    <3> QED BY <3>1, <3>2, Undisturbed
  <2>6. CASE req'[g] = p
    BY <2>5, <2>6
  <2>7. CASE Marked(req'[g], p)
    <3>1. /\ req'[g].stage = p.stage /\ req'[g].op = p.op /\ req'[g].val = p.val
          /\ req'[g].body = p.body /\ req'[g].tries = p.tries /\ req'[g].intent = p.intent
      BY <2>7 DEF Marked, Requests
    <3> QED BY <2>5, <3>1
  <2> QED BY <2>1, <2>4, <2>6, <2>7
<1> QED BY <1>1, <1>2

-----------------------------------------------------------------------------
\* What the object and its version go through in a step.
LEMMA WriteAdvances ==
  ASSUME TypeOK, ObjectOK, NEW h \in Handlers, NEW s \in Specs, obj # None, Write(h, s),
         UNCHANGED templates
  PROVE  Advance /\ ObjectOK' /\ obj' \in Objects /\ next' \in Nat
<1>1. obj \in Objects /\ next \in Nat
  BY DEF TypeOK
<1>2. CASE s = obj.spec
  BY <1>1, <1>2 DEF Write, Advance, ObjectOK
<1>3. CASE s # obj.spec
  <2>1. obj' = [obj EXCEPT !.rv = next, !.spec = s] /\ next' = next + 1
    BY <1>3 DEF Write
  <2>2. obj' \in Objects /\ obj'.rv = next
    BY <2>1, <1>1 DEF Objects
  <2>3. next' \in Nat /\ next <= next' /\ next < next'
    BY <2>1, <1>1
  <2>4. obj' # None
    BY <2>2, WorkloadEditsAssumption
  <2> QED BY <2>2, <2>3, <2>4, <1>1 DEF Advance, ObjectOK
<1> QED BY <1>2, <1>3

LEMMA Idle ==
  ASSUME TypeOK, ObjectOK, UNCHANGED <<obj, next, templates>>
  PROVE  Advance /\ ObjectOK' /\ obj' \in Objects \cup {None} /\ next' \in Nat
  BY DEF Advance, ObjectOK, TypeOK

Moves(h) ==
    /\ Advance /\ ObjectOK'
    /\ obj' \in Objects \cup {None} /\ next' \in Nat
    /\ templates' \in SUBSET [TemplateFields -> Vals \cup {Garbled}]
    /\ served' = served

LEMMA StepMoves ==
  ASSUME TypeOK, ObjectOK, NEW h \in Handlers, Step(h)
  PROVE  Moves(h)
<1> USE WorkloadEditsAssumption
<1>1. CASE SaveBackup(h) \/ Get(h) \/ GetReplicaSet(h) \/ GetRow(h) \/ Refresh(h)
           \/ UpdateConflicts(h) \/ UpdateFails(h)
  <2>1. UNCHANGED <<obj, next, templates, served>>
    BY <1>1 DEF SaveBackup, Get, GetReplicaSet, GetRow, Refresh, UpdateConflicts, UpdateFails
  <2> QED BY <2>1, Idle DEF Moves, TypeOK
<1>2. CASE UpdateLands(h)
  <2>1. req[h] \in Requests /\ req[h].body \in Documents /\ obj # None
    BY <1>2 DEF UpdateLands, At, Accepts, TypeOK, Requests
  <2>2. req[h].body.spec \in Specs
    BY <2>1 DEF Documents
  <2>3. Advance /\ ObjectOK' /\ obj' \in Objects /\ next' \in Nat
    BY <1>2, <2>1, <2>2, WriteAdvances DEF UpdateLands
  <2> QED BY <1>2, <2>3 DEF Moves, UpdateLands, TypeOK
<1>3. CASE Patch(h)
  <2>1. CASE obj # None /\ Write(h, With(obj.spec, req[h].op.fields, req[h].val))
    <3>1. req[h] \in Requests /\ req[h].val \in Vals /\ obj.spec \in Specs
      BY <1>3, <2>1 DEF Patch, At, TypeOK, Requests, Objects
    <3>2. With(obj.spec, req[h].op.fields, req[h].val) \in Specs
      BY <3>1, SpecsClosed
    <3>3. Advance /\ ObjectOK' /\ obj' \in Objects /\ next' \in Nat
      BY <1>3, <2>1, <3>2, WriteAdvances DEF Patch
    <3> QED BY <1>3, <3>3 DEF Moves, Patch, TypeOK
  <2>2. CASE UNCHANGED <<obj, next>>
    BY <1>3, <2>2, Idle DEF Patch, Moves, TypeOK
  <2> QED BY <1>3, <2>1, <2>2 DEF Patch
<1>4. CASE Delete(h)
  <2>1. CASE obj' = None /\ templates' = {}
    BY <1>4, <2>1 DEF Delete, Moves, Advance, ObjectOK, TypeOK
  <2>2. CASE UNCHANGED <<obj, templates>>
    BY <1>4, <2>2, Idle DEF Delete, Moves, TypeOK
  <2> QED BY <1>4, <2>1, <2>2 DEF Delete
<1>5. CASE CreateNew(h)
  <2>1. CASE UNCHANGED <<obj, next, templates>>
    BY <1>5, <2>1, Idle DEF CreateNew, Moves, TypeOK
  <2>2. CASE /\ obj' = [uid |-> next, rv |-> next, spec |-> [f \in Fields |-> req[h].val]]
             /\ next' = next + 1
             /\ templates' = {TemplateOf(obj'.spec)}
    <3>1. req[h] \in Requests /\ req[h].val \in Vals /\ next \in Nat
      BY <1>5 DEF CreateNew, At, TypeOK, Requests
    <3>2. [f \in Fields |-> req[h].val] \in Specs
      BY <3>1, SpecsClosed
    <3>3. obj' \in Objects /\ obj'.rv = next /\ obj'.spec \in Specs
      BY <2>2, <3>1, <3>2 DEF Objects
    <3>4. TemplateOf(obj'.spec) \in [TemplateFields -> Vals \cup {Garbled}]
      BY <3>3, SpecsClosed
    <3>5. next' \in Nat /\ next <= next' /\ next < next'
      BY <2>2, <3>1
    <3>6. obj' # None
      BY <3>3
    <3> QED BY <1>5, <2>2, <3>1, <3>3, <3>4, <3>5, <3>6 DEF CreateNew, Moves, Advance, ObjectOK
  <2> QED BY <1>5, <2>1, <2>2 DEF CreateNew
<1> QED BY <1>1, <1>2, <1>3, <1>4, <1>5 DEF Step

LEMMA RowsLater ==
  ASSUME TypeOK, RowsOK, Advance, NEW b \in backups \ {None}
  PROVE  RowOK(b)'
<1>1. b \in Objects /\ b.rv \in Nat /\ RowOK(b)
  BY DEF TypeOK, Objects, RowsOK
<1>2. b.rv < next'
  BY <1>1 DEF RowOK, Advance
<1>3. Current(b)' => obj' = obj /\ Current(b)
  BY <1>1, CurrentBefore DEF RowOK
<1> QED BY <1>1, <1>2, <1>3 DEF RowOK

LEMMA StepRows ==
  ASSUME TypeOK, ObjectOK, RowsOK, NEW h \in Handlers, Step(h)
  PROVE  backups' \in SUBSET (Objects \cup {None}) /\ RowsOK'
<1>1. Advance
  BY StepMoves DEF Moves
<1>2. CASE SaveBackup(h)
  <2>1. CASE obj # None /\ backups' = backups \cup {[obj EXCEPT !.spec = Stored(@)]}
    <3> DEFINE row == [obj EXCEPT !.spec = Stored(@)]
    <3>1. obj \in Objects /\ obj.spec \in Specs /\ obj.rv < next
      BY <2>1 DEF TypeOK, Objects, ObjectOK
    <3>2. Stored(obj.spec) \in Specs
      BY <3>1, SpecsClosed
    <3>3. row \in Objects /\ row.rv = obj.rv /\ row.spec = Stored(obj.spec)
      BY <3>1, <3>2 DEF Objects
    <3>4. obj' = obj /\ next' = next
      BY <1>2 DEF SaveBackup
    <3>5. PICK p \in Objects : p = row
      BY <3>3
    <3>6. p.rv = obj.rv /\ p.spec = Stored(obj.spec)
      BY <3>3, <3>5
    <3> HIDE DEF row
    <3>7. RowOK(p)'
      BY <3>1, <3>4, <3>6 DEF RowOK
    <3>8. backups' = backups \cup {p}
      BY <2>1, <3>5 DEF row
    <3>9. RowsOK'
      BY <3>7, <3>8, <1>1, RowsLater DEF RowsOK
    <3> QED BY <3>8, <3>9 DEF TypeOK
  <2>2. CASE backups' = backups \cup {None}
    BY <2>2, <1>1, RowsLater DEF RowsOK, TypeOK
  <2>3. CASE backups' = backups
    BY <2>3, <1>1, RowsLater DEF RowsOK, TypeOK
  <2> QED BY <1>2, <2>1, <2>2, <2>3 DEF SaveBackup
<1>3. CASE ~SaveBackup(h)
  <2>1. backups' = backups
    BY <1>3 DEF Step, Get, GetReplicaSet, GetRow, Refresh, UpdateLands, UpdateConflicts,
                UpdateFails, Patch, Delete, CreateNew
  <2> QED BY <2>1, <1>1, RowsLater DEF RowsOK, TypeOK
<1> QED BY <1>2, <1>3

-----------------------------------------------------------------------------
(* What each handler goes on with is as good as what it had.               *)

\* Where a request stands when it has just backed up.
LEMMA SavedOK ==
  ASSUME IInv, NEW h \in Handlers, SaveBackup(h)
  PROVE  \/ Becomes(h, None)
         \/ \E q \in Requests : /\ Becomes(h, q) /\ RequestOK(q)'
                                /\ q.stage \in {"rs", "refresh", "update"} => q.body # None
<1>1. SUFFICES ASSUME req[h].op.kind # "save",
                      NEW m \in BOOLEAN, Becomes(h, AfterSave(h, m)), AfterSave(h, m) \in Requests
               PROVE  \E q \in Requests :
                         /\ Becomes(h, q) /\ RequestOK(q)'
                         /\ q.stage \in {"rs", "refresh", "update"} => q.body # None
  BY SaveBackupBecomes DEF IInv
<1>2. /\ req[h] # None /\ req[h] \in Requests /\ req[h].stage = "backup" /\ RequestOK(req[h])
      /\ UNCHANGED <<obj, next, templates>>
  BY DEF SaveBackup, At, IInv, TypeOK, HandlerOK
<1>3. PICK q \in Requests : q = AfterSave(h, m)
  BY <1>1
<1>4. /\ q.stage = FirstCall(req[h].op) /\ q.op = req[h].op /\ q.val = req[h].val
      /\ q.body = req[h].body /\ q.tries = req[h].tries /\ q.intent = req[h].intent
  BY <1>2, <1>3 DEF AfterSave, Requests
<1>5. req[h].op \in AllOperations /\ req[h].op.kind \in Kinds
  BY <1>2, OperationKinds DEF Requests
<1>6. /\ q.op.kind \in {"edit", "rollback"} => q.stage = "get"
      /\ q.op.kind = "yaml" => q.stage = IF YamlRefreshes THEN "refresh" ELSE "update"
      /\ q.op.kind = "recover" => q.stage = "row"
      /\ q.op.kind \in {"restart", "create", "del"} => q.stage \in {"patch", "create", "delete"}
  BY <1>4, <1>5 DEF FirstCall
<1>7. ~(q.tries > 0)
  BY <1>2, <1>4 DEF RequestOK
<1>8. StageOK(q)
  BY <1>1, <1>4, <1>5, <1>6 DEF StageOK, Kinds
<1>9. q.op.kind = "yaml" => q.body # None
  BY <1>2, <1>4 DEF RequestOK, YamlOK
<1>10. q.stage \in {"rs", "refresh", "update"} => q.body # None
  BY <1>1, <1>4, <1>5, <1>6, <1>9 DEF Kinds
<1>11. RequestOK(q)
  BY <1>2, <1>4, <1>6, <1>7, <1>8 DEF RequestOK, EditOK, RollbackOK, YamlOK, RecoverOK
<1>12. Advance
  BY <1>2, Idle DEF IInv
<1>13. RequestOK(q)'
  BY <1>10, <1>11, <1>12, Undisturbed
<1> QED BY <1>1, <1>3, <1>10, <1>13

LEMMA GotOK ==
  ASSUME IInv, NEW h \in Handlers, Get(h)
  PROVE  \/ Becomes(h, None)
         \/ \E q \in Requests : /\ Becomes(h, q) /\ RequestOK(q)'
                                /\ q.stage \in {"rs", "refresh", "update"} => q.body # None
<1> DEFINE Goal == \E q \in Requests : /\ Becomes(h, q) /\ RequestOK(q)'
                                       /\ q.stage \in {"rs", "refresh", "update"} => q.body # None
<1>1. /\ req[h] # None /\ req[h] \in Requests /\ req[h].stage = "get" /\ RequestOK(req[h])
      /\ UNCHANGED <<obj, next, templates>>
  BY DEF Get, At, IInv, TypeOK, HandlerOK
<1>2. ~(req[h].tries > 0) /\ req[h].op \in Operations
  BY <1>1 DEF RequestOK
<1>3. ASSUME obj # None, req[h].op.kind = "edit", Becomes(h, GetEdit(h)), GetEdit(h) \in Requests
      PROVE  Goal
  <2>1. PICK q \in Requests : q = GetEdit(h)
    BY <1>3
  <2>2. obj \in Objects /\ obj.rv < next /\ obj.rv \in Nat
    BY <1>3 DEF IInv, TypeOK, ObjectOK, Objects
  <2>3. /\ q.stage = "update" /\ q.op = req[h].op /\ q.val = req[h].val
        /\ q.tries = req[h].tries /\ q.intent = req[h].intent
        /\ q.body = [obj EXCEPT !.spec = With(@, req[h].op.fields, req[h].val)]
    BY <1>1, <2>1 DEF GetEdit, Requests
  <2>4. q.body.rv = obj.rv /\ q.body.spec = With(obj.spec, q.op.fields, q.val)
    BY <2>2, <2>3 DEF Objects
  <2>5. q.body.rv \in Nat /\ q.body.rv # None /\ q.body.rv < next
    BY <2>2, <2>4, WorkloadEditsAssumption
  <2>6. q.body # None
    <3>1. obj.spec \in Specs /\ req[h].val \in Vals
      BY <1>1, <2>2 DEF Objects, Requests
    <3>2. With(obj.spec, req[h].op.fields, req[h].val) \in Specs
      BY <3>1, SpecsClosed
    <3>3. q.body \in Objects
      BY <2>2, <2>3, <3>2 DEF Objects
    <3> QED BY <3>3, WorkloadEditsAssumption
  <2>7. RequestOK(q)'
    BY <1>1, <1>2, <1>3, <2>3, <2>4, <2>5 DEF RequestOK, StageOK, EditOK
  <2> QED BY <1>3, <2>1, <2>6, <2>7
<1>4. ASSUME obj # None, req[h].op.kind = "rollback", Becomes(h, GetRollback(h)),
             GetRollback(h) \in Requests
      PROVE  Goal
  <2>1. PICK q \in Requests : q = GetRollback(h)
    BY <1>4
  <2>2. obj \in Objects /\ obj.rv < next /\ obj.rv \in Nat
    BY <1>4 DEF IInv, TypeOK, ObjectOK, Objects
  <2>3. /\ q.stage = "rs" /\ q.op = req[h].op /\ q.val = req[h].val
        /\ q.tries = req[h].tries /\ q.intent = req[h].intent /\ q.body = obj
    BY <1>1, <2>1 DEF GetRollback, Requests
  <2>4. obj.rv # None
    BY <2>2, WorkloadEditsAssumption
  <2>5. RequestOK(q)'
    BY <1>1, <1>2, <1>4, <2>2, <2>3, <2>4 DEF RequestOK, StageOK, RollbackOK
  <2> QED BY <1>4, <2>1, <2>3, <2>5
<1> QED BY <1>3, <1>4, GetBecomes DEF IInv

LEMMA ChosenOK ==
  ASSUME IInv, NEW h \in Handlers, GetReplicaSet(h)
  PROVE  \/ Becomes(h, None)
         \/ \E q \in Requests : /\ Becomes(h, q) /\ RequestOK(q)'
                                /\ q.stage \in {"rs", "refresh", "update"} => q.body # None
<1>1. SUFFICES ASSUME NEW t \in templates, Becomes(h, Chosen(h, t)), Chosen(h, t) \in Requests
               PROVE  \E q \in Requests :
                         /\ Becomes(h, q) /\ RequestOK(q)'
                         /\ q.stage \in {"rs", "refresh", "update"} => q.body # None
  BY GetReplicaSetBecomes DEF IInv
<1>2. /\ req[h] # None /\ req[h] \in Requests /\ req[h].stage = "rs" /\ RequestOK(req[h])
      /\ UNCHANGED <<obj, next, templates>>
      /\ req[h].body # None
  BY DEF GetReplicaSet, At, IInv, TypeOK, HandlerOK
<1>3. /\ req[h].op.kind = "rollback" /\ ~(req[h].tries > 0) /\ req[h].op \in Operations
      /\ RollbackOK(req[h]) /\ req[h].body \in Documents
  BY <1>2 DEF RequestOK, StageOK, Requests
<1>4. PICK q \in Requests : q = Chosen(h, t)
  BY <1>1
<1>5. /\ q.stage = "update" /\ q.op = req[h].op /\ q.tries = req[h].tries
      /\ q.intent = req[h].intent
      /\ q.body = [req[h].body EXCEPT !.spec = WithTemplate(req[h].body.spec, t)]
  BY <1>2, <1>4 DEF Chosen, Requests
<1>6. /\ q.body.rv = req[h].body.rv /\ q.body.uid = req[h].body.uid
      /\ q.body.spec = WithTemplate(req[h].body.spec, t)
  BY <1>3, <1>5 DEF Documents
<1>7. q.body # None
  <2>1. t \in [TemplateFields -> Vals \cup {Garbled}] /\ req[h].body.spec \in Specs
    BY <1>3 DEF IInv, TypeOK, Documents
  <2>2. WithTemplate(req[h].body.spec, t) \in Specs
    BY <2>1, SpecsClosed
  <2>3. q.body \in Documents
    BY <1>3, <1>5, <2>2 DEF Documents
  <2> QED BY <2>3, WorkloadEditsAssumption
<1>8. q.body.rv # None /\ q.body.rv < next
  BY <1>2, <1>3, <1>6 DEF RequestOK, RollbackOK
<1>9. Current(q.body) => /\ q.body.uid = obj.uid
                         /\ q.body.spec = WithTemplate(obj.spec, t)
  BY <1>2, <1>3, <1>6 DEF RollbackOK, Current
<1>10. RollbackOK(q)'
  BY <1>2, <1>3, <1>5, <1>8, <1>9 DEF RollbackOK, Current
<1>11. RequestOK(q)'
  BY <1>2, <1>3, <1>5, <1>8, <1>10 DEF RequestOK, StageOK
<1> QED BY <1>1, <1>4, <1>7, <1>11

LEMMA RestoredOK ==
  ASSUME IInv, NEW h \in Handlers, GetRow(h)
  PROVE  \/ Becomes(h, None)
         \/ \E q \in Requests : /\ Becomes(h, q) /\ RequestOK(q)'
                                /\ q.stage \in {"rs", "refresh", "update"} => q.body # None
<1>1. SUFFICES ASSUME NEW b \in backups \ {None}, Becomes(h, Restored(h, b)),
                      Restored(h, b) \in Requests
               PROVE  \E q \in Requests :
                         /\ Becomes(h, q) /\ RequestOK(q)'
                         /\ q.stage \in {"rs", "refresh", "update"} => q.body # None
  BY GetRowBecomes DEF IInv
<1>2. /\ req[h] # None /\ req[h] \in Requests /\ req[h].stage = "row" /\ RequestOK(req[h])
      /\ UNCHANGED <<obj, next, templates>>
  BY DEF GetRow, At, IInv, TypeOK, HandlerOK
<1>3. /\ req[h].op.kind = "recover" /\ ~(req[h].tries > 0) /\ req[h].op \in Operations
      /\ RecoverOK(req[h])
  BY <1>2 DEF RequestOK, StageOK
<1>4. /\ b.rv \in Nat /\ b.rv < next /\ b.rv # None
      /\ Current(b) => b.spec = Stored(obj.spec)
  BY WorkloadEditsAssumption DEF IInv, RowsOK, RowOK, TypeOK, Objects
<1>5. PICK q \in Requests : q = Restored(h, b)
  BY <1>1
<1>6. /\ q.stage = (IF YamlRefreshes THEN "refresh" ELSE "update") /\ q.op = req[h].op
      /\ q.tries = req[h].tries /\ q.intent = req[h].intent /\ q.body = b
  BY <1>2, <1>5 DEF Restored, Requests
<1>7. RecoverOK(q)'
  BY <1>2, <1>3, <1>4, <1>6 DEF RecoverOK, Current
<1>8. RequestOK(q)'
  BY <1>2, <1>3, <1>4, <1>6, <1>7 DEF RequestOK, StageOK
<1> QED BY <1>1, <1>5, <1>6, <1>8

LEMMA RefreshedOK ==
  ASSUME IInv, NEW h \in Handlers, Refresh(h)
  PROVE  \/ Becomes(h, None)
         \/ \E q \in Requests : /\ Becomes(h, q) /\ RequestOK(q)'
                                /\ q.stage \in {"rs", "refresh", "update"} => q.body # None
<1>1. SUFFICES ASSUME obj # None, Becomes(h, Refreshed(h)), Refreshed(h) \in Requests
               PROVE  \E q \in Requests :
                         /\ Becomes(h, q) /\ RequestOK(q)'
                         /\ q.stage \in {"rs", "refresh", "update"} => q.body # None
  BY RefreshBecomes DEF IInv
<1>2. /\ req[h] # None /\ req[h] \in Requests /\ req[h].stage = "refresh" /\ RequestOK(req[h])
      /\ UNCHANGED <<obj, next, templates>>
      /\ req[h].body # None
  BY DEF Refresh, At, IInv, TypeOK, HandlerOK
<1>3. /\ req[h].op.kind \in {"yaml", "recover"} /\ YamlRefreshes
      /\ ~(req[h].tries > 0) /\ req[h].op \in Operations /\ req[h].body \in Documents
  BY <1>2 DEF RequestOK, StageOK, Requests
<1>4. obj.rv \in Nat /\ obj.rv < next
  BY <1>1 DEF IInv, ObjectOK, TypeOK, Objects
<1>5. PICK q \in Requests : q = Refreshed(h)
  BY <1>1
<1>6. /\ q.stage = "update" /\ q.op = req[h].op /\ q.val = req[h].val
      /\ q.tries = req[h].tries /\ q.intent = req[h].intent
      /\ q.body = [req[h].body EXCEPT !.rv = obj.rv]
  BY <1>2, <1>5 DEF Refreshed, Requests
<1>7. q.body.rv = obj.rv /\ q.body.spec = req[h].body.spec
  BY <1>3, <1>6 DEF Documents
<1>8. q.body # None
  <2>1. q.body \in Documents
    BY <1>3, <1>4, <1>6 DEF Documents
  <2> QED BY <2>1, WorkloadEditsAssumption
<1>9. /\ q.op.kind = "yaml"    => YamlOK(q)'
      /\ q.op.kind = "recover" => RecoverOK(q)'
  BY <1>2, <1>3, <1>6, <1>7, <1>8 DEF RequestOK, YamlOK, RecoverOK
<1>10. RequestOK(q)'
  BY <1>2, <1>3, <1>4, <1>6, <1>7, <1>9 DEF RequestOK, StageOK
<1> QED BY <1>1, <1>5, <1>8, <1>10

LEMMA RetriedOK ==
  ASSUME IInv, NEW h \in Handlers, UpdateConflicts(h)
  PROVE  \/ Becomes(h, None)
         \/ \E q \in Requests : /\ Becomes(h, q) /\ RequestOK(q)'
                                /\ q.stage \in {"rs", "refresh", "update"} => q.body # None
<1>1. SUFFICES ASSUME req[h].op.kind = "rollback", Becomes(h, Retried(h)), Retried(h) \in Requests
               PROVE  \E q \in Requests :
                         /\ Becomes(h, q) /\ RequestOK(q)'
                         /\ q.stage \in {"rs", "refresh", "update"} => q.body # None
  BY UpdateConflictsBecomes DEF IInv
<1>2. /\ req[h] # None /\ req[h] \in Requests /\ req[h].stage = "update" /\ RequestOK(req[h])
      /\ UNCHANGED <<obj, next, templates>>
      /\ req[h].body # None /\ ~Accepts(req[h].body) /\ obj # None
  BY DEF UpdateConflicts, At, IInv, TypeOK, HandlerOK
<1>3. PICK q \in Requests : q = Retried(h)
  BY <1>1
<1>4. /\ q.stage = "update" /\ q.op = req[h].op /\ q.val = req[h].val
      /\ q.body = req[h].body /\ q.intent = req[h].intent
  BY <1>2, <1>3 DEF Retried, Requests
<1>5. RollbackOK(req[h])
  BY <1>1, <1>2 DEF RequestOK
<1>6. req[h].body.rv # obj.rv
  BY <1>2, <1>5 DEF RollbackOK, Current, Accepts
<1>7. RollbackOK(q)'
  BY <1>2, <1>4, <1>5 DEF RollbackOK, Current
<1>8. RequestOK(q)'
  BY <1>1, <1>2, <1>4, <1>6, <1>7 DEF RequestOK, StageOK
<1> QED BY <1>1, <1>2, <1>3, <1>4, <1>8

LEMMA StepKeeps ==
  ASSUME IInv, NEW h \in Handlers, Step(h)
  PROVE  IInv'
<1>1. TypeOK /\ ObjectOK /\ RowsOK /\ \A g \in Handlers : HandlerOK(g)
  BY DEF IInv
<1>2. Moves(h) /\ Advance
  BY <1>1, StepMoves DEF Moves
<1>3. backups' \in SUBSET (Objects \cup {None}) /\ RowsOK'
  BY <1>1, StepRows
<1>4. \/ Becomes(h, None)
      \/ \E q \in Requests : /\ Becomes(h, q) /\ RequestOK(q)'
                             /\ q.stage \in {"rs", "refresh", "update"} => q.body # None
  <2>1. CASE SaveBackup(h)
    BY <2>1, SavedOK
  <2>2. CASE Get(h)
    BY <2>2, GotOK
  <2>3. CASE GetReplicaSet(h)
    BY <2>3, ChosenOK
  <2>4. CASE GetRow(h)
    BY <2>4, RestoredOK
  <2>5. CASE Refresh(h)
    BY <2>5, RefreshedOK
  <2>6. CASE UpdateConflicts(h)
    BY <2>6, RetriedOK
  <2>7. CASE UpdateLands(h)
    BY <2>7, <1>1, WriteBecomes DEF UpdateLands
  <2>8. CASE UpdateFails(h)
    BY <2>8, <1>1, AnswerBecomes DEF UpdateFails
  <2>9. CASE Patch(h)
    BY <2>9, <1>1, WriteBecomes, AnswerBecomes DEF Patch
  <2>10. CASE Delete(h)
    BY <2>10, <1>1, OvertakeBecomes, AnswerBecomes DEF Delete
  <2>11. CASE CreateNew(h)
    BY <2>11, <1>1, AnswerBecomes DEF CreateNew
  <2> QED BY <2>1, <2>2, <2>3, <2>4, <2>5, <2>6, <2>7, <2>8, <2>9, <2>10, <2>11 DEF Step
<1>5. \/ Becomes(h, None)
      \/ \E q \in Requests : /\ Becomes(h, q) /\ RequestOK(q)' /\ q # None
                             /\ q.stage \in {"rs", "refresh", "update"} => q.body # None
  BY <1>4, WorkloadEditsAssumption
<1>6. \A g \in Handlers : HandlerOK(g)'
  BY <1>1, <1>2, <1>5, BecomesOK
<1>7. \A g \in Handlers : HasBody(g)'
  BY <1>1, <1>5, BecomesType
<1>8. req' \in [Handlers -> Requests \cup {None}]
  BY <1>5 DEF Becomes
<1>9. TypeOK'
  BY <1>1, <1>2, <1>3, <1>7, <1>8 DEF TypeOK, Moves, HasBody
<1> QED BY <1>2, <1>3, <1>6, <1>9 DEF IInv, Moves

-----------------------------------------------------------------------------
(* Requests that arrive, and the cluster's own writes.                     *)

NewRequest(o, v, doc, intent) ==
    [stage |-> First(o), op |-> o, val |-> v, body |-> doc, tries |-> 0,
     intent |-> intent, missed |-> FALSE]

LEMMA ReceiveKeeps ==
  ASSUME IInv, NEW h \in Handlers, NEW o \in AllOperations, NEW v \in Vals,
         NEW doc \in Documents \cup {None}, NEW intent \in SUBSET Fields,
         First(o) \in {"rs", "refresh", "update"} => doc # None,
         RequestOK(NewRequest(o, v, doc, intent)),
         Receive(h, o, v, doc, intent)
  PROVE  IInv'
<1>1. PICK q : q = NewRequest(o, v, doc, intent)
  OBVIOUS
<1>2. TypeOK'
  BY ReceiveType DEF IInv
<1>3. UNCHANGED <<obj, next, templates, backups>>
  BY DEF Receive
<1>4. Advance /\ ObjectOK'
  BY <1>3, Idle DEF IInv
<1>5. RowsOK'
  BY <1>3, <1>4, RowsLater DEF IInv, RowsOK
<1>6. q \in Requests
  BY <1>1, FirstCallStage DEF NewRequest, Requests
<1>7. Becomes(h, q)
  BY <1>1, <1>2, <1>6 DEF Receive, NewRequest, Becomes, Bystanders, TypeOK, IInv
<1>8. q.stage \in {"rs", "refresh", "update"} => q.body # None
  BY <1>1 DEF NewRequest
<1>9. RequestOK(q)
  BY <1>1
<1>10. RequestOK(q)'
  BY <1>4, <1>6, <1>8, <1>9, Undisturbed
<1>11. \A g \in Handlers : HandlerOK(g)'
  BY <1>4, <1>7, <1>10, BecomesOK DEF IInv
<1> QED BY <1>2, <1>4, <1>5, <1>11 DEF IInv

LEMMA BeginKeeps ==
  ASSUME IInv, NEW h \in Handlers, NEW o \in Operations, NEW v \in Vals, Begin(h, o, v)
  PROVE  IInv'
<1> DEFINE intent == IF o.kind = "recover" THEN Fields ELSE o.fields \cap Fields
           q == NewRequest(o, v, None, intent)
<1>1. o \in AllOperations /\ o.kind \in Kinds /\ o.kind # "yaml"
  BY OperationKinds, WorkloadEditsAssumption DEF Begin
<1>2. /\ o.kind = "rollback" => o = RollBack
      /\ o.kind = "save" => o = Backup
  BY <1>1, OperationKinds
<1>3. /\ First(o) \in {"backup", "get", "row", "patch", "create", "delete"}
      /\ First(o) = "row" => o.kind = "recover"
  BY <1>1, <1>2, SavesBackUp DEF First, FirstCall, Kinds
<1>4. intent \in SUBSET Fields
  OBVIOUS
<1>5. o.kind = "rollback" => intent = TemplateFields
  BY <1>2, SavesBackUp DEF TemplateFields
<1>6. /\ q.stage = First(o) /\ q.op = o /\ q.body = None /\ q.tries = 0 /\ q.intent = intent
  BY DEF NewRequest
<1>7. RequestOK(q)
  <2>1. /\ q.stage \notin {"rs", "refresh", "update"} /\ (q.stage = "row" => q.op.kind = "recover")
        /\ q.op.kind # "yaml" /\ q.op \in Operations /\ ~(q.tries > 0)
    BY <1>1, <1>3, <1>6
  <2>2. /\ q.op.kind = "edit" => q.intent = q.op.fields \cap Fields
        /\ q.op.kind = "rollback" => q.intent = TemplateFields
        /\ q.op.kind = "recover" => q.intent = Fields
    BY <1>5, <1>6
  <2> HIDE DEF q
  <2>3. StageOK(q)
    BY <2>1 DEF StageOK
  <2>4. /\ q.op.kind = "edit" => EditOK(q)
        /\ q.op.kind = "rollback" => RollbackOK(q)
        /\ q.op.kind = "recover" => RecoverOK(q)
    BY <2>1, <2>2 DEF EditOK, RollbackOK, RecoverOK
  <2> QED BY <1>6, <2>1, <2>3, <2>4 DEF RequestOK
<1>8. Receive(h, o, v, None, intent)
  BY DEF Begin
<1>9. ~(First(o) \in {"rs", "refresh", "update"})
  BY <1>3
<1> HIDE DEF intent
<1> QED BY <1>1, <1>4, <1>7, <1>8, <1>9, ReceiveKeeps

LEMMA YamlIsAnOperation == /\ ModifyByYaml \in AllOperations /\ ModifyByYaml.kind = "yaml"
                           /\ First(ModifyByYaml) = "backup"
  BY SavesBackUp DEF AllOperations, First, ModifyByYaml

LEMMA BeginYamlKeeps ==
  ASSUME IInv, NEW h \in Handlers, NEW f \in Fields, NEW v \in Vals, BeginYaml(h, f, v)
  PROVE  IInv'
<1> DEFINE doc == [obj EXCEPT !.spec = With(@, {f}, v)]
           q   == NewRequest(ModifyByYaml, v, doc, {f})
<1>1. obj # None /\ ModifyByYaml \in Operations /\ Receive(h, ModifyByYaml, v, doc, {f})
  BY DEF BeginYaml
<1>2. obj \in Objects /\ obj.spec \in Specs /\ obj.rv \in Nat /\ obj.rv < next
  BY <1>1 DEF IInv, TypeOK, ObjectOK, Objects
<1>3. With(obj.spec, {f}, v) \in Specs
  BY <1>2, SpecsClosed
<1>4. doc \in Objects /\ doc.rv = obj.rv /\ doc.spec = With(obj.spec, {f}, v)
  BY <1>2, <1>3 DEF Objects
<1>5. doc \in Documents /\ doc # None /\ doc.rv # None
  BY <1>2, <1>4, ObjectDocument, WorkloadEditsAssumption
<1> HIDE DEF doc
<1>6. /\ q.stage = "backup" /\ q.op = ModifyByYaml /\ q.val = v /\ q.body = doc
      /\ q.tries = 0 /\ q.intent = {f}
  BY YamlIsAnOperation DEF NewRequest
<1> HIDE DEF q
<1>y. YamlOK(q)
  BY <1>4, <1>5, <1>6 DEF YamlOK
<1>7. RequestOK(q)
  BY <1>1, <1>2, <1>4, <1>6, <1>y, YamlIsAnOperation DEF RequestOK, StageOK
<1>8. {f} \in SUBSET Fields
  OBVIOUS
<1>9. RequestOK(NewRequest(ModifyByYaml, v, doc, {f}))
  BY <1>7 DEF q
<1> QED BY <1>1, <1>5, <1>8, <1>9, YamlIsAnOperation, ReceiveKeeps

LEMMA BeginOwnYamlKeeps ==
  ASSUME IInv, NEW h \in Handlers, NEW v \in Vals, BeginOwnYaml(h, v)
  PROVE  IInv'
<1> DEFINE doc == [uid |-> None, rv |-> None, spec |-> [f \in Fields |-> v]]
           q   == NewRequest(ModifyByYaml, v, doc, Fields)
<1>1. ModifyByYaml \in Operations /\ Receive(h, ModifyByYaml, v, doc, Fields)
  BY DEF BeginOwnYaml
<1>2. doc \in Documents /\ doc.rv = None /\ doc.spec = [f \in Fields |-> v]
  BY SpecsClosed DEF Documents
<1>3. doc # None
  BY <1>2, WorkloadEditsAssumption
<1> HIDE DEF doc
<1>4. /\ q.stage = "backup" /\ q.op = ModifyByYaml /\ q.val = v /\ q.body = doc
      /\ q.tries = 0 /\ q.intent = Fields
  BY YamlIsAnOperation DEF NewRequest
<1>5. RequestOK(q)
  BY <1>1, <1>2, <1>3, <1>4, YamlIsAnOperation DEF RequestOK, StageOK, YamlOK
<1> HIDE DEF q
<1>6. RequestOK(NewRequest(ModifyByYaml, v, doc, Fields))
  BY <1>5 DEF q
<1> QED BY <1>1, <1>2, <1>3, <1>6, YamlIsAnOperation, ReceiveKeeps

LEMMA ReconcileKeeps ==
  ASSUME IInv, Reconcile
  PROVE  IInv'
<1>1. obj \in Objects /\ obj.spec \in Specs /\ next \in Nat
  BY DEF Reconcile, IInv, TypeOK, Objects
<1>2. obj' \in Objects /\ obj'.rv = next /\ obj'.spec = obj.spec
  BY <1>1 DEF Reconcile, Objects
<1>3. next' \in Nat /\ next < next' /\ next <= next'
  BY <1>1 DEF Reconcile
<1>4. obj' # None
  BY <1>2, WorkloadEditsAssumption
<1>5. Advance /\ ObjectOK'
  BY <1>1, <1>2, <1>3, <1>4 DEF Advance, ObjectOK
<1>6. TemplateOf(obj.spec) \in [TemplateFields -> Vals \cup {Garbled}]
  BY <1>1, SpecsClosed
<1>7. UNCHANGED <<backups, req, served>>
  BY DEF Reconcile
<1>8. TypeOK'
  BY <1>2, <1>3, <1>6, <1>7 DEF IInv, TypeOK, At, Reconcile
<1>9. RowsOK'
  BY <1>5, <1>7, RowsLater DEF IInv, RowsOK
<1>10. ASSUME NEW h \in Handlers PROVE HandlerOK(h)'
  <2> SUFFICES ASSUME req[h] # None PROVE RequestOK(req[h])'
    BY <1>7 DEF HandlerOK
  <2>1. PICK r \in Requests : r = req[h]
    BY DEF IInv, TypeOK
  <2>2. RequestOK(r) /\ (r.stage \in {"rs", "refresh", "update"} => r.body # None)
    BY <2>1 DEF IInv, TypeOK, HandlerOK, At
  <2>3. RequestOK(r)'
    BY <1>5, <2>2, Undisturbed
  <2> QED BY <1>7, <2>1, <2>3
          DEF RequestOK, StageOK, EditOK, RollbackOK, YamlOK, RecoverOK, Current
<1> QED BY <1>5, <1>8, <1>9, <1>10 DEF IInv

LEMMA InitIInv == Init => IInv
<1> SUFFICES ASSUME Init PROVE IInv
  OBVIOUS
<1>1. obj \in Objects /\ obj.rv = 1 /\ next = 2 /\ obj.spec \in Specs
  <2>1. PICK v \in Vals : obj = [uid |-> 1, rv |-> 1, spec |-> [f \in Fields |-> v]]
    BY DEF Init
  <2>2. [f \in Fields |-> v] \in Specs
    BY SpecsClosed
  <2> QED BY <2>1, <2>2 DEF Init, Objects
<1>2. templates \in SUBSET [TemplateFields -> Vals \cup {Garbled}]
  BY <1>1, SpecsClosed DEF Init
<1>3. TypeOK
  BY <1>1, <1>2, WorkloadEditsAssumption DEF Init, TypeOK, At
<1> QED BY <1>1, <1>3 DEF Init, IInv, ObjectOK, RowsOK, HandlerOK

LEMMA NextIInv == IInv /\ [Next]_vars => IInv'
<1> SUFFICES ASSUME IInv, [Next]_vars PROVE IInv'
  OBVIOUS
<1>1. CASE UNCHANGED vars
  <2>1. TypeOK' /\ ObjectOK'
    BY <1>1 DEF vars, IInv, TypeOK, At, ObjectOK
  <2>2. RowsOK'
    BY <1>1 DEF vars, IInv, RowsOK, RowOK, Current
  <2>3. ASSUME NEW h \in Handlers PROVE HandlerOK(h)'
    <3>1. HandlerOK(h) /\ UNCHANGED <<obj, next, templates, req>>
      BY <1>1 DEF vars, IInv
    <3> QED BY <3>1
            DEF HandlerOK, RequestOK, StageOK, EditOK, RollbackOK, YamlOK, RecoverOK, Current
  <2> QED BY <2>1, <2>2, <2>3 DEF IInv
<1>2. CASE Reconcile
  BY <1>2, ReconcileKeeps
<1>3. ASSUME NEW h \in Handlers, NEW o \in Operations, NEW v \in Vals, Begin(h, o, v)
      PROVE  IInv'
  BY <1>3, BeginKeeps
<1>4. ASSUME NEW h \in Handlers, NEW f \in Fields, NEW v \in Vals, BeginYaml(h, f, v)
      PROVE  IInv'
  BY <1>4, BeginYamlKeeps
<1>5. ASSUME NEW h \in Handlers, NEW v \in Vals, BeginOwnYaml(h, v) PROVE IInv'
  BY <1>5, BeginOwnYamlKeeps
<1>6. ASSUME NEW h \in Handlers, Step(h) PROVE IInv'
  BY <1>6, StepKeeps
<1> QED BY <1>1, <1>2, <1>3, <1>4, <1>5, <1>6 DEF Next

-----------------------------------------------------------------------------
\* The invariant holds throughout.
THEOREM Invariance == Spec => []IInv
  BY InitIInv, NextIInv, PTL DEF Spec

\* The variables have their types in every reachable state.
THEOREM TypeCorrect == Spec => []TypeOK
<1>1. IInv => TypeOK
  BY DEF IInv
<1> QED BY <1>1, Invariance, PTL

-----------------------------------------------------------------------------
\* An Update that lands: its document is the object's, or bears no version.
LEMMA Landing ==
  ASSUME IInv, NEW h \in Handlers, UpdateLands(h)
  PROVE  /\ obj # None /\ obj \in Objects
         /\ req[h] \in Requests /\ RequestOK(req[h]) /\ req[h].stage = "update"
         /\ req[h].body \in Documents
         /\ req[h].body.rv = None \/ Current(req[h].body)
         /\ req[h].op.kind \in {"edit", "rollback", "yaml", "recover"}
         /\ obj' # None /\ obj'.spec = req[h].body.spec
<1>1. /\ obj # None /\ obj \in Objects /\ req[h] \in Requests /\ RequestOK(req[h])
      /\ req[h].stage = "update" /\ req[h].body \in Documents
  BY DEF UpdateLands, At, Accepts, IInv, TypeOK, HandlerOK, Requests
<1>2. req[h].body.rv = None \/ Current(req[h].body)
  BY <1>1 DEF UpdateLands, Accepts, Current
<1>3. req[h].op.kind \in {"edit", "rollback", "yaml", "recover"}
  BY <1>1 DEF RequestOK, StageOK
<1>4. obj' # None /\ obj'.spec = req[h].body.spec
  <2>1. CASE req[h].body.spec = obj.spec
    BY <1>1, <2>1 DEF UpdateLands, Write
  <2>2. CASE req[h].body.spec # obj.spec
    <3>1. obj' = [obj EXCEPT !.rv = next, !.spec = req[h].body.spec]
      BY <2>2 DEF UpdateLands, Write
    <3>2. req[h].body.spec \in Specs /\ next \in Nat
      BY <1>1 DEF Documents, IInv, TypeOK
    <3>3. obj' \in Objects /\ obj'.spec = req[h].body.spec
      BY <1>1, <3>1, <3>2 DEF Objects
    <3> QED BY <3>3, WorkloadEditsAssumption
  <2> QED BY <2>1, <2>2
<1> QED BY <1>1, <1>2, <1>3, <1>4

LEMMA LandsOnIntended ==
  ASSUME IInv, NEW h \in Handlers, NEW f \in Fields, UpdateLands(h),
         obj'.spec[f] # obj.spec[f]
  PROVE  f \in req[h].intent \/ (YamlRefreshes /\ req[h].op.kind = "yaml")
<1> DEFINE r == req[h]
<1>1. RequestOK(r) /\ r.stage = "update" /\ (r.body.rv = None \/ Current(r.body))
      /\ r.op.kind \in {"edit", "rollback", "yaml", "recover"}
  BY Landing
<1>2. r.body.spec[f] # obj.spec[f]
  BY Landing
<1> HIDE DEF r
<1>3. CASE r.op.kind = "edit"
  <2>1. r.intent = r.op.fields \cap Fields /\ r.body.spec = With(obj.spec, r.op.fields, r.val)
    BY <1>1, <1>3 DEF RequestOK, EditOK
  <2>2. f \in r.op.fields
    BY <1>2, <2>1 DEF With
  <2> QED BY <2>1, <2>2 DEF r
<1>4. CASE r.op.kind = "rollback"
  <2>1. r.intent = TemplateFields
        /\ \E t \in templates : r.body.spec = WithTemplate(obj.spec, t)
    BY <1>1, <1>4 DEF RequestOK, RollbackOK
  <2>2. f \in TemplateFields
    BY <1>2, <2>1 DEF WithTemplate
  <2> QED BY <2>1, <2>2 DEF r
<1>5. CASE r.op.kind = "yaml"
  <2>1. YamlOK(r)
    BY <1>1, <1>5 DEF RequestOK
  <2>2. CASE r.intent = Fields
    BY <2>2 DEF r
  <2>3. CASE YamlRefreshes
    BY <2>3, <1>5 DEF r
  <2>4. ASSUME NEW g \in Fields, r.intent = {g}, ~YamlRefreshes,
               r.body.spec = With(obj.spec, {g}, r.val)
        PROVE  f \in r.intent
    BY <2>4, <1>2 DEF With
  <2> QED BY <1>1, <2>1, <2>2, <2>3, <2>4 DEF YamlOK, r
<1>6. CASE r.op.kind = "recover"
  <2>1. r.intent = Fields
    BY <1>1, <1>6 DEF RequestOK, RecoverOK
  <2> QED BY <2>1 DEF r
<1> QED BY <1>1, <1>3, <1>4, <1>5, <1>6

\* No Update of a Deployment undoes an edit its user has not seen, however the
\* handlers of controllers/deploy.go overlap: OnlyIntended for any instance.
THEOREM NothingUndone == Spec => OnlyIntended
<1>1. IInv => \A h \in Handlers, f \in Fields :
                (UpdateLands(h) /\ obj'.spec[f] # obj.spec[f])
                  => f \in req[h].intent \/ (YamlRefreshes /\ req[h].op.kind = "yaml")
  BY LandsOnIntended
<1> QED BY <1>1, Invariance, PTL DEF OnlyIntended

\* A rollback that met a conflict cannot land, however often DeployRollBack
\* retries it: its copy keeps the version that was refused.
THEOREM RetryIsUseless == Spec => ConflictIsFinal
<1>1. ASSUME IInv, NEW h \in Handlers, UpdateLands(h) PROVE req[h].tries = 0
  <2>1. RequestOK(req[h]) /\ obj # None /\ req[h] \in Requests /\ req[h].stage = "update"
        /\ (req[h].body.rv = None \/ Current(req[h].body))
    BY <1>1, Landing
  <2>2. SUFFICES ASSUME req[h].tries > 0 PROVE FALSE
    BY <2>1 DEF Requests
  <2>3. req[h].op.kind = "rollback" /\ req[h].body.rv # obj.rv
    BY <2>1, <2>2 DEF RequestOK
  <2>4. req[h].body.rv # None
    BY <2>1, <2>3 DEF RequestOK, RollbackOK
  <2> QED BY <2>1, <2>3, <2>4 DEF Current
<1>2. IInv => \A h \in Handlers : UpdateLands(h) => req[h].tries = 0
  BY <1>1
<1> QED BY <1>2, Invariance, PTL DEF ConflictIsFinal

LEMMA RecoverLands ==
  ASSUME IInv, NEW h \in Handlers, UpdateLands(h), req[h].op.kind = "recover", ~YamlRefreshes
  PROVE  obj'.spec = Stored(obj.spec)
<1>1. RecoverOK(req[h]) /\ req[h].stage = "update" /\ obj'.spec = req[h].body.spec
      /\ (req[h].body.rv = None \/ Current(req[h].body))
  BY Landing DEF RequestOK
<1> QED BY <1>1 DEF RecoverOK

\* A Recover that the API server accepts gives the object the content it has,
\* or that content garbled: the row's resourceVersion must be the object's, so
\* that RecoverOverwrites fails for every row of an older content, whatever else
\* happens.
THEOREM RecoverIsIdle ==
    Spec => [][\A h \in Handlers, f \in Fields :
                 (UpdateLands(h) /\ req[h].op.kind = "recover" /\ ~YamlRefreshes)
                     => obj'.spec[f] \in {obj.spec[f], Garbled}]_vars
<1>1. ASSUME IInv, NEW h \in Handlers, NEW f \in Fields,
             UpdateLands(h), req[h].op.kind = "recover", ~YamlRefreshes
      PROVE  obj'.spec[f] \in {obj.spec[f], Garbled}
  BY <1>1, RecoverLands DEF Stored
<1>2. IInv => \A h \in Handlers, f \in Fields :
                (UpdateLands(h) /\ req[h].op.kind = "recover" /\ ~YamlRefreshes)
                  => obj'.spec[f] \in {obj.spec[f], Garbled}
  BY <1>1
<1> QED BY <1>2, Invariance, PTL

-----------------------------------------------------------------------------
(* Backups.  A handler that has backed up and was not overtaken has a row  *)
(* of the object's content as long as its copy can still be accepted: until *)
(* it has Got one (or if it bears no version) whatever the version is, and *)
(* from then on while the copy is current.                                 *)

HasRow   == \E b \in backups \ {None} : b.spec = Stored(obj.spec)
Waits(r) == \/ r.stage \in {"get", "refresh", "delete"}
            \/ r.stage = "update" /\ r.body.rv = None

Backed(r) ==
    (r.op.backup /\ ~r.missed) =>
        /\ Waits(r) => obj # None /\ HasRow
        /\ (r.stage \in {"rs", "update"} /\ r.body.rv # None /\ Current(r.body)) => HasRow

AllBacked == \A h \in Handlers : req[h] # None => Backed(req[h])

LEMMA RowStays ==
  ASSUME HasRow, backups \subseteq backups', obj'.spec = obj.spec
  PROVE  HasRow'
BY DEF HasRow

\* The request of a handler that takes no part in the step.
LEMMA BystanderBacked ==
  ASSUME Advance, backups \subseteq backups',
         NEW r \in Requests, RequestOK(r), Backed(r),
         r.stage \in {"rs", "refresh", "update"} => r.body # None,
         NEW q \in Requests, q.stage = r.stage, q.body = r.body, q.op = r.op,
         r.missed => q.missed,
         \/ obj # None => obj' # None /\ obj'.spec = obj.spec
         \/ Waits(r) => q.missed
  PROVE  Backed(q)'
<1> SUFFICES ASSUME q.op.backup, ~q.missed
             PROVE  /\ Waits(q) => obj' # None /\ HasRow'
                    /\ (q.stage \in {"rs", "update"} /\ q.body.rv # None /\ Current(q.body)')
                          => HasRow'
  BY DEF Backed, Waits
<1>1. /\ Waits(r) => obj # None /\ HasRow
      /\ (r.stage \in {"rs", "update"} /\ r.body.rv # None /\ Current(r.body)) => HasRow
  BY DEF Backed
<1>2. ASSUME Waits(q) PROVE obj' # None /\ HasRow'
  <2>1. Waits(r)
    BY <1>2 DEF Waits
  <2>2. obj # None /\ HasRow /\ obj' # None /\ obj'.spec = obj.spec
    BY <1>1, <2>1
  <2> QED BY <2>2, RowStays
<1>3. ASSUME q.stage \in {"rs", "update"}, q.body.rv # None, Current(q.body)' PROVE HasRow'
  <2>1. r.body # None /\ r.body.rv \in Nat \cup {None} /\ r.body.rv < next /\ Current(r.body)'
    BY <1>3 DEF Requests, Documents, RequestOK, Current
  <2>2. obj' = obj /\ Current(r.body)
    BY <2>1, CurrentBefore
  <2>3. HasRow
    BY <1>1, <1>3, <2>2
  <2> QED BY <2>2, <2>3, RowStays
<1> QED BY <1>2, <1>3

\* What a step of h does to the others: nothing, and the content is still
\* there; or whoever waits is marked.
LEMMA StepOthers ==
  ASSUME TypeOK, NEW h \in Handlers, Step(h)
  PROVE  \/ /\ \A g \in Handlers \ {h} : req'[g] = req[g]
            /\ obj # None => obj' # None /\ obj'.spec = obj.spec
         \/ Overtake(h)
<1>1. CASE SaveBackup(h) \/ Get(h) \/ GetReplicaSet(h) \/ GetRow(h) \/ Refresh(h)
           \/ UpdateConflicts(h) \/ UpdateFails(h)
  <2>1. obj' = obj
    BY <1>1 DEF SaveBackup, Get, GetReplicaSet, GetRow, Refresh, UpdateConflicts, UpdateFails
  <2>2. \E q : req' = [req EXCEPT ![h] = q]
    BY <1>1 DEF SaveBackup, AfterBackup, Get, GetReplicaSet, GetRow, Refresh, UpdateConflicts,
                UpdateFails, Answer
  <2> QED BY <2>1, <2>2 DEF TypeOK
<1>2. ASSUME NEW s, Write(h, s)
      PROVE  \/ /\ \A g \in Handlers \ {h} : req'[g] = req[g]
                /\ obj # None => obj' # None /\ obj'.spec = obj.spec
             \/ Overtake(h)
  BY <1>2 DEF Write, Answer, TypeOK
<1>3. CASE UpdateLands(h)
  BY <1>2, <1>3 DEF UpdateLands
<1>4. CASE Patch(h)
  BY <1>2, <1>4 DEF Patch, Answer, TypeOK
<1>5. CASE Delete(h)
  BY <1>5 DEF Delete, Answer, TypeOK
<1>6. CASE CreateNew(h)
  BY <1>6 DEF CreateNew, Answer, TypeOK
<1> QED BY <1>1, <1>3, <1>4, <1>5, <1>6 DEF Step

LEMMA BackupsGrow ==
  ASSUME NEW h \in Handlers, Step(h)
  PROVE  backups \subseteq backups'
BY DEF Step, SaveBackup, Get, GetReplicaSet, GetRow, Refresh, UpdateLands, UpdateConflicts,
       UpdateFails, Patch, Delete, CreateNew

LEMMA OthersBacked ==
  ASSUME IInv, AllBacked, NEW h \in Handlers, Step(h), NEW g \in Handlers \ {h},
         req'[g] # None
  PROVE  Backed(req[g])'
<1>1. Advance /\ backups \subseteq backups'
  BY StepMoves, BackupsGrow DEF IInv, Moves
<1>2. CASE /\ \A f \in Handlers \ {h} : req'[f] = req[f]
           /\ obj # None => obj' # None /\ obj'.spec = obj.spec
  <2>1. PICK r \in Requests : r = req[g]
    BY <1>2 DEF IInv, TypeOK
  <2>2. /\ RequestOK(r) /\ Backed(r) /\ req'[g] = r
        /\ r.stage \in {"rs", "refresh", "update"} => r.body # None
    BY <1>2, <2>1 DEF IInv, TypeOK, HandlerOK, At, AllBacked
  <2>3. Backed(r)'
    BY <1>1, <1>2, <2>2, BystanderBacked
  <2> QED BY <2>2, <2>3 DEF Backed, Waits, Current
<1>3. CASE Overtake(h)
  <2>1. req'[g] = [req[g] EXCEPT !.missed = @ \/ Exposed(g)] /\ req[g] # None
    BY <1>3 DEF Overtake
  <2>2. PICK r \in Requests : r = req[g]
    BY <2>1 DEF IInv, TypeOK
  <2>3. /\ RequestOK(r) /\ Backed(r)
        /\ r.stage \in {"rs", "refresh", "update"} => r.body # None
    BY <2>1, <2>2 DEF IInv, TypeOK, HandlerOK, At, AllBacked
  <2>4. Exposed(g) <=> Waits(r)
    BY <2>2 DEF Exposed, Waits
  <2>5. (r.missed \/ Exposed(g)) \in BOOLEAN
    OBVIOUS
  <2>6. PICK q \in Requests : q = [r EXCEPT !.missed = r.missed \/ Exposed(g)]
    BY <2>5 DEF Requests
  <2>7. /\ q.stage = r.stage /\ q.body = r.body /\ q.op = r.op
        /\ q.missed = (r.missed \/ Exposed(g))
    BY <2>5, <2>6 DEF Requests
  <2>8. Backed(q)'
    BY <1>1, <2>3, <2>4, <2>7, BystanderBacked
  <2>9. req'[g] = q
    BY <2>1, <2>2, <2>6
  <2> QED BY <2>8, <2>9 DEF Backed, Waits, Current
<1> QED BY <1>2, <1>3, StepOthers DEF IInv

\* The handler that has just backed up: it has a row of the object as it is,
\* or knows that it missed it.
LEMMA SavedBacked ==
  ASSUME IInv, NEW h \in Handlers, SaveBackup(h), req'[h] # None
  PROVE  Backed(req[h])'
<1>1. req[h] # None /\ req[h] \in Requests
  BY DEF SaveBackup, At, IInv, TypeOK
<1>2. ASSUME NEW m \in BOOLEAN, AfterBackup(h, m), m \/ (obj' # None /\ HasRow')
      PROVE  Backed(req[h])'
  <2>1. req'[h] = AfterSave(h, m) /\ AfterSave(h, m) \in Requests
    BY <1>1, <1>2, AfterBackupBecomes DEF IInv, Becomes
  <2>2. PICK q \in Requests : q = AfterSave(h, m)
    BY <2>1
  <2>3. q.missed = m
    BY <1>1, <2>2 DEF AfterSave, Requests
  <2>4. Backed(q)'
    BY <1>2, <2>3 DEF Backed
  <2> QED BY <2>1, <2>2, <2>4 DEF Backed, Waits, Current
<1>3. CASE /\ obj # None /\ backups' = backups \cup {[obj EXCEPT !.spec = Stored(@)]}
           /\ AfterBackup(h, FALSE)
  <2>1. PICK b \in Objects : b = [obj EXCEPT !.spec = Stored(@)]
    BY <1>3, SpecsClosed DEF IInv, TypeOK, Objects
  <2>2. b # None /\ b.spec = Stored(obj.spec)
    BY <1>3, <2>1, WorkloadEditsAssumption DEF IInv, TypeOK, Objects
  <2>3. obj' = obj
    BY DEF SaveBackup
  <2>4. HasRow'
    BY <1>3, <2>1, <2>2, <2>3 DEF HasRow
  <2> QED BY <1>2, <1>3, <2>3, <2>4
<1>4. CASE AfterBackup(h, TRUE)
  BY <1>2, <1>4
<1> QED BY <1>3, <1>4 DEF SaveBackup

\* A handler that goes on with a copy: one it took while it waited has the
\* version of the object, and a copy that was not current does not become so.
LEMMA CopyBacked ==
  ASSUME NEW r \in Requests, Backed(r), UNCHANGED obj, backups \subseteq backups',
         NEW q \in Requests, q.op = r.op, q.missed = r.missed,
         q.stage \in {"rs", "update"}, q.body.rv # None,
         \/ Waits(r)
         \/ r.stage \in {"rs", "update"} /\ r.body.rv = q.body.rv
  PROVE  Backed(q)'
<1> SUFFICES ASSUME q.op.backup, ~q.missed, Current(q.body)' PROVE HasRow'
  BY DEF Backed, Waits
<1>1. Current(q.body)
  BY DEF Current
<1>2. HasRow
  <2>1. CASE Waits(r)
    BY <2>1 DEF Backed
  <2>2. CASE r.stage \in {"rs", "update"} /\ r.body.rv = q.body.rv
    BY <1>1, <2>2 DEF Backed, Current
  <2> QED BY <2>1, <2>2
<1> QED BY <1>2, RowStays

\* Handlers of the operations that never back up owe nothing.
LEMMA NoBackupOwed ==
  ASSUME NEW q, ~q.op.backup
  PROVE  Backed(q)'
BY DEF Backed

LEMMA OwnBacked ==
  ASSUME IInv, AllBacked, NEW h \in Handlers, Step(h), req'[h] # None
  PROVE  Backed(req[h])'
<1> DEFINE r == req[h]
<1>1. r # None /\ r \in Requests /\ RequestOK(r) /\ Backed(r)
      /\ (r.stage \in {"rs", "refresh", "update"} => r.body # None)
  BY DEF Step, SaveBackup, Get, GetReplicaSet, GetRow, Refresh, UpdateLands, UpdateConflicts,
         UpdateFails, Patch, Delete, CreateNew, At, IInv, TypeOK, HandlerOK, AllBacked
<1>2. backups \subseteq backups'
  BY BackupsGrow
<1> HIDE DEF r
\* The request it goes on with, as a value of its own.
<1>q. ASSUME NEW q \in Requests, req'[h] = q, Backed(q)' PROVE Backed(req[h])'
  BY <1>q DEF Backed, Waits, Current
<1>3. CASE SaveBackup(h)
  BY <1>3, SavedBacked
<1>4. CASE Get(h)
  <2>1. UNCHANGED obj /\ r.stage = "get"
    BY <1>4 DEF Get, At, r
  <2>2. ASSUME obj # None, req'[h] = GetEdit(h), GetEdit(h) \in Requests PROVE Backed(req[h])'
    <3>1. PICK q \in Requests : q = GetEdit(h)
      BY <2>2
    <3>2. q.op = r.op /\ q.missed = r.missed /\ q.stage = "update" /\ q.body.rv = obj.rv
      BY <1>1, <2>2, <3>1 DEF GetEdit, Requests, r, IInv, TypeOK, Objects
    <3>3. q.body.rv # None
      BY <2>2, <3>2, WorkloadEditsAssumption DEF IInv, TypeOK, Objects
    <3>4. Waits(r)
      BY <2>1 DEF Waits
    <3>5. Backed(q)'
      BY <1>1, <1>2, <2>1, <3>2, <3>3, <3>4, CopyBacked
    <3> QED BY <1>q, <2>2, <3>1, <3>5
  <2>3. ASSUME obj # None, req'[h] = GetRollback(h), GetRollback(h) \in Requests
        PROVE  Backed(req[h])'
    <3>1. PICK q \in Requests : q = GetRollback(h)
      BY <2>3
    <3>2. q.op = r.op /\ q.missed = r.missed /\ q.stage = "rs" /\ q.body.rv = obj.rv
      BY <1>1, <2>3, <3>1 DEF GetRollback, Requests, r
    <3>3. q.body.rv # None
      BY <2>3, <3>2, WorkloadEditsAssumption DEF IInv, TypeOK, Objects
    <3>4. Waits(r)
      BY <2>1 DEF Waits
    <3>5. Backed(q)'
      BY <1>1, <1>2, <2>1, <3>2, <3>3, <3>4, CopyBacked
    <3> QED BY <1>q, <2>3, <3>1, <3>5
  <2> QED BY <1>4, <2>2, <2>3, GetBecomes DEF IInv, Becomes
<1>5. CASE GetReplicaSet(h)
  <2>1. UNCHANGED obj /\ r.stage = "rs"
    BY <1>5 DEF GetReplicaSet, At, r
  <2>2. PICK t \in templates : req'[h] = Chosen(h, t) /\ Chosen(h, t) \in Requests
    BY <1>5, GetReplicaSetBecomes DEF IInv, Becomes
  <2>3. PICK q \in Requests : q = Chosen(h, t)
    BY <2>2
  <2>4. r.body \in Documents /\ r.op.kind = "rollback" /\ r.body.rv # None
    BY <1>1, <2>1 DEF Requests, RequestOK, StageOK, RollbackOK
  <2>5. q.op = r.op /\ q.missed = r.missed /\ q.stage = "update" /\ q.body.rv = r.body.rv
    BY <1>1, <2>3, <2>4 DEF Chosen, Requests, Documents, r
  <2>6. Backed(q)'
    BY <1>1, <1>2, <2>1, <2>4, <2>5, CopyBacked
  <2> QED BY <1>q, <2>2, <2>3, <2>6
<1>6. CASE GetRow(h)
  <2>1. PICK b \in backups \ {None} : req'[h] = Restored(h, b) /\ Restored(h, b) \in Requests
    BY <1>6, GetRowBecomes DEF IInv, Becomes
  <2>2. PICK q \in Requests : q = Restored(h, b)
    BY <2>1
  <2>3. r.op.kind = "recover" /\ r.op \in AllOperations
    BY <1>1, <1>6 DEF GetRow, At, RequestOK, StageOK, Requests, r
  <2>4. q.op = r.op
    BY <1>1, <2>2 DEF Restored, Requests, r
  <2>5. ~q.op.backup
    BY <2>3, <2>4, OperationKinds, SavesBackUp
  <2>6. Backed(q)'
    BY <2>5, NoBackupOwed
  <2> QED BY <1>q, <2>1, <2>2, <2>6
<1>7. CASE Refresh(h)
  <2>1. UNCHANGED obj /\ r.stage = "refresh"
    BY <1>7 DEF Refresh, At, r
  <2>2. obj # None /\ req'[h] = Refreshed(h) /\ Refreshed(h) \in Requests
    BY <1>7, RefreshBecomes DEF IInv, Becomes
  <2>3. PICK q \in Requests : q = Refreshed(h)
    BY <2>2
  <2>4. r.body \in Documents
    BY <1>1, <2>1 DEF Requests
  <2>5. q.op = r.op /\ q.missed = r.missed /\ q.stage = "update" /\ q.body.rv = obj.rv
    BY <1>1, <2>3, <2>4 DEF Refreshed, Requests, Documents, r
  <2>6. q.body.rv # None
    BY <2>2, <2>5, WorkloadEditsAssumption DEF IInv, TypeOK, Objects
  <2>7. Waits(r)
    BY <2>1 DEF Waits
  <2>8. Backed(q)'
    BY <1>1, <1>2, <2>1, <2>5, <2>6, <2>7, CopyBacked
  <2> QED BY <1>q, <2>2, <2>3, <2>8
<1>8. CASE UpdateConflicts(h)
  <2>1. UNCHANGED obj /\ r.stage = "update"
    BY <1>8 DEF UpdateConflicts, At, r
  <2>2. r.op.kind = "rollback" /\ req'[h] = Retried(h) /\ Retried(h) \in Requests
    BY <1>8, UpdateConflictsBecomes DEF IInv, Becomes, r
  <2>3. PICK q \in Requests : q = Retried(h)
    BY <2>2
  <2>4. r.body.rv # None
    BY <1>1, <2>1, <2>2 DEF RequestOK, RollbackOK
  <2>5. q.op = r.op /\ q.missed = r.missed /\ q.stage = "update" /\ q.body.rv = r.body.rv
    BY <1>1, <2>1, <2>3 DEF Retried, Requests, r
  <2>6. Backed(q)'
    BY <1>1, <1>2, <2>1, <2>4, <2>5, CopyBacked
  <2> QED BY <1>q, <2>2, <2>3, <2>6
\* The other calls end the request.
<1>9. CASE UpdateLands(h) \/ UpdateFails(h) \/ Patch(h) \/ Delete(h) \/ CreateNew(h)
  <2>1. req'[h] = None
    BY <1>9 DEF UpdateLands, UpdateFails, Patch, Delete, CreateNew, Write, Answer, Overtake,
                IInv, TypeOK
  <2> QED BY <2>1
<1> QED BY <1>3, <1>4, <1>5, <1>6, <1>7, <1>8, <1>9 DEF Step

\* Requests that arrive have their backup before them, or owe none.
LEMMA BegunBacked ==
  ASSUME IInv, AllBacked, NEW h \in Handlers, NEW o \in Operations, NEW v, NEW doc,
         NEW intent, Receive(h, o, v, doc, intent)
  PROVE  AllBacked'
<1> SUFFICES ASSUME NEW g \in Handlers, req'[g] # None PROVE Backed(req[g])'
  BY DEF AllBacked
<1>1. UNCHANGED <<obj, backups>>
  BY DEF Receive
<1>2. CASE g = h
  <2>1. req'[g].stage = First(o) /\ req'[g].op = o
    BY <1>2 DEF Receive, IInv, TypeOK
  <2>2. CASE o.backup
    <3>1. req'[g].stage = "backup"
      BY <2>1, <2>2 DEF First
    <3> QED BY <3>1 DEF Backed, Waits
  <2>3. CASE ~o.backup
    BY <2>1, <2>3 DEF Backed
  <2> QED BY <2>2, <2>3
<1>3. CASE g # h
  <2>1. req'[g] = req[g] /\ Backed(req[g])
    BY <1>3 DEF Receive, IInv, TypeOK, AllBacked
  <2> QED BY <1>1, <2>1 DEF Backed, Waits, Current, HasRow
<1> QED BY <1>2, <1>3

LEMMA ReconcileBacked ==
  ASSUME IInv, AllBacked, Reconcile
  PROVE  AllBacked'
<1> SUFFICES ASSUME NEW g \in Handlers, req'[g] # None PROVE Backed(req[g])'
  BY DEF AllBacked
<1>1. obj # None /\ obj \in Objects /\ next \in Nat
  BY DEF Reconcile, IInv, TypeOK
<1>2. obj' \in Objects /\ obj'.rv = next /\ obj'.spec = obj.spec
  BY <1>1 DEF Reconcile, Objects
<1>3. obj' # None /\ next <= next' /\ next' \in Nat
  BY <1>1, <1>2, WorkloadEditsAssumption DEF Reconcile
<1>4. Advance /\ UNCHANGED <<backups, req>>
  BY <1>1, <1>2, <1>3 DEF Advance, Reconcile
<1>5. PICK r \in Requests : r = req[g]
  BY <1>4 DEF IInv, TypeOK
<1>6. /\ RequestOK(r) /\ Backed(r) /\ req'[g] = r
      /\ r.stage \in {"rs", "refresh", "update"} => r.body # None
  BY <1>4, <1>5 DEF IInv, TypeOK, HandlerOK, At, AllBacked
<1>7. Backed(r)'
  BY <1>2, <1>3, <1>4, <1>6, BystanderBacked
<1> QED BY <1>6, <1>7 DEF Backed, Waits, Current

LEMMA NextBacked == IInv /\ AllBacked /\ [Next]_vars => AllBacked'
<1> SUFFICES ASSUME IInv, AllBacked, [Next]_vars PROVE AllBacked'
  OBVIOUS
<1>1. CASE UNCHANGED vars
  BY <1>1 DEF vars, AllBacked, Backed, Waits, Current, HasRow
<1>2. CASE Reconcile
  BY <1>2, ReconcileBacked
<1>3. ASSUME NEW h \in Handlers,
             \/ \E o \in Operations, v \in Vals : Begin(h, o, v)
             \/ \E f \in Fields, v \in Vals : BeginYaml(h, f, v)
             \/ \E v \in Vals : BeginOwnYaml(h, v)
      PROVE  AllBacked'
  BY <1>3, BegunBacked DEF Begin, BeginYaml, BeginOwnYaml
<1>4. ASSUME NEW h \in Handlers, Step(h) PROVE AllBacked'
  BY <1>4, OwnBacked, OthersBacked DEF AllBacked
<1> QED BY <1>1, <1>2, <1>3, <1>4 DEF Next

\* Whoever backs up and then replaces or deletes the object has stored the
\* content it takes away, for any handlers and operations, unless its backup
\* failed or somebody wrote after it.
THEOREM ChangeIsBackedUp == Spec => BackupPrecedesChange
<1>1. Init => AllBacked
  BY DEF Init, AllBacked
<1>2. ASSUME IInv, AllBacked, NEW h \in Handlers, UpdateLands(h) \/ Delete(h), obj' # obj,
             req[h].op.backup, ~req[h].missed
      PROVE  HasRow
  <2>1. req[h] # None /\ Backed(req[h])
    BY <1>2 DEF UpdateLands, Delete, At, AllBacked
  <2>2. CASE UpdateLands(h)
    <3>1. req[h].stage = "update" /\ (req[h].body.rv = None \/ Current(req[h].body))
      BY <1>2, <2>2, Landing
    <3> QED BY <1>2, <2>1, <3>1 DEF Backed, Waits
  <2>3. CASE Delete(h)
    BY <1>2, <2>1, <2>3 DEF Delete, At, Backed, Waits
  <2> QED BY <1>2, <2>2, <2>3
<1>3. IInv /\ AllBacked =>
        \A h \in Handlers :
          ((UpdateLands(h) \/ Delete(h)) /\ obj' # obj /\ req[h].op.backup /\ ~req[h].missed)
             => \E b \in backups \ {None} : b.spec = Stored(obj.spec)
  BY <1>2 DEF HasRow
<1> QED BY <1>1, <1>3, NextBacked, Invariance, PTL DEF Spec, BackupPrecedesChange

-----------------------------------------------------------------------------
(* Edits of the kinds that keep the version implement AtomicEdits.         *)

\* A write that gives a group of fields one value.
LEMMA GroupEdit ==
  ASSUME IInv, NEW fs, NEW v \in Vals, fs \cap Fields \in Groups,
         obj # None, obj' # None, obj'.spec = With(obj.spec, fs, v), UNCHANGED templates
  PROVE  Atomic!Next
<1>1. obj.spec # None
  BY WorkloadEditsAssumption DEF IInv, TypeOK, Objects
<1>2. With(obj.spec, fs, v) = [f \in Fields |-> IF f \in fs \cap Fields THEN v ELSE obj.spec[f]]
  BY DEF With
<1>3. Atomic!Edit(fs \cap Fields, v)
  BY <1>1, <1>2 DEF Atomic!Edit
<1> QED BY <1>3 DEF Atomic!Next

LEMMA UpdateRefines ==
  ASSUME ~YamlRefreshes, IInv, NEW h \in Handlers, UpdateLands(h)
  PROVE  Atomic!Next
<1> DEFINE r == req[h]
<1>1. /\ obj # None /\ obj' # None /\ obj'.spec = r.body.spec
      /\ r \in Requests /\ RequestOK(r) /\ r.stage = "update"
      /\ r.body.rv = None \/ Current(r.body)
      /\ r.op.kind \in {"edit", "rollback", "yaml", "recover"}
  BY Landing
<1>2. UNCHANGED templates /\ r.val \in Vals
  BY <1>1 DEF UpdateLands, Requests
<1>3. obj.spec # None
  BY <1>1, WorkloadEditsAssumption DEF IInv, TypeOK, Objects
<1>4. r.op \in Operations
  BY <1>1 DEF RequestOK
<1> HIDE DEF r
<1>5. CASE r.op.kind = "edit"
  <2>1. r.body.spec = With(obj.spec, r.op.fields, r.val)
    BY <1>1, <1>5 DEF RequestOK, EditOK
  <2>2. r.op.fields \cap Fields \in Groups
    BY <1>4 DEF Groups
  <2> QED BY <1>1, <1>2, <2>1, <2>2, GroupEdit
<1>6. CASE r.op.kind = "rollback"
  <2>1. PICK t \in templates : r.body.spec = WithTemplate(obj.spec, t)
    BY <1>1, <1>6 DEF RequestOK, RollbackOK
  <2>2. Atomic!Rollback(t)
    BY <1>1, <1>2, <1>3, <2>1 DEF Atomic!Rollback, WithTemplate
  <2> QED BY <2>2 DEF Atomic!Next
<1>7. CASE r.op.kind = "yaml"
  <2>1. YamlOK(r)
    BY <1>1, <1>7 DEF RequestOK
  <2>2. CASE r.body.spec = [f \in Fields |-> r.val]
    <3>1. r.body.spec = With(obj.spec, Fields, r.val)
      BY <2>2 DEF With
    <3>2. Fields \cap Fields \in Groups
      BY DEF Groups
    <3> QED BY <1>1, <1>2, <3>1, <3>2, GroupEdit
  <2>3. ASSUME NEW f \in Fields, r.body.spec = With(obj.spec, {f}, r.val)
        PROVE  Atomic!Next
    <3>1. {f} \cap Fields = {f}
      OBVIOUS
    <3>2. {f} \cap Fields \in Groups
      BY <3>1 DEF Groups
    <3> QED BY <1>1, <1>2, <2>3, <3>2, GroupEdit
  <2> QED BY <1>1, <2>1, <2>2, <2>3 DEF YamlOK
<1>8. CASE r.op.kind = "recover"
  <2>1. obj'.spec = Stored(obj.spec)
    BY <1>8, RecoverLands DEF r
  <2>2. Atomic!Recover
    BY <1>1, <1>2, <1>3, <2>1 DEF Atomic!Recover
  <2> QED BY <2>2 DEF Atomic!Next
<1> QED BY <1>1, <1>5, <1>6, <1>7, <1>8

LEMMA PatchRefines ==
  ASSUME IInv, NEW h \in Handlers, Patch(h)
  PROVE  Atomic!Next \/ UNCHANGED <<obj, templates>>
<1>1. req[h] \in Requests /\ RequestOK(req[h]) /\ req[h].val \in Vals
  BY DEF Patch, At, IInv, TypeOK, HandlerOK, Requests
<1>2. CASE obj # None /\ Write(h, With(obj.spec, req[h].op.fields, req[h].val))
  <2> DEFINE s == With(obj.spec, req[h].op.fields, req[h].val)
  <2>1. CASE s = obj.spec
    BY <1>2, <2>1 DEF Patch, Write
  <2>2. CASE s # obj.spec
    <3>1. obj \in Objects /\ obj.spec \in Specs /\ next \in Nat
      BY <1>2 DEF IInv, TypeOK, Objects
    <3>2. s \in Specs
      BY <1>1, <3>1, SpecsClosed
    <3>3. obj' = [obj EXCEPT !.rv = next, !.spec = s]
      BY <1>2, <2>2 DEF Write
    <3>4. obj' \in Objects /\ obj'.spec = s
      BY <3>1, <3>2, <3>3 DEF Objects
    <3>5. obj' # None
      BY <3>4, WorkloadEditsAssumption
    <3>6. req[h].op.fields \cap Fields \in Groups
      BY <1>1 DEF RequestOK, Groups
    <3>7. UNCHANGED templates
      BY DEF Patch
    <3> QED BY <1>1, <1>2, <3>4, <3>5, <3>6, <3>7, GroupEdit
  <2> QED BY <2>1, <2>2
<1>3. CASE UNCHANGED <<obj, next>>
  BY <1>3 DEF Patch
<1> QED BY <1>2, <1>3 DEF Patch

LEMMA StepRefines ==
  ASSUME ~YamlRefreshes, IInv, [Next]_vars
  PROVE  [Atomic!Next]_(Atomic!vars)
<1>0. (UNCHANGED <<obj, templates>>) => UNCHANGED Atomic!vars
  BY DEF Atomic!vars
<1>1. CASE UNCHANGED vars
  BY <1>0, <1>1 DEF vars
<1>2. CASE Reconcile
  <2>1. obj # None /\ obj \in Objects /\ obj.spec # None /\ next \in Nat
    BY <1>2, WorkloadEditsAssumption DEF Reconcile, IInv, TypeOK, Objects
  <2>2. obj' \in Objects /\ obj'.spec = obj.spec
    BY <1>2, <2>1 DEF Reconcile, Objects
  <2>3. obj' # None
    BY <2>2, WorkloadEditsAssumption
  <2>4. templates' = templates \cup {[f \in TemplateFields |-> obj.spec[f]]}
    BY <1>2 DEF Reconcile, TemplateOf
  <2>5. Atomic!Revise
    BY <2>1, <2>2, <2>3, <2>4 DEF Atomic!Revise, Atomic!TemplateOf
  <2> QED BY <2>5 DEF Atomic!Next
<1>3. ASSUME NEW h \in Handlers,
             \/ \E o \in Operations, v \in Vals : Begin(h, o, v)
             \/ \E f \in Fields, v \in Vals : BeginYaml(h, f, v)
             \/ \E v \in Vals : BeginOwnYaml(h, v)
      PROVE  UNCHANGED <<obj, templates>>
  BY <1>3 DEF Begin, BeginYaml, BeginOwnYaml, Receive
<1>4. ASSUME NEW h \in Handlers, Step(h)
      PROVE  Atomic!Next \/ UNCHANGED <<obj, templates>>
  <2>1. CASE SaveBackup(h) \/ Get(h) \/ GetReplicaSet(h) \/ GetRow(h) \/ Refresh(h)
             \/ UpdateConflicts(h) \/ UpdateFails(h)
    BY <2>1 DEF SaveBackup, Get, GetReplicaSet, GetRow, Refresh, UpdateConflicts, UpdateFails
  <2>2. CASE UpdateLands(h)
    BY <2>2, UpdateRefines
  <2>3. CASE Patch(h)
    BY <2>3, PatchRefines
  <2>4. CASE Delete(h)
    <3>1. obj # None => obj.spec # None
      BY WorkloadEditsAssumption DEF IInv, TypeOK, Objects
    <3>2. CASE obj # None /\ obj' = None /\ templates' = {}
      BY <3>1, <3>2 DEF Atomic!Delete, Atomic!Next
    <3> QED BY <2>4, <3>2 DEF Delete
  <2>5. CASE CreateNew(h)
    <3>1. CASE /\ obj = None
               /\ obj' = [uid |-> next, rv |-> next, spec |-> [f \in Fields |-> req[h].val]]
               /\ templates' = {TemplateOf(obj'.spec)}
      <4>1. req[h].val \in Vals /\ next \in Nat
        BY <2>5 DEF CreateNew, At, IInv, TypeOK, Requests
      <4>2. [f \in Fields |-> req[h].val] \in Specs
        BY <4>1, SpecsClosed
      <4>3. obj' \in Objects /\ obj'.spec = [f \in Fields |-> req[h].val]
        BY <3>1, <4>1, <4>2 DEF Objects
      <4>4. obj' # None
        BY <4>3, WorkloadEditsAssumption
      <4>5. templates' = {[f \in TemplateFields |-> obj'.spec[f]]}
        BY <3>1 DEF TemplateOf
      <4>6. Atomic!Create(req[h].val)
        BY <3>1, <4>3, <4>4, <4>5 DEF Atomic!Create, Atomic!TemplateOf
      <4> QED BY <4>1, <4>6 DEF Atomic!Next
    <3> QED BY <2>5, <3>1 DEF CreateNew
  <2> QED BY <1>4, <2>1, <2>2, <2>3, <2>4, <2>5 DEF Step
<1> QED BY <1>0, <1>1, <1>2, <1>3, <1>4 DEF Next

LEMMA InitRefines ==
  ASSUME Init
  PROVE  Atomic!Init
<1>1. PICK v \in Vals : obj = [uid |-> 1, rv |-> 1, spec |-> [f \in Fields |-> v]]
  BY DEF Init
<1>2. obj # None
  <2>1. [f \in Fields |-> v] \in Specs
    BY SpecsClosed
  <2>2. obj \in Objects
    BY <1>1, <2>1 DEF Objects
  <2> QED BY <2>2, WorkloadEditsAssumption
<1>3. obj.spec = [f \in Fields |-> v] /\ templates = {[f \in TemplateFields |-> obj.spec[f]]}
  BY <1>1 DEF Init, TemplateOf
<1> QED BY <1>2, <1>3 DEF Atomic!Init, Atomic!TemplateOf

\* Overlapping handlers do to the object what whole edits would, one after
\* another, for every kind whose YAML update keeps the version.
THEOREM Refinement == ~YamlRefreshes => (Spec => ImplementsAtomicEdits)
<1> SUFFICES ASSUME ~YamlRefreshes PROVE Spec => ImplementsAtomicEdits
  OBVIOUS
<1>1. Init => Atomic!Init
  BY InitRefines
<1>2. IInv /\ [Next]_vars => [Atomic!Next]_(Atomic!vars)
  BY StepRefines
<1> QED BY <1>1, <1>2, Invariance, PTL DEF Spec, ImplementsAtomicEdits, Atomic!Spec
=============================================================================
