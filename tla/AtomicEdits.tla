---------------------------- MODULE AtomicEdits ----------------------------
(***************************************************************************)
(* What a user of the workload pages may expect of edits that overlap: the *)
(* content of the object changes only by whole edits.  One edit gives a    *)
(* value to a group of fields that belong together and leaves the others   *)
(* as they are at that moment; a rollback takes the pod template of an     *)
(* earlier revision; and the object is deleted and made.                   *)
(***************************************************************************)
CONSTANTS
    Fields,         \* fields of the object
    TemplateFields, \* those that belong to the pod template
    Groups,         \* sets of fields that one edit sets
    Vals,           \* values a user gives
    Garble(_),      \* a content read back from the table of backups
    None

VARIABLES
    content,   \* the object's fields, None when there is no object
    revisions  \* the pod templates a rollback may return to

vars == <<content, revisions>>

TemplateOf(c) == [f \in TemplateFields |-> c[f]]

Init == /\ \E v \in Vals : content = [f \in Fields |-> v]
        /\ revisions = {TemplateOf(content)}

Edit(group, v) ==
    /\ content # None
    /\ content' = [f \in Fields |-> IF f \in group THEN v ELSE content[f]]
    /\ UNCHANGED revisions

Rollback(t) ==
    /\ content # None
    /\ content' = [f \in Fields |-> IF f \in TemplateFields THEN t[f] ELSE content[f]]
    /\ UNCHANGED revisions

\* A backup that the server accepts is one of the present content.
Recover ==
    /\ content # None
    /\ content' = Garble(content)
    /\ UNCHANGED revisions

Revise ==
    /\ content # None
    /\ revisions' = revisions \cup {TemplateOf(content)}
    /\ UNCHANGED content

Delete == content # None /\ content' = None /\ revisions' = {}

Create(v) ==
    /\ content = None
    /\ content' = [f \in Fields |-> v]
    /\ revisions' = {TemplateOf(content')}

Next ==
    \/ \E group \in Groups, v \in Vals : Edit(group, v)
    \/ \E t \in revisions : Rollback(t)
    \/ Recover
    \/ Revise
    \/ Delete
    \/ \E v \in Vals : Create(v)

Spec == Init /\ [][Next]_vars
=============================================================================
