----------------------------- MODULE ListPages -----------------------------
(***************************************************************************)
(* The list pages of the front end (frontend/src/pages).  All of them are  *)
(* the same machine: useState and useEffect hooks around `api', a table,   *)
(* and dialogs whose handlers send a request and fetch the list again.     *)
(* They differ in where the cluster comes from, which values an effect     *)
(* depends on, what guards a dialog and what follows an answer; a record   *)
(* says so for each page (modules KubernetesPages and ConsolePages).  One  *)
(* page is mounted in a tab; its answers arrive in any order.              *)
(***************************************************************************)
EXTENDS Integers, Sequences, FiniteSets

CONSTANTS
    Pages,      \* the pages checked, records of the form below
    Clusters,   \* cluster ids
    All,        \* the filter that lets every row pass
    Chosen,     \* another value of the filter
    None,
    MaxGets,    \* bound: list requests in flight when the user asks for one
    MaxActs,    \* bound: requests that change something
    MaxChanges, \* bound: changes of the filter or, in another tab, of the cluster
    MaxRetries  \* polls of a restarting workload before the page gives up (30)

\* A request a page sends from a row's menu or a dialog:
\*   row     it is about a row, which the user chose in the table
\*   guard   a ConfirmDialog ("dialog"), a flag that disables the button
\*           ("flag"), or nothing ("none")
\*   early   the dialog closes before the request is sent
\*   label   the row shows what is going on until the label is taken away
\*   writes  it changes what the list shows
\*   now     on success the list is fetched without ("quiet") or with the
\*           skeleton ("loud"), or the row is taken out of the state ("local")
\*   drops   that fetch leaves the typed filter out
\*   later   a timer takes the label away and fetches the list: when the
\*           request has ended ("settled"), succeeded ("success"), or when a
\*           poll of the list finds the workload ready ("poll")
Op == [name: {"create", "remove", "act", "restart", "edit"}, row: BOOLEAN,
       guard: {"dialog", "flag", "none"}, early: BOOLEAN, label: BOOLEAN,
       writes: BOOLEAN, now: {"quiet", "loud", "local", "none"}, drops: BOOLEAN,
       later: {"never", "settled", "success", "poll"}]

\* A page:
\*   from    its cluster is read from localStorage at each render ("storage"),
\*           once into a state ("state"), or it has none ("none")
\*   deps    what its fetching effect depends on; "chosen": a filter, but the
\*           effect does nothing when the filter is taken away
\*   search  the filter is sent when a button is pressed
\*   patient the buttons are disabled while the list is loading
\*   refresh it has a button that fetches the list
\*   spins   the first fetch shows the skeleton
Page == [from: {"storage", "state", "none"}, deps: SUBSET {"cluster", "filter", "chosen"},
         search: BOOLEAN, patient: BOOLEAN, refresh: BOOLEAN, spins: BOOLEAN,
         ops: SUBSET Op]

\* Why a table may differ from the list it should show: a request failed; an
\* older answer came last; a handler fetched with the cluster or the filter of an
\* earlier render, or without the filter; nothing was fetched; a request was
\* carried out and its answer lost.
Causes == {"failed", "overtaken", "closure", "unfiltered", "unasked", "unanswered"}

Filters  == {All, Chosen}
Places   == (Clusters \cup {None}) \X Filters   \* what a list request asks for

\* The poll of a restarting workload: how often it was asked, the requests out.
Poll == [at : Places, label : BOOLEAN, retries : Nat, out : Nat, on : BOOLEAN]

\* An operation is known by its name and a page has one that is polled; a page that
\* keeps its cluster fetches when it gets one.  A row is taken out by what deletes
\* it, and what changes the list does not leave the fetch to a poll (a restart
\* changes nothing the list shows), which may give up.
ASSUME ListPagesAssumption ==
    /\ Pages \subseteq Page
    /\ \A pg \in Pages :
          /\ \A x, y \in pg.ops :
                x.name = y.name \/ (x.later = "poll" /\ y.later = "poll") => x = y
          /\ \A op \in pg.ops : /\ op.now = "local" => op.writes
                                /\ op.writes /\ op.later = "poll" => op.now # "none"
          /\ pg.from = "state" =>
                /\ "cluster" \in pg.deps
                /\ \A op \in pg.ops : op.later = "settled" => op.label
    /\ None \notin Clusters \cup Causes \cup Poll \cup [at : Places, seen : Nat]
    /\ All # Chosen
    /\ MaxGets \in Nat /\ MaxActs \in Nat /\ MaxChanges \in Nat /\ MaxRetries \in Nat

VARIABLES
    page,      \* the mounted page
    stored,    \* localStorage's clusterId, None if there is none
    cluster,   \* the page's clusterId as of its last render
    filter,    \* the filter's value
    rows,      \* what the table shows: where it is from and how many changes
               \* it has seen, None before the first answer
    loading,   \* the skeleton is shown
    gets,      \* the list requests in flight, in the order they were sent
    dialog,    \* the open dialog: the request it would send, the cluster of its row
    pending,   \* the requests whose guard is up
    label,     \* some row shows that an operation is going on
    acts,      \* the other requests in flight
    timers,    \* the running timers, each with the place its closure fetches
    poll,      \* the poll of a restarting workload, None if there is none
    made,      \* changes made to the list of each cluster
    sent,      \* requests sent that change something
    changes,   \* changes of the filter or of localStorage
    switched,  \* another tab has chosen another cluster
    cause      \* the last reason for which the table may differ from the list

vars == <<page, stored, cluster, filter, rows, loading, gets, dialog, pending, label, acts,
          timers, poll, made, sent, changes, switched, cause>>

Here == <<cluster, filter>>

\* A request sent in this step: it finds what the step leaves.
Get(at, quiet, excuse) ==
    [at |-> at, quiet |-> quiet, since |-> made'[at[1]], excuse |-> excuse]

Without(s, i) == [j \in 1 .. Len(s) - 1 |-> s[IF j < i THEN j ELSE j + 1]]

-----------------------------------------------------------------------------
(* Rendering.                                                              *)

\* The filter's useState.
FirstFilter == All

\* useState and the first effect: a page that holds its cluster in a state does
\* not fetch before there is one.
Init ==
    /\ page \in Pages
    /\ stored \in IF page.from = "none" THEN {None} ELSE Clusters \cup {None}
    /\ cluster = stored
    /\ filter = FirstFilter
    /\ rows = None
    /\ made = [c \in Clusters \cup {None} |-> 0]
    /\ loading = page.spins
    /\ gets = IF page.from = "state" /\ cluster = None THEN <<>>
              ELSE <<[at |-> <<cluster, filter>>, quiet |-> ~page.spins, since |-> 0,
                      excuse |-> None]>>
    /\ dialog = None /\ pending = {} /\ label = FALSE
    /\ acts = <<>> /\ timers = <<>> /\ poll = None
    /\ sent = 0 /\ changes = 0 /\ switched = FALSE
    /\ cause = IF gets = <<>> THEN "unasked" ELSE None

\* The effect of a render in which the cluster is c and the filter f fetches.
Refetches(c, f) ==
    /\ page.from = "state" => c # None
    /\ \/ c # cluster /\ "cluster" \in page.deps
       \/ f # filter /\ "filter" \in page.deps
       \/ f \notin {filter, All} /\ "chosen" \in page.deps

Either(why, else) == IF why = None THEN else ELSE why

\* Every request in gs has, if why is one, a reason to bring back an older list.
Excuse(gs, why) == [i \in DOMAIN gs |-> [gs[i] EXCEPT !.excuse = Either(why, @)]]

\* A render: the component's body reads localStorage again, then the effects run.
\* gs, ld and f are the requests, the skeleton and the filter as the event leaves
\* them; why is the cause the event leaves.
Render(c, f, gs, ld, why) ==
    LET fetches == Refetches(c, f)
        unasked == <<c, f>> # Here /\ ~fetches
    IN  /\ cluster' = c
        /\ filter' = f
        /\ gets' = IF fetches THEN Append(gs, Get(<<c, f>>, FALSE, None))
                   ELSE Excuse(gs, IF unasked THEN "unasked" ELSE None)
        /\ loading' = (ld \/ fetches)
        /\ cause' = IF unasked THEN "unasked" ELSE why

\* Mutant: the deployments' page reads localStorage at each render, too.
FollowingCluster == stored

NextCluster == IF page.from = "storage" THEN stored ELSE cluster

Rerender(gs, ld, why) == Render(NextCluster, filter, gs, ld, why)

\* Nothing the page shows changes, and it is not rendered.
Unrendered(gs, why) == gets' = gs /\ cause' = why /\ UNCHANGED <<cluster, filter, loading>>

\* fetchData as a handler or a timer calls it: with the cluster and the filter of
\* the render the handler was made in.
Fetch(gs, at, quiet, drops) ==
    LET to  == IF drops THEN <<at[1], All>> ELSE at
        why == IF to = <<NextCluster, filter>> THEN None ELSE IF drops THEN "unfiltered" ELSE "closure"
    IN  IF page.from = "state" /\ at[1] = None THEN gs ELSE Append(gs, Get(to, quiet, why))

-----------------------------------------------------------------------------
(* The surroundings.                                                       *)

\* MainLayout: the first cluster of the list becomes the chosen one.  Nothing is
\* rendered for it.
StoreFirst ==
    /\ page.from # "none" /\ stored = None /\ changes < MaxChanges
    /\ stored' \in Clusters
    /\ changes' = changes + 1
    /\ UNCHANGED <<page, cluster, filter, rows, loading, gets, dialog, pending, label, acts,
                   timers, poll, made, sent, switched, cause>>

\* Another tab chooses a cluster: no page listens.
OtherTab ==
    /\ stored # None /\ changes < MaxChanges
    /\ stored' \in Clusters \ {stored}
    /\ changes' = changes + 1
    /\ switched' = TRUE
    /\ UNCHANGED <<page, cluster, filter, rows, loading, gets, dialog, pending, label, acts,
                   timers, poll, made, sent, cause>>

\* A page without a cluster in its state looks for one every 500 ms.
Adopt ==
    /\ page.from = "state" /\ cluster = None /\ stored # None
    /\ UNCHANGED <<page, stored, rows, dialog, pending, label, acts, timers, poll, made, sent,
                   changes, switched>>
    /\ Render(stored, filter, gets, loading, cause)

-----------------------------------------------------------------------------
(* Fetching.                                                               *)

Narrow(f) ==
    /\ page.search \/ page.deps \cap {"filter", "chosen"} # {}
    /\ f # filter /\ changes < MaxChanges
    /\ changes' = changes + 1
    /\ UNCHANGED <<page, stored, rows, dialog, pending, label, acts, timers, poll, made, sent,
                   switched>>
    /\ Render(NextCluster, f, gets, loading, cause)

\* The refresh or the search button.
Press ==
    /\ page.refresh \/ page.search
    /\ page.patient => ~loading
    /\ dialog = None /\ Len(gets) < MaxGets
    /\ UNCHANGED <<page, stored, rows, dialog, pending, label, acts, timers, poll, made, sent,
                   changes, switched>>
    /\ Rerender(Fetch(gets, Here, FALSE, FALSE), page.from = "state" => cluster # None, cause)

\* The requests that remain when the i-th is answered: those sent before it can
\* only bring something older.
Rest(i, why) ==
    LET marked == [j \in DOMAIN gets |->
                      IF j < i THEN [gets[j] EXCEPT !.excuse = why] ELSE gets[j]]
    IN  Without(marked, i)

\* A list arrives: setItems, and setLoading(false) in the finally of a loud request.
\* What it shows was true at some moment since it was asked for.
Listed(i) ==
    LET g == gets[i]
    IN  \E v \in g.since .. made[g.at[1]] :
           /\ rows' = [at |-> g.at, seen |-> v]
           /\ UNCHANGED <<page, stored, dialog, pending, label, acts, timers, poll, made, sent,
                          changes, switched>>
           /\ Rerender(Rest(i, "overtaken"), g.quiet /\ loading,
                       IF g.at = <<NextCluster, filter>> /\ v = made[g.at[1]]
                       THEN None ELSE Either(g.excuse, cause))

\* A list request fails: a toast, and the rows stay.
\* Mutant: setLoading(false) at the end of the try block.
UnlistedOutsideFinally(i) ==
    /\ UNCHANGED <<page, stored, rows, dialog, pending, label, acts, timers, poll, made, sent,
                   changes, switched>>
    /\ Unrendered(Rest(i, "failed"), "failed")

Unlisted(i) ==
    /\ UNCHANGED <<page, stored, rows, dialog, pending, label, acts, timers, poll, made, sent,
                   changes, switched>>
    /\ IF gets[i].quiet THEN Unrendered(Rest(i, "failed"), "failed")
       ELSE Rerender(Rest(i, "failed"), FALSE, "failed")

Answer == \E i \in DOMAIN gets : Listed(i) \/ Unlisted(i)

-----------------------------------------------------------------------------
(* Dialogs and requests.                                                   *)

\* A ConfirmDialog that opens forgets that it was loading; a page's flag stays.
\* Mutant: so does every dialog.
ResetAll(op) == pending \ {op.name}

Reset(op) == IF op.guard = "dialog" THEN pending \ {op.name} ELSE pending

\* The row's menu or the create button.
Open(op) ==
    /\ op \in page.ops /\ dialog = None
    /\ op.row => rows # None /\ ~loading
    /\ op.row /\ rows.at[1] = None => page.from = "none"  \* no cluster, no rows
    /\ dialog' = [op |-> op, of |-> IF op.row THEN rows.at[1] ELSE None]
    /\ pending' = Reset(op)
    /\ UNCHANGED <<page, stored, rows, label, acts, timers, poll, made, sent, changes, switched>>
    /\ Rerender(gets, loading, cause)

\* Cancel, the escape key or a click beside the dialog.
Dismiss ==
    /\ dialog # None
    /\ dialog' = None
    /\ UNCHANGED <<page, stored, rows, pending, label, acts, timers, poll, made, sent, changes,
                   switched>>
    /\ Rerender(gets, loading, cause)

\* The dialog's button: the handler of the last render sends the request.  (Bound:
\* one restart is polled at a time.)
Confirm ==
    /\ dialog # None /\ sent < MaxActs
    /\ dialog.op.later = "poll" => poll = None
    /\ dialog.op.guard # "none" => dialog.op.name \notin pending
    /\ acts' = Append(acts, [op |-> dialog.op, of |-> dialog.of, to |-> Here])
    /\ sent' = sent + 1
    /\ pending' = IF dialog.op.guard = "none" THEN pending ELSE pending \cup {dialog.op.name}
    /\ label' = (label \/ dialog.op.label)
    /\ dialog' = IF dialog.op.early THEN None ELSE dialog
    /\ UNCHANGED <<page, stored, rows, timers, poll, made, changes, switched>>
    /\ Rerender(gets, loading, cause)

\* The label after the end of a request that had set it, unless a timer or a poll
\* takes it away.
\* Mutant: the catch block forgets it.
LabelledAfterFailure(op, ok) == ~(op.label /\ op.later = "never") /\ label

Labelled(op, ok) ==
    ~(op.label /\ (op.later = "never" \/ (~ok /\ op.later # "settled"))) /\ label

\* What every end of the i-th request does to the guards; the page closes the
\* dialog on success, a ConfirmDialog closes itself in any case, whichever row it
\* is open for by now.
Release(i, ok) ==
    LET op == acts[i].op
    IN  /\ acts' = Without(acts, i)
        /\ pending' = IF op.guard = "none" THEN pending ELSE pending \ {op.name}
        /\ dialog' = IF dialog # None /\ ~op.early /\ (ok \/ op.guard = "dialog")
                        /\ dialog.op = op
                     THEN None ELSE dialog
        /\ timers' = IF op.later = "settled" \/ (ok /\ op.later = "success")
                     THEN Append(timers, [at |-> acts[i].to, label |-> op.label])
                     ELSE timers
        /\ label' = Labelled(op, ok)

\* Without a cluster a request can only fail.
Possible(a) == a.to[1] = None => page.from = "none"

\* It changes the list, and nothing fetches it.
Unfollowed(op) == op.writes /\ op.now = "none" /\ op.later = "never"

Changed(a) == made' = [made EXCEPT ![a.to[1]] = IF a.op.writes THEN @ + 1 ELSE @]

\* The list requests after the success of a: one more, or none, and those in
\* flight may bring back what was before.
\* Mutant: a handler that keeps the table does not fetch.
Unfetched(a) == IF a.op.now = "loud" THEN Fetch(gets, a.to, FALSE, a.op.drops) ELSE gets

Refetched(a) ==
    IF a.op.now \in {"quiet", "loud"} THEN Fetch(gets, a.to, a.op.now = "quiet", a.op.drops)
    ELSE Excuse(gets, IF a.op.now = "local" THEN "overtaken"
                      ELSE IF Unfollowed(a.op) THEN "unasked" ELSE None)

\* The request succeeds: the rest of the handler's try block.
Done(i) ==
    LET a == acts[i]
        upToDate == rows # None /\ rows.at[1] = a.to[1] /\ rows.seen = made[a.to[1]]
    IN  /\ Possible(a)
        /\ Release(i, TRUE)
        /\ Changed(a)
        /\ rows' = IF a.op.now = "local" /\ upToDate THEN [rows EXCEPT !.seen = @ + 1] ELSE rows
        /\ poll' = IF a.op.later = "poll"
                   THEN [at |-> a.to, label |-> a.op.label, retries |-> 0, out |-> 0, on |-> TRUE]
                   ELSE poll
        /\ Rerender(Refetched(a), loading \/ a.op.now = "loud",
                    IF Unfollowed(a.op) THEN "unasked" ELSE cause)
        /\ UNCHANGED <<page, stored, sent, changes, switched>>

\* The request fails: refused, or done and its answer lost.
Undone(i, lost) ==
    LET a   == acts[i]
        why == IF lost /\ a.op.writes /\ a.op.later # "settled" THEN "unanswered" ELSE None
    IN  /\ lost => Possible(a)
        /\ Release(i, FALSE)
        /\ IF lost THEN Changed(a) ELSE UNCHANGED made
        /\ IF a.op.guard = "none" /\ ~a.op.label
           THEN Unrendered(Excuse(gets, why), Either(why, cause))
           ELSE Rerender(Excuse(gets, why), loading, Either(why, cause))
        /\ UNCHANGED <<page, stored, rows, poll, sent, changes, switched>>

End == \E i \in DOMAIN acts : Done(i) \/ Undone(i, TRUE) \/ Undone(i, FALSE)

\* A timer takes the label away and fetches, with the closure it was set in.
Fire(i) ==
    LET t == timers[i]
    IN  /\ timers' = Without(timers, i)
        /\ label' = (label /\ ~t.label)
        /\ UNCHANGED <<page, stored, rows, dialog, pending, acts, poll, made, sent, changes,
                       switched>>
        /\ Rerender(Fetch(gets, t.at, t.label, FALSE), loading \/ ~t.label, cause)

-----------------------------------------------------------------------------
(* The poll of a restarting workload.                                      *)

\* Every 2 s, whether or not the request before has been answered.  (Bound: two
\* requests in flight.)
Tick ==
    /\ poll # None /\ poll.on /\ poll.out < 2 /\ poll.retries <= MaxRetries
    /\ poll' = [poll EXCEPT !.retries = @ + 1, !.out = @ + 1]
    /\ UNCHANGED <<page, stored, cluster, filter, rows, loading, gets, dialog, pending, label,
                   acts, timers, made, sent, changes, switched, cause>>

Polled(on) ==
    poll' = IF ~on /\ poll.out = 1 THEN None ELSE [poll EXCEPT !.out = @ - 1, !.on = on]

\* The workload is ready, or the page gives up: the dialog closes and a timer
\* fetches the list.
PollEnds ==
    /\ poll # None /\ poll.out > 0
    /\ Polled(FALSE)
    /\ timers' = Append(timers, [at |-> poll.at, label |-> poll.label])
    /\ dialog' = IF dialog # None /\ dialog.op.later = "poll" /\ ~dialog.op.early
                 THEN None ELSE dialog
    /\ UNCHANGED <<page, stored, rows, pending, label, acts, made, sent, changes, switched>>
    /\ Rerender(gets, loading, cause)

\* It is not ready yet, or the request failed; a failure after the last retry takes
\* the label away and fetches nothing.
PollGoesOn ==
    /\ poll # None /\ poll.out > 0
    /\ poll.retries <= MaxRetries
    /\ Polled(poll.on)
    /\ UNCHANGED <<page, stored, cluster, filter, rows, loading, gets, dialog, pending, label,
                   acts, timers, made, sent, changes, switched, cause>>

PollGivesUp ==
    /\ poll # None /\ poll.out > 0 /\ poll.retries > MaxRetries
    /\ Polled(FALSE)
    /\ label' = FALSE
    /\ UNCHANGED <<page, stored, rows, dialog, pending, acts, timers, made, sent, changes,
                   switched>>
    /\ Rerender(gets, loading, cause)

-----------------------------------------------------------------------------
Next ==
    \/ StoreFirst \/ OtherTab \/ Adopt
    \/ \E f \in Filters : Narrow(f)
    \/ Press \/ Answer
    \/ \E op \in page.ops : Open(op)
    \/ Dismiss \/ Confirm \/ End
    \/ \E i \in DOMAIN timers : Fire(i)
    \/ Tick \/ PollEnds \/ PollGoesOn \/ PollGivesUp

\* Requests are answered or time out, timers and intervals fire; nobody has to
\* press a button.
Fairness ==
    /\ WF_vars(Answer) /\ WF_vars(End) /\ WF_vars(\E i \in DOMAIN timers : Fire(i))
    /\ WF_vars(Tick) /\ WF_vars(PollEnds \/ PollGoesOn \/ PollGivesUp)

Spec == Init /\ [][Next]_vars /\ Fairness

-----------------------------------------------------------------------------
(* Properties.                                                             *)

TypeOK ==
    /\ page \in Page
    /\ stored \in Clusters \cup {None} /\ cluster \in Clusters \cup {None}
    /\ filter \in Filters
    /\ rows \in [at : Places, seen : Nat] \cup {None}
    /\ loading \in BOOLEAN /\ label \in BOOLEAN /\ switched \in BOOLEAN
    /\ gets \in Seq([at : Places, quiet : BOOLEAN, since : Nat, excuse : Causes \cup {None}])
    /\ dialog \in [op : page.ops, of : Clusters \cup {None}] \cup {None}
    /\ pending \subseteq {op.name : op \in page.ops}
    /\ acts \in Seq([op : page.ops, of : Clusters \cup {None}, to : Places])
    /\ timers \in Seq([at : Places, label : BOOLEAN])
    /\ poll \in Poll \cup {None}
    /\ made \in [Clusters \cup {None} -> Nat]
    /\ sent \in Nat /\ changes \in Nat
    /\ cause \in Causes \cup {None}

\* The skeleton hides the table only while a request runs whose end takes it away
\* (fetchData's `if (!silent)' before and in the finally); only the deployments'
\* page shows it without a request, while no cluster has been chosen.
SkeletonHasRequest ==
    loading => \/ \E i \in DOMAIN gets : ~gets[i].quiet
               \/ page.from = "state" /\ cluster = None

Settled == gets = <<>> /\ acts = <<>> /\ timers = <<>> /\ poll = None

Current == rows # None /\ rows.at = Here /\ rows.seen = made[cluster]

\* When everything has been answered, the table shows the list of the page's
\* cluster and filter with the page's own changes, unless a request failed, an
\* older answer came last, a handler fetched with the cluster or the filter of an
\* earlier render or without the filter, a change was not followed by a fetch, or
\* a request was carried out without an answer.
StaleHasCause == Settled /\ ~Current => cause # None

\* A request about a row goes to the cluster the row was shown for, unless the
\* page reads its cluster anew at each render and another tab has changed it: then
\* opening the dialog renders the page, and the row's name goes to the other cluster.
MisdirectedHasCause ==
    \A i \in DOMAIN acts :
        acts[i].op.row /\ acts[i].of # acts[i].to[1] => page.from = "storage" /\ switched

\* A dialog whose button a flag of the page disables sends one request at a time,
\* though it can be dismissed and opened again meanwhile.
OneAtATime ==
    \A i, j \in DOMAIN acts :
        i # j /\ acts[i].op = acts[j].op => acts[i].op.guard # "flag"

\* While a row shows that an operation is going on, a request, a poll or a timer
\* runs that will take the label away, whatever fails (handleDelete's finally,
\* the timers, the retries of handleRestart).
LabelHasRequest ==
    label => \/ \E i \in DOMAIN acts : acts[i].op.label
             \/ \E i \in DOMAIN timers : timers[i].label
             \/ poll # None /\ poll.label /\ poll.on

=============================================================================
