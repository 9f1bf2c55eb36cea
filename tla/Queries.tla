------------------------------ MODULE Queries ------------------------------
(***************************************************************************)
(* The parts of the front end that ask for what the user is looking at:    *)
(* charts, logs, traces, the runs of a pipeline, an AI analysis            *)
(* (frontend/src/pages/monitor, log, ai, cicd; hooks/useTraceMetrics.ts).  *)
(* Each sends the values of some inputs - an effect when one of them       *)
(* changes, a button, a timer - and shows the answer.  They differ in what *)
(* they send, what their effect depends on, what an input empties and how  *)
(* they are repeated; a record says so for each (module Views).  Answers   *)
(* arrive in any order, and none says what it was asked with.              *)
(***************************************************************************)
EXTENDS Integers, Sequences, FiniteSets

CONSTANTS
    Queries,    \* the queries checked, records of the form below
    Vals,       \* values of an input
    None,
    MaxGets,    \* bound: requests in flight when a button or a timer sends one
    MaxChanges, \* bound: inputs changed, switches turned, actions on the job
    MaxJob      \* bound: the last state of the job, see Ended

Inputs == {"subject", "filter", "range"}

\* A query:
\*   sends   the inputs the request carries
\*   deps    those whose change sends it
\*   wipes   those whose change empties what is shown
\*   first   it is sent when the page is mounted
\*   button  what sends it: a button, disabled while it loads ("patient") or not
\*           ("free")
\*   auto    a timer sends it: while a switch is on, as long as the rendered job runs
\*           ("ends"), for some time after the page has started the job ("run") or
\*           was mounted ("mount")
\*   delay   the effect waits for 300 ms without a change
\*   spins   each request, or the first one, shows that the page is loading
\*   stuck   an answer with an error code leaves it loading
\*   clears  a failure empties what is shown
\*   memo    the button's handler is the one of the last change of the subject
\*   stream  the request can be aborted until its stream ends; then the handler
\*           goes on and fetches the history
\*   posts   the page tells the server what became of the job: its start, and its
\*           end once it is seen ("both")
Query == [sends: SUBSET Inputs, deps: SUBSET Inputs, wipes: SUBSET Inputs,
          first: BOOLEAN, button: {"none", "free", "patient"},
          auto: {"no", "switch", "ends", "run", "mount"}, delay: BOOLEAN,
          spins: {"each", "first", "never"}, stuck: BOOLEAN, clears: BOOLEAN,
          memo: BOOLEAN, stream: BOOLEAN, posts: {"never", "start", "both"}]

\* Why something else may be shown than what is asked for now: nothing asks again
\* when that input changes; an older answer came last; a request failed; the job
\* went on unwatched; a handler of an earlier render sent the request; the alert was
\* put away while its analysis ran.
Causes == {"unasked", "overtaken", "failed", "unwatched", "closure", "unstopped"}

\* Why the server may be told something else about the job than the page shows:
\* the page never tells its end; a report failed or came late; a start was
\* reported, and the page goes on showing the run before.
Misreports == {"untold", "lost", "reordered", "started"}

Values == [Inputs -> Vals \cup {None}]

\* A stream is sent by nothing but its button; what is polled until a job ends
\* sends no inputs and shows no skeleton for a poll, and only such a page reports
\* an end.
ASSUME QueriesAssumption ==
    /\ Queries \subseteq Query
    /\ \A q \in Queries : /\ q.stream => ~q.first /\ q.deps = {} /\ q.auto = "no"
                          /\ q.auto = "ends" => /\ q.spins # "each" /\ ~q.clears
                                                /\ q.sends = {} /\ q.wipes = {}
                          /\ q.posts = "both" => q.auto = "ends"
    /\ None \notin Vals \cup Causes \cup Misreports \cup Values
    /\ MaxGets \in Nat /\ MaxChanges \in Nat /\ MaxJob \in Nat

VARIABLES
    query,
    want,     \* the inputs' values, None if none has been chosen
    shown,    \* what the page shows, or will when it is rendered: the values it was
              \* asked with and the state of the job it tells, None if it shows nothing
    rendered, \* the status of the job when the page last ran the effect that watches it
    loading,
    gets,     \* the requests in flight, in the order they were sent
    memo,     \* the values as of the last change of the subject
    due,      \* a timeout will send a request with these values
    timer,    \* the interval is running
    job,      \* the state of the job on the server
    acting,   \* a request that starts the job again is in flight
    posts,    \* the reports in flight
    posted,   \* the last report the server got
    changes,
    cause,    \* the last reason for which something else may be shown
    misreport,\* the last reason for which something else may be reported
    orphaned, \* an older handler has dropped the abort controller of a newer one
    eclipsed  \* an end that has stopped the interval was not rendered: another answer
              \* came first

renderVars == <<rendered, eclipsed>>

vars == <<renderVars, query, want, shown, loading, gets, memo, due, timer, job, acting, posts,
          posted, changes, cause, misreport, orphaned>>

\* The job runs and ends in turn; what is not a job has one state.
Ended(n) == n % 2 = 1

\* postStatus: the number of a status, 2 if the job runs.
\* Mutant: the number is 0 at first, and an end by cancelling has none.
ReportedUnset(n) == IF Ended(n) THEN 0 ELSE 2

Reported(n) == IF Ended(n) THEN 1 ELSE 2

Status(s) == IF s = None THEN "none" ELSE IF Ended(s.seen) THEN "ended" ELSE "runs"

\* The next render will find the status changed and run the effect.
RenderDue == query.auto = "ends" /\ shown # None /\ Status(shown) # rendered

HasJob == query.auto \in {"ends", "run", "mount"}

Sent(w) == [i \in Inputs |-> IF i \in query.sends THEN w[i] ELSE None]

Either(why, else) == IF why = None THEN else ELSE why

Without(s, i) == [j \in 1 .. Len(s) - 1 |-> s[IF j < i THEN j ELSE j + 1]]

-----------------------------------------------------------------------------
(* Sending.                                                                *)

\* A stream in flight whose controller is at hand.
Goes(g) == g.held /\ g.stage = "sent"

Running(gs) == \E i \in DOMAIN gs : Goes(gs[i])

\* A request with the values w: a new controller, for a stream.  The finally of a
\* stream that is aborted for it comes just after it and drops it.
New(gs, w, how, why) ==
    [of |-> Sent(w), since |-> job', how |-> how, held |-> query.stream /\ ~Running(gs),
     stage |-> "sent", excuse |-> why]

\* cancelAnalysis: a request that is aborted ends before anything else happens; a
\* handler that fetches the history already does not notice.
\* Mutant: the controller is dropped and not told.
Drop(gs) == [i \in DOMAIN gs |-> [gs[i] EXCEPT !.held = FALSE]]

Abort(gs) ==
    Drop(IF Running(gs) THEN Without(gs, CHOOSE i \in DOMAIN gs : Goes(gs[i])) ELSE gs)

\* Mutant: a request in flight is taken for this one.
AskAlone(gs, w, how, why) ==
    IF gs # <<>> /\ ~query.stream THEN gs
    ELSE Append(IF query.stream THEN Abort(gs) ELSE gs, New(gs, w, how, why))

Ask(gs, w, how, why) ==
    Append(IF query.stream THEN Abort(gs) ELSE gs, New(gs, w, how, why))

\* Whether a request that is repeated shows that the page is loading.
Loud == query.spins = "each"
How  == IF Loud THEN "loud" ELSE "quiet"

\* What the button or a timeout does to the flags.  So does that finally.
Asked ==
    /\ loading' = (~Running(gets) /\ (loading \/ Loud))
    /\ orphaned' = (orphaned \/ Running(gets))

\* Every request in gs that asks for something else now has a reason to.
Excuse(gs, w, why) ==
    [i \in DOMAIN gs |-> IF gs[i].of = Sent(w) THEN gs[i]
                         ELSE [gs[i] EXCEPT !.excuse = Either(@, why)]]

Start(w) ==
    /\ want = w
    /\ shown = None /\ rendered = "none" /\ eclipsed = FALSE
    /\ acting = FALSE /\ posts = <<>> /\ changes = 0
    /\ memo = w
    /\ job \in IF HasJob THEN {0, 1} ELSE {0}
    /\ posted = Reported(job)
    /\ timer = (query.auto = "mount")
    /\ due = IF query.first /\ query.delay THEN Sent(w) ELSE None
    /\ gets = IF query.first /\ ~query.delay
              THEN <<[of |-> Sent(w), since |-> job, held |-> FALSE, stage |-> "sent",
                      how |-> IF query.spins = "never" THEN "quiet" ELSE "loud",
                      excuse |-> None]>>
              ELSE <<>>
    /\ loading = (gets # <<>> /\ query.spins # "never")
    /\ cause = None /\ orphaned = FALSE
    /\ misreport = IF query.posts = "start" /\ ~Ended(job) THEN "untold" ELSE None

\* useState and the first effect.
Init ==
    /\ query \in Queries
    /\ \E v \in Vals : Start([i \in Inputs |->
                                 IF i = "subject" /\ ~query.first THEN None ELSE v])

-----------------------------------------------------------------------------
(* The user.                                                               *)

Count == changes < MaxChanges /\ changes' = changes + 1

Ready(w) == w["subject"] # None \/ "subject" \notin query.sends

\* A value is chosen.  What the change empties also stops what was going on:
\* selectNamespace turns the switch off, handleSelectAlert aborts the analysis and
\* shows the last one of the alert, if there is one.
Change(i, v) ==
    LET w     == [want EXCEPT ![i] = v]
        wiped == i \in query.wipes
        kept  == IF wiped /\ query.stream THEN Abort(gets) ELSE gets
        asks  == i \in query.deps /\ Ready(w)
        left  == IF asks THEN kept ELSE Excuse(kept, w, "unasked")
    IN  /\ i \in query.sends /\ v # want[i] /\ Count
        /\ want' = w
        /\ memo' = IF query.memo /\ i # "subject" THEN memo ELSE w
        /\ shown' \in IF ~wiped THEN {shown}
                      ELSE {None} \cup (IF query.stream THEN {[of |-> Sent(w), seen |-> 0]} ELSE {})
        /\ timer' = (timer /\ ~wiped)
        /\ UNCHANGED <<renderVars, query, job, acting, posts, posted, misreport,
                       orphaned>>
        /\ due' = IF asks /\ query.delay THEN Sent(w) ELSE due
        /\ gets' = IF asks /\ ~query.delay THEN Ask(left, w, How, None) ELSE left
        /\ loading' = IF wiped /\ query.stream THEN FALSE
                      ELSE loading \/ (asks /\ ~query.delay /\ Loud)
        /\ cause' = IF asks THEN cause ELSE "unasked"

\* "新建分析" puts the alert and the report away and stops nothing.
PutAway ==
    /\ query.stream /\ want["subject"] # None /\ Count
    /\ want' = [want EXCEPT !["subject"] = None]
    /\ memo' = want'
    /\ shown' = None
    /\ gets' = Excuse(gets, want', "unstopped")
    /\ UNCHANGED <<renderVars, query, loading, due, timer, job, acting, posts, posted,
                   cause, misreport, orphaned>>

\* The button: its handler sends the values of the last render.
Press ==
    LET w == IF query.memo THEN memo ELSE want
    IN  /\ query.button # "none" /\ Ready(w) /\ Len(gets) < MaxGets
        /\ query.button = "patient" => ~loading
        /\ query.stream => shown = None
        /\ UNCHANGED <<renderVars, query, want, shown, memo, due, timer, job, acting,
                       posts, posted, changes, cause, misreport>>
        /\ gets' = Ask(gets, w, How, IF w = want THEN None ELSE "closure")
        /\ Asked

\* handleReanalyze: everything is emptied, and the handler of this render sends the
\* request 50 ms later.
Again ==
    /\ query.stream /\ shown # None /\ ~loading /\ want["subject"] # None /\ Count
    /\ shown' = None
    /\ gets' = Abort(gets)
    /\ due' = Sent(want)
    /\ UNCHANGED <<renderVars, query, want, loading, memo, timer, job, acting, posts,
                   posted, cause, misreport, orphaned>>

\* setTimeout.
Due ==
    /\ due # None
    /\ due' = None
    /\ UNCHANGED <<renderVars, query, want, memo, timer, job, acting, posts, posted,
                   changes, cause, misreport>>
    /\ shown' = IF query.stream THEN None ELSE shown
    /\ gets' = Ask(gets, due, How, IF due = Sent(want) THEN None ELSE "closure")
    /\ Asked

Switch ==
    /\ query.auto = "switch" /\ Ready(want) /\ Count
    /\ timer' = ~timer
    /\ UNCHANGED <<renderVars, query, want, shown, loading, gets, memo, due, job, acting,
                   posts, posted, cause, misreport, orphaned>>

-----------------------------------------------------------------------------
(* Timers and the job.                                                     *)

\* setInterval, whether or not the request before has been answered.  (Bound: a
\* poll more than MaxGets is not told from the ones before.)
Tick ==
    /\ timer /\ Len(gets) < MaxGets
    /\ UNCHANGED <<renderVars, query, want, shown, memo, due, timer, job, acting, posts,
                   posted, changes, cause, misreport, orphaned>>
    /\ gets' = Ask(gets, want, IF query.auto = "ends" THEN "poll" ELSE How, None)
    /\ loading' = (loading \/ Loud)

\* The polls of a build last five minutes, those of a log one hour.
TimeLimit ==
    /\ query.auto \in {"run", "mount"} /\ timer
    /\ timer' = FALSE
    /\ cause' = "unwatched"
    /\ UNCHANGED <<renderVars, query, want, shown, loading, gets, memo, due, job, acting,
                   posts, posted, changes, misreport, orphaned>>

\* The job ends on the server, or somebody else starts it again.
Proceed ==
    /\ HasJob /\ job < MaxJob
    /\ job' = job + 1
    /\ cause' = IF timer /\ ~RenderDue THEN cause ELSE "unwatched"
    /\ gets' = [i \in DOMAIN gets |-> [gets[i] EXCEPT !.excuse = Either(@, "unwatched")]]
    /\ UNCHANGED <<renderVars, query, want, shown, loading, memo, due, timer, acting,
                   posts, posted, changes, misreport, orphaned>>

\* Retry, pass, skip, stop or start.
Act ==
    /\ query.auto \in {"ends", "run"} /\ shown # None /\ ~acting /\ Count
    /\ query.auto = "ends" => rendered # "none"
    /\ acting' = TRUE
    /\ UNCHANGED <<renderVars, query, want, shown, loading, gets, memo, due, timer, job,
                   posts, posted, cause, misreport, orphaned>>

\* The action is done, and may have started the job again: the page fetches it.  A
\* Jenkins page is told the number of the new build, and reports the start.
Acted ==
    /\ acting /\ acting' = FALSE
    /\ job' \in (IF query.auto = "ends" THEN {job} ELSE {})
              \cup (IF Ended(job) /\ job < MaxJob THEN {job + 1} ELSE {})
    /\ timer' = (timer \/ query.auto = "run")
    /\ gets' = Ask(gets, want, "quiet", None)
    /\ posts' = IF query.posts = "start" THEN Append(posts, Reported(job')) ELSE posts
    /\ misreport' = IF query.posts = "start" THEN "untold" ELSE misreport
    /\ UNCHANGED <<renderVars, query, want, shown, loading, memo, due, posted, changes,
                   cause, orphaned>>

\* handleStart of a pipeline: another run has been started, which the page lists but
\* does not turn to.
Elsewhere ==
    /\ acting /\ acting' = FALSE /\ query.posts = "both"
    /\ posts' = Append(posts, 2)
    /\ misreport' = "started"
    /\ UNCHANGED <<renderVars, query, want, shown, loading, gets, memo, due, timer, job,
                   posted, changes, cause, orphaned>>

NotActed ==
    /\ acting /\ acting' = FALSE
    /\ UNCHANGED <<renderVars, query, want, shown, loading, gets, memo, due, timer, job,
                   posts, posted, changes, cause, misreport, orphaned>>

-----------------------------------------------------------------------------
(* Answers.                                                                *)

\* Those in flight that were sent before the i-th can only bring something older.
Rest(i) ==
    Without([j \in DOMAIN gets |-> IF j < i THEN [gets[j] EXCEPT !.excuse = Either(@, "overtaken")]
                                   ELSE gets[j]], i)

\* setLoading(false) in the finally of any request that had shown it.
LoadingAfter(i) == loading /\ gets[i].how # "loud"

\* The then of a poll that says that the job does not run: it reports so, and
\* stops the interval there is.
Then(to, g) ==
    LET ends == query.auto = "ends" /\ g.how = "poll" /\ Ended(to.seen)
    IN  /\ timer' = (timer /\ ~ends)
        /\ posts' = IF ends /\ query.posts = "both" THEN Append(posts, Reported(to.seen))
                    ELSE posts

\* What is shown from now on.  Where it decides whether to poll, it is rendered
\* later, and several answers may come before.
Show(to, g) ==
    /\ shown' = to
    /\ cause' = IF to.of = Sent(want) /\ to.seen = job THEN None ELSE Either(g.excuse, cause)
    /\ Then(to, g)
    /\ eclipsed' = (eclipsed \/ (RenderDue /\ rendered = "runs" /\ ~timer /\ ~Ended(to.seen)))
    /\ UNCHANGED rendered

\* Mutant: only the first effect reports.
RenderedFirst(was, s) ==
    IF query.posts = "both" /\ Ended(s.seen) /\ was = "none"
    THEN Append(posts, Reported(s.seen)) ELSE posts

\* The effect reports that the job does not run, though a poll may have done so.
Rendered(was, s) ==
    IF query.posts = "both" /\ Ended(s.seen) THEN Append(posts, Reported(s.seen)) ELSE posts

\* Mutant: the interval is set up by the first effect only.
RenderOnce ==
    /\ RenderDue
    /\ rendered' = Status(shown)
    /\ timer' = (rendered = "none" /\ ~Ended(shown.seen))
    /\ eclipsed' = FALSE
    /\ posts' = Rendered(rendered, shown)
    /\ UNCHANGED <<query, want, shown, loading, gets, memo, due, job, acting, posted,
                   changes, cause, misreport, orphaned>>

\* The page is rendered and the status is another than before: the effect stops
\* the interval and sets one up if the job runs.
Render ==
    /\ RenderDue
    /\ rendered' = Status(shown)
    /\ timer' = ~Ended(shown.seen)
    /\ eclipsed' = FALSE
    /\ posts' = Rendered(rendered, shown)
    /\ UNCHANGED <<query, want, shown, loading, gets, memo, due, job, acting, posted,
                   changes, cause, misreport, orphaned>>

\* An answer arrives.  It tells a state the job was in since the request was sent.
Answered(i) ==
    LET g == gets[i]
    IN  /\ ~query.stream
        /\ \E n \in g.since .. job : Show([of |-> g.of, seen |-> n], g)
        /\ gets' = Rest(i)
        /\ loading' = LoadingAfter(i)
        /\ UNCHANGED <<query, want, memo, due, job, acting, posted, changes, misreport,
                       orphaned>>

\* A stream ends, with a report or without; the handler goes on to fetch the history.
Streamed(i) ==
    LET g == gets[i]
    IN  /\ query.stream /\ g.stage = "sent"
        /\ \/ /\ Show([of |-> g.of, seen |-> 0], g)
              /\ gets' = [gets EXCEPT ![i].stage = "reported"]
           \/ /\ gets' = [gets EXCEPT ![i].stage = "empty"]
              /\ UNCHANGED <<renderVars, shown, timer, cause, posts>>
        /\ UNCHANGED <<query, want, loading, memo, due, job, acting, posted, changes,
                       misreport, orphaned>>

\* The finally of a stream's handler drops whatever controller there is.
Finally(i) ==
    /\ gets' = IF query.stream THEN Drop(Rest(i)) ELSE Rest(i)
    /\ loading' = LoadingAfter(i)
    /\ orphaned' = (orphaned \/ \E j \in DOMAIN gets :
                                   j # i /\ Goes(gets[j]))

\* The history has been fetched.  Without a report the handler shows the last
\* analysis of its alert, if the history it knew had one.
Finished(i) ==
    LET g == gets[i]
    IN  /\ query.stream /\ g.stage # "sent"
        /\ \/ UNCHANGED <<renderVars, shown, timer, cause, posts>>
           \/ g.stage = "empty" /\ Show([of |-> g.of, seen |-> 0], g)
        /\ Finally(i)
        /\ UNCHANGED <<query, want, memo, due, job, acting, posted, changes, misreport>>

\* A request fails, or is answered with an error code: a toast.
\* Mutant: setLoading(false) at the end of the try block.
UnansweredInTry(i) ==
    /\ gets[i].stage = "sent"
    /\ shown' = IF query.clears THEN None ELSE shown
    /\ gets' = Rest(i)
    /\ cause' = "failed"
    /\ UNCHANGED <<renderVars, query, want, loading, memo, due, timer, job, acting, posts,
                   posted, changes, misreport, orphaned>>

Unanswered(i) ==
    /\ gets[i].stage = "sent"
    /\ shown' = IF query.clears THEN None ELSE shown
    /\ Finally(i)
    /\ cause' = "failed"
    /\ UNCHANGED <<renderVars, query, want, memo, due, timer, job, acting, posts, posted,
                   changes, misreport>>

\* fetchMetricData: nothing is done about an error code.
Stuck(i) ==
    /\ query.stuck
    /\ gets' = Rest(i)
    /\ cause' = "failed"
    /\ UNCHANGED <<renderVars, query, want, shown, loading, memo, due, timer, job, acting,
                   posts, posted, changes, misreport, orphaned>>

Answer(i) == Answered(i) \/ Streamed(i) \/ Finished(i)

-----------------------------------------------------------------------------
(* Reports.                                                                *)

\* PostStatus is not awaited: reports are carried out in any order, or fail.
Told(i) ==
    /\ posted' = posts[i]
    /\ posts' = Without(posts, i)
    /\ misreport' = IF posts' # <<>> THEN "reordered"
                    ELSE IF /\ query.posts = "both" /\ shown # None /\ ~RenderDue
                            /\ posted' = Reported(shown.seen)
                    THEN None
                    ELSE misreport
    /\ UNCHANGED <<renderVars, query, want, shown, loading, gets, memo, due, timer, job,
                   acting, changes, cause, orphaned>>

Untold(i) ==
    /\ posts' = Without(posts, i)
    /\ misreport' = "lost"
    /\ UNCHANGED <<renderVars, query, want, shown, loading, gets, memo, due, timer, job,
                   acting, posted, changes, cause, orphaned>>

-----------------------------------------------------------------------------
Next ==
    \/ \E i \in Inputs, v \in Vals : Change(i, v)
    \/ PutAway \/ Press \/ Again \/ Due \/ Switch
    \/ Tick \/ TimeLimit \/ Proceed \/ Act \/ Acted \/ Elsewhere \/ NotActed
    \/ Render
    \/ \E i \in DOMAIN gets : Answer(i) \/ Unanswered(i) \/ Stuck(i)
    \/ \E i \in DOMAIN posts : Told(i) \/ Untold(i)

\* Timers fire, a page is rendered, and a server that is asked again and again
\* answers in the end.
Fairness ==
    /\ WF_vars(Tick) /\ WF_vars(Due) /\ WF_vars(Render)
    /\ SF_vars(\E i \in DOMAIN gets : Answer(i))

Spec == Init /\ [][Next]_vars /\ Fairness

-----------------------------------------------------------------------------
(* Properties.                                                             *)

Request == [of: Values, since: Nat, how: {"loud", "quiet", "poll"}, held: BOOLEAN,
            stage: {"sent", "reported", "empty"}, excuse: Causes \cup {None}]

TypeOK ==
    /\ query \in Query
    /\ want \in Values /\ memo \in Values
    /\ shown \in [of: Values, seen: Nat] \cup {None}
    /\ loading \in BOOLEAN /\ timer \in BOOLEAN /\ acting \in BOOLEAN /\ orphaned \in BOOLEAN
    /\ rendered \in {"none", "runs", "ended"} /\ eclipsed \in BOOLEAN
    /\ gets \in Seq(Request)
    /\ due \in Values \cup {None}
    /\ job \in Nat /\ changes \in Nat
    /\ posts \in Seq({1, 2}) /\ posted \in {1, 2}
    /\ cause \in Causes \cup {None} /\ misreport \in Misreports \cup {None}

\* The page says that it is loading only while a request runs whose end takes that
\* away; only a metric's card goes on loading after an answer with an error code.
LoadingHasRequest == loading => query.stuck \/ \E i \in DOMAIN gets : gets[i].how = "loud"

Waiting == gets # <<>> \/ due # None \/ timer

\* When nothing is on its way and no timer runs, what is shown was asked with the
\* present values and tells the job's present state, unless a value has changed
\* that asks for nothing, an older answer came last, a request failed, the job went
\* on unwatched, or an analysis was started again and another alert chosen.
StaleHasCause ==
    ~Waiting /\ shown # None /\ shown # [of |-> Sent(want), seen |-> job] => cause # None

\* An analysis is given up when another one is started or another alert chosen:
\* two run at once only after the end of an earlier one, by itself or by being given
\* up, has dropped the controller of a later one.
OneAnalysis ==
    \A i, j \in DOMAIN gets : i # j /\ gets[i].stage = "sent" /\ gets[j].stage = "sent"
                                  /\ query.stream => orphaned

\* When all reports have been carried out, the server has been told what the page
\* shows of the job, unless it is a Jenkins build, whose end is never told, a
\* report failed or was overtaken, a further run was started, or the page showed
\* an older state.
ReportHasCause ==
    /\ query.posts # "never" /\ shown # None /\ Ended(shown.seen) /\ ~RenderDue
    /\ gets = <<>> /\ posts = <<>> /\ posted = 2
    => misreport # None

\* A page that shows a pipeline as running comes to show that it has ended, as long
\* as the polls are answered now and then and however they overtake each other,
\* but for one case: a poll has stopped the interval for the end, and an older
\* answer that says that the job runs comes before the end is rendered.
EndIsShown ==
    \A n \in 1 .. MaxJob :
        (rendered = "runs" /\ job = n /\ Ended(n))
            ~> (job # n \/ rendered = "ended" \/ eclipsed)

=============================================================================
