------------------------------ MODULE Session ------------------------------
(***************************************************************************)
(* Signing in and out of the front end (frontend/src/hooks/useAuth.tsx,    *)
(* lib/api.ts, App.tsx, pages/login, layouts/MainLayout.tsx).  The tabs of *)
(* one browser share the server's session (a cookie) and localStorage;     *)
(* each keeps its own user in React state and learns of the others only by *)
(* storage events and by answers.  An answer is given at one moment and    *)
(* arrives at a later one.  A document that is loaded anew loses the       *)
(* answers on their way to it, and not what it has sent.                   *)
(***************************************************************************)
EXTENDS Integers, FiniteSets

CONSTANTS
    Tabs,
    Users,
    None,
    MaxLogins,  \* bound: login forms sent
    MaxFaults   \* bound: answers lost, sessions expired, pages reloaded by the user

Kinds == {"check", "login", "logout", "call"}

\* What an answer says: yes, without a session (401), no (a wrong password), nothing
\* (no answer came), or who is signed in.
Answers == {"ok", "denied", "refused", "lost"} \cup Users

\* Why a tab may show another user than the session's: the session expired; a
\* request of another tab changed it or emptied localStorage; an answer was lost;
\* an answer came after what has changed it; a document that is gone had asked for the
\* change.
Causes == {"expired", "elsewhere", "unreached", "late", "outlived"}

ASSUME SessionAssumption ==
    /\ None \notin Users \cup Answers \cup {"sent"} \cup Causes
    /\ Users \cap ({"sent", "ok", "denied", "refused", "lost"}) = {}
    /\ MaxLogins \in Nat /\ MaxFaults \in Nat

VARIABLES
    session,  \* the user of the server's session
    stored,   \* localStorage's mrboard_user
    user,     \* the user in each tab's AuthContext
    loading,  \* its loading flag
    at,       \* the route it shows: the login page or another one
    reqs,     \* its requests: "sent", or the answer on its way
    typed,    \* the user name typed in its login form
    left,     \* the sign-ins (by user) and sign-outs (None) that documents now gone have
              \* sent and the server has not carried out: how many of each
    removed,  \* a storage event is on its way to it: mrboard_user was removed
    cause,    \* the last reason for which its user may be another than the session's
    logins, faults

counters == <<logins, faults>>
vars == <<session, stored, user, loading, at, reqs, typed, left, removed, cause,
          counters>>

NoRequests == [k \in Kinds |-> None]

\* AuthProvider's states and its first effect, in a tab that opens a page.
Init ==
    /\ session \in {None} \cup Users
    /\ stored \in {None, session}
    /\ user = [t \in Tabs |-> None]
    /\ loading = [t \in Tabs |-> TRUE]
    /\ at = [t \in Tabs |-> "page"]
    /\ reqs = [t \in Tabs |-> [NoRequests EXCEPT !["check"] = "sent"]]
    /\ typed = [t \in Tabs |-> None]
    /\ left = [u \in Users \cup {None} |-> 0]
    /\ removed = [t \in Tabs |-> FALSE]
    /\ cause = [t \in Tabs |-> None]
    /\ logins = 0 /\ faults = 0

\* ProtectedRoute and the route of the login page.
Route(u, l, where) ==
    IF where = "login" THEN IF u # None THEN "page" ELSE "login"
    ELSE IF ~l /\ u = None THEN "login" ELSE "page"

\* A tab renders with the user u and the flag l, having been sent to `where'.
Render(t, u, l, where) ==
    /\ user' = [user EXCEPT ![t] = u]
    /\ loading' = [loading EXCEPT ![t] = l]
    /\ at' = [at EXCEPT ![t] = Route(u, l, where)]

\* Who is to blame if a tab shows another user than the session's from now on: for t
\* it is why, for the others what happened elsewhere.
Blame(t, why) ==
    cause' = [x \in Tabs |->
                 IF user'[x] = session' THEN None
                 ELSE IF x = t THEN (IF why = None THEN cause[x] ELSE why)
                 ELSE IF session' # session THEN "elsewhere" ELSE cause[x]]

\* localStorage.removeItem('mrboard_user'): every other tab will hear of it.
Forget(t) ==
    /\ stored' = None
    /\ removed' = [x \in Tabs |-> removed[x] \/ (x # t /\ stored # None)]

Answered(t, k) == reqs' = [reqs EXCEPT ![t][k] = None]

-----------------------------------------------------------------------------
(* The server.                                                             *)

Signs(t, k) == IF k = "login" THEN typed[t] ELSE None

\* The logout redirects to /public/login, which answers 401.
Reply(k) ==
    IF k = "logout" \/ (session = None /\ k # "login") THEN "denied"
    ELSE IF k = "check" THEN session ELSE "ok"

\* A request is carried out.
Serve(t, k) ==
    /\ reqs[t][k] = "sent"
    /\ session' = IF k \in {"login", "logout"} THEN Signs(t, k) ELSE session
    /\ reqs' = [reqs EXCEPT ![t][k] = Reply(k)]
    /\ UNCHANGED <<stored, user, loading, at, typed, left, removed, counters>>
    /\ Blame(t, None)

Refuse(t) ==
    /\ reqs[t]["login"] = "sent"
    /\ reqs' = [reqs EXCEPT ![t]["login"] = "refused"]
    /\ UNCHANGED <<session, stored, user, loading, at, typed, left, removed, cause, counters>>

\* No answer comes, whether or not the request was carried out.
Lose(t, k) ==
    /\ reqs[t][k] = "sent" /\ faults < MaxFaults
    /\ faults' = faults + 1
    /\ session' \in IF k \in {"login", "logout"} THEN {session, Signs(t, k)} ELSE {session}
    /\ reqs' = [reqs EXCEPT ![t][k] = "lost"]
    /\ UNCHANGED <<stored, user, loading, at, typed, left, removed, logins>>
    /\ Blame(t, "unreached")

\* A request is carried out whose document is gone: nobody gets the answer.
ServeLeft(u) ==
    /\ left[u] > 0
    /\ left' = [left EXCEPT ![u] = @ - 1]
    /\ session' = u
    /\ cause' = [t \in Tabs |-> IF user[t] = u THEN None
                                ELSE IF session # u THEN "outlived" ELSE cause[t]]
    /\ UNCHANGED <<stored, user, loading, at, reqs, typed, removed, counters>>

Expire ==
    /\ session # None /\ faults < MaxFaults
    /\ faults' = faults + 1
    /\ session' = None
    /\ cause' = [t \in Tabs |-> IF user[t] = None THEN None ELSE "expired"]
    /\ UNCHANGED <<stored, user, loading, at, reqs, typed, left, removed, logins>>

-----------------------------------------------------------------------------
(* Answers.                                                                *)

\* The document is loaded again: every state is new, and the answers on their way to
\* the old one are lost.  What it has sent may be carried out all the same.
Load(t, where) ==
    /\ Render(t, None, TRUE, where)
    /\ left' = [u \in Users \cup {None} |->
                   left[u] + Cardinality({k \in {"login", "logout"} :
                                             reqs[t][k] = "sent" /\ Signs(t, k) = u})]
    /\ reqs' = [reqs EXCEPT ![t] = [NoRequests EXCEPT !["check"] = "sent"]]

\* The 401 of api: on a page, window.location.href = '/login'; on the login page
\* only the request's own error handling runs, which for the session check is to
\* take the user away.
\* Mutant: it goes to the login page in any case.
DeniedAlwaysLoads(t, k) ==
    /\ Forget(t)
    /\ Load(t, "login")
    /\ UNCHANGED <<session, typed, counters>>
    /\ Blame(t, None)

Denied(t, k) ==
    /\ Forget(t)
    /\ IF at[t] = "page" THEN Load(t, "login")
       ELSE /\ Answered(t, k) /\ UNCHANGED left
            /\ IF k = "check" THEN Render(t, None, FALSE, at[t])
               ELSE IF k = "logout" THEN Render(t, None, loading[t], "login")
               ELSE UNCHANGED <<user, loading, at>>
    /\ UNCHANGED <<session, typed, counters>>
    /\ Blame(t, None)

\* checkSession: /public/myinfo knows a user.
\* Mutant: the user in the state is kept when there is one.
FirstChecked(t) ==
    LET u == IF user[t] # None THEN user[t] ELSE reqs[t]["check"]
    IN  /\ Answered(t, "check")
        /\ stored' = u
        /\ Render(t, u, FALSE, at[t])
        /\ UNCHANGED <<session, typed, left, removed, counters>>
        /\ Blame(t, IF u # session THEN cause[t] ELSE None)

Checked(t) ==
    LET u == reqs[t]["check"]
    IN  /\ Answered(t, "check")
        /\ stored' = u
        /\ Render(t, u, FALSE, at[t])
        /\ UNCHANGED <<session, typed, left, removed, counters>>
        /\ Blame(t, IF u # session THEN "late" ELSE None)

\* checkSession without an answer: the user is signed out, in every tab.
\* Mutant: the user in the state stays.
UncheckedKeeps(t) ==
    /\ Answered(t, "check")
    /\ Forget(t)
    /\ Render(t, user[t], FALSE, at[t])
    /\ UNCHANGED <<session, typed, left, counters>>
    /\ Blame(t, "unreached")

Unchecked(t) ==
    /\ Answered(t, "check")
    /\ Forget(t)
    /\ Render(t, None, FALSE, at[t])
    /\ UNCHANGED <<session, typed, left, counters>>
    /\ Blame(t, "unreached")

\* login: the name is the one that was typed.
SignedIn(t) ==
    /\ Answered(t, "login")
    /\ stored' = typed[t]
    /\ Render(t, typed[t], loading[t], "page")
    /\ UNCHANGED <<session, typed, left, removed, counters>>
    /\ Blame(t, "late")

NotSignedIn(t) ==
    /\ Answered(t, "login")
    /\ UNCHANGED <<session, stored, user, loading, at, typed, left, removed, cause, counters>>

\* logout ignores that no answer came.
SignedOut(t) ==
    /\ Answered(t, "logout")
    /\ Forget(t)
    /\ Render(t, None, loading[t], "login")
    /\ UNCHANGED <<session, typed, left, counters>>
    /\ Blame(t, "unreached")

\* A page's own request.
Called(t) ==
    /\ Answered(t, "call")
    /\ UNCHANGED <<session, stored, user, loading, at, typed, left, removed, cause, counters>>

Arrive(t, k) ==
    LET a == reqs[t][k]
    IN  \/ a = "denied" /\ Denied(t, k)
        \/ a \in Users /\ Checked(t)
        \/ a = "lost" /\ k = "check" /\ Unchecked(t)
        \/ a = "ok" /\ k = "login" /\ SignedIn(t)
        \/ a \in {"refused", "lost"} /\ k = "login" /\ NotSignedIn(t)
        \/ a = "lost" /\ k = "logout" /\ SignedOut(t)
        \/ a \in {"ok", "lost"} /\ k = "call" /\ Called(t)

-----------------------------------------------------------------------------
(* The user and the browser.                                               *)

Send(t, k) ==
    /\ reqs[t][k] = None
    /\ reqs' = [reqs EXCEPT ![t][k] = "sent"]

\* The login form: its button is disabled while the request runs.  It is shown
\* even while the session is being checked.
Login(t, u) ==
    /\ at[t] = "login" /\ logins < MaxLogins
    /\ logins' = logins + 1
    /\ Send(t, "login")
    /\ typed' = [typed EXCEPT ![t] = u]
    /\ UNCHANGED <<session, stored, user, loading, at, left, removed, cause, faults>>

\* MainLayout's menu, and any request of a page.  (Bound: one of each at a time.)
Ask(t, k) ==
    /\ k \in {"logout", "call"} /\ at[t] = "page" /\ ~loading[t]
    /\ Send(t, k)
    /\ UNCHANGED <<session, stored, user, loading, at, typed, left, removed, cause, counters>>

Reload(t) ==
    /\ faults < MaxFaults
    /\ faults' = faults + 1
    /\ Load(t, at[t])
    /\ removed' = [removed EXCEPT ![t] = FALSE]
    /\ UNCHANGED <<session, stored, typed, logins>>
    /\ Blame(t, None)

\* onStorage with newValue null.
Hear(t) ==
    /\ removed[t]
    /\ removed' = [removed EXCEPT ![t] = FALSE]
    /\ Render(t, None, loading[t], at[t])
    /\ UNCHANGED <<session, stored, reqs, typed, left, counters>>
    /\ Blame(t, "elsewhere")

\* onFocus.
Focus(t) ==
    /\ stored = None /\ user[t] # None
    /\ Render(t, None, loading[t], at[t])
    /\ UNCHANGED <<session, stored, reqs, typed, left, removed, counters>>
    /\ Blame(t, "elsewhere")

-----------------------------------------------------------------------------
Next ==
    \/ \E t \in Tabs :
          \/ \E k \in Kinds : Serve(t, k) \/ Lose(t, k) \/ Arrive(t, k) \/ Ask(t, k)
          \/ Refuse(t)
          \/ \E u \in Users : Login(t, u)
          \/ Reload(t) \/ Hear(t) \/ Focus(t)
    \/ \E u \in Users \cup {None} : ServeLeft(u)
    \/ Expire

\* The session check is carried out or given up, and its answer arrives.  Nothing is
\* assumed of any other request.
Fairness ==
    \A t \in Tabs : WF_vars(Serve(t, "check") \/ Lose(t, "check")) /\ WF_vars(Arrive(t, "check"))

Spec == Init /\ [][Next]_vars /\ Fairness

-----------------------------------------------------------------------------
(* Properties.                                                             *)

TypeOK ==
    /\ session \in Users \cup {None} /\ stored \in Users \cup {None}
    /\ user \in [Tabs -> Users \cup {None}]
    /\ loading \in [Tabs -> BOOLEAN] /\ removed \in [Tabs -> BOOLEAN]
    /\ at \in [Tabs -> {"login", "page"}]
    /\ reqs \in [Tabs -> [Kinds -> {None, "sent"} \cup Answers]]
    /\ typed \in [Tabs -> Users \cup {None}]
    /\ left \in [Users \cup {None} -> Nat]
    /\ cause \in [Tabs -> Causes \cup {None}]
    /\ logins \in Nat /\ faults \in Nat

\* Signing out in one tab, or learning there that the session is gone, reaches every
\* other: a tab that still has a user after localStorage has been emptied has a
\* storage event on its way.
SignedOutEverywhere == \A t \in Tabs : user[t] # None => stored # None \/ removed[t]

Quiet(t) == reqs[t] = NoRequests /\ ~removed[t]

\* A tab that waits for nothing shows the user whose session its requests use,
\* unless the session expired on the server, another tab signed in or out, an
\* answer was lost, an old answer of the session check came after the change, or a
\* sign-in or sign-out of a document loaded anew was carried out after its check.
IdentityHasCause == \A t \in Tabs : Quiet(t) /\ user[t] # session => cause[t] # None

\* The check of a session ends, though a denied request loads the page again
\* ("prevents infinite reload").
CheckEnds == \A t \in Tabs : loading[t] ~> ~loading[t]

=============================================================================
