---------------------------- MODULE SessionProofs ----------------------------
(***************************************************************************)
(* Session, proved for any number of tabs, users, logins and faults.       *)
(***************************************************************************)
EXTENDS Session, FiniteSetTheorems, TLAPS

\* The login page is shown to nobody who is signed in.
LoginShowsNobody == \A t \in Tabs : at[t] = "login" => user[t] = None

\* A login form was filled in before it was sent, and only the session check is
\* answered with a user.
AnswersOK ==
    \A t \in Tabs :
        /\ reqs[t]["login"] # None => typed[t] # None
        /\ \A k \in Kinds : reqs[t][k] \in Users => k = "check"

\* What is on its way to a tab and will set it right, or say why it cannot be: the
\* session check, the answer to its own login, a 401 on a page.
Awaits(t) ==
    \/ reqs[t]["check"] \in {"sent"} \cup Users
    \/ reqs[t]["login"] = "ok"
    \/ at[t] = "page" /\ (reqs[t]["check"] = "denied" \/ reqs[t]["logout"] = "denied")

\* IdentityHasCause, said of every tab: it holds of a tab that waits for nothing
\* because a tab without a cause waits for one of these.
MistakenAwaits ==
    \A t \in Tabs : user[t] # session /\ cause[t] = None => Awaits(t)

IInv == TypeOK /\ LoginShowsNobody /\ AnswersOK /\ SignedOutEverywhere /\ MistakenAwaits

-----------------------------------------------------------------------------
LEMMA InitIInv == Init => IInv
BY SessionAssumption
   DEF Init, IInv, TypeOK, LoginShowsNobody, AnswersOK, SignedOutEverywhere, MistakenAwaits,
       Awaits, NoRequests, Kinds, Answers, Causes

\* A render shows the login page only without a user.
LEMMA RenderOK ==
    ASSUME TypeOK, LoginShowsNobody,
           NEW t \in Tabs, NEW u \in Users \cup {None}, NEW l \in BOOLEAN,
           NEW where \in {"login", "page"}, Render(t, u, l, where)
    PROVE  /\ user' \in [Tabs -> Users \cup {None}] /\ user'[t] = u
           /\ loading' \in [Tabs -> BOOLEAN] /\ loading'[t] = l
           /\ at' \in [Tabs -> {"login", "page"}]
           /\ \A x \in Tabs \ {t} : user'[x] = user[x] /\ at'[x] = at[x]
           /\ LoginShowsNobody'
           /\ where = "page" /\ l => at'[t] = "page"
BY DEF Render, Route, TypeOK, LoginShowsNobody

\* Blame leaves a cause to every tab that shows another user, but to one that did
\* before and to t when nothing is blamed.
LEMMA BlameOK ==
    ASSUME TypeOK, NEW t \in Tabs, NEW why \in Causes \cup {None}, Blame(t, why)
    PROVE  /\ cause' \in [Tabs -> Causes \cup {None}]
           /\ user'[t] # session' /\ cause'[t] = None => why = None /\ cause[t] = None
           /\ \A x \in Tabs \ {t} :
                 user'[x] # session' /\ cause'[x] = None => session' = session /\ cause[x] = None
BY SessionAssumption DEF Blame, TypeOK, Causes

LEMMA ForgetOK ==
    ASSUME TypeOK, NEW t \in Tabs, Forget(t)
    PROVE  /\ stored' = None /\ removed' \in [Tabs -> BOOLEAN]
           /\ \A x \in Tabs \ {t} : stored # None \/ removed[x] => removed'[x]
BY DEF Forget, TypeOK

LEMMA AnsweredOK ==
    ASSUME TypeOK, AnswersOK, NEW t \in Tabs, NEW k \in Kinds, Answered(t, k), typed' = typed
    PROVE  /\ reqs' \in [Tabs -> [Kinds -> {None, "sent"} \cup Answers]]
           /\ reqs'[t][k] = None
           /\ \A j \in Kinds \ {k} : reqs'[t][j] = reqs[t][j]
           /\ \A x \in Tabs \ {t} : reqs'[x] = reqs[x]
           /\ AnswersOK'
BY SessionAssumption DEF Answered, TypeOK, AnswersOK

\* What a document that is gone has sent is counted.
LEMMA LeftOK ==
    ASSUME TypeOK, NEW t \in Tabs, NEW where, Load(t, where)
    PROVE  left' \in [Users \cup {None} -> Nat]
<1> DEFINE gone(u) == {k \in {"login", "logout"} : reqs[t][k] = "sent" /\ Signs(t, k) = u}
<1>1. IsFiniteSet({"login"} \cup {"logout"})
  BY FS_Singleton, FS_Union
<1>2. \A u \in Users \cup {None} : gone(u) \in SUBSET ({"login"} \cup {"logout"})
  OBVIOUS
<1>3. \A u \in Users \cup {None} : Cardinality(gone(u)) \in Nat
  BY <1>1, <1>2, FS_Subset, FS_CardinalityType
<1>4. left' = [u \in Users \cup {None} |-> left[u] + Cardinality(gone(u))]
  BY DEF Load
<1> HIDE DEF gone
<1> QED
  BY <1>3, <1>4 DEF TypeOK

\* A document that is loaded: nobody yet, and the session check is sent.
LEMMA LoadOK ==
    ASSUME IInv, NEW t \in Tabs, NEW where \in {"login", "page"}, Load(t, where),
           typed' = typed
    PROVE  /\ reqs' \in [Tabs -> [Kinds -> {None, "sent"} \cup Answers]]
           /\ reqs'[t]["check"] = "sent" /\ user'[t] = None
           /\ \A x \in Tabs \ {t} : reqs'[x] = reqs[x]
           /\ AnswersOK'
<1> DEFINE new == [NoRequests EXCEPT !["check"] = "sent"]
<1>1. /\ new \in [Kinds -> {None, "sent"}] /\ new["check"] = "sent"
      /\ \A k \in Kinds \ {"check"} : new[k] = None
  BY DEF NoRequests, Kinds
<1>2. reqs' = [reqs EXCEPT ![t] = new]
  BY DEF Load
<1> HIDE DEF new
<1>3. user'[t] = None
  BY RenderOK DEF Load, IInv
<1>4. reqs' \in [Tabs -> [Kinds -> {None, "sent"} \cup Answers]]
  BY <1>1, <1>2 DEF IInv, TypeOK
<1>5. "login" \in Kinds /\ {None, "sent"} \cap Users = {}
  BY SessionAssumption DEF Kinds
<1>6. AnswersOK'
  BY <1>1, <1>2, <1>5 DEF IInv, TypeOK, AnswersOK
<1> QED
  BY <1>1, <1>2, <1>3, <1>4, <1>6 DEF IInv, TypeOK, Kinds

-----------------------------------------------------------------------------
(* One lemma for each action.                                              *)

LEMMA ServeStep ==
    ASSUME IInv, NEW t \in Tabs, NEW k \in Kinds, Serve(t, k)
    PROVE  IInv'
<1> DEFINE a == Reply(k)
<1>1. /\ reqs[t][k] = "sent" /\ reqs' = [reqs EXCEPT ![t][k] = a]
      /\ UNCHANGED <<stored, user, loading, at, typed, left, removed, counters>>
      /\ Blame(t, None)
  BY DEF Serve
<1>2. /\ a \in Answers /\ a # None
      /\ a \in Users => k = "check"
      /\ k = "login" => a = "ok"
      /\ k = "logout" => a = "denied"
      /\ k = "check" => a \in Users \/ (a = "denied" /\ session = None)
  BY SessionAssumption DEF IInv, TypeOK, Kinds, Answers, Reply
<1>3. session' \in Users \cup {None}
      /\ (k \notin {"login", "logout"} => session' = session)
      /\ (k = "logout" => session' = None)
  BY SessionAssumption DEF Serve, Signs, IInv, TypeOK
<1> HIDE DEF a
<1>4. reqs' \in [Tabs -> [Kinds -> {None, "sent"} \cup Answers]]
  BY <1>1, <1>2 DEF IInv, TypeOK
<1>5. TypeOK'
  BY <1>1, <1>3, <1>4, BlameOK DEF IInv, TypeOK, counters
<1>6. LoginShowsNobody' /\ SignedOutEverywhere'
  BY <1>1 DEF IInv, LoginShowsNobody, SignedOutEverywhere
<1>7. AnswersOK'
  BY <1>1, <1>2, SessionAssumption DEF IInv, TypeOK, AnswersOK, Kinds
<1>8. ASSUME NEW x \in Tabs, user'[x] # session', cause'[x] = None
      PROVE  Awaits(x)'
  <2>1. CASE x # t
    BY <1>1, <1>8, <2>1, BlameOK DEF IInv, TypeOK, MistakenAwaits, Awaits
  <2>2. CASE x = t
    <3>1. CASE k = "login"
      BY <1>1, <1>2, <2>2, <3>1 DEF IInv, TypeOK, Awaits, Kinds
    <3>2. CASE k = "logout"
      BY <1>1, <1>2, <1>3, <1>8, <2>2, <3>2 DEF IInv, TypeOK, Awaits, Kinds, LoginShowsNobody
    <3>3. CASE k = "check"
      BY <1>1, <1>2, <1>3, <1>8, <2>2, <3>3 DEF IInv, TypeOK, Awaits, Kinds, LoginShowsNobody
    <3>4. CASE k = "call"
      <4>1. user[t] # session /\ cause[t] = None
        BY <1>1, <1>3, <1>8, <2>2, <3>4, BlameOK DEF IInv
      <4>2. Awaits(t)
        BY <4>1 DEF IInv, MistakenAwaits
      <4> QED
        BY <1>1, <2>2, <3>4, <4>2 DEF IInv, TypeOK, Awaits, Kinds
    <3> QED
      BY <3>1, <3>2, <3>3, <3>4 DEF Kinds
  <2> QED
    BY <2>1, <2>2
<1> QED
  BY <1>5, <1>6, <1>7, <1>8 DEF IInv, MistakenAwaits

LEMMA RefuseStep ==
    ASSUME IInv, NEW t \in Tabs, Refuse(t)
    PROVE  IInv'
<1>1. /\ reqs[t]["login"] = "sent" /\ reqs' = [reqs EXCEPT ![t]["login"] = "refused"]
      /\ UNCHANGED <<session, stored, user, loading, at, typed, left, removed, cause, counters>>
  BY DEF Refuse
<1>2. "refused" \in Answers /\ "refused" \notin Users /\ "login" \in Kinds
  BY SessionAssumption DEF Answers, Kinds
<1>3. TypeOK'
  BY <1>1, <1>2 DEF IInv, TypeOK, counters
<1>4. LoginShowsNobody' /\ SignedOutEverywhere'
  BY <1>1 DEF IInv, LoginShowsNobody, SignedOutEverywhere
<1>5. AnswersOK'
  BY <1>1, <1>2, SessionAssumption DEF IInv, TypeOK, AnswersOK
<1>6. MistakenAwaits'
  BY <1>1, <1>2 DEF IInv, TypeOK, MistakenAwaits, Awaits, Kinds
<1> QED
  BY <1>3, <1>4, <1>5, <1>6 DEF IInv

LEMMA LoseStep ==
    ASSUME IInv, NEW t \in Tabs, NEW k \in Kinds, Lose(t, k)
    PROVE  IInv'
<1>1. /\ reqs[t][k] = "sent" /\ reqs' = [reqs EXCEPT ![t][k] = "lost"]
      /\ UNCHANGED <<stored, user, loading, at, typed, left, removed, logins>>
      /\ faults' = faults + 1
      /\ Blame(t, "unreached")
  BY DEF Lose
<1>2. session' \in Users \cup {None}
  BY DEF Lose, Signs, IInv, TypeOK
<1>3. "lost" \in Answers /\ "lost" \notin Users /\ "unreached" \in Causes \cup {None}
      /\ "unreached" # None /\ "lost" # None
  BY SessionAssumption DEF Answers, Causes
<1>4. TypeOK'
  BY <1>1, <1>2, <1>3, BlameOK DEF IInv, TypeOK
<1>5. LoginShowsNobody' /\ SignedOutEverywhere'
  BY <1>1 DEF IInv, LoginShowsNobody, SignedOutEverywhere
<1>6. AnswersOK'
  BY <1>1, <1>3, SessionAssumption DEF IInv, TypeOK, AnswersOK, Kinds
<1>7. ASSUME NEW x \in Tabs, user'[x] # session', cause'[x] = None
      PROVE  Awaits(x)'
  <2>1. x # t /\ session' = session /\ cause[x] = None
    BY <1>1, <1>3, <1>7, BlameOK DEF IInv
  <2> QED
    BY <1>1, <1>7, <2>1 DEF IInv, TypeOK, MistakenAwaits, Awaits
<1> QED
  BY <1>4, <1>5, <1>6, <1>7 DEF IInv, MistakenAwaits

LEMMA ExpireStep ==
    ASSUME IInv, Expire
    PROVE  IInv'
<1>1. /\ session' = None /\ faults' = faults + 1
      /\ UNCHANGED <<stored, user, loading, at, reqs, typed, left, removed, logins>>
      /\ cause' = [t \in Tabs |-> IF user[t] = None THEN None ELSE "expired"]
  BY DEF Expire
<1>2. "expired" \in Causes /\ "expired" # None
  BY SessionAssumption DEF Causes
<1>3. TypeOK'
  BY <1>1, <1>2 DEF IInv, TypeOK
<1>4. LoginShowsNobody' /\ SignedOutEverywhere' /\ AnswersOK'
  BY <1>1 DEF IInv, LoginShowsNobody, SignedOutEverywhere, AnswersOK
<1>5. MistakenAwaits'
  BY <1>1, <1>2 DEF MistakenAwaits
<1> QED
  BY <1>3, <1>4, <1>5 DEF IInv

LEMMA ServeLeftStep ==
    ASSUME IInv, NEW u \in Users \cup {None}, ServeLeft(u)
    PROVE  IInv'
<1>1. /\ left[u] > 0 /\ left' = [left EXCEPT ![u] = @ - 1]
      /\ session' = u
      /\ UNCHANGED <<stored, user, loading, at, reqs, typed, removed, counters>>
      /\ cause' = [t \in Tabs |-> IF user[t] = u THEN None
                                  ELSE IF session # u THEN "outlived" ELSE cause[t]]
  BY DEF ServeLeft
<1>2. "outlived" \in Causes /\ "outlived" # None
  BY SessionAssumption DEF Causes
<1>3. left' \in [Users \cup {None} -> Nat]
  BY <1>1 DEF IInv, TypeOK
<1>4. TypeOK'
  BY <1>1, <1>2, <1>3 DEF IInv, TypeOK, counters
<1>5. LoginShowsNobody' /\ SignedOutEverywhere' /\ AnswersOK'
  BY <1>1 DEF IInv, LoginShowsNobody, SignedOutEverywhere, AnswersOK
<1>6. MistakenAwaits'
  BY <1>1, <1>2 DEF IInv, MistakenAwaits, Awaits
<1> QED
  BY <1>4, <1>5, <1>6 DEF IInv

\* Whatever ends in a render with a blame other than none, or with a new session
\* check, keeps MistakenAwaits: the other tabs are as they were.
LEMMA OthersAwait ==
    ASSUME IInv, NEW t \in Tabs, NEW why \in Causes \cup {None}, Blame(t, why),
           \A x \in Tabs \ {t} : user'[x] = user[x] /\ at'[x] = at[x] /\ reqs'[x] = reqs[x],
           why # None \/ reqs'[t]["check"] = "sent"
    PROVE  MistakenAwaits'
<1> SUFFICES ASSUME NEW x \in Tabs, user'[x] # session', cause'[x] = None
             PROVE  Awaits(x)'
  BY DEF MistakenAwaits
<1>1. CASE x = t
  BY <1>1, BlameOK DEF IInv, Awaits
<1>2. CASE x # t
  BY <1>2, BlameOK DEF IInv, MistakenAwaits, Awaits
<1> QED
  BY <1>1, <1>2

LEMMA DeniedStep ==
    ASSUME IInv, NEW t \in Tabs, NEW k \in Kinds, reqs[t][k] = "denied", Denied(t, k)
    PROVE  IInv'
<1>1. Forget(t) /\ UNCHANGED <<session, typed, counters>> /\ Blame(t, None)
  BY DEF Denied
<1>2. CASE at[t] = "page"
  <2>1. Load(t, "login") /\ Render(t, None, TRUE, "login")
    BY <1>2 DEF Denied, Load
  <2>2. TypeOK'
    BY <1>1, <2>1, LoadOK, LeftOK, RenderOK, ForgetOK, BlameOK DEF IInv, TypeOK, counters
  <2>3. LoginShowsNobody' /\ AnswersOK'
    BY <1>1, <2>1, LoadOK, RenderOK DEF IInv
  <2> user'[t] = None /\ \A x \in Tabs \ {t} : user'[x] = user[x]
    BY <2>1, RenderOK DEF IInv
  <2>4. SignedOutEverywhere'
    BY <1>1, ForgetOK DEF IInv, SignedOutEverywhere
  <2>5. MistakenAwaits'
    BY <1>1, <2>1, LoadOK, RenderOK, OthersAwait DEF IInv
  <2> QED
    BY <2>2, <2>3, <2>4, <2>5 DEF IInv
<1>3. CASE at[t] = "login"
  <2>1. Answered(t, k) /\ user[t] = None /\ left' = left
    BY <1>3 DEF Denied, IInv, LoginShowsNobody
  <2>2. \/ Render(t, None, FALSE, "login")
        \/ Render(t, None, loading[t], "login")
        \/ UNCHANGED <<user, loading, at>>
    BY <1>3 DEF Denied
  <2>3. /\ user' \in [Tabs -> Users \cup {None}] /\ loading' \in [Tabs -> BOOLEAN]
        /\ at' \in [Tabs -> {"login", "page"}]
        /\ user'[t] = None /\ LoginShowsNobody'
        /\ \A x \in Tabs \ {t} : user'[x] = user[x] /\ at'[x] = at[x]
    <3>1. CASE Render(t, None, FALSE, "login")
      BY <3>1, RenderOK DEF IInv
    <3>2. CASE Render(t, None, loading[t], "login")
      <4>1. loading[t] \in BOOLEAN
        BY DEF IInv, TypeOK
      <4> QED
        BY <3>2, <4>1, RenderOK DEF IInv
    <3>3. CASE UNCHANGED <<user, loading, at>>
      BY <2>1, <3>3 DEF IInv, TypeOK, LoginShowsNobody
    <3> QED
      BY <2>2, <3>1, <3>2, <3>3
  <2>4. TypeOK'
    BY <1>1, <2>1, <2>3, AnsweredOK, ForgetOK, BlameOK DEF IInv, TypeOK, counters
  <2>5. AnswersOK'
    BY <1>1, <2>1, AnsweredOK DEF IInv
  <2>6. SignedOutEverywhere'
    BY <1>1, <2>3, ForgetOK DEF IInv, SignedOutEverywhere
  <2>7. ASSUME NEW x \in Tabs, user'[x] # session', cause'[x] = None
        PROVE  Awaits(x)'
    <3>1. user[x] # session /\ cause[x] = None /\ Awaits(x)
      BY <1>1, <2>1, <2>3, <2>7, BlameOK DEF IInv, MistakenAwaits
    <3>2. CASE x # t
      BY <2>1, <2>3, <3>1, <3>2, <1>1, AnsweredOK DEF IInv, Awaits
    <3>3. CASE x = t
      <4>1. "denied" \notin Users /\ {"check", "login", "logout"} \subseteq Kinds
        BY SessionAssumption DEF Kinds
      <4>2. k # "check" \/ reqs[t]["login"] = "ok"
        BY <1>3, <3>1, <3>3, <4>1 DEF Awaits
      <4>3. k # "login" \/ reqs[t]["check"] \in {"sent"} \cup Users
        BY <1>3, <3>1, <3>3, <4>1 DEF Awaits
      <4> QED
        BY <1>1, <1>3, <2>1, <3>1, <3>3, <4>1, <4>2, <4>3, AnsweredOK DEF IInv, Awaits
    <3> QED
      BY <3>2, <3>3
  <2> QED
    BY <2>3, <2>4, <2>5, <2>6, <2>7 DEF IInv, MistakenAwaits
<1> QED
  BY <1>2, <1>3 DEF IInv, TypeOK

\* What a render that answers the k-th request of t and blames why does.
LEMMA AnswerRenders ==
    ASSUME IInv, NEW t \in Tabs, NEW k \in Kinds, NEW u \in Users \cup {None},
           NEW l \in BOOLEAN, NEW where \in {"login", "page"}, NEW why \in Causes \cup {None},
           Answered(t, k), Render(t, u, l, where), Blame(t, why),
           UNCHANGED <<session, typed, left, counters>>,
           stored' \in Users \cup {None}, removed' \in [Tabs -> BOOLEAN],
           u # None => stored' # None,
           why # None \/ u = session,
           \A x \in Tabs \ {t} : stored # None \/ removed[x] => stored' # None \/ removed'[x]
    PROVE  IInv'
<1> TypeOK
  BY DEF IInv
<1>1. TypeOK'
  <2>1. /\ user' \in [Tabs -> Users \cup {None}] /\ loading' \in [Tabs -> BOOLEAN]
        /\ at' \in [Tabs -> {"login", "page"}]
    BY RenderOK DEF IInv
  <2>2. reqs' \in [Tabs -> [Kinds -> {None, "sent"} \cup Answers]]
    BY AnsweredOK DEF IInv
  <2>3. cause' \in [Tabs -> Causes \cup {None}]
    BY BlameOK
  <2> QED
    BY <2>1, <2>2, <2>3 DEF TypeOK, counters
<1>2. LoginShowsNobody' /\ AnswersOK'
  BY RenderOK, AnsweredOK DEF IInv
<1>3. user'[t] = u /\ \A x \in Tabs \ {t} : user'[x] = user[x] /\ at'[x] = at[x]
  BY RenderOK DEF IInv
<1>4. SignedOutEverywhere'
  BY <1>3 DEF IInv, SignedOutEverywhere
<1>5. ASSUME NEW x \in Tabs, user'[x] # session', cause'[x] = None
      PROVE  Awaits(x)'
  <2>1. x # t
    BY <1>3, <1>5, BlameOK DEF IInv
  <2>2. user[x] # session /\ cause[x] = None
    BY <1>3, <1>5, <2>1, BlameOK DEF IInv
  <2>3. reqs'[x] = reqs[x] /\ at'[x] = at[x]
    BY <1>3, <2>1, AnsweredOK DEF IInv
  <2> QED
    BY <2>2, <2>3 DEF IInv, MistakenAwaits, Awaits
<1> QED
  BY <1>1, <1>2, <1>4, <1>5 DEF IInv, MistakenAwaits

LEMMA CheckedStep ==
    ASSUME IInv, NEW t \in Tabs, reqs[t]["check"] \in Users, Checked(t)
    PROVE  IInv'
<1> DEFINE u == reqs[t]["check"]
           why == IF u # session THEN "late" ELSE None
<1>1. /\ Answered(t, "check") /\ stored' = u /\ Render(t, u, FALSE, at[t])
      /\ UNCHANGED <<session, typed, left, removed, counters>> /\ Blame(t, why)
  BY DEF Checked
<1>2. /\ u \in Users \cup {None} /\ u # None /\ at[t] \in {"login", "page"}
      /\ removed \in [Tabs -> BOOLEAN]
      /\ why \in Causes \cup {None} /\ (why # None \/ u = session)
      /\ "check" \in Kinds /\ FALSE \in BOOLEAN
  BY SessionAssumption DEF IInv, TypeOK, Causes, Kinds
<1> HIDE DEF u, why
<1> QED
  BY <1>1, <1>2, AnswerRenders

LEMMA UncheckedStep ==
    ASSUME IInv, NEW t \in Tabs, Unchecked(t)
    PROVE  IInv'
<1>1. /\ Answered(t, "check") /\ Forget(t) /\ Render(t, None, FALSE, at[t])
      /\ UNCHANGED <<session, typed, left, counters>> /\ Blame(t, "unreached")
  BY DEF Unchecked
<1>2. /\ at[t] \in {"login", "page"} /\ "unreached" \in Causes /\ "unreached" # None
      /\ "check" \in Kinds /\ FALSE \in BOOLEAN
  BY SessionAssumption DEF IInv, TypeOK, Causes, Kinds
<1>3. /\ stored' = None /\ removed' \in [Tabs -> BOOLEAN]
      /\ \A x \in Tabs \ {t} : stored # None \/ removed[x] => removed'[x]
  BY <1>1, ForgetOK DEF IInv
<1> QED
  BY <1>1, <1>2, <1>3, AnswerRenders

LEMMA SignedOutStep ==
    ASSUME IInv, NEW t \in Tabs, SignedOut(t)
    PROVE  IInv'
<1>1. /\ Answered(t, "logout") /\ Forget(t) /\ Render(t, None, loading[t], "login")
      /\ UNCHANGED <<session, typed, left, counters>> /\ Blame(t, "unreached")
  BY DEF SignedOut
<1>2. /\ loading[t] \in BOOLEAN /\ "unreached" \in Causes /\ "unreached" # None
      /\ "logout" \in Kinds
  BY SessionAssumption DEF IInv, TypeOK, Causes, Kinds
<1>3. /\ stored' = None /\ removed' \in [Tabs -> BOOLEAN]
      /\ \A x \in Tabs \ {t} : stored # None \/ removed[x] => removed'[x]
  BY <1>1, ForgetOK DEF IInv
<1> QED
  BY <1>1, <1>2, <1>3, AnswerRenders

LEMMA SignedInStep ==
    ASSUME IInv, NEW t \in Tabs, reqs[t]["login"] = "ok", SignedIn(t)
    PROVE  IInv'
<1>1. /\ Answered(t, "login") /\ stored' = typed[t] /\ Render(t, typed[t], loading[t], "page")
      /\ UNCHANGED <<session, typed, left, removed, counters>> /\ Blame(t, "late")
  BY DEF SignedIn
<1>2. "ok" # None
  BY SessionAssumption DEF Answers
<1>3. /\ typed[t] \in Users \cup {None} /\ typed[t] # None
      /\ removed \in [Tabs -> BOOLEAN] /\ loading[t] \in BOOLEAN
      /\ "late" \in Causes /\ "late" # None /\ "login" \in Kinds
  BY <1>2, SessionAssumption DEF IInv, TypeOK, AnswersOK, Causes, Kinds
<1> QED
  BY <1>1, <1>3, AnswerRenders

\* An answer that changes nothing the user sees.
LEMMA IdleStep ==
    ASSUME IInv, NEW t \in Tabs, NEW k \in Kinds, Answered(t, k),
           k = "call" \/ (k = "login" /\ reqs[t][k] # "ok"),
           UNCHANGED <<session, stored, user, loading, at, typed, left, removed, cause, counters>>
    PROVE  IInv'
<1>1. TypeOK' /\ AnswersOK'
  BY AnsweredOK DEF IInv, TypeOK, counters
<1>2. LoginShowsNobody' /\ SignedOutEverywhere'
  BY DEF IInv, LoginShowsNobody, SignedOutEverywhere
<1>3. ASSUME NEW x \in Tabs, Awaits(x)
      PROVE  Awaits(x)'
  <2>1. CASE x # t
    BY <1>3, <2>1, AnsweredOK DEF IInv, Awaits
  <2>2. CASE x = t
    <3>1. /\ {"check", "login", "logout"} \subseteq Kinds
          /\ \A j \in Kinds \ {k} : reqs'[t][j] = reqs[t][j]
      BY AnsweredOK DEF IInv, Kinds
    <3> QED
      BY <1>3, <2>2, <3>1 DEF Awaits
  <2> QED
    BY <2>1, <2>2
<1> QED
  BY <1>1, <1>2, <1>3 DEF IInv, MistakenAwaits

LEMMA ArriveStep ==
    ASSUME IInv, NEW t \in Tabs, NEW k \in Kinds, Arrive(t, k)
    PROVE  IInv'
<1>1. CASE reqs[t][k] = "denied" /\ Denied(t, k)
  BY <1>1, DeniedStep
<1>2. CASE reqs[t][k] \in Users /\ Checked(t)
  BY <1>2, CheckedStep DEF IInv, AnswersOK
<1>3. CASE reqs[t][k] = "lost" /\ k = "check" /\ Unchecked(t)
  BY <1>3, UncheckedStep
<1>4. CASE reqs[t][k] = "ok" /\ k = "login" /\ SignedIn(t)
  BY <1>4, SignedInStep
<1>5. CASE reqs[t][k] \in {"refused", "lost"} /\ k = "login" /\ NotSignedIn(t)
  BY <1>5, IdleStep DEF NotSignedIn
<1>6. CASE reqs[t][k] = "lost" /\ k = "logout" /\ SignedOut(t)
  BY <1>6, SignedOutStep
<1>7. CASE reqs[t][k] \in {"ok", "lost"} /\ k = "call" /\ Called(t)
  BY <1>7, IdleStep DEF Called
<1> QED
  BY <1>1, <1>2, <1>3, <1>4, <1>5, <1>6, <1>7 DEF Arrive

LEMMA LoginStep ==
    ASSUME IInv, NEW t \in Tabs, NEW u \in Users, Login(t, u)
    PROVE  IInv'
<1>1. /\ reqs[t]["login"] = None /\ reqs' = [reqs EXCEPT ![t]["login"] = "sent"]
      /\ typed' = [typed EXCEPT ![t] = u] /\ logins' = logins + 1
      /\ UNCHANGED <<session, stored, user, loading, at, left, removed, cause, faults>>
  BY DEF Login, Send
<1>2. "sent" \notin Users /\ None \notin Users \cup {"sent", "ok"} /\ "login" \in Kinds
  BY SessionAssumption DEF Kinds, Answers
<1>3. TypeOK'
  BY <1>1, <1>2 DEF IInv, TypeOK
<1>4. LoginShowsNobody' /\ SignedOutEverywhere'
  BY <1>1 DEF IInv, LoginShowsNobody, SignedOutEverywhere
<1>5. AnswersOK'
  BY <1>1, <1>2 DEF IInv, TypeOK, AnswersOK
<1>6. MistakenAwaits'
  BY <1>1, <1>2 DEF IInv, TypeOK, MistakenAwaits, Awaits, Kinds
<1> QED
  BY <1>3, <1>4, <1>5, <1>6 DEF IInv

LEMMA AskStep ==
    ASSUME IInv, NEW t \in Tabs, NEW k \in Kinds, Ask(t, k)
    PROVE  IInv'
<1>1. /\ k \in {"logout", "call"}
      /\ reqs[t][k] = None /\ reqs' = [reqs EXCEPT ![t][k] = "sent"]
      /\ UNCHANGED <<session, stored, user, loading, at, typed, left, removed, cause, counters>>
  BY DEF Ask, Send
<1>2. "sent" \notin Users /\ None \notin Users \cup {"sent", "denied"}
  BY SessionAssumption DEF Answers
<1>3. TypeOK'
  BY <1>1 DEF IInv, TypeOK, counters
<1>4. LoginShowsNobody' /\ SignedOutEverywhere'
  BY <1>1 DEF IInv, LoginShowsNobody, SignedOutEverywhere
<1>5. AnswersOK'
  BY <1>1, <1>2 DEF IInv, TypeOK, AnswersOK, Kinds
<1>6. MistakenAwaits'
  BY <1>1, <1>2 DEF IInv, TypeOK, MistakenAwaits, Awaits, Kinds
<1> QED
  BY <1>3, <1>4, <1>5, <1>6 DEF IInv

LEMMA ReloadStep ==
    ASSUME IInv, NEW t \in Tabs, Reload(t)
    PROVE  IInv'
<1>1. /\ Load(t, at[t]) /\ Render(t, None, TRUE, at[t]) /\ at[t] \in {"login", "page"}
      /\ removed' = [removed EXCEPT ![t] = FALSE] /\ faults' = faults + 1
      /\ UNCHANGED <<session, stored, typed, logins>> /\ Blame(t, None)
  BY DEF Reload, Load, IInv, TypeOK
<1>2. user'[t] = None /\ \A x \in Tabs \ {t} : user'[x] = user[x] /\ at'[x] = at[x]
  BY <1>1, RenderOK DEF IInv
<1>3. TypeOK'
  <2>1. /\ user' \in [Tabs -> Users \cup {None}] /\ loading' \in [Tabs -> BOOLEAN]
        /\ at' \in [Tabs -> {"login", "page"}]
    BY <1>1, RenderOK DEF IInv
  <2>2. reqs' \in [Tabs -> [Kinds -> {None, "sent"} \cup Answers]]
    BY <1>1, LoadOK
  <2>3. cause' \in [Tabs -> Causes \cup {None}]
    BY <1>1, BlameOK DEF IInv
  <2>4. /\ removed' \in [Tabs -> BOOLEAN] /\ logins' \in Nat /\ faults' \in Nat
        /\ session' \in Users \cup {None} /\ stored' \in Users \cup {None}
        /\ typed' \in [Tabs -> Users \cup {None}]
        /\ left' \in [Users \cup {None} -> Nat]
    BY <1>1, LeftOK DEF IInv, TypeOK
  <2> QED
    BY <2>1, <2>2, <2>3, <2>4 DEF TypeOK
<1>4. LoginShowsNobody' /\ AnswersOK'
  BY <1>1, LoadOK, RenderOK DEF IInv
<1>5. SignedOutEverywhere'
  BY <1>1, <1>2 DEF IInv, TypeOK, SignedOutEverywhere
<1>6. MistakenAwaits'
  BY <1>1, <1>2, LoadOK, OthersAwait
<1> QED
  BY <1>3, <1>4, <1>5, <1>6 DEF IInv

\* A storage event or the focus takes the user away.
LEMMA SignedOutElsewhere ==
    ASSUME IInv, NEW t \in Tabs, Render(t, None, loading[t], at[t]), Blame(t, "elsewhere"),
           UNCHANGED <<session, stored, reqs, typed, left, counters>>,
           removed' \in [Tabs -> BOOLEAN], \A x \in Tabs \ {t} : removed'[x] = removed[x]
    PROVE  IInv'
<1>1. /\ loading[t] \in BOOLEAN /\ at[t] \in {"login", "page"}
      /\ "elsewhere" \in Causes /\ "elsewhere" # None
  BY SessionAssumption DEF IInv, TypeOK, Causes
<1>2. /\ user' \in [Tabs -> Users \cup {None}] /\ loading' \in [Tabs -> BOOLEAN]
      /\ at' \in [Tabs -> {"login", "page"}] /\ LoginShowsNobody'
      /\ user'[t] = None /\ \A x \in Tabs \ {t} : user'[x] = user[x] /\ at'[x] = at[x]
  BY <1>1, RenderOK DEF IInv
<1>3. cause' \in [Tabs -> Causes \cup {None}]
  BY <1>1, BlameOK DEF IInv
<1>4. TypeOK'
  BY <1>2, <1>3 DEF IInv, TypeOK, counters
<1>5. AnswersOK' /\ SignedOutEverywhere'
  BY <1>2 DEF IInv, AnswersOK, SignedOutEverywhere
<1>6. MistakenAwaits'
  BY <1>1, <1>2, OthersAwait
<1> QED
  BY <1>2, <1>4, <1>5, <1>6 DEF IInv

LEMMA NextIInv == IInv /\ [Next]_vars => IInv'
<1> SUFFICES ASSUME IInv, [Next]_vars
             PROVE  IInv'
  OBVIOUS
<1>1. ASSUME NEW t \in Tabs, NEW k \in Kinds,
             Serve(t, k) \/ Lose(t, k) \/ Arrive(t, k) \/ Ask(t, k)
      PROVE  IInv'
  BY <1>1, ServeStep, LoseStep, ArriveStep, AskStep
<1>2. ASSUME NEW t \in Tabs, Refuse(t)
      PROVE  IInv'
  BY <1>2, RefuseStep
<1>3. ASSUME NEW t \in Tabs, NEW u \in Users, Login(t, u)
      PROVE  IInv'
  BY <1>3, LoginStep
<1>4. ASSUME NEW t \in Tabs, Reload(t)
      PROVE  IInv'
  BY <1>4, ReloadStep
<1>5. ASSUME NEW t \in Tabs, Hear(t)
      PROVE  IInv'
  <2>1. removed' \in [Tabs -> BOOLEAN] /\ \A x \in Tabs \ {t} : removed'[x] = removed[x]
    BY <1>5 DEF Hear, IInv, TypeOK
  <2> QED
    BY <1>5, <2>1, SignedOutElsewhere DEF Hear
<1>6. ASSUME NEW t \in Tabs, Focus(t)
      PROVE  IInv'
  <2>1. removed' \in [Tabs -> BOOLEAN] /\ \A x \in Tabs \ {t} : removed'[x] = removed[x]
    BY <1>6 DEF Focus, IInv, TypeOK
  <2> QED
    BY <1>6, <2>1, SignedOutElsewhere DEF Focus
<1>7. CASE Expire
  BY <1>7, ExpireStep
<1>9. ASSUME NEW u \in Users \cup {None}, ServeLeft(u)
      PROVE  IInv'
  BY <1>9, ServeLeftStep
<1>8. CASE UNCHANGED vars
  BY <1>8 DEF vars, counters, IInv, TypeOK, LoginShowsNobody, AnswersOK, SignedOutEverywhere,
              MistakenAwaits, Awaits
<1> QED
  BY <1>1, <1>2, <1>3, <1>4, <1>5, <1>6, <1>7, <1>8, <1>9 DEF Next

LEMMA Invariance == Spec => []IInv
BY InitIInv, NextIInv, PTL DEF Spec

-----------------------------------------------------------------------------
\* Every reachable state has its type.
THEOREM TypeCorrect == Spec => []TypeOK
<1>1. IInv => TypeOK
  BY DEF IInv
<1> QED
  BY <1>1, Invariance, PTL

\* A sign-out in one tab (useAuth's logout, checkSession and api's 401) reaches every
\* tab that still has a user: localStorage holds one, or an event is on its way.
THEOREM SignOutReachesAll == Spec => []SignedOutEverywhere
<1>1. IInv => SignedOutEverywhere
  BY DEF IInv
<1> QED
  BY <1>1, Invariance, PTL

\* A tab that waits for nothing shows the user whose session its requests use, or
\* there is a reason.
THEOREM MistakenOnlyForCause == Spec => []IdentityHasCause
<1>1. IInv => IdentityHasCause
  <2> SUFFICES ASSUME IInv, NEW t \in Tabs, Quiet(t), user[t] # session
               PROVE  cause[t] # None
    BY DEF IdentityHasCause
  <2>1. /\ reqs[t]["check"] = None /\ reqs[t]["login"] = None /\ reqs[t]["logout"] = None
    BY DEF Quiet, NoRequests, Kinds
  <2>2. None \notin Users \cup {"sent", "ok", "denied"}
    BY SessionAssumption DEF Answers
  <2> QED
    BY <2>1, <2>2 DEF IInv, MistakenAwaits, Awaits
<1> QED
  BY <1>1, Invariance, PTL

=============================================================================
