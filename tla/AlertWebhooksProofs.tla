------------------------ MODULE AlertWebhooksProofs ------------------------
(***************************************************************************)
(* What the webhooks keep up for any number of channels, posts, tries,     *)
(* analyses and rounds.  The two halves have an invariant each, which the  *)
(* steps of the other half leave alone, and the end of the process is a    *)
(* step of both.                                                           *)
(***************************************************************************)
EXTENDS AlertWebhooks, TLAPS

Recorded(n) == n \in history \cup failed

\* Nothing goes out for a post before its handler has gone past its row.
StartedOK ==
    /\ \A n \in Posts : post[n] = "forward" => Recorded(n)
    /\ \A n \in Posts, c \in Channels :
         phase[n][c] # "none" => post[n] = "end" /\ Recorded(n)
    /\ \A n \in Posts, c \in Channels, i \in Tries :
         <<n, c, i>> \in wire => phase[n][c] # "none"
    /\ \A n \in Posts, c \in Channels : <<n, c>> \in reached => phase[n][c] # "none"
    /\ \A c \in Channels : told[c] # 0 => post[told[c]] # "none" /\ Recorded(told[c])

\* A newer post that has started while an older one is under way knows.
OverlapOK ==
    \A n \in Posts, c \in Channels : phase[n][c] # "none" =>
        \A m \in Posts : m < n /\ Busy(m, c) => "overlap" \in why[n][c]

\* What has arrived was not overtaken unless posts overlapped.
ReachedOK ==
    \A n \in Posts, c \in Channels :
        <<n, c>> \in reached => told[c] >= n \/ "overlap" \in why[n][c]

\* What has ended without arriving has a reason.
EndOK ==
    /\ \A n \in Posts, c \in Channels :
         phase[n][c] = "end" => <<n, c>> \in reached \/ why[n][c] # {}
    /\ \A n \in Posts, c \in Channels :
         post[n] = "end" /\ phase[n][c] = "none" => why[n][c] # {}

DeliveryInv == DeliveryTypeOK /\ StartedOK /\ OverlapOK /\ ReachedOK /\ EndOK

\* The last round is only entered with the order to conclude.
RoundsOK == \A a \in Analyses :
    /\ stage[a] = "tools" => round[a] # MaxRounds - 2
    /\ round[a] = MaxRounds - 1 => a \in concluding

\* Where an analysis stands and what it has left behind.
AnalysisOK == \A a \in Analyses :
    /\ ending[a] # "" => stage[a] = "end"
    /\ stage[a] = "answer" => kind[a] = "chat" \/ a \in saved \cup unsaved
    /\ a \in shown => stage[a] = "end" /\ (kind[a] = "chat" \/ a \in saved \cup unsaved)

AgentInv == AgentTypeOK /\ RoundsOK /\ AnalysisOK /\ ToldBeforeExhausted

IInv == DeliveryInv /\ AgentInv

-----------------------------------------------------------------------------
\* Posts and tries are numbers.
LEMMA Numbers ==
    /\ Posts \subseteq Nat /\ 0 \notin Posts
    /\ Tries \subseteq Nat /\ 0 \in Tries
    /\ \A i \in Tries : i + 1 < MaxTries => i + 1 \in Tries
    /\ \A n \in Posts : n \in 0..MaxPosts
    /\ 0 \in 0..MaxPosts
    /\ \A n \in 0..MaxPosts : n # 0 => n \in Posts
    /\ 0 \in 0..(MaxRounds - 1) /\ MaxRounds \in Nat /\ MaxRounds - 1 # 0
BY DeliveryAssumption, AgentAssumption DEF Posts, Tries

LEMMA InitIInv == Init => IInv
<1> SUFFICES ASSUME Init PROVE IInv
  OBVIOUS
<1> USE Numbers DEF Init
<1>1. DeliveryTypeOK
  BY DEF DeliveryInit, DeliveryTypeOK
<1>2. StartedOK /\ OverlapOK /\ ReachedOK /\ EndOK
  BY DEF DeliveryInit, StartedOK, OverlapOK, ReachedOK, EndOK
<1>3. AgentTypeOK
  BY DEF AgentInit, AgentTypeOK, Kinds, Endings
<1>4. RoundsOK /\ AnalysisOK /\ ToldBeforeExhausted
  BY DEF AgentInit, RoundsOK, AnalysisOK, ToldBeforeExhausted
<1> QED BY <1>1, <1>2, <1>3, <1>4 DEF IInv, DeliveryInv, AgentInv

-----------------------------------------------------------------------------
(* Deliveries.                                                             *)

\* A step that starts, sends and receives nothing keeps the invariant if it
\* only adds reasons, and one for every goroutine and handler it ends.
LEMMA QuietKeepsInv ==
    ASSUME DeliveryInv, DeliveryTypeOK',
           \A n \in Posts : Recorded(n) => Recorded(n)',
           \A n \in Posts : post'[n] = "forward" => Recorded(n)',
           \A n \in Posts : post[n] # "none" => post'[n] # "none",
           \A n \in Posts : post[n] = "end" => post'[n] = "end",
           \A n \in Posts, c \in Channels :
              /\ phase'[n][c] = "none" <=> phase[n][c] = "none"
              /\ phase'[n][c] \in Trying => phase[n][c] \in Trying
              /\ phase'[n][c] = "end" /\ phase[n][c] # "end"
                    => <<n, c>> \in reached' \/ why'[n][c] # {}
              /\ phase'[n][c] = "end" /\ phase[n][c] = "end" /\ <<n, c>> \in reached
                    => <<n, c>> \in reached'
              /\ why[n][c] \subseteq why'[n][c],
           \A n \in Posts : post'[n] = "end" /\ post[n] # "end" =>
              \A c \in Channels : why'[n][c] # {},
           wire' \subseteq wire, reached' \subseteq reached, UNCHANGED told
    PROVE  DeliveryInv'
<1> USE DEF DeliveryInv
<1>1. \A n \in Posts, c \in Channels : Busy(n, c)' => Busy(n, c)
  BY DEF Busy
<1>2. StartedOK'
  <2>1. \A c \in Channels : told[c] # 0 => told[c] \in Posts
    BY Numbers DEF DeliveryTypeOK
  <2> QED BY <2>1 DEF StartedOK
<1>3. OverlapOK'
  BY <1>1 DEF OverlapOK
<1>4. ReachedOK'
  BY DEF ReachedOK
<1>5. EndOK'
  <2>1. ASSUME NEW n \in Posts, NEW c \in Channels, phase'[n][c] = "end"
        PROVE  <<n, c>> \in reached' \/ why'[n][c] # {}
    <3>1. CASE phase[n][c] = "end"
      <4>1. <<n, c>> \in reached \/ why[n][c] # {}
        BY <3>1 DEF EndOK
      <4>2. why[n][c] \subseteq why'[n][c]
        OBVIOUS
      <4> QED BY <2>1, <3>1, <4>1, <4>2
    <3> QED BY <2>1, <3>1
  <2>2. ASSUME NEW n \in Posts, NEW c \in Channels, post'[n] = "end", phase'[n][c] = "none"
        PROVE  why'[n][c] # {}
    <3>1. CASE post[n] = "end"
      <4>1. why[n][c] # {}
        BY <2>2, <3>1 DEF EndOK
      <4>2. why[n][c] \subseteq why'[n][c]
        OBVIOUS
      <4> QED BY <4>1, <4>2
    <3> QED BY <2>2, <3>1
  <2> QED BY <2>1, <2>2 DEF EndOK
<1> QED BY <1>2, <1>3, <1>4, <1>5

LEMMA HandlerKeepsInv ==
    ASSUME DeliveryInv, NEW n \in Posts, Post(n) \/ Refuse(n) \/ HandlerStep(n)
    PROVE  DeliveryInv'
<1>0. DeliveryTypeOK /\ StartedOK /\ OverlapOK /\ ReachedOK /\ EndOK
  BY DEF DeliveryInv
<1>1. CASE Post(n)
  <2>1. DeliveryTypeOK'
    BY <1>0, <1>1 DEF Post, DeliveryTypeOK, Handling
  <2>2. \A m \in Posts : post'[m] = post[m] \/ (post[m] = "none" /\ post'[m] = "record")
    BY <1>0, <1>1 DEF Post, Comes, DeliveryTypeOK
  <2> QED BY <1>0, <1>1, <2>1, <2>2, QuietKeepsInv DEF Post, StartedOK, Recorded
<1>2. CASE Refuse(n)
  <2>1. DeliveryTypeOK'
    BY <1>0, <1>2 DEF Refuse, Nobody, DeliveryTypeOK, Reasons
  <2>2. /\ post'[n] = "end" /\ \A m \in Posts \ {n} : post'[m] = post[m]
        /\ \A m \in Posts, c \in Channels : why[m][c] \subseteq why'[m][c]
        /\ \A c \in Channels : why'[n][c] # {}
    BY <1>0, <1>2 DEF Refuse, Nobody, DeliveryTypeOK
  <2> QED BY <1>0, <1>2, <2>1, <2>2, QuietKeepsInv DEF Refuse, StartedOK, Recorded
<1>3. CASE Record(n)
  <2>1. DeliveryTypeOK'
    BY <1>0, <1>3 DEF Record, DeliveryTypeOK, Handling
  <2>2. /\ post[n] = "record" /\ post'[n] = "forward" /\ Recorded(n)'
        /\ \A m \in Posts \ {n} : post'[m] = post[m]
        /\ \A m \in Posts : Recorded(m) => Recorded(m)'
    BY <1>0, <1>3 DEF Record, Recorded, DeliveryTypeOK
  <2>3. UNCHANGED <<phase, reached, wire, told, why>>
    BY <1>3 DEF Record
  <2> QED BY <1>0, <2>1, <2>2, <2>3, QuietKeepsInv DEF StartedOK
<1>4. CASE Forward(n) /\ Nobody(n, "unread") /\ UNCHANGED phase
  <2>1. DeliveryTypeOK'
    BY <1>0, <1>4 DEF Forward, Nobody, DeliveryTypeOK, Reasons
  <2>2. /\ post'[n] = "end" /\ \A m \in Posts \ {n} : post'[m] = post[m]
        /\ \A m \in Posts, c \in Channels : why[m][c] \subseteq why'[m][c]
        /\ \A c \in Channels : why'[n][c] # {}
    BY <1>0, <1>4 DEF Nobody, DeliveryTypeOK
  <2>3. UNCHANGED <<history, phase, tries, reached, wire, told, failed>>
    BY <1>4 DEF Forward
  <2> QED BY <1>0, <2>1, <2>2, <2>3, QuietKeepsInv DEF StartedOK, Recorded
<1>5. CASE Forward(n) /\ StartGoroutines(n) /\ post' = [post EXCEPT ![n] = "end"]
  <2> PICK enabled \in SUBSET Channels :
         /\ phase' = [phase EXCEPT ![n] = [c \in Channels |->
                         IF c \in enabled THEN "send" ELSE "none"]]
         /\ why' = [m \in Posts |-> [c \in Channels |->
                       why[m][c] \cup Prospect(n, m, c, enabled)]]
    BY <1>5 DEF StartGoroutines
  <2>0. /\ post[n] = "forward" /\ post'[n] = "end"
        /\ \A m \in Posts \ {n} : post'[m] = post[m]
        /\ UNCHANGED <<history, tries, reached, wire, told, failed>>
    BY <1>0, <1>5 DEF Forward, DeliveryTypeOK
  <2>1. \A m \in Posts, c \in Channels : Prospect(n, m, c, enabled) \subseteq Reasons
    BY DEF Prospect, Reasons
  <2>2. DeliveryTypeOK'
    <3>1. why' \in [Posts -> [Channels -> SUBSET Reasons]]
      BY <1>0, <2>1 DEF DeliveryTypeOK
    <3>2. phase' \in [Posts -> [Channels -> {"none", "end"} \cup Trying]]
      BY <1>0 DEF DeliveryTypeOK, Trying
    <3>3. post' \in [Posts -> {"none", "end"} \cup Handling]
      BY <1>0, <1>5 DEF DeliveryTypeOK
    <3> QED BY <1>0, <2>0, <3>1, <3>2, <3>3 DEF DeliveryTypeOK
  <2>3. \A m \in Posts, c \in Channels :
          why'[m][c] = why[m][c] \cup Prospect(n, m, c, enabled)
    OBVIOUS
  <2>4. \A c \in Channels : phase[n][c] = "none"
    BY <1>0, <2>0 DEF StartedOK
  <2>5. /\ \A c \in Channels : phase'[n][c] = IF c \in enabled THEN "send" ELSE "none"
        /\ \A m \in Posts \ {n}, c \in Channels : phase'[m][c] = phase[m][c]
    BY <1>0 DEF DeliveryTypeOK
  <2>6. StartedOK'
    <3>1. \A c \in Channels : told[c] # 0 => told[c] \in Posts
      BY <1>0, Numbers DEF DeliveryTypeOK
    <3>2. \A m \in Posts : Recorded(m)' <=> Recorded(m)
      BY <2>0 DEF Recorded
    <3> QED BY <1>0, <2>0, <2>4, <2>5, <3>1, <3>2 DEF StartedOK
  <2>7. OverlapOK'
    <3> SUFFICES ASSUME NEW k \in Posts, NEW c \in Channels, phase'[k][c] # "none",
                        NEW m \in Posts, m < k, Busy(m, c)'
                 PROVE  "overlap" \in why'[k][c]
      BY DEF OverlapOK
    <3>1. CASE k = n
      <4>0. m # n /\ phase'[m][c] = phase[m][c]
        BY <2>5, <3>1, Numbers
      <4>1. c \in enabled /\ Busy(m, c)
        BY <2>0, <2>5, <3>1, <4>0 DEF Busy
      <4>2. m \in 1..(n - 1)
        BY <3>1, DeliveryAssumption DEF Posts
      <4>3. Prospect(n, n, c, enabled) = {"overlap"}
        BY <4>1, <4>2 DEF Prospect
      <4> QED BY <2>3, <3>1, <4>3
    <3>2. CASE k # n /\ m = n
      <4>1. phase[k][c] # "none"
        BY <2>5, <3>2
      <4>2. c \in enabled
        BY <1>0, <2>0, <2>4, <2>5, <3>2 DEF Busy, StartedOK, Trying
      <4>3. Prospect(n, k, c, enabled) = {"overlap"}
        BY <3>2, <4>1, <4>2 DEF Prospect
      <4> QED BY <2>3, <4>3
    <3>3. CASE k # n /\ m # n
      <4>1. phase[k][c] # "none" /\ Busy(m, c)
        BY <2>0, <2>5, <3>3 DEF Busy
      <4> QED BY <1>0, <2>3, <4>1 DEF OverlapOK
    <3> QED BY <3>1, <3>2, <3>3
  <2>8. ReachedOK'
    BY <1>0, <2>0, <2>3 DEF ReachedOK
  <2>9. EndOK'
    <3>1. \A c \in Channels : c \notin enabled => "disabled" \in why'[n][c]
      BY <2>3 DEF Prospect
    <3> QED BY <1>0, <2>0, <2>3, <2>5, <3>1 DEF EndOK
  <2> QED BY <2>2, <2>6, <2>7, <2>8, <2>9 DEF DeliveryInv
<1> QED BY <1>1, <1>2, <1>3, <1>4, <1>5 DEF HandlerStep, Forward

LEMMA TrialKeepsInv ==
    ASSUME DeliveryInv, NEW n \in Posts, NEW c \in Channels,
           TrialStep(n, c) \/ \E i \in Tries : Receive(n, c, i)
    PROVE  DeliveryInv'
<1>0. DeliveryTypeOK /\ StartedOK /\ OverlapOK /\ ReachedOK /\ EndOK
  BY DEF DeliveryInv
<1>t. tries[n][c] \in Tries
  BY <1>0 DEF DeliveryTypeOK
<1>1. CASE Send(n, c)
  <2>1. DeliveryTypeOK'
    BY <1>0, <1>1, <1>t DEF Send, DeliveryTypeOK, Requests, Trying
  <2>2. /\ phase[n][c] = "send" /\ phase'[n][c] = "wait"
        /\ \A m \in Posts, d \in Channels : m # n \/ d # c => phase'[m][d] = phase[m][d]
        /\ \A m \in Posts, d \in Channels, i \in Tries :
              <<m, d, i>> \in wire' => <<m, d, i>> \in wire \/ (m = n /\ d = c)
        /\ UNCHANGED <<post, history, reached, told, failed, why>>
    BY <1>0, <1>1 DEF Send, DeliveryTypeOK
  <2>3. \A m \in Posts, d \in Channels : Busy(m, d)' => Busy(m, d)
    BY <2>2 DEF Busy, Trying
  <2>4. StartedOK'
    BY <1>0, <2>2 DEF StartedOK, Recorded
  <2>5. OverlapOK'
    BY <1>0, <2>2, <2>3 DEF OverlapOK
  <2>6. ReachedOK' /\ EndOK'
    BY <1>0, <2>2 DEF ReachedOK, EndOK
  <2> QED BY <2>1, <2>4, <2>5, <2>6 DEF DeliveryInv
<1>2. CASE Answered(n, c)
  <2>1. DeliveryTypeOK'
    BY <1>0, <1>2 DEF Answered, DeliveryTypeOK
  <2>2. /\ phase[n][c] = "wait" /\ phase'[n][c] = "end" /\ <<n, c>> \in reached
        /\ \A m \in Posts, d \in Channels : m # n \/ d # c => phase'[m][d] = phase[m][d]
        /\ UNCHANGED <<post, history, tries, reached, wire, told, failed, why>>
    BY <1>0, <1>2 DEF Answered, DeliveryTypeOK
  <2> QED BY <1>0, <2>1, <2>2, QuietKeepsInv DEF StartedOK, Recorded, Trying
<1>3. CASE Failed(n, c)
  <2> DEFINE Again == /\ tries[n][c] + 1 < MaxTries
                      /\ phase' = [phase EXCEPT ![n][c] = "send"]
                      /\ tries' = [tries EXCEPT ![n][c] = @ + 1]
                      /\ UNCHANGED why
             Never == /\ phase' = [phase EXCEPT ![n][c] = "end"]
                      /\ why' = [why EXCEPT ![n][c] = @ \cup {"gave up"}]
                      /\ UNCHANGED tries
  <2>a. Again \/ Never
    BY <1>3 DEF Failed
  <2>b. phase[n][c] = "wait"
    BY <1>3 DEF Failed
  <2>c. /\ phase \in [Posts -> [Channels -> {"none", "end"} \cup Trying]]
        /\ tries \in [Posts -> [Channels -> Tries]]
        /\ why \in [Posts -> [Channels -> SUBSET Reasons]]
    BY <1>0 DEF DeliveryTypeOK
  <2>1. DeliveryTypeOK'
    <3>1. tries' \in [Posts -> [Channels -> Tries]]
      <4>1. CASE Again
        <5>1. tries[n][c] + 1 \in Tries
          BY <1>t, <4>1, Numbers
        <5> QED BY <2>c, <4>1, <5>1
      <4> QED BY <2>a, <2>c, <4>1
    <3>2. phase' \in [Posts -> [Channels -> {"none", "end"} \cup Trying]]
      <4>1. "send" \in {"none", "end"} \cup Trying
        BY DEF Trying
      <4>2. CASE Again
        BY <2>c, <4>1, <4>2
      <4>3. CASE Never
        BY <2>c, <4>3
      <4> QED BY <2>a, <4>2, <4>3
    <3>3. why' \in [Posts -> [Channels -> SUBSET Reasons]]
      <4>1. "gave up" \in Reasons
        BY DEF Reasons
      <4>2. CASE Again
        BY <2>c, <4>2
      <4>3. CASE Never
        BY <2>c, <4>1, <4>3
      <4> QED BY <2>a, <4>2, <4>3
    <3>4. wire' \subseteq wire /\ reached' \subseteq reached
      BY <1>3 DEF Failed
    <3>5. UNCHANGED <<post, history, told, failed>>
      BY <1>3 DEF Failed
    <3> QED BY <1>0, <3>1, <3>2, <3>3, <3>4, <3>5 DEF DeliveryTypeOK
  <2>2. /\ phase[n][c] = "wait" /\ phase'[n][c] \in {"send", "end"}
        /\ \A m \in Posts, d \in Channels : m # n \/ d # c => phase'[m][d] = phase[m][d]
    <3>1. CASE Again
      BY <2>b, <2>c, <3>1
    <3>2. CASE Never
      BY <2>b, <2>c, <3>2
    <3> QED BY <2>a, <3>1, <3>2
  <2>3. /\ \A m \in Posts, d \in Channels : why[m][d] \subseteq why'[m][d]
        /\ phase'[n][c] = "end" => why'[n][c] # {}
    <3>1. CASE Again
      BY <2>c, <3>1
    <3>2. CASE Never
      BY <2>c, <3>2
    <3> QED BY <2>a, <3>1, <3>2
  <2>4. /\ wire' \subseteq wire /\ reached' \subseteq reached
        /\ \A m \in Posts, d \in Channels : m # n \/ d # c =>
              (<<m, d>> \in reached => <<m, d>> \in reached')
        /\ UNCHANGED <<post, history, told, failed>>
    BY <1>3 DEF Failed
  <2> QED BY <1>0, <2>1, <2>2, <2>3, <2>4, QuietKeepsInv DEF StartedOK, Recorded, Trying
<1>4. CASE \E i \in Tries : Receive(n, c, i)
  <2> PICK i \in Tries : Receive(n, c, i)
    BY <1>4
  <2>1. DeliveryTypeOK'
    BY <1>0, Numbers DEF Receive, DeliveryTypeOK
  <2>2. /\ phase[n][c] # "none" /\ Busy(n, c)
        /\ UNCHANGED <<post, history, phase, tries, failed, why>>
        /\ wire' \subseteq wire
    BY <1>0 DEF Receive, StartedOK, Busy
  <2>3. /\ \A m \in Posts, d \in Channels : <<m, d>> \in reached' =>
              <<m, d>> \in reached \/ (m = n /\ d = c)
        /\ reached \subseteq reached'
    BY DEF Receive
  <2>4. told'[c] = n /\ \A d \in Channels \ {c} : told'[d] = told[d]
    BY <1>0 DEF Receive, DeliveryTypeOK
  <2>5. \A m \in Posts, d \in Channels : Busy(m, d)' => Busy(m, d)
    BY <2>2 DEF Busy
  <2>6. StartedOK'
    BY <1>0, <2>2, <2>3, <2>4 DEF StartedOK, Recorded
  <2>7. OverlapOK'
    BY <1>0, <2>2, <2>5 DEF OverlapOK
  <2>8. ReachedOK'
    <3> SUFFICES ASSUME NEW m \in Posts, NEW d \in Channels, <<m, d>> \in reached'
                 PROVE  told'[d] >= m \/ "overlap" \in why'[m][d]
      BY DEF ReachedOK
    <3>1. CASE d # c
      BY <1>0, <2>2, <2>3, <2>4, <3>1 DEF ReachedOK
    <3>2. CASE d = c /\ n >= m
      BY <2>4, <3>2
    <3>3. CASE d = c /\ n < m
      <4>1. phase[m][d] # "none"
        BY <1>0, <2>3, <3>3, Numbers DEF StartedOK
      <4> QED BY <1>0, <2>2, <3>3, <4>1 DEF OverlapOK
    <3>4. n \in Nat /\ m \in Nat
      BY Numbers
    <3> QED BY <3>1, <3>2, <3>3, <3>4
  <2>9. EndOK'
    BY <1>0, <2>2, <2>3 DEF EndOK
  <2> QED BY <2>1, <2>6, <2>7, <2>8, <2>9 DEF DeliveryInv
<1> QED BY <1>1, <1>2, <1>3, <1>4 DEF TrialStep

LEMMA LossKeepsInv ==
    ASSUME DeliveryInv, DeliveriesLost
    PROVE  DeliveryInv'
<1>0. DeliveryTypeOK /\ StartedOK
  BY DEF DeliveryInv
<1>1. DeliveryTypeOK'
  <2>1. why' \in [Posts -> [Channels -> SUBSET Reasons]]
    BY <1>0 DEF DeliveriesLost, DeliveryTypeOK, Reasons
  <2>2. phase' \in [Posts -> [Channels -> {"none", "end"} \cup Trying]]
    BY <1>0 DEF DeliveriesLost, DeliveryTypeOK
  <2>3. post' \in [Posts -> {"none", "end"} \cup Handling]
    BY <1>0 DEF DeliveriesLost, DeliveryTypeOK
  <2> QED BY <1>0, <2>1, <2>2, <2>3 DEF DeliveriesLost, DeliveryTypeOK
<1>2. \A n \in Posts :
        /\ post'[n] = IF post[n] \in Handling THEN "end" ELSE post[n]
        /\ \A c \in Channels :
             /\ phase'[n][c] = IF phase[n][c] \in Trying THEN "end" ELSE phase[n][c]
             /\ why[n][c] \subseteq why'[n][c]
             /\ post[n] \in Handling \/ phase[n][c] \in Trying => why'[n][c] # {}
  BY DEF DeliveriesLost
<1>3. UNCHANGED <<history, tries, reached, wire, told, failed>>
  BY DEF DeliveriesLost
<1>4. \A n \in Posts : post[n] \in {"none", "end", "record", "forward"}
  BY <1>0 DEF DeliveryTypeOK, Handling
<1>5. \A n \in Posts, c \in Channels : phase[n][c] \in {"none", "end", "send", "wait"}
  BY <1>0 DEF DeliveryTypeOK, Trying
<1> QED BY <1>0, <1>1, <1>2, <1>3, <1>4, <1>5, QuietKeepsInv
        DEF StartedOK, Recorded, Handling, Trying

-----------------------------------------------------------------------------
(* Analyses.                                                               *)

\* Whether analysis a, in its next state, is as the invariant has it.
Fits(a) ==
    /\ stage[a] = "tools" => round[a] # MaxRounds - 2
    /\ round[a] = MaxRounds - 1 => a \in concluding
    /\ ending[a] # "" => stage[a] = "end"
    /\ stage[a] = "answer" => kind[a] = "chat" \/ a \in saved \cup unsaved
    /\ a \in shown => stage[a] = "end" /\ (kind[a] = "chat" \/ a \in saved \cup unsaved)
    /\ ending[a] = "exhausted" => a \in concluding

LEMMA AgentInvFits == AgentInv <=> AgentTypeOK /\ \A a \in Analyses : Fits(a)
BY DEF AgentInv, RoundsOK, AnalysisOK, ToldBeforeExhausted, Fits

\* A step of one analysis leaves the others alone.
LEMMA OneKeepsInv ==
    ASSUME NEW a \in Analyses, AgentInv, AgentTypeOK', Fits(a)',
           \A b \in Analyses \ {a} :
              /\ stage'[b] = stage[b] /\ kind'[b] = kind[b]
              /\ round'[b] = round[b] /\ ending'[b] = ending[b],
           concluding \subseteq concluding' /\ concluding' \subseteq concluding \cup {a},
           shown \subseteq shown' /\ shown' \subseteq shown \cup {a},
           saved \subseteq saved' /\ unsaved \subseteq unsaved'
    PROVE  AgentInv'
<1>1. \A b \in Analyses : Fits(b)
  BY AgentInvFits
<1>2. ASSUME NEW b \in Analyses, b # a PROVE Fits(b)'
  BY <1>1, <1>2 DEF Fits
<1> QED BY <1>2, AgentInvFits DEF AgentInv, AgentTypeOK, RoundsOK, AnalysisOK,
        ToldBeforeExhausted, Fits

LEMMA GotoIs ==
    ASSUME AgentTypeOK, NEW a \in Analyses,
           NEW s \in {"none", "end"} \cup Working, Goto(a, s)
    PROVE  /\ stage' \in [Analyses -> {"none", "end"} \cup Working]
           /\ stage'[a] = s
           /\ \A b \in Analyses \ {a} : stage'[b] = stage[b]
BY DEF AgentTypeOK, Goto

LEMMA EndIs ==
    ASSUME AgentTypeOK, NEW a \in Analyses, NEW how \in Endings, End(a, how)
    PROVE  /\ stage' \in [Analyses -> {"none", "end"} \cup Working]
           /\ round' \in [Analyses -> 0..(MaxRounds - 1)]
           /\ ending' \in [Analyses -> Endings]
           /\ stage'[a] = "end" /\ round'[a] = 0 /\ ending'[a] = how
           /\ \A b \in Analyses \ {a} :
                stage'[b] = stage[b] /\ round'[b] = round[b] /\ ending'[b] = ending[b]
<1>1. Goto(a, "end")
  BY DEF End
<1>2. /\ round \in [Analyses -> 0..(MaxRounds - 1)] /\ 0 \in 0..(MaxRounds - 1)
      /\ ending \in [Analyses -> Endings]
  BY Numbers DEF AgentTypeOK
<1> QED BY <1>1, <1>2, GotoIs DEF End

\* The next round of an analysis that may have one.
LEMMA RoundIs ==
    ASSUME AgentTypeOK, NEW a \in Analyses, round[a] + 1 < MaxRounds,
           round' = [round EXCEPT ![a] = @ + 1]
    PROVE  /\ round' \in [Analyses -> 0..(MaxRounds - 1)]
           /\ round'[a] = round[a] + 1
           /\ \A b \in Analyses \ {a} : round'[b] = round[b]
<1>1. round \in [Analyses -> 0..(MaxRounds - 1)]
  BY DEF AgentTypeOK
<1>2. round[a] + 1 \in 0..(MaxRounds - 1)
  BY <1>1, AgentAssumption
<1> QED BY <1>1, <1>2

LEMMA AgentKeepsInv ==
    ASSUME AgentInv, AgentNext
    PROVE  AgentInv'
<1> PICK a \in Analyses : Start(a) \/ AnalysisStep(a) \/ HandlerPanics(a)
  BY DEF AgentNext
<1>a. AgentTypeOK /\ Fits(a)
  BY AgentInvFits
<1>b. kind \in [Analyses -> Kinds]
  BY <1>a DEF AgentTypeOK
<1>c. MaxRounds \in Nat /\ MaxRounds - 1 # 0
  BY Numbers
<1>e. round[a] \in Nat
  BY <1>a, AgentAssumption DEF AgentTypeOK
<1>d. /\ "ask" \in Working /\ "tools" \in Working /\ "save" \in Working
      /\ "answer" \in Working
      /\ \A how \in {"reported", "no model", "call failed", "exhausted", "panicked"} :
            how \in Endings /\ how # ""
  BY DEF Working, Endings
<1>1. CASE Start(a)
  <2>1. /\ kind' \in [Analyses -> Kinds] /\ \A b \in Analyses \ {a} : kind'[b] = kind[b]
        /\ stage[a] = "none"
        /\ UNCHANGED <<concluding, saved, shown, unsaved>>
    BY <1>b, <1>1 DEF Start
  <2>2. CASE Goto(a, "ask") /\ UNCHANGED <<round, ending>>
    <3>1. AgentTypeOK'
      BY <1>a, <1>d, <2>1, <2>2, GotoIs DEF AgentTypeOK
    <3>s. stage'[a] = "ask"
      BY <1>a, <1>d, <2>2, GotoIs
    <3>2. Fits(a)'
      BY <1>a, <2>1, <2>2, <3>s DEF Fits
    <3> QED BY <1>a, <1>d, <2>1, <2>2, <3>1, <3>2, GotoIs, OneKeepsInv
  <2>3. CASE End(a, "no model")
    <3>1. AgentTypeOK'
      BY <1>a, <1>d, <2>1, <2>3, EndIs DEF AgentTypeOK
    <3>2. Fits(a)'
      BY <1>a, <1>c, <1>d, <2>1, <2>3, EndIs DEF Fits
    <3> QED BY <1>a, <1>d, <2>1, <2>3, <3>1, <3>2, EndIs, OneKeepsInv
  <2> QED BY <1>1, <2>2, <2>3 DEF Start
<1>2. CASE WantTools(a)
  <2>1. stage[a] = "ask" /\ UNCHANGED <<kind, saved, shown, unsaved, ending>>
    BY <1>2 DEF WantTools
  <2>2. CASE /\ round[a] = MaxRounds - 2 /\ concluding' = concluding \cup {a}
             /\ round' = [round EXCEPT ![a] = @ + 1] /\ UNCHANGED stage
    <3>1. AgentTypeOK'
      BY <1>a, <1>c, <2>1, <2>2, RoundIs DEF AgentTypeOK
    <3>2. Fits(a)'
      BY <1>a, <2>1, <2>2 DEF Fits
    <3> QED BY <1>a, <1>c, <2>1, <2>2, <3>1, <3>2, RoundIs, OneKeepsInv
  <2>3. CASE /\ round[a] # MaxRounds - 2 /\ Goto(a, "tools")
             /\ UNCHANGED <<concluding, round>>
    <3>1. AgentTypeOK'
      BY <1>a, <1>d, <2>1, <2>3, GotoIs DEF AgentTypeOK
    <3>s. stage'[a] = "tools"
      BY <1>a, <1>d, <2>3, GotoIs
    <3>2. Fits(a)'
      BY <1>a, <2>1, <2>3, <3>s DEF Fits
    <3> QED BY <1>a, <1>d, <2>1, <2>3, <3>1, <3>2, GotoIs, OneKeepsInv
  <2> QED BY <1>2, <2>2, <2>3 DEF WantTools
<1>3. CASE RunTools(a)
  <2>1. stage[a] = "tools" /\ UNCHANGED <<kind, concluding, saved, shown, unsaved>>
    BY <1>3 DEF RunTools
  <2>2. CASE /\ round[a] + 1 < MaxRounds /\ round' = [round EXCEPT ![a] = @ + 1]
             /\ Goto(a, "ask") /\ UNCHANGED ending
    <3>1. AgentTypeOK'
      BY <1>a, <1>d, <2>1, <2>2, GotoIs, RoundIs DEF AgentTypeOK
    <3>2. stage'[a] = "ask" /\ round'[a] = round[a] + 1
      BY <1>a, <1>d, <2>2, GotoIs, RoundIs
    <3>4. round[a] # MaxRounds - 2
      BY <1>a, <2>1 DEF Fits
    <3>5. round'[a] # MaxRounds - 1
      BY <1>c, <1>e, <3>2, <3>4
    <3>3. Fits(a)'
      BY <1>a, <2>1, <2>2, <3>2, <3>5 DEF Fits
    <3> QED BY <1>a, <1>d, <2>1, <2>2, <3>1, <3>3, GotoIs, RoundIs, OneKeepsInv
  <2>3. CASE round[a] + 1 = MaxRounds /\ End(a, "exhausted")
    <3>1. AgentTypeOK'
      BY <1>a, <1>d, <2>1, <2>3, EndIs DEF AgentTypeOK
    <3>2. /\ stage'[a] = "end" /\ round'[a] = 0 /\ ending'[a] = "exhausted"
      BY <1>a, <1>d, <2>3, EndIs
    <3>4. round[a] = MaxRounds - 1
      BY <1>c, <1>e, <2>3
    <3>3. Fits(a)'
      BY <1>a, <1>c, <2>1, <3>2, <3>4 DEF Fits
    <3> QED BY <1>a, <1>d, <2>1, <2>3, <3>1, <3>3, EndIs, OneKeepsInv
  <2> QED BY <1>3, <2>2, <2>3 DEF RunTools
<1>4. CASE CallFails(a) \/ HandlerPanics(a)
  <2>1. PICK how \in {"call failed", "panicked"} : End(a, how)
    BY <1>4 DEF CallFails, HandlerPanics
  <2>2. stage[a] \in {"ask", "tools"} /\ UNCHANGED <<kind, concluding, saved, shown, unsaved>>
    BY <1>4 DEF CallFails, HandlerPanics
  <2>3. AgentTypeOK'
    BY <1>a, <1>d, <2>1, <2>2, EndIs DEF AgentTypeOK
  <2>4. stage'[a] = "end" /\ round'[a] = 0 /\ ending'[a] = how
    BY <1>a, <1>d, <2>1, EndIs
  <2>5. Fits(a)'
    <3>1. MaxRounds - 1 # 0
      BY <1>c
    <3>2. round'[a] # MaxRounds - 1
      BY <2>4, <3>1
    <3>3. a \notin shown'
      BY <1>a, <2>2 DEF Fits
    <3>4. ending'[a] # "exhausted"
      BY <2>4
    <3>5. stage'[a] # "answer" /\ stage'[a] # "tools"
      BY <2>4
    <3> QED BY <2>4, <3>2, <3>3, <3>4, <3>5 DEF Fits
  <2> QED BY <1>a, <1>d, <2>1, <2>2, <2>3, <2>5, EndIs, OneKeepsInv
<1>5. CASE Report(a)
  <2>1. /\ stage[a] = "ask" /\ UNCHANGED <<kind, round, concluding, saved, shown, unsaved, ending>>
        /\ Goto(a, IF kind[a] = "chat" THEN "answer" ELSE "save")
    BY <1>5 DEF Report
  <2>2. AgentTypeOK'
    BY <1>a, <1>d, <2>1, GotoIs DEF AgentTypeOK
  <2>s. stage'[a] = IF kind[a] = "chat" THEN "answer" ELSE "save"
    BY <1>a, <1>d, <2>1, GotoIs
  <2>3. Fits(a)'
    BY <1>a, <2>1, <2>s DEF Fits
  <2> QED BY <1>a, <1>d, <2>1, <2>2, <2>3, GotoIs, OneKeepsInv
<1>6. CASE Save(a)
  <2>1. /\ stage[a] = "save" /\ UNCHANGED <<kind, concluding, shown>>
        /\ saved \subseteq saved' /\ unsaved \subseteq unsaved' /\ a \in saved' \cup unsaved'
        /\ saved' \subseteq saved \cup {a} /\ unsaved' \subseteq unsaved \cup {a}
    BY <1>6 DEF Save
  <2>2. CASE kind[a] = "webhook" /\ End(a, "reported")
    <3>1. AgentTypeOK'
      BY <1>a, <1>d, <2>1, <2>2, EndIs DEF AgentTypeOK
    <3>2. stage'[a] = "end" /\ round'[a] = 0 /\ ending'[a] = "reported"
      BY <1>a, <1>d, <2>2, EndIs
    <3>3. Fits(a)'
      BY <1>a, <1>c, <2>1, <3>2 DEF Fits
    <3> QED BY <1>a, <1>d, <2>1, <2>2, <3>1, <3>3, EndIs, OneKeepsInv
  <2>3. CASE Goto(a, "answer") /\ UNCHANGED <<round, ending>>
    <3>1. AgentTypeOK'
      BY <1>a, <1>d, <2>1, <2>3, GotoIs DEF AgentTypeOK
    <3>s. stage'[a] = "answer"
      BY <1>a, <1>d, <2>3, GotoIs
    <3>2. Fits(a)'
      BY <1>a, <2>1, <2>3, <3>s DEF Fits
    <3> QED BY <1>a, <1>d, <2>1, <2>3, <3>1, <3>2, GotoIs, OneKeepsInv
  <2> QED BY <1>6, <2>2, <2>3 DEF Save
<1>7. CASE Answer(a)
  <2>1. /\ stage[a] = "answer" /\ UNCHANGED <<kind, concluding, saved, unsaved>>
        /\ shown' = shown \cup {a} /\ End(a, "reported")
    BY <1>7 DEF Answer
  <2>2. AgentTypeOK'
    BY <1>a, <1>d, <2>1, EndIs DEF AgentTypeOK
  <2>3. stage'[a] = "end" /\ round'[a] = 0 /\ ending'[a] = "reported"
    BY <1>a, <1>d, <2>1, EndIs
  <2>4. Fits(a)'
    BY <1>a, <1>c, <2>1, <2>3 DEF Fits
  <2> QED BY <1>a, <1>d, <2>1, <2>2, <2>4, EndIs, OneKeepsInv
<1> QED BY <1>1, <1>2, <1>3, <1>4, <1>5, <1>6, <1>7 DEF AnalysisStep

LEMMA EndKeepsInv ==
    ASSUME AgentInv, NEW panics \in SUBSET Analyses,
           \A a \in panics : stage[a] \in Working,
           AnalysesLost(panics)
    PROVE  AgentInv'
<1>a. AgentTypeOK /\ \A a \in Analyses : Fits(a)
  BY AgentInvFits
<1>1. AgentTypeOK'
  BY <1>a, Numbers DEF AnalysesLost, AgentTypeOK, Endings, Working
<1>2. ASSUME NEW a \in Analyses PROVE Fits(a)'
  <2>1. /\ stage'[a] = IF stage[a] \in Working THEN "end" ELSE stage[a]
        /\ ending'[a] = IF a \in panics THEN "panicked"
                        ELSE IF stage[a] \in Working THEN "restart" ELSE ending[a]
        /\ round'[a] = 0
        /\ UNCHANGED <<kind, concluding, saved, shown, unsaved>>
    BY DEF AnalysesLost
  <2>2. 0 # MaxRounds - 1 /\ stage'[a] \notin Working
    BY <2>1, Numbers DEF Working
  <2>3. Fits(a)
    BY <1>a
  <2> QED BY <2>1, <2>2, <2>3 DEF Fits, Working
<1> QED BY <1>1, <1>2, AgentInvFits DEF AgentInv, AgentTypeOK, RoundsOK, AnalysisOK,
        ToldBeforeExhausted, Fits

-----------------------------------------------------------------------------
LEMMA NextIInv == IInv /\ [Next]_vars => IInv'
<1> SUFFICES ASSUME IInv, [Next]_vars PROVE IInv'
  OBVIOUS
<1>1. CASE UNCHANGED vars
  <2> USE <1>1 DEF vars, deliveryVars, agentVars
  <2>1. DeliveryInv'
    BY DEF IInv, DeliveryInv, DeliveryTypeOK, StartedOK, OverlapOK, ReachedOK, EndOK,
       Recorded, Busy
  <2>2. AgentInv'
    BY DEF IInv, AgentInv, AgentTypeOK, RoundsOK, AnalysisOK, ToldBeforeExhausted
  <2> QED BY <2>1, <2>2 DEF IInv
<1>2. CASE Next
  <2>1. DeliveryInv'
    <3>1. CASE DeliveryNext
      BY <3>1, HandlerKeepsInv, TrialKeepsInv DEF DeliveryNext, IInv
    <3>2. CASE UNCHANGED deliveryVars
      BY <3>2 DEF deliveryVars, IInv, DeliveryInv, DeliveryTypeOK, StartedOK, OverlapOK,
         ReachedOK, EndOK, Recorded, Busy
    <3>3. CASE DeliveriesLost
      BY <3>3, LossKeepsInv DEF IInv
    <3> QED BY <1>2, <3>1, <3>2, <3>3 DEF Next, Panic, Crash
  <2>2. AgentInv'
    <3>1. CASE AgentNext
      BY <3>1, AgentKeepsInv DEF IInv
    <3>2. CASE UNCHANGED agentVars
      BY <3>2 DEF agentVars, IInv, AgentInv, AgentTypeOK, RoundsOK, AnalysisOK,
         ToldBeforeExhausted
    <3>3. ASSUME NEW a \in Analyses, GoroutinePanics(a) PROVE AgentInv'
      BY <3>3, EndKeepsInv DEF GoroutinePanics, Working, IInv
    <3>4. CASE AnalysesLost({})
      BY <3>4, EndKeepsInv DEF IInv
    <3> QED BY <1>2, <3>1, <3>2, <3>3, <3>4 DEF Next, Panic, Crash
  <2> QED BY <2>1, <2>2 DEF IInv
<1> QED BY <1>1, <1>2

-----------------------------------------------------------------------------
\* The inductive invariant holds throughout.
THEOREM Invariance == Spec => []IInv
<1> QED BY InitIInv, NextIInv, PTL DEF Spec

\* Every variable of both webhooks keeps its type; in particular no goroutine
\* tries more often than it may and no analysis goes on past its last round.
THEOREM TypeCorrect == Spec => []TypeOK
<1>1. IInv => TypeOK
  BY DEF IInv, DeliveryInv, AgentInv, TypeOK
<1> QED BY <1>1, Invariance, PTL

\* A channel whose last word on an alert is not the newest state is on its way
\* to it or has missed it for one of the named reasons, for any number of
\* channels, posts and tries and whatever the analyses do.
THEOREM LastWord == Spec => []LastWordHasCause
<1>1. IInv => LastWordHasCause
  <2> SUFFICES ASSUME IInv, NEW n \in Posts, Newest(n), NEW c \in Channels,
                      post[n] \notin Handling, phase[n][c] \notin Trying, why[n][c] = {}
               PROVE  told[c] = n
    BY DEF LastWordHasCause
  <2> USE DEF IInv, DeliveryInv, DeliveryTypeOK
  <2>1. post[n] = "end" /\ phase[n][c] = "end"
    BY DEF Newest, EndOK
  <2>2. told[c] >= n
    BY <2>1 DEF EndOK, ReachedOK
  <2>3. told[c] \in Posts /\ n \in Nat
    BY <2>2, DeliveryAssumption DEF Posts
  <2>4. post[told[c]] # "none"
    BY <2>3 DEF StartedOK, Posts
  <2> QED BY <2>2, <2>3, <2>4 DEF Newest, Posts
<1> QED BY <1>1, Invariance, PTL

\* Channels and users are told only what is in the tables, but for a failed
\* INSERT and the chat.
THEOREM NothingUnrecorded == Spec => []HeardIsRecorded
<1>1. IInv => HeardIsRecorded
  BY DEF IInv, DeliveryInv, StartedOK, Recorded, AgentInv, AnalysisOK, AgentTypeOK,
         HeardIsRecorded
<1> QED BY <1>1, Invariance, PTL

\* However many rounds there are, the last is begun with the order to conclude.
THEOREM LastRoundIsAnnounced == Spec => []ToldBeforeExhausted
<1>1. IInv => ToldBeforeExhausted
  BY DEF IInv, AgentInv
<1> QED BY <1>1, Invariance, PTL
=============================================================================
