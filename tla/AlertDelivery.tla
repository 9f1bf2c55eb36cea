--------------------------- MODULE AlertDelivery ---------------------------
(***************************************************************************)
(* What becomes of an alert that Alertmanager posts to                     *)
(* /mrboard/alert/v1/webhook.  The handler stores a row of alert_history   *)
(* and starts one goroutine per enabled channel, which posts the alert on, *)
(* up to three times.  Goroutines of successive posts know nothing of each *)
(* other, a try whose answer is late counts as failed although its request *)
(* may still arrive, and whatever a restart interrupts is not taken up.    *)
(* The posts here are about one alert: the later one is the alert's newer  *)
(* state.  Other alerts share nothing with it but the process.             *)
(***************************************************************************)
EXTENDS Integers, FiniteSets

CONSTANTS
    Channels, \* rows of alert_channel
    MaxPosts, \* bound: posts of Alertmanager
    MaxTries  \* times a goroutine posts an alert to its channel (3 in the code)

ASSUME DeliveryAssumption == MaxPosts \in Nat /\ MaxTries \in Nat \ {0}

Posts    == 1..MaxPosts
Tries    == 0..(MaxTries - 1)
Requests == Posts \X Channels \X Tries
Handling == {"record", "forward"}
Trying   == {"send", "wait"}
Reasons  == {"refused", "unread", "disabled", "gave up", "restart", "overlap"}

VARIABLES
    post,    \* where the handler of each post stands
    history, \* the posts with a row in alert_history
    phase,   \* where the goroutine of each post and channel stands
    tries,   \* its loop counter
    reached, \* those whose request of the present try has arrived
    wire,    \* requests to channels under way
    told,    \* the post each channel heard last, 0 before the first
    failed,  \* history: posts whose INSERT failed
    why      \* history: why a channel may not know of a post

deliveryVars == <<post, history, phase, tries, reached, wire, told, failed, why>>

DeliveryInit ==
    /\ post = [n \in Posts |-> "none"]
    /\ history = {}
    /\ phase = [n \in Posts |-> [c \in Channels |-> "none"]]
    /\ tries = [n \in Posts |-> [c \in Channels |-> 0]]
    /\ reached = {}
    /\ wire = {}
    /\ told = [c \in Channels |-> 0]
    /\ failed = {}
    /\ why = [n \in Posts |-> [c \in Channels |-> {}]]

-----------------------------------------------------------------------------
(* The handler.                                                            *)

Comes(n) == post[n] = "none" /\ \A m \in 1..(n - 1) : post[m] # "none"

\* Alertmanager posts the alert's next state, whether or not the handler of
\* the one before has answered.
Post(n) ==
    /\ Comes(n)
    /\ post' = [post EXCEPT ![n] = "record"]
    /\ UNCHANGED <<history, phase, tries, reached, wire, told, failed, why>>

\* No channel hears of post n, for reason r.
Nobody(n, r) ==
    /\ post' = [post EXCEPT ![n] = "end"]
    /\ why' = [why EXCEPT ![n] = [c \in Channels |-> @[c] \cup {r}]]

\* The payload is no list of alerts: "invalid payload", with HTTP status 200.
Refuse(n) ==
    /\ Comes(n)
    /\ Nobody(n, "refused")
    /\ UNCHANGED <<history, phase, tries, reached, wire, told, failed>>

\* CreateAlertHistory, whose error is dropped.
Record(n) ==
    /\ post[n] = "record"
    /\ post' = [post EXCEPT ![n] = "forward"]
    /\ \/ history' = history \cup {n} /\ UNCHANGED failed
       \/ failed' = failed \cup {n} /\ UNCHANGED history
    /\ UNCHANGED <<phase, tries, reached, wire, told, why>>

\* Something of post n may still reach channel c.
Busy(n, c) == phase[n][c] \in Trying \/ \E i \in Tries : <<n, c, i>> \in wire

\* What post n does to post m's prospects with channel c when its goroutines
\* start, one for each channel of enabled: the two posts overlap if the older
\* one is under way when the newer has started.
Prospect(n, m, c, enabled) ==
    CASE m = n /\ c \notin enabled                             -> {"disabled"}
      [] m = n /\ c \in enabled /\ \E k \in 1..(n - 1) : Busy(k, c) -> {"overlap"}
      [] m > n /\ c \in enabled /\ phase[m][c] # "none"        -> {"overlap"}
      [] OTHER                                                 -> {}

StartGoroutines(n) == \E enabled \in SUBSET Channels :
    /\ phase' = [phase EXCEPT ![n] = [c \in Channels |->
                    IF c \in enabled THEN "send" ELSE "none"]]
    /\ why' = [m \in Posts |-> [c \in Channels |->
                  why[m][c] \cup Prospect(n, m, c, enabled)]]

\* Mutant: the goroutines start before the row is stored.
ForwardFirst(n) ==
    /\ post[n] = "record"
    /\ post' = [post EXCEPT ![n] = "end"]
    /\ StartGoroutines(n)
    /\ UNCHANGED <<history, tries, reached, wire, told, failed>>

\* ForwardToChannels: a goroutine for every channel that is enabled by now, or
\* for none when they cannot be read.  The handler answers either way.
Forward(n) ==
    /\ post[n] = "forward"
    /\ \/ StartGoroutines(n) /\ post' = [post EXCEPT ![n] = "end"]
       \/ Nobody(n, "unread") /\ UNCHANGED phase
    /\ UNCHANGED <<history, tries, reached, wire, told, failed>>

-----------------------------------------------------------------------------
(* A goroutine and its channel.                                            *)

Send(n, c) ==
    /\ phase[n][c] = "send"
    /\ phase' = [phase EXCEPT ![n][c] = "wait"]
    /\ wire' = wire \cup {<<n, c, tries[n][c]>>}
    /\ UNCHANGED <<post, history, tries, reached, told, failed, why>>

\* A request reaches its channel, be it after its sender has given it up.
Receive(n, c, i) ==
    /\ <<n, c, i>> \in wire
    /\ wire' = wire \ {<<n, c, i>>}
    /\ told' = [told EXCEPT ![c] = n]
    /\ reached' = IF phase[n][c] = "wait" /\ tries[n][c] = i
                  THEN reached \cup {<<n, c>>} ELSE reached
    /\ UNCHANGED <<post, history, phase, tries, failed, why>>

\* Mutant: no error is taken for success, whatever the status.
AnsweredAnyhow(n, c) ==
    /\ phase[n][c] = "wait"
    /\ phase' = [phase EXCEPT ![n][c] = "end"]
    /\ UNCHANGED <<post, history, tries, reached, wire, told, failed, why>>

\* Status 2xx: the goroutine ends.
Answered(n, c) ==
    /\ phase[n][c] = "wait" /\ <<n, c>> \in reached
    /\ phase' = [phase EXCEPT ![n][c] = "end"]
    /\ UNCHANGED <<post, history, tries, reached, wire, told, failed, why>>

\* Mutant: the loop does not count.
FailedUncounted(n, c) ==
    /\ phase[n][c] = "wait"
    /\ phase' = [phase EXCEPT ![n][c] = "send"]
    /\ wire' \in {wire, wire \ {<<n, c, tries[n][c]>>}}
    /\ UNCHANGED <<post, history, tries, reached, told, failed, why>>

\* Another status, a network error, or ten seconds without an answer: once
\* more after two seconds, and after the last try never again.  The request
\* may be lost or arrive later.
Failed(n, c) ==
    /\ phase[n][c] = "wait"
    /\ wire' \in {wire, wire \ {<<n, c, tries[n][c]>>}}
    /\ \/ /\ tries[n][c] + 1 < MaxTries
          /\ phase' = [phase EXCEPT ![n][c] = "send"]
          /\ tries' = [tries EXCEPT ![n][c] = @ + 1]
          /\ reached' = reached \ {<<n, c>>}
          /\ UNCHANGED why
       \/ /\ tries[n][c] + 1 = MaxTries
          /\ phase' = [phase EXCEPT ![n][c] = "end"]
          /\ why' = [why EXCEPT ![n][c] = @ \cup {"gave up"}]
          /\ UNCHANGED <<tries, reached>>
    /\ UNCHANGED <<post, history, told, failed>>

-----------------------------------------------------------------------------
\* The process ends: handlers and goroutines are gone, requests sent are not.
DeliveriesLost ==
    /\ post' = [n \in Posts |-> IF post[n] \in Handling THEN "end" ELSE post[n]]
    /\ phase' = [n \in Posts |-> [c \in Channels |->
                    IF phase[n][c] \in Trying THEN "end" ELSE phase[n][c]]]
    /\ why' = [n \in Posts |-> [c \in Channels |->
                  IF post[n] \in Handling \/ phase[n][c] \in Trying
                  THEN why[n][c] \cup {"restart"} ELSE why[n][c]]]
    /\ UNCHANGED <<history, tries, reached, wire, told, failed>>

HandlerStep(n) == Record(n) \/ Forward(n)

TrialStep(n, c) == Send(n, c) \/ Answered(n, c) \/ Failed(n, c)

DeliveryNext ==
    \/ \E n \in Posts : Post(n) \/ Refuse(n) \/ HandlerStep(n)
    \/ \E n \in Posts, c \in Channels :
         TrialStep(n, c) \/ \E i \in Tries : Receive(n, c, i)

-----------------------------------------------------------------------------
DeliveryTypeOK ==
    /\ post \in [Posts -> {"none", "end"} \cup Handling]
    /\ history \subseteq Posts
    /\ phase \in [Posts -> [Channels -> {"none", "end"} \cup Trying]]
    /\ tries \in [Posts -> [Channels -> Tries]]
    /\ reached \subseteq Posts \X Channels
    /\ wire \subseteq Requests
    /\ told \in [Channels -> 0..MaxPosts]
    /\ failed \subseteq Posts
    /\ why \in [Posts -> [Channels -> SUBSET Reasons]]

Newest(n) == post[n] # "none" /\ \A m \in Posts : m > n => post[m] = "none"

\* What a channel heard last is the newest state Alertmanager has posted, or
\* is about to become it, or there is a reason that happened: the post was
\* refused, the channels could not be read, the channel was disabled, three
\* tries failed, the process ended, or an older post of the alert was still on
\* its way to the channel when the newer one had set out.  In particular posts
\* that do not overlap are never heard in the wrong order.
LastWordHasCause ==
    \A n \in Posts : Newest(n) =>
        \A c \in Channels :
            \/ told[c] = n
            \/ post[n] \in Handling
            \/ phase[n][c] \in Trying
            \/ why[n][c] # {}
=============================================================================
