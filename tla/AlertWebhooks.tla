--------------------------- MODULE AlertWebhooks ---------------------------
(***************************************************************************)
(* The two webhooks of Alertmanager in one process: deliveries to channels *)
(* and analyses of alerts share neither rows nor variables, but a panic in *)
(* a goroutine of the one ends the other.                                  *)
(***************************************************************************)
EXTENDS AlertDelivery, AnalysisAgent

vars == <<deliveryVars, agentVars>>

Init == DeliveryInit /\ AgentInit

Crash ==
    /\ \/ \E n \in Posts : post[n] \in Handling \/ \E c \in Channels : phase[n][c] \in Trying
       \/ \E a \in Analyses : stage[a] \in Working
    /\ DeliveriesLost
    /\ AnalysesLost({})

Panic(a) ==
    /\ GoroutinePanics(a)
    /\ DeliveriesLost

Next ==
    \/ DeliveryNext /\ UNCHANGED agentVars
    \/ AgentNext /\ UNCHANGED deliveryVars
    \/ \E a \in Analyses : Panic(a)
    \/ Crash

Spec == Init /\ [][Next]_vars

\* A post to a channel is given up after ten seconds and a question to the model
\* after two minutes, so these steps come.  The tools ask API servers through a
\* client without a timeout, the INSERT waits for the database and the answer
\* for its reader: none of these need ever return.
Fairness ==
    /\ \A n \in Posts, c \in Channels : WF_vars(TrialStep(n, c) /\ UNCHANGED agentVars)
    /\ \A a \in Analyses :
         WF_vars((WantTools(a) \/ CallFails(a) \/ Report(a)) /\ UNCHANGED deliveryVars)

FairSpec == Spec /\ Fairness

-----------------------------------------------------------------------------
TypeOK == DeliveryTypeOK /\ AgentTypeOK

\* Nobody is told what the tables do not show: a channel that has heard of a
\* post finds its row in the alert history, and a user who has a report finds
\* it in the history of analyses, unless the INSERT failed, which is dropped
\* silently, or the report is a chat's.
HeardIsRecorded ==
    /\ \A c \in Channels : told[c] = 0 \/ told[c] \in history \cup failed
    /\ \A a \in shown : kind[a] = "chat" \/ a \in saved \cup unsaved

\* A delivery ends after at most three tries, whatever the channel does.  An
\* analysis ends as well, after at most five rounds, unless one of its tools, its
\* INSERT or its answer hangs for ever: it never goes round without end.
GoroutinesEnd ==
    /\ \A n \in Posts, c \in Channels : phase[n][c] \in Trying ~> phase[n][c] = "end"
    /\ \A a \in Analyses : stage[a] \in Working ~>
         \/ stage[a] = "end"
         \/ \E s \in {"tools", "save", "answer"} : [](stage[a] = s)
=============================================================================
