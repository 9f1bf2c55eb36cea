--------------------------- MODULE AnalysisAgent ---------------------------
(***************************************************************************)
(* An analysis: a language model is asked again and again, with the        *)
(* results of the tools it wanted, until it reports, the call fails or the *)
(* rounds are used up (Analyze of ai/agent.go).  Three handlers run it for *)
(* a user and answer with the report; the webhook for alerts runs it in a  *)
(* goroutine of its own and answers at once.  What the loop logs, its      *)
(* progress events and the texts are left out.  The request's context is   *)
(* handed to Analyze and never looked at: that a user leaves changes       *)
(* nothing here.                                                           *)
(***************************************************************************)
EXTENDS Integers, FiniteSets

CONSTANTS
    MaxAnalyses, \* bound: analyses ever started
    MaxRounds    \* rounds of one analysis

ASSUME AgentAssumption == MaxAnalyses \in Nat /\ MaxRounds \in Nat /\ MaxRounds >= 2

Analyses == 1..MaxAnalyses
Kinds    == {"page", "chat", "webhook"}
Working  == {"ask", "tools", "save", "answer"}
Endings  == {"", "reported", "no model", "call failed", "exhausted", "panicked", "restart"}

VARIABLES
    stage,      \* where each analysis stands
    kind,       \* which handler started it
    round,      \* rounds begun before the present one
    concluding, \* those told to report and to call no more tools
    saved,      \* analyses with a row in analysis_history
    shown,      \* analyses whose report was sent to the user
    unsaved,    \* history: analyses whose INSERT failed
    ending      \* history: how each analysis ended

agentVars == <<stage, kind, round, concluding, saved, shown, unsaved, ending>>

AgentInit ==
    /\ stage = [a \in Analyses |-> "none"]
    /\ kind = [a \in Analyses |-> "page"]
    /\ round = [a \in Analyses |-> 0]
    /\ concluding = {}
    /\ saved = {}
    /\ shown = {}
    /\ unsaved = {}
    /\ ending = [a \in Analyses |-> ""]

Goto(a, s) == stage' = [stage EXCEPT ![a] = s]

\* Analyze has returned: its counter is gone.
End(a, how) ==
    /\ Goto(a, "end")
    /\ round' = [round EXCEPT ![a] = 0]
    /\ ending' = [ending EXCEPT ![a] = how]

\* A user asks for an analysis (Analyze and AnalyzeStream, which differ in what
\* they send meanwhile) or sends a message to the chat, or a webhook brings a
\* firing alert; alerts in another state are passed over.  The model's
\* configuration is read once, and without one there is no analysis.
Start(a) ==
    /\ stage[a] = "none"
    /\ \A b \in 1..(a - 1) : stage[b] # "none"
    /\ \E k \in Kinds : kind' = [kind EXCEPT ![a] = k]
    /\ \/ Goto(a, "ask") /\ UNCHANGED <<round, ending>>
       \/ End(a, "no model")
    /\ UNCHANGED <<concluding, saved, shown, unsaved>>

\* Mutant: the order to conclude is left out.
WantToolsUntold(a) ==
    /\ stage[a] = "ask"
    /\ Goto(a, "tools")
    /\ UNCHANGED <<kind, round, concluding, saved, shown, unsaved, ending>>

\* The model wants tools.  In the last round but one it does not get them but
\* the order to conclude.
WantTools(a) ==
    /\ stage[a] = "ask"
    /\ \/ /\ round[a] = MaxRounds - 2
          /\ concluding' = concluding \cup {a}
          /\ round' = [round EXCEPT ![a] = @ + 1]
          /\ UNCHANGED stage
       \/ /\ round[a] # MaxRounds - 2
          /\ Goto(a, "tools")
          /\ UNCHANGED <<concluding, round>>
    /\ UNCHANGED <<kind, saved, shown, unsaved, ending>>

\* The tools run one after the other, a tool's error being a text for the
\* model, and the next round begins.  After the last one the analysis fails.
RunTools(a) ==
    /\ stage[a] = "tools"
    /\ \/ /\ round[a] + 1 < MaxRounds
          /\ round' = [round EXCEPT ![a] = @ + 1]
          /\ Goto(a, "ask")
          /\ UNCHANGED ending
       \/ /\ round[a] + 1 = MaxRounds
          /\ End(a, "exhausted")
    /\ UNCHANGED <<kind, concluding, saved, shown, unsaved>>

\* No answer within two minutes, a status other than 200, no JSON.
CallFails(a) ==
    /\ stage[a] = "ask"
    /\ End(a, "call failed")
    /\ UNCHANGED <<kind, concluding, saved, shown, unsaved>>

\* Mutant: the report is sent first and saved afterwards.
ReportFirst(a) ==
    /\ stage[a] = "ask"
    /\ Goto(a, IF kind[a] = "webhook" THEN "save" ELSE "answer")
    /\ UNCHANGED <<kind, round, concluding, saved, shown, unsaved, ending>>

\* The model stops without tools: any text makes a report.  The chat's is not
\* saved.
Report(a) ==
    /\ stage[a] = "ask"
    /\ Goto(a, IF kind[a] = "chat" THEN "answer" ELSE "save")
    /\ UNCHANGED <<kind, round, concluding, saved, shown, unsaved, ending>>

\* CreateAnalysisHistory, whose error is dropped.
Save(a) ==
    /\ stage[a] = "save"
    /\ \/ saved' = saved \cup {a} /\ UNCHANGED unsaved
       \/ unsaved' = unsaved \cup {a} /\ UNCHANGED saved
    /\ \/ kind[a] = "webhook" /\ End(a, "reported")
       \/ kind[a] # "webhook" /\ Goto(a, "answer") /\ UNCHANGED <<round, ending>>
    /\ UNCHANGED <<kind, concluding, shown>>

Answer(a) ==
    /\ stage[a] = "answer"
    /\ shown' = shown \cup {a}
    /\ End(a, "reported")
    /\ UNCHANGED <<kind, concluding, saved, unsaved>>

\* The log line about a result cuts the first eight characters of its id, and
\* a shorter id is a panic.  A handler's is recovered by beego.
HandlerPanics(a) ==
    /\ stage[a] = "tools" /\ kind[a] # "webhook"
    /\ End(a, "panicked")
    /\ UNCHANGED <<kind, concluding, saved, shown, unsaved>>

\* The process ends, and every analysis with it: the one of panics, if there is
\* one, is the reason.
AnalysesLost(panics) ==
    /\ stage' = [a \in Analyses |-> IF stage[a] \in Working THEN "end" ELSE stage[a]]
    /\ ending' = [a \in Analyses |->
                     IF a \in panics THEN "panicked"
                     ELSE IF stage[a] \in Working THEN "restart" ELSE ending[a]]
    /\ round' = [a \in Analyses |-> 0]
    /\ UNCHANGED <<kind, concluding, saved, shown, unsaved>>

\* The same panic in the goroutine of a webhook, which nobody recovers.
GoroutinePanics(a) ==
    /\ stage[a] = "tools" /\ kind[a] = "webhook"
    /\ AnalysesLost({a})

AnalysisStep(a) ==
    \/ WantTools(a) \/ RunTools(a) \/ CallFails(a)
    \/ Report(a) \/ Save(a) \/ Answer(a)

AgentNext == \E a \in Analyses : Start(a) \/ AnalysisStep(a) \/ HandlerPanics(a)

-----------------------------------------------------------------------------
AgentTypeOK ==
    /\ stage \in [Analyses -> {"none", "end"} \cup Working]
    /\ kind \in [Analyses -> Kinds]
    /\ round \in [Analyses -> 0..(MaxRounds - 1)]
    /\ concluding \subseteq Analyses
    /\ saved \subseteq Analyses
    /\ shown \subseteq Analyses
    /\ unsaved \subseteq Analyses
    /\ ending \in [Analyses -> Endings]

\* "Force answer on second-to-last round": an analysis that runs out of rounds
\* was told to conclude and had one more call to do so.
ToldBeforeExhausted ==
    \A a \in Analyses : ending[a] = "exhausted" => a \in concluding
=============================================================================
