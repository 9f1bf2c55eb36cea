------------------------------- MODULE Views -------------------------------
(* What the pages of the console ask for; see Queries for the fields.  The   *)
(* pages under monitor and log are not routed at present: App.tsx sends their *)
(* addresses to GrafanaDashboard, which embeds Grafana instead.              *)

View == [sends |-> {"subject"}, deps |-> {"subject"}, wipes |-> {}, first |-> TRUE,
         button |-> "none", auto |-> "no", delay |-> FALSE, spins |-> "each", stuck |-> FALSE,
         clears |-> FALSE, memo |-> FALSE, stream |-> FALSE, posts |-> "never"]

Once == [View EXCEPT !.sends = {}, !.deps = {}]

Everything == {"subject", "filter", "range"}

(* monitor (not routed) *)
MetricCards     == [View EXCEPT !.sends = Everything, !.deps = {"subject", "filter"},
                                !.button = "free", !.auto = "switch", !.stuck = TRUE]
MetricDetail    == [View EXCEPT !.sends = Everything, !.first = FALSE, !.button = "free",
                                !.memo = TRUE]
MetricBreakdown == [View EXCEPT !.sends = Everything, !.deps = Everything,
                                !.wipes = {"subject"}, !.first = FALSE]
CustomQuery     == [View EXCEPT !.sends = {"subject", "range"}, !.deps = {}, !.first = FALSE,
                                !.button = "patient"]
MonitorDashboard == [Once EXCEPT !.button = "patient"]
ServiceHealth   == [View EXCEPT !.wipes = {"subject"}, !.first = FALSE, !.button = "patient",
                                !.clears = TRUE]

(* log (not routed) *)
LogHistogram    == [View EXCEPT !.sends = Everything, !.deps = {"subject", "range"},
                                !.wipes = {"subject"}, !.first = FALSE, !.button = "patient",
                                !.auto = "switch", !.spins = "never"]
LogLines        == [LogHistogram EXCEPT !.deps = {}, !.spins = "each"]
LogServices     == [View EXCEPT !.first = FALSE, !.spins = "never"]
DrilldownSummary == [View EXCEPT !.sends = Everything, !.deps = Everything, !.delay = TRUE,
                                 !.button = "patient"]
DrilldownLogs   == [View EXCEPT !.sends = Everything, !.wipes = {"subject"}, !.first = FALSE]
REDMetrics      == [View EXCEPT !.clears = TRUE]
TraceSearch     == [View EXCEPT !.sends = Everything, !.deps = {}, !.first = FALSE,
                                !.button = "patient"]
TraceDetail     == View
SpanLogs        == [View EXCEPT !.first = FALSE, !.clears = TRUE]
ServiceOverview == View
ServiceGraph    == [View EXCEPT !.button = "patient"]

(* pods, tools, home *)
PodLog          == [View EXCEPT !.sends = {"subject", "range"}, !.button = "patient"]
TargetNamespaces == [View EXCEPT !.first = FALSE, !.spins = "never", !.clears = TRUE]
CloneNamespaces == [TargetNamespaces EXCEPT !.clears = FALSE]
HomeAlerts      == [Once EXCEPT !.clears = TRUE]
ActiveAlerts    == [Once EXCEPT !.spins = "never"]

(* ai *)
AIAnalysis      == [View EXCEPT !.deps = {}, !.wipes = {"subject"}, !.first = FALSE,
                                !.button = "patient", !.stream = TRUE]
FollowUp        == [View EXCEPT !.deps = {}, !.wipes = {"subject"}, !.first = FALSE,
                                !.button = "patient"]

(* cicd *)
PipelinesIndex  == [Once EXCEPT !.auto = "ends", !.spins = "first", !.posts = "both"]
PipelinesDetail == [Once EXCEPT !.auto = "ends", !.spins = "first"]
JenkinsJobDetail == [Once EXCEPT !.auto = "run", !.spins = "first", !.posts = "start"]
JobLog          == [Once EXCEPT !.auto = "mount", !.spins = "first"]
JenkinsLog      == JobLog

AllViews ==
    {MetricCards, MetricDetail, MetricBreakdown, CustomQuery, MonitorDashboard, ServiceHealth,
     LogHistogram, LogLines, LogServices, DrilldownSummary, DrilldownLogs, REDMetrics,
     TraceSearch, TraceDetail, SpanLogs, ServiceOverview, ServiceGraph, PodLog,
     TargetNamespaces, CloneNamespaces, HomeAlerts, ActiveAlerts, AIAnalysis, FollowUp,
     PipelinesIndex, PipelinesDetail, JenkinsJobDetail, JobLog, JenkinsLog}

=============================================================================
