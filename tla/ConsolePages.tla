---------------------------- MODULE ConsolePages ----------------------------
(***************************************************************************)
(* The list pages that show the console's own tables (frontend/src/pages/  *)
(* cluster, rbac, cicd, alerts, ops, wiki, ...) as records of module       *)
(* ListPages.  No cluster is part of their request, or it stays what it    *)
(* was when the page was mounted.                                          *)
(***************************************************************************)
LOCAL INSTANCE KubernetesPages

\* fetch in an effect without dependencies.
Console(ops) ==
    [from |-> "none", deps |-> {}, search |-> FALSE, patient |-> FALSE,
     refresh |-> FALSE, spins |-> TRUE, ops |-> ops]

\* A ConfirmDialog whose handler fetches on success; the same with a Dialog whose
\* button a flag disables, and with one that nothing disables.
Confirmed == Request("remove", TRUE, "dialog", "loud", "never")
Flagged   == Request("remove", TRUE, "flag", "loud", "never")
Unguarded == Request("remove", TRUE, "none", "loud", "never")

\* An action that leaves the list alone and fetches nothing.
Aside(guard) == [Request("act", TRUE, guard, "none", "never") EXCEPT !.writes = FALSE]

\* Fetching again with the page's first parameters, whatever has been typed.
Forgetting(op) == [op EXCEPT !.drops = TRUE]

-----------------------------------------------------------------------------
(* Clusters, users, roles.                                                 *)

ClusterList == Console({Flagged})

\* Choosing a cluster stores it and fetches the list.
MyClusterList == [Console({}) EXCEPT !.refresh = TRUE]

ClusterToUserList ==
    [Console({Forgetting(Confirmed), Forgetting(LoudCreation)}) EXCEPT !.search = TRUE]

AdminCreation == LoudCreation

AdminList == Console({Flagged, AdminCreation})

GroupCreation == LoudCreation

GroupList == Console({Flagged, GroupCreation})

RoleCreation == LoudCreation

RoleList == Console({Flagged, RoleCreation})

\* AddAccess gives the selected nodes to a role.
NodeAccess == Aside("none")

NodeCreation == [LoudCreation EXCEPT !.guard = "none"]

\* The effect on the group's filter does nothing when the filter is taken away.
RbacNodeList == [Console({Unguarded, NodeCreation, NodeAccess}) EXCEPT !.deps = {"chosen"}]

RoleToNodeRemoval == Confirmed

RoleToNodeList == Console({RoleToNodeRemoval})

RoleToUserList == Console({Confirmed, [LoudCreation EXCEPT !.guard = "none"]})

LockList == Console({Confirmed, [Confirmed EXCEPT !.name = "act"]})

\* The search button is disabled while the list is loading.
AuditLogList == [Console({}) EXCEPT !.search = TRUE, !.patient = TRUE]

-----------------------------------------------------------------------------
(* Pipelines.                                                              *)

\* Running starts the pipeline, then posts its status: two requests.
CICDRun == Forgetting([Confirmed EXCEPT !.name = "act"])

CICDList == [Console({Forgetting(Confirmed), CICDRun}) EXCEPT !.search = TRUE, !.refresh = TRUE]

JenkinsCreation == [LoudCreation EXCEPT !.guard = "none"]

JenkinsList == Console({Confirmed, JenkinsCreation})

AliyunCreation == [LoudCreation EXCEPT !.guard = "none"]

AliyunAKList == Console({Confirmed, AliyunCreation})

-----------------------------------------------------------------------------
(* Alerts.                                                                 *)

RuleToggle == [Unguarded EXCEPT !.name = "act"]

AlertRuleList == [Console({Confirmed, RuleToggle}) EXCEPT !.refresh = TRUE]

\* Without a skeleton.
AlertChannelList ==
    [Console({[Confirmed EXCEPT !.now = "quiet"], Aside("none")}) EXCEPT !.spins = FALSE]

ActiveAlerts == Console({})

AlertHistory == [Console({}) EXCEPT !.deps = {"filter"}]

-----------------------------------------------------------------------------
(* Application names, wiki, search, backups and the rest.                  *)

\* The row's field is changed in place; the state keeps the old value.
AppNameEdit == Request("edit", TRUE, "none", "none", "never")

AppNameList == [Console({Confirmed, AppNameEdit}) EXCEPT !.search = TRUE]

WikiList == [Console({Confirmed}) EXCEPT !.deps = {"filter"}]

FavoriteList == Console({Confirmed})

AppDown == Console({})

ColumnList == Console({})

\* A deleted entry is taken out of the state.
SearchPage == [Console({[Confirmed EXCEPT !.now = "local"]}) EXCEPT !.search = TRUE]

BackupCreation == LoudCreation

\* A recovery fetches nothing.
BackupList == [Console({BackupCreation, Aside("dialog")}) EXCEPT !.refresh = TRUE]

CloneRecords == Console({[LoudCreation EXCEPT !.guard = "dialog"]})

HomePage == Console({})

ConsolePages ==
    {ClusterList, MyClusterList, ClusterToUserList, AdminList, GroupList, RoleList, RbacNodeList,
     RoleToNodeList, RoleToUserList, LockList, AuditLogList, CICDList, JenkinsList, AliyunAKList,
     AlertRuleList, AlertChannelList, ActiveAlerts, AlertHistory, AppNameList, WikiList,
     FavoriteList, AppDown, ColumnList, SearchPage, BackupList, CloneRecords, HomePage}

=============================================================================
