--------------------------- MODULE KubernetesPages ---------------------------
(***************************************************************************)
(* What each list page under frontend/src/pages/k8s and pages/deploy is,   *)
(* as a record of module ListPages.  The pages are copies of two patterns: *)
(* with a progress label and a timer, or with a flag.                      *)
(***************************************************************************)

Request(name, row, guard, now, later) ==
    [name |-> name, row |-> row, guard |-> guard, early |-> FALSE, label |-> FALSE,
     writes |-> TRUE, now |-> now, drops |-> FALSE, later |-> later]

\* `const clusterId = localStorage.getItem('clusterId')' in the body, and
\* `useEffect(() => { fetchData() }, [clusterId])'.
OfCluster(ops) ==
    [from |-> "storage", deps |-> {"cluster"}, search |-> FALSE, patient |-> FALSE,
     refresh |-> TRUE, spins |-> TRUE, ops |-> ops]

\* handleDelete with operatingDeploy and operationProgress: the list is fetched
\* on success, and again 600 ms after the end.
Removal == [Request("remove", TRUE, "dialog", "quiet", "settled") EXCEPT !.label = TRUE]

\* handleDelete with deleting and operatingName: the finally takes the label away.
PlainRemoval == [Request("remove", TRUE, "dialog", "loud", "never") EXCEPT !.label = TRUE]

QuietCreation == Request("create", FALSE, "flag", "quiet", "never")
LoudCreation  == Request("create", FALSE, "flag", "loud", "never")

-----------------------------------------------------------------------------
(* Deployments.                                                            *)

\* The dialogs close before the request; the label goes with a timer, or at once
\* when the request fails.
DeployRemoval == [Request("remove", TRUE, "none", "none", "success") EXCEPT
                     !.early = TRUE, !.label = TRUE]

DeployScale   == [DeployRemoval EXCEPT !.name = "act"]

DeployRestart == [DeployRemoval EXCEPT !.name = "restart", !.writes = FALSE, !.later = "poll"]

DeployCreation == QuietCreation

\* The cluster is a state, and the namespace is part of the request.
DeployList ==
    [OfCluster({DeployRemoval, DeployScale, DeployRestart, DeployCreation}) EXCEPT
        !.from = "state", !.deps = {"cluster", "filter"}]

-----------------------------------------------------------------------------
(* Workloads.                                                              *)

StatefulSetRestart == [Removal EXCEPT !.name = "restart", !.writes = FALSE,
                                      !.now = "none", !.later = "poll"]

StatefulSetCreation == QuietCreation

StatefulSetList == OfCluster({Removal, StatefulSetRestart, StatefulSetCreation})

DaemonSetList == OfCluster({Removal})

JobK8sList == OfCluster({Removal})

\* Running a CronJob now leaves the list alone.
CronJobRun == [Request("act", TRUE, "none", "none", "never") EXCEPT !.writes = FALSE]

CronJobCreation == QuietCreation

CronJobList == OfCluster({Removal, CronJobRun, CronJobCreation})

HpaList == OfCluster({Removal, QuietCreation})

\* The effect depends on the namespace only.
PodK8sList == [OfCluster({Removal}) EXCEPT !.deps = {"filter"}]

\* The installation of the metrics server: the list is fetched 5 s after it.
MetricsInstallation == Request("act", FALSE, "dialog", "none", "success")

TopPodMetric == [OfCluster({MetricsInstallation}) EXCEPT !.deps = {"cluster", "filter"}]

-----------------------------------------------------------------------------
(* Services, routes, configuration, storage.                               *)

ServiceCreation == QuietCreation

ServiceList == OfCluster({Removal, ServiceCreation})

IngressCreation == QuietCreation

IngressList == OfCluster({Removal, IngressCreation})

HttpRouteCreation == QuietCreation

HttpRouteList == OfCluster({Removal, HttpRouteCreation})

GatewayCreation == QuietCreation

GatewayList == OfCluster({Removal, GatewayCreation})

GrpcRouteCreation == LoudCreation

GrpcRouteList == OfCluster({PlainRemoval, GrpcRouteCreation})

TcpRouteCreation == LoudCreation

TcpRouteList == OfCluster({PlainRemoval, TcpRouteCreation})

UdpRouteCreation == LoudCreation

UdpRouteList == OfCluster({PlainRemoval, UdpRouteCreation})

GatewayClassList == OfCluster({})

ConfigMapCreation == QuietCreation

ConfigMapList == OfCluster({Removal, ConfigMapCreation})

SecretCreation == QuietCreation

SecretList == OfCluster({Removal, SecretCreation})

PvCreation == QuietCreation

PvList == OfCluster({Removal, PvCreation})

PvcCreation == QuietCreation

PvcList == OfCluster({Removal, PvcCreation})

StorageClassList == OfCluster({})

-----------------------------------------------------------------------------
(* The cluster and its accounts.                                           *)

NodeK8sList == OfCluster({Removal})

NodePoolList == OfCluster({})

EventK8sList == OfCluster({})

CrdList == OfCluster({Removal})

\* No refresh button.
NamespaceList == [OfCluster({Removal, QuietCreation}) EXCEPT !.refresh = FALSE]

ServiceAccountsList == OfCluster({QuietCreation})

RolesCreation == LoudCreation

RolesList == OfCluster({PlainRemoval, RolesCreation})

RoleBindingCreation == LoudCreation

RoleBindingList == OfCluster({PlainRemoval, RoleBindingCreation})

ClusterRolesList == OfCluster({PlainRemoval, LoudCreation})

ClusterRoleBindingList == OfCluster({PlainRemoval, LoudCreation})

KubernetesPages ==
    {DeployList, StatefulSetList, DaemonSetList, JobK8sList, CronJobList, HpaList, PodK8sList,
     TopPodMetric, ServiceList, IngressList, HttpRouteList, GatewayList, GrpcRouteList,
     TcpRouteList, UdpRouteList, GatewayClassList, ConfigMapList, SecretList, PvList, PvcList,
     StorageClassList, NodeK8sList, NodePoolList, EventK8sList, CrdList, NamespaceList,
     ServiceAccountsList, RolesList, RoleBindingList, ClusterRolesList, ClusterRoleBindingList}

=============================================================================
