------------------------------ MODULE Objects ------------------------------
(***************************************************************************)
(* What each page about one object is, as a record of module ObjectPages.  *)
(* Parts that behave alike (the pods and the resources of a Deployment,    *)
(* scaling and rolling back, the labels and the image of a StatefulSet)    *)
(* stand for each other.                                                   *)
(***************************************************************************)

LOCAL Part(name, asked, hides) ==
    [name |-> name, asked |-> asked, hides |-> hides, edit |-> "none", once |-> FALSE,
     then |-> "stay", writes |-> FALSE]

LOCAL Button(name, then, writes) ==
    [Part(name, "never", "none") EXCEPT !.edit = "button", !.then = then, !.writes = writes]

\* useState(true), setLoading(true) in fetchDetail, `if (loading) return <Skeleton/>'.
Details == Part("main", "mount", "page")

\* fetchPods, fetchResource: failures are swallowed.
MountedList == Part("list", "mount", "none")

\* handleTabChange: `if (value === 'events' && events.length === 0) fetchEvents()'.
LazyTab(hides) == Part("tab", "click", hides)

\* YamlViewer: edit mode, copied content, saving flag, onUpdated.
YamlViewer(asked, hides, then) ==
    [Part("yaml", asked, hides) EXCEPT !.edit = "copy", !.once = TRUE, !.then = then,
                                       !.writes = TRUE]

ReadOnlyTab(hides) == Part("yaml", "click", hides)

Removal   == Button("remove", "leave", TRUE)
Scaling   == Button("change", "main", TRUE)
Restart   == Button("act", "stay", FALSE)

\* `if (!detail) return', and the details' own tab or the one named first.
DetailPage(first, parts) ==
    [strict |-> TRUE, needs |-> TRUE, first |-> first, parts |-> parts \cup {Details}]

-----------------------------------------------------------------------------
(* Details.                                                                *)

\* The YAML tab is shown while the text is on its way.
DeployDetail ==
    DetailPage("main", {MountedList, LazyTab("none"), YamlViewer("click", "none", "main"),
                      Removal, Scaling, Restart})

\* handleSaveSub: environment, labels and image are edited in the state, and their
\* buttons have no flag.
SubEditor == [Part("fields", "click", "part") EXCEPT !.edit = "form", !.writes = TRUE]

StatefulSetDetail ==
    DetailPage("list", {MountedList, LazyTab("none"), YamlViewer("click", "none", "main"),
                        SubEditor, Removal, Scaling, Restart})

DaemonSetDetail ==
    DetailPage("list", {MountedList, LazyTab("none"), YamlViewer("click", "none", "main"),
                        Removal})

JobDetail == DaemonSetDetail

\* The labels' tab is open at first and fetched only when it is opened again.
CronJobDetail ==
    DetailPage("tab", {LazyTab("part"), YamlViewer("click", "none", "main"), Removal, Restart})

\* So is the YAML tab of an HPA, which can be edited.
HpaDetail == DetailPage("yaml", {YamlViewer("click", "part", "main"), Removal})

ServiceDetail == DetailPage("main", {YamlViewer("click", "part", "main"), Removal})

IngressDetail == ServiceDetail

PodDetail == DetailPage("main", {LazyTab("none"), ReadOnlyTab("none"), Removal})

NodeDetail == DetailPage("main", {LazyTab("part"), ReadOnlyTab("part"), Removal, Restart})

\* ResourceDetailPage, configured with or without an address to save and to delete.
ResourceDetailPage(edits, removes) ==
    DetailPage("tab", {LazyTab("none"),
                       IF edits THEN YamlViewer("click", "part", "main") ELSE ReadOnlyTab("part")}
                      \cup IF removes THEN {Removal} ELSE {})

ConfigMapDetail    == ResourceDetailPage(TRUE, TRUE)
SecretDetail       == ResourceDetailPage(TRUE, TRUE)
GatewayDetail      == ResourceDetailPage(TRUE, TRUE)
HttpRouteDetail    == ResourceDetailPage(TRUE, TRUE)
GrpcRouteDetail    == ResourceDetailPage(TRUE, TRUE)
TcpRouteDetail     == ResourceDetailPage(TRUE, TRUE)
UdpRouteDetail     == ResourceDetailPage(TRUE, TRUE)
PvcDetail          == ResourceDetailPage(TRUE, FALSE)
PvDetail           == ResourceDetailPage(FALSE, FALSE)
StorageClassDetail == ResourceDetailPage(FALSE, FALSE)
GatewayClassDetail == ResourceDetailPage(FALSE, FALSE)

-----------------------------------------------------------------------------
(* YAML pages.  After a save they go on showing, and editing, the text they *)
(* fetched when they were mounted.                                         *)

LOCAL YamlPage(edit) ==
    [strict |-> FALSE, needs |-> FALSE, first |-> "main",
     parts |-> {[Details EXCEPT !.edit = edit, !.once = (edit = "copy"),
                                !.writes = (edit = "copy")]}]

EditableYaml == YamlPage("copy")
ReadOnlyYaml == YamlPage("none")

CronJobYaml            == EditableYaml
DaemonSetYaml          == EditableYaml
GatewayYaml            == EditableYaml
GrpcRouteYaml          == EditableYaml
HpaYaml                == EditableYaml
HttpRouteYaml          == EditableYaml
IngressYaml            == EditableYaml
JobYaml                == EditableYaml
NamespaceYaml          == EditableYaml
PvYaml                 == EditableYaml
PvcYaml                == EditableYaml
ServiceYaml            == EditableYaml
StatefulSetYaml        == EditableYaml
TcpRouteYaml           == EditableYaml
UdpRouteYaml           == EditableYaml
DeployYaml             == EditableYaml
ClusterRoleBindingYaml == ReadOnlyYaml
ClusterRolesYaml       == ReadOnlyYaml
CrdYaml                == ReadOnlyYaml
GatewayClassYaml       == ReadOnlyYaml
NodeYaml               == ReadOnlyYaml
PodYaml                == ReadOnlyYaml
ReplicaSetYaml         == ReadOnlyYaml
RoleBindingYaml        == ReadOnlyYaml
RolesYaml              == ReadOnlyYaml
ServiceAccountsYaml    == ReadOnlyYaml
StorageClassYaml       == ReadOnlyYaml

-----------------------------------------------------------------------------
(* Forms.                                                                  *)

\* useState for the fields, setLoading(true) in handleSubmit, the button disabled
\* by it, navigate after a success.
LOCAL Form(asked, hides, then) ==
    [Part("fields", asked, hides) EXCEPT !.edit = "form", !.once = TRUE, !.then = then,
                                         !.writes = TRUE]

LOCAL FormPage(strict, parts) ==
    [strict |-> strict, needs |-> FALSE, first |-> "main", parts |-> parts]

Creation == FormPage(FALSE, {Form("never", "none", "leave")})

\* The clusters to choose from are fetched when the form is mounted.
YamlCreateForm == FormPage(FALSE, {Form("never", "none", "leave"), MountedList})

\* useState(true) for `fetching', which only the end of the read takes back: when
\* the read fails the form is shown empty.
Edition == FormPage(FALSE, {Form("mount", "page", "leave")})

ConfigMapCreate   == Creation
CronJobCreate     == Creation
GatewayCreate     == Creation
GrpcRouteCreate   == Creation
HpaCreate         == Creation
HttpRouteCreate   == Creation
IngressCreate     == Creation
NamespaceCreate   == Creation
SecretCreate      == Creation
ServiceCreate     == Creation
StatefulSetCreate == Creation
TcpRouteCreate    == Creation
UdpRouteCreate    == Creation
DeployCreate      == Creation
ClusterAdd        == Creation
AppNameAdd        == Creation
WikiAdd           == Creation
AlertRuleForm     == Creation
AlertChannelForm  == Creation

ConfigMapCreateByYaml == YamlCreateForm
IngressCreateByYaml   == YamlCreateForm
PvCreateByYaml        == YamlCreateForm
PvcCreateByYaml       == YamlCreateForm
SecretCreateByYaml    == YamlCreateForm
ServiceCreateByYaml   == YamlCreateForm
DeployCreateByYaml    == YamlCreateForm
PipelinesAdd          == YamlCreateForm
CreateBackup          == YamlCreateForm

ClusterEdit == Edition
AppNameEdit == Edition
WikiEdit    == Edition

PipelinesEdit == FormPage(TRUE, {Form("mount", "page", "leave"), MountedList})

\* The user's fields and roles arrive in a form that is shown and can be sent before.
AdminEdit == FormPage(FALSE, {Form("mount", "none", "leave")})
MyInfo    == FormPage(FALSE, {Form("mount", "none", "stay")})

NamespaceResLimit == FormPage(FALSE, {Form("mount", "page", "stay")})
ChangePassword    == FormPage(FALSE, {Form("never", "none", "stay")})
ApplyYAML         == FormPage(FALSE, {Form("never", "none", "stay"), MountedList})

-----------------------------------------------------------------------------
AllObjectPages ==
    {DeployDetail, StatefulSetDetail, DaemonSetDetail, CronJobDetail, HpaDetail, ServiceDetail,
     PodDetail, NodeDetail, ConfigMapDetail, PvcDetail, PvDetail, EditableYaml, ReadOnlyYaml,
     Creation, YamlCreateForm, Edition, PipelinesEdit, AdminEdit, MyInfo, NamespaceResLimit,
     ChangePassword, ApplyYAML}

=============================================================================
