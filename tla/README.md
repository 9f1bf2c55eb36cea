# MRBoard in TLA+

MRBoard is a Kubernetes console: a Go server (beego) whose handlers read and
change the objects of several clusters through client-go, keep their own rows in
MySQL, keep copies of both in Redis and in process memory, and a React front end.
Almost every request is a goroutine that makes several calls one after the other,
to systems that other requests, other programs and the cluster's own controllers
change at the same time. There is next to no locking, no transaction across two
of these systems, and errors of secondary steps are logged and dropped. What can
be wrong in this program is therefore mostly in the order of calls: that is what
the modules here are about.

The first part is the inventory of the system, the second the modules and what
was checked and proved about them, the third the plan for what is still missing.

## 1. The system

### 1.1 State

| where | what | written by |
|---|---|---|
| API servers | workloads, configuration, routes, the PrometheusRule `mrboard-rules` | handlers (Get, Update, Patch, Create, Delete), controllers, kubectl |
| MySQL | `xkb_cluster`, `alert_rule`, `alert_history`, `alert_channel`, `xkb_backup`, `xkb_index`, `xkb_cicd*`, analyses, wiki, users | handlers; `xkb_index` also by the rebuild goroutine |
| Redis | `<kind>List<cluster><ns>`, `count_<cluster>`, `podCount...`, `clusterDetail:`, `clusterList:`, addresses of Loki, Tempo, Prometheus, Alertmanager, the key `updateIndex` (a lock) | list pages, ClearCache, the rebuild, cluster pages |
| browser | localStorage (`clusterId`, `mrboard_user`), shared by tabs; React state of each mounted page | pages, `useAuth`, other tabs |
| process | `ClusterMap`, `ClusterTokenMap`, `ClusterVersionMap`, `AliyunIdMap`, `JksIdMap`; no lock | lookups that miss, some updates |

### 1.2 Components, their operations, and what makes them correct

**Alert rules** (`controllers/alert.go`, `models/alert_model.go`). AddRule,
UpdateRule, DelRule and ToggleRule change a row and then call
SyncPrometheusRule, which lists the rules and writes them to one object of the
cluster. Correct when the object shows the enabled rules of the table whenever
nothing is in progress. Hard: two syncs that list in one order and write in the
other, the limit of 1000 rows, a sync that fails or is lost in a restart, a row
read and written back whole.

**Alert delivery** (same files, `alert_history_model.go`,
`alert_channel_model.go`). A webhook of Alertmanager is recorded and forwarded to
every enabled channel by a goroutine of its own, three tries each; rules of source
loki are to be evaluated every 30 seconds, but nothing starts the evaluator.
Correct when the last word a channel has heard is the alert's newest state, or
something is on record that explains why not. Hard: goroutines of two posts that
overtake each other, answers that come after the sender has given up, a process that
ends with its goroutines.

**Cluster credentials** (`common/mysql_lib.go`, `common/k8sclient.go`,
`models/cluster_model.go`). Every client is built from a kubeconfig looked up in
a process-wide map that is loaded on a miss and evicted by one of the four ways a
cluster row changes. Correct when a lookup finds the row that exists and does not
use the credentials of one that is gone.

**Redis copies of cluster rows** (`controllers/cluster.go` and the models of
Loki, Tempo, Prometheus). Lists, details and addresses with expiries; handlers
evict some of the keys. Correct when an edit is seen at once, as the evictions mean it to be.

**Edits of workloads and configuration** (`controllers/deploy.go`,
`models/deploy_model.go` and one pair of files per kind). A page's edit is: store
the YAML as a backup, Get, change, Update. YAML edits send the user's document,
RollBack a ReplicaSet's template, Restart a Patch. Correct when an edit does not
undo another, and when what it replaced is in the table of backups.

**Backups** (`controllers/backup.go`, `models/backup_model.go`). Backup stores the
YAML, Recover sends it again. Correct when Recover brings the stored content back.

**Gateway API routes** (`controllers/tcproute.go`, ...). As above, but the YAML
update takes the live resourceVersion first, and Delete stores no backup.

**Resource lists and counts** (the List handlers, `models/public_model.go`).
Read-through caches with an expiry of ten minutes and more; some creations and
deletions call ClearCache. Correct when a list that is shown is no older than the
last change that cleared the cache.

**Search index** (`controllers/search.go`, `models/search_model.go`). A goroutine
under a Redis lock lists every cluster and upserts one row per resource; it also
stores the lists and counts above. Correct when one rebuild runs at a time and
the index comes to show the clusters.

**CI/CD** (`controllers/cicd.go`, `jenkins.go`, `aliyun_flow.go` and models).
Pipelines of Jenkins and Aliyun: starts, build numbers, logs, credentials.

**AI analysis** (`ai/`, `controllers/ai_analysis.go`). A loop of at most five
rounds of model call and tool calls, started by a page, by the chat or by one
goroutine per firing alert of a second webhook. Correct when it ends, when what it
reports is saved, and when one analysis that fails costs nobody else anything.

**Pod terminal and Loki tail** (`controllers/pod_terminal_websocket.go`,
`controllers/loki_log.go`). Two directions of a stream each, joined by channels.

**List pages of the front end** (`frontend/src/pages/*/...List.tsx` and the like).
A table that is fetched by an effect, again by buttons, timers and polls, and
dialogs that change a row and fetch again. Correct when the skeleton goes, a request
goes to the cluster its row was shown for, and the table shows the list at last.
Hard: answers in any order, closures of an earlier render, another tab that writes
`clusterId`.

**Detail pages, forms and YAML editors** (`...Detail.tsx`, `...Yaml.tsx`,
`...Create.tsx`, `...Edit.tsx`, `components/shared`). Parts that are fetched when the
page or their tab is opened, editors over them, saves. Correct when what is hidden
comes back, typed text is kept, and nobody saves a text that was never read.

**Session of the front end** (`hooks/useAuth.tsx`, `lib/api.ts`, `App.tsx`, login).
Correct when every tab shows the user its requests are made for, and a sign-out
reaches them all.

**Queries** (`pages/ai`, `pages/cicd`, `pages/monitor`, `pages/log`). Pages that ask
again when an input changes, on a button or on a timer; the pages of pipelines and
Jenkins jobs also tell the server what became of a run. Correct when what is shown
belongs to what was asked for last, and the server is told the truth.

**The rest**: users, roles and permissions (`xadmin`), Kubernetes RBAC and storage
pages, wiki, favourites, metrics and trace queries, routing. One call per request or
no state of their own.

The components meet in few places: every one of them takes its clients from the
credential maps; list pages, ClearCache and the index rebuild share the Redis
keys; the edits and Recover share the table of backups and the objects; the two
webhooks share the process, which a panic in a goroutine of the one ends for the
other; pages share localStorage and the session with other tabs. The second and
third are one module each (`ResourceLists`, `WorkloadEdits`), the fourth is a
composition (`AlertWebhooks`), so that what meets in the code meets in the model.

`PROJECT.json` lists every component with its files and status, and forty hazards
with their lines. A hazard names a property only if the property would catch it
going wrong there; its note says what the property excuses. Where the code does
nothing against a hazard there is nothing to check: such a hazard names no property,
and its note says which reason of which property stands for it in the model.

## 2. The modules

| module | models | run by | proved in |
|---|---|---|---|
| `AlertRules` | rule handlers and SyncPrometheusRule | `MCAlertRules` | `AlertRulesProofs` |
| `KubeConfigCache` | the three credential maps and the cluster table | `MCKubeConfigCache` | `CacheProofs` |
| `WorkloadEdits` | edits, YAML edits, rollbacks, backups, recoveries of one object | `MCWorkloadEdits` | `WorkloadEditsProofs` |
| `AtomicEdits` | what a user may expect of overlapping edits (abstract) | implemented by `WorkloadEdits` | same |
| `ResourceLists` | cached lists and counts of one kind, ClearCache, index rebuild | `MCResourceLists` | `CacheProofs` |
| `AlertDelivery` | webhook, history, goroutines of deliveries | through `AlertWebhooks` | `AlertWebhooksProofs` |
| `AnalysisAgent` | rounds of an analysis and its four callers | through `AlertWebhooks` | `AlertWebhooksProofs` |
| `AlertWebhooks` | both in one process, panics and restarts | `MCAlertWebhooks` | `AlertWebhooksProofs` |
| `ListPages` | the machine of a list page | `MCListPages` | `ListPagesProofs` |
| `KubernetesPages`, `ConsolePages` | the list pages, a record each | `MCListPages` | |
| `ObjectPages` | the machine of a detail page, form or editor | `MCObjectPages` | `ObjectPagesProofs` |
| `Objects` | those pages, a record each | `MCObjectPages` | |
| `Session` | signing in and out in the tabs of a browser | `MCSession` | `SessionProofs` |
| `Queries` | asking for what is looked at, watching a run | `MCQueries` | `QueriesProofs` |
| `Views` | the pages that do, a record each | `MCQueries` | |

Common conventions. A handler is a process; one action is the code from one
external call (MySQL, Redis, API server) up to the next, so every place where
another goroutine can come in between is a place between two actions. `Faults`
lets calls fail, before or after their effect where the code cannot tell, and
the process crash. Contents are model values. Variables marked *history*
(`cause`, `why`, `touched`, `missed`, `excused`, `eclipsed`, `orphaned`, versions)
record why something came about; no guard of the program's steps reads them. A `Mutant:` definition is a plausible
mistake in the definition below it; each property of each passing run is violated
under one of them (`PROJECT.json`, "mutants"), which shows that the run tells the
code from the mistake.

### 2.1 AlertRules

State: the table `rows` with its auto-increment `nextId`; per cluster the content
`crd` of the PrometheusRule; per handler where it stands, what it is about, the
row it read (`copy`), what its sync listed (`listing`). Actions: `Begin`, `Read`
and `Reread` (GetAlertRule, and the read inside ToggleAlertRule), `SaveAdd`,
`SaveUpdate`, `SaveDel`, `SaveToggle`, `SaveFails`, then `List`, `ApplyDelete`,
`ApplyUpdate`, `Create` (SyncPrometheusRule: delete when nothing is published, else
Update and on any error Create), `Crash`. `UnconditionalUpdate` says whether the
API server takes an Update without resourceVersion, which is what the code sends. It
does not for custom resources. `alert_race` takes it as accepted, and with faults
that contains every step of a server that refuses: an Update that fails goes on to
Create in the same way. The proofs hold for both values.

* `alert_race` (2 handlers, 2 rules, 4 requests, faults and crashes; 3.5 million states):
  `StaleHasCause`, an object that differs from the table still has a sync ahead of
  it or one of four causes (failed, overtaken, unknown cluster, crash). Two handlers
  are enough for every pairwise overlap, four requests for a rule to be added, changed
  by two, and changed again.

The comment at `controllers/alert.go:266` says that SyncPrometheusRule syncs all
enabled rules. It lists one page of 1000 rows, enabled or not, newest first; the table
has no limit, and 1000 rows are beyond a run. The theorem `OnlyNewestPublished` says
what the comment comes to, for any number of rows: when every handler has answered and
no cause is on record, the object holds nothing but enabled rules, and an enabled rule
is missing only if its cluster has `SyncLimit` newer rows.

UpdateRule writes back the whole row it has read, so that what another handler saved
in between is undone. The model does the same, and no property is about it.

Where Updates without resourceVersion are refused, as for custom resources, Create
then finds that the object exists, and the object stays as the first rule made it
until nothing is published any more; the model books this as the cause "failed".

### 2.2 KubeConfigCache

State: the table's columns, one map per column, readers (`GetKubeConfigByClusterId`
and its two companions: lookup, SELECT, load, read again) and writers
(`Add_Cluster`, `Edit_Cluster`, `DelById_Cluster`, `Update_Cluster` with its three
deletions). Every change writes a version number of its own. A load
puts what it has selected into the map by beego's `RowsToMap(&m, ...)`, which makes a
new map and assigns it, so that the entries of all other clusters vanish (`Loaded`).

* `kubeconfig_stale` (2 clusters, 2 columns, 2 readers, 2 writers, 2 changes):
  `StaleEntryHasCause` and `LostEntryWasTouched`. Two columns show that their maps
  do not interfere, two changes that an entry of an earlier row can survive the row.
* `kubeconfig_lost` (expected violation): a lookup that has read a row and then
  says that the cluster does not exist. Between its load and its second read another
  lookup has loaded a row of another cluster, and with it a new map.

### 2.3 WorkloadEdits and AtomicEdits

State: the object (`uid`, `rv` for resourceVersion, `spec` by fields), the version
counter of the API server, the pod templates that ReplicaSets remember, the rows of
`xkb_backup`, and per handler its request with the document it will send. An
operation is a record: its kind, the fields it sets, whether the handler backs up
first; the records at the top of the module are the handlers of
`controllers/deploy.go`. Actions: `Begin`, `BeginYaml` (the user opens the YAML,
changes one field and later sends the whole document, version included),
`BeginOwnYaml` (a document of the user's own, without version), `SaveBackup`,
`Get`, `GetReplicaSet`, `GetRow`, `Refresh`, `UpdateLands`, `UpdateConflicts`,
`UpdateFails`, `Patch`, `Delete`, `CreateNew`, and `Reconcile` for the controllers,
which take versions by updating the status. `Stored` is what the table gives back:
`InsertBackup` escapes quotes only, so MySQL drops the backslashes of values in
`Escaped`.

`AtomicEdits` is the abstract specification: the content changes by whole edits of
one group of fields, rollbacks to an earlier template, deletion and creation.
`WorkloadEdits` implements it with the content and the templates as they are
(`ImplementsAtomicEdits`), as long as the YAML update does not overwrite the
version (`YamlRefreshes`, the routes).

* `edits_overlap` (2 handlers, 3 requests, faults; one operation of each kind: labels
  for the edits by Get and Update, a restart for the template, YAML, rollback, delete,
  create, backup, recover). `OnlyIntended`, an accepted update changes no field its
  user did not mean to; `BackupPrecedesChange`, a handler that backs up has stored the
  content it replaces unless its backup failed or somebody wrote in between;
  `ConflictIsFinal`, a rollback that met a conflict never lands, because
  RetryOnConflict sends the same copy again; and the refinement. Three requests
  are a backup, an edit and a recovery, or an edit that two others overlap. The
  other edits of the pages differ from labels only in the fields they name; the
  theorems cover every set of operations.
* `edits_routes` (the route kinds, `YamlRefreshes`): `BackupPrecedesChange` for the
  handlers that refresh the version.

* `edits_recover` (expected violation; one handler, no failing call): the page of
  backups asks to confirm that the backup "will overwrite the current resource"
  (`BackupList.tsx:205`), and the handler is the restoring of a backup
  (`backup.go:160`). `RecoverOverwrites` says so: a Recover of an existing resource
  that differs from the backup overwrites it. TLC backs up, edits and recovers: the
  stored YAML carries the version of the state it was taken from, the API server
  answers with a conflict, and the content stays. The theorem `RecoverIsIdle` says that
  it is always so, whatever overlaps or fails: the Recover of an existing resource that
  is accepted leaves every field as it is, or garbled by the escaping.

Not every change is backed up, though `CHANGELOG.txt:39` says so of Deployments: the
operation records show that Replicas, Modify, Restart and the public UpdateImage
have no backup, and `BackupPrecedesChange` speaks only of operations that do.

### 2.4 ResourceLists

State: what each resource of a kind shows in the cluster (`live`), the list under
each Redis key and the count, the rows of the index, the lock, and the goroutines,
handlers and index workers alike. `Kind` is one of nine records that say where the
List, Create and Del handlers of the kinds differ: whether ClearCache follows,
whether List reads the key it writes (secrets do not), whether it stores the count,
whether the rebuild stores the list. Actions: `Look`, `ReadList`, `StoreCount`,
`StoreList` (a page); `BeginChange`, `Apply`, `ClearKeys`, `ClearKey`,
`ClearCount` (a change and ClearCache, key by key); `UpdateIndex`, `TakeLock`,
`ReadList`, `InsertRow`, the two stores, `Unlock` (a rebuild); `DeleteRow`,
`ChangeOutside`, `Expire`, `LockExpires`, `Crash`.

* `lists` (`FairSpec`; 1 handler, 2 workers, 1 resource with 2 values, 2 events, a
  crash; 1.1 million states). `StaleHasCause`, a cached row that differs from the
  cluster belongs to a ClearCache still on its way, or to a change nobody clears for,
  a failed clear, or a list that was being read when the clear came by.
  `IndexFollows`, when a resource no longer changes its row comes to show it for good,
  although rebuilds overlap and a crash can leave the lock, unless a rebuild waits for
  the list of a cluster for ever. One resource is enough since rows are read and stored
  together and the properties speak of one row; a handler against two workers has every
  pair of goroutines in it but two handlers, of which one only reads what the other
  clears, as a worker does. Failing calls are left to the theorem, which covers them:
  with them and without the liveness the same instance has 4.4 million states, and no
  violation.

Two requests for the rebuild in quick succession start two, since GetLock only asks
whether the key exists and the goroutine sets it later, and the first to end unlocks
for the other: rebuilds do not exclude each other, and `IndexFollows` holds all the
same. A list read before a creation is stored after its ClearCache; this is one of
the excuses of `StaleHasCause`.

The secrets page stores its list under `secretList...` and looks for `secList...`
(`controllers/secret.go:39,73`), so it never finds it: `hits` of `Secret`.

### 2.5 AlertDelivery, AnalysisAgent, AlertWebhooks

`AlertDelivery` is about one alert, whose states Alertmanager posts one after the
other. State: where the handler of each post stands, the rows of `alert_history`,
per post and channel where the goroutine stands and how often it has tried, the
requests under way (`wire`), and the post each channel heard last (`told`). Actions:
`Post`, `Refuse` (no JSON list; HTTP status 200, so that Alertmanager does not try
again), `Record` (the INSERT, whose error is dropped), `Forward` (one goroutine per
enabled channel, or none when they cannot be read), `Send`, `Receive`, `Answered`,
`Failed` (the loop of three tries), `DeliveriesLost`. A request that its sender has
given up after ten seconds stays in `wire`: it is lost or arrives later.

`AnalysisAgent` is the loop of `Agent.Analyze` between its callers: `Start` (a page,
the chat, or the goroutine of a webhook), `WantTools` and `RunTools` (a round),
`CallFails`, `Report`, `Save`, `Answer`, and the panic of the log line that cuts the
first eight characters of a tool call's id, which beego recovers in a handler
(`HandlerPanics`) and nobody in a goroutine (`GoroutinePanics`).

`AlertWebhooks` is both in one process. They share nothing but that: `Panic` and
`Crash` are steps of both halves.

* `alert_webhooks` (1 channel, 2 posts, 2 tries, 1 analysis, 3 rounds; 527 thousand
  states): `LastWordHasCause`, `HeardIsRecorded`, `ToldBeforeExhausted`, and under
  fairness `GoroutinesEnd`. Channels share no state with each other, so one is enough;
  two posts are the alert and its resolution; a second try is what a late request of
  the first needs to overtake, and the third adds only another of the same; three
  rounds are a first, the last but one and the last. The theorems are about any number
  of each.

`GoroutinesEnd`: every delivery ends, and an analysis ends or stays for ever in one of
three stages. In "tools" it waits for a tool: those of Kubernetes call with
`context.Background()` (`tool_k8s.go:98`, `:148`, `:174`) on a client that is built
without a timeout (`k8sclient.go:57`), so that one API server that hangs keeps the
goroutine. In "save" it waits for MySQL, in "answer" for the page or the channel that
it writes to.

The reasons in `why` are "refused", "unread", "disabled", "gave up", "restart" and
"overlap". The last one is the hazard of the component: a post is forwarded while
something of an older post of the same alert is still under way to the channel, and
the older one can then be what the channel hears last, a firing alert after its
resolution. `LastWordHasCause` says in particular that posts which do not overlap are
never heard in the wrong order. A post that the end of the process takes away, by a
restart or by a panic, is lost for good; "restart" records it.

### 2.6 ListPages, KubernetesPages, ConsolePages

All list pages are one machine: hooks around `api`, a table, dialogs. `ListPages` is
that machine for a page given as a record: where its cluster comes from (state,
localStorage at each render, nowhere), what its effect depends on, whether a
handler fetches with the values of its own render, and each request of its rows and
dialogs with its guard, its label and what follows the answer (`ops`). The records
are in `KubernetesPages` and `ConsolePages`, one per page. Variables are the states
of the hooks, the requests in flight in the order they were sent, timers and the poll of
a restart; answers come in any order or fail, before or after their effect.

* `list_pages` (every page; 2 clusters, 1 list request in flight when the user asks
  for another, 2 changes, 1 change of filter or localStorage, 1 retry; 870 thousand
  states): `SkeletonHasRequest`, `LabelHasRequest`, `StaleHasCause`,
  `MisdirectedHasCause`, `OneAtATime`. Pages whose record is covered by that of
  another (`Covers`) are left out, and of the two clusters the one stored first is
  called c1. Two requests in flight are enough for one to overtake the other, and two
  changes for a dialog to be sent twice. Simulation at 2 list requests, 4 changes
  and 2 changes of filter (100 million states) found nothing further.

### 2.7 ObjectPages and Objects

The machine of the pages about one object. A record lists the parts of a page: when
a part is fetched (at mount, when its tab is opened, on a click, never), what its
loading flag hides, what its editor does after a save (leave, fetch, stay). Variables
are what is loaded, hidden, typed, saved and in flight.

* `object_pages` (every page with its main part and at most two others, 2 reads, 2
  saves; 128 thousand states): `SkeletonHasRequest` and `PageComesBack`, what is
  hidden comes back; `BlankHasCause`, a text that was never read is saved only after a
  failed read, from a part shown before its text has come, or from a tab open
  unasked; `OneAtATime`; `StaleHasCause`; `TypedTextIsKept`. The parts of a page
  share only the mounting, leaving and the fetch of the main part, so that two beside
  it show every interference. The YAML editors of a detail page are not among what
  `TypedTextIsKept` is about: they do lose their text when a scaling fetches the
  details with the page's loading flag (`DeployDetail.tsx:97`).

### 2.8 Session

Tabs of one browser with a user each in React state, the storage they share, the
server's session, and requests that are served at one moment and answered at a later
one. Actions are the callbacks of `useAuth`, the 401 handling of `api`, the login
form and the menu, the storage event (`Hear`), an expiry and a reload. A document
that is loaded anew, by its user or by a 401, loses the answers on their way to it. What
it has sent goes on: `left` counts the sign-ins and sign-outs that documents now gone
have sent, and `ServeLeft` carries them out, be it after the new document's check.

* `session` (2 tabs, 2 users, 1 login form, 1 fault; 1.07 million states):
  `SignedOutEverywhere`, `IdentityHasCause`, `CheckEnds`. One login is enough for a
  tab to show the user before it; a fault is an answer lost, an expiry or a reload.
  The users are alike, so that the one the server knows at first is called u1.

The reasons of `IdentityHasCause` are an expiry, a request of another tab
("elsewhere"), a lost answer ("unreached"), an answer of the session check given
before a change ("late"), and a sign-in or sign-out that its document did not live to
see ("outlived"). None of the five is prevented by the code; the property says that
nothing else leaves a tab with another user than the session's.

### 2.9 Queries and Views

A page that sends the values of some inputs and shows the answer, given as a record:
what is sent, which inputs send it anew or empty what is shown, whether a button may be
pressed while it loads, whether a timer repeats it, whether it can be aborted, whether the
page tells the server what became of a job. The job behind a page (a pipeline run,
a Jenkins build) goes through its states by itself.

Pages that watch a run show an answer in two steps. The `then` of a poll sets the state,
and if the run has ended it reports so and stops the interval
(`PipelinesIndex.tsx:142-147`). React renders later, several answers may come before it
does, and only if the rendered status has changed does the effect run, which sets up an
interval, or reports the end a second time (`:138-153`). `Show` and `Then` are the first
step, `Render` the second, which joins the render with its effect; `shown` is the state
that has been set, `rendered` the status the effect last ran for. The statuses of a run
that is waiting and one that runs are one.

* `queries` (every view, 2 values, 2 requests in flight, 2 changes, a job
  that goes on 3 times; 267 thousand states): `LoadingHasRequest`, `StaleHasCause`, `OneAnalysis`,
  `ReportHasCause`, `EndIsShown`. Two requests in flight are enough for an answer to
  overtake another, and the job to run, end, run
  again and end.

`EndIsShown` has one exception, `eclipsed`: a poll has stopped the interval for the end,
and before that is rendered an older answer says that the run goes on. The status that
is rendered is then the one of before, the effect does not run, and the page shows a
running pipeline that nobody asks about any more.

The views under `/monitor` and `/log` are modelled although `App.tsx` routes these
addresses to Grafana's frame: the files are there, and no hazard is about them.

### 2.10 Fairness

`FairSpec` of `AlertWebhooks` is weak fairness of each delivery, whose calls time out
after ten seconds (`alert_model.go:205`), and of each analysis where it waits for the
model, whose calls time out after 120 (`llm_client.go:64`). Nothing is assumed of tools,
of MySQL, of writing an answer, of panics, of crashes and of the arrival of requests.

`ResourceLists!FairSpec` has weak fairness of a rebuild's steps but for the reading of a
cluster's list, which has no timeout, and of `LockExpires` because Redis drops a key
whose time is over, and strong fairness of `UpdateIndex`:
`frontend/src/pages/ops/SearchPage.tsx:137` tells the operator to call it daily as a
scheduled task, and a task that comes again and again meets a moment at which the lock
is free.

In `Session` only the check of the session is fair: it is carried out or given up, and
its answer arrives. In the other modules of the front end requests are answered or time
out, pages are rendered, and timers and intervals fire: weak fairness of each, with
strong fairness in `Queries` where polls overlap and each of them alone may be
overtaken. No user ever has to press a button.

`CHECK_DEADLOCK FALSE` stands where a run is bounded by a number of requests, events
or versions: when they are used up and every goroutine has answered, the model stops
and the program waits.

### 2.11 What is proved

TLAPS checks the theorems below for every value of the constants that satisfies the
named assumptions of the modules (numbers are numbers, `None` is none of the values):
any number of handlers, clusters, rules, fields, retries. No theorem assumes
fairness. The argument is always an inductive invariant `IInv` with lemmas
`InitIInv` and `NextIInv` (for the maps of `KubeConfigCache`, `MapsIInv`,
`MapsTypeStep` and `MapsStep`), one step per action. Each module's type invariant is
part of it; where `TypeOK` is a theorem, a run checks it only in `alert_race`,
`edits_overlap` and `queries`.

* `AlertRulesProofs`: `TypeCorrect`, `StaleOnlyForCause`, `OnlyNewestPublished`.
  `StaleHasCause` is not inductive: one must know that a listing as young as the
  table's last change is the table's (`VersionsOK`), that ids are fresh
  (`IdsFresh`), that a handler is about the cluster of its row (`RequestOK`), and,
  in place of the property, that the object is what a sync of its version listed or
  has a cause (`BehindHasCause`). `OnlyNewestPublished` follows from it by what a
  list of the newest `SyncLimit` rows leaves out.
* `CacheProofs` has the two caches, the maps and the Redis lists. Neither module
  reads the other's state, and each theorem is about one of them and uses that
  module's assumption only.
  - Of the maps: `MapsTypeCorrect`, `StaleEntryOnlyForCause`, `LostOnlyByOthers`
    (LostEntryWasTouched). For the second the invariant adds nothing but types: a
    load records itself whether it was late. For the third it is that what a reader
    has loaded is there until somebody else loads or evicts (`LoadedIsThere`).
  - Of the lists: `TypeCorrect`, `StaleOnlyForCause`, calls that fail included.
    `StaleHasCause` speaks of cached lists, but a list is read long before it is
    cached. The invariant therefore says the same of a list that is still on its way
    (`ReadHasCause`), with a stronger excuse: a ClearCache counts for it only as
    long as it has not looked for keys yet, because afterwards it will not find the
    list any more. Every step leaves each cached list as it is or stores one that
    was on its way (`Stays`, `Arrives`, `CausesKept`).
* `WorkloadEditsProofs`: `TypeCorrect`, `NothingUndone` (OnlyIntended),
  `ChangeIsBackedUp` (BackupPrecedesChange), `RetryIsUseless` (ConflictIsFinal),
  `RecoverIsIdle` (why RecoverOverwrites is violated), `Refinement` (ImplementsAtomicEdits).
  The heart of `IInv` is that a version is given to one content and never again:
  every copy a handler holds and every row of the backups whose version and uid are
  the object's has the object's content (`HandlerOK`, `RowsOK`), and every version
  in circulation is below the counter (`ObjectOK`). An Update that the server
  accepts therefore acts on a copy of what is there. `ChangeIsBackedUp` adds that a
  handler past its backup which missed no change finds the object's present content
  among the rows (`AllBacked`).
* `AlertWebhooksProofs`: `TypeCorrect`, `LastWord` (LastWordHasCause),
  `NothingUnrecorded` (HeardIsRecorded), `LastRoundIsAnnounced` (ToldBeforeExhausted). Each half has an invariant, which
  the other half's steps leave alone. `LastWordHasCause` needs that nothing goes out
  before the handler is past its row (`StartedOK`), that a post that has started
  while an older one could still be heard knows of it (`OverlapOK`), and that what
  has arrived was not overtaken otherwise (`ReachedOK`); the lemma `QuietKeepsInv`
  covers all the steps that send and receive nothing. `ToldBeforeExhausted` needs
  that the last round is entered only with the order to conclude (`RoundsOK`).
* `ListPagesProofs`: `TypeCorrect`, `NoEndlessSkeleton`, `RightCluster`,
  `OneFlagOneRequest`, `LabelsEnd`, `StaleOnlyForCause`. The invariant follows a
  flag from the render that sets it to whatever will take it back: the requests in
  flight (`FlagsUp`), the timers (`TimersOK`), the poll (`PollOK`) and the open
  dialog (`DialogOK`), and says which cluster a closure can know (`Known`). Renders
  are dealt with by one lemma (`Rendered`). `StaleOnlyForCause` is proved beside it
  (`Covered`): a timer will fetch, or the request sent last, if it carries no
  excuse, was sent for the page's cluster and filter after its last change
  (`LastDecides`), and when none is in flight and there is no cause, the table shows
  that (`RowsDecide`). The assumption on pages names what the records have in common
  and the proof needs: a row that is changed in the table alone has been written,
  and a write that starts the poll is followed by a fetch or such a change at once.
* `ObjectPagesProofs`: `TypeCorrect`, `NoEndlessSkeleton`, `SavesOnce`,
  `BlankOnlyForCause`, `StaleOnlyForCause`, `TypingSurvives`. The invariant orders
  the reads in flight (`InOrder`) and says where an unread text can come from
  (`BlankOK`, `FormsOK`) and what is on its way after a change (`StaleIsFetched`).
* `QueriesProofs`: `TypeCorrect`, `NoEndlessLoading` (LoadingHasRequest),
  `OneAnalysisAtATime` (OneAnalysis), `ReportOnlyForCause` (ReportHasCause),
  `StaleOnlyForCause` (StaleHasCause), all from one invariant with these parts:
  `AloneAndHeld`, while no controller was dropped there is one stream and the page
  holds its controller; `RenderedOK`, what a render and a poll mean for the interval;
  `ReportsDecide`, while there is no reason the reports under way, or the server if
  there are none, tell the end that the page has rendered (`EndsReported`,
  `RenderReports`); `Decided`,
  the request sent last, if it carries no excuse, is about the present values and
  the job's present state, or a timeout will send another one (`LastDecides`,
  `StreamDecides` for an analysis), and when none is in flight and there is no
  cause, the page shows what is asked for (`ShownDecides`). The assumption on views
  says what is so of all of them: a stream is sent by its button only, and a page
  that polls until the end does not show each poll as loading.
* `SessionProofs`: `TypeCorrect`, `SignOutReachesAll`, `MistakenOnlyForCause`. A tab
  that is mistaken without a reason waits for an answer that will set it right
  (`MistakenAwaits`), and every answer on its way is as old as it may be
  (`AnswersOK`); a request carried out for a document that is gone is a reason of its
  own, or changes nothing.

Only model-checked are the five liveness properties (`GoroutinesEnd`, `IndexFollows`,
`PageComesBack`, `CheckEnds`, `EndIsShown`), since TLAPS has no rules for fairness here.
Every invariant and every action property of a passing run is stated by a theorem. Of
the two runs with an expected violation, `edits_recover` has a theorem that says when
it happens (`RecoverIsIdle`), and `kubeconfig_lost` refutes a sentence for which there
is nothing to prove.

### 2.12 What is abstracted

* One object in `WorkloadEdits`, one kind and cluster in `ResourceLists`: the code
  keeps no state across objects or kinds but the shared client, and ClearCache of one
  cluster deletes no key that matters to the correctness of another.
* One container per pod template, so the index by which the pages address a
  container is not modelled yet.
* Go's unsynchronised maps: a lookup and an eviction at the same moment may end the
  process ("concurrent map read and map write"); `Restart` stands for that.
* A panic in a handler is recovered by beego and is an answer.
* YAML and SQL as texts, audit log, permissions: nothing here is about them.
* One alert in `AlertDelivery`: other alerts share the process and nothing else. What
  the tools of an analysis read, and the texts of model and report, are left out.
* Rows of a table, pages of it and what a dialog's draft says in `ListPages`; which
  fields a form sends in `ObjectPages`.

## 3. Plan

Order of work, the most valuable first.

1. `ClusterCaches`: the Redis copies of cluster rows and addresses with the
   evictions of Add, Edit, Update and Del, `tempo_url` included. Same
   cause-of-staleness property as the other two caches, and its theorem.
2. `CicdRuns`: build numbers of overlapping starts, credential maps, the two-table
   transactions with their early returns; composed with the pipeline pages of
   `Queries`.
3. `TerminalSession`, `LokiTail`: channels and the goroutines that end or do not;
   deadlock and leak freedom as invariants and liveness.
4. `WorkloadEdits`: Clone, containers by index, the kinds field by field; node labels
   and taints; apply YAML as a sequence that may stop in the middle.
5. A composition of `ResourceLists` with the edits and a list page: what a user sees
   after an edit.
6. Theorems: a common
   abstract specification of a cache whose staleness has a cause, implemented by
   `KubeConfigCache`, `ResourceLists` and `ClusterCaches`.

## 4. Not modelled

| part | why |
|---|---|
| Redis copies of cluster rows, CI/CD on the server, pod terminal, Loki tail, Clone, Apply YAML | not yet; see the plan |
| Loki evaluation of rules (`models/alert_model.go:222`) | nothing starts it: no step of the running program |
| Channels, silences, cleanup of histories, models of the analysis, wiki, favourites, application names | single statements on tables of their own |
| Tempo, Prometheus and metrics queries, Kubernetes RBAC, volumes, namespaces, events | one call per request, read-only or without cache and backup |
| Users, roles, permissions (`xadmin`) | they decide whether a handler runs; no property depends on who asks |
| Tools of the analysis, its memories, parsing of reports | contents of messages to and from the model |
| Chat, terminal page, wiki reader, charts, components, details that AIAnalysis loads from its address | rendering, or one request at a time |
| Entry point, routers, middleware, deployment files, tests | wiring and installation |

Hazards that are known and that no property here would catch:

* Server: a deletion that affects no row calls Error() on nil (`search.go:92`);
  addresses evicted by the wrong key (`cluster.go:163`), a Tempo address emptied by each
  update (`cluster.go:193`); stale Aliyun and Jenkins credentials and a transaction left open
  (`cicd_model.go:721`, `:573`); build numbers of overlapping starts
  (`jenkins_model.go:75`); one goroutine per firing alert without a limit
  (`ai_analysis.go:352`), and the request's context that `Analyze` never looks at; a resize on
  an unbuffered channel (`pod_terminal_websocket.go:38`); the tail's two errors
  (`loki_log.go:318`); containers by index, Clone (`deploy_model.go:1432`, `:845`); handlers
  that read path parameters which their routes do not have (`alert.go:392`, `:432`).
* Pages: a reopened dialog's draft is lost when the first request ends
  (`ConfirmDialog.tsx:46`); the last row of the last page (`DataTable.tsx:49`); the late text
  of another backup next to the button that recovers it (`BackupList.tsx:128`); fields that
  are never sent (`StatefulSetList.tsx:173`, `ApplyYAML.tsx:47`); the chat's key that ignores
  the disabled button (`AIChat.tsx:73`); a name read under another spelling
  (`useAuth.tsx:24`); the poll after a restart that takes the state before the rollout
  for its end (`DeployList.tsx:120`).

Noticed between code and documents, without a run of their own: the design of
alerting (`docs/superpowers/specs/2026-06-04-alerting-design.md:230`) updates
duplicates by fingerprint, the code inserts always; it sets `notified` after a delivery
(`:227`), the code never does; both webhooks take a list of alerts, with `status`
as an object in the one and a string in the other; every forwarded message says
`"status": "firing"`.
