# Configure Alertmanager Operator: TLA+ models and proofs

The operator keeps one Kubernetes Secret, `openshift-monitoring/alertmanager-main`,
equal to the Alertmanager configuration that the cluster's other Secrets and
ConfigMaps ask for. It does not configure paging before the cluster is "ready",
and it does not write a configuration that Alertmanager would refuse to load. This
directory models that behaviour, checks it with TLC and proves part of it with
TLAPS. Line numbers refer to the Go sources; `PROJECT.json` maps every definition
to its lines.

## The system

| Part | State it keeps | Operations | Talks to |
|---|---|---|---|
| Secret controller, `controllers/secret_controller.go` | none between calls; locals of one `Reconcile` | `Reconcile`, `SetupWithManager`, `writeAlertManagerConfig` | API server through an informer cache, work queue, readiness engine, metrics |
| Configuration builder, same file, with `pkg/types` | none | `parseSecrets`, `parseConfigMaps`, `isManagementCluster`, `createAlertManagerConfig`, `createSubroutes`, `create*Route`, `create*Receiver` | called by the controller; what it builds is carried out by Alertmanager |
| Validation, same file | none | `validateAlertManagerConfig` | Alertmanager's `config.Load` |
| Readiness engine, `pkg/readiness/cluster_ready.go` | verdict, requeue request, creation time, in memory | `IsReady`, `Result` | ClusterOperators, Prometheus, the clock, `MAX_CLUSTER_AGE_MINUTES` |
| Metrics, `pkg/metrics/metrics.go` | ten gauges, in memory | `UpdateSecretsMetrics`, `UpdateConfigMapMetrics`, `UpdateAlertmanagerConfigValidationMetric` | called by the controller |
| Start-up, `main.go` with `config/config.go` | leader lock, a ConfigMap owned by the pod | manager, cache, leader election, health checks | API server |
| Metrics service, `pkg/metrics/service.go` | a Service and a ServiceMonitor | `GenerateService`, `GenerateServiceMonitor`, created by `main()` | API server, Prometheus |

What is hard about it:

* **Reads are not a snapshot.** One `Reconcile` makes two Lists and up to 17 Gets. The
  cluster changes between them: the three GoAlert values are three Gets of one
  Secret, and `managed-namespaces` is read twice. What makes this safe is that every
  change is also an event, so it is reconciled again.
* **Errors are partly dropped.** A failed List or Get is logged, or not even that,
  and leaves the zero value, which means "not configured".
* **Readiness is polled, not watched**, through the `Result` a successful
  `Reconcile` returns, and it is lost when the process ends.
* **The operator watches what it writes**, so each write is an event for itself.
* **Writes race**: Update finds nothing, Create finds something, a call fails
  although it was carried out.
* **Gauges are computed from Lists made before the write.**
* **Rules have an order.** About ninety rules decide by first match, in two copies (one for
  each paging service); one that silences a namespace hides every later one. Inhibit
  rules are a relation between alerts, and a circle in it silences all of them.
* **Pods overlap.** A roll-out starts the new pod before it stops the old one, and the new
  one waits for a lock that lives as long as the old pod object.
* **A leader can be replaced behind its back.** When its node is NotReady a candidate
  deletes the leader's pod and its lock, and the leader never looks at the lock again.

The hazards are listed one by one, each at its line and with the properties that
cover it, in `PROJECT.json`.

## Modules

| Module | Models | Theorems |
|---|---|---|
| `ReadinessInterface` | what the engine promises its caller: verdict, requeue request, last answer | |
| `Readiness` | the engine, one step per call that leaves the process | |
| `ReadinessProofs` | | types, no stale requeue, age rule, refinement |
| `AlertmanagerConfig` | the builder and the validation, as pure operators | |
| `AlertRouting` | the rule tables and inhibit rules, Alertmanager's matching of them, and a cluster whose input changes and whose alerts come and go; extends `AlertmanagerConfig` | |
| `AlertRoutingProofs` | | all seven properties of the configurations |
| `ConfigSync` | what the operator promises: `alertmanager-main` follows the objects it is configured from | |
| `SecretController` | `Reconcile` step by step, gauges, queue, informer, API server; extends `AlertmanagerConfig` and is composed with `ReadinessInterface` | |
| `SecretControllerProofs` | | types, no change is lost, no paging before ready, polling, retrying, nothing invalid is written |
| `AtRestProofs` | | at rest the gauges are true and each service is configured as its Secret asks, what is in place is left alone, refinement of `ConfigSync`; extends `SecretControllerProofs` |
| `Startup` | `main()` in every pod, the election, the Deployment, the metrics service | |
| `StartupProofs` | | types, who may write, whose gauges are served, scraping works |
| `MCReadiness`, `MCAlertRouting`, `MCSecretController`, `MCStartup` | constants for TLC | |

`Readiness` refines `ReadinessInterface` (`ImplementsInterface`), and the controller
is built on the interface: it sees only what the interface says, so what is shown
of it holds for the detailed engine. The controller in turn refines `ConfigSync`
(`ImplementsConfigSync`), in which there are no queue, cache, reads or retries: only
what is stored, what is demanded, whether the operator is at rest and whether it may
page. The mapping is `amSecret`, the configuration built from the cluster as it is
(`Snapshot`), `AtRest` and `everReady`.

### Readiness

`IsReady()` becomes a path through `pc`: `operators` (the List), `creationTime`
(`setClusterCreationTime`), `age` (setting and clock). Each way out of a step is an
action: `OperatorsSettled`, `OperatorsUnsettled` and `ListFails` for the List,
`CreationTimeKnown`, `QueryPrometheus` and `CreationTimeFails` for Prometheus,
`BadSetting`, `TooOld` and `StillYoung` for the age. In between the ClusterOperators
report other conditions (`ReportConditions`), the clock moves (`Tick`) and the
process may end (`Restart`). A condition is True, False, Unknown or missing. Time is
in minutes and 0 is Go's zero time. `checkedAt` is a history variable.

### AlertmanagerConfig

The input is a record of the values `Reconcile` has read; the empty string is the
zero value. Receivers are a set, because their order has no meaning; top-level
routes are a sequence, because theirs has. Data is reduced to what decides
something: which URLs Alertmanager accepts (`WebhookURL`), which ones
`url.ParseRequestURI` accepts (`RequestURI`), which namespace names make a bad
regular expression (`BadName`); an infrastructure name is `hs-mc`, another one, or
unreadable. A table made by `createSubroutes` is given by its kind and its namespace
list; `AlertRouting` has the rules. `Load` is Alertmanager's check, as far as the builder could
fail it: unique receiver names, receivers that exist, URLs, regular expressions.

### AlertRouting

An alert is a function from labels to strings, in which a label that is missing is the
empty string. A matcher is the set of values it accepts, so that equality and regular
expressions are the same thing; a rule is a class (common, critical, error, warning,
null) with a record of matchers, and `receiverOf` turns classes into receivers as the
`switch` at lines 316-331 does. Neighbouring rules with one class that differ in one
value are one rule. `fixedRules` are lines 342-516 in their order, `namespaceRules` the
loop at 518-536. `Decide`, `Visits` and `Inhibits` are Alertmanager's first match,
`continue` and inhibition (external: modelled from how the configuration uses them).

`ReadAnew` changes one part of the input, `FireAlone`, `FireJointly` and `Resolve` the
alerts that fire. `RoutingAssumption` says what the constants are: documents have lists of
names, and no name is empty. The last is needed: an empty name in a namespaces ConfigMap
becomes `^$`, which as an `exported_namespace` matches every alert that has none.

### SecretController

`Reconcile` is a path through `pc`: `detect`, `isReady`, `listSecrets`,
`listConfigMaps`, then the reads of the table `Reads` in their `Order` (a read that
is not needed is skipped, see `Needed` and `Advance`), `update`, perhaps `create`,
`metrics`. All locals are gone on `Return`.

* **Cache.** Every Get and List is answered by the informer cache. `cluster` is the
  cache's content, and `ChangeSource` is a change together with its delivery, which
  is when its request is queued. A change that the API server has and the cache has
  not yet makes no difference to the operator. Only `alertmanager-main` is written,
  and writes go to the API server, so it is kept twice: `amSecret` is the server's
  copy, `amCached` what the cache knows, `amWatch` the events in between.
* **Queue.** `queue` is a set, as in client-go: a request that is waiting is not
  added twice, and one that is being worked on may be queued again. `polls` are
  requests delayed by a `Result`, `retries` those delayed after an error. There is
  one worker (`MaxConcurrentReconciles` is 1 by default).
* **Failures.** A read may fail (the zero value stays), a write may fail with or
  without effect, the process may end at any step.
* **At rest.** `AtRest` is an operator that has reconciled since it was started and has
  nothing queued, delayed, under way or undelivered. Two things go unnoticed by the code
  and must be left out: a read whose error is dropped, and a change of an object that
  leads to no `Reconcile` (ClusterVersion, Infrastructure, Proxy). The history variable
  `stale` records either one; the next `Start` clears it, since that `Reconcile` reads
  everything anew. `everReady` is a history variable too.
* **Events** are created on a best-effort basis, so `Record` may add nothing.

### Startup

Each pod's `main()` is at a `stage`, one per call that leaves the process: `fedramp`,
`leader`, `setup`, `service`, `serviceMonitor`, `metrics`, `start`, `running` (the worker
has started), `reconciling` (the first `Reconcile` has got its informers). `down` is a
container that is not running; every `os.Exit(1)`, panic and crash is `Exit`, after which
the kubelet starts the container again (`NewManager`). The lock is leader-for-life: created
by the first, found again by the same pod after a restart, collected with the pod object;
an evicted leader's pod is deleted by a candidate (`DeleteEvictedLeader`).

From a leader whose node is NotReady a candidate takes over, which is what the `nodes`
permission in `deploy/01_role.yaml:56-62` is for. It deletes the leader's pod
(`DeleteLeader`; reading lock, pod and node and deleting the pod is one step), then the lock
by its name, whoever owns it by then (`DeleteLock`), and tries to create its own; if the
lock is gone already, `Become` returns the error and the process exits (`DeleteLockFails`).
The kubelet of that node hears nothing of it (`NodeNotReady`, `NodeReady`): it ends no process
and removes no pod object (`Terminate`, `Remove`), and may start a container of a deleted
pod again (`MayStart`). The process may still reach the API server, so all of its steps
stay possible, but nothing says that they happen. `superseded` is a history variable: the pods whose
lock a candidate deleted.

The Deployment
has one replica, rolls out beside the old pod (`RollOut`), and scales the old one down once
the new one is `Available`, which without probes means: started. `Granted` is what the
ServiceAccount may list; a kind that is watched must fill before the worker starts, one
that is only read must fill before its first read returns. `StartMetrics` may leave a
process that does not serve: the error of `ListenAndServe` is dropped (`metrics.go:98`).

## Runs

Every passing run also has, for each of its properties, a mutant in
`PROJECT.json`: a plausible bug under which TLC finds that property violated.

| Run | Shows | States |
|---|---|---|
| `readiness_safety` | a positive verdict never carries a requeue request (`ReadyStopsPolling`); once the creation time is known a check begun past the maximum age never says "not ready" (`KnownOldClusterIsReady`); refinement; the cluster is declared ready in the end and stays so (`EventuallyReady`) | 86 thousand |
| `config_routing` | usable input loads; Watchdog reaches both monitors; managed notifications do not page; the loss of a master is critical; customers' namespaces do not page; the two tables agree; inhibition leaves one alert | 117 thousand |
| `controller_sync` | at rest the configuration is what the cluster asks for (`SettledInSync`), the gauges are true (`GaugesTruthful`) and each service is configured exactly if its Secret asks for it (`ReceiversFollowSecrets`), with two changes or restarts at any step of a `Reconcile` | 2 million |
| `controller_faults` | `PagingOnlyAfterReady`, `ReadinessIsPolled`, `FailureIsRetried`, `LastKnownGoodKept`, `GaugesTruthful`, `ImplementsConfigSync` and `InSyncIsLeftAlone` (what is in place is not written again) with failing reads and writes, a restart, unusable data, a bad age setting, a changing proxy and an `alertmanager-main` that others change | 0.42 million |
| `controller_liveness` | the operator comes to rest (`ComesToRest`), and from a request on it gets in sync with all it reads, watched or not (`RequestLeadsToSync`) | 0.17 million |
| `startup_pods` | one writer, but for a leader whose lock was deleted under it, which takes a failed node (`SingleWriter`); gauges from writers only (`GaugesFromWriter`); a ServiceMonitor that leads to them; and the newest pod gets to reconcile in the end (`EventuallyReconciling`), although the node of the old one may never come back | 0.39 million |

Six runs end in a counterexample. Each states a sentence of the documentation that
the code does not keep (`findings` in `PROJECT.json`):

| Run | What happens |
|---|---|
| `controller_version` | the ClusterVersion is watched, but its requests have no namespace and are dropped at line 185; a changed cluster type waits for another event |
| `controller_readerror` | `pd-secret` is created on a ready cluster, and in the one `Reconcile` of its event the read fails: the configuration stays without PagerDuty, with no error, no event, nothing queued, nothing to retry and no poll (a ready cluster is not polled). Reads come from a synced cache, so this is rare |
| `readiness_progressing` | an operator with Progressing=Unknown, or no condition at all, counts as settled |
| `readiness_age` | an old cluster is kept waiting while Prometheus does not answer |
| `startup_node` | the leader's node becomes NotReady, a candidate deletes its pod and its lock and is elected, and both processes reconcile |
| `startup_role` | with the role of `LOCAL_TESTING.md` (and of `deploy/01_role.yaml`), which lacks `clusteroperators`, the List at `cluster_ready.go:74` waits for ever and no write is attempted |

### Bounds

* Readiness: two ClusterOperators suffice for "all" to differ from "some"; the six
  condition records are one per branch of the loop, one Unknown and one silent; the
  clock moves by 30 minutes from the birth at 30 to 150 or 180, so that ages on,
  below and above 90 minutes occur, and with the settings 0 and -30 those below
  zero. One restart loses the state once.
* Configuration: each input takes every value that some condition tells apart. The labels
  of `LoneAlert` take the values that some rule names and one that none does; the alerts of
  `JointAlert` are those that inhibit rules connect, and three at a time are more than the
  two rules that any chain of them has. Alerts fire under selected inputs only
  (`RoutedInputs`): the tables depend on the namespace list and on which receivers exist.
  `TypeOK` is not among the invariants of the run: it restates the inputs.
* Controller: two changes are what it takes to tear a read and to change an object
  while its own request is worked on. The two states of `goalert-secret` share no
  value, so that a mixture of them equals neither. Each run makes one or two objects
  mutable, since the product of all of them is out of reach; `controller_sync` has two
  disturbances in all, changes or restarts. `controller_faults` has any two of a change, a
  read error, a write error and a restart (`MCFaults`), enough for a fault in the
  `Reconcile` that makes up for another one; its mutable object is the proxy, which is
  read and not watched. `controller_readerror` starts without `pd-secret`, so that the
  Secret's own event is the only thing that could lead to its receiver. The theorems are for
  any number.
* Start-up: three pods are a leader, its successor and one more roll-out or eviction. Any two
  failures (crashes, a failed creation, a failed node: `MCFailures`) fall at any step; a pod is
  evicted, or its node fails, only while there is a pod left to replace it, or liveness would be
  refuted by the bound. `startup_node` needs two pods and one failed node. The theorems are
  for any number.

The controller's and the start-up's runs do not check for deadlock: an operator with
nothing to do rests, and one that reconciles is where start-up ends.

### Fairness

* `Readiness!FairSpec`: the worker does not stop within `IsReady`, and every negative
  answer leads to another call, which the controller's `ReadinessIsPolled` justifies;
  the clock moves; Prometheus answers if it is asked again and again (strong
  fairness: single queries may fail).
* `SecretController!FairSpec`: worker, informer and delay queue run (client-go's
  goroutines), and an engine that is asked again and again says yes at some time,
  which is `Readiness!EventuallyReady`. Changes, failures and restarts have no fairness.
* `Startup!FairSpec`: every process on a node that is Ready goes on with `main()`, the
  Deployment replaces and scales down, the taint manager deletes pods from nodes that are
  NotReady, the kubelet and the garbage collector do their work. Crashes, evictions,
  roll-outs and nodes that fail or come back have none. `leader.Become` retries without end, so weak fairness suffices.

## Proofs

For every value of the constants that satisfies the named assumptions
(`ReadinessAssumption`, `ConfigAssumption`, `ControllerAssumption`, `RoutingAssumption`,
`StartupAssumption`: they give the constants their types, limit the age setting to what a
`time.Duration` holds, and exclude empty namespace names).

| Theorem | Statement |
|---|---|
| `ReadinessProofs!TypeCorrect` | `Spec => []TypeOK` |
| `ReadinessProofs!ReadyNeverPolls` | `Spec => []ReadyStopsPolling` |
| `ReadinessProofs!OldClusterIsReady` | `Spec => []KnownOldClusterIsReady` |
| `ReadinessProofs!Refinement` | `Spec => ImplementsInterface` |
| `SecretControllerProofs!TypeCorrect` | `Spec => []TypeOK` |
| `SecretControllerProofs!NoChangeLost` | `Spec => []SettledInSync` |
| `SecretControllerProofs!NoPagingBeforeReady` | `Spec => []PagingOnlyAfterReady` |
| `SecretControllerProofs!PollingNeverStops` | `Spec => []ReadinessIsPolled` |
| `SecretControllerProofs!FailuresAreRetried` | `Spec => []FailureIsRetried` |
| `SecretControllerProofs!InvalidNeverWritten` | `Spec => LastKnownGoodKept` |
| `AtRestProofs!GaugesAreTrue` | `Spec => []GaugesTruthful`, if `Absent` is no configuration |
| `AtRestProofs!ServicesFollowSecrets` | `Spec => []ReceiversFollowSecrets` |
| `AtRestProofs!InPlaceIsLeftAlone` | `Spec => InSyncIsLeftAlone` |
| `AtRestProofs!Refinement` | `Spec => ImplementsConfigSync` |
| `AlertRoutingProofs!ConfigurationsLoad` | `Spec => []UsableInputLoadsInv` |
| `AlertRoutingProofs!WatchdogIsMonitored` | `Spec => []WatchdogReachesMonitorsInv` |
| `AlertRoutingProofs!ManagedNotificationsStay` | `Spec => []ManagedNotificationsDoNotPageInv` |
| `AlertRoutingProofs!MasterLossPages` | `Spec => []MasterLossIsCriticalInv` |
| `AlertRoutingProofs!CustomersAreLeftOut` | `Spec => []CustomersDoNotPageInv` |
| `AlertRoutingProofs!SameTables` | `Spec => []TablesAgreeInv` |
| `AlertRoutingProofs!InhibitionLeavesOne` | `Spec => []NeverAllInhibitedInv` |
| `StartupProofs!TypeCorrect` | `Spec => []TypeOK` |
| `StartupProofs!OneWriter` | `Spec => []SingleWriter` |
| `StartupProofs!OneSourceOfGauges` | `Spec => []GaugesFromWriter` |
| `StartupProofs!ScrapingWorks` | `Spec => []ScrapeFindsGauges` |

The arguments:

* `CheckInv` (readiness): while a check is under way there is neither a verdict nor a
  requeue request. `ReadyStopsPolling` is not inductive without it, because nothing
  else says that the result was cleared before the verdict is given. The refinement
  rests on it too.
* `AgeInv`: a check began no later than now, and while one is under way the previous
  answer is gone. Hence a check that finds the cluster young now began when it was
  younger still.
* `SyncInv`: a `Reconcile` that nothing has disturbed so far (`Undisturbed`: no request due,
  no event under way) has read, will write or has written what the present cluster asks
  for; whatever does disturb it leaves a request behind. `SkipsUnwanted` shows that the
  reads that are skipped are the ones the configuration does not use, `SameConfig` that
  they do not show. All of it is said of a `Reconcile` that is not `stale`; without that it is
  false, since a failed read is not retried and a changed Proxy is not noticed
  (`controller_readerror` and `controller_version` are such behaviours).
* `GaugeInv`: `CacheFollows` relates the two copies of `alertmanager-main`: the last event
  under way, or without one the cache, says whether the Secret exists. So an undisturbed
  `Reconcile` has listed the Secrets and ConfigMaps there are (`GaugesFollow`), and if it
  is the one that creates `alertmanager-main`, whose gauge it then gets wrong, the event
  of that write is still to come and it is not the last. The hypothesis says that the
  constant for a missing Secret is not one of the configurations, which are records.
* `ServicesFollowSecrets`: from `NoChangeLost`, and from `ServiceConditions`, which says when
  the builder makes the receiver and the route of each service (`RoutesAre` lists the routes
  and their conditions). It is the sentence of README.md:21 that `controller_readerror`
  refutes, now with the cases in which the code does keep it.
* `InPlaceIsLeftAlone`: `WhoTouches` names the actions that can change `alertmanager-main`
  or put an event under way. A change by others counts in `changes`; a write by an
  undisturbed operator writes, by `SyncInv`, what is in place already, and the API server
  sends no event for an update that changes nothing.
* `Refinement` (controller): what is demanded changes with a source object, a verdict or a
  restart (`WhoDemands`), and each of them ends the rest or makes the operator `stale`. A
  write is a `Write` by `WriteInv` and `PagingOnlyAfterReady`. Every other step changes
  neither what is stored nor what is demanded, and if it ends at rest, it ends in sync
  (`SettledInSync`).
* `PagingInv`: the controller's verdict implies the engine's, the engine's implies that
  readiness was found once, and under a negative verdict no paging key is non-empty or
  about to be read. `PagingNeedsKey` says that a paging receiver comes from a paging key.
* `PollInv`: past `IsReady` the last answer is "ready" or "not ready", and "not ready"
  came with a delay; so returning either asks for another poll or need not.
* `WriteInv`: after a successful write the failure gauge is down, and what is about to be
  created has passed the validation.

* `AlertRoutingProofs`: the routes are numbered by six candidates, increasing along the
  chain (`RoutesNumbered`), so which of them an alert gets to depends on the candidates
  alone (`VisitedRoutes`). A table's decision is the first fixed rule's, if one matches, and
  otherwise that of a namespace's rule (`TableDecides`). Inhibition climbs a ladder of nine
  rungs, three by the alert's name times three by its severity (`InhibitionClimbs`), so the
  alerts on the lowest rung that is occupied are not inhibited.
* `ElectionInv` (start-up): who is past the election owns the lock or is `superseded`, a pod
  without a process is past nothing, who serves gauges is past the election, and as long as
  no node has failed nobody is superseded or about to delete a lock. The garbage collector
  takes the lock only with its owner's pod object, which goes only after its process; without
  that part `SingleWriter` is not inductive. `SingleWriter` does not say that there is one
  writer: `startup_node` shows two. It says that this takes a takeover from a failed node,
  and that even then only those who lost their lock are in excess. `ServiceBeforeMonitor`:
  nobody gets to the ServiceMonitor before the Service exists.

Only model-checked: the liveness properties, since TLAPS does not do fairness
(`EventuallyReady`, `ComesToRest`, `RequestLeadsToSync`, `EventuallyReconciling`).

## Not modelled

* **Blocking calls in `SecretController`.** A cached read whose informer never syncs blocks
  the worker; `Startup` has that, and in `SecretController` reads answer or fail.
* **Two writers at once**, which `SKIP_LEADER_ELECTION` allows and main.go:141 warns of, and
  which a takeover from a failed node leads to (`startup_node`): `SingleWriter` is stated for the
  election, and `SecretController` has one process.
* **Pod objects deleted by force**, by an administrator or with their node: the lock would then
  be collected under a running process, as it is in a takeover.
* **`http_config.proxy_url`** in `Load`: Alertmanager refuses one it cannot parse, but the value
  comes from the Proxy's status (`secret_controller.go:1158`), which its own operator has
  validated.
* **Overflow of `time.Duration`** for age settings beyond 292 years.
* **Grouping, repeat intervals and silences** of Alertmanager; how a receiver notifies.
* **YAML**, the Secret's other keys, log messages, the text of Events.
* **Manifests** beyond what `Startup` uses, build files, generated mocks, test code.

## Observations

Without a run, since no sentence of the documentation says otherwise, or it is open to
interpretation; the models follow the code:

* A test case is named "Cluster not ready: don't configure GA, PD or OA."
  (`controllers/secret_controller_test.go:1744`), but the OCM Agent is configured whatever
  the verdict is.
* The order announced at `secret_controller.go:333-339` is not kept throughout: an SRE rule
  of class common (413) precedes rules that silence (415-476), and rules that silence (482,
  497-514) follow ones that warn.
* The rule for `NodeFilesystemAlmostOutOfSpace` with a mount point (476) is never reached:
  the alert is silenced under any mount point before.
* GoAlert has no rule for `exported_namespace` (523 is PagerDuty's only) and none for
  severities other than critical, error and warning; `TablesAgree` names both exceptions.
* A failed Update or Create of a valid configuration raises
  `alertmanager_config_validation_failed` too (`secret_controller.go:1438`), which README.md:70
  explains as "validation failed (config is invalid)". `FailureIsRetried` covers both cases.
* A Service or ServiceMonitor that exists is never updated (`main.go:182`, `187`).

## Plan

1. Two operator processes against one `alertmanager-main`, as `SKIP_LEADER_ELECTION` and a
   takeover allow: whether they come to rest, and in sync.
