--------------------------- MODULE SecretController ---------------------------
(***************************************************************************)
(* The operator's only controller: SecretReconciler in                     *)
(* controllers/secret_controller.go, the gauges of pkg/metrics, and as     *)
(* much of the controller-runtime manager and of the Kubernetes API as     *)
(* they need (informer cache, work queue, Update and Create).              *)
(*                                                                         *)
(* Reconcile is one step per call that leaves the process.  Every Get and  *)
(* List is answered by the informer cache, so the objects it is configured *)
(* from appear here as the cache holds them (`cluster'): a change is taken *)
(* when its watch event arrives, which is also when its request is queued. *)
(* Only alertmanager-main is written, at the API server; `amSecret' is     *)
(* what the server holds, `amCached' whether the cache knows it exists.    *)
(***************************************************************************)
EXTENDS AlertmanagerConfig, Integers, FiniteSets

CONSTANTS
    Absent,         \* model value: the object does not exist
    Foreign,        \* model value: an alertmanager-main somebody else wrote
    States,         \* what each source object may contain when it exists
    InitialCluster, \* the source objects when the operator is first started
    InitialAlertmanager, \* alertmanager-main then: Absent, Foreign or either
    Mutable,        \* source objects that are changed while it runs
    BadAgeSetting,  \* MAX_CLUSTER_AGE_MINUTES is no number
    MaxChanges,     \* bound: changes made by others
    MaxReadErrors,  \* bound: Gets and Lists that fail
    MaxWriteErrors, \* bound: Updates and Creates that fail
    MaxRestarts     \* bound: restarts of the operator

--------------------------------------------------------------------------------
(* Objects and requests. *)

alertmanagerMain == "alertmanager-main"

PagingSecret == {"pd-secret", "cad-pd-secret", "goalert-secret"}
SourceSecret == PagingSecret \cup {"dms-secret", "other-secret"}
ConfigMap == {"managed-namespaces", "ocp-namespaces", "ocm-agent"}
ClusterScoped == {"version", "infrastructure", "proxy"}

Source == SourceSecret \cup ConfigMap \cup ClusterScoped

\* SetupWithManager: changes of these objects become requests.
Watched == SourceSecret \cup ConfigMap \cup {"version", alertmanagerMain}

\* Mutants of Relevant: one name is missing from the list.
RelevantButGoalert == Watched \ {"goalert-secret", "other-secret", "version"}
RelevantButAlertmanager == Watched \ {alertmanagerMain, "other-secret", "version"}

\* The requests Reconcile does not return from at once: the ones in the
\* operator's namespace with a name on the list.  The ClusterVersion's name
\* is on the list, but a cluster-scoped object has no namespace.
Relevant ==
    {"pd-secret", "cad-pd-secret", "goalert-secret", "dms-secret",
     "managed-namespaces", "ocp-namespaces", "ocm-agent", alertmanagerMain}

(***************************************************************************)
(* The reads of one Reconcile, in order: the object, its field, the value  *)
(* left when the read yields nothing.                                      *)
(***************************************************************************)
Read(object, field, zero) == [object |-> object, field |-> field, zero |-> zero]

Reads ==
    [pagerdutyKey       |-> Read("pd-secret", "PAGERDUTY_KEY", Empty),
     cadPagerdutyKey    |-> Read("cad-pd-secret", "CAD_PAGERDUTY_KEY", Empty),
     snitchURL          |-> Read("dms-secret", "SNITCH_URL", Empty),
     goalertLow         |-> Read("goalert-secret", "GOALERT_URL_LOW", Empty),
     goalertHigh        |-> Read("goalert-secret", "GOALERT_URL_HIGH", Empty),
     goalertHeartbeat   |-> Read("goalert-secret", "GOALERT_HEARTBEAT", Empty),
     managedNamespaces  |-> Read("managed-namespaces", "document", EmptyDocument),
     ocpNamespaces      |-> Read("ocp-namespaces", "document", EmptyDocument),
     infrastructureName |-> Read("infrastructure", "name", "unreadable"),
     clusterType        |-> Read("version", "clusterType", Empty),
     mcNamespaces       |-> Read("managed-namespaces", "document", EmptyDocument),
     serviceURL         |-> Read("ocm-agent", "serviceURL", Empty),
     httpsProxy         |-> Read("proxy", "httpsProxy", Empty),
     clusterID          |-> Read("version", "clusterID", Empty),
     region             |-> Read("infrastructure", "region", Empty)]

Keys == DOMAIN Reads

Order ==
    <<"pagerdutyKey", "cadPagerdutyKey", "snitchURL", "goalertLow", "goalertHigh",
      "goalertHeartbeat", "managedNamespaces", "ocpNamespaces", "infrastructureName",
      "clusterType", "mcNamespaces", "serviceURL", "httpsProxy", "clusterID", "region">>

PagingKey ==
    {"pagerdutyKey", "cadPagerdutyKey", "goalertLow", "goalertHigh", "goalertHeartbeat"}

NothingRead == [k \in Keys |-> Reads[k].zero]

Content == UNION {States[o] : o \in Source}

\* What a read may yield.
ReadValue ==
    [k \in Keys |->
        {Reads[k].zero} \cup {state[Reads[k].field] : state \in States[Reads[k].object]}]

ASSUME ControllerAssumption ==
    /\ DOMAIN States = Source
    /\ Absent \notin Content
    /\ Absent # Foreign
    /\ InitialCluster \subseteq [Source -> Content \cup {Absent}]
    /\ \A c \in InitialCluster : \A o \in Source : c[o] \in States[o] \cup {Absent}
    /\ InitialAlertmanager \subseteq {Absent, Foreign}
    /\ Mutable \subseteq Source
    /\ BadAgeSetting \in BOOLEAN
    /\ {MaxChanges, MaxReadErrors, MaxWriteErrors, MaxRestarts} \subseteq Nat

--------------------------------------------------------------------------------
VARIABLES
    \* The cluster.
    cluster,        \* the source objects, as the informer cache holds them
    amSecret,       \* alertmanager-main at the API server
    amWatch,        \* watch events of it under way: does it exist?
    amCached,       \* does it exist according to the informer cache?
    events,         \* reasons of the Events the operator has created
    \* The work queue.
    queue,          \* requests waiting for the worker
    polls,          \* requests put off by the readiness engine (AddAfter)
    retries,        \* requests put off after an error (AddRateLimited)
    \* The worker, inside Reconcile.
    pc,             \* the next call
    request,        \* the request being worked on
    clusterReady,   \* the verdict of IsReady() for this request
    listed,         \* names found by the two Lists
    in,             \* the values read so far
    \* The readiness engine, see ReadinessInterface.
    ready, result, answer,
    gauges,         \* pkg/metrics
    \* History and bounds.
    everReady,      \* some IsReady() has said yes in the life of the cluster
    stale,          \* since the last Start a read of the data has failed, or an
                    \* object no Reconcile follows from has changed
    changes, readErrors, writeErrors, restarts

clusterVars == <<cluster, amSecret, amWatch, amCached, events>>
queueVars   == <<queue, polls, retries>>
workerVars  == <<pc, request, clusterReady, listed, in>>
engineVars  == <<ready, result, answer, everReady>>
bounds      == <<changes, readErrors, writeErrors, restarts>>

vars == <<clusterVars, queueVars, workerVars, engineVars, stale, gauges, bounds>>

\* How long a delay is makes no difference here.
R == INSTANCE ReadinessInterface WITH RequeueDelay <- {"later"}

Gauge ==
    {"ga_secret_exists", "pd_secret_exists", "dms_secret_exists", "am_secret_exists",
     "am_secret_contains_ga", "am_secret_contains_pd", "am_secret_contains_dms",
     "managed_namespaces_configmap_exists", "ocp_namespaces_configmap_exists",
     "alertmanager_config_validation_failed"}

\* A gauge has no series (-1) before it is first set.
NoSeries == [g \in Gauge |-> -1]

NoRequest == "none"

TypeOK ==
    /\ cluster \in [Source -> Content \cup {Absent}]
    /\ \A o \in Source : cluster[o] \in States[o] \cup {Absent}
    /\ amWatch \in Seq(BOOLEAN)
    /\ amCached \in BOOLEAN
    /\ events \subseteq {"ClusterTypeDetectionFailure", "AlertmanagerConfigValidationFailure"}
    /\ queue \subseteq Watched
    /\ polls \subseteq Relevant
    /\ retries \subseteq Relevant
    /\ pc \in {"idle", "detect", "isReady", "listSecrets", "listConfigMaps",
               "update", "create", "metrics"} \cup Keys
    /\ request \in Relevant \cup {NoRequest}
    /\ request = NoRequest <=> pc = "idle"
    /\ clusterReady \in BOOLEAN
    /\ listed \subseteq Watched
    /\ in = [k \in Keys |-> in[k]]
    /\ \A k \in Keys : in[k] \in ReadValue[k]
    /\ ready \in BOOLEAN /\ result \in R!Result /\ answer \in R!Answer
    /\ gauges \in [Gauge -> {-1, 0, 1}]
    /\ everReady \in BOOLEAN /\ stale \in BOOLEAN
    /\ changes \in 0 .. MaxChanges
    /\ readErrors \in 0 .. MaxReadErrors
    /\ writeErrors \in 0 .. MaxWriteErrors
    /\ restarts \in 0 .. MaxRestarts

\* The requests that the initial list of a fresh informer cache produces.
Existing(c, am) ==
    {o \in Watched : IF o = alertmanagerMain THEN am # Absent ELSE c[o] # Absent}

Init ==
    /\ cluster \in InitialCluster
    /\ amSecret \in InitialAlertmanager
    /\ amWatch = << >>
    /\ amCached = (amSecret # Absent)
    /\ events = {}
    /\ queue = Existing(cluster, amSecret)
    /\ polls = {} /\ retries = {}
    /\ pc = "idle" /\ request = NoRequest
    /\ clusterReady = FALSE /\ listed = {} /\ in = NothingRead
    /\ R!Init
    /\ gauges = NoSeries
    /\ everReady = FALSE /\ stale = FALSE
    /\ changes = 0 /\ readErrors = 0 /\ writeErrors = 0 /\ restarts = 0

--------------------------------------------------------------------------------
(* What others do to the cluster. *)

\* A source object is created, updated or deleted, and the informer delivers it.
ChangeSource(o, content) ==
    /\ changes < MaxChanges
    /\ content # cluster[o]
    /\ changes' = changes + 1
    /\ cluster' = [cluster EXCEPT ![o] = content]
    /\ queue' = queue \cup ({o} \cap Watched)
    /\ stale' = (stale \/ o \in ClusterScoped)
    /\ UNCHANGED <<amSecret, amWatch, amCached, events, polls, retries, workerVars,
                   engineVars, gauges, readErrors, writeErrors, restarts>>

\* Somebody edits or deletes alertmanager-main.
ChangeAlertmanager(content) ==
    /\ changes < MaxChanges
    /\ content # amSecret
    /\ changes' = changes + 1
    /\ amSecret' = content
    /\ amWatch' = Append(amWatch, content # Absent)
    /\ UNCHANGED <<cluster, amCached, events, queueVars, workerVars, engineVars, stale,
                   gauges, readErrors, writeErrors, restarts>>

\* The informer takes the next watch event of alertmanager-main.
DeliverAlertmanager ==
    /\ amWatch # << >>
    /\ amCached' = Head(amWatch)
    /\ amWatch' = Tail(amWatch)
    /\ queue' = queue \cup {alertmanagerMain}
    /\ UNCHANGED <<cluster, amSecret, events, polls, retries, workerVars, engineVars, stale,
                   gauges, bounds>>

--------------------------------------------------------------------------------
(* The work queue.  A request queued while it is worked on is kept. *)

\* A delay runs out.
Timer(r) ==
    /\ r \in polls \cup retries
    /\ queue' = queue \cup {r}
    /\ \/ r \in polls   /\ polls' = polls \ {r}     /\ UNCHANGED retries
       \/ r \in retries /\ retries' = retries \ {r} /\ UNCHANGED polls
    /\ UNCHANGED <<clusterVars, workerVars, engineVars, stale, gauges, bounds>>

\* Mutant of Skip: the early return carries the engine's result.
SkipRequeues(r) ==
    /\ pc = "idle"
    /\ r \in queue \ Relevant
    /\ queue' = queue \ {r}
    /\ polls' = IF result # R!NoRequeue THEN polls \cup {r} ELSE polls
    /\ UNCHANGED <<clusterVars, retries, workerVars, engineVars, stale, gauges, bounds>>

\* Reconcile returns at once: another namespace, or a name not on the list.
Skip(r) ==
    /\ pc = "idle"
    /\ r \in queue \ Relevant
    /\ queue' = queue \ {r}
    /\ UNCHANGED <<clusterVars, polls, retries, workerVars, engineVars, stale, gauges,
                   bounds>>

Start(r) ==
    /\ pc = "idle"
    /\ r \in queue \cap Relevant
    /\ queue' = queue \ {r}
    /\ request' = r
    /\ pc' = "detect"
    /\ stale' = FALSE
    /\ UNCHANGED <<clusterVars, polls, retries, clusterReady, listed, in, engineVars,
                   gauges, bounds>>

\* Reconcile's local state is gone when it returns.
Return ==
    /\ pc' = "idle" /\ request' = NoRequest
    /\ clusterReady' = FALSE /\ listed' = {} /\ in' = NothingRead

\* return ..., err: the request is put back with a growing delay.
ReturnError ==
    /\ Return
    /\ retries' = retries \cup {request}
    /\ UNCHANGED <<queue, polls>>

\* Mutant of ReturnResult: return reconcile.Result{}, nil.
ReturnNothing == Return /\ UNCHANGED queueVars

\* return r.Readiness.Result(), nil.
ReturnResult ==
    /\ Return
    /\ polls' = IF result # R!NoRequeue THEN polls \cup {request} ELSE polls
    /\ UNCHANGED <<queue, retries>>

--------------------------------------------------------------------------------
(* Reconcile, call by call. *)

\* An Event is created, on a best-effort basis.
Record(reason) == events' \in {events, events \cup {reason}}

\* isManagementCluster() for the log: only an Event can come of it.
DetectClusterType ==
    /\ pc = "detect"
    /\ pc' = "isReady"
    /\ \/ /\ cluster["infrastructure"] # Absent
          /\ UNCHANGED <<events, readErrors>>
       \/ /\ cluster["infrastructure"] = Absent
          /\ Record("ClusterTypeDetectionFailure")
          /\ UNCHANGED readErrors
       \/ /\ readErrors < MaxReadErrors
          /\ readErrors' = readErrors + 1
          /\ Record("ClusterTypeDetectionFailure")
    /\ UNCHANGED <<cluster, amSecret, amWatch, amCached, queueVars, request, clusterReady,
                   listed, in, engineVars, stale, gauges, changes, writeErrors, restarts>>

ReadinessKnown ==
    /\ pc = "isReady"
    /\ R!CachedReady \/ R!DeclareReady \/ R!KeepWaiting
    /\ clusterReady' = ready'
    /\ everReady' = (everReady \/ ready')
    /\ pc' = "listSecrets"
    /\ UNCHANGED <<clusterVars, queueVars, request, listed, in, stale, gauges, bounds>>

ReadinessFails ==
    /\ pc = "isReady"
    /\ BadAgeSetting
    /\ R!Misconfigured
    /\ ReturnError
    /\ UNCHANGED <<clusterVars, everReady, stale, gauges, bounds>>

\* Mutant of Needed: parseSecrets does not look at the verdict.
NeededEvenIfNotReady(k) ==
    /\ Reads[k].object \in SourceSecret \cup ConfigMap => Reads[k].object \in listed
    /\ k = "clusterType" => in.infrastructureName \notin {"unreadable", "hs-mc"}
    /\ k = "mcNamespaces" => isManagementCluster(in)

\* Secrets and ConfigMaps are read if they were listed, paging ones if the
\* cluster is ready; the ClusterVersion is asked for the cluster's type only
\* if the Infrastructure does not tell.
Needed(k) ==
    /\ Reads[k].object \in SourceSecret \cup ConfigMap => Reads[k].object \in listed
    /\ k \in PagingKey => clusterReady
    /\ k = "clusterType" => in.infrastructureName \notin {"unreadable", "hs-mc"}
    /\ k = "mcNamespaces" => isManagementCluster(in)

\* The next call is the first read from the i-th on that is needed, or the write.
Advance(i) ==
    \E j \in i .. Len(Order) + 1 :
        /\ \A m \in i .. j - 1 : ~Needed(Order[m])'
        /\ \/ j \in DOMAIN Order /\ Needed(Order[j])' /\ pc' = Order[j]
           \/ j = Len(Order) + 1 /\ pc' = "update"

\* A List that fails is logged and leaves an empty list.
List(names) ==
    /\ \/ /\ listed' = listed \cup names
          /\ UNCHANGED <<readErrors, stale>>
       \/ /\ readErrors < MaxReadErrors
          /\ readErrors' = readErrors + 1
          /\ stale' = TRUE
          /\ UNCHANGED listed
    /\ UNCHANGED <<clusterVars, queueVars, request, clusterReady, in, engineVars, gauges,
                   changes, writeErrors, restarts>>

ListSecrets ==
    /\ pc = "listSecrets"
    /\ List({o \in SourceSecret : cluster[o] # Absent}
                \cup {o \in {alertmanagerMain} : amCached})
    /\ pc' = "listConfigMaps"

ListConfigMaps ==
    /\ pc = "listConfigMaps"
    /\ List({o \in ConfigMap : cluster[o] # Absent})
    /\ Advance(1)

ReadField(k) ==
    IF cluster[Reads[k].object] = Absent THEN Reads[k].zero
    ELSE cluster[Reads[k].object][Reads[k].field]

\* parseConfigMaps raises the Event again.
ReadEvent(k) ==
    IF k = "infrastructureName" /\ in'[k] = "unreadable"
    THEN Record("ClusterTypeDetectionFailure")
    ELSE UNCHANGED events

\* One Get, the i-th read.  The object may have changed since it was listed, or
\* since another of its fields was read; an error leaves the zero value.
Get(i) ==
    LET k == Order[i]
    IN  /\ pc = k
        /\ \/ /\ in' = [in EXCEPT ![k] = ReadField(k)]
              /\ UNCHANGED <<readErrors, stale>>
           \/ /\ readErrors < MaxReadErrors
              /\ readErrors' = readErrors + 1
              /\ stale' = TRUE
              /\ UNCHANGED in
        /\ ReadEvent(k)
        /\ UNCHANGED <<cluster, amSecret, amWatch, amCached, queueVars, request,
                       clusterReady, listed, engineVars, gauges, changes, writeErrors,
                       restarts>>
        /\ Advance(i + 1)

--------------------------------------------------------------------------------
(* writeAlertManagerConfig and the metrics. *)

alertmanagerconfig == createAlertManagerConfig(in)

UpdateAlertmanagerConfigValidationMetric(passed) ==
    gauges' = [gauges EXCEPT !["alertmanager_config_validation_failed"] =
                  IF passed THEN 0 ELSE 1]

\* Mutant of ValidationFails: the error is not returned.
ValidationFailsQuietly ==
    /\ pc = "update"
    /\ ~Load(alertmanagerconfig)
    /\ Record("AlertmanagerConfigValidationFailure")
    /\ UpdateAlertmanagerConfigValidationMetric(FALSE)
    /\ ReturnResult
    /\ UNCHANGED <<cluster, amSecret, amWatch, amCached, engineVars, stale, bounds>>

\* Alertmanager would refuse the configuration: it is not written.
ValidationFails ==
    /\ pc = "update"
    /\ ~Load(alertmanagerconfig)
    /\ Record("AlertmanagerConfigValidationFailure")
    /\ UpdateAlertmanagerConfigValidationMetric(FALSE)
    /\ ReturnError
    /\ UNCHANGED <<cluster, amSecret, amWatch, amCached, engineVars, stale, bounds>>

\* Mutant of Store: no two writes are alike, as if they carried a timestamp.
StoreStamped ==
    /\ amSecret' = alertmanagerconfig
    /\ amWatch' = Append(amWatch, TRUE)

\* The API server stores the configuration; an Update that changes nothing
\* produces no watch event.
Store ==
    /\ amSecret' = alertmanagerconfig
    /\ amWatch' = IF amSecret = alertmanagerconfig THEN amWatch ELSE Append(amWatch, TRUE)

WriteSucceeds ==
    /\ Store
    /\ UpdateAlertmanagerConfigValidationMetric(TRUE)
    /\ pc' = "metrics"
    /\ UNCHANGED <<cluster, amCached, events, queueVars, request, clusterReady, listed, in,
                   engineVars, stale, bounds>>

\* Mutant of WriteReturnsError: the error is not returned.
WriteErrorSwallowed ==
    /\ UpdateAlertmanagerConfigValidationMetric(FALSE)
    /\ ReturnResult
    /\ UNCHANGED <<cluster, amCached, events, engineVars, stale, changes, readErrors,
                   restarts>>

WriteReturnsError ==
    /\ UpdateAlertmanagerConfigValidationMetric(FALSE)
    /\ ReturnError
    /\ UNCHANGED <<cluster, amCached, events, engineVars, stale, changes, readErrors,
                   restarts>>

\* Mutant of Update: written without having been validated.
UpdateUnvalidated ==
    /\ pc = "update"
    /\ amSecret # Absent
    /\ WriteSucceeds

Update ==
    /\ pc = "update"
    /\ Load(alertmanagerconfig)
    /\ amSecret # Absent
    /\ WriteSucceeds

UpdateNotFound ==
    /\ pc = "update"
    /\ Load(alertmanagerconfig)
    /\ amSecret = Absent
    /\ pc' = "create"
    /\ UNCHANGED <<clusterVars, queueVars, request, clusterReady, listed, in, engineVars,
                   stale, gauges, bounds>>

Create ==
    /\ pc = "create"
    /\ amSecret = Absent
    /\ WriteSucceeds

\* Somebody created it in the meantime.
CreateAlreadyExists ==
    /\ pc = "create"
    /\ amSecret # Absent
    /\ WriteReturnsError
    /\ UNCHANGED <<amSecret, amWatch, writeErrors>>

\* The call fails; the server may have carried it out all the same.
WriteFails ==
    /\ pc \in {"update", "create"}
    /\ Load(alertmanagerconfig)
    /\ writeErrors < MaxWriteErrors
    /\ writeErrors' = writeErrors + 1
    /\ \/ UNCHANGED <<amSecret, amWatch>>
       \/ /\ (pc = "update") = (amSecret # Absent)
          /\ Store
    /\ WriteReturnsError

One(condition) == IF condition THEN 1 ELSE 0

\* The content gauges need the Secret, alertmanager-main and the receiver.
Contains(secret, receiver) ==
    One(/\ {secret, alertmanagerMain} \subseteq listed
        /\ receiver \in ReceiverNames(alertmanagerconfig))

UpdateSecretsMetrics ==
    [ga_secret_exists       |-> One("goalert-secret" \in listed),
     pd_secret_exists       |-> One("pd-secret" \in listed),
     dms_secret_exists      |-> One("dms-secret" \in listed),
     am_secret_exists       |-> One(alertmanagerMain \in listed),
     am_secret_contains_ga  |-> Contains("goalert-secret", "goalert"),
     am_secret_contains_pd  |-> Contains("pd-secret", "pagerduty"),
     am_secret_contains_dms |-> Contains("dms-secret", "watchdog")]

UpdateConfigMapMetrics ==
    [managed_namespaces_configmap_exists |-> One("managed-namespaces" \in listed),
     ocp_namespaces_configmap_exists     |-> One("ocp-namespaces" \in listed)]

\* The gauges follow the Lists made before the write; then Reconcile returns.
UpdateMetrics ==
    /\ pc = "metrics"
    /\ gauges' = [g \in Gauge |->
                     IF g \in DOMAIN UpdateSecretsMetrics THEN UpdateSecretsMetrics[g]
                     ELSE IF g \in DOMAIN UpdateConfigMapMetrics
                     THEN UpdateConfigMapMetrics[g] ELSE gauges[g]]
    /\ ReturnResult
    /\ UNCHANGED <<clusterVars, engineVars, stale, bounds>>

\* The process ends, wherever it was, and a new one lists what exists.
Restart ==
    /\ restarts < MaxRestarts
    /\ restarts' = restarts + 1
    /\ amCached' = (amSecret # Absent)
    /\ amWatch' = << >>
    /\ queue' = Existing(cluster, amSecret)
    /\ polls' = {} /\ retries' = {}
    /\ Return
    /\ R!Restart
    /\ gauges' = NoSeries
    /\ UNCHANGED <<cluster, amSecret, events, everReady, stale, changes, readErrors,
                   writeErrors>>

Reconcile ==
    \/ DetectClusterType
    \/ ReadinessKnown \/ ReadinessFails
    \/ ListSecrets \/ ListConfigMaps
    \/ \E i \in DOMAIN Order : Get(i)
    \/ ValidationFails \/ Update \/ UpdateNotFound
    \/ Create \/ CreateAlreadyExists \/ WriteFails
    \/ UpdateMetrics

Worker == Reconcile \/ \E r \in Watched : Skip(r) \/ Start(r)

Next ==
    \/ \E o \in Mutable : \E content \in States[o] \cup {Absent} : ChangeSource(o, content)
    \/ \E content \in {Foreign, Absent} : ChangeAlertmanager(content)
    \/ DeliverAlertmanager
    \/ \E r \in Relevant : Timer(r)
    \/ Worker
    \/ Restart

Spec == Init /\ [][Next]_vars

(***************************************************************************)
(* The worker and the informers run, delays end, and the readiness engine  *)
(* does not say "not ready" for ever (Readiness!EventuallyReady).          *)
(***************************************************************************)
FairSpec ==
    /\ Spec
    /\ WF_vars(Worker)
    /\ WF_vars(DeliverAlertmanager)
    /\ \A r \in Relevant : WF_vars(Timer(r))
    /\ SF_vars(ReadinessKnown /\ ready')

--------------------------------------------------------------------------------
(* Properties. *)

Pending == queue \cup polls \cup retries

\* Nothing is left to do but to poll the readiness engine.
Settled ==
    /\ pc = "idle"
    /\ queue = {} /\ retries = {}
    /\ amWatch = << >>

\* What a Reconcile would read if nothing changed while it ran.
Snapshot ==
    [k \in Keys |-> IF k \in PagingKey /\ ~ready THEN Reads[k].zero ELSE ReadField(k)]

InSync == amSecret = createAlertManagerConfig(Snapshot)

\* It has reconciled since it was started, and the last Reconcile could read all
\* it had to; what it took over has not changed behind its back since.
AtRest == Settled /\ answer # "none" /\ ~stale

\* An operator at rest has made alertmanager-main what the cluster asks for: no
\* change is lost between the Lists and the Gets, between two Gets of one object,
\* between a Get and the write, or while the same request is worked on; and what
\* a failed read left out is made up for by the next Reconcile.
SettledInSync == AtRest => InSync

\* What the gauges should say: which objects exist, and what alertmanager-main
\* contains.
GaugesTrue ==
    /\ gauges["am_secret_exists"] = 1
    /\ gauges["pd_secret_exists"] = One(cluster["pd-secret"] # Absent)
    /\ gauges["ga_secret_exists"] = One(cluster["goalert-secret"] # Absent)
    /\ gauges["dms_secret_exists"] = One(cluster["dms-secret"] # Absent)
    /\ gauges["managed_namespaces_configmap_exists"]
          = One(cluster["managed-namespaces"] # Absent)
    /\ gauges["ocp_namespaces_configmap_exists"] = One(cluster["ocp-namespaces"] # Absent)
    /\ gauges["am_secret_contains_pd"] = One("pagerduty" \in ReceiverNames(amSecret))
    /\ gauges["am_secret_contains_ga"] = One("goalert" \in ReceiverNames(amSecret))
    /\ gauges["am_secret_contains_dms"] = One("watchdog" \in ReceiverNames(amSecret))
    /\ gauges["alertmanager_config_validation_failed"] = 0

\* An operator at rest has true gauges, although they are computed from Lists made
\* before the write and from a configuration built before it.
GaugesTruthful == AtRest => GaugesTrue

\* What the Secrets, as they are now, ask for: Dead Man's Snitch at once, the other
\* two once the cluster is ready, and GoAlert with both of its URLs only.
Asked ==
    [pagerduty |-> ready /\ ReadField("pagerdutyKey") # Empty,
     goalert   |-> ready /\ ReadField("goalertLow") # Empty /\ ReadField("goalertHigh") # Empty,
     watchdog  |-> ReadField("snitchURL") # Empty]

Routed(config, name) ==
    \E i \in DOMAIN config.routes :
        \/ name = config.routes[i].receiver
        \/ name \in subrouteReceivers(config.routes[i].table)

\* README.md:21, as far as the code keeps it: with an operator at rest each of the
\* three services has its receiver and a route to it exactly if its Secret asks
\* for them, however the Secret was created, updated or deleted meanwhile.
ReceiversFollowSecrets ==
    AtRest =>
        \A service \in {"pagerduty", "goalert", "watchdog"} :
            /\ service \in ReceiverNames(amSecret) <=> Asked[service]
            /\ Routed(amSecret, service) <=> Asked[service]

PagingReceiver ==
    {"pagerduty", "make-it-warning", "make-it-error", "make-it-critical",
     "cad-pagerduty", "goalert", "goalert-high", "goalert-heartbeat"}

Pages(config) ==
    config \notin {Absent, Foreign} /\ ReceiverNames(config) \cap PagingReceiver # {}

\* No configuration that pages is in place before the cluster was found ready
\* for the first time, whatever fails, restarts or changes on the way.
PagingOnlyAfterReady == Pages(amSecret) => everReady

\* While the cluster is not ready (or its readiness cannot be told), a request
\* that leads to the next look at it is always queued or put off: readiness is
\* polled although no watch would ever report it.
ReadinessIsPolled ==
    (pc = "idle" /\ answer \in {"notReady", "error"}) => Pending \cap Relevant # {}

\* A configuration that could not be validated or written is tried again: the
\* failure gauge is 1 only while a Reconcile is under way or due.
FailureIsRetried ==
    (gauges["alertmanager_config_validation_failed"] = 1 /\ pc = "idle")
        => (queue \cup retries) \cap Relevant # {}

\* Whatever is written, Alertmanager can load it; what it cannot load never
\* replaces the last configuration it could.
LastKnownGoodKept ==
    [][(amSecret' # amSecret /\ changes' = changes) => Load(amSecret')]_vars

\* No request is due and no event is under way, except what the worker is at.
Undisturbed == queue \cap Relevant = {} /\ retries = {} /\ amWatch = << >>

\* What is in place is left alone: a Reconcile that nothing disturbs, as the next
\* poll or the echo of the operator's own write starts one, does not change
\* alertmanager-main again and so causes no event that would start another.
InSyncIsLeftAlone ==
    [][(Undisturbed /\ ~stale /\ InSync /\ changes' = changes)
          => UNCHANGED <<amSecret, amWatch>>]_vars

C == INSTANCE ConfigSync
     WITH Others <- {Absent, Foreign}, Loads <- Load, Pages <- Pages,
          stored <- amSecret, demanded <- createAlertManagerConfig(Snapshot),
          atRest <- AtRest, mayPage <- everReady

\* The controller implements ConfigSync: through all changes, failures and
\* restarts it writes only what can be loaded and may page by then, writes
\* nothing while it is at rest, and comes to rest only in sync.
ImplementsConfigSync == C!Spec

\* The operator comes to rest: its own writes, the events they cause and the
\* retries of what failed die down, unless the data it is given is unusable.
ComesToRest == <>[]Settled \/ <>[]~UsableInput(Snapshot)

\* A request that is waiting when the last change has been made leads to rest
\* with all of the cluster taken over: the failed write in between is made up
\* for, and so are changes of the Proxy and the Infrastructure, which are not
\* watched and take effect with the next request (secret_controller.go:1153).
RequestLeadsToSync ==
    (changes = MaxChanges /\ queue \cap Relevant # {})
        ~> ((Settled /\ InSync) \/ ~UsableInput(Snapshot))

--------------------------------------------------------------------------------
(* Statements of the documentation that the code does not keep. *)

\* secret_controller.go:202: "ClusterVersion object - triggers reconcile when
\* cluster type changes".
ClusterTypeChangeReconciled ==
    (Settled /\ answer # "none" /\ amSecret \notin {Absent, Foreign})
        => \A i \in DOMAIN amSecret.routes :
              amSecret.routes[i].match = "any"
                  => amSecret.routes[i].namespaces = parseConfigMaps(Snapshot)

\* README.md:21: "When the secret is created/updated/deleted, the associated
\* Receiver and Route will be created/updated/deleted".  Asked of a ready cluster
\* where no event, no request, no retry and no poll is left that could still do it.
SecretHasReceiver ==
    (Settled /\ polls = {} /\ ready /\ ReadField("pagerdutyKey") # Empty)
        => amSecret \notin {Absent, Foreign} /\ "pagerduty" \in ReceiverNames(amSecret)
================================================================================
