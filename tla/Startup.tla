------------------------------- MODULE Startup -------------------------------
(***************************************************************************)
(* How an operator process comes up (main.go), who may write while several *)
(* pods exist (leader-for-life election), and how its gauges are exposed   *)
(* (pkg/metrics/service.go).                                               *)
(*                                                                         *)
(* main() is one step per call that leaves the process; `stage' names the  *)
(* next one.  Every os.Exit(1), every panic and every crash is Exit.  The  *)
(* Deployment, the kubelet, the garbage collector and the leader library   *)
(* are external and appear as far as the operator depends on them: the     *)
(* lock is a ConfigMap owned by a pod and is collected after the pod       *)
(* object, which goes once its process has stopped; but a candidate that   *)
(* finds the leader's node NotReady deletes the lock itself, and there the *)
(* process may still be running.                                           *)
(***************************************************************************)
EXTENDS Integers, FiniteSets

CONSTANTS
    Environments,   \* what the Deployment may set: SKIP_LEADER_ELECTION, FEDRAMP
    Granted,        \* kinds of objects the ServiceAccount may list and watch
    MaxPods,        \* bound: pods created
    MaxExits,       \* bound: processes that exit or crash
    MaxCreateErrors, \* bound: failing creations of the Service and its monitor
    MaxNodeFailures \* bound: nodes that become NotReady

Pod == 1 .. MaxPods

None == 0

Environment == [SKIP_LEADER_ELECTION : BOOLEAN, FEDRAMP : {"", "true", "false", "yes"}]

ASSUME StartupAssumption ==
    /\ Environments \subseteq Environment
    /\ {MaxExits, MaxCreateErrors, MaxNodeFailures} \subseteq Nat
    /\ MaxPods \in Nat \ {0}

--------------------------------------------------------------------------------
(* The objects that expose the gauges, and the permissions. *)

OperatorName == "configure-alertmanager-operator"

\* MetricsEndpoint: where StartMetrics serves the gauges.
MetricsEndpoint == 8080

\* Mutant of GenerateService: the port of controller-runtime's own metrics.
ServiceForManager(port, portName) ==
    [labels |-> {OperatorName}, selector |-> {OperatorName},
     targetPort |-> 8383, portName |-> portName]

GenerateService(port, portName) ==
    [labels |-> {OperatorName}, selector |-> {OperatorName},
     targetPort |-> port, portName |-> portName]

GenerateServiceMonitor(service) ==
    [matchLabels |-> service.labels, port |-> service.portName]

\* The labels of the operator's pods.
podLabels == {OperatorName}

\* Kinds whose informers mgr.Start waits for, since they are watched, and kinds
\* whose informers are started by the first read, which then waits for them.
watchedKinds == {"secrets", "configmaps", "clusterversions"}
lazyKinds    == {"infrastructures", "clusteroperators", "proxies"}

\* What the package's ClusterRoles grant, and what the older manifests and the
\* instructions for local testing grant.
packageRole == {"secrets", "configmaps", "clusterversions", "clusteroperators",
                "proxies", "infrastructures"}
documentedRole == {"secrets", "configmaps", "clusterversions", "proxies", "infrastructures"}

--------------------------------------------------------------------------------
VARIABLES
    env,            \* the environment of every pod
    pod,            \* the pod objects
    stage,          \* the next step of each pod's main()
    isFedramp,      \* config.isFedramp in each process
    serving,        \* pods that serve the gauges
    lock,           \* owner of the lock ConfigMap, or None
    service, monitor, \* the Service and the ServiceMonitor, as sets of at most one
    unready,        \* pods whose node is NotReady
    superseded,     \* pods whose lock was deleted by a candidate
    exits, createErrors, nodeFailures

vars == <<env, pod, stage, isFedramp, serving, lock, service, monitor, unready, superseded,
          exits, createErrors, nodeFailures>>

Stage == {"down", "fedramp", "leader", "unlock", "setup", "service", "serviceMonitor", "metrics",
          "start", "running", "reconciling"}

\* The stages behind the election.
Elected == Stage \ {"down", "fedramp", "leader", "unlock"}

theService == GenerateService(8080, "metrics")
theMonitor == GenerateServiceMonitor(theService)

TypeOK ==
    /\ env \in Environments
    /\ pod \in [Pod -> {"absent", "present", "evicted", "terminating", "gone"}]
    /\ stage \in [Pod -> Stage]
    /\ isFedramp \in [Pod -> BOOLEAN]
    /\ serving \subseteq Pod
    /\ lock \in Pod \cup {None}
    /\ service \subseteq {theService}
    /\ monitor \subseteq {theMonitor}
    /\ unready \subseteq Pod /\ superseded \subseteq Pod
    /\ exits \in 0 .. MaxExits
    /\ createErrors \in 0 .. MaxCreateErrors
    /\ nodeFailures \in 0 .. MaxNodeFailures

Init ==
    /\ env \in Environments
    /\ pod = [p \in Pod |-> IF p = 1 THEN "present" ELSE "absent"]
    /\ stage = [p \in Pod |-> "down"]
    /\ isFedramp = [p \in Pod |-> FALSE]
    /\ serving = {}
    /\ lock = None
    /\ service = {} /\ monitor = {}
    /\ unready = {} /\ superseded = {}
    /\ exits = 0 /\ createErrors = 0 /\ nodeFailures = 0

--------------------------------------------------------------------------------
(* main(). *)

\* The step from one stage to the next.
Proceed(p, from, to) ==
    /\ stage[p] = from
    /\ stage' = [stage EXCEPT ![p] = to]

\* The process is gone, with all it holds in memory.
Stop(p) ==
    /\ stage' = [stage EXCEPT ![p] = "down"]
    /\ isFedramp' = [isFedramp EXCEPT ![p] = FALSE]
    /\ serving' = serving \ {p}

nodeVars    == <<unready, nodeFailures>>
podVars     == <<env, pod, exits, nodeVars>>
lockVars    == <<lock, superseded>>
metricsVars == <<service, monitor, createErrors>>
clusterVars == <<lockVars, metricsVars>>
localVars   == <<isFedramp, serving>>

\* The kubelet starts no container of a pod that is being deleted, unless it is
\* out of contact and has not heard of that.
MayStart(p) == pod[p] = "present" \/ (pod[p] = "terminating" /\ p \in unready)

\* Mutant of NewManager: the metrics are served from the start on.
NewManagerServes(p) ==
    /\ MayStart(p)
    /\ Proceed(p, "down", "fedramp")
    /\ serving' = serving \cup {p}
    /\ UNCHANGED <<podVars, clusterVars, isFedramp>>

\* The container starts, or starts again: NewManager.
NewManager(p) ==
    /\ MayStart(p)
    /\ Proceed(p, "down", "fedramp")
    /\ UNCHANGED <<podVars, clusterVars, localVars>>

\* strconv.ParseBool; an unset variable means "false".
fedrampValid == env.FEDRAMP # "yes"

SetIsFedramp(p) ==
    /\ fedrampValid
    /\ Proceed(p, "fedramp", "leader")
    /\ isFedramp' = [isFedramp EXCEPT ![p] = (env.FEDRAMP = "true")]
    /\ UNCHANGED <<podVars, clusterVars, serving>>

SetIsFedrampFails(p) ==
    /\ stage[p] = "fedramp" /\ ~fedrampValid
    /\ exits < MaxExits
    /\ exits' = exits + 1
    /\ Stop(p)
    /\ UNCHANGED <<env, pod, nodeVars, clusterVars>>

\* Mutant of Become: anybody's lock will do.
BecomeRegardless(p) ==
    /\ ~env.SKIP_LEADER_ELECTION
    /\ Proceed(p, "leader", "setup")
    /\ lock' = p
    /\ superseded' = superseded \ {p}
    /\ UNCHANGED <<podVars, localVars, metricsVars>>

\* leader.Become creates the lock, or finds its own from before a restart of
\* the container; while it finds another pod's it waits.
Become(p) ==
    /\ ~env.SKIP_LEADER_ELECTION
    /\ lock \in {None, p}
    /\ Proceed(p, "leader", "setup")
    /\ lock' = p
    /\ superseded' = superseded \ {p}
    /\ UNCHANGED <<podVars, localVars, metricsVars>>

\* A candidate deletes an evicted leader's pod; its lock follows it.
DeleteEvictedLeader(p) ==
    /\ ~env.SKIP_LEADER_ELECTION
    /\ stage[p] = "leader"
    /\ lock # None /\ pod[lock] = "evicted"
    /\ pod' = [pod EXCEPT ![lock] = "terminating"]
    /\ UNCHANGED <<env, exits, nodeVars, stage, clusterVars, localVars>>

\* From a leader whose node is NotReady it takes over: it deletes that pod ...
DeleteLeader(p) ==
    /\ ~env.SKIP_LEADER_ELECTION
    /\ lock \notin {None, p} /\ lock \in unready
    /\ pod[lock] \in {"present", "terminating"}
    /\ Proceed(p, "leader", "unlock")
    /\ pod' = [pod EXCEPT ![lock] = "terminating"]
    /\ UNCHANGED <<env, exits, nodeVars, clusterVars, localVars>>

\* ... and then the lock, by its name and whoever owns it by now, to try again.
DeleteLock(p) ==
    /\ lock # None
    /\ Proceed(p, "unlock", "leader")
    /\ superseded' = superseded \cup {lock}
    /\ lock' = None
    /\ UNCHANGED <<podVars, localVars, metricsVars>>

\* If another one has deleted it, Become returns the error and main() exits.
DeleteLockFails(p) ==
    /\ stage[p] = "unlock" /\ lock = None
    /\ Stop(p)
    /\ UNCHANGED <<podVars, clusterVars>>

SkipElection(p) ==
    /\ env.SKIP_LEADER_ELECTION
    /\ Proceed(p, "leader", "setup")
    /\ UNCHANGED <<podVars, clusterVars, localVars>>

\* SetupWithManager and the two health checks: nothing leaves the process.
Setup(p) ==
    /\ Proceed(p, "setup", "service")
    /\ UNCHANGED <<podVars, clusterVars, localVars>>

\* Mutant of CreateService: the manager's own port gets a Service as well.
CreateServicePerPort(p) ==
    /\ Proceed(p, "service", "serviceMonitor")
    /\ service' = service \cup {theService, GenerateService(8383, "manager")}
    /\ UNCHANGED <<podVars, localVars, lockVars, monitor, createErrors>>

\* Created, or there already.
CreateService(p) ==
    /\ Proceed(p, "service", "serviceMonitor")
    /\ service' = service \cup {theService}
    /\ UNCHANGED <<podVars, localVars, lockVars, monitor, createErrors>>

CreateServiceMonitor(p) ==
    /\ Proceed(p, "serviceMonitor", "metrics")
    /\ monitor' = monitor \cup {theMonitor}
    /\ UNCHANGED <<podVars, localVars, lockVars, service, createErrors>>

\* The error is logged; without a Service the ServiceMonitor is not tried.
CreateFails(p) ==
    /\ stage[p] \in {"service", "serviceMonitor"}
    /\ createErrors < MaxCreateErrors
    /\ createErrors' = createErrors + 1
    /\ stage' = [stage EXCEPT ![p] = "metrics"]
    /\ UNCHANGED <<podVars, localVars, lockVars, service, monitor>>

\* Nobody looks at the error of ListenAndServe.
StartMetrics(p) ==
    /\ Proceed(p, "metrics", "start")
    /\ serving' \in {serving, serving \cup {p}}
    /\ UNCHANGED <<podVars, clusterVars, isFedramp>>

\* mgr.Start: the informers of the watched kinds fill, the worker starts.
Start(p) ==
    /\ watchedKinds \subseteq Granted
    /\ Proceed(p, "start", "running")
    /\ UNCHANGED <<podVars, clusterVars, localVars>>

\* The first Reconcile waits for the informers that its own reads start; one
\* that may not list its kind never fills, and the read never returns.
FirstReconcile(p) ==
    /\ lazyKinds \subseteq Granted
    /\ Proceed(p, "running", "reconciling")
    /\ UNCHANGED <<podVars, clusterVars, localVars>>

Main(p) ==
    \/ NewManager(p) \/ SetIsFedramp(p) \/ SetIsFedrampFails(p)
    \/ Become(p) \/ DeleteEvictedLeader(p) \/ DeleteLeader(p) \/ DeleteLock(p)
    \/ DeleteLockFails(p) \/ SkipElection(p)
    \/ Setup(p) \/ CreateService(p) \/ CreateServiceMonitor(p) \/ CreateFails(p)
    \/ StartMetrics(p) \/ Start(p) \/ FirstReconcile(p)

\* Any of the errors main() does not survive, or a crash.
Exit(p) ==
    /\ stage[p] # "down"
    /\ exits < MaxExits
    /\ exits' = exits + 1
    /\ Stop(p)
    /\ UNCHANGED <<env, pod, nodeVars, clusterVars>>

--------------------------------------------------------------------------------
(* Deployment, kubelet and garbage collector. *)

Live == {p \in Pod : pod[p] = "present"}

Create(p) ==
    /\ pod[p] = "absent"
    /\ \A q \in 1 .. p - 1 : pod[q] # "absent"
    /\ pod' = [pod EXCEPT ![p] = "present"]
    /\ UNCHANGED <<env, exits, nodeVars, stage, clusterVars, localVars>>

\* The one replica is replaced, or a new revision is rolled out beside it.
Replace(p) == Live = {} /\ Create(p)
RollOut(p) == Cardinality(Live) = 1 /\ Create(p)

\* Mutant of Available: a pod with a readiness probe on the manager's port.
AvailableWhenRunning(p) == stage[p] \in {"running", "reconciling"}

\* The Deployment has no probes: a container that has started is available.
Available(p) == stage[p] # "down"

ScaleDown(p) ==
    /\ p \in Live
    /\ \E q \in Live : q > p /\ Available(q)
    /\ pod' = [pod EXCEPT ![p] = "terminating"]
    /\ UNCHANGED <<env, exits, nodeVars, stage, clusterVars, localVars>>

\* The kubelet ends the process and keeps the pod object as a failed one.
Evict(p) ==
    /\ p \in Live \ unready
    /\ \E q \in Pod : pod[q] = "absent"
    /\ pod' = [pod EXCEPT ![p] = "evicted"]
    /\ Stop(p)
    /\ UNCHANGED <<env, exits, nodeVars, clusterVars>>

Terminate(p) ==
    /\ pod[p] = "terminating" /\ p \notin unready /\ stage[p] # "down"
    /\ Stop(p)
    /\ UNCHANGED <<podVars, clusterVars>>

Remove(p) ==
    /\ pod[p] = "terminating" /\ p \notin unready /\ stage[p] = "down"
    /\ pod' = [pod EXCEPT ![p] = "gone"]
    /\ UNCHANGED <<env, exits, nodeVars, stage, clusterVars, localVars>>

\* The kubelet of p's node is not heard of any more; the process may go on.
NodeNotReady(p) ==
    /\ pod[p] \in {"present", "terminating"} /\ p \notin unready
    /\ \E q \in Pod : pod[q] = "absent"
    /\ nodeFailures < MaxNodeFailures
    /\ nodeFailures' = nodeFailures + 1
    /\ unready' = unready \cup {p}
    /\ UNCHANGED <<env, pod, exits, stage, clusterVars, localVars>>

NodeReady(p) ==
    /\ p \in unready
    /\ unready' = unready \ {p}
    /\ UNCHANGED <<env, pod, exits, nodeFailures, stage, clusterVars, localVars>>

\* After a while a pod on such a node is deleted, for another to be created.
TaintEviction(p) ==
    /\ p \in Live \cap unready
    /\ pod' = [pod EXCEPT ![p] = "terminating"]
    /\ UNCHANGED <<env, exits, nodeVars, stage, clusterVars, localVars>>

CollectLock ==
    /\ lock # None /\ pod[lock] = "gone"
    /\ lock' = None
    /\ UNCHANGED <<podVars, superseded, stage, localVars, metricsVars>>

Kubernetes(p) ==
    Replace(p) \/ ScaleDown(p) \/ TaintEviction(p) \/ Terminate(p) \/ Remove(p)

Fault(p) == RollOut(p) \/ Evict(p) \/ NodeNotReady(p) \/ NodeReady(p)

Next ==
    \/ \E p \in Pod : Main(p) \/ Exit(p) \/ Kubernetes(p) \/ Fault(p)
    \/ CollectLock

Spec == Init /\ [][Next]_vars

\* Processes on nodes that are Ready and Kubernetes make progress; nothing fails,
\* is evicted, rolled out or repaired by force.
FairSpec ==
    /\ Spec
    /\ \A p \in Pod : WF_vars(p \notin unready /\ Main(p)) /\ WF_vars(Kubernetes(p))
    /\ WF_vars(CollectLock)

--------------------------------------------------------------------------------
(* Properties. *)

Writers == {p \in Pod : stage[p] \in Elected}

\* With the election at most one process is past it, through restarts of the
\* container, roll-outs, evictions and the collection of the lock; except for
\* those whose lock a candidate has deleted under them, and that takes a node
\* that became NotReady (main.go:144).
SingleWriter ==
    ~env.SKIP_LEADER_ELECTION =>
        /\ \A p, q \in Writers \ superseded : p = q
        /\ nodeFailures = 0 => Writers \cap superseded = {}

\* The gauges that can be scraped are those of the process that writes: a pod
\* that waits for the lock, or has lost its process, serves none.  Only one that
\* was superseded behind its back still serves what it knew.
GaugesFromWriter ==
    ~env.SKIP_LEADER_ELECTION =>
        \A p \in serving : p \in Writers /\ (lock = p \/ p \in superseded)

\* Whoever creates the objects and however often that fails: a ServiceMonitor
\* finds the Service by its labels and its port by its name, and the Service
\* leads to the port where the pods serve the gauges.
ScrapeFindsGauges ==
    \A m \in monitor :
        \E s \in service :
            /\ m.matchLabels \subseteq s.labels
            /\ m.port = s.portName
            /\ s.selector \subseteq podLabels
            /\ s.targetPort = MetricsEndpoint

\* The newest pod gets to reconcile in the end, for good: it is not left waiting
\* for a lock whose owner has crashed, was evicted, is on a node that does not come
\* back, or will only be stopped once the newest pod is available (main.go:144
\* waits for as long as it takes).
EventuallyReconciling ==
    fedrampValid =>
        <>[](\E p \in Live : stage[p] = "reconciling" /\ \A q \in Live : q <= p)

--------------------------------------------------------------------------------
(* Statements of the documentation that the code does not keep. *)

\* main.go:132: "Ensures only one active operator instance modifies the cluster".
OneActiveInstance ==
    ~env.SKIP_LEADER_ELECTION =>
        \A p, q \in Pod : (stage[p] = "reconciling" /\ stage[q] = "reconciling") => p = q

\* LOCAL_TESTING.md:132, of an operator that may read what LOCAL_TESTING.md:32
\* calls "the resources the operator needs": "the operator attempts writes".
OperatorAttemptsWrites == <>(\E p \in Pod : stage[p] = "reconciling")
================================================================================
