------------------------------- MODULE Readiness -------------------------------
(***************************************************************************)
(* The readiness engine, pkg/readiness/cluster_ready.go.                   *)
(*                                                                         *)
(* IsReady() is a sequence of calls that leave the process (a list of the  *)
(* ClusterOperators, a Prometheus query, a look at the clock), so it is    *)
(* modelled as one step per call; the cluster, the clock and the process   *)
(* itself move in between.  Times are in minutes; 0 is Go's zero time.     *)
(***************************************************************************)
EXTENDS Integers, FiniteSets

CONSTANTS
    Operator,       \* names of ClusterOperators
    Conditions,     \* the condition records an operator may report
    PromSeries,     \* the non-empty vectors Prometheus may answer, as sets of times
    AgeSettings,    \* the values MAX_CLUSTER_AGE_MINUTES may have
    Birth,          \* when the cluster was created
    TickMinutes,    \* how far one Tick moves the clock
    MaxNow,         \* bound: the clock stops here
    MaxRestarts     \* bound: restarts of the operator

\* A condition is reported True, False or Unknown, or not at all.
Status == {"True", "False", "Unknown", "missing"}

ConditionRecord == [Progressing : Status, Degraded : Status, Available : Status]

\* The minutes a time.Duration (64 bits of nanoseconds) can hold.
MaxDuration == 153722867

\* The environment variable is unset, garbage, or a number.
Setting == [kind : {"unset", "garbage", "number"}, minutes : Int]

ASSUME ReadinessAssumption ==
    /\ Conditions \subseteq ConditionRecord
    /\ Birth \in Nat \ {0}
    /\ \A s \in PromSeries : s \subseteq Nat \ {0} /\ s # {} /\ IsFiniteSet(s)
    /\ AgeSettings \subseteq Setting
    /\ \A s \in AgeSettings : s.minutes \in -MaxDuration .. MaxDuration
    /\ TickMinutes \in Nat \ {0}
    /\ MaxNow \in Nat
    /\ MaxRestarts \in Nat

VARIABLES
    ready, result, answer,  \* as in ReadinessInterface
    clusterCreationTime,    \* impl.clusterCreationTime, 0 while unknown
    pc,                     \* where IsReady() is
    setting,                \* MAX_CLUSTER_AGE_MINUTES in this process
    operators,              \* the ClusterOperators that exist, with their conditions
    now,                    \* the clock
    checkedAt,              \* history: the clock when the current check began
    restarts

vars == <<ready, result, answer, clusterCreationTime, pc, setting,
          operators, now, checkedAt, restarts>>

engine == <<ready, result, answer, clusterCreationTime, pc, checkedAt>>
env == <<setting, operators, now, restarts>>

Abstract == INSTANCE ReadinessInterface WITH RequeueDelay <- {"1s", "30s"}

maxClusterAgeDefault == 90

TypeOK ==
    /\ ready \in BOOLEAN
    /\ result \in Abstract!Result
    /\ answer \in Abstract!Answer
    /\ clusterCreationTime \in Nat
    /\ pc \in {"idle", "operators", "creationTime", "age"}
    /\ setting \in AgeSettings
    /\ \E S \in SUBSET Operator : operators \in [S -> Conditions]
    /\ now \in Nat
    /\ checkedAt \in Nat
    /\ restarts \in 0 .. MaxRestarts

Init ==
    /\ Abstract!Init
    /\ clusterCreationTime = 0
    /\ pc = "idle"
    /\ setting \in AgeSettings
    /\ operators = [o \in {} |-> "missing"]
    /\ now = Birth
    /\ checkedAt = 0
    /\ restarts = 0

--------------------------------------------------------------------------------
(* IsReady(), step by step. *)

\* A condition that keeps the cluster from being ready.
Blocks(c) ==
    \/ c.Progressing = "True"
    \/ c.Degraded = "True"
    \/ c.Available = "False"

allReady == \A co \in DOMAIN operators : ~Blocks(operators[co])

\* getEnvInt: the default when unset, an error for anything that is no number.
getEnvInt(s) ==
    [err   |-> s.kind = "garbage",
     value |-> IF s.kind = "number" THEN s.minutes
               ELSE IF s.kind = "unset" THEN maxClusterAgeDefault ELSE 0]

\* Mutant of clusterTooOld: the comparison is turned round.
clusterTooYoung(maxAgeMinutes) == clusterCreationTime > now - maxAgeMinutes

clusterTooOld(maxAgeMinutes) == clusterCreationTime < now - maxAgeMinutes

\* The positive answer is cached: nothing is asked again.
UseCached ==
    /\ pc = "idle"
    /\ ready
    /\ answer' = "ready"
    /\ UNCHANGED <<ready, result, clusterCreationTime, pc, checkedAt, env>>

\* Mutant of StartCheck: impl.result is not reset.
StartCheckKeepsResult ==
    /\ pc = "idle"
    /\ ~ready
    /\ answer' = "none"
    /\ pc' = "operators"
    /\ checkedAt' = now
    /\ UNCHANGED <<ready, result, clusterCreationTime, env>>

\* A check begins: the requeue request of the previous one is dropped.
StartCheck ==
    /\ pc = "idle"
    /\ ~ready
    /\ result' = Abstract!NoRequeue
    /\ answer' = "none"
    /\ pc' = "operators"
    /\ checkedAt' = now
    /\ UNCHANGED <<ready, clusterCreationTime, env>>

\* return impl.ready, nil with impl.ready just set.
ReturnReady ==
    /\ ready' = TRUE
    /\ answer' = "ready"
    /\ pc' = "idle"
    /\ UNCHANGED <<result, clusterCreationTime, checkedAt, env>>

\* return false, nil with impl.result set to the delay.
ReturnNotReady(delay) ==
    /\ result' = delay
    /\ answer' = "notReady"
    /\ pc' = "idle"
    /\ UNCHANGED <<ready, clusterCreationTime, checkedAt, env>>

\* The list succeeded, is not empty and nobody objects: ready.
OperatorsSettled ==
    /\ pc = "operators"
    /\ DOMAIN operators # {}
    /\ allReady
    /\ ReturnReady

\* The list is empty, or an operator objects.
OperatorsUnsettled ==
    /\ pc = "operators"
    /\ DOMAIN operators = {} \/ ~allReady
    /\ pc' = "creationTime"
    /\ UNCHANGED <<ready, result, answer, clusterCreationTime, checkedAt, env>>

\* The list failed: the error is logged and the age check decides.
ListFails ==
    /\ pc = "operators"
    /\ pc' = "creationTime"
    /\ UNCHANGED <<ready, result, answer, clusterCreationTime, checkedAt, env>>

\* setClusterCreationTime: the time is already known.
CreationTimeKnown ==
    /\ pc = "creationTime"
    /\ clusterCreationTime # 0
    /\ pc' = "age"
    /\ UNCHANGED <<ready, result, answer, clusterCreationTime, checkedAt, env>>

\* setClusterCreationTime: Prometheus answers, the earliest sample is kept.
QueryPrometheus ==
    /\ pc = "creationTime"
    /\ clusterCreationTime = 0
    /\ \E series \in PromSeries : \E earliest \in series :
           /\ \A t \in series : earliest <= t
           /\ clusterCreationTime' = earliest
    /\ pc' = "age"
    /\ UNCHANGED <<ready, result, answer, checkedAt, env>>

\* Mutant of CreationTimeFails: no requeue is asked for.
CreationTimeFailsSilently ==
    /\ pc = "creationTime"
    /\ clusterCreationTime = 0
    /\ answer' = "notReady"
    /\ pc' = "idle"
    /\ UNCHANGED <<ready, result, clusterCreationTime, checkedAt, env>>

\* setClusterCreationTime: no token, no client, a failed query or no sample.
CreationTimeFails ==
    /\ pc = "creationTime"
    /\ clusterCreationTime = 0
    /\ ReturnNotReady("1s")

BadSetting ==
    /\ pc = "age"
    /\ getEnvInt(setting).err
    /\ answer' = "error"
    /\ pc' = "idle"
    /\ UNCHANGED <<ready, result, clusterCreationTime, checkedAt, env>>

\* The fallback: the cluster is older than the maximum age.
TooOld ==
    /\ pc = "age"
    /\ ~getEnvInt(setting).err
    /\ clusterTooOld(getEnvInt(setting).value)
    /\ ReturnReady

\* Mutant of StillYoung: the delay is left at zero.
StillYoungNoDelay ==
    /\ pc = "age"
    /\ ~getEnvInt(setting).err
    /\ ~clusterTooOld(getEnvInt(setting).value)
    /\ ReturnNotReady("0s")

StillYoung ==
    /\ pc = "age"
    /\ ~getEnvInt(setting).err
    /\ ~clusterTooOld(getEnvInt(setting).value)
    /\ ReturnNotReady("30s")

--------------------------------------------------------------------------------
(* The cluster, the clock and the process. *)

\* An operator appears or reports other conditions.
ReportConditions(co, c) ==
    /\ operators' = [o \in DOMAIN operators \cup {co} |->
                        IF o = co THEN c ELSE operators[o]]
    /\ UNCHANGED <<engine, setting, now, restarts>>

Tick ==
    /\ now + TickMinutes <= MaxNow
    /\ now' = now + TickMinutes
    /\ UNCHANGED <<engine, setting, operators, restarts>>

\* The operator's process ends, wherever it was, and starts anew.
Restart ==
    /\ restarts < MaxRestarts
    /\ ready' = FALSE
    /\ result' = Abstract!NoRequeue
    /\ answer' = "none"
    /\ clusterCreationTime' = 0
    /\ pc' = "idle"
    /\ checkedAt' = 0
    /\ restarts' = restarts + 1
    /\ UNCHANGED <<setting, operators, now>>

IsReady ==
    \/ UseCached \/ StartCheck
    \/ OperatorsSettled \/ OperatorsUnsettled \/ ListFails
    \/ CreationTimeKnown \/ QueryPrometheus \/ CreationTimeFails
    \/ BadSetting \/ TooOld \/ StillYoung

Next ==
    \/ IsReady
    \/ \E co \in Operator, c \in Conditions : ReportConditions(co, c)
    \/ Tick
    \/ Restart

Spec == Init /\ [][Next]_vars

(***************************************************************************)
(* The worker that runs IsReady() does not stop in the middle, a negative  *)
(* answer is polled again (the secret controller requeues on result and on *)
(* error), the clock advances, and Prometheus does not refuse for ever.    *)
(***************************************************************************)
FairSpec ==
    /\ Spec
    /\ WF_vars(IsReady)
    /\ WF_vars(Tick)
    /\ SF_vars(QueryPrometheus)

--------------------------------------------------------------------------------
(* Properties. *)

\* A cluster that is ready is never polled again on the engine's account: the
\* 1s or 30s request left by an earlier negative check does not outlive the
\* positive verdict (lines 65-68 return before line 70 clears the result).
ReadyStopsPolling == ready => result = Abstract!NoRequeue

\* Once the creation time is known, a check that begins after the maximum age
\* has passed cannot answer "not ready", whatever the ClusterOperators and the
\* clock do while it runs.
KnownOldClusterIsReady ==
    (answer = "notReady" /\ clusterCreationTime # 0 /\ ~getEnvInt(setting).err)
        => checkedAt - getEnvInt(setting).value <= clusterCreationTime

\* The engine does what its caller relies on: the verdict is sticky until the
\* process ends, and every negative answer carries a requeue request.
ImplementsInterface == Abstract!Spec

\* With a usable MAX_CLUSTER_AGE_MINUTES the cluster is declared ready at some
\* point and stays so, however long its operators keep progressing.
EventuallyReady == ~getEnvInt(setting).err ~> []ready

--------------------------------------------------------------------------------
(* Statements of the documentation that the code does not keep. *)

\* README.md:91: PagerDuty is configured once "all ClusterOperators have
\* stopped progressing (Progressing=false)".
ReadyMeansNotProgressing ==
    [][(pc = "operators" /\ ~ready /\ ready')
        => \A co \in DOMAIN operators : operators[co].Progressing = "False"]_vars

\* README.md:93: "if the cluster is older than MAX_CLUSTER_AGE_MINUTES ..., the
\* operator declares the cluster ready regardless of ClusterOperator state".
OldClusterDeclaredReady ==
    (answer = "notReady" /\ ~getEnvInt(setting).err)
        => checkedAt - getEnvInt(setting).value <= Birth
================================================================================
