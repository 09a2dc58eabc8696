---------------------------- MODULE StartupProofs ----------------------------
(***************************************************************************)
(* Proofs about start-up, for any number of pods, exits, failing creations *)
(* and failing nodes, any environment and any permissions.                 *)
(***************************************************************************)
EXTENDS Startup, TLAPS

\* The one Service and its monitor, as values the provers can compute with.
LEMMA Objects ==
    /\ theService = [labels |-> {OperatorName}, selector |-> {OperatorName},
                     targetPort |-> 8080, portName |-> "metrics"]
    /\ theMonitor = [matchLabels |-> {OperatorName}, port |-> "metrics"]
BY DEF theService, theMonitor, GenerateService, GenerateServiceMonitor

\* The stages, spelled out.
LEMMA ElectedStages ==
    /\ Elected = {"setup", "service", "serviceMonitor", "metrics", "start", "running",
                  "reconciling"}
    /\ Elected \subseteq Stage
BY DEF Elected, Stage

--------------------------------------------------------------------------------
(* What an action of Next is: the cases of every proof below. *)

Step(p) ==
    \/ NewManager(p) \/ SetIsFedramp(p) \/ SetIsFedrampFails(p)
    \/ Become(p) \/ DeleteEvictedLeader(p) \/ DeleteLeader(p) \/ DeleteLock(p)
    \/ DeleteLockFails(p) \/ SkipElection(p) \/ Setup(p)
    \/ CreateService(p) \/ CreateServiceMonitor(p) \/ CreateFails(p)
    \/ StartMetrics(p) \/ Start(p) \/ FirstReconcile(p) \/ Exit(p)
    \/ Create(p) \/ ScaleDown(p) \/ Evict(p) \/ Terminate(p) \/ Remove(p)
    \/ NodeNotReady(p) \/ NodeReady(p) \/ TaintEviction(p)

\* Every step is one of the actions.
LEMMA NextCases ==
    ASSUME Next PROVE CollectLock \/ \E p \in Pod : Step(p)
BY DEF Next, Main, Kubernetes, Fault, Replace, RollOut, Step

\* The state of all the pods and of the objects they share always has its type
\* (main.go:73-205).
THEOREM TypeCorrect == Spec => []TypeOK
<1>1. Init => TypeOK
  <2> SUFFICES ASSUME Init PROVE TypeOK OBVIOUS
  <2>1. exits \in 0 .. MaxExits /\ createErrors \in 0 .. MaxCreateErrors
        /\ nodeFailures \in 0 .. MaxNodeFailures
    BY StartupAssumption DEF Init
  <2> QED BY <2>1 DEF Init, TypeOK, Stage
<1>2. TypeOK /\ [Next]_vars => TypeOK'
  <2> SUFFICES ASSUME TypeOK, [Next]_vars PROVE TypeOK' OBVIOUS
  <2> USE DEF TypeOK, nodeVars, podVars, lockVars, metricsVars, clusterVars, localVars
  <2>1. ASSUME NEW p \in Pod, Step(p) PROVE TypeOK'
    <3>1. CASE NewManager(p) BY <3>1 DEF NewManager, MayStart, Proceed, Stage
    <3>2. CASE SetIsFedramp(p) BY <3>2 DEF SetIsFedramp, Proceed, Stage
    <3>3. CASE SetIsFedrampFails(p)
      BY <3>3, StartupAssumption DEF SetIsFedrampFails, Stop, Stage
    <3>4. CASE Become(p) BY <3>4 DEF Become, Proceed, Stage
    <3>5. CASE DeleteEvictedLeader(p) BY <3>5 DEF DeleteEvictedLeader
    <3>6. CASE SkipElection(p) BY <3>6 DEF SkipElection, Proceed, Stage
    <3>7. CASE Setup(p) BY <3>7 DEF Setup, Proceed, Stage
    <3>8. CASE CreateService(p) BY <3>8 DEF CreateService, Proceed, Stage
    <3>9. CASE CreateServiceMonitor(p) BY <3>9 DEF CreateServiceMonitor, Proceed, Stage
    <3>10. CASE CreateFails(p) BY <3>10, StartupAssumption DEF CreateFails, Stage
    <3>11. CASE StartMetrics(p) BY <3>11 DEF StartMetrics, Proceed, Stage
    <3>12. CASE Start(p) BY <3>12 DEF Start, Proceed, Stage
    <3>13. CASE FirstReconcile(p) BY <3>13 DEF FirstReconcile, Proceed, Stage
    <3>14. CASE Exit(p) BY <3>14, StartupAssumption DEF Exit, Stop, Stage
    <3>15. CASE Create(p) BY <3>15 DEF Create
    <3>16. CASE ScaleDown(p) BY <3>16 DEF ScaleDown
    <3>17. CASE Evict(p) BY <3>17 DEF Evict, Stop, Stage
    <3>18. CASE Terminate(p) BY <3>18 DEF Terminate, Stop, Stage
    <3>19. CASE Remove(p) BY <3>19 DEF Remove
    <3>20. CASE DeleteLeader(p) BY <3>20 DEF DeleteLeader, Proceed, Stage
    <3>21. CASE DeleteLock(p) BY <3>21 DEF DeleteLock, Proceed, Stage
    <3>22. CASE DeleteLockFails(p) BY <3>22 DEF DeleteLockFails, Stop, Stage
    <3>23. CASE NodeNotReady(p) BY <3>23, StartupAssumption DEF NodeNotReady
    <3>24. CASE NodeReady(p) BY <3>24 DEF NodeReady
    <3>25. CASE TaintEviction(p) BY <3>25 DEF TaintEviction
    <3> QED BY <2>1, <3>1, <3>2, <3>3, <3>4, <3>5, <3>6, <3>7, <3>8, <3>9, <3>10, <3>11,
               <3>12, <3>13, <3>14, <3>15, <3>16, <3>17, <3>18, <3>19, <3>20, <3>21,
               <3>22, <3>23, <3>24, <3>25 DEF Step
  <2>2. CASE CollectLock BY <2>2 DEF CollectLock
  <2>3. CASE UNCHANGED vars BY <2>3 DEF vars
  <2> QED BY <2>1, <2>2, <2>3, NextCases
<1> QED BY <1>1, <1>2, PTL DEF Spec

--------------------------------------------------------------------------------
(***************************************************************************)
(* The election.  That no two processes are past it but for those whose    *)
(* lock was deleted under them is not inductive.  What is, is that whoever *)
(* is past it owns the lock or lost it to a candidate, together with two   *)
(* facts: the lock is collected only after its owner's process has ended,  *)
(* and no candidate deletes one before a node has become NotReady.         *)
(***************************************************************************)

HolderElected ==
    ~env.SKIP_LEADER_ELECTION =>
        \A p \in Pod : stage[p] \in Elected => lock = p \/ p \in superseded

NoProcessWithoutPod ==
    \A p \in Pod : pod[p] \in {"absent", "evicted", "gone"} => stage[p] = "down"

ServingIsElected ==
    \A p \in serving : stage[p] \in {"start", "running", "reconciling"}

NoTakeoverBeforeFailure ==
    nodeFailures = 0 =>
        unready = {} /\ superseded = {} /\ \A p \in Pod : stage[p] # "unlock"

ElectionParts ==
    HolderElected /\ NoProcessWithoutPod /\ ServingIsElected /\ NoTakeoverBeforeFailure

ElectionInv == TypeOK /\ ElectionParts

\* The election's invariant is inductive.
LEMMA ElectionHolds == Spec => []ElectionInv
<1>1. Init => ElectionParts
  BY ElectedStages DEF Init, ElectionParts, HolderElected, NoProcessWithoutPod,
                       ServingIsElected, NoTakeoverBeforeFailure
<1>2. ElectionInv /\ [Next]_vars => ElectionParts'
  <2> SUFFICES ASSUME ElectionInv, [Next]_vars PROVE ElectionParts' OBVIOUS
  <2> USE DEF ElectionInv, TypeOK, nodeVars, podVars, lockVars, metricsVars, clusterVars,
              localVars
  <2> USE DEF ElectionParts, HolderElected, NoProcessWithoutPod, ServingIsElected,
              NoTakeoverBeforeFailure
  <2>1. ASSUME NEW p \in Pod, Step(p) PROVE ElectionParts'
    <3> USE ElectedStages
    <3>1. CASE NewManager(p) BY <3>1 DEF NewManager, MayStart, Proceed
    <3>2. CASE SetIsFedramp(p) BY <3>2 DEF SetIsFedramp, Proceed
    <3>3. CASE SetIsFedrampFails(p) BY <3>3 DEF SetIsFedrampFails, Stop
    <3>4. CASE Become(p)
      <4>1. \A q \in Pod \ {p} : stage[q] \in Elected => q \in superseded
        BY <3>4 DEF Become, Proceed, None, Pod
      <4> QED BY <3>4, <4>1 DEF Become, Proceed
    <3>5. CASE DeleteEvictedLeader(p) BY <3>5 DEF DeleteEvictedLeader
    <3>6. CASE SkipElection(p) BY <3>6 DEF SkipElection, Proceed
    <3>7. CASE Setup(p) BY <3>7 DEF Setup, Proceed
    <3>8. CASE CreateService(p) BY <3>8 DEF CreateService, Proceed
    <3>9. CASE CreateServiceMonitor(p) BY <3>9 DEF CreateServiceMonitor, Proceed
    <3>10. CASE CreateFails(p) BY <3>10 DEF CreateFails
    <3>11. CASE StartMetrics(p) BY <3>11 DEF StartMetrics, Proceed
    <3>12. CASE Start(p) BY <3>12 DEF Start, Proceed
    <3>13. CASE FirstReconcile(p) BY <3>13 DEF FirstReconcile, Proceed
    <3>14. CASE Exit(p) BY <3>14 DEF Exit, Stop
    <3>15. CASE Create(p) BY <3>15 DEF Create
    <3>16. CASE ScaleDown(p) BY <3>16 DEF ScaleDown
    <3>17. CASE Evict(p) BY <3>17 DEF Evict, Stop
    <3>18. CASE Terminate(p) BY <3>18 DEF Terminate, Stop
    <3>19. CASE Remove(p) BY <3>19 DEF Remove
    <3>20. CASE DeleteLeader(p) BY <3>20 DEF DeleteLeader, Proceed
    <3>21. CASE DeleteLock(p) BY <3>21 DEF DeleteLock, Proceed
    <3>22. CASE DeleteLockFails(p) BY <3>22 DEF DeleteLockFails, Stop
    <3>23. CASE NodeNotReady(p) BY <3>23 DEF NodeNotReady
    <3>24. CASE NodeReady(p) BY <3>24 DEF NodeReady
    <3>25. CASE TaintEviction(p) BY <3>25 DEF TaintEviction
    <3> QED BY <2>1, <3>1, <3>2, <3>3, <3>4, <3>5, <3>6, <3>7, <3>8, <3>9, <3>10, <3>11,
               <3>12, <3>13, <3>14, <3>15, <3>16, <3>17, <3>18, <3>19, <3>20, <3>21,
               <3>22, <3>23, <3>24, <3>25 DEF Step
  <2>2. CASE CollectLock
    <3>1. stage[lock] = "down" BY <2>2 DEF CollectLock
    <3>2. ~env.SKIP_LEADER_ELECTION =>
             \A p \in Pod : stage[p] \in Elected => p \in superseded
      BY <3>1, ElectedStages
    <3> QED BY <2>2, <3>2 DEF CollectLock
  <2>3. CASE UNCHANGED vars BY <2>3 DEF vars
  <2> QED BY <2>1, <2>2, <2>3, NextCases
<1> QED BY <1>1, <1>2, TypeCorrect, PTL DEF Spec, ElectionInv

\* Through any restarts, roll-outs and evictions no two processes are past the
\* election, unless a candidate deleted the lock of one of them; and before a node
\* has become NotReady none does (main.go:132-151).
THEOREM OneWriter == Spec => []SingleWriter
<1>1. ElectionInv => SingleWriter
  BY DEF ElectionInv, ElectionParts, HolderElected, NoTakeoverBeforeFailure, SingleWriter,
         Writers
<1> QED BY <1>1, ElectionHolds, PTL

\* Only a process past the election serves gauges, and it owns the lock unless a
\* candidate deleted it (main.go:195).
THEOREM OneSourceOfGauges == Spec => []GaugesFromWriter
<1>1. ElectionInv => GaugesFromWriter
  BY ElectedStages DEF ElectionInv, ElectionParts, TypeOK, HolderElected, ServingIsElected,
                       GaugesFromWriter, Writers
<1> QED BY <1>1, ElectionHolds, PTL

--------------------------------------------------------------------------------
(***************************************************************************)
(* The objects behind the scraping.  A ServiceMonitor is created only past *)
(* a Service, and neither is ever taken away.                              *)
(***************************************************************************)

ServiceBeforeMonitor ==
    /\ \A p \in Pod : stage[p] = "serviceMonitor" => theService \in service
    /\ monitor # {} => theService \in service

\* A ServiceMonitor is only created behind its Service.
LEMMA ServiceFirst == Spec => [](TypeOK /\ ServiceBeforeMonitor)
<1>1. Init => ServiceBeforeMonitor BY DEF Init, ServiceBeforeMonitor
<1>2. TypeOK /\ ServiceBeforeMonitor /\ [Next]_vars => ServiceBeforeMonitor'
  <2> SUFFICES ASSUME TypeOK, ServiceBeforeMonitor, [Next]_vars
               PROVE  ServiceBeforeMonitor'
    OBVIOUS
  <2> USE DEF TypeOK, ServiceBeforeMonitor, nodeVars, podVars, lockVars, metricsVars,
              clusterVars, localVars
  <2>1. ASSUME NEW p \in Pod, Step(p) PROVE ServiceBeforeMonitor'
    <3>1. CASE NewManager(p) BY <3>1 DEF NewManager, MayStart, Proceed
    <3>2. CASE SetIsFedramp(p) BY <3>2 DEF SetIsFedramp, Proceed
    <3>3. CASE SetIsFedrampFails(p) BY <3>3 DEF SetIsFedrampFails, Stop
    <3>4. CASE Become(p) BY <3>4 DEF Become, Proceed
    <3>5. CASE DeleteEvictedLeader(p) BY <3>5 DEF DeleteEvictedLeader
    <3>6. CASE SkipElection(p) BY <3>6 DEF SkipElection, Proceed
    <3>7. CASE Setup(p) BY <3>7 DEF Setup, Proceed
    <3>8. CASE CreateService(p) BY <3>8 DEF CreateService, Proceed
    <3>9. CASE CreateServiceMonitor(p) BY <3>9 DEF CreateServiceMonitor, Proceed
    <3>10. CASE CreateFails(p) BY <3>10 DEF CreateFails
    <3>11. CASE StartMetrics(p) BY <3>11 DEF StartMetrics, Proceed
    <3>12. CASE Start(p) BY <3>12 DEF Start, Proceed
    <3>13. CASE FirstReconcile(p) BY <3>13 DEF FirstReconcile, Proceed
    <3>14. CASE Exit(p) BY <3>14 DEF Exit, Stop
    <3>15. CASE Create(p) BY <3>15 DEF Create
    <3>16. CASE ScaleDown(p) BY <3>16 DEF ScaleDown
    <3>17. CASE Evict(p) BY <3>17 DEF Evict, Stop
    <3>18. CASE Terminate(p) BY <3>18 DEF Terminate, Stop
    <3>19. CASE Remove(p) BY <3>19 DEF Remove
    <3>20. CASE DeleteLeader(p) BY <3>20 DEF DeleteLeader, Proceed
    <3>21. CASE DeleteLock(p) BY <3>21 DEF DeleteLock, Proceed
    <3>22. CASE DeleteLockFails(p) BY <3>22 DEF DeleteLockFails, Stop
    <3>23. CASE NodeNotReady(p) BY <3>23 DEF NodeNotReady
    <3>24. CASE NodeReady(p) BY <3>24 DEF NodeReady
    <3>25. CASE TaintEviction(p) BY <3>25 DEF TaintEviction
    <3> QED BY <2>1, <3>1, <3>2, <3>3, <3>4, <3>5, <3>6, <3>7, <3>8, <3>9, <3>10, <3>11,
               <3>12, <3>13, <3>14, <3>15, <3>16, <3>17, <3>18, <3>19, <3>20, <3>21,
               <3>22, <3>23, <3>24, <3>25 DEF Step
  <2>2. CASE CollectLock BY <2>2 DEF CollectLock
  <2>3. CASE UNCHANGED vars BY <2>3 DEF vars
  <2> QED BY <2>1, <2>2, <2>3, NextCases
<1> QED BY <1>1, <1>2, TypeCorrect, PTL DEF Spec

\* A ServiceMonitor never selects nothing, and what it selects leads to the port
\* of the gauges (main.go:171-192, service.go:26-87).
THEOREM ScrapingWorks == Spec => []ScrapeFindsGauges
<1>1. TypeOK /\ ServiceBeforeMonitor => ScrapeFindsGauges
  <2> SUFFICES ASSUME TypeOK, ServiceBeforeMonitor, NEW m \in monitor
               PROVE  \E s \in service :
                         /\ m.matchLabels \subseteq s.labels
                         /\ m.port = s.portName
                         /\ s.selector \subseteq podLabels
                         /\ s.targetPort = MetricsEndpoint
    BY DEF ScrapeFindsGauges
  <2>1. m = theMonitor BY DEF TypeOK
  <2>2. theService \in service BY DEF ServiceBeforeMonitor
  <2> WITNESS theService \in service
  <2> QED BY <2>1, Objects DEF podLabels, MetricsEndpoint
<1> QED BY <1>1, ServiceFirst, PTL
================================================================================
