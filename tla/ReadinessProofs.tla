---------------------------- MODULE ReadinessProofs ----------------------------
(***************************************************************************)
(* Proofs about the readiness engine, for every set of ClusterOperators,   *)
(* every value of MAX_CLUSTER_AGE_MINUTES and every clock.                 *)
(***************************************************************************)
EXTENDS Readiness, TLAPS

USE DEF Abstract!Result, Abstract!Answer, Abstract!NoRequeue

\* getEnvInt yields a flag and a number for every value of the variable.
LEMMA GetEnvIntType ==
    ASSUME NEW s \in AgeSettings
    PROVE  getEnvInt(s).err \in BOOLEAN /\ getEnvInt(s).value \in Int
<1>1. s \in Setting BY ReadinessAssumption
<1>2. s.kind \in {"unset", "garbage", "number"} /\ s.minutes \in Int
  BY <1>1 DEF Setting
<1> QED BY <1>2 DEF getEnvInt, maxClusterAgeDefault

\* The state of the engine always has its type (cluster_ready.go:28-41).
THEOREM TypeCorrect == Spec => []TypeOK
<1>1. Init => TypeOK
  <2> SUFFICES ASSUME Init PROVE TypeOK OBVIOUS
  <2>1. operators \in [{} -> Conditions] BY DEF Init
  <2>2. now \in Nat BY ReadinessAssumption DEF Init
  <2>3. restarts \in 0 .. MaxRestarts BY ReadinessAssumption DEF Init
  <2> QED BY <2>1, <2>2, <2>3 DEF Init, TypeOK, Abstract!Init
<1>2. TypeOK /\ [Next]_vars => TypeOK'
  <2> SUFFICES ASSUME TypeOK, [Next]_vars PROVE TypeOK' OBVIOUS
  <2> USE DEF TypeOK
  <2>1. CASE UseCached BY <2>1 DEF UseCached, env
  <2>2. CASE StartCheck BY <2>2 DEF StartCheck, env
  <2>3. CASE OperatorsSettled BY <2>3 DEF OperatorsSettled, ReturnReady, env
  <2>4. CASE OperatorsUnsettled BY <2>4 DEF OperatorsUnsettled, env
  <2>5. CASE ListFails BY <2>5 DEF ListFails, env
  <2>6. CASE CreationTimeKnown BY <2>6 DEF CreationTimeKnown, env
  <2>7. CASE QueryPrometheus BY <2>7, ReadinessAssumption DEF QueryPrometheus, env
  <2>8. CASE CreationTimeFails BY <2>8 DEF CreationTimeFails, ReturnNotReady, env
  <2>9. CASE BadSetting BY <2>9 DEF BadSetting, env
  <2>10. CASE TooOld BY <2>10 DEF TooOld, ReturnReady, env
  <2>11. CASE StillYoung BY <2>11 DEF StillYoung, ReturnNotReady, env
  <2>12. ASSUME NEW co \in Operator, NEW c \in Conditions, ReportConditions(co, c)
         PROVE  TypeOK'
    <3>1. PICK S \in SUBSET Operator : operators \in [S -> Conditions] OBVIOUS
    <3>2. operators' \in [S \cup {co} -> Conditions] BY <2>12, <3>1 DEF ReportConditions
    <3> QED BY <2>12, <3>2 DEF ReportConditions, engine
  <2>13. CASE Tick BY <2>13, ReadinessAssumption DEF Tick, engine
  <2>14. CASE Restart
    <3>1. restarts' \in 0 .. MaxRestarts BY <2>14, ReadinessAssumption DEF Restart
    <3>2. \E S \in SUBSET Operator : operators' \in [S -> Conditions]
      BY <2>14 DEF Restart
    <3> QED BY <2>14, <3>1, <3>2 DEF Restart
  <2>15. CASE UNCHANGED vars BY <2>15 DEF vars
  <2> QED BY <2>1, <2>2, <2>3, <2>4, <2>5, <2>6, <2>7, <2>8, <2>9, <2>10, <2>11,
             <2>12, <2>13, <2>14, <2>15 DEF Next, IsReady
<1> QED BY <1>1, <1>2, PTL DEF Spec

(***************************************************************************)
(* While a check runs the request to requeue is withdrawn and the cluster  *)
(* not yet ready: this is what makes the two early returns that leave      *)
(* impl.result alone (lines 98-100 and 115-117) correct.                   *)
(***************************************************************************)
CheckInv ==
    /\ pc # "idle" => ~ready /\ result = Abstract!NoRequeue /\ answer = "none"
    /\ ready => result = Abstract!NoRequeue

LEMMA CheckInvariant == Spec => []CheckInv
<1>1. Init => CheckInv BY DEF Init, CheckInv, Abstract!Init
<1>2. CheckInv /\ [Next]_vars => CheckInv'
  <2> SUFFICES ASSUME CheckInv, [Next]_vars PROVE CheckInv' OBVIOUS
  <2> USE DEF CheckInv
  <2>1. CASE UseCached BY <2>1 DEF UseCached
  <2>2. CASE StartCheck BY <2>2 DEF StartCheck
  <2>3. CASE OperatorsSettled BY <2>3 DEF OperatorsSettled, ReturnReady
  <2>4. CASE OperatorsUnsettled BY <2>4 DEF OperatorsUnsettled
  <2>5. CASE ListFails BY <2>5 DEF ListFails
  <2>6. CASE CreationTimeKnown BY <2>6 DEF CreationTimeKnown
  <2>7. CASE QueryPrometheus BY <2>7 DEF QueryPrometheus
  <2>8. CASE CreationTimeFails BY <2>8 DEF CreationTimeFails, ReturnNotReady
  <2>9. CASE BadSetting BY <2>9 DEF BadSetting
  <2>10. CASE TooOld BY <2>10 DEF TooOld, ReturnReady
  <2>11. CASE StillYoung BY <2>11 DEF StillYoung, ReturnNotReady
  <2>12. ASSUME NEW co \in Operator, NEW c \in Conditions, ReportConditions(co, c)
         PROVE  CheckInv'
    BY <2>12 DEF ReportConditions, engine
  <2>13. CASE Tick BY <2>13 DEF Tick, engine
  <2>14. CASE Restart BY <2>14 DEF Restart
  <2>15. CASE UNCHANGED vars BY <2>15 DEF vars
  <2> QED BY <2>1, <2>2, <2>3, <2>4, <2>5, <2>6, <2>7, <2>8, <2>9, <2>10, <2>11,
             <2>12, <2>13, <2>14, <2>15 DEF Next, IsReady
<1> QED BY <1>1, <1>2, PTL DEF Spec

\* A ready cluster is never polled on the engine's account: the request of an
\* earlier negative check does not survive (cluster_ready.go:65-70).
THEOREM ReadyNeverPolls == Spec => []ReadyStopsPolling
<1>1. CheckInv => ReadyStopsPolling BY DEF CheckInv, ReadyStopsPolling
<1> QED BY <1>1, CheckInvariant, PTL

\* The check under way began in the past, and what an earlier one answered
\* "not ready" with a known creation time was young when it began.
AgeInv ==
    /\ checkedAt <= now
    /\ KnownOldClusterIsReady

\* A check that begins after the maximum age has passed cannot answer "not
\* ready" once the creation time is known (cluster_ready.go:110-123).
THEOREM OldClusterIsReady == Spec => []KnownOldClusterIsReady
<1>1. Init => AgeInv
  BY ReadinessAssumption DEF Init, AgeInv, KnownOldClusterIsReady, Abstract!Init
<1>2. TypeOK /\ CheckInv /\ AgeInv /\ [Next]_vars => AgeInv'
  <2> SUFFICES ASSUME TypeOK, CheckInv, AgeInv, [Next]_vars PROVE AgeInv' OBVIOUS
  <2>a. /\ now \in Nat /\ checkedAt \in Nat /\ clusterCreationTime \in Nat
        /\ getEnvInt(setting).value \in Int
    BY GetEnvIntType DEF TypeOK
  <2> USE DEF AgeInv, KnownOldClusterIsReady
  <2>1. CASE UseCached BY <2>1 DEF UseCached, env
  <2>2. CASE StartCheck BY <2>2, <2>a DEF StartCheck, env
  <2>3. CASE OperatorsSettled BY <2>3 DEF OperatorsSettled, ReturnReady, env
  <2>4. CASE OperatorsUnsettled BY <2>4 DEF OperatorsUnsettled, env
  <2>5. CASE ListFails BY <2>5 DEF ListFails, env
  <2>6. CASE CreationTimeKnown BY <2>6 DEF CreationTimeKnown, env
  <2>7. CASE QueryPrometheus BY <2>7 DEF QueryPrometheus, env, CheckInv
  <2>8. CASE CreationTimeFails BY <2>8 DEF CreationTimeFails, ReturnNotReady, env
  <2>9. CASE BadSetting BY <2>9 DEF BadSetting, env
  <2>10. CASE TooOld BY <2>10 DEF TooOld, ReturnReady, env
  <2>11. CASE StillYoung
    <3>1. setting' = setting /\ now' = now /\ checkedAt' = checkedAt
          /\ clusterCreationTime' = clusterCreationTime
      BY <2>11 DEF StillYoung, ReturnNotReady, env
    <3>2. ~(clusterCreationTime < now - getEnvInt(setting).value)
      BY <2>11 DEF StillYoung, clusterTooOld
    <3>3. checkedAt - getEnvInt(setting).value <= clusterCreationTime
      BY <3>2, <2>a
    <3> QED BY <3>1, <3>3
  <2>12. ASSUME NEW co \in Operator, NEW c \in Conditions, ReportConditions(co, c)
         PROVE  AgeInv'
    BY <2>12 DEF ReportConditions, engine
  <2>13. CASE Tick BY <2>13, <2>a, ReadinessAssumption DEF Tick, engine
  <2>14. CASE Restart BY <2>14, <2>a DEF Restart
  <2>15. CASE UNCHANGED vars BY <2>15 DEF vars
  <2> QED BY <2>1, <2>2, <2>3, <2>4, <2>5, <2>6, <2>7, <2>8, <2>9, <2>10, <2>11,
             <2>12, <2>13, <2>14, <2>15 DEF Next, IsReady
<1>3. AgeInv => KnownOldClusterIsReady BY DEF AgeInv
<1> QED BY <1>1, <1>2, <1>3, TypeCorrect, CheckInvariant, PTL DEF Spec

\* The engine keeps the promise its caller relies on: a sticky verdict, and a
\* request to requeue with every negative answer (readiness.Interface).
THEOREM Refinement == Spec => ImplementsInterface
<1>1. Init => Abstract!Init BY DEF Init
<1>2. CheckInv /\ [Next]_vars => [Abstract!Next]_(Abstract!ivars)
  <2> SUFFICES ASSUME CheckInv, [Next]_vars
               PROVE  Abstract!Next \/ UNCHANGED <<ready, result, answer>>
    BY DEF Abstract!ivars
  <2> USE DEF CheckInv, Abstract!Next
  <2>1. CASE UseCached BY <2>1 DEF UseCached, Abstract!CachedReady
  <2>2. CASE StartCheck BY <2>2 DEF StartCheck, Abstract!Check
  <2>3. CASE OperatorsSettled
    BY <2>3 DEF OperatorsSettled, ReturnReady, Abstract!DeclareReady
  <2>4. CASE OperatorsUnsettled BY <2>4 DEF OperatorsUnsettled
  <2>5. CASE ListFails BY <2>5 DEF ListFails
  <2>6. CASE CreationTimeKnown BY <2>6 DEF CreationTimeKnown
  <2>7. CASE QueryPrometheus BY <2>7 DEF QueryPrometheus
  <2>8. CASE CreationTimeFails
    BY <2>8 DEF CreationTimeFails, ReturnNotReady, Abstract!KeepWaiting
  <2>9. CASE BadSetting BY <2>9 DEF BadSetting, Abstract!Misconfigured
  <2>10. CASE TooOld BY <2>10 DEF TooOld, ReturnReady, Abstract!DeclareReady
  <2>11. CASE StillYoung
    BY <2>11 DEF StillYoung, ReturnNotReady, Abstract!KeepWaiting
  <2>12. ASSUME NEW co \in Operator, NEW c \in Conditions, ReportConditions(co, c)
         PROVE  UNCHANGED <<ready, result, answer>>
    BY <2>12 DEF ReportConditions, engine
  <2>13. CASE Tick BY <2>13 DEF Tick, engine
  <2>14. CASE Restart BY <2>14 DEF Restart, Abstract!Restart
  <2>15. CASE UNCHANGED vars BY <2>15 DEF vars
  <2> QED BY <2>1, <2>2, <2>3, <2>4, <2>5, <2>6, <2>7, <2>8, <2>9, <2>10, <2>11,
             <2>12, <2>13, <2>14, <2>15 DEF Next, IsReady
<1> QED BY <1>1, <1>2, CheckInvariant, PTL
        DEF Spec, ImplementsInterface, Abstract!Spec
================================================================================
