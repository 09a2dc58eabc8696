------------------------ MODULE SecretControllerProofs ------------------------
(***************************************************************************)
(* Proofs about the controller, for every content the source objects may   *)
(* have, every initial cluster, and any number of changes, failed calls    *)
(* and restarts.                                                           *)
(***************************************************************************)
EXTENDS SecretController, TLAPS

(***************************************************************************)
(* The tables of the reads.                                                *)
(***************************************************************************)

\* The keys, spelt out.
LEMMA KeysAre ==
    Keys = {"pagerdutyKey", "cadPagerdutyKey", "snitchURL", "goalertLow", "goalertHigh",
            "goalertHeartbeat", "managedNamespaces", "ocpNamespaces",
            "infrastructureName", "clusterType", "mcNamespaces", "serviceURL",
            "httpsProxy", "clusterID", "region"}
BY DEF Keys, Reads

\* Every read is of a source object, and never of an unrelated Secret.
LEMMA ReadsSources ==
    \A k \in Keys : Reads[k].object \in Source /\ Reads[k].object # "other-secret"
BY KeysAre DEF Reads, Read, Source, SourceSecret, PagingSecret, ConfigMap, ClusterScoped

\* A paging key that is not read is empty.
LEMMA PagingZero ==
    /\ PagingKey \subseteq Keys
    /\ \A k \in PagingKey : Reads[k].zero = Empty
BY KeysAre DEF PagingKey, Reads, Read

\* The order is an order of the keys.
LEMMA OrderIsOfKeys ==
    /\ Len(Order) \in Nat
    /\ DOMAIN Order = 1 .. Len(Order)
    /\ \A i \in DOMAIN Order : Order[i] \in Keys
BY KeysAre DEF Order

\* Advance leads to a read that is needed, or to the write.
LEMMA AdvanceLeads ==
    ASSUME NEW i \in Nat, Advance(i)
    PROVE  \/ pc' = "update"
           \/ pc' \in Keys /\ Needed(pc)'
BY OrderIsOfKeys DEF Advance

\* A read yields a value of its kind.
LEMMA ReadFieldType ==
    ASSUME TypeOK, NEW k \in Keys
    PROVE  ReadField(k) \in ReadValue[k]
<1>1. Reads[k].object \in Source BY ReadsSources
<1>2. cluster[Reads[k].object] \in States[Reads[k].object] \cup {Absent}
  BY <1>1 DEF TypeOK
<1> QED BY <1>2 DEF ReadField, ReadValue

(***************************************************************************)
(* Type correctness.  The parts of TypeOK, so that each action is asked    *)
(* only for the ones it can disturb.                                       *)
(***************************************************************************)

ClusterType ==
    /\ cluster \in [Source -> Content \cup {Absent}]
    /\ \A o \in Source : cluster[o] \in States[o] \cup {Absent}

WatchType == amWatch \in Seq(BOOLEAN) /\ amCached \in BOOLEAN

EventType ==
    events \subseteq {"ClusterTypeDetectionFailure", "AlertmanagerConfigValidationFailure"}

QueueType == queue \subseteq Watched /\ polls \subseteq Relevant /\ retries \subseteq Relevant

WorkerType ==
    /\ pc \in {"idle", "detect", "isReady", "listSecrets", "listConfigMaps",
               "update", "create", "metrics"} \cup Keys
    /\ request \in Relevant \cup {NoRequest}
    /\ request = NoRequest <=> pc = "idle"
    /\ clusterReady \in BOOLEAN
    /\ listed \subseteq Watched

InType ==
    /\ in = [k \in Keys |-> in[k]]
    /\ \A k \in Keys : in[k] \in ReadValue[k]

EngineType ==
    /\ ready \in BOOLEAN /\ result \in R!Result /\ answer \in R!Answer
    /\ everReady \in BOOLEAN /\ stale \in BOOLEAN

GaugeType == gauges \in [Gauge -> {-1, 0, 1}]

BoundType ==
    /\ changes \in 0 .. MaxChanges
    /\ readErrors \in 0 .. MaxReadErrors
    /\ writeErrors \in 0 .. MaxWriteErrors
    /\ restarts \in 0 .. MaxRestarts

\* TypeOK is the conjunction of its parts.
LEMMA TypeParts ==
    TypeOK <=> /\ ClusterType /\ WatchType /\ EventType /\ QueueType /\ WorkerType
               /\ InType /\ EngineType /\ GaugeType /\ BoundType
BY DEF TypeOK, ClusterType, WatchType, EventType, QueueType, WorkerType, InType,
       EngineType, GaugeType, BoundType

\* What no key is.
LEMMA KeyNames ==
    /\ Keys \cap {"idle", "detect", "isReady", "listSecrets", "listConfigMaps",
                  "update", "create", "metrics"} = {}
    /\ NoRequest \notin Relevant
    /\ Relevant \subseteq Watched
BY KeysAre DEF NoRequest, Relevant, alertmanagerMain, Watched, SourceSecret, PagingSecret,
              ConfigMap

\* An empty Reconcile has its type.
LEMMA NothingReadType ==
    /\ NothingRead = [k \in Keys |-> NothingRead[k]]
    /\ \A k \in Keys : NothingRead[k] \in ReadValue[k]
BY DEF NothingRead, ReadValue

\* Existing objects are watched ones.
LEMMA ExistingType == \A c, am : Existing(c, am) \subseteq Watched
BY DEF Existing

\* Returning leaves the worker idle.
LEMMA ReturnType ==
    ASSUME Return
    PROVE  WorkerType' /\ InType'
<1>1. WorkerType' BY KeyNames DEF Return, WorkerType
<1>2. InType' BY NothingReadType DEF Return, InType
<1> QED BY <1>1, <1>2

\* An error puts the request back.
LEMMA ReturnErrorType ==
    ASSUME QueueType, WorkerType, pc # "idle", ReturnError
    PROVE  QueueType' /\ WorkerType' /\ InType'
<1>1. WorkerType' /\ InType' BY ReturnType DEF ReturnError
<1>2. request \in Relevant BY DEF WorkerType
<1>3. QueueType' BY <1>2 DEF ReturnError, QueueType
<1> QED BY <1>1, <1>3

\* So does a result that asks for it.
LEMMA ReturnResultType ==
    ASSUME QueueType, WorkerType, pc # "idle", ReturnResult
    PROVE  QueueType' /\ WorkerType' /\ InType'
<1>1. WorkerType' /\ InType' BY ReturnType DEF ReturnResult
<1>2. request \in Relevant BY DEF WorkerType
<1>3. QueueType' BY <1>2 DEF ReturnResult, QueueType
<1> QED BY <1>1, <1>3

\* The content of the gauges is 0 or 1.
LEMMA GaugeValues ==
    /\ \A g \in DOMAIN UpdateSecretsMetrics : UpdateSecretsMetrics[g] \in {-1, 0, 1}
    /\ \A g \in DOMAIN UpdateConfigMapMetrics : UpdateConfigMapMetrics[g] \in {-1, 0, 1}
BY DEF UpdateSecretsMetrics, UpdateConfigMapMetrics, One, Contains

\* A write appends at most one watch event.
LEMMA StoreType ==
    ASSUME amWatch \in Seq(BOOLEAN), Store
    PROVE  amWatch' \in Seq(BOOLEAN)
<1>1. Append(amWatch, TRUE) \in Seq(BOOLEAN) OBVIOUS
<1>2. amWatch' \in {amWatch, Append(amWatch, TRUE)} BY DEF Store
<1> QED BY <1>1, <1>2

\* The controller's state always has its type, the engine's and the work
\* queue's included (secret_controller.go:184-297).
THEOREM TypeCorrect == Spec => []TypeOK
<1> USE DEF R!Result, R!Answer, R!NoRequeue, NoRequest
<1>1. Init => TypeOK
  <2> SUFFICES ASSUME Init PROVE TypeOK OBVIOUS
  <2>1. ClusterType BY ControllerAssumption DEF Init, ClusterType
  <2>2. WatchType BY DEF Init, WatchType
  <2>3. QueueType BY ExistingType DEF Init, QueueType
  <2>4. WorkerType BY DEF Init, WorkerType
  <2>5. InType BY NothingReadType DEF Init, InType
  <2>6. EngineType BY DEF Init, EngineType, R!Init
  <2>7. GaugeType BY DEF Init, GaugeType, NoSeries
  <2>8. BoundType BY ControllerAssumption DEF Init, BoundType
  <2>9. EventType BY DEF Init, EventType
  <2> QED BY <2>1, <2>2, <2>3, <2>4, <2>5, <2>6, <2>7, <2>8, <2>9, TypeParts
<1>2. TypeOK /\ [Next]_vars => TypeOK'
  <2> DEFINE Typed == /\ ClusterType /\ WatchType /\ EventType /\ QueueType /\ WorkerType
                      /\ InType /\ EngineType /\ GaugeType /\ BoundType
  <2> SUFFICES ASSUME Typed, [Next]_vars PROVE Typed'
    BY DEF TypeOK, ClusterType, WatchType, EventType, QueueType, WorkerType, InType,
           EngineType, GaugeType, BoundType
  <2> USE DEF ClusterType, WatchType, EventType, QueueType, EngineType, GaugeType, BoundType,
              clusterVars, queueVars, workerVars, engineVars, bounds
  <2>a. TypeOK BY TypeParts
  <2>b. ASSUME Record("ClusterTypeDetectionFailure")
               \/ Record("AlertmanagerConfigValidationFailure")
        PROVE  EventType'
    BY <2>b DEF Record
  <2>c. ASSUME NEW b \in BOOLEAN, UpdateAlertmanagerConfigValidationMetric(b)
        PROVE  GaugeType'
    BY <2>c DEF UpdateAlertmanagerConfigValidationMetric, Gauge
  <2>d. ASSUME Store PROVE amWatch' \in Seq(BOOLEAN)
    BY <2>d, StoreType
  <2>1. ASSUME NEW o \in Mutable, NEW content \in States[o] \cup {Absent},
               ChangeSource(o, content)
        PROVE  Typed'
    <3>1. o \in Source /\ content \in Content \cup {Absent}
      BY ControllerAssumption DEF Content
    <3>2. ClusterType' BY <2>1, <3>1 DEF ChangeSource
    <3>3. BoundType' BY <2>1, ControllerAssumption DEF ChangeSource
    <3> QED BY <2>1, <3>2, <3>3 DEF ChangeSource, WorkerType, InType
  <2>2. ASSUME NEW content, ChangeAlertmanager(content)
        PROVE  Typed'
    <3>1. BoundType' BY <2>2, ControllerAssumption DEF ChangeAlertmanager
    <3>2. WatchType' BY <2>2 DEF ChangeAlertmanager
    <3> QED BY <2>2, <3>1, <3>2 DEF ChangeAlertmanager, WorkerType, InType
  <2>3. CASE DeliverAlertmanager
    BY <2>3 DEF DeliverAlertmanager, WorkerType, InType, Watched
  <2>4. ASSUME NEW r \in Relevant, Timer(r) PROVE Typed'
    BY <2>4, KeyNames DEF Timer, WorkerType, InType
  <2>5. ASSUME NEW r \in Watched, Skip(r) PROVE Typed'
    BY <2>5 DEF Skip, WorkerType, InType
  <2>6. ASSUME NEW r \in Watched, Start(r) PROVE Typed'
    BY <2>6, KeyNames DEF Start, WorkerType, InType
  <2>7. CASE DetectClusterType
    <3>1. EventType' BY <2>7, <2>b DEF DetectClusterType
    <3>2. BoundType' BY <2>7, ControllerAssumption DEF DetectClusterType
    <3> QED BY <2>7, <3>1, <3>2 DEF DetectClusterType, WorkerType, InType
  <2>8. CASE ReadinessKnown
    <3>1. EngineType'
      BY <2>8 DEF ReadinessKnown, R!CachedReady, R!DeclareReady, R!KeepWaiting
    <3> QED BY <2>8, <3>1 DEF ReadinessKnown, WorkerType, InType
  <2>9. CASE ReadinessFails
    <3>1. QueueType' /\ WorkerType' /\ InType'
      BY <2>9, ReturnErrorType DEF ReadinessFails
    <3>2. EngineType' BY <2>9 DEF ReadinessFails, R!Misconfigured
    <3> QED BY <2>9, <3>1, <3>2 DEF ReadinessFails
  <2>10. CASE ListSecrets
    <3>1. listed' \subseteq Watched BY <2>10 DEF ListSecrets, List, Watched, WorkerType
    <3>2. BoundType' BY <2>10, ControllerAssumption DEF ListSecrets, List
    <3> QED BY <2>10, <3>1, <3>2 DEF ListSecrets, List, WorkerType, InType
  <2>11. CASE ListConfigMaps
    <3>1. listed' \subseteq Watched BY <2>11 DEF ListConfigMaps, List, Watched, WorkerType
    <3>2. BoundType' BY <2>11, ControllerAssumption DEF ListConfigMaps, List
    <3>3. pc' \in Keys \cup {"update"} BY <2>11, AdvanceLeads DEF ListConfigMaps
    <3>4. WorkerType' BY <2>11, <3>1, <3>3, KeyNames DEF ListConfigMaps, List, WorkerType
    <3> QED BY <2>11, <3>2, <3>4 DEF ListConfigMaps, List, InType
  <2>12. ASSUME NEW i \in DOMAIN Order, Get(i) PROVE Typed'
    <3>1. Order[i] \in Keys /\ i + 1 \in Nat BY OrderIsOfKeys
    <3>2. InType' BY <2>12, <2>a, <3>1, ReadFieldType DEF Get, InType
    <3>3. BoundType' BY <2>12, ControllerAssumption DEF Get
    <3>4. pc' \in Keys \cup {"update"} BY <2>12, <3>1, AdvanceLeads DEF Get
    <3>5. WorkerType' BY <2>12, <3>1, <3>4, KeyNames DEF Get, WorkerType
    <3>6. EventType' BY <2>12, <2>b DEF Get, ReadEvent
    <3> QED BY <2>12, <3>2, <3>3, <3>5, <3>6 DEF Get
  <2>13. CASE ValidationFails
    <3>1. QueueType' /\ WorkerType' /\ InType'
      BY <2>13, ReturnErrorType DEF ValidationFails
    <3>2. EventType' /\ GaugeType' BY <2>13, <2>b, <2>c DEF ValidationFails
    <3> QED BY <2>13, <3>1, <3>2 DEF ValidationFails
  <2>14. ASSUME WriteSucceeds, pc \in {"update", "create"} PROVE Typed'
    <3>1. GaugeType' BY <2>14, <2>c DEF WriteSucceeds
    <3>2. WatchType' BY <2>14, <2>d DEF WriteSucceeds
    <3> QED BY <2>14, <3>1, <3>2 DEF WriteSucceeds, WorkerType, InType
  <2>15. CASE UpdateNotFound BY <2>15 DEF UpdateNotFound, WorkerType, InType
  <2>16. ASSUME WriteReturnsError, pc \in {"update", "create"},
                amWatch' \in Seq(BOOLEAN), writeErrors' \in 0 .. MaxWriteErrors
         PROVE  Typed'
    <3>1. QueueType' /\ WorkerType' /\ InType'
      BY <2>16, ReturnErrorType DEF WriteReturnsError
    <3>2. GaugeType' BY <2>16, <2>c DEF WriteReturnsError
    <3> QED BY <2>16, <3>1, <3>2 DEF WriteReturnsError
  <2>17. CASE CreateAlreadyExists BY <2>16, <2>17 DEF CreateAlreadyExists
  <2>18. CASE WriteFails
    <3>1. amWatch' \in Seq(BOOLEAN) BY <2>18, <2>d DEF WriteFails
    <3>2. writeErrors' \in 0 .. MaxWriteErrors
      BY <2>18, ControllerAssumption DEF WriteFails
    <3> QED BY <2>16, <2>18, <3>1, <3>2 DEF WriteFails
  <2>19. CASE UpdateMetrics
    <3>1. QueueType' /\ WorkerType' /\ InType'
      BY <2>19, ReturnResultType DEF UpdateMetrics
    <3>2. GaugeType' BY <2>19, GaugeValues DEF UpdateMetrics
    <3> QED BY <2>19, <3>1, <3>2 DEF UpdateMetrics
  <2>20. CASE Restart
    <3>1. WorkerType' /\ InType' BY <2>20, ReturnType DEF Restart
    <3>2. QueueType' BY <2>20, ExistingType DEF Restart
    <3>3. WatchType' BY <2>20 DEF Restart
    <3>4. EngineType' BY <2>20 DEF Restart, R!Restart
    <3>5. GaugeType' BY <2>20 DEF Restart, NoSeries
    <3>6. BoundType' BY <2>20, ControllerAssumption DEF Restart
    <3> QED BY <2>20, <3>1, <3>2, <3>3, <3>4, <3>5, <3>6 DEF Restart
  <2>21. CASE UNCHANGED vars BY <2>21 DEF vars, WorkerType, InType
  <2> QED BY <2>1, <2>2, <2>3, <2>4, <2>5, <2>6, <2>7, <2>8, <2>9, <2>10, <2>11, <2>12,
             <2>13, <2>14, <2>15, <2>17, <2>18, <2>19, <2>20, <2>21
          DEF Next, Worker, Reconcile, Update, Create
<1> QED BY <1>1, <1>2, PTL DEF Spec

(***************************************************************************)
(* No paging before readiness.                                             *)
(***************************************************************************)

\* A configuration that pages was built from a paging key.
LEMMA PagingNeedsKey ==
    ASSUME NEW x, ReceiverNames(createAlertManagerConfig(x)) \cap PagingReceiver # {}
    PROVE  \E k \in PagingKey : x[k] # Empty
<1>1. PICK r \in createReceivers(x) : r.name \in PagingReceiver
  BY DEF ReceiverNames, createAlertManagerConfig
<1>2. CASE r \in createPagerdutyReceivers(x)
  BY <1>2 DEF createPagerdutyReceivers, PagingKey
<1>3. CASE r \in createCADPagerdutyReceivers(x)
  BY <1>3 DEF createCADPagerdutyReceivers, PagingKey
<1>4. CASE r \in createGoalertReceivers(x)
  BY <1>4 DEF createGoalertReceivers, GoalertWanted, PagingKey
<1>5. CASE r \in createHeartbeatReceivers(x)
  BY <1>5 DEF createHeartbeatReceivers, webhookReceiver, PagingKey
<1>6. CASE r \in createWatchdogReceivers(x)
  BY <1>1, <1>6 DEF createWatchdogReceivers, webhookReceiver, receiverNull, PagingReceiver
<1>7. CASE r \in createOCMAgentReceiver(x)
  BY <1>1, <1>7 DEF createOCMAgentReceiver, webhookReceiver, receiverNull, PagingReceiver
<1>8. CASE r = receiverNull
  BY <1>1, <1>8 DEF receiverNull, PagingReceiver
<1> QED BY <1>1, <1>2, <1>3, <1>4, <1>5, <1>6, <1>7, <1>8 DEF createReceivers

(***************************************************************************)
(* The inductive invariant: the verdict is only TRUE while the engine has  *)
(* found the cluster ready, and under a FALSE verdict no paging key is     *)
(* read.                                                                   *)
(***************************************************************************)
PagingInv ==
    /\ clusterReady => ready
    /\ ready => everReady
    /\ pc \in PagingKey => clusterReady
    /\ \A k \in PagingKey : in[k] # Empty => clusterReady
    /\ PagingOnlyAfterReady

\* While the verdict stands, what is written pages only after readiness.
LEMMA StorePages ==
    ASSUME PagingInv, Store, UNCHANGED everReady
    PROVE  PagingOnlyAfterReady'
<1>1. ReceiverNames(alertmanagerconfig) \cap PagingReceiver # {} => everReady
  BY PagingNeedsKey DEF PagingInv, alertmanagerconfig
<1> QED BY <1>1 DEF Store, PagingOnlyAfterReady, Pages

\* Returning forgets the verdict and the keys together.
LEMMA ReturnPages ==
    ASSUME Return
    PROVE  /\ ~clusterReady' /\ pc' = "idle"
           /\ \A k \in PagingKey : in'[k] = Empty
BY PagingZero DEF Return, NothingRead

\* No configuration that pages is in place before some IsReady() has said yes,
\* for any contents of the Secrets and whatever fails, restarts or changes on
\* the way (secret_controller.go:225-265).
THEOREM NoPagingBeforeReady == Spec => []PagingOnlyAfterReady
<1>1. Init => PagingInv
  BY PagingZero, ControllerAssumption
     DEF Init, R!Init, PagingInv, PagingOnlyAfterReady, Pages, NothingRead, PagingKey
<1>2. TypeOK /\ PagingInv /\ [Next]_vars => PagingInv'
  <2> SUFFICES ASSUME TypeOK, PagingInv, [Next]_vars PROVE PagingInv'
    OBVIOUS
  <2> USE DEF clusterVars, queueVars, workerVars, engineVars, bounds
  <2>a. ASSUME Return, UNCHANGED everReady, ready' => ready, PagingOnlyAfterReady'
        PROVE  PagingInv'
    BY <2>a, ReturnPages DEF PagingInv, PagingKey
  <2>b. ASSUME UNCHANGED amSecret, UNCHANGED everReady PROVE PagingOnlyAfterReady'
    BY <2>b DEF PagingInv, PagingOnlyAfterReady, Pages
  <2>c. ASSUME UNCHANGED <<clusterReady, in, ready, everReady>>,
               pc' \in PagingKey => clusterReady, PagingOnlyAfterReady'
        PROVE  PagingInv'
    BY <2>c DEF PagingInv
  <2>1. ASSUME NEW o, NEW content, ChangeSource(o, content) PROVE PagingInv'
    BY <2>1, <2>b, <2>c DEF ChangeSource, PagingInv
  <2>2. ASSUME NEW content \in {Foreign, Absent}, ChangeAlertmanager(content)
        PROVE  PagingInv'
    <3>1. PagingOnlyAfterReady' BY <2>2 DEF ChangeAlertmanager, PagingOnlyAfterReady, Pages
    <3> QED BY <2>2, <2>c, <3>1 DEF ChangeAlertmanager, PagingInv
  <2>3. CASE DeliverAlertmanager BY <2>3, <2>b, <2>c DEF DeliverAlertmanager, PagingInv
  <2>4. ASSUME NEW r, Timer(r) PROVE PagingInv' BY <2>4, <2>b, <2>c DEF Timer, PagingInv
  <2>5. ASSUME NEW r, Skip(r) PROVE PagingInv' BY <2>5, <2>b, <2>c DEF Skip, PagingInv
  <2>6. ASSUME NEW r, Start(r) PROVE PagingInv'
    BY <2>6, <2>b, <2>c DEF Start, PagingInv, PagingKey
  <2>7. CASE DetectClusterType
    BY <2>7, <2>b, <2>c DEF DetectClusterType, PagingInv, PagingKey
  <2>8. CASE ReadinessKnown
    <3>1. everReady' = (everReady \/ ready') /\ clusterReady' = ready'
      BY <2>8 DEF ReadinessKnown
    <3>2. ready \in BOOLEAN /\ everReady \in BOOLEAN BY DEF TypeOK
    <3>3. ready' \in BOOLEAN
      BY <2>8, <3>2 DEF ReadinessKnown, R!CachedReady, R!DeclareReady, R!KeepWaiting
    <3>4. ready => ready'
      BY <2>8 DEF ReadinessKnown, R!CachedReady, R!DeclareReady, R!KeepWaiting
    <3>5. PagingOnlyAfterReady'
      BY <2>8, <3>1 DEF ReadinessKnown, PagingInv, PagingOnlyAfterReady, Pages
    <3>6. pc' \notin PagingKey BY <2>8 DEF ReadinessKnown, PagingKey
    <3>7. UNCHANGED in BY <2>8 DEF ReadinessKnown
    <3> QED BY <3>1, <3>3, <3>4, <3>5, <3>6, <3>7 DEF PagingInv
  <2>9. CASE ReadinessFails BY <2>9, <2>a, <2>b DEF ReadinessFails, R!Misconfigured, ReturnError
  <2>10. CASE ListSecrets BY <2>10, <2>b, <2>c DEF ListSecrets, List, PagingKey
  <2>11. CASE ListConfigMaps
    <3>1. pc' \in PagingKey => clusterReady'
      BY <2>11, AdvanceLeads DEF ListConfigMaps, Needed, PagingKey
    <3> QED BY <2>11, <3>1, <2>b, <2>c DEF ListConfigMaps, List
  <2>12. ASSUME NEW i \in DOMAIN Order, Get(i) PROVE PagingInv'
    <3>1. Order[i] \in Keys /\ i + 1 \in Nat BY OrderIsOfKeys
    <3>2. pc' \in PagingKey => clusterReady'
      BY <2>12, <3>1, AdvanceLeads DEF Get, Needed, PagingKey
    <3>3. ASSUME NEW k \in PagingKey, in'[k] # Empty PROVE clusterReady
      <4>1. CASE k = Order[i] BY <2>12, <4>1 DEF Get, PagingInv
      <4>2. CASE k # Order[i]
        BY <2>12, <3>3, <4>2, PagingZero DEF Get, PagingInv, TypeOK
      <4> QED BY <4>1, <4>2
    <3> QED BY <2>12, <2>b, <3>2, <3>3 DEF Get, PagingInv
  <2>13. CASE ValidationFails BY <2>13, <2>a, <2>b DEF ValidationFails, ReturnError
  <2>14. ASSUME WriteSucceeds PROVE PagingInv'
    BY <2>14, <2>c, StorePages DEF WriteSucceeds, PagingKey
  <2>15. CASE UpdateNotFound BY <2>15, <2>b, <2>c DEF UpdateNotFound, PagingKey
  <2>16. CASE CreateAlreadyExists
    BY <2>16, <2>a, <2>b DEF CreateAlreadyExists, WriteReturnsError, ReturnError
  <2>17. CASE WriteFails
    <3>1. UNCHANGED <<everReady, ready>> /\ Return
      BY <2>17 DEF WriteFails, WriteReturnsError, ReturnError
    <3>2. PagingOnlyAfterReady' BY <2>17, <2>b, <3>1, StorePages DEF WriteFails
    <3> QED BY <2>a, <3>1, <3>2
  <2>18. CASE UpdateMetrics BY <2>18, <2>a, <2>b DEF UpdateMetrics, ReturnResult
  <2>19. CASE Restart BY <2>19, <2>a, <2>b DEF Restart, R!Restart
  <2>20. CASE UNCHANGED vars BY <2>20, <2>b, <2>c DEF vars, PagingInv
  <2> QED BY <2>1, <2>2, <2>3, <2>4, <2>5, <2>6, <2>7, <2>8, <2>9, <2>10, <2>11, <2>12,
             <2>13, <2>14, <2>15, <2>16, <2>17, <2>18, <2>19, <2>20
          DEF Next, Worker, Reconcile, Update, Create
<1>3. PagingInv => PagingOnlyAfterReady BY DEF PagingInv
<1> QED BY <1>1, <1>2, <1>3, TypeCorrect, PTL DEF Spec

(***************************************************************************)
(* Polling and retrying: why the operator cannot fall asleep with work     *)
(* left to do.                                                             *)
(***************************************************************************)

\* Past IsReady() the engine has answered, and it has answered "not ready" only
\* with a delay.
PollInv ==
    /\ answer = "notReady" => result # R!NoRequeue
    /\ pc \notin {"idle", "detect", "isReady"} => answer \in {"ready", "notReady"}
    /\ ReadinessIsPolled

\* A Reconcile that ends in an error leaves its request to be retried.
LEMMA ReturnErrorRetries ==
    ASSUME TypeOK, pc # "idle", ReturnError
    PROVE  retries' \cap Relevant # {} /\ pc' = "idle"
<1>1. request \in Relevant BY DEF TypeOK
<1>2. request \in retries' BY DEF ReturnError
<1> QED BY <1>1, <1>2 DEF ReturnError, Return

\* While the cluster is not ready, or its readiness cannot be told, the next
\* look at it is always due: the delay the engine asks for survives every path
\* through Reconcile (secret_controller.go:225-229 and :296).
THEOREM PollingNeverStops == Spec => []ReadinessIsPolled
<1> USE DEF R!NoRequeue
<1>1. Init => PollInv BY DEF Init, R!Init, PollInv, ReadinessIsPolled
<1>2. TypeOK /\ PollInv /\ [Next]_vars => PollInv'
  <2> SUFFICES ASSUME TypeOK, PollInv, [Next]_vars PROVE PollInv'
    OBVIOUS
  <2> USE DEF clusterVars, queueVars, workerVars, engineVars, bounds
  <2>a. ASSUME UNCHANGED <<result, answer>>, pc # "idle", ReturnError PROVE PollInv'
    BY <2>a, ReturnErrorRetries DEF PollInv, ReadinessIsPolled, Pending
  <2>b. ASSUME UNCHANGED <<pc, result, answer>>, Pending \cap Relevant \subseteq Pending'
        PROVE  PollInv'
    BY <2>b DEF PollInv, ReadinessIsPolled
  <2>c. ASSUME UNCHANGED <<result, answer>>, pc' # "idle",
               \/ pc' \in {"detect", "isReady"}
               \/ pc \notin {"idle", "detect", "isReady"}
        PROVE  PollInv'
    BY <2>c DEF PollInv, ReadinessIsPolled
  <2>1. ASSUME NEW o, NEW content, ChangeSource(o, content) PROVE PollInv'
    BY <2>1, <2>b DEF ChangeSource, Pending
  <2>2. ASSUME NEW content, ChangeAlertmanager(content) PROVE PollInv'
    BY <2>2, <2>b DEF ChangeAlertmanager, Pending
  <2>3. CASE DeliverAlertmanager BY <2>3, <2>b DEF DeliverAlertmanager, Pending
  <2>4. ASSUME NEW r, Timer(r) PROVE PollInv' BY <2>4, <2>b DEF Timer, Pending
  <2>5. ASSUME NEW r, Skip(r) PROVE PollInv' BY <2>5, <2>b DEF Skip, Pending
  <2>6. ASSUME NEW r, Start(r) PROVE PollInv' BY <2>6, <2>c DEF Start
  <2>7. CASE DetectClusterType BY <2>7, <2>c DEF DetectClusterType
  <2>8. CASE ReadinessKnown
    BY <2>8 DEF ReadinessKnown, R!CachedReady, R!DeclareReady, R!KeepWaiting, PollInv,
                ReadinessIsPolled
  <2>9. CASE ReadinessFails
    <3>1. retries' \cap Relevant # {} /\ pc' = "idle"
      BY <2>9, ReturnErrorRetries DEF ReadinessFails
    <3> QED BY <2>9, <3>1 DEF ReadinessFails, R!Misconfigured, PollInv, ReadinessIsPolled,
                              Pending
  <2>10. CASE ListSecrets BY <2>10, <2>c DEF ListSecrets, List
  <2>11. CASE ListConfigMaps
    <3>1. pc' \in Keys \cup {"update"} BY <2>11, AdvanceLeads DEF ListConfigMaps
    <3> QED BY <2>11, <2>c, <3>1, KeyNames DEF ListConfigMaps, List
  <2>12. ASSUME NEW i \in DOMAIN Order, Get(i) PROVE PollInv'
    <3>1. Order[i] \in Keys /\ i + 1 \in Nat BY OrderIsOfKeys
    <3>2. pc' \in Keys \cup {"update"} BY <2>12, <3>1, AdvanceLeads DEF Get
    <3> QED BY <2>12, <2>c, <3>1, <3>2, KeyNames DEF Get
  <2>13. CASE ValidationFails BY <2>13, <2>a DEF ValidationFails
  <2>14. ASSUME WriteSucceeds, pc \in {"update", "create"} PROVE PollInv'
    BY <2>14, <2>c DEF WriteSucceeds
  <2>15. CASE UpdateNotFound BY <2>15, <2>c DEF UpdateNotFound
  <2>16. CASE CreateAlreadyExists BY <2>16, <2>a DEF CreateAlreadyExists, WriteReturnsError
  <2>17. CASE WriteFails BY <2>17, <2>a DEF WriteFails, WriteReturnsError
  <2>18. CASE UpdateMetrics
    <3>1. answer = "ready" \/ (answer = "notReady" /\ result # R!NoRequeue)
      BY <2>18 DEF UpdateMetrics, PollInv
    <3>2. request \in Relevant BY <2>18 DEF UpdateMetrics, TypeOK
    <3> QED BY <2>18, <3>1, <3>2
            DEF UpdateMetrics, ReturnResult, Return, PollInv, ReadinessIsPolled, Pending
  <2>19. CASE Restart BY <2>19 DEF Restart, Return, R!Restart, PollInv, ReadinessIsPolled
  <2>20. CASE UNCHANGED vars BY <2>20, <2>b DEF vars, Pending
  <2> QED BY <2>1, <2>2, <2>3, <2>4, <2>5, <2>6, <2>7, <2>8, <2>9, <2>10, <2>11, <2>12,
             <2>13, <2>14, <2>15, <2>16, <2>17, <2>18, <2>19, <2>20
          DEF Next, Worker, Reconcile, Update, Create
<1>3. PollInv => ReadinessIsPolled BY DEF PollInv
<1> QED BY <1>1, <1>2, <1>3, TypeCorrect, PTL DEF Spec

\* The failure gauge is down once a write has succeeded, and what is about to be
\* created has passed the validation.
WriteInv ==
    /\ pc = "metrics" => gauges["alertmanager_config_validation_failed"] = 0
    /\ pc = "create" => Load(alertmanagerconfig)
    /\ FailureIsRetried

\* No step disturbs what is known about a write.
LEMMA WriteInvInductive ==
    ASSUME TypeOK, WriteInv, [Next]_vars
    PROVE  WriteInv'
<1> USE DEF clusterVars, queueVars, workerVars, engineVars, bounds
<1>a. ASSUME pc # "idle", ReturnError PROVE WriteInv'
  BY <1>a, ReturnErrorRetries DEF WriteInv, FailureIsRetried
<1>b. ASSUME UNCHANGED <<pc, in, gauges>>,
             (queue \cup retries) \cap Relevant \subseteq (queue' \cup retries')
      PROVE  WriteInv'
  BY <1>b DEF WriteInv, FailureIsRetried, alertmanagerconfig
<1>c. ASSUME pc' \notin {"idle", "create", "metrics"} PROVE WriteInv'
  BY <1>c DEF WriteInv, FailureIsRetried
<1>1. ASSUME NEW o, NEW content, ChangeSource(o, content) PROVE WriteInv'
  BY <1>1, <1>b DEF ChangeSource
<1>2. ASSUME NEW content, ChangeAlertmanager(content) PROVE WriteInv'
  BY <1>2, <1>b DEF ChangeAlertmanager
<1>3. CASE DeliverAlertmanager BY <1>3, <1>b DEF DeliverAlertmanager
<1>4. ASSUME NEW r, Timer(r) PROVE WriteInv' BY <1>4, <1>b DEF Timer
<1>5. ASSUME NEW r, Skip(r) PROVE WriteInv' BY <1>5, <1>b DEF Skip
<1>6. ASSUME NEW r, Start(r) PROVE WriteInv' BY <1>6, <1>c DEF Start
<1>7. CASE DetectClusterType BY <1>7, <1>c DEF DetectClusterType
<1>8. CASE ReadinessKnown BY <1>8, <1>c DEF ReadinessKnown
<1>9. CASE ReadinessFails BY <1>9, <1>a DEF ReadinessFails
<1>10. CASE ListSecrets BY <1>10, <1>c DEF ListSecrets
<1>11. CASE ListConfigMaps
  <2>1. pc' \in Keys \cup {"update"} BY <1>11, AdvanceLeads DEF ListConfigMaps
  <2> QED BY <1>c, <2>1, KeyNames
<1>12. ASSUME NEW i \in DOMAIN Order, Get(i) PROVE WriteInv'
  <2>1. i + 1 \in Nat BY OrderIsOfKeys
  <2>2. pc' \in Keys \cup {"update"} BY <1>12, <2>1, AdvanceLeads DEF Get
  <2> QED BY <1>c, <2>2, KeyNames
<1>13. CASE ValidationFails BY <1>13, <1>a DEF ValidationFails
<1>14. ASSUME WriteSucceeds PROVE WriteInv'
  <2>1. gauges'["alertmanager_config_validation_failed"] = 0
    BY <1>14 DEF WriteSucceeds, UpdateAlertmanagerConfigValidationMetric, TypeOK, Gauge
  <2> QED BY <1>14, <2>1 DEF WriteSucceeds, WriteInv, FailureIsRetried
<1>15. CASE UpdateNotFound
  BY <1>15 DEF UpdateNotFound, WriteInv, FailureIsRetried, alertmanagerconfig
<1>16. CASE CreateAlreadyExists BY <1>16, <1>a DEF CreateAlreadyExists, WriteReturnsError
<1>17. CASE WriteFails BY <1>17, <1>a DEF WriteFails, WriteReturnsError
<1>18. CASE UpdateMetrics
  <2>1. gauges["alertmanager_config_validation_failed"] = 0
    BY <1>18 DEF UpdateMetrics, WriteInv
  <2>2. "alertmanager_config_validation_failed"
            \notin DOMAIN UpdateSecretsMetrics \cup DOMAIN UpdateConfigMapMetrics
    BY DEF UpdateSecretsMetrics, UpdateConfigMapMetrics
  <2>3. gauges'["alertmanager_config_validation_failed"] = 0
    BY <1>18, <2>1, <2>2 DEF UpdateMetrics, Gauge
  <2> QED BY <1>18, <2>3
          DEF UpdateMetrics, ReturnResult, Return, WriteInv, FailureIsRetried
<1>19. CASE Restart
  <2>1. gauges'["alertmanager_config_validation_failed"] = -1
    BY <1>19 DEF Restart, NoSeries, Gauge
  <2> QED BY <1>19, <2>1 DEF Restart, Return, WriteInv, FailureIsRetried
<1>20. CASE UNCHANGED vars BY <1>20, <1>b DEF vars
<1> QED BY <1>1, <1>2, <1>3, <1>4, <1>5, <1>6, <1>7, <1>8, <1>9, <1>10, <1>11, <1>12,
           <1>13, <1>14, <1>15, <1>16, <1>17, <1>18, <1>19, <1>20
        DEF Next, Worker, Reconcile, Update, Create

\* Hence it is an invariant.
LEMMA WriteInvariant == Spec => []WriteInv
<1>1. Init => WriteInv
  BY DEF Init, WriteInv, FailureIsRetried, NoSeries, Gauge
<1> QED BY <1>1, WriteInvInductive, TypeCorrect, PTL DEF Spec

\* A configuration that could not be validated or written is tried again: the
\* failure gauge never stays up on an operator at rest
\* (secret_controller.go:285-288 and :1395-1446).
THEOREM FailuresAreRetried == Spec => []FailureIsRetried
<1>1. WriteInv => FailureIsRetried BY DEF WriteInv
<1> QED BY <1>1, WriteInvariant, PTL

\* Whatever the operator writes, Alertmanager can load: an invalid configuration
\* never replaces the last good one, not even by way of the Create that follows
\* an Update of a missing Secret (secret_controller.go:1397-1432).
THEOREM InvalidNeverWritten == Spec => LastKnownGoodKept
<1> DEFINE Good == (amSecret' # amSecret /\ changes' = changes) => Load(amSecret')
<1>1. TypeOK /\ WriteInv /\ [Next]_vars => [Good]_vars
  <2> SUFFICES ASSUME TypeOK, WriteInv, [Next]_vars, amSecret' # amSecret, changes' = changes
               PROVE  Load(amSecret')
    OBVIOUS
  <2> USE DEF clusterVars
  <2>1. ASSUME NEW content, ChangeAlertmanager(content) PROVE FALSE
    BY <2>1 DEF ChangeAlertmanager, TypeOK
  <2>2. ASSUME Store, Load(alertmanagerconfig) PROVE Load(amSecret')
    BY <2>2 DEF Store
  <2>3. CASE Update BY <2>2, <2>3 DEF Update, WriteSucceeds
  <2>4. CASE Create BY <2>2, <2>4 DEF Create, WriteSucceeds, WriteInv
  <2>5. CASE WriteFails BY <2>2, <2>5 DEF WriteFails
  <2>6. CASE UNCHANGED vars BY <2>6 DEF vars
  <2>7. ASSUME NEW o, NEW content, ChangeSource(o, content) PROVE FALSE
    BY <2>7 DEF ChangeSource
  <2>8. ASSUME NEW r, Timer(r) \/ Skip(r) \/ Start(r) PROVE FALSE
    BY <2>8 DEF Timer, Skip, Start
  <2>9. ASSUME NEW i, Get(i) PROVE FALSE BY <2>9 DEF Get
  <2>10. ~(DeliverAlertmanager \/ DetectClusterType \/ ReadinessKnown \/ ReadinessFails)
    BY DEF DeliverAlertmanager, DetectClusterType, ReadinessKnown, ReadinessFails
  <2>11. ~(ListSecrets \/ ListConfigMaps \/ ValidationFails \/ UpdateNotFound)
    BY DEF ListSecrets, ListConfigMaps, List, ValidationFails, UpdateNotFound
  <2>12. ~(CreateAlreadyExists \/ UpdateMetrics \/ Restart)
    BY DEF CreateAlreadyExists, UpdateMetrics, Restart
  <2> QED BY <2>1, <2>3, <2>4, <2>5, <2>6, <2>7, <2>8, <2>9, <2>10, <2>11, <2>12
          DEF Next, Worker, Reconcile
<1> QED BY <1>1, WriteInvariant, TypeCorrect, PTL DEF Spec, LastKnownGoodKept

(***************************************************************************)
(* An operator at rest is in sync.                                         *)
(***************************************************************************)

\* The Secrets that are read: other-secret stands for those that are not.
ReadSecret == SourceSecret \ {"other-secret"}

\* The reads a Reconcile makes if nothing changes while it runs.
Wanted(k) ==
    /\ k \in PagingKey => ready
    /\ k = "clusterType" => Snapshot.infrastructureName \notin {"unreadable", "hs-mc"}
    /\ k = "mcNamespaces" => isManagementCluster(Snapshot)

Want(k) == IF Wanted(k) THEN ReadField(k) ELSE Reads[k].zero

\* The reads before the i-th are made, the others are not.
ReadUpTo(i) ==
    \A m \in DOMAIN Order :
        in[Order[m]] = IF m < i THEN Want(Order[m]) ELSE Reads[Order[m]].zero

\* The Lists are those of the present cluster.
ListedNow(objects) ==
    \A o \in objects : o \in listed <=> cluster[o] # Absent

\* Where the special reads are, and that the order leaves none out.
LEMMA OrderPlaces ==
    /\ DOMAIN Order = 1 .. 15 /\ Len(Order) = 15
    /\ Order[9] = "infrastructureName" /\ Order[10] = "clusterType"
    /\ Order[11] = "mcNamespaces"
    /\ \A m \in 1 .. 15 : Order[m] = "clusterType" => m = 10
    /\ \A m \in 1 .. 15 : Order[m] = "mcNamespaces" => m = 11
    /\ \A m, n \in 1 .. 15 : Order[m] = Order[n] => m = n
    /\ \A k \in Keys : \E m \in 1 .. 15 : Order[m] = k
<1>1. /\ DOMAIN Order = 1 .. 15 /\ Len(Order) = 15
      /\ Order[9] = "infrastructureName" /\ Order[10] = "clusterType"
      /\ Order[11] = "mcNamespaces"
  BY DEF Order
<1>2. \A m \in 1 .. 15 : Order[m] = "clusterType" => m = 10
  BY DEF Order
<1>3. \A m \in 1 .. 15 : Order[m] = "mcNamespaces" => m = 11
  BY DEF Order
<1>4. \A m, n \in 1 .. 15 : Order[m] = Order[n] => m = n
  BY DEF Order
<1>5. \A k \in Keys : \E m \in 1 .. 15 : Order[m] = k
  BY KeysAre DEF Order
<1> QED BY <1>1, <1>2, <1>3, <1>4, <1>5

\* The objects of the reads that matter below.
LEMMA ReadObjects ==
    /\ Reads["infrastructureName"].object = "infrastructure"
    /\ Reads["clusterType"].object = "version"
    /\ Reads["clusterType"].zero = Empty
    /\ "infrastructure" \notin SourceSecret \cup ConfigMap
    /\ "version" \notin SourceSecret \cup ConfigMap
    /\ "infrastructureName" \notin PagingKey
    /\ "clusterType" \notin PagingKey
    /\ "mcNamespaces" \notin PagingKey
    /\ {"infrastructureName", "clusterType", "mcNamespaces"} \subseteq Keys
BY KeysAre DEF Reads, Read, SourceSecret, PagingSecret, ConfigMap, PagingKey

\* What the snapshot says of the cluster's type.
LEMMA SnapshotType ==
    /\ Snapshot.infrastructureName = ReadField("infrastructureName")
    /\ Snapshot.clusterType = ReadField("clusterType")
BY ReadObjects DEF Snapshot

\* From the i-th read on, the reads that are skipped are those not wanted, and
\* the one that is made is wanted.
LEMMA SkipsUnwanted ==
    ASSUME clusterReady = ready, ListedNow(ReadSecret \cup ConfigMap),
           NEW i \in 1 .. 16, NEW j \in i .. 16, ReadUpTo(i),
           \A m \in i .. j - 1 : ~Needed(Order[m])
    PROVE  /\ ReadUpTo(j)
           /\ j \in DOMAIN Order /\ Needed(Order[j]) => Wanted(Order[j])
<1>a. ASSUME NEW k \in Keys, Reads[k].object \in SourceSecret \cup ConfigMap
      PROVE  Reads[k].object \in listed <=> cluster[Reads[k].object] # Absent
  BY <1>a, ReadsSources DEF ListedNow, ReadSecret
<1>1. Needed("infrastructureName")
  BY ReadObjects DEF Needed
<1>2. j >= 10 => i >= 10
  BY <1>1, OrderPlaces
<1>3. j >= 10 => in.infrastructureName = Snapshot.infrastructureName
  <2> SUFFICES ASSUME j >= 10 PROVE in["infrastructureName"] = ReadField("infrastructureName")
    BY SnapshotType
  <2>1. in["infrastructureName"] = Want("infrastructureName")
    BY <1>2, OrderPlaces DEF ReadUpTo
  <2>2. Wanted("infrastructureName") BY ReadObjects DEF Wanted
  <2> QED BY <2>1, <2>2 DEF Want
<1>4. ASSUME NEW m \in 1 .. 15, Order[m] \notin {"clusterType", "mcNamespaces"}
      PROVE  /\ Needed(Order[m]) => Wanted(Order[m])
             /\ ~Needed(Order[m]) => Want(Order[m]) = Reads[Order[m]].zero
  <2>1. Order[m] \in Keys BY OrderPlaces, OrderIsOfKeys
  <2> QED BY <1>4, <1>a, <2>1 DEF Needed, Wanted, Want, ReadField
<1>5. j >= 10 => /\ Needed("clusterType") => Wanted("clusterType")
                 /\ ~Needed("clusterType") => Want("clusterType") = Reads["clusterType"].zero
  BY <1>3, ReadObjects DEF Needed, Wanted, Want
<1>6. j >= 11 => in.clusterType = Want("clusterType")
  <2> SUFFICES ASSUME j >= 11 PROVE in["clusterType"] = Want("clusterType")
    OBVIOUS
  <2>1. CASE i >= 11 BY <2>1, OrderPlaces DEF ReadUpTo
  <2>2. CASE i = 10
    <3>1. ~Needed("clusterType") BY <2>2, OrderPlaces
    <3>2. in["clusterType"] = Reads["clusterType"].zero
      BY <2>2, OrderPlaces DEF ReadUpTo
    <3> QED BY <1>5, <3>1, <3>2
  <2> QED BY <1>2, <2>1, <2>2
<1>7. j >= 11 => (isManagementCluster(in) <=> isManagementCluster(Snapshot))
  <2>1. Wanted("clusterType") <=> Snapshot.infrastructureName \notin {"unreadable", "hs-mc"}
    BY ReadObjects DEF Wanted
  <2>2. CASE Wanted("clusterType")
    BY <1>3, <1>6, <2>2, SnapshotType DEF isManagementCluster, Want
  <2>3. CASE ~Wanted("clusterType")
    BY <1>3, <2>1, <2>3 DEF isManagementCluster
  <2> QED BY <2>2, <2>3
<1>8. j >= 11 => /\ Needed("mcNamespaces") => Wanted("mcNamespaces")
                 /\ ~Needed("mcNamespaces") => Want("mcNamespaces") = Reads["mcNamespaces"].zero
  BY <1>7, <1>a, ReadObjects DEF Needed, Wanted, Want, ReadField
<1>9. ASSUME NEW m \in i .. j, m <= 15
      PROVE  /\ Needed(Order[m]) => Wanted(Order[m])
             /\ ~Needed(Order[m]) => Want(Order[m]) = Reads[Order[m]].zero
  <2>1. m \in 1 .. 15 BY <1>9
  <2>2. CASE Order[m] = "clusterType"
    <3>1. j >= 10 BY <2>1, <2>2, OrderPlaces
    <3> QED BY <1>5, <2>2, <3>1
  <2>3. CASE Order[m] = "mcNamespaces"
    <3>1. j >= 11 BY <2>1, <2>3, OrderPlaces
    <3> QED BY <1>8, <2>3, <3>1
  <2> QED BY <1>4, <2>1, <2>2, <2>3
<1>10. ReadUpTo(j)
  <2> SUFFICES ASSUME NEW m \in 1 .. 15
               PROVE  in[Order[m]] = IF m < j THEN Want(Order[m]) ELSE Reads[Order[m]].zero
    BY OrderPlaces DEF ReadUpTo
  <2>1. in[Order[m]] = IF m < i THEN Want(Order[m]) ELSE Reads[Order[m]].zero
    BY OrderPlaces DEF ReadUpTo
  <2>2. CASE m < i BY <2>1, <2>2
  <2>3. CASE m >= i /\ m < j
    <3>1. m \in i .. j - 1 /\ m \in i .. j BY <2>3
    <3>2. Want(Order[m]) = Reads[Order[m]].zero BY <1>9, <3>1
    <3> QED BY <2>1, <2>3, <3>2
  <2>4. CASE m >= j BY <2>1, <2>4
  <2> QED BY <2>2, <2>3, <2>4
<1>11. j \in DOMAIN Order /\ Needed(Order[j]) => Wanted(Order[j])
  BY <1>9, OrderPlaces
<1> QED BY <1>10, <1>11

\* An event that is under way shows.
LEMMA AppendNotEmpty ==
    ASSUME NEW s \in Seq(BOOLEAN)
    PROVE  Append(s, TRUE) # << >>
<1>1. Len(s) \in Nat /\ TRUE \in BOOLEAN OBVIOUS
<1>2. Len(Append(s, TRUE)) = Len(s) + 1 OBVIOUS
<1>3. Len(<< >>) = 0 OBVIOUS
<1> SUFFICES ASSUME Append(s, TRUE) = << >> PROVE FALSE OBVIOUS
<1>4. Len(Append(s, TRUE)) = 0 BY <1>3, Zenon
<1> QED BY <1>1, <1>2, <1>4

\* Two inputs that differ only in what is not used give the same configuration.
LEMMA SameConfig ==
    ASSUME NEW x, NEW y,
           \A k \in Keys \ {"clusterType", "mcNamespaces"} : x[k] = y[k],
           isManagementCluster(x) <=> isManagementCluster(y),
           isManagementCluster(x) => x["mcNamespaces"] = y["mcNamespaces"]
    PROVE  createAlertManagerConfig(x) = createAlertManagerConfig(y)
<1>1. /\ x.pagerdutyKey = y.pagerdutyKey /\ x.cadPagerdutyKey = y.cadPagerdutyKey
      /\ x.snitchURL = y.snitchURL /\ x.goalertLow = y.goalertLow
      /\ x.goalertHigh = y.goalertHigh /\ x.goalertHeartbeat = y.goalertHeartbeat
      /\ x.managedNamespaces = y.managedNamespaces /\ x.ocpNamespaces = y.ocpNamespaces
      /\ x.serviceURL = y.serviceURL /\ x.httpsProxy = y.httpsProxy
      /\ x.clusterID = y.clusterID /\ x.region = y.region
  BY KeysAre
<1>2. parseConfigMaps(x) = parseConfigMaps(y)
  BY <1>1 DEF parseConfigMaps
<1>3. readOCMAgentServiceURLFromConfig(x) = readOCMAgentServiceURLFromConfig(y)
  BY <1>1 DEF readOCMAgentServiceURLFromConfig
<1>4. GoalertWanted(x) <=> GoalertWanted(y) BY <1>1 DEF GoalertWanted
<1>5. createRoutes(x) = createRoutes(y)
  BY <1>1, <1>2, <1>3, <1>4 DEF createRoutes, When
<1>6. createPagerdutyReceivers(x) = createPagerdutyReceivers(y)
  BY <1>1 DEF createPagerdutyReceivers, createPagerdutyConfig
<1>7. createCADPagerdutyReceivers(x) = createCADPagerdutyReceivers(y)
  BY <1>1 DEF createCADPagerdutyReceivers, createPagerdutyConfig
<1>8. createReceivers(x) = createReceivers(y)
  BY <1>1, <1>3, <1>4, <1>6, <1>7
     DEF createReceivers, createGoalertReceivers, createHeartbeatReceivers,
         createWatchdogReceivers, createOCMAgentReceiver
<1> QED BY <1>5, <1>8 DEF createAlertManagerConfig

\* When all reads are made, the configuration is that of the snapshot.
LEMMA AllReadIsSnapshot ==
    ASSUME ReadUpTo(16)
    PROVE  alertmanagerconfig = createAlertManagerConfig(Snapshot)
<1>1. ASSUME NEW k \in Keys PROVE in[k] = Want(k)
  <2>1. PICK m \in 1 .. 15 : Order[m] = k BY OrderPlaces
  <2> QED BY <2>1, OrderPlaces DEF ReadUpTo
<1>2. ASSUME NEW k \in Keys \ {"clusterType", "mcNamespaces"} PROVE in[k] = Snapshot[k]
  BY <1>1 DEF Want, Wanted, Snapshot
<1>3. isManagementCluster(in) <=> isManagementCluster(Snapshot)
  <2>1. in["infrastructureName"] = Snapshot["infrastructureName"] BY <1>2, ReadObjects
  <2>2. in["clusterType"] = Want("clusterType") BY <1>1, ReadObjects
  <2> QED BY <2>1, <2>2, SnapshotType, ReadObjects
          DEF isManagementCluster, Want, Wanted, Empty
<1>4. isManagementCluster(in) => in["mcNamespaces"] = Snapshot["mcNamespaces"]
  BY <1>1, <1>3, ReadObjects DEF Want, Wanted, Snapshot
<1> QED BY <1>2, <1>3, <1>4, SameConfig DEF alertmanagerconfig

\* The two facts above, as formulas that also hold in the next state.
SkipFact ==
    \A i \in 1 .. 16 : \A j \in i .. 16 :
        (/\ clusterReady = ready
         /\ ListedNow(ReadSecret \cup ConfigMap)
         /\ ReadUpTo(i)
         /\ \A m \in i .. j - 1 : ~Needed(Order[m]))
        => /\ ReadUpTo(j)
           /\ j \in DOMAIN Order /\ Needed(Order[j]) => Wanted(Order[j])

SnapshotFact == ReadUpTo(16) => alertmanagerconfig = createAlertManagerConfig(Snapshot)

\* They hold now and in the next state.
LEMMA FactsHold == SkipFact' /\ SnapshotFact'
<1>1. SkipFact BY SkipsUnwanted DEF SkipFact
<1>2. SnapshotFact BY AllReadIsSnapshot DEF SnapshotFact
<1> QED BY <1>1, <1>2, PTL

\* Advance leaves everything before the next call read.
LEMMA AdvanceReads ==
    ASSUME NEW i \in 1 .. 16, Advance(i), (clusterReady = ready)',
           ListedNow(ReadSecret \cup ConfigMap)', ReadUpTo(i)'
    PROVE  \/ pc' = "update" /\ (alertmanagerconfig = createAlertManagerConfig(Snapshot))'
           \/ \E j \in 1 .. 15 : pc' = Order[j] /\ ReadUpTo(j)' /\ Wanted(Order[j])'
<1>1. PICK j \in i .. 16 :
          /\ \A m \in i .. j - 1 : ~Needed(Order[m])'
          /\ \/ j \in DOMAIN Order /\ Needed(Order[j])' /\ pc' = Order[j]
             \/ j = 16 /\ pc' = "update"
  BY OrderPlaces DEF Advance
<1>2. ReadUpTo(j)' /\ (j \in DOMAIN Order /\ Needed(Order[j])' => Wanted(Order[j])')
  BY <1>1, FactsHold DEF SkipFact
<1>3. CASE j = 16 /\ pc' = "update" BY <1>2, <1>3, FactsHold DEF SnapshotFact
<1>4. CASE j \in DOMAIN Order /\ Needed(Order[j])' /\ pc' = Order[j]
  BY <1>2, <1>4, OrderPlaces
<1> QED BY <1>1, <1>3, <1>4

\* What is wanted depends on the objects that are read and the engine's verdict.
LEMMA WantKept ==
    ASSUME UNCHANGED ready, \A o \in Source \ {"other-secret"} : cluster'[o] = cluster[o]
    PROVE  /\ Snapshot' = Snapshot
           /\ \A k \in Keys : Want(k)' = Want(k) /\ (Wanted(k)' <=> Wanted(k))
<1>1. \A k \in Keys : ReadField(k)' = ReadField(k) BY ReadsSources DEF ReadField
<1>2. Snapshot' = Snapshot BY <1>1 DEF Snapshot
<1>3. \A k \in Keys : Wanted(k)' <=> Wanted(k) BY <1>2 DEF Wanted
<1> QED BY <1>1, <1>2, <1>3 DEF Want

(***************************************************************************)
(* The inductive invariant: a Reconcile that nothing has disturbed so far  *)
(* has read, will write or has written what the present cluster asks for.  *)
(***************************************************************************)
Current ==
    /\ pc = "idle" /\ answer # "none" => InSync
    /\ pc = "listConfigMaps" => ListedNow(ReadSecret) /\ listed \cap ConfigMap = {}
    /\ \A i \in 1 .. 15 :
           pc = Order[i] => /\ ListedNow(ReadSecret \cup ConfigMap)
                            /\ ReadUpTo(i)
                            /\ Wanted(Order[i])
    /\ pc \in {"update", "create", "metrics"} => ListedNow(ReadSecret \cup ConfigMap)
    /\ pc \in {"update", "create"} => alertmanagerconfig = createAlertManagerConfig(Snapshot)
    /\ pc = "metrics" => InSync

Early == {"idle", "detect", "isReady", "listSecrets"}

SyncInv ==
    /\ pc \notin {"idle", "detect", "isReady"} => clusterReady = ready
    /\ pc \in Early => listed = {}
    /\ pc \in Early \cup {"listConfigMaps"} => in = NothingRead
    /\ Undisturbed /\ ~stale => Current

\* Returning keeps the parts that do not speak of the cluster.
LEMMA ReturnSync ==
    ASSUME Return, Undisturbed' /\ ~stale' => (answer' # "none" => InSync')
    PROVE  SyncInv'
<1>1. \A i \in 1 .. 15 : pc' # Order[i] BY OrderPlaces, OrderIsOfKeys, KeyNames DEF Return
<1> QED BY <1>1 DEF Return, SyncInv, Current, Early

\* An error leaves a retry behind.
LEMMA ReturnErrorSync ==
    ASSUME ReturnError
    PROVE  SyncInv'
<1>1. ~Undisturbed' BY DEF ReturnError, Undisturbed
<1> QED BY <1>1, ReturnSync DEF ReturnError

\* So does Advance, and it establishes the rest.
LEMMA AdvanceSync ==
    ASSUME NEW i \in 1 .. 16, Advance(i), (clusterReady = ready)',
           Undisturbed' /\ ~stale' =>
              ListedNow(ReadSecret \cup ConfigMap)' /\ ReadUpTo(i)'
    PROVE  SyncInv'
<1>1. pc' \in Keys \cup {"update"} BY AdvanceLeads
<1>2. pc' \notin Early \cup {"listConfigMaps", "create", "metrics"}
  BY <1>1, KeyNames DEF Early
<1>3. ASSUME Undisturbed', ~stale' PROVE Current'
  <2>1. CASE pc' = "update" /\ (alertmanagerconfig = createAlertManagerConfig(Snapshot))'
    <3>1. \A j \in 1 .. 15 : pc' # Order[j] BY <2>1, OrderPlaces, OrderIsOfKeys, KeyNames
    <3> QED BY <1>3, <2>1, <3>1 DEF Current
  <2>2. ASSUME NEW j \in 1 .. 15, pc' = Order[j], ReadUpTo(j)', Wanted(Order[j])'
        PROVE  Current'
    <3>1. \A m \in 1 .. 15 : pc' = Order[m] => m = j BY <2>2, OrderPlaces
    <3>2. pc' # "update" BY <2>2, OrderPlaces, OrderIsOfKeys, KeyNames
    <3> QED BY <1>2, <1>3, <2>2, <3>1, <3>2 DEF Current, Early
  <2> QED BY <1>3, <2>1, <2>2, AdvanceReads
<1> QED BY <1>2, <1>3 DEF SyncInv, Early

\* No step disturbs the invariant: what makes a Reconcile incomplete or outdated
\* leaves a request behind or is noted in stale, which the next Start clears.
LEMMA SyncInvInductive ==
    ASSUME TypeOK, SyncInv, [Next]_vars
    PROVE  SyncInv'
<1> USE DEF clusterVars, queueVars, workerVars, engineVars, bounds
<1>b. ASSUME ~Undisturbed' \/ stale', UNCHANGED <<pc, clusterReady, ready, listed, in>>
      PROVE  SyncInv'
  BY <1>b DEF SyncInv
<1>c. ASSUME UNCHANGED <<amSecret, ready, answer, pc, clusterReady, listed, in>>,
             \A o \in Source \ {"other-secret"} : cluster'[o] = cluster[o],
             Undisturbed' /\ ~stale' => Undisturbed /\ ~stale
      PROVE  SyncInv'
  <2>1. Snapshot' = Snapshot BY <1>c, WantKept
  <2>2. \A i \in 1 .. 15 : /\ ReadUpTo(i)' <=> ReadUpTo(i)
                           /\ Wanted(Order[i])' <=> Wanted(Order[i])
    BY <1>c, WantKept, OrderPlaces, OrderIsOfKeys DEF ReadUpTo
  <2>3. \A o \in ReadSecret \cup ConfigMap : cluster'[o] = cluster[o]
    BY <1>c DEF ReadSecret, ConfigMap, Source
  <2>4. /\ ListedNow(ReadSecret)' <=> ListedNow(ReadSecret)
        /\ ListedNow(ReadSecret \cup ConfigMap)' <=> ListedNow(ReadSecret \cup ConfigMap)
    BY <1>c, <2>3 DEF ListedNow
  <2>5. Current' <=> Current
    BY <1>c, <2>1, <2>2, <2>4 DEF Current, InSync, alertmanagerconfig
  <2> QED BY <1>c, <2>5 DEF SyncInv
<1>d. ASSUME pc' \in {"detect", "isReady", "listSecrets"}, listed' = {}, in' = NothingRead,
             pc' = "listSecrets" => clusterReady' = ready'
      PROVE  SyncInv'
  <2>1. \A i \in 1 .. 15 : pc' # Order[i]
    BY <1>d, OrderPlaces, OrderIsOfKeys, KeyNames
  <2> QED BY <1>d, <2>1 DEF SyncInv, Current, Early
<1>1. ASSUME NEW o \in Mutable, NEW content, ChangeSource(o, content) PROVE SyncInv'
  <2>1. o \in Relevant \/ o \in ClusterScoped \/ o = "other-secret"
    BY ControllerAssumption
       DEF Source, SourceSecret, PagingSecret, ConfigMap, ClusterScoped, Relevant
  <2>2. CASE o \in Relevant
    <3>1. o \in queue' \cap Relevant BY <1>1, <2>2, KeyNames DEF ChangeSource
    <3>2. ~Undisturbed' BY <3>1 DEF Undisturbed
    <3> QED BY <1>1, <1>b, <3>2 DEF ChangeSource
  <2>3. CASE o \in ClusterScoped
    <3>1. stale' BY <1>1, <2>3 DEF ChangeSource
    <3> QED BY <1>1, <1>b, <3>1 DEF ChangeSource
  <2>4. CASE o = "other-secret"
    <3>1. \A p \in Source \ {"other-secret"} : cluster'[p] = cluster[p]
      BY <1>1, <2>4 DEF ChangeSource, TypeOK
    <3>2. o \notin ClusterScoped BY <2>4 DEF ClusterScoped
    <3>3. Undisturbed' => Undisturbed BY <1>1 DEF ChangeSource, Undisturbed
    <3>4. stale' = stale BY <1>1, <3>2 DEF ChangeSource, TypeOK
    <3> QED BY <1>1, <1>c, <3>1, <3>3, <3>4 DEF ChangeSource
  <2> QED BY <2>1, <2>2, <2>3, <2>4
<1>2. ASSUME NEW content, ChangeAlertmanager(content) PROVE SyncInv'
  <2>1. amWatch' = Append(amWatch, content # Absent) /\ amWatch \in Seq(BOOLEAN)
    BY <1>2 DEF ChangeAlertmanager, TypeOK
  <2>2. amWatch' # << >> BY <2>1
  <2> QED BY <1>2, <1>b, <2>2 DEF ChangeAlertmanager, Undisturbed
<1>3. CASE DeliverAlertmanager
  <2>1. alertmanagerMain \in queue' \cap Relevant
    BY <1>3 DEF DeliverAlertmanager, Relevant
  <2>2. ~Undisturbed' BY <2>1 DEF Undisturbed
  <2> QED BY <1>3, <1>b, <2>2 DEF DeliverAlertmanager
<1>4. ASSUME NEW r \in Relevant, Timer(r) PROVE SyncInv'
  <2>1. r \in queue' \cap Relevant BY <1>4 DEF Timer
  <2>2. ~Undisturbed' BY <2>1 DEF Undisturbed
  <2> QED BY <1>4, <1>b, <2>2 DEF Timer
<1>5. ASSUME NEW r, Skip(r) PROVE SyncInv'
  <2>1. queue' \cap Relevant = queue \cap Relevant BY <1>5 DEF Skip
  <2> QED BY <1>5, <1>c, <2>1 DEF Skip, Undisturbed
<1>6. ASSUME NEW r, Start(r) PROVE SyncInv'
  BY <1>6, <1>d DEF Start, SyncInv, Early
<1>7. CASE DetectClusterType
  BY <1>7, <1>d DEF DetectClusterType, SyncInv, Early
<1>8. CASE ReadinessKnown
  BY <1>8, <1>d DEF ReadinessKnown, SyncInv, Early
<1>9. CASE ReadinessFails BY <1>9, ReturnErrorSync DEF ReadinessFails
<1>10. CASE ListSecrets
  <2>1. ~stale' => listed' = {o \in SourceSecret : cluster[o] # Absent}
                                \cup {o \in {alertmanagerMain} : amCached}
    BY <1>10 DEF ListSecrets, List, SyncInv, Early
  <2>2. alertmanagerMain \notin SourceSecret \cup ConfigMap /\ SourceSecret \cap ConfigMap = {}
    BY DEF alertmanagerMain, SourceSecret, PagingSecret, ConfigMap
  <2>3. ~stale' => ListedNow(ReadSecret)' /\ listed' \cap ConfigMap = {}
    BY <1>10, <2>1, <2>2 DEF ListedNow, ListSecrets, List, ReadSecret
  <2>4. \A i \in 1 .. 15 : pc' # Order[i]
    BY <1>10, OrderPlaces, OrderIsOfKeys, KeyNames DEF ListSecrets
  <2> QED BY <1>10, <2>3, <2>4 DEF ListSecrets, List, SyncInv, Current, Early
<1>11. CASE ListConfigMaps
  <2>1. ~stale' => /\ ~stale
                   /\ listed' = listed \cup {o \in ConfigMap : cluster[o] # Absent}
    BY <1>11 DEF ListConfigMaps, List
  <2>2. (clusterReady = ready)' BY <1>11 DEF ListConfigMaps, List, SyncInv
  <2>3. ASSUME Undisturbed', ~stale' PROVE ListedNow(ReadSecret \cup ConfigMap)'
    <3>1. Undisturbed /\ ~stale BY <1>11, <2>1, <2>3 DEF ListConfigMaps, List, Undisturbed
    <3>2. ListedNow(ReadSecret) /\ listed \cap ConfigMap = {}
      BY <1>11, <3>1 DEF ListConfigMaps, SyncInv, Current
    <3>3. ReadSecret \cap ConfigMap = {}
      BY DEF ReadSecret, SourceSecret, PagingSecret, ConfigMap
    <3> QED BY <1>11, <2>1, <2>3, <3>2, <3>3 DEF ListConfigMaps, List, ListedNow
  <2>4. ReadUpTo(1)'
    BY <1>11, OrderPlaces, OrderIsOfKeys
       DEF ListConfigMaps, List, SyncInv, ReadUpTo, NothingRead
  <2> QED BY <1>11, <2>2, <2>3, <2>4, AdvanceSync DEF ListConfigMaps
<1>12. ASSUME NEW i \in DOMAIN Order, Get(i) PROVE SyncInv'
  <2>1. i \in 1 .. 15 /\ Order[i] \in Keys BY OrderPlaces, OrderIsOfKeys
  <2>2. ~stale' => ~stale /\ in' = [in EXCEPT ![Order[i]] = ReadField(Order[i])]
    BY <1>12 DEF Get
  <2>3. (clusterReady = ready)' BY <1>12, <2>1, KeyNames DEF Get, SyncInv
  <2>4. ASSUME Undisturbed', ~stale'
        PROVE  ListedNow(ReadSecret \cup ConfigMap)' /\ ReadUpTo(i + 1)'
    <3>1. Undisturbed /\ ~stale BY <1>12, <2>2, <2>4 DEF Get, Undisturbed
    <3>2. ListedNow(ReadSecret \cup ConfigMap) /\ ReadUpTo(i) /\ Wanted(Order[i])
      BY <1>12, <2>1, <3>1 DEF Get, SyncInv, Current
    <3>3. ListedNow(ReadSecret \cup ConfigMap)' BY <1>12, <3>2 DEF Get, ListedNow
    <3>4. UNCHANGED <<cluster, ready>> BY <1>12 DEF Get
    <3>5. ASSUME NEW m \in 1 .. 15
          PROVE  in'[Order[m]] = IF m < i + 1 THEN Want(Order[m]) ELSE Reads[Order[m]].zero
      <4>1. CASE m = i
        BY <2>1, <2>2, <2>4, <3>2, <4>1 DEF Want, TypeOK
      <4>2. CASE m # i
        <5>1. Order[m] # Order[i] BY <2>1, <4>2, OrderPlaces
        <5>2. in = [k \in Keys |-> in[k]] /\ Order[m] \in Keys
          BY OrderPlaces, OrderIsOfKeys DEF TypeOK
        <5>3. in'[Order[m]] = in[Order[m]] BY <2>2, <2>4, <5>1, <5>2
        <5> QED BY <2>1, <3>2, <4>2, <5>3, OrderPlaces DEF ReadUpTo
      <4> QED BY <4>1, <4>2
    <3>6. ReadUpTo(i + 1)'
      BY <3>4, <3>5, WantKept, OrderPlaces, OrderIsOfKeys DEF ReadUpTo
    <3> QED BY <3>3, <3>6
  <2>5. i + 1 \in 1 .. 16 BY <2>1
  <2> QED BY <1>12, <2>3, <2>4, <2>5, AdvanceSync DEF Get
<1>13. CASE ValidationFails BY <1>13, ReturnErrorSync DEF ValidationFails
<1>14. ASSUME WriteSucceeds, pc \in {"update", "create"} PROVE SyncInv'
  <2>1. \A i \in 1 .. 15 : pc' # Order[i]
    BY <1>14, OrderPlaces, OrderIsOfKeys, KeyNames DEF WriteSucceeds
  <2>2. ASSUME Undisturbed', ~stale' PROVE InSync' /\ ListedNow(ReadSecret \cup ConfigMap)'
    <3>1. amWatch \in Seq(BOOLEAN) BY DEF TypeOK
    <3>2. Append(amWatch, TRUE) # << >> BY <3>1, AppendNotEmpty
    <3>3. Undisturbed /\ ~stale
      BY <1>14, <2>2, <3>2 DEF WriteSucceeds, Store, Undisturbed
    <3>4. alertmanagerconfig = createAlertManagerConfig(Snapshot)
      BY <1>14, <3>3 DEF SyncInv, Current
    <3>5. Snapshot' = Snapshot BY <1>14, WantKept DEF WriteSucceeds
    <3>6. ListedNow(ReadSecret \cup ConfigMap)'
      BY <1>14, <3>3 DEF WriteSucceeds, SyncInv, Current, ListedNow
    <3> QED BY <1>14, <3>4, <3>5, <3>6 DEF WriteSucceeds, Store, InSync
  <2>3. (clusterReady = ready)' BY <1>14 DEF WriteSucceeds, SyncInv
  <2> QED BY <1>14, <2>1, <2>2, <2>3 DEF WriteSucceeds, SyncInv, Current, Early
<1>15. CASE UpdateNotFound
  <2>1. \A i \in 1 .. 15 : pc' # Order[i]
    BY <1>15, OrderPlaces, OrderIsOfKeys, KeyNames DEF UpdateNotFound
  <2>2. Snapshot' = Snapshot BY <1>15, WantKept DEF UpdateNotFound
  <2>3. Undisturbed' /\ ~stale' => Undisturbed /\ ~stale
    BY <1>15 DEF UpdateNotFound, Undisturbed
  <2>4. ListedNow(ReadSecret \cup ConfigMap)' <=> ListedNow(ReadSecret \cup ConfigMap)
    BY <1>15 DEF UpdateNotFound, ListedNow
  <2> QED BY <1>15, <2>1, <2>2, <2>3, <2>4
          DEF UpdateNotFound, SyncInv, Current, Early, alertmanagerconfig
<1>16. CASE CreateAlreadyExists
  BY <1>16, ReturnErrorSync DEF CreateAlreadyExists, WriteReturnsError
<1>17. CASE WriteFails BY <1>17, ReturnErrorSync DEF WriteFails, WriteReturnsError
<1>18. CASE UpdateMetrics
  <2>1. Undisturbed' /\ ~stale' => Undisturbed /\ ~stale
    BY <1>18 DEF UpdateMetrics, ReturnResult, Undisturbed
  <2>2. Undisturbed /\ ~stale => InSync BY <1>18 DEF UpdateMetrics, SyncInv, Current
  <2>3. Snapshot' = Snapshot BY <1>18, WantKept DEF UpdateMetrics
  <2>4. InSync => InSync' BY <1>18, <2>3 DEF UpdateMetrics, InSync
  <2> QED BY <1>18, <2>1, <2>2, <2>4, ReturnSync DEF UpdateMetrics, ReturnResult
<1>19. CASE Restart BY <1>19, ReturnSync DEF Restart, R!Restart
<1>20. CASE UNCHANGED vars BY <1>20, <1>c DEF vars, Undisturbed
<1> QED BY <1>1, <1>2, <1>3, <1>4, <1>5, <1>6, <1>7, <1>8, <1>9, <1>10, <1>11, <1>12,
           <1>13, <1>14, <1>15, <1>16, <1>17, <1>18, <1>19, <1>20
        DEF Next, Worker, Reconcile, Update, Create

\* So it is an invariant.
LEMMA SyncInvariant == Spec => []SyncInv
<1>1. Init => SyncInv
  <2> SUFFICES ASSUME Init PROVE SyncInv OBVIOUS
  <2>1. \A i \in 1 .. 15 : pc # Order[i] BY OrderPlaces, OrderIsOfKeys, KeyNames DEF Init
  <2> QED BY <2>1 DEF Init, R!Init, SyncInv, Current, Early
<1>2. TypeOK /\ SyncInv /\ [Next]_vars => SyncInv' BY SyncInvInductive
<1> QED BY <1>1, <1>2, TypeCorrect, PTL DEF Spec

\* No change is lost: whenever the operator is at rest, alertmanager-main is what
\* the present cluster asks for, however the changes, failing reads and writes and
\* restarts fell between the steps of Reconcile (secret_controller.go:184-297).
\* What rest excludes, a failed read and a change of the ClusterVersion, the
\* Infrastructure or the Proxy since the last Reconcile began, the code does not
\* make up for by itself: see SecretHasReceiver and ClusterTypeChangeReconciled.
THEOREM NoChangeLost == Spec => []SettledInSync
<1>1. SyncInv => SettledInSync
  BY DEF SyncInv, Current, SettledInSync, AtRest, Settled, Undisturbed
<1> QED BY <1>1, SyncInvariant, PTL
================================================================================
