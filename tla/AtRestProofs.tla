----------------------------- MODULE AtRestProofs -----------------------------
(***************************************************************************)
(* Proofs about an operator at rest: its gauges are true, the services are *)
(* configured as their Secrets ask, it leaves alone what is in place, and  *)
(* the controller implements ConfigSync.  They rest on the invariants of   *)
(* SecretControllerProofs, SyncInv above all.                              *)
(***************************************************************************)
EXTENDS SecretControllerProofs

(***************************************************************************)
(* What the cache knows of alertmanager-main.                              *)
(***************************************************************************)

\* Of the events under way the last one is right, and without any the cache is.
CacheFollows ==
    /\ amWatch = << >> => (amCached <=> amSecret # Absent)
    /\ amWatch # << >> => (amWatch[Len(amWatch)] <=> amSecret # Absent)

\* The last event of a queue of which the first is taken.
LEMMA LastOfTail ==
    ASSUME NEW s \in Seq(BOOLEAN), s # << >>
    PROVE  /\ Tail(s) = << >> => Head(s) = s[Len(s)]
           /\ Tail(s) # << >> => Tail(s)[Len(Tail(s))] = s[Len(s)]
<1>1. Len(s) \in Nat /\ Len(s) # 0 OBVIOUS
<1>2. Tail(s) \in Seq(BOOLEAN) /\ Len(Tail(s)) = Len(s) - 1 OBVIOUS
<1>3. ASSUME Tail(s) = << >> PROVE Head(s) = s[Len(s)]
  <2>1. Len(<< >>) = 0 OBVIOUS
  <2>2. Len(Tail(s)) = 0 BY Zenon, <1>3, <2>1
  <2>3. \A n \in Nat : n - 1 = 0 => n = 1 OBVIOUS
  <2>4. Len(s) = 1 BY Zenon, <1>1, <1>2, <2>2, <2>3
  <2> QED BY <2>4
<1>4. ASSUME Tail(s) # << >> PROVE Tail(s)[Len(Tail(s))] = s[Len(s)]
  <2>1. Len(Tail(s)) # 0 BY <1>2, <1>4
  <2>2. Len(Tail(s)) \in 1 .. Len(Tail(s)) BY <1>1, <1>2, <2>1
  <2>3. \A i \in 1 .. Len(Tail(s)) : Tail(s)[i] = s[i + 1] BY <1>2
  <2>4. Tail(s)[Len(Tail(s))] = s[Len(Tail(s)) + 1] BY <2>2, <2>3
  <2>5. Len(Tail(s)) + 1 = Len(s) BY <1>1, <1>2
  <2> QED BY <2>4, <2>5
<1> QED BY <1>3, <1>4

\* The last event of a queue to which one is added.
LEMMA LastOfAppend ==
    ASSUME NEW s \in Seq(BOOLEAN), NEW b \in BOOLEAN
    PROVE  /\ Append(s, b) # << >>
           /\ Append(s, b)[Len(Append(s, b))] = b
<1>1. Len(s) \in Nat OBVIOUS
<1>2. Append(s, b) \in Seq(BOOLEAN) /\ Len(Append(s, b)) = Len(s) + 1 OBVIOUS
<1>3. Append(s, b)[Len(s) + 1] = b BY <1>1
<1>4. Append(s, b) # << >>
  <2> SUFFICES ASSUME Append(s, b) = << >> PROVE FALSE OBVIOUS
  <2>1. Len(Append(s, b)) = 0 OBVIOUS
  <2> QED BY <1>1, <1>2, <2>1
<1> QED BY <1>2, <1>3, <1>4

\* A write leaves the right event behind, or needs none.
LEMMA StoreFollows ==
    ASSUME TypeOK, CacheFollows, Store, UNCHANGED amCached, alertmanagerconfig # Absent
    PROVE  CacheFollows'
<1>1. amWatch \in Seq(BOOLEAN) BY DEF TypeOK
<1>2. CASE amSecret = alertmanagerconfig
  <2>1. amSecret' = amSecret /\ amWatch' = amWatch /\ amCached' = amCached
    BY <1>2 DEF Store
  <2> QED BY <2>1 DEF CacheFollows
<1>3. CASE amSecret # alertmanagerconfig
  <2>1. amWatch' = Append(amWatch, TRUE) /\ amSecret' # Absent BY <1>3 DEF Store
  <2>2. amWatch' # << >> /\ amWatch'[Len(amWatch')] = TRUE BY <1>1, <2>1, LastOfAppend
  <2> QED BY <2>1, <2>2 DEF CacheFollows
<1> QED BY <1>2, <1>3

(***************************************************************************)
(* The gauges.                                                             *)
(***************************************************************************)

\* The receivers that gauges report come from the Secrets they are named for.
LEMMA ReceiverKeys ==
    ASSUME NEW x, NEW name \in ReceiverNames(createAlertManagerConfig(x))
    PROVE  /\ name = "pagerduty" => x.pagerdutyKey # Empty
           /\ name = "goalert" => GoalertWanted(x)
           /\ name = "watchdog" => x.snitchURL # Empty
<1>1. PICK r \in createReceivers(x) : r.name = name
  BY DEF ReceiverNames, createAlertManagerConfig
<1>2. CASE r \in createPagerdutyReceivers(x)
  BY <1>1, <1>2 DEF createPagerdutyReceivers, createPagerdutyConfig, receiverNull
<1>3. CASE r \in createCADPagerdutyReceivers(x)
  BY <1>1, <1>3 DEF createCADPagerdutyReceivers, createPagerdutyConfig, receiverNull
<1>4. CASE r \in createGoalertReceivers(x)
  BY <1>1, <1>4 DEF createGoalertReceivers, GoalertWanted, webhookReceiver, receiverNull
<1>5. CASE r \in createHeartbeatReceivers(x)
  BY <1>1, <1>5 DEF createHeartbeatReceivers, webhookReceiver, receiverNull
<1>6. CASE r \in createWatchdogReceivers(x)
  BY <1>1, <1>6 DEF createWatchdogReceivers, webhookReceiver, receiverNull
<1>7. CASE r \in createOCMAgentReceiver(x)
  BY <1>1, <1>7 DEF createOCMAgentReceiver, webhookReceiver, receiverNull
<1>8. CASE r = receiverNull
  BY <1>1, <1>8 DEF receiverNull
<1> QED BY <1>1, <1>2, <1>3, <1>4, <1>5, <1>6, <1>7, <1>8 DEF createReceivers

\* What the snapshot has of a Secret, the Secret has.
LEMMA SnapshotSecrets ==
    /\ Snapshot.pagerdutyKey # Empty => cluster["pd-secret"] # Absent
    /\ Snapshot.goalertLow # Empty => cluster["goalert-secret"] # Absent
    /\ Snapshot.snitchURL # Empty => cluster["dms-secret"] # Absent
<1>1. {"pagerdutyKey", "goalertLow", "snitchURL"} \subseteq Keys BY KeysAre
<1>2. /\ Reads["pagerdutyKey"].object = "pd-secret" /\ Reads["pagerdutyKey"].zero = Empty
      /\ Reads["goalertLow"].object = "goalert-secret" /\ Reads["goalertLow"].zero = Empty
      /\ Reads["snitchURL"].object = "dms-secret" /\ Reads["snitchURL"].zero = Empty
  BY DEF Reads, Read
<1> QED BY <1>1, <1>2 DEF Snapshot, ReadField

(***************************************************************************)
(* The inductive invariant: while nothing disturbs a Reconcile, its Lists  *)
(* agree with what is there, and the gauges of the last one still do.      *)
(***************************************************************************)
GaugesFollow ==
    /\ pc \notin Early => (alertmanagerMain \in listed <=> amCached)
    /\ pc = "metrics" => alertmanagerconfig = amSecret /\ amSecret # Absent
    /\ pc = "idle" /\ answer # "none" => GaugesTrue

GaugeInv ==
    /\ CacheFollows
    /\ Undisturbed /\ ~stale => GaugesFollow

\* The gauges that are set at the end of a Reconcile that nothing disturbed.
LEMMA GaugesSet ==
    ASSUME TypeOK, UpdateMetrics, InSync, ListedNow(ReadSecret \cup ConfigMap),
           alertmanagerMain \in listed, alertmanagerconfig = amSecret,
           gauges["alertmanager_config_validation_failed"] = 0
    PROVE  GaugesTrue'
<1>1. /\ "pd-secret" \in listed <=> cluster["pd-secret"] # Absent
      /\ "goalert-secret" \in listed <=> cluster["goalert-secret"] # Absent
      /\ "dms-secret" \in listed <=> cluster["dms-secret"] # Absent
      /\ "managed-namespaces" \in listed <=> cluster["managed-namespaces"] # Absent
      /\ "ocp-namespaces" \in listed <=> cluster["ocp-namespaces"] # Absent
  BY DEF ListedNow, ReadSecret, SourceSecret, PagingSecret, ConfigMap
<1>2. /\ "pagerduty" \in ReceiverNames(amSecret) => "pd-secret" \in listed
      /\ "goalert" \in ReceiverNames(amSecret) => "goalert-secret" \in listed
      /\ "watchdog" \in ReceiverNames(amSecret) => "dms-secret" \in listed
  BY <1>1, ReceiverKeys, SnapshotSecrets DEF InSync, GoalertWanted
<1>3. /\ Contains("pd-secret", "pagerduty") = One("pagerduty" \in ReceiverNames(amSecret))
      /\ Contains("goalert-secret", "goalert") = One("goalert" \in ReceiverNames(amSecret))
      /\ Contains("dms-secret", "watchdog") = One("watchdog" \in ReceiverNames(amSecret))
  BY <1>2 DEF Contains, One
<1>4. UNCHANGED <<cluster, amSecret>> BY DEF UpdateMetrics, clusterVars
<1>5. \A g \in DOMAIN UpdateSecretsMetrics : gauges'[g] = UpdateSecretsMetrics[g]
  BY DEF UpdateMetrics, UpdateSecretsMetrics, Gauge
<1>6. \A g \in DOMAIN UpdateConfigMapMetrics : gauges'[g] = UpdateConfigMapMetrics[g]
  BY DEF UpdateMetrics, UpdateSecretsMetrics, UpdateConfigMapMetrics, Gauge
<1>7. gauges'["alertmanager_config_validation_failed"] = 0
  BY DEF UpdateMetrics, UpdateSecretsMetrics, UpdateConfigMapMetrics, Gauge
<1>8. /\ gauges'["am_secret_exists"] = 1
      /\ gauges'["pd_secret_exists"] = One(cluster["pd-secret"] # Absent)
      /\ gauges'["ga_secret_exists"] = One(cluster["goalert-secret"] # Absent)
      /\ gauges'["dms_secret_exists"] = One(cluster["dms-secret"] # Absent)
  BY <1>1, <1>5 DEF UpdateSecretsMetrics, One
<1>9. /\ gauges'["am_secret_contains_pd"] = Contains("pd-secret", "pagerduty")
      /\ gauges'["am_secret_contains_ga"] = Contains("goalert-secret", "goalert")
      /\ gauges'["am_secret_contains_dms"] = Contains("dms-secret", "watchdog")
  BY <1>5 DEF UpdateSecretsMetrics
<1>10. /\ gauges'["managed_namespaces_configmap_exists"]
             = One(cluster["managed-namespaces"] # Absent)
       /\ gauges'["ocp_namespaces_configmap_exists"] = One(cluster["ocp-namespaces"] # Absent)
  BY <1>1, <1>6 DEF UpdateConfigMapMetrics, One
<1> QED BY Zenon, <1>3, <1>4, <1>7, <1>8, <1>9, <1>10 DEF GaugesTrue

\* No step disturbs the gauges' invariant.
LEMMA GaugeInvInductive ==
    ASSUME \A x : createAlertManagerConfig(x) # Absent,
           TypeOK, SyncInv, WriteInv, GaugeInv, [Next]_vars
    PROVE  GaugeInv'
<1> USE DEF clusterVars, queueVars, workerVars, engineVars, bounds
<1>a. ASSUME UNCHANGED <<amSecret, amWatch, amCached>> PROVE CacheFollows'
  BY <1>a DEF GaugeInv, CacheFollows
<1>b. alertmanagerconfig # Absent BY DEF alertmanagerconfig
<1>c. ASSUME CacheFollows', ~Undisturbed' \/ stale' PROVE GaugeInv'
  BY <1>c DEF GaugeInv
<1>d. ASSUME UNCHANGED <<amSecret, amWatch, amCached>>, pc' \in Early \ {"idle"} PROVE GaugeInv'
  BY <1>a, <1>d DEF GaugeInv, GaugesFollow, Early
<1>e. ASSUME UNCHANGED <<amSecret, amCached, pc, listed, in, answer, gauges>>, CacheFollows',
             \A o \in ReadSecret \cup ConfigMap : cluster'[o] = cluster[o],
             Undisturbed' /\ ~stale' => Undisturbed /\ ~stale
      PROVE  GaugeInv'
  <2>1. \A o \in {"pd-secret", "goalert-secret", "dms-secret", "managed-namespaces",
                  "ocp-namespaces"} : cluster'[o] = cluster[o]
    BY <1>e DEF ReadSecret, SourceSecret, PagingSecret, ConfigMap
  <2>2. GaugesTrue' <=> GaugesTrue BY <1>e, <2>1 DEF GaugesTrue
  <2>3. GaugesFollow' <=> GaugesFollow BY <1>e, <2>2 DEF GaugesFollow, alertmanagerconfig
  <2> QED BY <1>e, <2>3 DEF GaugeInv
<1>f. ASSUME UNCHANGED <<amSecret, amWatch, amCached>>, ReturnError PROVE GaugeInv'
  <2>1. ~Undisturbed' BY <1>f DEF ReturnError, Undisturbed
  <2> QED BY <1>a, <1>c, <1>f, <2>1
<1>g. ASSUME UNCHANGED <<amSecret, amWatch, amCached, queue, retries, listed>>,
             ~stale' => ~stale, pc \notin Early, pc' \notin Early \cup {"metrics"}
      PROVE  GaugeInv'
  <2>1. Undisturbed' /\ ~stale' => Undisturbed /\ ~stale BY <1>g DEF Undisturbed
  <2> QED BY <1>a, <1>g, <2>1 DEF GaugeInv, GaugesFollow, Early
<1>1. ASSUME NEW o \in Mutable, NEW content, ChangeSource(o, content) PROVE GaugeInv'
  <2>0. CacheFollows' BY <1>1, <1>a DEF ChangeSource
  <2>1. o \in Relevant \/ o \in ClusterScoped \/ o = "other-secret"
    BY ControllerAssumption
       DEF Source, SourceSecret, PagingSecret, ConfigMap, ClusterScoped, Relevant
  <2>2. CASE o \in Relevant
    <3>1. o \in queue' \cap Relevant BY <1>1, <2>2, KeyNames DEF ChangeSource
    <3> QED BY <1>c, <2>0, <3>1 DEF Undisturbed
  <2>3. CASE o \in ClusterScoped BY <1>1, <1>c, <2>0, <2>3 DEF ChangeSource
  <2>4. CASE o = "other-secret"
    <3>1. \A p \in ReadSecret \cup ConfigMap : cluster'[p] = cluster[p]
      BY <1>1, <2>4 DEF ChangeSource, TypeOK, ReadSecret, SourceSecret, PagingSecret, ConfigMap,
                        Source
    <3>2. o \notin ClusterScoped BY <2>4 DEF ClusterScoped
    <3>3. Undisturbed' => Undisturbed BY <1>1 DEF ChangeSource, Undisturbed
    <3>4. stale' = stale BY <1>1, <3>2 DEF ChangeSource, TypeOK
    <3> QED BY <1>1, <1>e, <2>0, <3>1, <3>3, <3>4 DEF ChangeSource
  <2> QED BY <2>1, <2>2, <2>3, <2>4
<1>2. ASSUME NEW content, ChangeAlertmanager(content) PROVE GaugeInv'
  <2>1. amWatch \in Seq(BOOLEAN) /\ (content # Absent) \in BOOLEAN BY DEF TypeOK
  <2>2. amWatch' = Append(amWatch, content # Absent) /\ amSecret' = content
    BY <1>2 DEF ChangeAlertmanager
  <2>3. amWatch' # << >> /\ amWatch'[Len(amWatch')] = (content # Absent)
    BY <2>1, <2>2, LastOfAppend
  <2>4. CacheFollows' BY <2>2, <2>3 DEF CacheFollows
  <2> QED BY <1>c, <2>3, <2>4 DEF Undisturbed
<1>3. CASE DeliverAlertmanager
  <2>1. amWatch \in Seq(BOOLEAN) /\ amWatch # << >> BY <1>3 DEF TypeOK, DeliverAlertmanager
  <2>2. amCached' = Head(amWatch) /\ amWatch' = Tail(amWatch) /\ amSecret' = amSecret
    BY <1>3 DEF DeliverAlertmanager
  <2>3. amWatch[Len(amWatch)] <=> amSecret # Absent BY <2>1 DEF GaugeInv, CacheFollows
  <2>4. /\ amWatch' = << >> => amCached' = amWatch[Len(amWatch)]
        /\ amWatch' # << >> => amWatch'[Len(amWatch')] = amWatch[Len(amWatch)]
    BY <2>1, <2>2, LastOfTail
  <2>5. CacheFollows' BY <2>2, <2>3, <2>4 DEF CacheFollows
  <2>6. alertmanagerMain \in queue' \cap Relevant BY <1>3 DEF DeliverAlertmanager, Relevant
  <2> QED BY <1>c, <2>5, <2>6 DEF Undisturbed
<1>4. ASSUME NEW r \in Relevant, Timer(r) PROVE GaugeInv'
  <2>1. r \in queue' \cap Relevant BY <1>4 DEF Timer
  <2> QED BY <1>4, <1>a, <1>c, <2>1 DEF Timer, Undisturbed
<1>5. ASSUME NEW r, Skip(r) PROVE GaugeInv'
  <2>1. queue' \cap Relevant = queue \cap Relevant BY <1>5 DEF Skip
  <2> QED BY <1>5, <1>a, <1>e, <2>1 DEF Skip, Undisturbed
<1>6. ASSUME NEW r, Start(r) PROVE GaugeInv' BY <1>6, <1>d DEF Start, Early
<1>7. CASE DetectClusterType BY <1>7, <1>d DEF DetectClusterType, Early
<1>8. CASE ReadinessKnown BY <1>8, <1>d DEF ReadinessKnown, Early
<1>9. CASE ReadinessFails BY <1>9, <1>f DEF ReadinessFails
<1>10. CASE ListSecrets
  <2>1. ~stale' => (alertmanagerMain \in listed' <=> amCached)
    BY <1>10 DEF ListSecrets, List, SyncInv, Early, alertmanagerMain, SourceSecret, PagingSecret
  <2>2. pc' \notin {"metrics", "idle"} BY <1>10 DEF ListSecrets
  <2>3. UNCHANGED <<amSecret, amWatch, amCached>> BY <1>10 DEF ListSecrets, List
  <2> QED BY <1>a, <2>1, <2>2, <2>3 DEF GaugeInv, GaugesFollow
<1>11. CASE ListConfigMaps
  <2>1. /\ alertmanagerMain \in listed' <=> alertmanagerMain \in listed
        /\ ~stale' => ~stale
    BY <1>11 DEF ListConfigMaps, List, alertmanagerMain, ConfigMap
  <2>2. pc' \in Keys \cup {"update"} BY <1>11, AdvanceLeads DEF ListConfigMaps
  <2>3. pc' \notin {"metrics", "idle"} /\ pc \notin Early
    BY <1>11, <2>2, KeyNames DEF ListConfigMaps, Early
  <2>4. UNCHANGED <<amSecret, amWatch, amCached, queue, retries>>
    BY <1>11 DEF ListConfigMaps, List
  <2>5. Undisturbed' => Undisturbed BY <2>4 DEF Undisturbed
  <2> QED BY <1>a, <2>1, <2>3, <2>4, <2>5 DEF GaugeInv, GaugesFollow
<1>12. ASSUME NEW i \in DOMAIN Order, Get(i) PROVE GaugeInv'
  <2>1. Order[i] \in Keys /\ i + 1 \in Nat BY OrderIsOfKeys
  <2>2. pc' \in Keys \cup {"update"} BY <1>12, <2>1, AdvanceLeads DEF Get
  <2>3. pc \notin Early /\ pc' \notin Early \cup {"metrics"}
    BY <1>12, <2>1, <2>2, KeyNames DEF Get, Early
  <2> QED BY <1>12, <1>g, <2>3 DEF Get
<1>13. CASE ValidationFails BY <1>13, <1>f DEF ValidationFails
<1>14. ASSUME WriteSucceeds, pc \in {"update", "create"},
              pc = "create" => amSecret = Absent, pc = "update" => amSecret # Absent
       PROVE  GaugeInv'
  <2>1. CacheFollows' BY <1>14, <1>b, StoreFollows DEF WriteSucceeds, GaugeInv
  <2>2. ASSUME Undisturbed', ~stale' PROVE GaugesFollow'
    <3>1. Append(amWatch, TRUE) # << >> BY AppendNotEmpty DEF TypeOK
    <3>2. amSecret = alertmanagerconfig /\ Undisturbed /\ ~stale
      BY <1>14, <2>2, <3>1 DEF WriteSucceeds, Store, Undisturbed
    <3>3. (alertmanagerconfig = amSecret /\ amSecret # Absent)'
      BY <1>14, <1>b DEF WriteSucceeds, Store, alertmanagerconfig
    <3>4. alertmanagerMain \in listed <=> amCached
      BY <1>14, <3>2 DEF GaugeInv, GaugesFollow, Early
    <3> QED BY <1>14, <3>3, <3>4 DEF WriteSucceeds, GaugesFollow
  <2> QED BY <2>1, <2>2 DEF GaugeInv
<1>15. CASE UpdateNotFound BY <1>15, <1>g DEF UpdateNotFound, Early
<1>16. CASE CreateAlreadyExists
  BY <1>16, <1>f DEF CreateAlreadyExists, WriteReturnsError
<1>17. CASE WriteFails
  <2>1. ReturnError /\ UNCHANGED amCached BY <1>17 DEF WriteFails, WriteReturnsError
  <2>2. ~Undisturbed' BY <2>1 DEF ReturnError, Undisturbed
  <2>3. CacheFollows' BY <1>17, <1>a, <1>b, <2>1, StoreFollows DEF WriteFails, GaugeInv
  <2> QED BY <1>c, <2>2, <2>3
<1>18. CASE UpdateMetrics
  <2>1. UNCHANGED <<amSecret, amWatch, amCached>> /\ pc' = "idle"
    BY <1>18 DEF UpdateMetrics, ReturnResult, Return
  <2>2. ASSUME Undisturbed', ~stale' PROVE GaugesTrue'
    <3>1. Undisturbed /\ ~stale
      BY <1>18, <2>2 DEF UpdateMetrics, ReturnResult, Undisturbed
    <3>2. InSync /\ ListedNow(ReadSecret \cup ConfigMap)
      BY <1>18, <3>1 DEF UpdateMetrics, SyncInv, Current
    <3>3. /\ alertmanagerMain \in listed <=> amCached
          /\ alertmanagerconfig = amSecret /\ amSecret # Absent
      BY <1>18, <3>1 DEF UpdateMetrics, GaugeInv, GaugesFollow, Early
    <3>4. amCached BY <3>1, <3>3 DEF GaugeInv, CacheFollows, Undisturbed
    <3>5. gauges["alertmanager_config_validation_failed"] = 0
      BY <1>18 DEF UpdateMetrics, WriteInv
    <3> QED BY <1>18, <3>2, <3>3, <3>4, <3>5, GaugesSet
  <2> QED BY <1>a, <2>1, <2>2 DEF GaugeInv, GaugesFollow, Early
<1>19. CASE Restart
  <2>1. amWatch' = << >> /\ (amCached' <=> amSecret' # Absent) /\ pc' = "idle" /\ answer' = "none"
    BY <1>19 DEF Restart, Return, R!Restart
  <2> QED BY <2>1 DEF GaugeInv, CacheFollows, GaugesFollow, Early
<1>20. CASE UNCHANGED vars BY <1>20, <1>a, <1>e DEF vars, Undisturbed
<1> QED BY <1>1, <1>2, <1>3, <1>4, <1>5, <1>6, <1>7, <1>8, <1>9, <1>10, <1>11, <1>12,
           <1>13, <1>14, <1>15, <1>16, <1>17, <1>18, <1>19, <1>20
        DEF Next, Worker, Reconcile, Update, Create

\* At rest every gauge is true: it tells which of the objects exist, which receivers
\* alertmanager-main has and that the last configuration was good, although all of
\* it was determined before the write (secret_controller.go:238-296, metrics.go).
\* The assumption is that the constant Absent is not itself a configuration.
THEOREM GaugesAreTrue ==
    ASSUME \A x : createAlertManagerConfig(x) # Absent
    PROVE  Spec => []GaugesTruthful
<1>1. Init => GaugeInv
  BY DEF Init, R!Init, GaugeInv, CacheFollows, GaugesFollow, Early
<1>2. TypeOK /\ SyncInv /\ WriteInv /\ GaugeInv /\ [Next]_vars => GaugeInv'
  BY GaugeInvInductive
<1>3. GaugeInv => GaugesTruthful
  BY DEF GaugeInv, GaugesFollow, GaugesTruthful, AtRest, Settled, Undisturbed
<1> QED BY <1>1, <1>2, <1>3, TypeCorrect, SyncInvariant, WriteInvariant, PTL DEF Spec

(***************************************************************************)
(* What the Secrets ask for is configured.                                 *)
(***************************************************************************)

Elements(s) == {s[i] : i \in DOMAIN s}

\* What a concatenation contains.
LEMMA ElementsOfConcat ==
    ASSUME NEW S, NEW s \in Seq(S), NEW t \in Seq(S)
    PROVE  s \o t \in Seq(S) /\ Elements(s \o t) = Elements(s) \cup Elements(t)
<1>1. s \o t \in Seq(S) OBVIOUS
<1>2. Elements(s \o t) \subseteq Elements(s) \cup Elements(t) BY DEF Elements
<1>3. \A i \in DOMAIN s : i \in DOMAIN (s \o t) /\ (s \o t)[i] = s[i] OBVIOUS
<1>4. \A i \in DOMAIN t : Len(s) + i \in DOMAIN (s \o t) /\ (s \o t)[Len(s) + i] = t[i]
  OBVIOUS
<1>5. Elements(s) \subseteq Elements(s \o t) BY <1>3 DEF Elements
<1>6. Elements(t) \subseteq Elements(s \o t) BY <1>4 DEF Elements
<1> QED BY <1>1, <1>2, <1>5, <1>6

\* A route that is appended under a condition.
LEMMA ElementsOfWhen ==
    ASSUME NEW S, NEW s \in Seq(S), NEW condition, NEW route \in S
    PROVE  /\ s \o When(condition, route) \in Seq(S)
           /\ \A r : r \in Elements(s \o When(condition, route))
                        <=> r \in Elements(s) \/ (condition /\ r = route)
<1>1. CASE condition
  <2>1. When(condition, route) = <<route>> BY <1>1 DEF When
  <2> DEFINE t == <<route>>
  <2>2. t \in Seq(S) /\ Elements(t) = {route} BY DEF Elements
  <2> HIDE DEF t
  <2>3. s \o t \in Seq(S) /\ Elements(s \o t) = Elements(s) \cup Elements(t)
    BY Zenon, <2>2, ElementsOfConcat
  <2>4. When(condition, route) = t BY <2>1 DEF t
  <2>5. \A r : r \in Elements(s \o t) <=> r \in Elements(s) \/ (condition /\ r = route)
    BY <1>1, <2>2, <2>3
  <2> QED BY <2>3, <2>4, <2>5
<1>2. CASE ~condition
  <2>1. When(condition, route) = << >> BY <1>2 DEF When
  <2>2. << >> \in Seq(S) /\ Elements(<< >>) = {} BY DEF Elements
  <2> QED BY <1>2, <2>1, <2>2, ElementsOfConcat
<1> QED BY <1>1, <1>2

\* The routes of a configuration, each under its condition.
LEMMA RoutesAre ==
    ASSUME NEW x
    PROVE  \A r : r \in Elements(createRoutes(x)) <=>
               \/ x.snitchURL # Empty /\ r = createWatchdogRoute
               \/ readOCMAgentServiceURLFromConfig(x) # Empty /\ r = createOCMAgentRoute
               \/ x.cadPagerdutyKey # Empty /\ r = createCADPagerdutyRoute
               \/ x.pagerdutyKey # Empty /\ r = createSubroutes(parseConfigMaps(x), "Pagerduty")
               \/ GoalertWanted(x) /\ r = createSubroutes(parseConfigMaps(x), "GoAlert")
               \/ x.goalertHeartbeat # Empty /\ r = createHeartbeatRoute
<1> DEFINE r1 == createWatchdogRoute
           r2 == createOCMAgentRoute
           r3 == createCADPagerdutyRoute
           r4 == createSubroutes(parseConfigMaps(x), "Pagerduty")
           r5 == createSubroutes(parseConfigMaps(x), "GoAlert")
           r6 == createHeartbeatRoute
           S == {r1, r2, r3, r4, r5, r6}
           c1 == x.snitchURL # Empty
           c2 == readOCMAgentServiceURLFromConfig(x) # Empty
           c3 == x.cadPagerdutyKey # Empty
           c4 == x.pagerdutyKey # Empty
           c5 == GoalertWanted(x)
           c6 == x.goalertHeartbeat # Empty
           w1 == When(c1, r1)
           w2 == When(c2, r2)
           w3 == When(c3, r3)
           w4 == When(c4, r4)
           w5 == When(c5, r5)
           w6 == When(c6, r6)
           u1 == << >> \o w1
           u2 == u1 \o w2
           u3 == u2 \o w3
           u4 == u3 \o w4
           u5 == u4 \o w5
           u6 == u5 \o w6
<1>1. createRoutes(x) = u6
  <2>1. w1 = <<r1>> \/ w1 = << >> BY Zenon DEF When
  <2>2. << >> \o w1 = w1 BY <2>1
  <2> HIDE DEF w1, w2, w3, w4, w5, w6
  <2>3. u6 = w1 \o w2 \o w3 \o w4 \o w5 \o w6 BY <2>2
  <2>4. createRoutes(x) = w1 \o w2 \o w3 \o w4 \o w5 \o w6
    BY Zenon DEF createRoutes, w1, w2, w3, w4, w5, w6
  <2> QED BY <2>3, <2>4
<1>2. r1 \in S /\ r2 \in S /\ r3 \in S /\ r4 \in S /\ r5 \in S /\ r6 \in S OBVIOUS
<1> HIDE DEF S, r1, r2, r3, r4, r5, r6, c1, c2, c3, c4, c5, c6
<1>3. << >> \in Seq(S) /\ \A r : r \notin Elements(<< >>) BY DEF Elements
<1>4. /\ u1 \in Seq(S)
      /\ \A r : r \in Elements(u1) <=> r \in Elements(<< >>) \/ (c1 /\ r = r1)
  BY Zenon, <1>2, <1>3, ElementsOfWhen
<1> HIDE DEF u1
<1>5. /\ u2 \in Seq(S)
      /\ \A r : r \in Elements(u2) <=> r \in Elements(u1) \/ (c2 /\ r = r2)
  BY Zenon, <1>2, <1>4, ElementsOfWhen
<1> HIDE DEF u2
<1>6. /\ u3 \in Seq(S)
      /\ \A r : r \in Elements(u3) <=> r \in Elements(u2) \/ (c3 /\ r = r3)
  BY Zenon, <1>2, <1>5, ElementsOfWhen
<1> HIDE DEF u3
<1>7. /\ u4 \in Seq(S)
      /\ \A r : r \in Elements(u4) <=> r \in Elements(u3) \/ (c4 /\ r = r4)
  BY Zenon, <1>2, <1>6, ElementsOfWhen
<1> HIDE DEF u4
<1>8. /\ u5 \in Seq(S)
      /\ \A r : r \in Elements(u5) <=> r \in Elements(u4) \/ (c5 /\ r = r5)
  BY Zenon, <1>2, <1>7, ElementsOfWhen
<1> HIDE DEF u5
<1>9. /\ u6 \in Seq(S)
      /\ \A r : r \in Elements(u6) <=> r \in Elements(u5) \/ (c6 /\ r = r6)
  BY Zenon, <1>2, <1>8, ElementsOfWhen
<1> HIDE DEF u6
<1>10. \A r : r \in Elements(u6) <=>
              \/ c1 /\ r = r1
              \/ c2 /\ r = r2
              \/ c3 /\ r = r3
              \/ c4 /\ r = r4
              \/ c5 /\ r = r5
              \/ c6 /\ r = r6
  BY Zenon, <1>3, <1>4, <1>5, <1>6, <1>7, <1>8, <1>9
<1> QED BY Zenon, <1>1, <1>10 DEF r1, r2, r3, r4, r5, r6, c1, c2, c3, c4, c5, c6

\* The three services are configured under the conditions that the builder names.
LEMMA ServiceConditions ==
    ASSUME NEW x
    PROVE  LET config == createAlertManagerConfig(x)
           IN  /\ "pagerduty" \in ReceiverNames(config) <=> x.pagerdutyKey # Empty
               /\ "goalert" \in ReceiverNames(config) <=> GoalertWanted(x)
               /\ "watchdog" \in ReceiverNames(config) <=> x.snitchURL # Empty
               /\ Routed(config, "pagerduty") <=> x.pagerdutyKey # Empty
               /\ Routed(config, "goalert") <=> GoalertWanted(x)
               /\ Routed(config, "watchdog") <=> x.snitchURL # Empty
<1> DEFINE config == createAlertManagerConfig(x)
           Names(r, name) == name = r.receiver \/ name \in subrouteReceivers(r.table)
<1>1. /\ "pagerduty" \in ReceiverNames(config) => x.pagerdutyKey # Empty
      /\ "goalert" \in ReceiverNames(config) => GoalertWanted(x)
      /\ "watchdog" \in ReceiverNames(config) => x.snitchURL # Empty
  BY ReceiverKeys
<1>2. x.pagerdutyKey # Empty => "pagerduty" \in ReceiverNames(config)
  <2> SUFFICES ASSUME x.pagerdutyKey # Empty PROVE "pagerduty" \in ReceiverNames(config)
    OBVIOUS
  <2>1. PICK r \in createPagerdutyReceivers(x) : r.name = "pagerduty"
    BY DEF createPagerdutyReceivers, createPagerdutyConfig, receiverNull
  <2>2. r \in config.receivers BY <2>1 DEF createAlertManagerConfig, createReceivers
  <2> QED BY <2>1, <2>2 DEF ReceiverNames
<1>3. GoalertWanted(x) => "goalert" \in ReceiverNames(config)
  <2> SUFFICES ASSUME GoalertWanted(x) PROVE "goalert" \in ReceiverNames(config)
    OBVIOUS
  <2> DEFINE r == [receiverNull EXCEPT !.name = "goalert", !.kind = "webhook",
                                       !.target = x.goalertLow, !.proxy = x.httpsProxy]
  <2>1. r \in createGoalertReceivers(x)
    BY DEF createGoalertReceivers, GoalertWanted, webhookReceiver
  <2>2. r.name = "goalert" BY DEF receiverNull
  <2> HIDE DEF r
  <2>3. r \in config.receivers BY <2>1 DEF createAlertManagerConfig, createReceivers
  <2> QED BY <2>2, <2>3 DEF ReceiverNames
<1>4. x.snitchURL # Empty => "watchdog" \in ReceiverNames(config)
  <2> SUFFICES ASSUME x.snitchURL # Empty PROVE "watchdog" \in ReceiverNames(config)
    OBVIOUS
  <2>1. PICK r \in createWatchdogReceivers(x) : r.name = "watchdog"
    BY DEF createWatchdogReceivers, webhookReceiver, receiverNull
  <2>2. r \in config.receivers BY <2>1 DEF createAlertManagerConfig, createReceivers
  <2> QED BY <2>1, <2>2 DEF ReceiverNames
<1>5. \A name : Routed(config, name) <=> \E r \in Elements(createRoutes(x)) : Names(r, name)
  BY DEF Routed, Elements, createAlertManagerConfig
<1>6. /\ \A name \in {"pagerduty", "goalert", "watchdog"} :
             /\ Names(createWatchdogRoute, name) <=> name = "watchdog"
             /\ ~Names(createOCMAgentRoute, name)
             /\ ~Names(createCADPagerdutyRoute, name)
             /\ ~Names(createHeartbeatRoute, name)
      /\ \A list : \A name \in {"pagerduty", "goalert", "watchdog"} :
             /\ Names(createSubroutes(list, "Pagerduty"), name) <=> name = "pagerduty"
             /\ Names(createSubroutes(list, "GoAlert"), name) <=> name = "goalert"
  BY DEF createWatchdogRoute, createOCMAgentRoute, createCADPagerdutyRoute,
         createHeartbeatRoute, labelRoute, createSubroutes, subrouteReceivers, receiverOf, Class
<1> HIDE DEF config, Names
<1>7. /\ Routed(config, "pagerduty") <=> x.pagerdutyKey # Empty
      /\ Routed(config, "goalert") <=> GoalertWanted(x)
      /\ Routed(config, "watchdog") <=> x.snitchURL # Empty
  BY <1>5, <1>6, RoutesAre
<1> QED BY <1>1, <1>2, <1>3, <1>4, <1>7 DEF config

\* At rest PagerDuty, GoAlert and Dead Man's Snitch are in alertmanager-main, with
\* a receiver and a route, exactly if the Secrets now ask for them and, but for the
\* last, the cluster is ready (README.md:21, secret_controller.go:770-815 and
\* 1080-1140), whatever was created, updated or deleted during a Reconcile.
THEOREM ServicesFollowSecrets == Spec => []ReceiversFollowSecrets
<1>1. SettledInSync => ReceiversFollowSecrets
  <2> SUFFICES ASSUME SettledInSync, AtRest,
                      NEW service \in {"pagerduty", "goalert", "watchdog"}
               PROVE  /\ service \in ReceiverNames(amSecret) <=> Asked[service]
                      /\ Routed(amSecret, service) <=> Asked[service]
    BY DEF ReceiversFollowSecrets
  <2>1. amSecret = createAlertManagerConfig(Snapshot) BY DEF SettledInSync, InSync
  <2>2. {"pagerdutyKey", "goalertLow", "goalertHigh", "snitchURL"} \subseteq Keys BY KeysAre
  <2>3. /\ Reads["pagerdutyKey"].zero = Empty
        /\ Reads["goalertLow"].zero = Empty
        /\ Reads["goalertHigh"].zero = Empty
    BY DEF Reads, Read
  <2>4. /\ Snapshot.pagerdutyKey # Empty <=> ready /\ ReadField("pagerdutyKey") # Empty
        /\ Snapshot.goalertLow # Empty <=> ready /\ ReadField("goalertLow") # Empty
        /\ Snapshot.goalertHigh # Empty <=> ready /\ ReadField("goalertHigh") # Empty
        /\ Snapshot.snitchURL = ReadField("snitchURL")
    BY <2>2, <2>3 DEF Snapshot, PagingKey
  <2>5. /\ Asked["pagerduty"] <=> Snapshot.pagerdutyKey # Empty
        /\ Asked["goalert"] <=> GoalertWanted(Snapshot)
        /\ Asked["watchdog"] <=> Snapshot.snitchURL # Empty
    BY <2>4 DEF Asked, GoalertWanted
  <2> QED BY <2>1, <2>5, ServiceConditions
<1> QED BY <1>1, NoChangeLost, PTL

(***************************************************************************)
(* What the steps do to alertmanager-main.                                 *)
(***************************************************************************)

\* Only a write of the operator or a change by somebody else touches it.
LEMMA WhoTouches ==
    ASSUME [Next]_vars
    PROVE  \/ UNCHANGED <<amSecret, amWatch>>
           \/ DeliverAlertmanager
           \/ Restart
           \/ \E content \in {Foreign, Absent} : ChangeAlertmanager(content)
           \/ Store /\ (Update \/ Create \/ WriteFails)
<1> USE DEF clusterVars
<1>1. ASSUME NEW o, NEW content, ChangeSource(o, content) PROVE UNCHANGED <<amSecret, amWatch>>
  BY <1>1 DEF ChangeSource
<1>2. ASSUME NEW r, Timer(r) \/ Skip(r) \/ Start(r) PROVE UNCHANGED <<amSecret, amWatch>>
  BY <1>2 DEF Timer, Skip, Start
<1>3. ASSUME NEW i, Get(i) PROVE UNCHANGED <<amSecret, amWatch>> BY <1>3 DEF Get
<1>4. ASSUME DetectClusterType \/ ReadinessKnown \/ ReadinessFails \/ ListSecrets \/ ListConfigMaps
      PROVE  UNCHANGED <<amSecret, amWatch>>
  BY <1>4 DEF DetectClusterType, ReadinessKnown, ReadinessFails, ListSecrets, ListConfigMaps, List
<1>5. ASSUME ValidationFails \/ UpdateNotFound \/ CreateAlreadyExists \/ UpdateMetrics
      PROVE  UNCHANGED <<amSecret, amWatch>>
  BY <1>5 DEF ValidationFails, UpdateNotFound, CreateAlreadyExists, UpdateMetrics
<1>6. ASSUME Update \/ Create PROVE Store BY <1>6 DEF Update, Create, WriteSucceeds
<1>7. CASE WriteFails BY <1>7 DEF WriteFails
<1>8. CASE UNCHANGED vars BY <1>8 DEF vars
<1> QED BY <1>1, <1>2, <1>3, <1>4, <1>5, <1>6, <1>7, <1>8 DEF Next, Worker, Reconcile

\* An operator that finds everything in place leaves it alone: no poll and no echo
\* of its own write makes it write again, so its events die down by themselves
\* (secret_controller.go:1395-1446).
THEOREM InPlaceIsLeftAlone == Spec => InSyncIsLeftAlone
<1> DEFINE Quiet == (Undisturbed /\ ~stale /\ InSync /\ changes' = changes)
                       => UNCHANGED <<amSecret, amWatch>>
<1>1. TypeOK /\ SyncInv /\ [Next]_vars => [Quiet]_vars
  <2> SUFFICES ASSUME TypeOK, SyncInv, [Next]_vars,
                      Undisturbed, ~stale, InSync, changes' = changes
               PROVE  UNCHANGED <<amSecret, amWatch>>
    OBVIOUS
  <2>1. ASSUME NEW content, ChangeAlertmanager(content) PROVE FALSE
    BY <2>1 DEF ChangeAlertmanager, TypeOK
  <2>2. ~DeliverAlertmanager BY DEF DeliverAlertmanager, Undisturbed
  <2>3. CASE Restart BY <2>3 DEF Restart, Undisturbed
  <2>4. CASE Store /\ (Update \/ Create \/ WriteFails)
    <3>1. pc \in {"update", "create"} BY <2>4 DEF Update, Create, WriteFails
    <3>2. alertmanagerconfig = createAlertManagerConfig(Snapshot)
      BY <3>1 DEF SyncInv, Current
    <3>3. amSecret = alertmanagerconfig BY <3>2 DEF InSync
    <3> QED BY <2>4, <3>3 DEF Store
  <2> QED BY <2>1, <2>2, <2>3, <2>4, WhoTouches
<1> QED BY <1>1, SyncInvariant, TypeCorrect, PTL DEF Spec, InSyncIsLeftAlone

(***************************************************************************)
(* The refinement.                                                         *)
(***************************************************************************)

\* What is demanded changes with a source object, a verdict or a restart only.
LEMMA WhoDemands ==
    ASSUME [Next]_vars
    PROVE  \/ Snapshot' = Snapshot /\ everReady' = everReady
           \/ \E o \in Mutable : \E content \in States[o] \cup {Absent} : ChangeSource(o, content)
           \/ ReadinessKnown
           \/ Restart
<1> USE DEF clusterVars, engineVars
<1>a. ASSUME UNCHANGED <<cluster, ready, everReady>>
      PROVE  Snapshot' = Snapshot /\ everReady' = everReady
  BY <1>a, WantKept
<1>1. ASSUME NEW content, ChangeAlertmanager(content) PROVE UNCHANGED <<cluster, ready, everReady>>
  BY <1>1 DEF ChangeAlertmanager
<1>2. ASSUME NEW r, Timer(r) \/ Skip(r) \/ Start(r) PROVE UNCHANGED <<cluster, ready, everReady>>
  BY <1>2 DEF Timer, Skip, Start
<1>3. ASSUME NEW i, Get(i) PROVE UNCHANGED <<cluster, ready, everReady>> BY <1>3 DEF Get
<1>4. ASSUME DeliverAlertmanager \/ DetectClusterType \/ ListSecrets \/ ListConfigMaps
      PROVE  UNCHANGED <<cluster, ready, everReady>>
  BY <1>4 DEF DeliverAlertmanager, DetectClusterType, ListSecrets, ListConfigMaps, List
<1>5. CASE ReadinessFails
  <2>1. UNCHANGED <<cluster, ready, everReady>> BY <1>5 DEF ReadinessFails, R!Misconfigured
  <2> QED BY <1>a, <2>1
<1>6. ASSUME ValidationFails \/ UpdateNotFound \/ UpdateMetrics
      PROVE  UNCHANGED <<cluster, ready, everReady>>
  BY <1>6 DEF ValidationFails, UpdateNotFound, UpdateMetrics
<1>7. ASSUME Update \/ Create PROVE UNCHANGED <<cluster, ready, everReady>>
  BY <1>7 DEF Update, Create, WriteSucceeds
<1>8. ASSUME CreateAlreadyExists \/ WriteFails PROVE UNCHANGED <<cluster, ready, everReady>>
  BY <1>8 DEF CreateAlreadyExists, WriteFails, WriteReturnsError
<1>9. CASE UNCHANGED vars
  <2>1. UNCHANGED <<cluster, ready, everReady>> BY <1>9 DEF vars
  <2> QED BY <1>a, <2>1
<1> QED BY <1>a, <1>1, <1>2, <1>3, <1>4, <1>5, <1>6, <1>7, <1>8, <1>9
        DEF Next, Worker, Reconcile

\* The controller implements the abstract specification of the operator: whatever
\* changes, fails or restarts, alertmanager-main only ever becomes what somebody
\* else makes of it or a configuration that loads and may page, nothing is written
\* at rest, and rest is reached in sync only (secret_controller.go:184-297 and
\* 1395-1446).
THEOREM Refinement == Spec => ImplementsConfigSync
<1>1. Init => C!Init
  BY ControllerAssumption DEF Init, R!Init, C!Init, AtRest
<1>2. /\ TypeOK /\ WriteInv /\ SettledInSync /\ SettledInSync' /\ PagingOnlyAfterReady'
      /\ [Next]_vars
      => [C!Next]_(C!cvars)
  <2> SUFFICES ASSUME TypeOK, WriteInv, SettledInSync, SettledInSync', PagingOnlyAfterReady',
                      [Next]_vars
               PROVE  C!Next
    OBVIOUS
  <2>1. ASSUME NEW o \in Mutable, NEW content \in States[o] \cup {Absent},
               ChangeSource(o, content)
        PROVE  C!Demand
    <3>1. queue' # {} \/ stale'
      BY <2>1, ControllerAssumption DEF ChangeSource, Watched, Source
    <3>2. ~AtRest' BY <3>1 DEF AtRest, Settled
    <3> QED BY <2>1, <3>2 DEF ChangeSource, engineVars, C!Demand
  <2>2. ASSUME ReadinessKnown PROVE C!Demand
    <3>1. ~AtRest' BY <2>2 DEF ReadinessKnown, AtRest, Settled
    <3>2. (everReady => everReady') /\ UNCHANGED amSecret
      BY <2>2 DEF ReadinessKnown, clusterVars
    <3> QED BY <3>1, <3>2 DEF C!Demand
  <2>3. ASSUME Restart PROVE C!Demand
    <3>1. ~AtRest' BY <2>3 DEF Restart, R!Restart, AtRest
    <3> QED BY <2>3, <3>1 DEF Restart, C!Demand
  <2>4. ASSUME NEW content \in {Foreign, Absent}, ChangeAlertmanager(content),
               Snapshot' = Snapshot, everReady' = everReady
        PROVE  C!Overwrite
    <3>1. amWatch' = Append(amWatch, content # Absent) /\ amSecret' = content
      BY <2>4 DEF ChangeAlertmanager
    <3>2. amWatch \in Seq(BOOLEAN) /\ (content # Absent) \in BOOLEAN BY DEF TypeOK
    <3>3. amWatch' # << >> BY <3>1, <3>2, LastOfAppend
    <3>4. ~AtRest' BY <3>3 DEF AtRest, Settled
    <3> QED BY <2>4, <3>1, <3>4 DEF C!Overwrite
  <2>5. ASSUME Store, Update \/ Create \/ WriteFails,
               Snapshot' = Snapshot, everReady' = everReady
        PROVE  C!Write
    <3>1. pc \in {"update", "create"} BY <2>5 DEF Update, Create, WriteFails
    <3>2. ~AtRest BY <3>1 DEF AtRest, Settled
    <3>3. ~AtRest'
      BY <2>5 DEF Update, Create, WriteSucceeds, WriteFails, WriteReturnsError, ReturnError,
                  AtRest, Settled
    <3>4. Load(alertmanagerconfig) BY <2>5, <3>1 DEF Update, Create, WriteFails, WriteInv
    <3>5. Load(amSecret') BY <2>5, <3>4 DEF Store
    <3>6. Pages(amSecret') => everReady BY <2>5 DEF PagingOnlyAfterReady
    <3> QED BY <2>5, <3>2, <3>3, <3>5, <3>6 DEF C!Write
  <2>6. ASSUME UNCHANGED amSecret, Snapshot' = Snapshot, everReady' = everReady
        PROVE  C!Demand \/ C!Rest
    <3>1. CASE AtRest'
      <4>1. InSync' BY <3>1 DEF SettledInSync
      <4>2. InSync BY <2>6, <4>1 DEF InSync
      <4> QED BY <2>6, <3>1, <4>2 DEF InSync, C!Rest
    <3>2. CASE ~AtRest' BY <2>6, <3>2 DEF C!Demand
    <3> QED BY <3>1, <3>2
  <2>7. DeliverAlertmanager => UNCHANGED amSecret BY DEF DeliverAlertmanager
  <2> QED BY <2>1, <2>2, <2>3, <2>4, <2>5, <2>6, <2>7, WhoTouches, WhoDemands DEF C!Next
<1> QED BY <1>1, <1>2, TypeCorrect, WriteInvariant, NoChangeLost, NoPagingBeforeReady, PTL
        DEF Spec, ImplementsConfigSync, C!Spec
================================================================================
