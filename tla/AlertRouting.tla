----------------------------- MODULE AlertRouting -----------------------------
(***************************************************************************)
(* What becomes of an alert under the configuration the operator writes:   *)
(* the rule table of createSubroutes and the inhibit rules of              *)
(* createAlertManagerConfig, under Alertmanager's way of matching them.    *)
(*                                                                         *)
(* An alert is a function from labels to strings; a label it lacks is the  *)
(* empty string, as it is to Alertmanager.  A matcher, equality or regular *)
(* expression, is the set of the values it accepts, and a rule with        *)
(* several matchers a record of them.  Neighbouring rules of one receiver  *)
(* that differ in one value are one rule here, which accepts all of their  *)
(* values: between them the order makes no difference.                     *)
(***************************************************************************)
EXTENDS AlertmanagerConfig, Integers, FiniteSets

CONSTANTS
    PDRegexOS, PDRegexLP, PDRegexKube, \* namespaces each default expression accepts
    MasterName,     \* machine names with "-master-" in them (secret_controller.go:350)
    SREName,        \* alert names that end in SRE (:413)
    IBMMount,       \* mount points below /var/lib/ibmc-s3fs (:476)
    Values,         \* what each part of the operator's input may be
    RoutedInputs,   \* bound: the inputs under which alerts are looked at
    LoneAlert,      \* alerts that fire alone
    JointAlert,     \* alerts that fire together
    MaxFiring       \* bound: how many of them

Label ==
    {"alertname", "severity", "namespace", "exported_namespace", "prometheus", "name",
     "reason", "job", "cluster", "mountpoint", "node", "instance", "dummylabel",
     "send_managed_notification", "route_to_cad"}

Alert == [Label -> STRING]

\* The parts of the input; the names in a document are names of namespaces.
DocumentField == {"managedNamespaces", "ocpNamespaces", "mcNamespaces"}

StringField ==
    {"pagerdutyKey", "cadPagerdutyKey", "snitchURL", "goalertLow", "goalertHigh",
     "goalertHeartbeat", "infrastructureName", "clusterType", "serviceURL", "httpsProxy",
     "clusterID", "region"}

InputField == DocumentField \cup StringField

IsDocument(document) ==
    /\ document = [valid |-> document.valid, namespaces |-> document.namespaces,
                   additional |-> document.additional]
    /\ document.valid \in BOOLEAN
    /\ \A names \in {document.namespaces, document.additional} :
           names \in Seq(STRING) /\ \A i \in DOMAIN names : names[i] # Empty

ASSUME RoutingAssumption ==
    /\ \A values \in {PDRegexOS, PDRegexLP, PDRegexKube, MasterName, SREName, IBMMount} :
           /\ values \subseteq STRING
           /\ Empty \notin values
    /\ DOMAIN Values = InputField
    /\ \A k \in InputField : Values[k] # {}
    /\ \A k \in DocumentField : \A document \in Values[k] : IsDocument(document)
    /\ \A k \in StringField : Values[k] \subseteq STRING
    /\ LoneAlert \subseteq Alert /\ JointAlert \subseteq Alert

platform == "openshift-monitoring/k8s"
logging  == "openshift-logging"

--------------------------------------------------------------------------------
(* The rule table. *)

Rule(class, on) == [class |-> class, on |-> on]

\* The heartbeat alert is none of this table's business; the loss of a master
\* and an etcd that is running full come before anything that silences.
criticalRules ==
    << Rule("null", [alertname |-> {"Watchdog"}, severity |-> {"none"}]),
       Rule("critical", [alertname |-> {"MachineWithoutValidNode", "MachineWithNoRunningPhase"},
                         namespace |-> {"openshift-machine-api"}, name |-> MasterName]),
       Rule("critical", [alertname |-> {"etcdDatabaseQuotaLowSpace"},
                         severity |-> {"warning"}]) >>

\* Silenced whatever they are about, by name, namespace or severity.
silenceRules ==
    << Rule("null", [alertname |-> {"CannotRetrieveUpdates"}]),
       Rule("null", [send_managed_notification |-> {"true"}]),
       Rule("null", [alertname |-> {"KubeQuotaExceeded", "KubeQuotaFullyUsed",
                "CPUThrottlingHigh", "NodeFilesystemSpaceFillingUp",
                "NodeFilesystemFilesFillingUp", "NodeFilesystemAlmostOutOfSpace",
                "NodeFilesystemAlmostOutOfFiles", "NodeFileDescriptorLimit"}]),
       Rule("null", [namespace |-> {"openshift-customer-monitoring", "openshift-operators",
                "openshift-storage", "openshift-compliance"}]),
       Rule("null", [exported_namespace |-> {"openshift-storage", "openshift-operators"}]),
       Rule("null", [namespace |-> {"openshift-operators-redhat"}]),
       Rule("null", [alertname |-> {"CustomResourceDetected", "ImagePruningDisabled"}]),
       Rule("null", [severity |-> {"info"}]),
       Rule("null", [namespace |-> {"openshift-user-workload-monitoring"}]),
       Rule("null", [alertname |-> {"KubePersistentVolumeFillingUp"},
                     namespace |-> {logging}]),
       Rule("null", [alertname |-> {"PodDisruptionBudgetLimit"}]),
       Rule("null", [alertname |-> {"TargetDown"}, namespace |-> PDRegexLP]),
       Rule("null", [alertname |-> {"KubeJobFailed"}]) >>

\* The alerts of fluentd, Elasticsearch, vector and Loki.
LoggingAlert ==
    {"FluentDHighErrorRate", "FluentDVeryHighErrorRate", "FluentdNodeDown",
     "FluentdQueueLengthIncreasing", "AggregatedLoggingSystemCPUHigh",
     "ElasticsearchClusterNotHealthy", "ElasticsearchDiskSpaceRunningLow",
     "ElasticsearchHighFileDescriptorUsage", "ElasticsearchJVMHeapUseHigh",
     "ElasticsearchNodeDiskWatermarkReached", "ElasticsearchOperatorCSVNotSuccessful",
     "ElasticsearchProcessCPUHigh", "ElasticsearchWriteRequestsRejectionJumps",
     "ClusterLogForwarderRuntimeConfigurationMissingUnmatched",
     "ClusterLogForwarderOutputErrorRate", "CollectorNodeDown", "CollectorHighErrorRate",
     "CollectorVeryHighErrorRate", "LokiRequestErrors", "LokiStackWriteRequestErrors",
     "LokiStackReadRequestErrors", "LokiRequestPanics", "LokiRequestLatency",
     "LokiTenantRateLimit", "LokiStorageSlowWrite", "LokiStorageSlowRead",
     "LokiWritePathHighLoad", "LokiReadPathHighLoad"}

\* In openshift-logging only the SRE's own alerts pass.
loggingRules ==
    << Rule("common", [alertname |-> SREName, namespace |-> {logging}]),
       Rule("null", [alertname |-> LoggingAlert, namespace |-> {logging}]),
       Rule("null", [alertname |-> {"FluentdNodeDown"}, prometheus |-> {platform}]) >>

laterSilenceRules ==
    << Rule("null", [alertname |-> {"HAProxyReloadFail"}, severity |-> {"critical"}]),
       Rule("null", [alertname |-> {"PrometheusRuleFailures"}]),
       Rule("null", [alertname |-> {"ClusterOperatorDegraded", "ClusterOperatorDown"},
                     name |-> {"authentication"},
                     reason |-> {"IdentityProviderConfig_Error",
                                 "OAuthServerConfigObservation_Error"}]),
       Rule("null", [alertname |-> {"FluentdQueueLengthBurst"}, namespace |-> {logging},
                     severity |-> {"warning"}]),
       Rule("null", [alertname |-> {"ClusterAutoscalerUnschedulablePods"},
                     namespace |-> {"openshift-machine-api"}]),
       Rule("null", [severity |-> {"alert"}]),
       Rule("null", [alertname |-> {"MultipleDefaultStorageClasses"},
                     namespace |-> {"openshift-cluster-storage-operator"}]),
       Rule("null", [alertname |-> {"NodeFilesystemAlmostOutOfSpace"},
                     severity |-> {"critical"}, mountpoint |-> IBMMount]) >>

\* Rules that change the severity, pass on or silence, as they come.
mixedRules ==
    << Rule("warning", [alertname |-> {"KubeAPILatencyHigh"}, severity |-> {"critical"}]),
       Rule("warning", [alertname |-> {"etcdGRPCRequestsSlow"},
                        namespace |-> {"openshift-etcd"}]),
       Rule("null", [alertname |-> {"etcdMembersDown"}, namespace |-> {"openshift-etcd"}]),
       Rule("warning", [alertname |-> {"ExtremelyHighIndividualControlPlaneCPU"},
                        namespace |-> {"openshift-kube-apiserver"}]),
       Rule("warning", [severity |-> {"critical"},
                        namespace |-> {"openshift-deployment-validation-operator"}]),
       Rule("error", [alertname |-> {"NodeClockNotSynchronising"},
                      prometheus |-> {platform}]),
       Rule("common", [job |-> {"fluentd"}, prometheus |-> {platform}]),
       Rule("common", [cluster |-> {"elasticsearch"}, prometheus |-> {platform}]),
       Rule("null", [alertname |-> {"KubeAPIErrorBudgetBurn"}, prometheus |-> {platform}]),
       Rule("null", [alertname |-> {"HAProxyDown", "CertificateIsAboutToExpire"}]),
       Rule("null", [alertname |-> {"ClusterOperatorDown"}, name |-> {"insights"}]) >>
       \o When(~IsFedramp, Rule("null", [alertname |-> {"ClusterOperatorDown"},
                                         name |-> {"monitoring"}]))

\* Mutant of fixedRules: what silences comes first.
SilenceFirst ==
    silenceRules \o criticalRules \o loggingRules \o laterSilenceRules \o mixedRules

fixedRules ==
    criticalRules \o silenceRules \o loggingRules \o laterSilenceRules \o mixedRules

\* The namespaces that an element of the namespace list accepts.
acceptedNamespaces(namespace) ==
    IF namespace[1] = "exactly" THEN {namespace[2]}
    ELSE [PDRegexOS |-> PDRegexOS, PDRegexLP |-> PDRegexLP,
          PDRegexKube |-> PDRegexKube][namespace[2]]

\* Mutant of originatesIn: what is exported from elsewhere counts as well.
NamespaceAlone(namespace) ==
    [namespace |-> acceptedNamespaces(namespace), exported_namespace |-> STRING,
     prometheus |-> {platform}]

\* The alert is about the namespace itself, not about one it exports.
originatesIn(namespace) ==
    [namespace |-> acceptedNamespaces(namespace), exported_namespace |-> {Empty},
     prometheus |-> {platform}]

\* Mutant of withSeverity: the matcher for what is exported gets lost.
WithSeverityAnywhere(on, severity) ==
    [namespace |-> on.namespace, exported_namespace |-> STRING,
     prometheus |-> on.prometheus, severity |-> {severity}]

withSeverity(on, severity) ==
    [namespace |-> on.namespace, exported_namespace |-> on.exported_namespace,
     prometheus |-> on.prometheus, severity |-> {severity}]

namespaceRules(namespace, type) ==
    IF type = "GoAlert"
    THEN << Rule("critical", withSeverity(originatesIn(namespace), "critical")),
            Rule("error",    withSeverity(originatesIn(namespace), "error")),
            Rule("warning",  withSeverity(originatesIn(namespace), "warning")) >>
    ELSE << Rule("common", [exported_namespace |-> acceptedNamespaces(namespace),
                            prometheus |-> {platform}]),
            Rule("common", originatesIn(namespace)) >>

\* The whole table: the fixed rules, then those of each namespace in turn.
subroutes(namespaceList, type) ==
    LET n == IF type = "GoAlert" THEN 3 ELSE 2
    IN  fixedRules \o
        [j \in 1 .. n * Len(namespaceList) |->
            namespaceRules(namespaceList[1 + ((j - 1) \div n)], type)[1 + ((j - 1) % n)]]

--------------------------------------------------------------------------------
(* Inhibition. *)

InhibitRule(source, target, equal) == [source |-> source, target |-> target, equal |-> equal]

\* Mutant of warningTarget: the expression names the wrong severity.
CriticalTarget == [severity |-> {"critical"}]

\* What a warning inhibits.
warningTarget == [severity |-> {"info"}]

inhibitRules ==
    { InhibitRule([severity |-> {"critical"}], [severity |-> {"warning", "info"}],
                  {"namespace", "alertname"}),
      InhibitRule([severity |-> {"warning"}], warningTarget,
                  {"namespace", "alertname"}),
      InhibitRule([alertname |-> {"ClusterOperatorDegraded"}, severity |-> {"critical"}],
                  [alertname |-> {"ClusterOperatorDown"}], {"namespace", "name"}),
      InhibitRule([alertname |-> {"KubeNodeNotReady"}],
                  [alertname |-> {"KubeNodeUnreachable"}], {"node", "instance"}),
      InhibitRule([alertname |-> {"KubeNodeUnreachable"}],
                  [alertname |-> {"SDNPodNotReady", "TargetDown"}], {}),
      InhibitRule([alertname |-> {"KubeNodeNotReady"}],
                  [alertname |-> {"KubeDaemonSetRolloutStuck", "KubeDaemonSetMisScheduled",
                                  "KubeDeploymentReplicasMismatch",
                                  "KubeStatefulSetReplicasMismatch", "KubePodNotReady"}],
                  {"instance"}),
      InhibitRule([alertname |-> {"KubeDeploymentReplicasMismatch"}],
                  [alertname |-> {"KubePodNotReady", "KubePodCrashLooping"}], {"namespace"}),
      InhibitRule([alertname |-> {"ElasticsearchOperatorCSVNotSuccessful"}],
                  [alertname |-> {"ElasticsearchClusterNotHealthy"}], {"dummylabel"}),
      InhibitRule([alertname |-> {"KubeAPIErrorBudgetBurn"}],
                  [alertname |-> {"api-ErrorBudgetBurn"}], {"severity"}) }

--------------------------------------------------------------------------------
(* Alertmanager: matching, dispatch and inhibition. *)

Meets(on, alert) == \A label \in DOMAIN on : alert[label] \in on[label]

\* The first rule that matches decides; without one the route's own receiver,
\* which is the null receiver, does.
Decide(rules, alert) ==
    LET matching == {i \in DOMAIN rules : Meets(rules[i].on, alert)}
    IN  IF matching = {} THEN "null"
        ELSE rules[CHOOSE i \in matching : \A j \in matching : i <= j].class

\* The labels that the top-level routes look at.
TopLevel(alert) ==
    {label \in {"Watchdog"} : alert["alertname"] = "Watchdog"}
    \cup {label \in {"send_managed_notification", "route_to_cad"} : alert[label] = "true"}

\* The receiver a top-level route hands the alert to.
Handler(route, alert) ==
    IF route.table = "none" THEN route.receiver
    ELSE receiverOf(route.table)[Decide(subroutes(route.namespaces, route.table), alert)]

Deliveries(config, alert) ==
    {Handler(config.routes[i], alert) :
        i \in {j \in DOMAIN config.routes : Visits(config, TopLevel(alert), j)}}

\* Alerts on both sides of one rule do not inhibit each other by it.
Inhibits(source, target) ==
    \E rule \in inhibitRules :
        /\ Meets(rule.source, source) /\ Meets(rule.target, target)
        /\ ~(Meets(rule.source, target) /\ Meets(rule.target, source))
        /\ \A label \in rule.equal : source[label] = target[label]

Inhibited(alert, firing) == \E source \in firing : Inhibits(source, alert)

--------------------------------------------------------------------------------
(* Properties of every configuration, and of every alert or set of alerts.   *)

\* The alert stops in front of the two tables.
TakenOver(config, alert) ==
    Deliveries(config, alert) \cap {"ocmagent", "cad-pagerduty"} # {}

TerminatedMaster(alert) ==
    /\ alert["alertname"] \in {"MachineWithoutValidNode", "MachineWithNoRunningPhase"}
    /\ alert["namespace"] = "openshift-machine-api"
    /\ alert["name"] \in MasterName

\* "indications that master nodes have been terminated should be critical"
\* (secret_controller.go:348): whatever else the alert carries, no silencing
\* rule of either table catches it first.
MasterLossIsCritical(config, alert) ==
    (TerminatedMaster(alert) /\ ~TakenOver(config, alert)) =>
        /\ "pagerduty" \in ReceiverNames(config)
              => "make-it-critical" \in Deliveries(config, alert)
        /\ "goalert" \in ReceiverNames(config)
              => "goalert-high" \in Deliveries(config, alert)

\* What an alert is about: the namespace exported through it, or its own.
Subject(alert) ==
    IF alert["exported_namespace"] # Empty THEN alert["exported_namespace"]
    ELSE alert["namespace"]

Managed(alert, namespaceList) ==
    \E i \in DOMAIN namespaceList : Subject(alert) \in acceptedNamespaces(namespaceList[i])

\* A rule that passes the alert on, whatever its namespace is.
NamedInTable(alert) ==
    \E i \in DOMAIN fixedRules :
        fixedRules[i].class # "null" /\ Meets(fixedRules[i].on, alert)

TablePages ==
    (subrouteReceivers("Pagerduty") \cup subrouteReceivers("GoAlert")) \ {"null"}

\* Trouble in a customer's namespace pages nobody, even when a managed namespace
\* reports it: only the alerts named in the table are passed on from everywhere.
CustomersDoNotPage(config, alert) ==
    \A i \in DOMAIN config.routes :
        (config.routes[i].table # "none" /\ Visits(config, TopLevel(alert), i)
            /\ Handler(config.routes[i], alert) \in TablePages)
        => Managed(alert, config.routes[i].namespaces) \/ NamedInTable(alert)

\* The two tables agree.  GoAlert is told nothing that PagerDuty is not told;
\* and what PagerDuty is told GoAlert is told too, but for the alerts that are
\* exported or have none of the severities it is set up for.
TablesAgree(namespaceList, alert) ==
    LET pagerduty == Decide(subroutes(namespaceList, "Pagerduty"), alert)
        goalert   == Decide(subroutes(namespaceList, "GoAlert"), alert)
    IN  /\ goalert # "null" => pagerduty # "null"
        /\ (pagerduty # "null" /\ goalert = "null") =>
              \/ alert["exported_namespace"] # Empty
              \/ alert["severity"] \notin {"critical", "error", "warning"}

\* Inhibition never goes round in a circle: of the alerts that fire, one is
\* always left to be notified about.
NeverAllInhibited(firing) == firing # {} => \E alert \in firing : ~Inhibited(alert, firing)

--------------------------------------------------------------------------------
(* The cluster: what the operator reads changes, alerts start and stop firing. *)

VARIABLES
    input,      \* what the operator has read
    firing      \* the alerts that fire

vars == <<input, firing>>

TypeOK ==
    /\ input = [k \in InputField |-> input[k]]
    /\ \A k \in InputField : input[k] \in Values[k]
    /\ firing \subseteq Alert

Init ==
    /\ input = [k \in InputField |-> CHOOSE value \in Values[k] : TRUE]
    /\ firing = {}

\* One part of the input is another one at the next Reconcile.
ReadAnew(k, value) ==
    /\ firing = {}
    /\ input' = [input EXCEPT ![k] = value]
    /\ UNCHANGED firing

FireAlone ==
    /\ input \in RoutedInputs
    /\ firing = {}
    /\ \E alert \in LoneAlert : firing' = {alert}
    /\ UNCHANGED input

FireJointly ==
    /\ input \in RoutedInputs
    /\ firing \subseteq JointAlert
    /\ Cardinality(firing) < MaxFiring
    /\ \E alert \in JointAlert : firing' = firing \cup {alert}
    /\ UNCHANGED input

Resolve ==
    /\ \E alert \in firing : firing' = firing \ {alert}
    /\ UNCHANGED input

Next ==
    \/ \E k \in InputField : \E value \in Values[k] : ReadAnew(k, value)
    \/ FireAlone \/ FireJointly \/ Resolve

Spec == Init /\ [][Next]_vars

\* Alertmanager accepts what is built from usable input.
UsableInputLoadsInv == UsableInputLoads(input)

\* The heartbeat alert reaches Dead Man's Snitch and GoAlert's monitor.
WatchdogReachesMonitorsInv == WatchdogReachesMonitors(input)

\* What the OCM Agent handles is not handed to a paging receiver as well.
ManagedNotificationsDoNotPageInv == ManagedNotificationsDoNotPage(input)

\* A terminated master is a critical alert to both tables.
MasterLossIsCriticalInv ==
    \A alert \in firing : MasterLossIsCritical(createAlertManagerConfig(input), alert)

\* Trouble in a customer's namespace pages nobody.
CustomersDoNotPageInv ==
    \A alert \in firing : CustomersDoNotPage(createAlertManagerConfig(input), alert)

\* GoAlert is told what PagerDuty is told, with the exceptions that are known.
TablesAgreeInv == \A alert \in firing : TablesAgree(parseConfigMaps(input), alert)

\* Of the alerts that fire one is not inhibited.
NeverAllInhibitedInv == NeverAllInhibited(firing)
================================================================================
