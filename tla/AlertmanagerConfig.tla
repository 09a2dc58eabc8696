-------------------------- MODULE AlertmanagerConfig --------------------------
(***************************************************************************)
(* How the operator turns what it read from the cluster into an            *)
(* Alertmanager configuration: the pure half of                            *)
(* controllers/secret_controller.go, with the types of                     *)
(* pkg/types/alertmanagerconfig.go.                                        *)
(*                                                                         *)
(* A value read from a Secret, a ConfigMap or a cluster object is a string;*)
(* Empty is the zero value, which is also what a key that is missing, or   *)
(* an object that could not be read, yields.  Receivers form a set (their  *)
(* order means nothing to Alertmanager), the routes below the root form a  *)
(* sequence (theirs does).                                                 *)
(***************************************************************************)
EXTENDS Sequences, Naturals

CONSTANTS
    WebhookURL,     \* values Alertmanager accepts as the URL of a webhook
    RequestURI,     \* values url.ParseRequestURI accepts
    BadName,        \* namespace names that make "^name$" a bad regular expression
    IsFedramp       \* config.IsFedramp()

Empty == ""

ASSUME ConfigAssumption ==
    /\ IsFedramp \in BOOLEAN
    /\ Empty \notin WebhookURL
    /\ Empty \notin RequestURI

--------------------------------------------------------------------------------
(* Receivers. *)

\* A receiver with no notifier of its own; the other receivers extend it.
receiverNull ==
    [name |-> "null", kind |-> "none", target |-> Empty, severity |-> Empty,
     clusterID |-> Empty, region |-> Empty, proxy |-> Empty]

webhookReceiver(name, url, clusterProxy) ==
    IF url = Empty THEN {}
    ELSE {[receiverNull EXCEPT !.name = name, !.kind = "webhook",
                               !.target = url, !.proxy = clusterProxy]}

\* The severity is taken from the alert unless the receiver overrides it.
createPagerdutyConfig(name, severity, routingKey, in) ==
    [receiverNull EXCEPT
        !.name = name, !.kind = "pagerduty", !.target = routingKey,
        !.severity = severity, !.proxy = in.httpsProxy,
        !.clusterID = IF IsFedramp THEN Empty ELSE in.clusterID,
        !.region    = IF IsFedramp THEN Empty ELSE in.region]

createPagerdutyReceivers(in) ==
    IF in.pagerdutyKey = Empty THEN {}
    ELSE {createPagerdutyConfig("pagerduty", "of the alert", in.pagerdutyKey, in),
          createPagerdutyConfig("make-it-warning", "warning", in.pagerdutyKey, in),
          createPagerdutyConfig("make-it-error", "error", in.pagerdutyKey, in),
          createPagerdutyConfig("make-it-critical", "critical", in.pagerdutyKey, in)}

createCADPagerdutyReceivers(in) ==
    IF in.cadPagerdutyKey = Empty THEN {}
    ELSE {createPagerdutyConfig("cad-pagerduty", "of the alert", in.cadPagerdutyKey, in)}

\* Mutant of GoalertWanted: one URL is enough.
GoalertPartly(in) == in.goalertLow # Empty \/ in.goalertHigh # Empty

\* GoAlert is configured only when both of its URLs are known.
GoalertWanted(in) == in.goalertLow # Empty /\ in.goalertHigh # Empty

createGoalertReceivers(in) ==
    IF GoalertWanted(in)
    THEN webhookReceiver("goalert", in.goalertLow, in.httpsProxy)
            \cup webhookReceiver("goalert-high", in.goalertHigh, in.httpsProxy)
    ELSE {}

createHeartbeatReceivers(in) ==
    webhookReceiver("goalert-heartbeat", in.goalertHeartbeat, in.httpsProxy)

createWatchdogReceivers(in) ==
    webhookReceiver("watchdog", in.snitchURL, in.httpsProxy)

\* The service URL is dropped when it is no URI; it is reached without a proxy.
readOCMAgentServiceURLFromConfig(in) ==
    IF in.serviceURL \in RequestURI THEN in.serviceURL ELSE Empty

createOCMAgentReceiver(in) ==
    webhookReceiver("ocmagent", readOCMAgentServiceURLFromConfig(in), Empty)

--------------------------------------------------------------------------------
(* Namespaces.  A regular expression is <<"exactly", name>> for "^name$", or *)
(* <<"default", which>> for the three built-in ones.                         *)

defaultNamespaces ==
    << <<"default", "PDRegexOS">>, <<"default", "PDRegexLP">>,
       <<"default", "PDRegexKube">> >>

\* The content of a *-namespaces ConfigMap: whether it parses, and its lists.
EmptyDocument == [valid |-> TRUE, namespaces |-> << >>, additional |-> << >>]

Anchored(names) == [i \in DOMAIN names |-> <<"exactly", names[i]>>]

parseNamespaceConfigMap(document) ==
    IF document.valid THEN Anchored(document.namespaces) ELSE << >>

parseMCNamespaceConfigMap(document) ==
    IF document.valid THEN Anchored(document.additional) ELSE << >>

\* isManagementCluster with the default its callers apply when it fails:
\* an Infrastructure that cannot be read counts as a management cluster.
isManagementCluster(in) ==
    \/ in.infrastructureName = "unreadable"
    \/ in.infrastructureName = "hs-mc"
    \/ in.clusterType = "management-cluster"

\* The namespaces of management clusters come from a second read of the
\* managed-namespaces ConfigMap; the default list has no room for them.
parseConfigMaps(in) ==
    LET managed == parseNamespaceConfigMap(in.managedNamespaces)
        ocp     == parseNamespaceConfigMap(in.ocpNamespaces)
        mc      == IF isManagementCluster(in)
                   THEN parseMCNamespaceConfigMap(in.mcNamespaces) ELSE << >>
    IN  IF managed = << >> \/ ocp = << >> THEN defaultNamespaces
        ELSE managed \o ocp \o mc

--------------------------------------------------------------------------------
(* Routes: children of the root route, tried in order.  An alert leaves a    *)
(* matching route for the next one only if the route says "continue".        *)

\* A leaf that sends the alerts with one label to one receiver.
labelRoute(receiver, label, continue) ==
    [receiver |-> receiver, match |-> label, continue |-> continue,
     table |-> "none", namespaces |-> << >>]

\* Mutant of createWatchdogRoute: it does not continue.
WatchdogStops          == labelRoute("watchdog", "Watchdog", FALSE)

\* Mutant of createOCMAgentRoute: it continues.
OCMAgentContinues      == labelRoute("ocmagent", "send_managed_notification", TRUE)

createWatchdogRoute    == labelRoute("watchdog", "Watchdog", TRUE)
createHeartbeatRoute   == labelRoute("goalert-heartbeat", "Watchdog", TRUE)
createOCMAgentRoute    == labelRoute("ocmagent", "send_managed_notification", FALSE)
createCADPagerdutyRoute == labelRoute("cad-pagerduty", "route_to_cad", FALSE)

\* What the rules of createSubroutes call common, critical and so on.
Class == {"common", "critical", "error", "warning", "null"}

receiverOf(type) ==
    IF type = "GoAlert"
    THEN [common |-> "goalert", critical |-> "goalert-high", error |-> "goalert-high",
          warning |-> "goalert", null |-> "null"]
    ELSE [common |-> "pagerduty", critical |-> "make-it-critical",
          error |-> "make-it-error", warning |-> "make-it-warning", null |-> "null"]

subrouteReceivers(table) ==
    IF table = "none" THEN {} ELSE {receiverOf(table)[class] : class \in Class}

\* The rule table is given by the receiver type and the namespaces; module
\* AlertRouting has the rules.
createSubroutes(namespaceList, type) ==
    [receiver |-> "null", match |-> "any", continue |-> TRUE,
     table |-> type, namespaces |-> namespaceList]

When(condition, route) == IF condition THEN <<route>> ELSE << >>

createRoutes(in) ==
    When(in.snitchURL # Empty, createWatchdogRoute)
    \o When(readOCMAgentServiceURLFromConfig(in) # Empty, createOCMAgentRoute)
    \o When(in.cadPagerdutyKey # Empty, createCADPagerdutyRoute)
    \o When(in.pagerdutyKey # Empty, createSubroutes(parseConfigMaps(in), "Pagerduty"))
    \o When(GoalertWanted(in), createSubroutes(parseConfigMaps(in), "GoAlert"))
    \o When(in.goalertHeartbeat # Empty, createHeartbeatRoute)

createReceivers(in) ==
    createWatchdogReceivers(in) \cup createOCMAgentReceiver(in)
    \cup createCADPagerdutyReceivers(in) \cup createPagerdutyReceivers(in)
    \cup createGoalertReceivers(in) \cup createHeartbeatReceivers(in)
    \cup {receiverNull}

\* The configuration; its global section, its root route and its inhibit rules
\* are the same whatever was read.
createAlertManagerConfig(in) ==
    [routes |-> createRoutes(in), receivers |-> createReceivers(in)]

--------------------------------------------------------------------------------
(* Alertmanager's own check, config.Load(), as far as it can refuse what     *)
(* createAlertManagerConfig builds.                                          *)

ReceiverNames(config) == {r.name : r \in config.receivers}

\* Receiver names are unique, and every receiver a route names exists.
WellFormed(config) ==
    /\ \A r, s \in config.receivers : r.name = s.name => r = s
    /\ "null" \in ReceiverNames(config)
    /\ \A i \in DOMAIN config.routes :
           {config.routes[i].receiver} \cup subrouteReceivers(config.routes[i].table)
               \subseteq ReceiverNames(config)

URLsAccepted(config) ==
    \A r \in config.receivers : r.kind = "webhook" => r.target \in WebhookURL

RegexesCompile(config) ==
    \A i \in DOMAIN config.routes :
        \A j \in DOMAIN config.routes[i].namespaces :
            config.routes[i].namespaces[j][1] = "exactly"
                => config.routes[i].namespaces[j][2] \notin BadName

Load(config) == WellFormed(config) /\ URLsAccepted(config) /\ RegexesCompile(config)

--------------------------------------------------------------------------------
(* What the top level of the routing tree does with an alert, given as the   *)
(* set of the labels above that it carries.                                  *)

Matches(route, alert) == route.match = "any" \/ route.match \in alert

\* Route i sees the alert: it matches, and no earlier match stopped it.
Visits(config, alert, i) ==
    /\ Matches(config.routes[i], alert)
    /\ \A j \in 1 .. i - 1 :
           Matches(config.routes[j], alert) => config.routes[j].continue

\* The routes, by their receiver, that the alert is handed to.
Reaches(config, alert) ==
    {config.routes[i].receiver :
        i \in {j \in DOMAIN config.routes : Visits(config, alert, j)}}

--------------------------------------------------------------------------------
(* Properties of every configuration the operator can build. *)

\* The URLs and names that end up in the configuration are usable.
UsableInput(in) ==
    /\ {in.snitchURL, in.goalertHeartbeat, readOCMAgentServiceURLFromConfig(in)}
           \subseteq WebhookURL \cup {Empty}
    /\ Empty \in {in.goalertLow, in.goalertHigh}
           \/ {in.goalertLow, in.goalertHigh} \subseteq WebhookURL
    /\ \A document \in {in.managedNamespaces, in.ocpNamespaces} :
           \A i \in DOMAIN document.namespaces : document.namespaces[i] \notin BadName
    /\ \A i \in DOMAIN in.mcNamespaces.additional :
           in.mcNamespaces.additional[i] \notin BadName

\* Alertmanager accepts whatever the operator builds from usable input: no
\* combination of present and absent Secrets yields a route without its
\* receiver or two receivers of one name (secret_controller.go:770-815).
UsableInputLoads(in) == UsableInput(in) => Load(createAlertManagerConfig(in))

\* The heartbeat alert reaches both monitors that may be configured for it,
\* Dead Man's Snitch and GoAlert, whatever else is configured around and
\* between their routes.
WatchdogReachesMonitors(in) ==
    LET reached == Reaches(createAlertManagerConfig(in), {"Watchdog"})
    IN  /\ in.snitchURL # Empty => "watchdog" \in reached
        /\ in.goalertHeartbeat # Empty => "goalert-heartbeat" \in reached

\* What the OCM Agent handles is handed to nobody behind it, so it never pages.
ManagedNotificationsDoNotPage(in) ==
    LET config == createAlertManagerConfig(in)
    IN  "ocmagent" \in ReceiverNames(config)
            => \A alert \in SUBSET {"send_managed_notification", "route_to_cad", "Watchdog"} :
                  "send_managed_notification" \in alert
                      => Reaches(config, alert) \subseteq {"ocmagent", "watchdog"}
================================================================================
