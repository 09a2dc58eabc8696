---------------------------- MODULE MCAlertRouting ----------------------------
(***************************************************************************)
(* Every configuration that can be built from a small set of inputs, and   *)
(* what becomes of alerts under two of them.                                *)
(***************************************************************************)
EXTENDS AlertRouting

Lists(namespaces, additional) ==
    [valid |-> TRUE, namespaces |-> namespaces, additional |-> additional]

Unparsable == [valid |-> FALSE, namespaces |-> << >>, additional |-> << >>]

MCWebhookURL == {"https://hook"}
MCRequestURI == {"https://hook", "/path"}
MCBadName    == {"bad("}

\* "/path" is a URI but no URL of a webhook; "hook" is neither.
MCURL == {Empty, "https://hook", "/path", "hook"}

\* What each part of the input may be.
MCValues ==
    [pagerdutyKey       |-> {Empty, "key"},
     cadPagerdutyKey    |-> {Empty, "key"},
     snitchURL          |-> {Empty, "https://hook", "hook"},
     goalertLow         |-> {Empty, "https://hook"},
     goalertHigh        |-> {Empty, "https://hook", "hook"},
     goalertHeartbeat   |-> {Empty, "https://hook"},
     managedNamespaces  |-> {EmptyDocument, Unparsable, Lists(<<"a">>, <<"m">>),
                             Lists(<<"a", "bad(">>, <<"m">>)},
     ocpNamespaces      |-> {EmptyDocument, Lists(<<"b">>, << >>)},
     infrastructureName |-> {"unreadable", "other"},
     clusterType        |-> {Empty, "management-cluster"},
     mcNamespaces       |-> {EmptyDocument, Lists(<<"a">>, <<"bad(">>)},
     serviceURL         |-> MCURL,
     httpsProxy         |-> {Empty, "proxy"},
     clusterID          |-> {"id"},
     region             |-> {"region"}]

MCPDRegexOS == {"openshift-machine-api", logging, "openshift-operators", "openshift-storage"}

\* Everything is configured, or PagerDuty alone and no namespaces.
Everything ==
    [pagerdutyKey |-> "key", cadPagerdutyKey |-> "key", snitchURL |-> "https://hook",
     goalertLow |-> "https://hook", goalertHigh |-> "https://hook",
     goalertHeartbeat |-> "https://hook",
     managedNamespaces |-> Lists(<<"a">>, <<"m">>),
     ocpNamespaces |-> Lists(<<"b">>, << >>), infrastructureName |-> "other",
     clusterType |-> Empty, mcNamespaces |-> EmptyDocument,
     serviceURL |-> "https://hook", httpsProxy |-> Empty, clusterID |-> "id",
     region |-> "region"]

PagerdutyAlone ==
    [k \in DOMAIN MCValues |->
        CASE k = "pagerdutyKey" -> "key"
          [] k \in {"managedNamespaces", "ocpNamespaces", "mcNamespaces"} -> EmptyDocument
          [] k = "infrastructureName" -> "other"
          [] k = "clusterID" -> "id"
          [] k = "region" -> "region"
          [] OTHER -> Empty]

MCRoutedInputs == {Everything, PagerdutyAlone}

NoLabels == [label \in Label |-> Empty]

\* Alerts that fire alone: each of them meets some rules of the table and
\* misses others by one label.
MCLoneAlert ==
    {[NoLabels EXCEPT !["alertname"] = a, !["severity"] = s, !["namespace"] = n,
                      !["exported_namespace"] = e, !["prometheus"] = p, !["name"] = m,
                      !["send_managed_notification"] = o, !["route_to_cad"] = c] :
        a \in {"Watchdog", "MachineWithoutValidNode", "TargetDown", "KubeQuotaExceeded",
               "HAProxyReloadFailSRE", "KubeAPILatencyHigh", "NodeClockNotSynchronising",
               "ClusterOperatorDown"},
        s \in {Empty, "none", "info", "warning", "error", "critical"},
        n \in {"openshift-machine-api", logging, "a", "customer"},
        e \in {Empty, "a", "customer", "openshift-storage"},
        p \in {platform, "user"}, m \in {Empty, "master", "monitoring"},
        o \in {Empty, "true"}, c \in {Empty, "true"}}

\* Alerts that fire together: all the names and severities of the inhibit rules.
MCJointAlert ==
    {[NoLabels EXCEPT !["alertname"] = a, !["severity"] = s, !["namespace"] = "a"] :
        a \in {"ClusterOperatorDegraded", "ClusterOperatorDown", "KubeNodeNotReady",
               "KubeNodeUnreachable", "TargetDown", "KubeDeploymentReplicasMismatch",
               "KubePodNotReady", "KubeAPIErrorBudgetBurn", "api-ErrorBudgetBurn"},
        s \in {"info", "warning", "critical"}}
================================================================================
