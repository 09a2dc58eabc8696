-------------------------- MODULE MCSecretController --------------------------
(***************************************************************************)
(* Values for the constants of SecretController.                           *)
(***************************************************************************)
EXTENDS SecretController

MCWebhookURL == {"https://one", "https://two"}
MCRequestURI == MCWebhookURL \cup {"/path"}
MCBadName    == {"bad("}

Namespaces(namespaces, additional) ==
    [document |-> [valid |-> TRUE, namespaces |-> namespaces, additional |-> additional]]

Goalert(low, high, heartbeat) ==
    [GOALERT_URL_LOW |-> low, GOALERT_URL_HIGH |-> high, GOALERT_HEARTBEAT |-> heartbeat]

\* Two versions of the GoAlert Secret share no URL, and the first has no
\* heartbeat, so that a mixture of them is neither.
MCStates ==
    [o \in Source |->
        CASE o = "pd-secret"      -> {[PAGERDUTY_KEY |-> "key"]}
          [] o = "cad-pd-secret"  -> {[CAD_PAGERDUTY_KEY |-> "cad"]}
          [] o = "goalert-secret" -> {Goalert("https://one", "https://one", Empty),
                                      Goalert("https://two", Empty, "https://two")}
          [] o = "dms-secret"     -> {[SNITCH_URL |-> "https://one"], [SNITCH_URL |-> "snitch"]}
          [] o = "other-secret"   -> {[token |-> "t"]}
          [] o = "managed-namespaces" -> {Namespaces(<<"a">>, <<"m">>)}
          [] o = "ocp-namespaces" -> {Namespaces(<<"b">>, << >>)}
          [] o = "ocm-agent"      -> {[serviceURL |-> "https://one"], [serviceURL |-> "/path"]}
          [] o = "version"        -> {[clusterID |-> "id", clusterType |-> Empty],
                                      [clusterID |-> "id", clusterType |-> "management-cluster"]}
          [] o = "infrastructure" -> {[name |-> "other", region |-> "region"],
                                      [name |-> "hs-mc", region |-> "region"]}
          [] o = "proxy"          -> {[httpsProxy |-> "proxy"]}]

\* A cluster with the given objects, each in the given state.
With(objects) ==
    [o \in Source |-> IF o \in DOMAIN objects THEN objects[o] ELSE Absent]

Base == [version        |-> [clusterID |-> "id", clusterType |-> Empty],
         infrastructure |-> [name |-> "other", region |-> "region"]]

Plus(objects, o, state) ==
    [p \in DOMAIN objects \cup {o} |-> IF p = o THEN state ELSE objects[p]]

WithPD == Plus(Base, "pd-secret", [PAGERDUTY_KEY |-> "key"])

\* The initial clusters of the runs.
MCWithoutPaging == {With(Base)}
MCPaging     == {With(WithPD)}
MCBadSnitch  == {With(WithPD), With(Plus(Base, "dms-secret", [SNITCH_URL |-> "snitch"]))}
MCNamespaces == {With(Plus(WithPD, "ocp-namespaces", Namespaces(<<"b">>, << >>)))}
MCManagementCluster ==
    {[With(Base) EXCEPT !["infrastructure"].name = "hs-mc",
                        !["goalert-secret"] = Goalert("https://one", "https://one", Empty),
                        !["ocp-namespaces"] = Namespaces(<<"b">>, << >>)]}
MCAllNamespaces ==
    {[c EXCEPT !["managed-namespaces"] = Namespaces(<<"a">>, <<"m">>)] : c \in MCNamespaces}

\* Bound: changes and restarts together.
MCDisturbances == changes + restarts <= 2

\* Bound: changes, failures and restarts together.
MCFaults == changes + readErrors + writeErrors + restarts <= 2
================================================================================
