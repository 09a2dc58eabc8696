SPECIFICATION Spec
CONSTANTS
    WebhookURL <- MCWebhookURL
    RequestURI <- MCRequestURI
    BadName <- MCBadName
    IsFedramp = FALSE
    Absent = Absent
    Foreign = Foreign
    States <- MCStates
    InitialCluster <- MCAllNamespaces
    InitialAlertmanager = {Absent, Foreign}
    Mutable = {"version"}
    BadAgeSetting = FALSE
    MaxChanges = 1
    MaxReadErrors = 0
    MaxWriteErrors = 0
    MaxRestarts = 0
CHECK_DEADLOCK FALSE
INVARIANTS
    ClusterTypeChangeReconciled
