SPECIFICATION Spec
CONSTANTS
    WebhookURL <- MCWebhookURL
    RequestURI <- MCRequestURI
    BadName <- MCBadName
    IsFedramp = FALSE
    Absent = Absent
    Foreign = Foreign
    States <- MCStates
    InitialCluster <- MCManagementCluster
    InitialAlertmanager = {Absent}
    Mutable = {"goalert-secret", "managed-namespaces"}
    BadAgeSetting = FALSE
    MaxChanges = 2
    MaxReadErrors = 0
    MaxWriteErrors = 0
    MaxRestarts = 1
CONSTRAINT MCDisturbances
CHECK_DEADLOCK FALSE
INVARIANTS
    SettledInSync
    GaugesTruthful
    ReceiversFollowSecrets
