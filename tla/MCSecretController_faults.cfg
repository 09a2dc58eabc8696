SPECIFICATION Spec
CONSTANTS
    WebhookURL <- MCWebhookURL
    RequestURI <- MCRequestURI
    BadName <- MCBadName
    IsFedramp = FALSE
    Absent = Absent
    Foreign = Foreign
    States <- MCStates
    InitialCluster <- MCBadSnitch
    InitialAlertmanager = {Absent}
    Mutable = {"proxy"}
    BadAgeSetting = TRUE
    MaxChanges = 1
    MaxReadErrors = 1
    MaxWriteErrors = 1
    MaxRestarts = 1
CONSTRAINT MCFaults
CHECK_DEADLOCK FALSE
INVARIANTS
    TypeOK
    PagingOnlyAfterReady
    ReadinessIsPolled
    FailureIsRetried
    GaugesTruthful
PROPERTIES
    LastKnownGoodKept
    ImplementsConfigSync
    InSyncIsLeftAlone
