SPECIFICATION Spec
CONSTANTS
    WebhookURL <- MCWebhookURL
    RequestURI <- MCRequestURI
    BadName <- MCBadName
    IsFedramp = FALSE
    Absent = Absent
    Foreign = Foreign
    States <- MCStates
    InitialCluster <- MCWithoutPaging
    InitialAlertmanager = {Absent, Foreign}
    Mutable = {"pd-secret"}
    BadAgeSetting = FALSE
    MaxChanges = 1
    MaxReadErrors = 1
    MaxWriteErrors = 0
    MaxRestarts = 0
CHECK_DEADLOCK FALSE
INVARIANTS
    SecretHasReceiver
