SPECIFICATION FairSpec
CONSTANTS
    WebhookURL <- MCWebhookURL
    RequestURI <- MCRequestURI
    BadName <- MCBadName
    IsFedramp = FALSE
    Absent = Absent
    Foreign = Foreign
    States <- MCStates
    InitialCluster <- MCPaging
    InitialAlertmanager = {Absent}
    Mutable = {"dms-secret", "proxy"}
    BadAgeSetting = FALSE
    MaxChanges = 1
    MaxReadErrors = 0
    MaxWriteErrors = 1
    MaxRestarts = 0
CHECK_DEADLOCK FALSE
PROPERTIES
    ComesToRest
    RequestLeadsToSync
