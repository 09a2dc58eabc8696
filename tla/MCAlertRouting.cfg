SPECIFICATION Spec
CONSTANTS
    WebhookURL <- MCWebhookURL
    RequestURI <- MCRequestURI
    BadName <- MCBadName
    IsFedramp = FALSE
    PDRegexOS <- MCPDRegexOS
    PDRegexLP = {"redhat-x"}
    PDRegexKube = {"kube-system"}
    MasterName = {"master"}
    SREName = {"HAProxyReloadFailSRE"}
    IBMMount = {"/var/lib/ibmc-s3fs"}
    Values <- MCValues
    RoutedInputs <- MCRoutedInputs
    LoneAlert <- MCLoneAlert
    JointAlert <- MCJointAlert
    MaxFiring = 3
INVARIANTS
    UsableInputLoadsInv
    WatchdogReachesMonitorsInv
    ManagedNotificationsDoNotPageInv
    MasterLossIsCriticalInv
    CustomersDoNotPageInv
    TablesAgreeInv
    NeverAllInhibitedInv
