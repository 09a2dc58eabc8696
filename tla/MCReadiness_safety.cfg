SPECIFICATION FairSpec
CONSTANTS
    Operator = {etcd, dns}
    Conditions <- MCConditions
    PromSeries <- MCPromSeries
    AgeSettings <- MCAgeSettings
    Birth = 30
    TickMinutes = 30
    MaxNow = 180
    MaxRestarts = 1
INVARIANTS
    TypeOK
    ReadyStopsPolling
    KnownOldClusterIsReady
PROPERTIES
    ImplementsInterface
    EventuallyReady
