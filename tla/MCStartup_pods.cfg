SPECIFICATION FairSpec
CONSTANTS
    Environments <- MCEnvironments
    Granted <- packageRole
    MaxPods = 3
    MaxExits = 2
    MaxCreateErrors = 1
    MaxNodeFailures = 1
CONSTRAINT MCFailures
CHECK_DEADLOCK FALSE
INVARIANTS
    TypeOK
    SingleWriter
    GaugesFromWriter
    ScrapeFindsGauges
PROPERTIES
    EventuallyReconciling
