SPECIFICATION FairSpec
CONSTANTS
    Environments <- MCLocal
    Granted <- documentedRole
    MaxPods = 1
    MaxExits = 0
    MaxCreateErrors = 1
    MaxNodeFailures = 0
CHECK_DEADLOCK FALSE
PROPERTIES
    OperatorAttemptsWrites
