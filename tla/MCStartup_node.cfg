SPECIFICATION Spec
CONSTANTS
    Environments <- MCElection
    Granted <- packageRole
    MaxPods = 2
    MaxExits = 0
    MaxCreateErrors = 0
    MaxNodeFailures = 1
CHECK_DEADLOCK FALSE
INVARIANTS
    OneActiveInstance
