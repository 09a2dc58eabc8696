SPECIFICATION Spec
CONSTANTS
    Operator = {etcd}
    Conditions <- MCLivenessConditions
    PromSeries <- MCPromSeries
    AgeSettings <- MCDefaultAge
    Birth = 30
    TickMinutes = 30
    MaxNow = 180
    MaxRestarts = 0
INVARIANTS
    OldClusterDeclaredReady
