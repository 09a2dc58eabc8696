SPECIFICATION Spec
CONSTANTS
    Operator = {etcd}
    Conditions <- MCConditions
    PromSeries <- MCPromSeries
    AgeSettings <- MCDefaultAge
    Birth = 30
    TickMinutes = 30
    MaxNow = 60
    MaxRestarts = 0
PROPERTIES
    ReadyMeansNotProgressing
