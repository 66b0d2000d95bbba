SPECIFICATION FairSpec
CONSTANTS
    Configs = {rbac}
    Workloads = {daemonset}
    NoOperand = none
    MaxEdits = 1
    MaxErrors = 2
PROPERTY NeverAdopts
