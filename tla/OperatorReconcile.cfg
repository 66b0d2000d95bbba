SPECIFICATION FairSpec
CONSTANTS
    Configs = {rbac}
    Workloads = {daemonset}
    NoOperand = none
    MaxEdits = 1
    MaxErrors = 2
INVARIANTS TypeOK OwnedUnderFinalizer
PROPERTIES DeletesOwned WorkloadsStopFirst AdoptsOnlyReread DeletionFinishes Converges
