SPECIFICATION Spec
CONSTANTS
    Creates = {c1, c2, c3}
    Nodes = {n1, n2}
    c1 = c1
    c2 = c2
    c3 = c3
    n1 = n1
    n2 = n2
    NoCall = NoCall
    FSTypes = {"", "xfs"}
    Size = 3
    SnapSize = 2
    SnapFs = 1
    Slack = 1
    MaxSize = 4
    PollsVisibility = TRUE
    MetadataLags = TRUE
    FaultKinds = {"command", "crash", "abandon", "api", "probe", "lower"}
    MaxFaults = 4
INVARIANTS
    TypeOK
    RawCapacityDelivered
PROPERTY
    NoDataLoss
CHECK_DEADLOCK FALSE
