SPECIFICATION Spec
CONSTANTS
    Creates = {c1, c2, c3}
    Nodes = {n1, n2}
    c1 = c1
    c2 = c2
    c3 = c3
    n1 = n1
    n2 = n2
    NoCall = NoCall
    FSTypes = {"", "ext4"}
    Size = 3
    SnapSize = 2
    SnapFs = 1
    Slack = 1
    MaxSize = 6
    PollsVisibility = TRUE
    MetadataLags = TRUE
    FaultKinds = {"abandon", "api"}
    MaxFaults = 4
INVARIANTS
    CapacityDelivered
    PrivateMountAlone
CHECK_DEADLOCK FALSE
