SPECIFICATION FairSpec
CONSTANTS
    Creates = {c1, c2}
    Nodes = {n1, n2}
    c1 = c1
    c2 = c2
    n1 = n1
    n2 = n2
    NoCall = NoCall
    FSTypes = {"", "ext4"}
    Size = 2
    SnapSize = 0
    SnapFs = 0
    Slack = 1
    MaxSize = 3
    PollsVisibility = TRUE
    MetadataLags = TRUE
    FaultKinds = {"command", "crash", "abandon", "lower"}
    MaxFaults = 3
INVARIANTS
    DeletedIsGone
    SnapshotsKeepFile
PROPERTIES
    ImplementsVolume
    CreateSucceeds
CHECK_DEADLOCK FALSE
