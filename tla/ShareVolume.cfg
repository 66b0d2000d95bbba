SPECIFICATION FairSpec
CONSTANTS
    Size = 1
    MaxSize = 4
    MaxFaults = 4
    MaxQueue = 4
INVARIANTS CapacityDelivered DeletedIsGone
PROPERTIES ImplementsVolume SnapshotsKeepShare CreateSucceeds DeleteSucceeds
CHECK_DEADLOCK FALSE
