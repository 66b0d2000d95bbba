SPECIFICATION FairSpec
CONSTANTS
    Calls = {a, b}
    Names = {s1, s2}
    Volumes = {file, share}
    FileBacked = {file}
    ByPath = {file}
    Nodes = {n1}
    a = a
    b = b
    s1 = s1
    s2 = s2
    n1 = n1
    file = file
    share = share
    None = None
    MaxSnaps = 2
    FaultKinds = {"cancel", "anvil", "lookup", "exec", "restart"}
    MaxFaults = 2
INVARIANTS
    TypeOK
    SameNameSameSnapshot
    AnswerIsRight
    QuiescedWhileHeld
    NoneLeftFrozen
PROPERTY
    ThawsEventually
CHECK_DEADLOCK FALSE
