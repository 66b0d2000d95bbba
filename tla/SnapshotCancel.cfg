SPECIFICATION Spec
CONSTANTS
    Calls = {a, b}
    Names = {s1, s2}
    Volumes = {file}
    FileBacked = {file}
    ByPath = {file}
    Nodes = {n1}
    a = a
    b = b
    s1 = s1
    s2 = s2
    n1 = n1
    file = file
    None = None
    MaxSnaps = 2
    FaultKinds = {"cancel"}
    MaxFaults = 1
INVARIANT
    CancelThaws
