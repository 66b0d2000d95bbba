SPECIFICATION FairSpec
CONSTANTS
    Creates = {c1}
    Restores = {r1}
    Deletes = {d1}
    Nesteds = {}
    Publishes = {}
    c1 = c1
    r1 = r1
    d1 = d1
    controller = controller
    node = node
    NoOp = NoOp
    Ops <- MCOps
    Procs <- MCProcs
    Kind <- MCKind
    Proc <- MCProc
    Inherited <- AnyMount
    ShareMayVanish = FALSE
    ProbesMayTimeOut = TRUE
INVARIANTS
    RefsCounted
    WorkOnShare
PROPERTIES
    ImplementsSharedMount
    EveryCallReturns
