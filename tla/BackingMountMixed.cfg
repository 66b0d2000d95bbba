SPECIFICATION Spec
CONSTANTS
    Creates = {c1}
    Restores = {}
    Deletes = {}
    Nesteds = {n1}
    Publishes = {u1}
    c1 = c1
    n1 = n1
    u1 = u1
    controller = controller
    node = node
    NoOp = NoOp
    Ops <- MCOps
    Procs <- MCProcs
    Kind <- MCKind
    Proc <- MCProc
    Inherited <- AnyMount
    ShareMayVanish = TRUE
    ProbesMayTimeOut = TRUE
INVARIANTS
    TypeOK
    ReplaceExclusive
