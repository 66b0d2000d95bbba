--------------------------- MODULE MCBackingMount ---------------------------
(* Instances of BackingMount: a set of calls of each kind. Publishes run in  *)
(* the node process, all other calls in the controller process.              *)
EXTENDS BackingMount, TLC

CONSTANTS Creates, Restores, Deletes, Nesteds, Publishes, controller, node

MCOps == Creates \cup Restores \cup Deletes \cup Nesteds \cup Publishes

MCKind ==
    [o \in MCOps |-> CASE o \in Creates -> "create"
                       [] o \in Restores -> "restore"
                       [] o \in Deletes -> "delete"
                       [] o \in Nesteds -> "nested"
                       [] o \in Publishes -> "publish"]

MCProc == [o \in MCOps |-> IF o \in Publishes THEN node ELSE controller]
MCProcs == {MCProc[o] : o \in MCOps}

\* A fresh host, and one where an earlier driver left a mount behind.
NoMount == {<<>>}
AnyMount == {<<>>, <<"current">>, <<"foreign">>}
=============================================================================
