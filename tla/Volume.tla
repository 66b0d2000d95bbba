------------------------------- MODULE Volume -------------------------------
(***************************************************************************)
(* What a controller promises its orchestrator (CO) of one volume: storage *)
(* is prepared until a create is answered, is then never less than the     *)
(* capacity the CO was told of, which only grows, and is gone when the     *)
(* volume is reported deleted, which it is not while snapshots keep it.    *)
(***************************************************************************)
EXTENDS Naturals

VARIABLES phase,     \* what the CO knows: "creating", "created", "deleting", "deleted"
          storage,   \* size of the volume's storage, 0 when there is none
          capacity,  \* capacity of the volume in use, as the CO was told
          kept       \* the volume has snapshots

\* A create may find storage under its name.
Init == phase = "creating" /\ storage \in Nat /\ capacity = 0 /\ kept = FALSE

\* Before it is answered, a create may make, replace and resize the storage.
Prepare ==
    /\ phase = "creating"
    /\ storage' \in Nat
    /\ UNCHANGED <<phase, capacity, kept>>

Provide ==
    /\ phase = "creating" /\ phase' = "created"
    /\ storage' \in Nat /\ capacity' \in 1..storage'
    /\ UNCHANGED kept

\* The storage is resized; in use the CO is told more, but no more than there is.
Resize ==
    /\ phase = "created" \/ (phase = "deleting" /\ storage > 0)
    /\ storage' \in Nat \ {0}
    /\ capacity' \in IF phase = "created" THEN capacity..storage' ELSE {capacity}
    /\ UNCHANGED <<phase, kept>>

Snapshot ==
    /\ phase = "created" \/ (phase = "deleting" /\ kept)
    /\ kept' = ~kept
    /\ UNCHANGED <<phase, storage, capacity>>

Retire ==
    /\ phase = "created" /\ phase' = "deleting"
    /\ capacity' = 0
    /\ UNCHANGED <<storage, kept>>

\* The storage goes, reported or not.
Remove ==
    /\ phase = "deleting" /\ ~kept
    /\ storage' = 0
    /\ phase' \in {"deleting", "deleted"}
    /\ UNCHANGED <<capacity, kept>>

Next == Prepare \/ Provide \/ Resize \/ Snapshot \/ Retire \/ Remove

Spec == Init /\ [][Next]_<<phase, storage, capacity, kept>>
=============================================================================
