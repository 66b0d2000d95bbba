------------------------- MODULE OperatorReconcile -------------------------
(***************************************************************************)
(* The operator's reconciliation of the one HammerspaceCSIDriver resource  *)
(* (CR) and the objects rendered from it, its operands: accounts, RBAC and *)
(* configuration first, then the controller and node workloads.            *)
(*                                                                         *)
(* Leader election leaves one reconciler, which runs Reconcile every 15    *)
(* seconds.  Everything else in the cluster goes on meanwhile: users       *)
(* create, edit and delete the CR, others create and delete objects with   *)
(* the operands' names, workloads change their health, requests fail, the  *)
(* operator restarts.                                                      *)
(*                                                                         *)
(* UIDs and resource versions are abstracted to whether what the           *)
(* reconciler read is still there (same) and still unchanged (fresh).      *)
(***************************************************************************)
EXTENDS Integers, FiniteSets

CONSTANTS
    Configs,      \* operands that are no workloads
    Workloads,    \* StatefulSet and DaemonSet
    NoOperand,    \* no operand is being worked on
    MaxEdits,     \* bound on edits of the CR
    MaxErrors     \* bound on failed requests and restarts

Operands == Configs \cup Workloads

ASSUME OperandAssumption ==
    /\ IsFiniteSet(Operands) /\ Configs \cap Workloads = {} /\ NoOperand \notin Operands
ASSUME BoundAssumption == MaxEdits \in Nat /\ MaxErrors \in Nat

VARIABLES
    cr,         \* the CR: "absent", "present", or "deleting"
    finalizer,  \* the CR carries the operator's finalizer
    valid,      \* ParseSpec accepts the CR
    secretOk,   \* the credentials Secret is there and complete
    cond,       \* the condition that is True in the CR's status
    owner,      \* of each operand's object: "none" when there is no object
    dying,      \* the object has a deletion timestamp
    csa,        \* the operator's fields are still owned by its plain create
    health,     \* of each workload's pods
    pc,         \* where Reconcile is
    todo,       \* operands the current loop has still to visit
    cur,        \* the operand being worked on
    seen,       \* what the last GET of cur returned
    same,       \* and whether that object is still there
    fresh,      \* the CR is as the reconciler read or last wrote it
    tries,      \* attempts of upgradeManagedFields
    verdict,    \* what the look at the workloads has found so far
    pending,    \* cleanup met an object that is not gone yet
    edits, errors

crVars == <<cr, finalizer, valid, secretOk, edits>>
objVars == <<owner, dying, csa, health>>
curVars == <<cur, seen, same, tries>>
vars == <<crVars, cond, objVars, pc, todo, curVars, fresh, verdict, pending, errors>>

Conditions == {"none", "Available", "Progressing", "Degraded"}
Owners == {"none", "cr", "other"}
Healths == {"rolling", "ready", "failing"}
Steps == {"idle", "secret", "preflight", "apply", "upgrade", "write", "look",
          "stopWorkloads", "stopConfigs", "delete"}
ApplySteps == {"apply", "upgrade", "write", "look"}
CleanupSteps == {"stopWorkloads", "stopConfigs", "delete"}

workload(o) == o \in Workloads
ownedBy(o) == owner[o] = "cr"

-----------------------------------------------------------------------------
(* The rest of the cluster                                                 *)

NotMine == UNCHANGED <<cond, pc, todo, cur, seen, tries, verdict, pending, errors>>

\* What happens to an object the reconciler is working on is not what it read.
Disturb(o) == same' = (same /\ cur # o)

CreateCR ==
    /\ cr = "absent"
    /\ cr' = "present" /\ finalizer' = FALSE /\ fresh' = FALSE
    /\ UNCHANGED <<valid, secretOk, edits, objVars, same>> /\ NotMine

\* The API server removes a CR without finalizers at once. Objects that still
\* name it as their owner are strangers to a later CR.
DeleteCR ==
    /\ cr = "present"
    /\ cr' = IF finalizer THEN "deleting" ELSE "absent"
    /\ fresh' = FALSE
    /\ owner' = [o \in Operands |->
                    IF ~finalizer /\ ownedBy(o) THEN "other" ELSE owner[o]]
    /\ UNCHANGED <<finalizer, valid, secretOk, edits, dying, csa, health, same>> /\ NotMine

EditCR ==
    /\ cr # "absent" /\ edits < MaxEdits
    /\ edits' = edits + 1
    /\ valid' \in BOOLEAN /\ fresh' = FALSE
    /\ UNCHANGED <<cr, finalizer, secretOk, objVars, same>> /\ NotMine

ChangeSecret ==
    /\ edits < MaxEdits
    /\ edits' = edits + 1
    /\ secretOk' = ~secretOk
    /\ UNCHANGED <<cr, finalizer, valid, objVars, same, fresh>> /\ NotMine

\* Someone else makes an object with an operand's name.
OthersCreate(o) ==
    /\ owner[o] = "none"
    /\ owner' = [owner EXCEPT ![o] = "other"]
    /\ Disturb(o)
    /\ UNCHANGED <<crVars, dying, csa, health, fresh>> /\ NotMine

Gone(o) ==
    /\ owner' = [owner EXCEPT ![o] = "none"]
    /\ dying' = [dying EXCEPT ![o] = FALSE]
    /\ csa' = [csa EXCEPT ![o] = FALSE]
    /\ health' = [health EXCEPT ![o] = "rolling"]
    /\ Disturb(o)
    /\ UNCHANGED <<crVars, fresh>> /\ NotMine

OthersDelete(o) == owner[o] # "none" /\ Gone(o)

\* The API server finishes a foreground deletion.
Vanish(o) == dying[o] /\ Gone(o)

ChangeHealth(o) ==
    /\ owner[o] # "none" /\ workload(o)
    /\ \E h \in Healths \ {health[o]} : health' = [health EXCEPT ![o] = h]
    /\ UNCHANGED <<crVars, owner, dying, csa, same, fresh>> /\ NotMine

-----------------------------------------------------------------------------
(* Reconcile                                                               *)

Rest ==
    /\ pc' = "idle" /\ todo' = {} /\ cur' = NoOperand /\ seen' = "none" /\ same' = FALSE
    /\ tries' = 0 /\ verdict' = "Available" /\ pending' = FALSE

\* condition: the status update fails if the CR has changed since it was read;
\* Reconcile returns either way.
Report(c) ==
    /\ Rest
    /\ cond' = IF fresh THEN c ELSE cond
    /\ UNCHANGED <<crVars, objVars, fresh, errors>>

Work(step, operands) ==
    /\ pc' = step /\ todo' = operands
    /\ cur' = NoOperand /\ seen' = "none" /\ same' = FALSE /\ tries' = 0

\* Mutant: the configuration is validated before the deletion is looked at.
StartValidatesFirst ==
    /\ pc = "idle" /\ cr # "absent"
    /\ IF ~valid
       THEN Rest /\ cond' = "Degraded" /\ fresh' = TRUE /\ UNCHANGED <<crVars, objVars, errors>>
       ELSE /\ fresh' = TRUE
            /\ IF cr = "deleting" /\ finalizer
               THEN Work("stopWorkloads", Workloads)
               ELSE Work("secret", {})
            /\ UNCHANGED <<crVars, cond, objVars, verdict, pending, errors>>

\* Reconcile up to the Secret: a CR that is being deleted is cleaned up whether or
\* not its specification is valid.
Start ==
    /\ pc = "idle" /\ cr # "absent"
    /\ fresh' = TRUE
    /\ IF cr = "deleting"
       THEN /\ finalizer /\ Work("stopWorkloads", Workloads)
            /\ UNCHANGED <<cond, verdict, pending>>
       ELSE IF valid THEN Work("secret", {}) /\ UNCHANGED <<cond, verdict, pending>>
                     ELSE Rest /\ cond' = "Degraded"
    /\ UNCHANGED <<crVars, objVars, errors>>

ReadSecret ==
    /\ pc = "secret"
    /\ IF secretOk
       THEN /\ Work("preflight", Operands)
            /\ UNCHANGED <<crVars, cond, objVars, fresh, verdict, pending, errors>>
       ELSE Report("Degraded")

\* Mutant: preflight takes every existing object for a conflict.
PreflightAnyObject(o) ==
    /\ pc = "preflight" /\ o \in todo
    /\ IF owner[o] = "none"
       THEN /\ todo' = todo \ {o}
            /\ UNCHANGED <<crVars, cond, objVars, pc, curVars, fresh, verdict, pending, errors>>
       ELSE Report("Degraded")

\* Preflight of all operands before any is changed.
Preflight(o) ==
    /\ pc = "preflight" /\ o \in todo
    /\ IF owner[o] \in {"none", "cr"}
       THEN /\ todo' = todo \ {o}
            /\ UNCHANGED <<crVars, cond, objVars, pc, curVars, fresh, verdict, pending, errors>>
       ELSE Report("Degraded")

\* Mutant: operands are applied before the finalizer is stored.
AddFinalizerSkipped ==
    /\ pc = "preflight" /\ todo = {}
    /\ Work("apply", Operands)
    /\ UNCHANGED <<crVars, cond, objVars, fresh, verdict, pending, errors>>

\* The update is refused if the CR has changed since it was read.
AddFinalizer ==
    /\ pc = "preflight" /\ todo = {}
    /\ IF finalizer \/ fresh
       THEN /\ finalizer' = TRUE
            /\ Work("apply", Operands)
            /\ UNCHANGED <<cr, valid, secretOk, edits, cond, objVars, fresh, verdict, pending, errors>>
       ELSE /\ Rest
            /\ UNCHANGED <<crVars, cond, objVars, fresh, errors>>

-----------------------------------------------------------------------------
(* apply, for one operand after another, workloads last                    *)

ReconcileFailed == Report("Degraded")

\* What a GET returns: whose the object is, and whether the operator's fields in
\* it are still to be handed over.
Got(o) == IF owner[o] = "cr" /\ csa[o] THEN "crCsa" ELSE owner[o]

\* Configs before Workloads.
InOrder(o) == o \in todo /\ (workload(o) => todo \subseteq Workloads)

ApplyGet(o) ==
    /\ pc = "apply" /\ InOrder(o)
    /\ IF owner[o] = "other"
       THEN ReconcileFailed
       ELSE /\ pc' = IF owner[o] = "none" THEN "write" ELSE "upgrade"
            /\ cur' = o /\ seen' = Got(o) /\ same' = TRUE /\ tries' = 0
            /\ UNCHANGED <<crVars, cond, objVars, todo, fresh, verdict, pending, errors>>

\* upgradeManagedFields: when there is nothing to hand over the object is returned
\* as it is.
NothingToUpgrade ==
    /\ pc = "upgrade" /\ seen # "crCsa"
    /\ pc' = "write"
    /\ UNCHANGED <<crVars, cond, objVars, todo, curVars, fresh, verdict, pending, errors>>

Upgrade ==
    /\ pc = "upgrade" /\ seen = "crCsa" /\ same
    /\ csa' = [csa EXCEPT ![cur] = FALSE]
    /\ seen' = "cr" /\ pc' = "write"
    /\ UNCHANGED <<crVars, cond, owner, dying, health, todo, cur, same, tries, fresh,
                   verdict, pending, errors>>

Attempts == 3

\* Mutant: one attempt too many.
UpgradeAgainOnceMore ==
    /\ pc = "upgrade" /\ seen = "crCsa"
    /\ \/ ~same /\ UNCHANGED errors
       \/ errors < MaxErrors /\ errors' = errors + 1
    /\ IF tries = Attempts \/ owner[cur] = "none"
       THEN /\ Rest
            /\ cond' = IF fresh THEN "Degraded" ELSE cond
            /\ UNCHANGED <<crVars, objVars, fresh>>
       ELSE /\ seen' = Got(cur) /\ same' = TRUE /\ tries' = tries + 1
            /\ UNCHANGED <<crVars, cond, objVars, pc, todo, cur, fresh, verdict, pending>>

\* The patch tests the resource version, which a replaced object and a status
\* update move. The object is read again, and whatever is found is tried next.
UpgradeAgain ==
    /\ pc = "upgrade" /\ seen = "crCsa"
    /\ \/ ~same /\ UNCHANGED errors
       \/ errors < MaxErrors /\ errors' = errors + 1
    /\ IF tries + 1 = Attempts \/ owner[cur] = "none"
       THEN /\ Rest
            /\ cond' = IF fresh THEN "Degraded" ELSE cond
            /\ UNCHANGED <<crVars, objVars, fresh>>
       ELSE /\ seen' = Got(cur) /\ same' = TRUE /\ tries' = tries + 1
            /\ UNCHANGED <<crVars, cond, objVars, pc, todo, cur, fresh, verdict, pending>>

\* Mutant: the apply patch has no UID.
WriteByName ==
    /\ pc = "write"
    /\ IF (seen = "none" /\ owner[cur] = "none") \/ (seen # "none" /\ owner[cur] # "none")
       THEN /\ owner' = [owner EXCEPT ![cur] = "cr"]
            /\ csa' = [csa EXCEPT ![cur] = @ \/ seen = "none"]
            /\ Work("apply", todo \ {cur})
            /\ UNCHANGED <<crVars, cond, dying, health, fresh, verdict, pending, errors>>
       ELSE ReconcileFailed

\* Create, or the apply patch with the UID of the object that was read: the former
\* fails if there is an object, the latter if that object was replaced.
Write ==
    /\ pc = "write"
    /\ IF (seen = "none" /\ owner[cur] = "none") \/ (seen # "none" /\ same)
       THEN /\ owner' = [owner EXCEPT ![cur] = "cr"]
            /\ csa' = [csa EXCEPT ![cur] = @ \/ seen = "none"]
            /\ Work("apply", todo \ {cur})
            /\ UNCHANGED <<crVars, cond, dying, health, fresh, verdict, pending, errors>>
       ELSE ReconcileFailed

Applied ==
    /\ pc = "apply" /\ todo = {}
    /\ Work("look", Workloads)
    /\ UNCHANGED <<crVars, cond, objVars, fresh, verdict, pending, errors>>

\* The readiness loop: a workload that is gone ends it without a report.
Look(o) ==
    /\ pc = "look" /\ o \in todo
    /\ IF owner[o] = "none"
       THEN Rest /\ UNCHANGED <<crVars, cond, objVars, fresh, errors>>
       ELSE IF health[o] = "failing"
       THEN Report("Degraded")
       ELSE /\ todo' = todo \ {o}
            /\ verdict' = IF health[o] = "ready" THEN verdict ELSE "Progressing"
            /\ UNCHANGED <<crVars, cond, objVars, pc, curVars, fresh, pending, errors>>

Looked == pc = "look" /\ todo = {} /\ Report(verdict)

-----------------------------------------------------------------------------
(* cleanup: workloads, then everything else, then the finalizer            *)

CleanupRest == UNCHANGED <<crVars, cond, fresh, verdict, errors>>

CleanupGet(o) ==
    /\ pc \in {"stopWorkloads", "stopConfigs"} /\ o \in todo
    /\ todo' = todo \ {o}
    /\ pending' = (pending \/ ownedBy(o))
    /\ IF ownedBy(o) /\ ~dying[o]
       THEN pc' = "delete" /\ cur' = o /\ seen' = "cr" /\ same' = TRUE /\ UNCHANGED tries
       ELSE UNCHANGED <<pc, curVars>>
    /\ UNCHANGED objVars /\ CleanupRest

DeleteDone ==
    /\ Work(IF workload(cur) THEN "stopWorkloads" ELSE "stopConfigs", todo)
    /\ UNCHANGED pending

\* Mutant: the deletion goes by name alone.
CleanupDeleteByName ==
    /\ pc = "delete"
    /\ dying' = [dying EXCEPT ![cur] = owner[cur] # "none"]
    /\ DeleteDone
    /\ UNCHANGED <<owner, csa, health>> /\ CleanupRest

\* Delete with the UID as precondition: a vanished object is fine, a replaced one
\* ends this reconciliation.
CleanupDelete ==
    /\ pc = "delete"
    /\ UNCHANGED <<owner, csa, health>>
    /\ IF same \/ owner[cur] = "none"
       THEN /\ dying' = [dying EXCEPT ![cur] = same]
            /\ DeleteDone /\ CleanupRest
       ELSE Rest /\ UNCHANGED <<crVars, cond, dying, fresh, errors>>

\* Mutant: one sweep over both kinds of operands.
WorkloadsStoppedAtOnce ==
    /\ pc = "stopWorkloads" /\ todo = {}
    /\ Work("stopConfigs", Configs)
    /\ UNCHANGED <<crVars, cond, objVars, fresh, verdict, pending, errors>>

WorkloadsStopped ==
    /\ pc = "stopWorkloads" /\ todo = {}
    /\ IF pending
       THEN Report("Progressing")
       ELSE /\ Work("stopConfigs", Configs)
            /\ UNCHANGED <<crVars, cond, objVars, fresh, verdict, pending, errors>>

\* The update that drops the finalizer is refused if the CR has changed; otherwise
\* the API server removes the CR.
RemoveFinalizer ==
    /\ pc = "stopConfigs" /\ todo = {}
    /\ IF pending
       THEN Report("Progressing")
       ELSE /\ IF fresh
               THEN /\ cr' = "absent" /\ finalizer' = FALSE /\ fresh' = FALSE
                    /\ owner' = [o \in Operands |-> IF ownedBy(o) THEN "other" ELSE owner[o]]
               ELSE UNCHANGED <<cr, finalizer, fresh, owner>>
            /\ Rest
            /\ UNCHANGED <<valid, secretOk, edits, cond, dying, csa, health, errors>>

\* A request fails, or the operator restarts. A failed read of the Secret and a
\* failure in apply are reported, if the status update gets through.
Interrupted ==
    /\ pc # "idle" /\ errors < MaxErrors
    /\ errors' = errors + 1
    /\ Rest
    /\ \/ UNCHANGED cond
       \/ pc \in {"secret", "apply", "upgrade", "write"} /\ fresh /\ cond' = "Degraded"
    /\ UNCHANGED <<crVars, objVars, fresh>>

-----------------------------------------------------------------------------
Reconcile ==
    \/ Start \/ ReadSecret \/ AddFinalizer
    \/ NothingToUpgrade \/ Upgrade \/ UpgradeAgain \/ Write \/ Applied \/ Looked
    \/ CleanupDelete \/ WorkloadsStopped \/ RemoveFinalizer
    \/ \E o \in Operands : Preflight(o) \/ ApplyGet(o) \/ Look(o) \/ CleanupGet(o)

Cluster ==
    \/ CreateCR \/ DeleteCR \/ EditCR \/ ChangeSecret \/ Interrupted
    \/ \E o \in Operands : OthersCreate(o) \/ OthersDelete(o) \/ Vanish(o) \/ ChangeHealth(o)

Init ==
    /\ cr = "absent" /\ finalizer = FALSE /\ valid \in BOOLEAN /\ secretOk \in BOOLEAN
    /\ cond = "none"
    /\ owner \in [Operands -> {"none", "other"}]
    /\ dying = [o \in Operands |-> FALSE] /\ csa = dying
    /\ health = [o \in Operands |-> "rolling"]
    /\ pc = "idle" /\ todo = {} /\ cur = NoOperand /\ seen = "none" /\ same = FALSE
    /\ fresh = FALSE /\ tries = 0 /\ verdict = "Available" /\ pending = FALSE
    /\ edits = 0 /\ errors = 0

Next == Reconcile \/ Cluster

Spec == Init /\ [][Next]_vars

\* The 15 second loop goes on, and the API server finishes deletions.
Fairness == WF_vars(Reconcile) /\ \A o \in Operands : WF_vars(Vanish(o))
FairSpec == Spec /\ Fairness

-----------------------------------------------------------------------------
(* Properties                                                              *)

\* Every variable has its type.
TypeOK ==
    /\ cr \in {"absent", "present", "deleting"}
    /\ finalizer \in BOOLEAN /\ valid \in BOOLEAN /\ secretOk \in BOOLEAN
    /\ same \in BOOLEAN /\ fresh \in BOOLEAN /\ pending \in BOOLEAN
    /\ cond \in Conditions /\ verdict \in Conditions
    /\ owner \in [Operands -> Owners]
    /\ dying \in [Operands -> BOOLEAN] /\ csa \in [Operands -> BOOLEAN]
    /\ health \in [Operands -> Healths]
    /\ pc \in Steps /\ todo \subseteq Operands
    /\ cur \in {NoOperand} \cup Operands
    /\ seen \in {"crCsa"} \cup Owners
    /\ tries \in 0 .. Attempts - 1
    /\ edits \in 0 .. MaxEdits /\ errors \in 0 .. MaxErrors

\* As long as an operand of the CR exists the CR carries the finalizer, so that it
\* cannot disappear without cleanup: Reconcile stores the finalizer before the first
\* create, whatever happens to the CR between its GET and that update.
OwnedUnderFinalizer == (\E o \in Operands : ownedBy(o)) => finalizer /\ cr # "absent"

\* When the CR disappears none of its operands is left, not even one that is still
\* being deleted: cleanup drops the finalizer only after it found them all gone.
NoOrphans == [][cr # "absent" /\ cr' = "absent" => \A o \in Operands : ~ownedBy(o)]_vars

\* The operator deletes nothing that someone else made, also when an operand is
\* replaced between cleanup's GET and its DELETE.
DeletesOwned == [][\A o \in Operands : dying'[o] /\ ~dying[o] => ownedBy(o)]_vars

\* Accounts, RBAC and configuration are not withdrawn from a workload that is still
\* there: "Stop workloads before withdrawing their accounts, RBAC and SCC".
WorkloadsStopFirst ==
    [][\A o \in Configs : dying'[o] /\ ~dying[o] => \A w \in Workloads : ~ownedBy(w)]_vars

\* "The UID stops a delete/recreate between GET and PATCH from adopting an unrelated
\* replacement": the one way for an object someone else made to become the operator's
\* is that upgradeManagedFields, after a failed patch, reads it in place of the operand.
AdoptsOnlyReread ==
    [][\A o \in Operands : owner[o] = "other" /\ owner'[o] = "cr" => tries > 0]_vars

\* "Never adopt an existing manually installed CSI driver or someone else's StorageClass":
\* an object that someone else made never becomes the operator's. It does, in the one way
\* that AdoptsOnlyReread leaves: what upgradeManagedFields reads again is not looked at
\* for its owner.
NeverAdopts == [][\A o \in Operands : owner[o] = "other" => owner'[o] # "cr"]_vars

\* The deletion of a CR finishes, valid or not: "An invalid mutable setting must not
\* strand the cleanup finalizer".
DeletionFinishes == cr = "deleting" ~> cr = "absent"

Quiet ==
    /\ cr = "present" /\ valid /\ secretOk
    /\ \A o \in Operands : owner[o] # "other" /\ ~dying[o]
    /\ \A w \in Workloads : owner[w] = "cr" => health[w] = "ready"

LeftAlone == \A o \in Operands : ownedBy(o) => owner'[o] = "cr"

\* When the cluster is left alone with a valid CR and credentials and no conflicting
\* object, all operands exist and the CR ends up Available, whatever went before.
Converges ==
    <>[]Quiet /\ <>[][LeftAlone]_vars
        => <>[](cond = "Available" /\ \A o \in Operands : ownedBy(o))
=============================================================================
