---------------------- MODULE OperatorReconcileProofs ----------------------
(***************************************************************************)
(* What the operator's reconciler guarantees for any sets of operands and  *)
(* any number of edits, failures and restarts.                             *)
(***************************************************************************)
EXTENDS OperatorReconcile, TLAPS

\* Most leaves are first-order: Zenon takes them, and a leaf that needs more says SMT.
USE Zenon

\* Where the reconciler is says what it may rely on. The CR keeps its finalizer, and
\* so stays, while operands are applied or removed; an operand that cleanup has
\* passed without finding it pending is not the CR's, and stays so, since nothing
\* but apply makes operands.
CRInv ==
    /\ cr = "deleting" => finalizer
    /\ cr = "absent" => ~finalizer /\ ~fresh
    /\ pc \in ApplySteps => finalizer
    /\ pc \in CleanupSteps => finalizer /\ cr = "deleting"

CurInv ==
    /\ pc \in {"upgrade", "write", "delete"} => cur \in Operands
    /\ pc = "delete" => pending /\ (same => ownedBy(cur))

PassInv ==
    /\ pc = "stopWorkloads" \/ (pc = "delete" /\ cur \in Workloads) => todo \subseteq Workloads
    /\ pc = "stopConfigs" \/ (pc = "delete" /\ cur \notin Workloads)
         => todo \subseteq Configs /\ \A w \in Workloads : ~ownedBy(w)
    /\ pc = "stopWorkloads" /\ ~pending => \A w \in Workloads \ todo : ~ownedBy(w)
    /\ pc = "stopConfigs" /\ ~pending => \A c \in Configs \ todo : ~ownedBy(c)

\* The object that apply has read is nobody else's, unless it was read again.
ReadInv == pc \in {"upgrade", "write"} /\ same /\ tries = 0 => owner[cur] # "other"

TypeFlags ==
    /\ finalizer \in BOOLEAN /\ valid \in BOOLEAN /\ secretOk \in BOOLEAN
    /\ same \in BOOLEAN /\ fresh \in BOOLEAN /\ pending \in BOOLEAN

TypeCounts == tries \in 0 .. Attempts - 1 /\ edits \in 0 .. MaxEdits /\ errors \in 0 .. MaxErrors

TypeRest ==
    /\ cr \in {"absent", "present", "deleting"}
    /\ cond \in Conditions /\ verdict \in Conditions
    /\ owner \in [Operands -> Owners]
    /\ dying \in [Operands -> BOOLEAN] /\ csa \in [Operands -> BOOLEAN]
    /\ health \in [Operands -> Healths]
    /\ pc \in Steps /\ todo \subseteq Operands
    /\ cur \in {NoOperand} \cup Operands
    /\ seen \in {"crCsa"} \cup Owners

IInv == TypeOK /\ OwnedUnderFinalizer /\ CRInv /\ CurInv /\ PassInv /\ ReadInv

-----------------------------------------------------------------------------
\* The invariant holds initially.
LEMMA InitInv == Init => IInv
<1> SUFFICES ASSUME Init PROVE IInv
  OBVIOUS
<1>1. TypeFlags
  BY DEF Init, TypeFlags
<1>2. TypeCounts
  BY SMT, BoundAssumption DEF Init, TypeCounts, Attempts
<1>3. TypeRest
  BY DEF Init, TypeRest, Conditions, Owners, Healths, Steps
<1>4. OwnedUnderFinalizer /\ CRInv /\ CurInv /\ PassInv /\ ReadInv
  BY DEF Init, OwnedUnderFinalizer, CRInv, CurInv, PassInv, ReadInv, ApplySteps, CleanupSteps, ownedBy
<1> QED
  BY <1>1, <1>2, <1>3, <1>4 DEF IInv, TypeOK, TypeFlags, TypeCounts, TypeRest

\* The types are preserved: the flags,
LEMMA FlagStep ==
    ASSUME TypeFlags, [Next]_vars PROVE TypeFlags'
<1>1. CASE CreateCR
  BY <1>1 DEF CreateCR, TypeFlags, objVars, NotMine
<1>2. CASE DeleteCR
  BY <1>2 DEF DeleteCR, TypeFlags, ownedBy, NotMine
<1>3. CASE EditCR
  BY <1>3 DEF EditCR, TypeFlags, objVars, NotMine
<1>4. CASE ChangeSecret
  BY <1>4 DEF ChangeSecret, TypeFlags, objVars, NotMine
<1>5. CASE Interrupted
  BY <1>5 DEF Interrupted, TypeFlags, Rest, crVars, objVars
<1>6. CASE Start
  BY <1>6 DEF Start, TypeFlags, Work, Rest, crVars, objVars
<1>7. CASE ReadSecret
  BY <1>7 DEF ReadSecret, TypeFlags, Work, crVars, objVars, Report, Rest
<1>8. CASE AddFinalizer
  BY <1>8 DEF AddFinalizer, TypeFlags, Work, objVars, Rest, crVars
<1>9. CASE NothingToUpgrade
  BY <1>9 DEF NothingToUpgrade, TypeFlags, crVars, objVars, curVars
<1>10. CASE Upgrade
  BY <1>10 DEF Upgrade, TypeFlags, crVars
<1>11. CASE UpgradeAgain
  BY <1>11 DEF UpgradeAgain, TypeFlags, Attempts, Rest, crVars, objVars, Got
<1>12. CASE Write
  BY <1>12 DEF Write, TypeFlags, Work, crVars, ReconcileFailed, Report, Rest,
     objVars
<1>13. CASE Applied
  BY <1>13 DEF Applied, TypeFlags, Work, crVars, objVars
<1>14. CASE Looked
  BY <1>14 DEF Looked, TypeFlags, Report, Rest, crVars, objVars
<1>15. CASE CleanupDelete
  BY <1>15 DEF CleanupDelete, TypeFlags, DeleteDone, CleanupRest, Rest, crVars,
     Work, workload
<1>16. CASE WorkloadsStopped
  BY <1>16 DEF WorkloadsStopped, TypeFlags, Report, Work, crVars, objVars, Rest
<1>17. CASE RemoveFinalizer
  BY <1>17 DEF RemoveFinalizer, TypeFlags, Report, ownedBy, Rest, crVars, objVars
<1>18. ASSUME NEW o \in Operands, OthersCreate(o) PROVE TypeFlags'
  BY <1>18 DEF OthersCreate, TypeFlags, Disturb, crVars, NotMine
<1>19. ASSUME NEW o \in Operands, OthersDelete(o) PROVE TypeFlags'
  BY <1>19 DEF OthersDelete, TypeFlags, Gone, Disturb, crVars, NotMine
<1>20. ASSUME NEW o \in Operands, Vanish(o) PROVE TypeFlags'
  BY <1>20 DEF Vanish, TypeFlags, Gone, Disturb, crVars, NotMine
<1>21. ASSUME NEW o \in Operands, ChangeHealth(o) PROVE TypeFlags'
  BY <1>21 DEF ChangeHealth, TypeFlags, workload, Healths, crVars, NotMine
<1>22. ASSUME NEW o \in Operands, Preflight(o) PROVE TypeFlags'
  BY <1>22 DEF Preflight, TypeFlags, crVars, objVars, curVars, Report, Rest
<1>23. ASSUME NEW o \in Operands, ApplyGet(o) PROVE TypeFlags'
  BY <1>23 DEF ApplyGet, TypeFlags, InOrder, ReconcileFailed, Got, crVars, objVars,
     workload, Report, Rest
<1>24. ASSUME NEW o \in Operands, Look(o) PROVE TypeFlags'
  BY <1>24 DEF Look, TypeFlags, Rest, crVars, objVars, Report, curVars
<1>25. ASSUME NEW o \in Operands, CleanupGet(o) PROVE TypeFlags'
  BY <1>25 DEF CleanupGet, TypeFlags, ownedBy, curVars, objVars, CleanupRest, crVars
<1>26. CASE UNCHANGED vars
  BY <1>26 DEF TypeFlags, vars, crVars, objVars, curVars
<1> QED
  BY <1>1, <1>2, <1>3, <1>4, <1>5, <1>6, <1>7, <1>8, <1>9, <1>10, <1>11, <1>12,
     <1>13, <1>14, <1>15, <1>16, <1>17, <1>18, <1>19, <1>20, <1>21, <1>22, <1>23,
     <1>24, <1>25, <1>26 DEF Next, Reconcile, Cluster

\* the counters,
LEMMA CountStep ==
    ASSUME TypeCounts, [Next]_vars PROVE TypeCounts'
<1> USE BoundAssumption
<1>1. CASE CreateCR
  BY <1>1 DEF CreateCR, TypeCounts, objVars, NotMine, Attempts
<1>2. CASE DeleteCR
  BY <1>2 DEF DeleteCR, TypeCounts, ownedBy, NotMine, Attempts
<1>3. CASE EditCR
  BY SMT, <1>3 DEF EditCR, TypeCounts, objVars, NotMine, Attempts
<1>4. CASE ChangeSecret
  BY SMT, <1>4 DEF ChangeSecret, TypeCounts, objVars, NotMine, Attempts
<1>5. CASE Interrupted
  BY SMT, <1>5 DEF Interrupted, TypeCounts, Rest, crVars, objVars, Attempts
<1>6. CASE Start
  BY SMT, <1>6 DEF Start, TypeCounts, Work, Rest, crVars, objVars, Attempts
<1>7. CASE ReadSecret
  BY SMT, <1>7 DEF ReadSecret, TypeCounts, Work, crVars, objVars, Report, Attempts, Rest
<1>8. CASE AddFinalizer
  BY SMT, <1>8 DEF AddFinalizer, TypeCounts, Work, objVars, Rest, crVars, Attempts
<1>9. CASE NothingToUpgrade
  BY <1>9 DEF NothingToUpgrade, TypeCounts, crVars, objVars, curVars, Attempts
<1>10. CASE Upgrade
  BY <1>10 DEF Upgrade, TypeCounts, crVars, Attempts
<1>11. CASE UpgradeAgain
  BY SMT, <1>11 DEF UpgradeAgain, TypeCounts, Attempts, Rest, crVars, objVars, Got
<1>12. CASE Write
  BY SMT, <1>12 DEF Write, TypeCounts, Work, crVars, ReconcileFailed, Attempts, Report,
     Rest, objVars
<1>13. CASE Applied
  BY SMT, <1>13 DEF Applied, TypeCounts, Work, crVars, objVars, Attempts
<1>14. CASE Looked
  BY SMT, <1>14 DEF Looked, TypeCounts, Report, Attempts, Rest, crVars, objVars
<1>15. CASE CleanupDelete
  BY SMT, <1>15 DEF CleanupDelete, TypeCounts, DeleteDone, CleanupRest, Rest, crVars,
     Attempts, Work, workload
<1>16. CASE WorkloadsStopped
  BY SMT, <1>16 DEF WorkloadsStopped, TypeCounts, Report, Work, crVars, objVars,
     Attempts, Rest
<1>17. CASE RemoveFinalizer
  BY SMT, <1>17 DEF RemoveFinalizer, TypeCounts, Report, ownedBy, Rest, Attempts, crVars,
     objVars
<1>18. ASSUME NEW o \in Operands, OthersCreate(o) PROVE TypeCounts'
  BY <1>18 DEF OthersCreate, TypeCounts, Disturb, crVars, NotMine, Attempts
<1>19. ASSUME NEW o \in Operands, OthersDelete(o) PROVE TypeCounts'
  BY <1>19 DEF OthersDelete, TypeCounts, Gone, Attempts, Disturb, crVars, NotMine
<1>20. ASSUME NEW o \in Operands, Vanish(o) PROVE TypeCounts'
  BY <1>20 DEF Vanish, TypeCounts, Gone, Attempts, Disturb, crVars, NotMine
<1>21. ASSUME NEW o \in Operands, ChangeHealth(o) PROVE TypeCounts'
  BY <1>21 DEF ChangeHealth, TypeCounts, workload, Healths, crVars, NotMine,
     Attempts
<1>22. ASSUME NEW o \in Operands, Preflight(o) PROVE TypeCounts'
  BY SMT, <1>22 DEF Preflight, TypeCounts, crVars, objVars, curVars, Report, Attempts,
     Rest
<1>23. ASSUME NEW o \in Operands, ApplyGet(o) PROVE TypeCounts'
  BY SMT, <1>23 DEF ApplyGet, TypeCounts, InOrder, ReconcileFailed, Got, crVars, objVars,
     Attempts, workload, Report, Rest
<1>24. ASSUME NEW o \in Operands, Look(o) PROVE TypeCounts'
  BY SMT, <1>24 DEF Look, TypeCounts, Rest, crVars, objVars, Report, curVars, Attempts
<1>25. ASSUME NEW o \in Operands, CleanupGet(o) PROVE TypeCounts'
  BY <1>25 DEF CleanupGet, TypeCounts, ownedBy, curVars, objVars, CleanupRest,
     Attempts, crVars
<1>26. CASE UNCHANGED vars
  BY <1>26 DEF TypeCounts, vars, Attempts, crVars, objVars, curVars
<1> QED
  BY <1>1, <1>2, <1>3, <1>4, <1>5, <1>6, <1>7, <1>8, <1>9, <1>10, <1>11, <1>12,
     <1>13, <1>14, <1>15, <1>16, <1>17, <1>18, <1>19, <1>20, <1>21, <1>22, <1>23,
     <1>24, <1>25, <1>26 DEF Next, Reconcile, Cluster

\* and the rest.
LEMMA TypeStep ==
    ASSUME TypeFlags, TypeRest, CurInv, [Next]_vars PROVE TypeRest'
<1> USE OperandAssumption
<1>1. CASE CreateCR
  BY SMT, <1>1 DEF CreateCR, TypeRest, CurInv, Operands, objVars, NotMine, Conditions,
     Owners, Healths, Steps, ownedBy
<1>2. CASE DeleteCR
  BY SMT, <1>2 DEF DeleteCR, TypeRest, CurInv, Operands, ownedBy, NotMine, Conditions,
     Owners, Healths, Steps
<1>3. CASE EditCR
  BY SMT, <1>3 DEF EditCR, TypeRest, CurInv, Operands, objVars, NotMine, Conditions,
     Owners, Healths, Steps, ownedBy
<1>4. CASE ChangeSecret
  BY SMT, <1>4 DEF ChangeSecret, TypeRest, CurInv, Operands, objVars, NotMine,
     Conditions, Owners, Healths, Steps, ownedBy
<1>5. CASE Interrupted
  BY <1>5 DEF Interrupted, TypeRest, CurInv, Operands, Rest, crVars, objVars,
     Conditions, Owners, Healths, Steps, ownedBy
<1>6. CASE Start
  BY <1>6 DEF Start, TypeRest, CurInv, Operands, Work, Rest, crVars, objVars,
     Conditions, Owners, Healths, Steps, ownedBy
<1>7. CASE ReadSecret
  BY <1>7 DEF ReadSecret, TypeRest, CurInv, Operands, Work, crVars, objVars, Report,
     Conditions, Owners, Healths, Steps, ownedBy, Rest
<1>8. CASE AddFinalizer
  BY <1>8 DEF AddFinalizer, TypeRest, CurInv, Operands, Work, objVars, Rest, crVars,
     Conditions, Owners, Healths, Steps, ownedBy
<1>9. CASE NothingToUpgrade
  BY <1>9 DEF NothingToUpgrade, TypeRest, CurInv, Operands, crVars, objVars,
     curVars, Conditions, Owners, Healths, Steps, ownedBy
<1>10. CASE Upgrade
  BY <1>10 DEF Upgrade, TypeRest, CurInv, Operands, crVars, Conditions, Owners,
     Healths, Steps, ownedBy
<1>11. CASE UpgradeAgain
  BY <1>11 DEF UpgradeAgain, TypeRest, CurInv, Operands, Attempts, Rest, crVars,
     objVars, Got, Conditions, Owners, Healths, Steps, ownedBy
<1>12. CASE Write
  BY <1>12 DEF Write, TypeRest, CurInv, Operands, Work, crVars, ReconcileFailed,
     Conditions, Owners, Healths, Steps, ownedBy, Report, Rest, objVars
<1>13. CASE Applied
  BY <1>13 DEF Applied, TypeRest, CurInv, Operands, Work, crVars, objVars,
     Conditions, Owners, Healths, Steps, ownedBy
<1>14. CASE Looked
  BY <1>14 DEF Looked, TypeRest, CurInv, Operands, Report, Conditions, Owners,
     Healths, Steps, ownedBy, Rest, crVars, objVars
<1>15. CASE CleanupDelete
  <2>1. dying' \in [Operands -> BOOLEAN]
    BY <1>15 DEF CleanupDelete, Rest, DeleteDone, CleanupRest, TypeRest, TypeFlags
  <2> QED
    BY <1>15, <2>1 DEF CleanupDelete, TypeRest, CurInv, DeleteDone, CleanupRest, Rest,
       crVars, Conditions, Owners, Healths, Steps, ownedBy, Work, workload, Operands
<1>16. CASE WorkloadsStopped
  BY <1>16 DEF WorkloadsStopped, TypeRest, CurInv, Operands, Report, Work, crVars,
     objVars, Conditions, Owners, Healths, Steps, ownedBy, Rest
<1>17. CASE RemoveFinalizer
  BY <1>17 DEF RemoveFinalizer, TypeRest, CurInv, Operands, Report, ownedBy, Rest,
     Conditions, Owners, Healths, Steps, crVars, objVars
<1>18. ASSUME NEW o \in Operands, OthersCreate(o) PROVE TypeRest'
  BY SMT, <1>18 DEF OthersCreate, TypeRest, CurInv, Operands, Disturb, crVars, NotMine,
     Conditions, Owners, Healths, Steps, ownedBy
<1>19. ASSUME NEW o \in Operands, OthersDelete(o) PROVE TypeRest'
  BY SMT, <1>19 DEF OthersDelete, TypeRest, CurInv, Operands, Gone, Conditions, Owners,
     Healths, Steps, ownedBy, Disturb, crVars, NotMine
<1>20. ASSUME NEW o \in Operands, Vanish(o) PROVE TypeRest'
  BY SMT, <1>20 DEF Vanish, TypeRest, CurInv, Operands, Gone, Conditions, Owners,
     Healths, Steps, ownedBy, Disturb, crVars, NotMine
<1>21. ASSUME NEW o \in Operands, ChangeHealth(o) PROVE TypeRest'
  BY SMT, <1>21 DEF ChangeHealth, TypeRest, CurInv, Operands, workload, Healths, crVars,
     NotMine, Conditions, Owners, Steps, ownedBy
<1>22. ASSUME NEW o \in Operands, Preflight(o) PROVE TypeRest'
  BY SMT, <1>22 DEF Preflight, TypeRest, CurInv, Operands, crVars, objVars, curVars,
     Report, Conditions, Owners, Healths, Steps, ownedBy, Rest
<1>23. ASSUME NEW o \in Operands, ApplyGet(o) PROVE TypeRest'
  BY <1>23 DEF ApplyGet, TypeRest, CurInv, Operands, InOrder, ReconcileFailed, Got,
     crVars, objVars, Conditions, Owners, Healths, Steps, ownedBy, workload, Report,
     Rest
<1>24. ASSUME NEW o \in Operands, Look(o) PROVE TypeRest'
  BY SMT, <1>24 DEF Look, TypeRest, CurInv, Operands, Rest, crVars, objVars, Report,
     curVars, Conditions, Owners, Healths, Steps, ownedBy
<1>25. ASSUME NEW o \in Operands, CleanupGet(o) PROVE TypeRest'
  BY SMT, <1>25 DEF CleanupGet, TypeRest, CurInv, Operands, ownedBy, curVars, objVars,
     CleanupRest, Conditions, Owners, Healths, Steps, crVars
<1>26. CASE UNCHANGED vars
  BY SMT, <1>26 DEF TypeRest, CurInv, Operands, vars, Conditions, Owners, Healths, Steps,
     ownedBy, crVars, objVars, curVars
<1> QED
  BY <1>1, <1>2, <1>3, <1>4, <1>5, <1>6, <1>7, <1>8, <1>9, <1>10, <1>11, <1>12,
     <1>13, <1>14, <1>15, <1>16, <1>17, <1>18, <1>19, <1>20, <1>21, <1>22, <1>23,
     <1>24, <1>25, <1>26 DEF Next, Reconcile, Cluster

\* So is what the reconciler relies on about the CR,
LEMMA CRStep ==
    ASSUME TypeOK, CRInv, [Next]_vars PROVE CRInv'
<1>1. CASE CreateCR
  BY <1>1 DEF CreateCR, CRInv, objVars, NotMine, ApplySteps, CleanupSteps
<1>2. CASE DeleteCR
  BY <1>2 DEF DeleteCR, CRInv, ownedBy, NotMine, ApplySteps, CleanupSteps
<1>3. CASE EditCR
  BY <1>3 DEF EditCR, CRInv, objVars, NotMine, ApplySteps, CleanupSteps
<1>4. CASE ChangeSecret
  BY <1>4 DEF ChangeSecret, CRInv, objVars, NotMine, ApplySteps, CleanupSteps
<1>5. CASE Interrupted
  BY <1>5 DEF Interrupted, CRInv, Rest, crVars, objVars, ApplySteps, CleanupSteps
<1>6. CASE Start
  BY <1>6 DEF Start, CRInv, Work, Rest, crVars, objVars, ApplySteps, CleanupSteps
<1>7. CASE ReadSecret
  BY <1>7 DEF ReadSecret, CRInv, Work, crVars, objVars, Report, ApplySteps,
     CleanupSteps, Rest
<1>8. CASE AddFinalizer
  BY <1>8 DEF AddFinalizer, CRInv, Work, objVars, Rest, crVars, ApplySteps,
     CleanupSteps
<1>9. CASE NothingToUpgrade
  BY <1>9 DEF NothingToUpgrade, CRInv, crVars, objVars, curVars, ApplySteps,
     CleanupSteps
<1>10. CASE Upgrade
  BY <1>10 DEF Upgrade, CRInv, crVars, ApplySteps, CleanupSteps
<1>11. CASE UpgradeAgain
  BY <1>11 DEF UpgradeAgain, CRInv, Attempts, Rest, crVars, objVars, Got,
     ApplySteps, CleanupSteps
<1>12. CASE Write
  BY <1>12 DEF Write, CRInv, Work, crVars, ReconcileFailed, ApplySteps,
     CleanupSteps, Report, Rest, objVars
<1>13. CASE Applied
  BY <1>13 DEF Applied, CRInv, Work, crVars, objVars, ApplySteps, CleanupSteps
<1>14. CASE Looked
  BY <1>14 DEF Looked, CRInv, Report, ApplySteps, CleanupSteps, Rest, crVars,
     objVars
<1>15. CASE CleanupDelete
  BY <1>15 DEF CleanupDelete, CRInv, DeleteDone, CleanupRest, Rest, crVars,
     ApplySteps, CleanupSteps, Work, workload
<1>16. CASE WorkloadsStopped
  BY <1>16 DEF WorkloadsStopped, CRInv, Report, Work, crVars, objVars, ApplySteps,
     CleanupSteps, Rest
<1>17. CASE RemoveFinalizer
  BY <1>17 DEF RemoveFinalizer, CRInv, Report, ownedBy, Rest, ApplySteps,
     CleanupSteps, crVars, objVars
<1>18. ASSUME NEW o \in Operands, OthersCreate(o) PROVE CRInv'
  BY <1>18 DEF OthersCreate, CRInv, Disturb, crVars, NotMine, ApplySteps,
     CleanupSteps
<1>19. ASSUME NEW o \in Operands, OthersDelete(o) PROVE CRInv'
  BY <1>19 DEF OthersDelete, CRInv, Gone, ApplySteps, CleanupSteps, Disturb, crVars,
     NotMine
<1>20. ASSUME NEW o \in Operands, Vanish(o) PROVE CRInv'
  BY <1>20 DEF Vanish, CRInv, Gone, ApplySteps, CleanupSteps, Disturb, crVars,
     NotMine
<1>21. ASSUME NEW o \in Operands, ChangeHealth(o) PROVE CRInv'
  BY <1>21 DEF ChangeHealth, CRInv, workload, Healths, crVars, NotMine, ApplySteps,
     CleanupSteps
<1>22. ASSUME NEW o \in Operands, Preflight(o) PROVE CRInv'
  BY <1>22 DEF Preflight, CRInv, crVars, objVars, curVars, Report, ApplySteps,
     CleanupSteps, Rest
<1>23. ASSUME NEW o \in Operands, ApplyGet(o) PROVE CRInv'
  BY <1>23 DEF ApplyGet, CRInv, InOrder, ReconcileFailed, Got, crVars, objVars,
     ApplySteps, CleanupSteps, workload, Report, Rest
<1>24. ASSUME NEW o \in Operands, Look(o) PROVE CRInv'
  BY <1>24 DEF Look, CRInv, Rest, crVars, objVars, Report, curVars, ApplySteps,
     CleanupSteps
<1>25. ASSUME NEW o \in Operands, CleanupGet(o) PROVE CRInv'
  BY <1>25 DEF CleanupGet, CRInv, ownedBy, curVars, objVars, CleanupRest,
     ApplySteps, CleanupSteps, crVars
<1>26. CASE UNCHANGED vars
  BY <1>26 DEF CRInv, vars, ApplySteps, CleanupSteps, crVars, objVars, curVars
<1> QED
  BY <1>1, <1>2, <1>3, <1>4, <1>5, <1>6, <1>7, <1>8, <1>9, <1>10, <1>11, <1>12,
     <1>13, <1>14, <1>15, <1>16, <1>17, <1>18, <1>19, <1>20, <1>21, <1>22, <1>23,
     <1>24, <1>25, <1>26 DEF Next, Reconcile, Cluster

\* the finalizer over every owned operand,
LEMMA OwnedStep ==
    ASSUME TypeOK, CRInv, CurInv, OwnedUnderFinalizer, [Next]_vars PROVE OwnedUnderFinalizer'
<1>1. CASE CreateCR
  BY <1>1 DEF CreateCR, OwnedUnderFinalizer, CRInv, CurInv, TypeOK, objVars,
     NotMine, ownedBy, ApplySteps, CleanupSteps, Conditions, Owners, Healths, Steps,
     Attempts
<1>2. CASE DeleteCR
  BY <1>2 DEF DeleteCR, OwnedUnderFinalizer, CRInv, CurInv, TypeOK, ownedBy,
     NotMine, ApplySteps, CleanupSteps, Conditions, Owners, Healths, Steps, Attempts
<1>3. CASE EditCR
  BY <1>3 DEF EditCR, OwnedUnderFinalizer, CRInv, CurInv, TypeOK, objVars, NotMine,
     ownedBy, ApplySteps, CleanupSteps, Conditions, Owners, Healths, Steps, Attempts
<1>4. CASE ChangeSecret
  BY <1>4 DEF ChangeSecret, OwnedUnderFinalizer, CRInv, CurInv, TypeOK, objVars,
     NotMine, ownedBy, ApplySteps, CleanupSteps, Conditions, Owners, Healths, Steps,
     Attempts
<1>5. CASE Interrupted
  BY <1>5 DEF Interrupted, OwnedUnderFinalizer, CRInv, CurInv, TypeOK, Rest, crVars,
     objVars, ownedBy, ApplySteps, CleanupSteps, Conditions, Owners, Healths, Steps,
     Attempts
<1>6. CASE Start
  BY <1>6 DEF Start, OwnedUnderFinalizer, CRInv, CurInv, TypeOK, Work, Rest, crVars,
     objVars, ownedBy, ApplySteps, CleanupSteps, Conditions, Owners, Healths, Steps,
     Attempts
<1>7. CASE ReadSecret
  BY <1>7 DEF ReadSecret, OwnedUnderFinalizer, CRInv, CurInv, TypeOK, Work, crVars,
     objVars, Report, ownedBy, ApplySteps, CleanupSteps, Conditions, Owners,
     Healths, Steps, Attempts, Rest
<1>8. CASE AddFinalizer
  BY <1>8 DEF AddFinalizer, OwnedUnderFinalizer, CRInv, CurInv, TypeOK, Work,
     objVars, Rest, crVars, ownedBy, ApplySteps, CleanupSteps, Conditions, Owners,
     Healths, Steps, Attempts
<1>9. CASE NothingToUpgrade
  BY <1>9 DEF NothingToUpgrade, OwnedUnderFinalizer, CRInv, CurInv, TypeOK, crVars,
     objVars, curVars, ownedBy, ApplySteps, CleanupSteps, Conditions, Owners,
     Healths, Steps, Attempts
<1>10. CASE Upgrade
  BY <1>10 DEF Upgrade, OwnedUnderFinalizer, CRInv, CurInv, TypeOK, crVars, ownedBy,
     ApplySteps, CleanupSteps, Conditions, Owners, Healths, Steps, Attempts
<1>11. CASE UpgradeAgain
  BY <1>11 DEF UpgradeAgain, OwnedUnderFinalizer, CRInv, CurInv, TypeOK, Attempts,
     Rest, crVars, objVars, Got, ownedBy, ApplySteps, CleanupSteps, Conditions,
     Owners, Healths, Steps
<1>12. CASE Write
  BY <1>12 DEF Write, OwnedUnderFinalizer, CRInv, CurInv, TypeOK, Work, crVars,
     ReconcileFailed, ownedBy, ApplySteps, CleanupSteps, Conditions, Owners,
     Healths, Steps, Attempts, Report, Rest, objVars
<1>13. CASE Applied
  BY <1>13 DEF Applied, OwnedUnderFinalizer, CRInv, CurInv, TypeOK, Work, crVars,
     objVars, ownedBy, ApplySteps, CleanupSteps, Conditions, Owners, Healths, Steps,
     Attempts
<1>14. CASE Looked
  BY <1>14 DEF Looked, OwnedUnderFinalizer, CRInv, CurInv, TypeOK, Report, ownedBy,
     ApplySteps, CleanupSteps, Conditions, Owners, Healths, Steps, Attempts, Rest,
     crVars, objVars
<1>15. CASE CleanupDelete
  BY <1>15 DEF CleanupDelete, OwnedUnderFinalizer, CRInv, CurInv, TypeOK,
     DeleteDone, CleanupRest, Rest, crVars, ownedBy, ApplySteps, CleanupSteps,
     Conditions, Owners, Healths, Steps, Attempts, Work, workload
<1>16. CASE WorkloadsStopped
  BY <1>16 DEF WorkloadsStopped, OwnedUnderFinalizer, CRInv, CurInv, TypeOK, Report,
     Work, crVars, objVars, ownedBy, ApplySteps, CleanupSteps, Conditions, Owners,
     Healths, Steps, Attempts, Rest
<1>17. CASE RemoveFinalizer
  BY <1>17 DEF RemoveFinalizer, OwnedUnderFinalizer, CRInv, CurInv, TypeOK, Report,
     ownedBy, Rest, ApplySteps, CleanupSteps, Conditions, Owners, Healths, Steps,
     Attempts, crVars, objVars
<1>18. ASSUME NEW o \in Operands, OthersCreate(o) PROVE OwnedUnderFinalizer'
  BY <1>18 DEF OthersCreate, OwnedUnderFinalizer, CRInv, CurInv, TypeOK, Disturb,
     crVars, NotMine, ownedBy, ApplySteps, CleanupSteps, Conditions, Owners,
     Healths, Steps, Attempts
<1>19. ASSUME NEW o \in Operands, OthersDelete(o) PROVE OwnedUnderFinalizer'
  BY <1>19 DEF OthersDelete, OwnedUnderFinalizer, CRInv, CurInv, TypeOK, Gone,
     ownedBy, ApplySteps, CleanupSteps, Conditions, Owners, Healths, Steps,
     Attempts, Disturb, crVars, NotMine
<1>20. ASSUME NEW o \in Operands, Vanish(o) PROVE OwnedUnderFinalizer'
  BY <1>20 DEF Vanish, OwnedUnderFinalizer, CRInv, CurInv, TypeOK, Gone, ownedBy,
     ApplySteps, CleanupSteps, Conditions, Owners, Healths, Steps, Attempts,
     Disturb, crVars, NotMine
<1>21. ASSUME NEW o \in Operands, ChangeHealth(o) PROVE OwnedUnderFinalizer'
  BY <1>21 DEF ChangeHealth, OwnedUnderFinalizer, CRInv, CurInv, TypeOK, workload,
     Healths, crVars, NotMine, ownedBy, ApplySteps, CleanupSteps, Conditions,
     Owners, Steps, Attempts
<1>22. ASSUME NEW o \in Operands, Preflight(o) PROVE OwnedUnderFinalizer'
  BY <1>22 DEF Preflight, OwnedUnderFinalizer, CRInv, CurInv, TypeOK, crVars,
     objVars, curVars, Report, ownedBy, ApplySteps, CleanupSteps, Conditions,
     Owners, Healths, Steps, Attempts, Rest
<1>23. ASSUME NEW o \in Operands, ApplyGet(o) PROVE OwnedUnderFinalizer'
  BY <1>23 DEF ApplyGet, OwnedUnderFinalizer, CRInv, CurInv, TypeOK, InOrder,
     ReconcileFailed, Got, crVars, objVars, ownedBy, ApplySteps, CleanupSteps,
     Conditions, Owners, Healths, Steps, Attempts, workload, Report, Rest
<1>24. ASSUME NEW o \in Operands, Look(o) PROVE OwnedUnderFinalizer'
  BY <1>24 DEF Look, OwnedUnderFinalizer, CRInv, CurInv, TypeOK, Rest, crVars,
     objVars, Report, curVars, ownedBy, ApplySteps, CleanupSteps, Conditions,
     Owners, Healths, Steps, Attempts
<1>25. ASSUME NEW o \in Operands, CleanupGet(o) PROVE OwnedUnderFinalizer'
  BY <1>25 DEF CleanupGet, OwnedUnderFinalizer, CRInv, CurInv, TypeOK, ownedBy,
     curVars, objVars, CleanupRest, ApplySteps, CleanupSteps, Conditions, Owners,
     Healths, Steps, Attempts, crVars
<1>26. CASE UNCHANGED vars
  BY <1>26 DEF OwnedUnderFinalizer, CRInv, CurInv, TypeOK, vars, ownedBy,
     ApplySteps, CleanupSteps, Conditions, Owners, Healths, Steps, Attempts, crVars,
     objVars, curVars
<1> QED
  BY <1>1, <1>2, <1>3, <1>4, <1>5, <1>6, <1>7, <1>8, <1>9, <1>10, <1>11, <1>12,
     <1>13, <1>14, <1>15, <1>16, <1>17, <1>18, <1>19, <1>20, <1>21, <1>22, <1>23,
     <1>24, <1>25, <1>26 DEF Next, Reconcile, Cluster

\* what is known of the operand being worked on,
LEMMA CurStep ==
    ASSUME TypeOK, CRInv, CurInv, [Next]_vars PROVE CurInv'
<1> USE OperandAssumption
<1>1. CASE CreateCR
  BY <1>1 DEF CreateCR, CurInv, CRInv, TypeOK, Operands, objVars, NotMine, ownedBy,
     ApplySteps, CleanupSteps, Conditions, Owners, Healths, Steps, Attempts
<1>2. CASE DeleteCR
  BY <1>2 DEF DeleteCR, CurInv, CRInv, TypeOK, Operands, ownedBy, NotMine,
     ApplySteps, CleanupSteps, Conditions, Owners, Healths, Steps, Attempts
<1>3. CASE EditCR
  BY <1>3 DEF EditCR, CurInv, CRInv, TypeOK, Operands, objVars, NotMine, ownedBy,
     ApplySteps, CleanupSteps, Conditions, Owners, Healths, Steps, Attempts
<1>4. CASE ChangeSecret
  BY <1>4 DEF ChangeSecret, CurInv, CRInv, TypeOK, Operands, objVars, NotMine,
     ownedBy, ApplySteps, CleanupSteps, Conditions, Owners, Healths, Steps, Attempts
<1>5. CASE Interrupted
  BY <1>5 DEF Interrupted, CurInv, CRInv, TypeOK, Operands, Rest, crVars, objVars,
     ownedBy, ApplySteps, CleanupSteps, Conditions, Owners, Healths, Steps, Attempts
<1>6. CASE Start
  BY <1>6 DEF Start, CurInv, CRInv, TypeOK, Operands, Work, Rest, crVars, objVars,
     ownedBy, ApplySteps, CleanupSteps, Conditions, Owners, Healths, Steps, Attempts
<1>7. CASE ReadSecret
  BY <1>7 DEF ReadSecret, CurInv, CRInv, TypeOK, Operands, Work, crVars, objVars,
     Report, ownedBy, ApplySteps, CleanupSteps, Conditions, Owners, Healths, Steps,
     Attempts, Rest
<1>8. CASE AddFinalizer
  BY <1>8 DEF AddFinalizer, CurInv, CRInv, TypeOK, Operands, Work, objVars, Rest,
     crVars, ownedBy, ApplySteps, CleanupSteps, Conditions, Owners, Healths, Steps,
     Attempts
<1>9. CASE NothingToUpgrade
  BY <1>9 DEF NothingToUpgrade, CurInv, CRInv, TypeOK, Operands, crVars, objVars,
     curVars, ownedBy, ApplySteps, CleanupSteps, Conditions, Owners, Healths, Steps,
     Attempts
<1>10. CASE Upgrade
  BY <1>10 DEF Upgrade, CurInv, CRInv, TypeOK, Operands, crVars, ownedBy,
     ApplySteps, CleanupSteps, Conditions, Owners, Healths, Steps, Attempts
<1>11. CASE UpgradeAgain
  BY <1>11 DEF UpgradeAgain, CurInv, CRInv, TypeOK, Operands, Attempts, Rest,
     crVars, objVars, Got, ownedBy, ApplySteps, CleanupSteps, Conditions, Owners,
     Healths, Steps
<1>12. CASE Write
  BY <1>12 DEF Write, CurInv, CRInv, TypeOK, Operands, Work, crVars,
     ReconcileFailed, ownedBy, ApplySteps, CleanupSteps, Conditions, Owners,
     Healths, Steps, Attempts, Report, Rest, objVars
<1>13. CASE Applied
  BY <1>13 DEF Applied, CurInv, CRInv, TypeOK, Operands, Work, crVars, objVars,
     ownedBy, ApplySteps, CleanupSteps, Conditions, Owners, Healths, Steps, Attempts
<1>14. CASE Looked
  BY <1>14 DEF Looked, CurInv, CRInv, TypeOK, Operands, Report, ownedBy, ApplySteps,
     CleanupSteps, Conditions, Owners, Healths, Steps, Attempts, Rest, crVars,
     objVars
<1>15. CASE CleanupDelete
  BY <1>15 DEF CleanupDelete, CurInv, CRInv, TypeOK, Operands, DeleteDone,
     CleanupRest, Rest, crVars, ownedBy, ApplySteps, CleanupSteps, Conditions,
     Owners, Healths, Steps, Attempts, Work, workload
<1>16. CASE WorkloadsStopped
  BY <1>16 DEF WorkloadsStopped, CurInv, CRInv, TypeOK, Operands, Report, Work,
     crVars, objVars, ownedBy, ApplySteps, CleanupSteps, Conditions, Owners,
     Healths, Steps, Attempts, Rest
<1>17. CASE RemoveFinalizer
  BY <1>17 DEF RemoveFinalizer, CurInv, CRInv, TypeOK, Operands, Report, ownedBy,
     Rest, ApplySteps, CleanupSteps, Conditions, Owners, Healths, Steps, Attempts,
     crVars, objVars
<1>18. ASSUME NEW o \in Operands, OthersCreate(o) PROVE CurInv'
  BY <1>18 DEF OthersCreate, CurInv, CRInv, TypeOK, Operands, Disturb, crVars,
     NotMine, ownedBy, ApplySteps, CleanupSteps, Conditions, Owners, Healths, Steps,
     Attempts
<1>19. ASSUME NEW o \in Operands, OthersDelete(o) PROVE CurInv'
  BY <1>19 DEF OthersDelete, CurInv, CRInv, TypeOK, Operands, Gone, ownedBy,
     ApplySteps, CleanupSteps, Conditions, Owners, Healths, Steps, Attempts,
     Disturb, crVars, NotMine
<1>20. ASSUME NEW o \in Operands, Vanish(o) PROVE CurInv'
  BY <1>20 DEF Vanish, CurInv, CRInv, TypeOK, Operands, Gone, ownedBy, ApplySteps,
     CleanupSteps, Conditions, Owners, Healths, Steps, Attempts, Disturb, crVars,
     NotMine
<1>21. ASSUME NEW o \in Operands, ChangeHealth(o) PROVE CurInv'
  BY <1>21 DEF ChangeHealth, CurInv, CRInv, TypeOK, Operands, workload, Healths,
     crVars, NotMine, ownedBy, ApplySteps, CleanupSteps, Conditions, Owners, Steps,
     Attempts
<1>22. ASSUME NEW o \in Operands, Preflight(o) PROVE CurInv'
  BY <1>22 DEF Preflight, CurInv, CRInv, TypeOK, Operands, crVars, objVars, curVars,
     Report, ownedBy, ApplySteps, CleanupSteps, Conditions, Owners, Healths, Steps,
     Attempts, Rest
<1>23. ASSUME NEW o \in Operands, ApplyGet(o) PROVE CurInv'
  BY <1>23 DEF ApplyGet, CurInv, CRInv, TypeOK, Operands, InOrder, ReconcileFailed,
     Got, crVars, objVars, ownedBy, ApplySteps, CleanupSteps, Conditions, Owners,
     Healths, Steps, Attempts, workload, Report, Rest
<1>24. ASSUME NEW o \in Operands, Look(o) PROVE CurInv'
  BY <1>24 DEF Look, CurInv, CRInv, TypeOK, Operands, Rest, crVars, objVars, Report,
     curVars, ownedBy, ApplySteps, CleanupSteps, Conditions, Owners, Healths, Steps,
     Attempts
<1>25. ASSUME NEW o \in Operands, CleanupGet(o) PROVE CurInv'
  BY <1>25 DEF CleanupGet, CurInv, CRInv, TypeOK, Operands, ownedBy, curVars,
     objVars, CleanupRest, ApplySteps, CleanupSteps, Conditions, Owners, Healths,
     Steps, Attempts, crVars
<1>26. CASE UNCHANGED vars
  BY <1>26 DEF CurInv, CRInv, TypeOK, Operands, vars, ownedBy, ApplySteps,
     CleanupSteps, Conditions, Owners, Healths, Steps, Attempts, crVars, objVars,
     curVars
<1> QED
  BY <1>1, <1>2, <1>3, <1>4, <1>5, <1>6, <1>7, <1>8, <1>9, <1>10, <1>11, <1>12,
     <1>13, <1>14, <1>15, <1>16, <1>17, <1>18, <1>19, <1>20, <1>21, <1>22, <1>23,
     <1>24, <1>25, <1>26 DEF Next, Reconcile, Cluster

\* and that what cleanup has passed stays gone.
LEMMA PassStep ==
    ASSUME TypeOK, CRInv, CurInv, PassInv, [Next]_vars PROVE PassInv'
<1> USE OperandAssumption
<1>1. CASE CreateCR
  BY <1>1 DEF CreateCR, PassInv, CRInv, CurInv, TypeOK, Operands, objVars, NotMine,
     ownedBy, ApplySteps, CleanupSteps, Conditions, Owners, Healths, Steps, Attempts
<1>2. CASE DeleteCR
  BY <1>2 DEF DeleteCR, PassInv, CRInv, CurInv, TypeOK, Operands, ownedBy, NotMine,
     ApplySteps, CleanupSteps, Conditions, Owners, Healths, Steps, Attempts
<1>3. CASE EditCR
  BY <1>3 DEF EditCR, PassInv, CRInv, CurInv, TypeOK, Operands, objVars, NotMine,
     ownedBy, ApplySteps, CleanupSteps, Conditions, Owners, Healths, Steps, Attempts
<1>4. CASE ChangeSecret
  BY <1>4 DEF ChangeSecret, PassInv, CRInv, CurInv, TypeOK, Operands, objVars,
     NotMine, ownedBy, ApplySteps, CleanupSteps, Conditions, Owners, Healths, Steps,
     Attempts
<1>5. CASE Interrupted
  BY <1>5 DEF Interrupted, PassInv, CRInv, CurInv, TypeOK, Operands, Rest, crVars,
     objVars, ownedBy, ApplySteps, CleanupSteps, Conditions, Owners, Healths, Steps,
     Attempts
<1>6. CASE Start
  BY <1>6 DEF Start, PassInv, CRInv, CurInv, TypeOK, Operands, Work, Rest, crVars,
     objVars, ownedBy, ApplySteps, CleanupSteps, Conditions, Owners, Healths, Steps,
     Attempts
<1>7. CASE ReadSecret
  BY <1>7 DEF ReadSecret, PassInv, CRInv, CurInv, TypeOK, Operands, Work, crVars,
     objVars, Report, ownedBy, ApplySteps, CleanupSteps, Conditions, Owners,
     Healths, Steps, Attempts, Rest
<1>8. CASE AddFinalizer
  BY <1>8 DEF AddFinalizer, PassInv, CRInv, CurInv, TypeOK, Operands, Work, objVars,
     Rest, crVars, ownedBy, ApplySteps, CleanupSteps, Conditions, Owners, Healths,
     Steps, Attempts
<1>9. CASE NothingToUpgrade
  BY <1>9 DEF NothingToUpgrade, PassInv, CRInv, CurInv, TypeOK, Operands, crVars,
     objVars, curVars, ownedBy, ApplySteps, CleanupSteps, Conditions, Owners,
     Healths, Steps, Attempts
<1>10. CASE Upgrade
  BY <1>10 DEF Upgrade, PassInv, CRInv, CurInv, TypeOK, Operands, crVars, ownedBy,
     ApplySteps, CleanupSteps, Conditions, Owners, Healths, Steps, Attempts
<1>11. CASE UpgradeAgain
  BY <1>11 DEF UpgradeAgain, PassInv, CRInv, CurInv, TypeOK, Operands, Attempts,
     Rest, crVars, objVars, Got, ownedBy, ApplySteps, CleanupSteps, Conditions,
     Owners, Healths, Steps
<1>12. CASE Write
  BY <1>12 DEF Write, PassInv, CRInv, CurInv, TypeOK, Operands, Work, crVars,
     ReconcileFailed, ownedBy, ApplySteps, CleanupSteps, Conditions, Owners,
     Healths, Steps, Attempts, Report, Rest, objVars
<1>13. CASE Applied
  BY <1>13 DEF Applied, PassInv, CRInv, CurInv, TypeOK, Operands, Work, crVars,
     objVars, ownedBy, ApplySteps, CleanupSteps, Conditions, Owners, Healths, Steps,
     Attempts
<1>14. CASE Looked
  BY <1>14 DEF Looked, PassInv, CRInv, CurInv, TypeOK, Operands, Report, ownedBy,
     ApplySteps, CleanupSteps, Conditions, Owners, Healths, Steps, Attempts, Rest,
     crVars, objVars
<1>15. CASE CleanupDelete
  BY <1>15 DEF CleanupDelete, PassInv, CRInv, CurInv, TypeOK, Operands, DeleteDone,
     CleanupRest, Rest, crVars, ownedBy, ApplySteps, CleanupSteps, Conditions,
     Owners, Healths, Steps, Attempts, Work, workload
<1>16. CASE WorkloadsStopped
  BY <1>16 DEF WorkloadsStopped, PassInv, CRInv, CurInv, TypeOK, Operands, Report,
     Work, crVars, objVars, ownedBy, ApplySteps, CleanupSteps, Conditions, Owners,
     Healths, Steps, Attempts, Rest
<1>17. CASE RemoveFinalizer
  BY <1>17 DEF RemoveFinalizer, PassInv, CRInv, CurInv, TypeOK, Operands, Report,
     ownedBy, Rest, ApplySteps, CleanupSteps, Conditions, Owners, Healths, Steps,
     Attempts, crVars, objVars
<1>18. ASSUME NEW o \in Operands, OthersCreate(o) PROVE PassInv'
  BY <1>18 DEF OthersCreate, PassInv, CRInv, CurInv, TypeOK, Operands, Disturb,
     crVars, NotMine, ownedBy, ApplySteps, CleanupSteps, Conditions, Owners,
     Healths, Steps, Attempts
<1>19. ASSUME NEW o \in Operands, OthersDelete(o) PROVE PassInv'
  BY <1>19 DEF OthersDelete, PassInv, CRInv, CurInv, TypeOK, Operands, Gone,
     ownedBy, ApplySteps, CleanupSteps, Conditions, Owners, Healths, Steps,
     Attempts, Disturb, crVars, NotMine
<1>20. ASSUME NEW o \in Operands, Vanish(o) PROVE PassInv'
  BY <1>20 DEF Vanish, PassInv, CRInv, CurInv, TypeOK, Operands, Gone, ownedBy,
     ApplySteps, CleanupSteps, Conditions, Owners, Healths, Steps, Attempts,
     Disturb, crVars, NotMine
<1>21. ASSUME NEW o \in Operands, ChangeHealth(o) PROVE PassInv'
  BY <1>21 DEF ChangeHealth, PassInv, CRInv, CurInv, TypeOK, Operands, workload,
     Healths, crVars, NotMine, ownedBy, ApplySteps, CleanupSteps, Conditions,
     Owners, Steps, Attempts
<1>22. ASSUME NEW o \in Operands, Preflight(o) PROVE PassInv'
  BY <1>22 DEF Preflight, PassInv, CRInv, CurInv, TypeOK, Operands, crVars, objVars,
     curVars, Report, ownedBy, ApplySteps, CleanupSteps, Conditions, Owners,
     Healths, Steps, Attempts, Rest
<1>23. ASSUME NEW o \in Operands, ApplyGet(o) PROVE PassInv'
  BY <1>23 DEF ApplyGet, PassInv, CRInv, CurInv, TypeOK, Operands, InOrder,
     ReconcileFailed, Got, crVars, objVars, ownedBy, ApplySteps, CleanupSteps,
     Conditions, Owners, Healths, Steps, Attempts, workload, Report, Rest
<1>24. ASSUME NEW o \in Operands, Look(o) PROVE PassInv'
  BY <1>24 DEF Look, PassInv, CRInv, CurInv, TypeOK, Operands, Rest, crVars,
     objVars, Report, curVars, ownedBy, ApplySteps, CleanupSteps, Conditions,
     Owners, Healths, Steps, Attempts
<1>25. ASSUME NEW o \in Operands, CleanupGet(o) PROVE PassInv'
  BY <1>25 DEF CleanupGet, PassInv, CRInv, CurInv, TypeOK, Operands, ownedBy,
     curVars, objVars, CleanupRest, ApplySteps, CleanupSteps, Conditions, Owners,
     Healths, Steps, Attempts, crVars
<1>26. CASE UNCHANGED vars
  BY <1>26 DEF PassInv, CRInv, CurInv, TypeOK, Operands, vars, ownedBy, ApplySteps,
     CleanupSteps, Conditions, Owners, Healths, Steps, Attempts, crVars, objVars,
     curVars
<1> QED
  BY <1>1, <1>2, <1>3, <1>4, <1>5, <1>6, <1>7, <1>8, <1>9, <1>10, <1>11, <1>12,
     <1>13, <1>14, <1>15, <1>16, <1>17, <1>18, <1>19, <1>20, <1>21, <1>22, <1>23,
     <1>24, <1>25, <1>26 DEF Next, Reconcile, Cluster

\* So is that it has read no object of somebody else.
LEMMA ReadStep ==
    ASSUME TypeOK, CRInv, CurInv, ReadInv, [Next]_vars PROVE ReadInv'
<1> USE OperandAssumption, BoundAssumption
<1>1. CASE CreateCR
  BY <1>1 DEF CreateCR, ReadInv, CRInv, CurInv, TypeOK, Operands, objVars, NotMine,
     ApplySteps, CleanupSteps, ownedBy, Conditions, Owners, Healths, Steps, Attempts
<1>2. CASE DeleteCR
  BY <1>2 DEF DeleteCR, ReadInv, CRInv, CurInv, TypeOK, Operands, ownedBy, NotMine,
     ApplySteps, CleanupSteps, Conditions, Owners, Healths, Steps, Attempts
<1>3. CASE EditCR
  BY <1>3 DEF EditCR, ReadInv, CRInv, CurInv, TypeOK, Operands, objVars, NotMine,
     ApplySteps, CleanupSteps, ownedBy, Conditions, Owners, Healths, Steps, Attempts
<1>4. CASE ChangeSecret
  BY <1>4 DEF ChangeSecret, ReadInv, CRInv, CurInv, TypeOK, Operands, objVars,
     NotMine, ApplySteps, CleanupSteps, ownedBy, Conditions, Owners, Healths, Steps,
     Attempts
<1>5. CASE Interrupted
  BY <1>5 DEF Interrupted, ReadInv, CRInv, CurInv, TypeOK, Operands, Rest, crVars,
     objVars, ApplySteps, CleanupSteps, ownedBy, Conditions, Owners, Healths, Steps,
     Attempts
<1>6. CASE Start
  BY <1>6 DEF Start, ReadInv, CRInv, CurInv, TypeOK, Operands, Work, Rest, crVars,
     objVars, ApplySteps, CleanupSteps, ownedBy, Conditions, Owners, Healths, Steps,
     Attempts
<1>7. CASE ReadSecret
  BY <1>7 DEF ReadSecret, ReadInv, CRInv, CurInv, TypeOK, Operands, Work, crVars,
     objVars, Report, ApplySteps, CleanupSteps, ownedBy, Conditions, Owners,
     Healths, Steps, Attempts, Rest
<1>8. CASE AddFinalizer
  BY <1>8 DEF AddFinalizer, ReadInv, CRInv, CurInv, TypeOK, Operands, Work, objVars,
     Rest, crVars, ApplySteps, CleanupSteps, ownedBy, Conditions, Owners, Healths,
     Steps, Attempts
<1>9. CASE NothingToUpgrade
  BY <1>9 DEF NothingToUpgrade, ReadInv, CRInv, CurInv, TypeOK, Operands, crVars,
     objVars, curVars, ApplySteps, CleanupSteps, ownedBy, Conditions, Owners,
     Healths, Steps, Attempts
<1>10. CASE Upgrade
  BY <1>10 DEF Upgrade, ReadInv, CRInv, CurInv, TypeOK, Operands, crVars,
     ApplySteps, CleanupSteps, ownedBy, Conditions, Owners, Healths, Steps, Attempts
<1>11. CASE UpgradeAgain
  <2>1. tries \in Nat
    BY SMT DEF TypeOK, Attempts
  <2>2. CASE Rest
    BY <2>2 DEF Rest, ReadInv
  <2>3. CASE tries' = tries + 1
    BY SMT, <2>1, <2>3 DEF ReadInv
  <2> QED
    BY <1>11, <2>2, <2>3 DEF UpgradeAgain

<1>12. CASE Write
  BY <1>12 DEF Write, ReadInv, CRInv, CurInv, TypeOK, Operands, Work, crVars,
     ReconcileFailed, ApplySteps, CleanupSteps, ownedBy, Conditions, Owners,
     Healths, Steps, Attempts, Report, Rest, objVars
<1>13. CASE Applied
  BY <1>13 DEF Applied, ReadInv, CRInv, CurInv, TypeOK, Operands, Work, crVars,
     objVars, ApplySteps, CleanupSteps, ownedBy, Conditions, Owners, Healths, Steps,
     Attempts
<1>14. CASE Looked
  BY <1>14 DEF Looked, ReadInv, CRInv, CurInv, TypeOK, Operands, Report, ApplySteps,
     CleanupSteps, ownedBy, Conditions, Owners, Healths, Steps, Attempts, Rest,
     crVars, objVars
<1>15. CASE CleanupDelete
  BY <1>15 DEF CleanupDelete, ReadInv, CRInv, CurInv, TypeOK, Operands, DeleteDone,
     CleanupRest, Rest, crVars, ApplySteps, CleanupSteps, ownedBy, Conditions,
     Owners, Healths, Steps, Attempts, Work, workload
<1>16. CASE WorkloadsStopped
  BY <1>16 DEF WorkloadsStopped, ReadInv, CRInv, CurInv, TypeOK, Operands, Report,
     Work, crVars, objVars, ApplySteps, CleanupSteps, ownedBy, Conditions, Owners,
     Healths, Steps, Attempts, Rest
<1>17. CASE RemoveFinalizer
  BY <1>17 DEF RemoveFinalizer, ReadInv, CRInv, CurInv, TypeOK, Operands, Report,
     ownedBy, Rest, ApplySteps, CleanupSteps, Conditions, Owners, Healths, Steps,
     Attempts, crVars, objVars
<1>18. ASSUME NEW o \in Operands, OthersCreate(o) PROVE ReadInv'
  BY <1>18 DEF OthersCreate, ReadInv, CRInv, CurInv, TypeOK, Operands, Disturb,
     crVars, NotMine, ApplySteps, CleanupSteps, ownedBy, Conditions, Owners,
     Healths, Steps, Attempts
<1>19. ASSUME NEW o \in Operands, OthersDelete(o) PROVE ReadInv'
  BY <1>19 DEF OthersDelete, ReadInv, CRInv, CurInv, TypeOK, Operands, Gone,
     ApplySteps, CleanupSteps, ownedBy, Conditions, Owners, Healths, Steps,
     Attempts, Disturb, crVars, NotMine
<1>20. ASSUME NEW o \in Operands, Vanish(o) PROVE ReadInv'
  BY <1>20 DEF Vanish, ReadInv, CRInv, CurInv, TypeOK, Operands, Gone, ApplySteps,
     CleanupSteps, ownedBy, Conditions, Owners, Healths, Steps, Attempts, Disturb,
     crVars, NotMine
<1>21. ASSUME NEW o \in Operands, ChangeHealth(o) PROVE ReadInv'
  BY <1>21 DEF ChangeHealth, ReadInv, CRInv, CurInv, TypeOK, Operands, workload,
     Healths, crVars, NotMine, ApplySteps, CleanupSteps, ownedBy, Conditions,
     Owners, Steps, Attempts
<1>22. ASSUME NEW o \in Operands, Preflight(o) PROVE ReadInv'
  BY <1>22 DEF Preflight, ReadInv, CRInv, CurInv, TypeOK, Operands, crVars, objVars,
     curVars, Report, ApplySteps, CleanupSteps, ownedBy, Conditions, Owners,
     Healths, Steps, Attempts, Rest
<1>23. ASSUME NEW o \in Operands, ApplyGet(o) PROVE ReadInv'
  BY <1>23 DEF ApplyGet, ReadInv, CRInv, CurInv, TypeOK, Operands, InOrder,
     ReconcileFailed, Got, crVars, objVars, ApplySteps, CleanupSteps, ownedBy,
     Conditions, Owners, Healths, Steps, Attempts, workload, Report, Rest
<1>24. ASSUME NEW o \in Operands, Look(o) PROVE ReadInv'
  BY <1>24 DEF Look, ReadInv, CRInv, CurInv, TypeOK, Operands, Rest, crVars,
     objVars, Report, curVars, ApplySteps, CleanupSteps, ownedBy, Conditions,
     Owners, Healths, Steps, Attempts
<1>25. ASSUME NEW o \in Operands, CleanupGet(o) PROVE ReadInv'
  BY <1>25 DEF CleanupGet, ReadInv, CRInv, CurInv, TypeOK, Operands, ownedBy,
     curVars, objVars, CleanupRest, ApplySteps, CleanupSteps, Conditions, Owners,
     Healths, Steps, Attempts, crVars
<1>26. CASE UNCHANGED vars
  BY <1>26 DEF ReadInv, CRInv, CurInv, TypeOK, Operands, vars, ApplySteps,
     CleanupSteps, ownedBy, Conditions, Owners, Healths, Steps, Attempts, crVars,
     objVars, curVars
<1> QED
  BY <1>1, <1>2, <1>3, <1>4, <1>5, <1>6, <1>7, <1>8, <1>9, <1>10, <1>11, <1>12,
     <1>13, <1>14, <1>15, <1>16, <1>17, <1>18, <1>19, <1>20, <1>21, <1>22, <1>23,
     <1>24, <1>25, <1>26 DEF Next, Reconcile, Cluster

\* The invariant is inductive.
LEMMA InvStep == IInv /\ [Next]_vars => IInv'
BY FlagStep, CountStep, TypeStep, CRStep, OwnedStep, CurStep, PassStep, ReadStep DEF IInv, TypeOK, TypeFlags, TypeCounts, TypeRest

\* The inductive invariant: the finalizer covers every operand, and where a pass of
\* Reconcile is says what holds of the CR and of the operands it has read or passed.
THEOREM Invariance == Spec => []IInv
BY InitInv, InvStep, PTL DEF Spec

\* Every variable keeps its type: among other things upgradeManagedFields gives up after
\* its last attempt.
THEOREM TypeCorrect == Spec => []TypeOK
BY Invariance, PTL DEF IInv

\* No operand of a CR exists without the finalizer that lets cleanup remove it, whatever
\* happens to the CR between Reconcile's GET and the update that stores the finalizer.
THEOREM OwnedUnderFinalizerHolds == Spec => []OwnedUnderFinalizer
BY Invariance, PTL DEF IInv

\* When the CR goes, none of its operands is left.
NoOrphan == (cr # "absent" /\ cr' = "absent" => \A o \in Operands : ~ownedBy(o))

LEMMA OrphanStep ==
    ASSUME IInv, [Next]_vars PROVE NoOrphan
<1> USE OperandAssumption DEF IInv
<1>1. CASE CreateCR
  BY <1>1 DEF CreateCR, NoOrphan, OwnedUnderFinalizer, CRInv, PassInv, TypeOK,
     Operands, objVars, NotMine, ownedBy, ApplySteps, CleanupSteps, Conditions,
     Owners, Healths, Steps, Attempts
<1>2. CASE DeleteCR
  BY <1>2 DEF DeleteCR, NoOrphan, OwnedUnderFinalizer, CRInv, PassInv, TypeOK,
     Operands, ownedBy, NotMine, ApplySteps, CleanupSteps, Conditions, Owners,
     Healths, Steps, Attempts
<1>3. CASE EditCR
  BY <1>3 DEF EditCR, NoOrphan, OwnedUnderFinalizer, CRInv, PassInv, TypeOK,
     Operands, objVars, NotMine, ownedBy, ApplySteps, CleanupSteps, Conditions,
     Owners, Healths, Steps, Attempts
<1>4. CASE ChangeSecret
  BY <1>4 DEF ChangeSecret, NoOrphan, OwnedUnderFinalizer, CRInv, PassInv, TypeOK,
     Operands, objVars, NotMine, ownedBy, ApplySteps, CleanupSteps, Conditions,
     Owners, Healths, Steps, Attempts
<1>5. CASE Interrupted
  BY <1>5 DEF Interrupted, NoOrphan, OwnedUnderFinalizer, CRInv, PassInv, TypeOK,
     Operands, Rest, crVars, objVars, ownedBy, ApplySteps, CleanupSteps, Conditions,
     Owners, Healths, Steps, Attempts
<1>6. CASE Start
  BY <1>6 DEF Start, NoOrphan, OwnedUnderFinalizer, CRInv, PassInv, TypeOK,
     Operands, Work, Rest, crVars, objVars, ownedBy, ApplySteps, CleanupSteps,
     Conditions, Owners, Healths, Steps, Attempts
<1>7. CASE ReadSecret
  BY <1>7 DEF ReadSecret, NoOrphan, OwnedUnderFinalizer, CRInv, PassInv, TypeOK,
     Operands, Work, crVars, objVars, Report, ownedBy, ApplySteps, CleanupSteps,
     Conditions, Owners, Healths, Steps, Attempts, Rest
<1>8. CASE AddFinalizer
  BY <1>8 DEF AddFinalizer, NoOrphan, OwnedUnderFinalizer, CRInv, PassInv, TypeOK,
     Operands, Work, objVars, Rest, crVars, ownedBy, ApplySteps, CleanupSteps,
     Conditions, Owners, Healths, Steps, Attempts
<1>9. CASE NothingToUpgrade
  BY <1>9 DEF NothingToUpgrade, NoOrphan, OwnedUnderFinalizer, CRInv, PassInv,
     TypeOK, Operands, crVars, objVars, curVars, ownedBy, ApplySteps, CleanupSteps,
     Conditions, Owners, Healths, Steps, Attempts
<1>10. CASE Upgrade
  BY <1>10 DEF Upgrade, NoOrphan, OwnedUnderFinalizer, CRInv, PassInv, TypeOK,
     Operands, crVars, ownedBy, ApplySteps, CleanupSteps, Conditions, Owners,
     Healths, Steps, Attempts
<1>11. CASE UpgradeAgain
  BY <1>11 DEF UpgradeAgain, NoOrphan, OwnedUnderFinalizer, CRInv, PassInv, TypeOK,
     Operands, Attempts, Rest, crVars, objVars, Got, ownedBy, ApplySteps,
     CleanupSteps, Conditions, Owners, Healths, Steps
<1>12. CASE Write
  BY <1>12 DEF Write, NoOrphan, OwnedUnderFinalizer, CRInv, PassInv, TypeOK,
     Operands, Work, crVars, ReconcileFailed, ownedBy, ApplySteps, CleanupSteps,
     Conditions, Owners, Healths, Steps, Attempts, Report, Rest, objVars
<1>13. CASE Applied
  BY <1>13 DEF Applied, NoOrphan, OwnedUnderFinalizer, CRInv, PassInv, TypeOK,
     Operands, Work, crVars, objVars, ownedBy, ApplySteps, CleanupSteps, Conditions,
     Owners, Healths, Steps, Attempts
<1>14. CASE Looked
  BY <1>14 DEF Looked, NoOrphan, OwnedUnderFinalizer, CRInv, PassInv, TypeOK,
     Operands, Report, ownedBy, ApplySteps, CleanupSteps, Conditions, Owners,
     Healths, Steps, Attempts, Rest, crVars, objVars
<1>15. CASE CleanupDelete
  BY <1>15 DEF CleanupDelete, NoOrphan, OwnedUnderFinalizer, CRInv, PassInv, TypeOK,
     Operands, DeleteDone, CleanupRest, Rest, crVars, ownedBy, ApplySteps,
     CleanupSteps, Conditions, Owners, Healths, Steps, Attempts, Work, workload
<1>16. CASE WorkloadsStopped
  BY <1>16 DEF WorkloadsStopped, NoOrphan, OwnedUnderFinalizer, CRInv, PassInv,
     TypeOK, Operands, Report, Work, crVars, objVars, ownedBy, ApplySteps,
     CleanupSteps, Conditions, Owners, Healths, Steps, Attempts, Rest
<1>17. CASE RemoveFinalizer
  BY <1>17 DEF RemoveFinalizer, NoOrphan, OwnedUnderFinalizer, CRInv, PassInv,
     TypeOK, Operands, Report, ownedBy, Rest, ApplySteps, CleanupSteps, Conditions,
     Owners, Healths, Steps, Attempts, crVars, objVars
<1>18. ASSUME NEW o \in Operands, OthersCreate(o) PROVE NoOrphan
  BY <1>18 DEF OthersCreate, NoOrphan, OwnedUnderFinalizer, CRInv, PassInv, TypeOK,
     Operands, Disturb, crVars, NotMine, ownedBy, ApplySteps, CleanupSteps,
     Conditions, Owners, Healths, Steps, Attempts
<1>19. ASSUME NEW o \in Operands, OthersDelete(o) PROVE NoOrphan
  BY <1>19 DEF OthersDelete, NoOrphan, OwnedUnderFinalizer, CRInv, PassInv, TypeOK,
     Operands, Gone, ownedBy, ApplySteps, CleanupSteps, Conditions, Owners, Healths,
     Steps, Attempts, Disturb, crVars, NotMine
<1>20. ASSUME NEW o \in Operands, Vanish(o) PROVE NoOrphan
  BY <1>20 DEF Vanish, NoOrphan, OwnedUnderFinalizer, CRInv, PassInv, TypeOK,
     Operands, Gone, ownedBy, ApplySteps, CleanupSteps, Conditions, Owners, Healths,
     Steps, Attempts, Disturb, crVars, NotMine
<1>21. ASSUME NEW o \in Operands, ChangeHealth(o) PROVE NoOrphan
  BY <1>21 DEF ChangeHealth, NoOrphan, OwnedUnderFinalizer, CRInv, PassInv, TypeOK,
     Operands, workload, Healths, crVars, NotMine, ownedBy, ApplySteps,
     CleanupSteps, Conditions, Owners, Steps, Attempts
<1>22. ASSUME NEW o \in Operands, Preflight(o) PROVE NoOrphan
  BY <1>22 DEF Preflight, NoOrphan, OwnedUnderFinalizer, CRInv, PassInv, TypeOK,
     Operands, crVars, objVars, curVars, Report, ownedBy, ApplySteps, CleanupSteps,
     Conditions, Owners, Healths, Steps, Attempts, Rest
<1>23. ASSUME NEW o \in Operands, ApplyGet(o) PROVE NoOrphan
  BY <1>23 DEF ApplyGet, NoOrphan, OwnedUnderFinalizer, CRInv, PassInv, TypeOK,
     Operands, InOrder, ReconcileFailed, Got, crVars, objVars, ownedBy, ApplySteps,
     CleanupSteps, Conditions, Owners, Healths, Steps, Attempts, workload, Report,
     Rest
<1>24. ASSUME NEW o \in Operands, Look(o) PROVE NoOrphan
  BY <1>24 DEF Look, NoOrphan, OwnedUnderFinalizer, CRInv, PassInv, TypeOK,
     Operands, Rest, crVars, objVars, Report, curVars, ownedBy, ApplySteps,
     CleanupSteps, Conditions, Owners, Healths, Steps, Attempts
<1>25. ASSUME NEW o \in Operands, CleanupGet(o) PROVE NoOrphan
  BY <1>25 DEF CleanupGet, NoOrphan, OwnedUnderFinalizer, CRInv, PassInv, TypeOK,
     Operands, ownedBy, curVars, objVars, CleanupRest, ApplySteps, CleanupSteps,
     Conditions, Owners, Healths, Steps, Attempts, crVars
<1>26. CASE UNCHANGED vars
  BY <1>26 DEF NoOrphan, OwnedUnderFinalizer, CRInv, PassInv, TypeOK, Operands,
     vars, ownedBy, ApplySteps, CleanupSteps, Conditions, Owners, Healths, Steps,
     Attempts, crVars, objVars, curVars
<1> QED
  BY <1>1, <1>2, <1>3, <1>4, <1>5, <1>6, <1>7, <1>8, <1>9, <1>10, <1>11, <1>12,
     <1>13, <1>14, <1>15, <1>16, <1>17, <1>18, <1>19, <1>20, <1>21, <1>22, <1>23,
     <1>24, <1>25, <1>26 DEF Next, Reconcile, Cluster

\* NoOrphans holds of every step: the CR is let go only when its operands are gone.
THEOREM NoOrphansHolds == Spec => NoOrphans
<1>1. IInv /\ [Next]_vars => NoOrphan
  BY OrphanStep
<1> QED
  BY <1>1, Invariance, PTL DEF Spec, NoOrphans, NoOrphan

\* What a step marks for deletion is the CR's, and with its workloads gone if it is
\* none of them.
DeleteOwned == (\A o \in Operands : dying'[o] /\ ~dying[o] => ownedBy(o))

LEMMA DeleteStep ==
    ASSUME IInv, [Next]_vars PROVE DeleteOwned
<1> USE OperandAssumption DEF IInv
<1>1. CASE CreateCR
  BY <1>1 DEF CreateCR, DeleteOwned, CurInv, TypeOK, Operands, objVars, NotMine,
     ownedBy, Conditions, Owners, Healths, Steps, Attempts
<1>2. CASE DeleteCR
  BY <1>2 DEF DeleteCR, DeleteOwned, CurInv, TypeOK, Operands, ownedBy, NotMine,
     Conditions, Owners, Healths, Steps, Attempts
<1>3. CASE EditCR
  BY <1>3 DEF EditCR, DeleteOwned, CurInv, TypeOK, Operands, objVars, NotMine,
     ownedBy, Conditions, Owners, Healths, Steps, Attempts
<1>4. CASE ChangeSecret
  BY <1>4 DEF ChangeSecret, DeleteOwned, CurInv, TypeOK, Operands, objVars, NotMine,
     ownedBy, Conditions, Owners, Healths, Steps, Attempts
<1>5. CASE Interrupted
  BY <1>5 DEF Interrupted, DeleteOwned, CurInv, TypeOK, Operands, Rest, crVars,
     objVars, ownedBy, Conditions, Owners, Healths, Steps, Attempts
<1>6. CASE Start
  BY <1>6 DEF Start, DeleteOwned, CurInv, TypeOK, Operands, Work, Rest, crVars,
     objVars, ownedBy, Conditions, Owners, Healths, Steps, Attempts
<1>7. CASE ReadSecret
  BY <1>7 DEF ReadSecret, DeleteOwned, CurInv, TypeOK, Operands, Work, crVars,
     objVars, Report, ownedBy, Conditions, Owners, Healths, Steps, Attempts, Rest
<1>8. CASE AddFinalizer
  BY <1>8 DEF AddFinalizer, DeleteOwned, CurInv, TypeOK, Operands, Work, objVars,
     Rest, crVars, ownedBy, Conditions, Owners, Healths, Steps, Attempts
<1>9. CASE NothingToUpgrade
  BY <1>9 DEF NothingToUpgrade, DeleteOwned, CurInv, TypeOK, Operands, crVars,
     objVars, curVars, ownedBy, Conditions, Owners, Healths, Steps, Attempts
<1>10. CASE Upgrade
  BY <1>10 DEF Upgrade, DeleteOwned, CurInv, TypeOK, Operands, crVars, ownedBy,
     Conditions, Owners, Healths, Steps, Attempts
<1>11. CASE UpgradeAgain
  BY <1>11 DEF UpgradeAgain, DeleteOwned, CurInv, TypeOK, Operands, Attempts, Rest,
     crVars, objVars, Got, ownedBy, Conditions, Owners, Healths, Steps
<1>12. CASE Write
  BY <1>12 DEF Write, DeleteOwned, CurInv, TypeOK, Operands, Work, crVars,
     ReconcileFailed, ownedBy, Conditions, Owners, Healths, Steps, Attempts, Report,
     Rest, objVars
<1>13. CASE Applied
  BY <1>13 DEF Applied, DeleteOwned, CurInv, TypeOK, Operands, Work, crVars,
     objVars, ownedBy, Conditions, Owners, Healths, Steps, Attempts
<1>14. CASE Looked
  BY <1>14 DEF Looked, DeleteOwned, CurInv, TypeOK, Operands, Report, ownedBy,
     Conditions, Owners, Healths, Steps, Attempts, Rest, crVars, objVars
<1>15. CASE CleanupDelete
  BY <1>15 DEF CleanupDelete, DeleteOwned, CurInv, TypeOK, Operands, DeleteDone,
     CleanupRest, Rest, crVars, ownedBy, Conditions, Owners, Healths, Steps,
     Attempts, Work, workload
<1>16. CASE WorkloadsStopped
  BY <1>16 DEF WorkloadsStopped, DeleteOwned, CurInv, TypeOK, Operands, Report,
     Work, crVars, objVars, ownedBy, Conditions, Owners, Healths, Steps, Attempts,
     Rest
<1>17. CASE RemoveFinalizer
  BY <1>17 DEF RemoveFinalizer, DeleteOwned, CurInv, TypeOK, Operands, Report,
     ownedBy, Rest, Conditions, Owners, Healths, Steps, Attempts, crVars, objVars
<1>18. ASSUME NEW o \in Operands, OthersCreate(o) PROVE DeleteOwned
  BY <1>18 DEF OthersCreate, DeleteOwned, CurInv, TypeOK, Operands, Disturb, crVars,
     NotMine, ownedBy, Conditions, Owners, Healths, Steps, Attempts
<1>19. ASSUME NEW o \in Operands, OthersDelete(o) PROVE DeleteOwned
  BY <1>19 DEF OthersDelete, DeleteOwned, CurInv, TypeOK, Operands, Gone, ownedBy,
     Conditions, Owners, Healths, Steps, Attempts, Disturb, crVars, NotMine
<1>20. ASSUME NEW o \in Operands, Vanish(o) PROVE DeleteOwned
  BY <1>20 DEF Vanish, DeleteOwned, CurInv, TypeOK, Operands, Gone, ownedBy,
     Conditions, Owners, Healths, Steps, Attempts, Disturb, crVars, NotMine
<1>21. ASSUME NEW o \in Operands, ChangeHealth(o) PROVE DeleteOwned
  BY <1>21 DEF ChangeHealth, DeleteOwned, CurInv, TypeOK, Operands, workload,
     Healths, crVars, NotMine, ownedBy, Conditions, Owners, Steps, Attempts
<1>22. ASSUME NEW o \in Operands, Preflight(o) PROVE DeleteOwned
  BY <1>22 DEF Preflight, DeleteOwned, CurInv, TypeOK, Operands, crVars, objVars,
     curVars, Report, ownedBy, Conditions, Owners, Healths, Steps, Attempts, Rest
<1>23. ASSUME NEW o \in Operands, ApplyGet(o) PROVE DeleteOwned
  BY <1>23 DEF ApplyGet, DeleteOwned, CurInv, TypeOK, Operands, InOrder,
     ReconcileFailed, Got, crVars, objVars, ownedBy, Conditions, Owners, Healths,
     Steps, Attempts, workload, Report, Rest
<1>24. ASSUME NEW o \in Operands, Look(o) PROVE DeleteOwned
  BY <1>24 DEF Look, DeleteOwned, CurInv, TypeOK, Operands, Rest, crVars, objVars,
     Report, curVars, ownedBy, Conditions, Owners, Healths, Steps, Attempts
<1>25. ASSUME NEW o \in Operands, CleanupGet(o) PROVE DeleteOwned
  BY <1>25 DEF CleanupGet, DeleteOwned, CurInv, TypeOK, Operands, ownedBy, curVars,
     objVars, CleanupRest, Conditions, Owners, Healths, Steps, Attempts, crVars
<1>26. CASE UNCHANGED vars
  BY <1>26 DEF DeleteOwned, CurInv, TypeOK, Operands, vars, ownedBy, Conditions,
     Owners, Healths, Steps, Attempts, crVars, objVars, curVars
<1> QED
  BY <1>1, <1>2, <1>3, <1>4, <1>5, <1>6, <1>7, <1>8, <1>9, <1>10, <1>11, <1>12,
     <1>13, <1>14, <1>15, <1>16, <1>17, <1>18, <1>19, <1>20, <1>21, <1>22, <1>23,
     <1>24, <1>25, <1>26 DEF Next, Reconcile, Cluster

\* DeletesOwned holds of every step: the UID precondition keeps cleanup from deleting a
\* replacement.
THEOREM DeletesOwnedHolds == Spec => DeletesOwned
<1>1. IInv /\ [Next]_vars => DeleteOwned
  BY DeleteStep
<1> QED
  BY <1>1, Invariance, PTL DEF Spec, DeletesOwned, DeleteOwned

StopFirst == (\A o \in Configs : dying'[o] /\ ~dying[o] => \A w \in Workloads : ~ownedBy(w))

LEMMA StopStep ==
    ASSUME IInv, [Next]_vars PROVE StopFirst
<1> USE OperandAssumption DEF IInv
<1>1. CASE CreateCR
  BY <1>1 DEF CreateCR, StopFirst, CurInv, PassInv, TypeOK, Operands, objVars,
     NotMine, ownedBy, Conditions, Owners, Healths, Steps, Attempts
<1>2. CASE DeleteCR
  BY <1>2 DEF DeleteCR, StopFirst, CurInv, PassInv, TypeOK, Operands, ownedBy,
     NotMine, Conditions, Owners, Healths, Steps, Attempts
<1>3. CASE EditCR
  BY <1>3 DEF EditCR, StopFirst, CurInv, PassInv, TypeOK, Operands, objVars,
     NotMine, ownedBy, Conditions, Owners, Healths, Steps, Attempts
<1>4. CASE ChangeSecret
  BY <1>4 DEF ChangeSecret, StopFirst, CurInv, PassInv, TypeOK, Operands, objVars,
     NotMine, ownedBy, Conditions, Owners, Healths, Steps, Attempts
<1>5. CASE Interrupted
  BY <1>5 DEF Interrupted, StopFirst, CurInv, PassInv, TypeOK, Operands, Rest,
     crVars, objVars, ownedBy, Conditions, Owners, Healths, Steps, Attempts
<1>6. CASE Start
  BY <1>6 DEF Start, StopFirst, CurInv, PassInv, TypeOK, Operands, Work, Rest,
     crVars, objVars, ownedBy, Conditions, Owners, Healths, Steps, Attempts
<1>7. CASE ReadSecret
  BY <1>7 DEF ReadSecret, StopFirst, CurInv, PassInv, TypeOK, Operands, Work,
     crVars, objVars, Report, ownedBy, Conditions, Owners, Healths, Steps, Attempts,
     Rest
<1>8. CASE AddFinalizer
  BY <1>8 DEF AddFinalizer, StopFirst, CurInv, PassInv, TypeOK, Operands, Work,
     objVars, Rest, crVars, ownedBy, Conditions, Owners, Healths, Steps, Attempts
<1>9. CASE NothingToUpgrade
  BY <1>9 DEF NothingToUpgrade, StopFirst, CurInv, PassInv, TypeOK, Operands,
     crVars, objVars, curVars, ownedBy, Conditions, Owners, Healths, Steps, Attempts
<1>10. CASE Upgrade
  BY <1>10 DEF Upgrade, StopFirst, CurInv, PassInv, TypeOK, Operands, crVars,
     ownedBy, Conditions, Owners, Healths, Steps, Attempts
<1>11. CASE UpgradeAgain
  BY <1>11 DEF UpgradeAgain, StopFirst, CurInv, PassInv, TypeOK, Operands, Attempts,
     Rest, crVars, objVars, Got, ownedBy, Conditions, Owners, Healths, Steps
<1>12. CASE Write
  BY <1>12 DEF Write, StopFirst, CurInv, PassInv, TypeOK, Operands, Work, crVars,
     ReconcileFailed, ownedBy, Conditions, Owners, Healths, Steps, Attempts, Report,
     Rest, objVars
<1>13. CASE Applied
  BY <1>13 DEF Applied, StopFirst, CurInv, PassInv, TypeOK, Operands, Work, crVars,
     objVars, ownedBy, Conditions, Owners, Healths, Steps, Attempts
<1>14. CASE Looked
  BY <1>14 DEF Looked, StopFirst, CurInv, PassInv, TypeOK, Operands, Report,
     ownedBy, Conditions, Owners, Healths, Steps, Attempts, Rest, crVars, objVars
<1>15. CASE CleanupDelete
  BY <1>15 DEF CleanupDelete, StopFirst, CurInv, PassInv, TypeOK, Operands,
     DeleteDone, CleanupRest, Rest, crVars, ownedBy, Conditions, Owners, Healths,
     Steps, Attempts, Work, workload
<1>16. CASE WorkloadsStopped
  BY <1>16 DEF WorkloadsStopped, StopFirst, CurInv, PassInv, TypeOK, Operands,
     Report, Work, crVars, objVars, ownedBy, Conditions, Owners, Healths, Steps,
     Attempts, Rest
<1>17. CASE RemoveFinalizer
  BY <1>17 DEF RemoveFinalizer, StopFirst, CurInv, PassInv, TypeOK, Operands,
     Report, ownedBy, Rest, Conditions, Owners, Healths, Steps, Attempts, crVars,
     objVars
<1>18. ASSUME NEW o \in Operands, OthersCreate(o) PROVE StopFirst
  BY <1>18 DEF OthersCreate, StopFirst, CurInv, PassInv, TypeOK, Operands, Disturb,
     crVars, NotMine, ownedBy, Conditions, Owners, Healths, Steps, Attempts
<1>19. ASSUME NEW o \in Operands, OthersDelete(o) PROVE StopFirst
  BY <1>19 DEF OthersDelete, StopFirst, CurInv, PassInv, TypeOK, Operands, Gone,
     ownedBy, Conditions, Owners, Healths, Steps, Attempts, Disturb, crVars, NotMine
<1>20. ASSUME NEW o \in Operands, Vanish(o) PROVE StopFirst
  BY <1>20 DEF Vanish, StopFirst, CurInv, PassInv, TypeOK, Operands, Gone, ownedBy,
     Conditions, Owners, Healths, Steps, Attempts, Disturb, crVars, NotMine
<1>21. ASSUME NEW o \in Operands, ChangeHealth(o) PROVE StopFirst
  BY <1>21 DEF ChangeHealth, StopFirst, CurInv, PassInv, TypeOK, Operands, workload,
     Healths, crVars, NotMine, ownedBy, Conditions, Owners, Steps, Attempts
<1>22. ASSUME NEW o \in Operands, Preflight(o) PROVE StopFirst
  BY <1>22 DEF Preflight, StopFirst, CurInv, PassInv, TypeOK, Operands, crVars,
     objVars, curVars, Report, ownedBy, Conditions, Owners, Healths, Steps,
     Attempts, Rest
<1>23. ASSUME NEW o \in Operands, ApplyGet(o) PROVE StopFirst
  BY <1>23 DEF ApplyGet, StopFirst, CurInv, PassInv, TypeOK, Operands, InOrder,
     ReconcileFailed, Got, crVars, objVars, ownedBy, Conditions, Owners, Healths,
     Steps, Attempts, workload, Report, Rest
<1>24. ASSUME NEW o \in Operands, Look(o) PROVE StopFirst
  BY <1>24 DEF Look, StopFirst, CurInv, PassInv, TypeOK, Operands, Rest, crVars,
     objVars, Report, curVars, ownedBy, Conditions, Owners, Healths, Steps, Attempts
<1>25. ASSUME NEW o \in Operands, CleanupGet(o) PROVE StopFirst
  BY <1>25 DEF CleanupGet, StopFirst, CurInv, PassInv, TypeOK, Operands, ownedBy,
     curVars, objVars, CleanupRest, Conditions, Owners, Healths, Steps, Attempts,
     crVars
<1>26. CASE UNCHANGED vars
  BY <1>26 DEF StopFirst, CurInv, PassInv, TypeOK, Operands, vars, ownedBy,
     Conditions, Owners, Healths, Steps, Attempts, crVars, objVars, curVars
<1> QED
  BY <1>1, <1>2, <1>3, <1>4, <1>5, <1>6, <1>7, <1>8, <1>9, <1>10, <1>11, <1>12,
     <1>13, <1>14, <1>15, <1>16, <1>17, <1>18, <1>19, <1>20, <1>21, <1>22, <1>23,
     <1>24, <1>25, <1>26 DEF Next, Reconcile, Cluster

\* WorkloadsStopFirst holds of every step: cleanup's second pass starts only when the
\* first found no workload left.
THEOREM WorkloadsStopFirstHolds == Spec => WorkloadsStopFirst
<1>1. IInv /\ [Next]_vars => StopFirst
  BY StopStep
<1> QED
  BY <1>1, Invariance, PTL DEF Spec, WorkloadsStopFirst, StopFirst

AdoptReread == (\A o \in Operands : owner[o] = "other" /\ owner'[o] = "cr" => tries > 0)

LEMMA AdoptStep ==
    ASSUME IInv, [Next]_vars PROVE AdoptReread
<1> USE OperandAssumption DEF IInv
<1>1. CASE CreateCR
  BY <1>1 DEF CreateCR, AdoptReread, CurInv, ReadInv, TypeOK, Operands, objVars,
     NotMine, ownedBy, Conditions, Owners, Healths, Steps, Attempts
<1>2. CASE DeleteCR
  BY <1>2 DEF DeleteCR, AdoptReread, CurInv, ReadInv, TypeOK, Operands, ownedBy,
     NotMine, Conditions, Owners, Healths, Steps, Attempts
<1>3. CASE EditCR
  BY <1>3 DEF EditCR, AdoptReread, CurInv, ReadInv, TypeOK, Operands, objVars,
     NotMine, ownedBy, Conditions, Owners, Healths, Steps, Attempts
<1>4. CASE ChangeSecret
  BY <1>4 DEF ChangeSecret, AdoptReread, CurInv, ReadInv, TypeOK, Operands, objVars,
     NotMine, ownedBy, Conditions, Owners, Healths, Steps, Attempts
<1>5. CASE Interrupted
  BY <1>5 DEF Interrupted, AdoptReread, CurInv, ReadInv, TypeOK, Operands, Rest,
     crVars, objVars, ownedBy, Conditions, Owners, Healths, Steps, Attempts
<1>6. CASE Start
  BY <1>6 DEF Start, AdoptReread, CurInv, ReadInv, TypeOK, Operands, Work, Rest,
     crVars, objVars, ownedBy, Conditions, Owners, Healths, Steps, Attempts
<1>7. CASE ReadSecret
  BY <1>7 DEF ReadSecret, AdoptReread, CurInv, ReadInv, TypeOK, Operands, Work,
     crVars, objVars, Report, ownedBy, Conditions, Owners, Healths, Steps, Attempts,
     Rest
<1>8. CASE AddFinalizer
  BY <1>8 DEF AddFinalizer, AdoptReread, CurInv, ReadInv, TypeOK, Operands, Work,
     objVars, Rest, crVars, ownedBy, Conditions, Owners, Healths, Steps, Attempts
<1>9. CASE NothingToUpgrade
  BY <1>9 DEF NothingToUpgrade, AdoptReread, CurInv, ReadInv, TypeOK, Operands,
     crVars, objVars, curVars, ownedBy, Conditions, Owners, Healths, Steps, Attempts
<1>10. CASE Upgrade
  BY <1>10 DEF Upgrade, AdoptReread, CurInv, ReadInv, TypeOK, Operands, crVars,
     ownedBy, Conditions, Owners, Healths, Steps, Attempts
<1>11. CASE UpgradeAgain
  BY <1>11 DEF UpgradeAgain, AdoptReread, CurInv, ReadInv, TypeOK, Operands,
     Attempts, Rest, crVars, objVars, Got, ownedBy, Conditions, Owners, Healths,
     Steps
<1>12. CASE Write
  BY SMT, <1>12 DEF Write, AdoptReread, CurInv, ReadInv, TypeOK, Operands, Work, crVars,
     ReconcileFailed, ownedBy, Conditions, Owners, Healths, Steps, Attempts, Report,
     Rest, objVars
<1>13. CASE Applied
  BY <1>13 DEF Applied, AdoptReread, CurInv, ReadInv, TypeOK, Operands, Work,
     crVars, objVars, ownedBy, Conditions, Owners, Healths, Steps, Attempts
<1>14. CASE Looked
  BY <1>14 DEF Looked, AdoptReread, CurInv, ReadInv, TypeOK, Operands, Report,
     ownedBy, Conditions, Owners, Healths, Steps, Attempts, Rest, crVars, objVars
<1>15. CASE CleanupDelete
  BY <1>15 DEF CleanupDelete, AdoptReread, CurInv, ReadInv, TypeOK, Operands,
     DeleteDone, CleanupRest, Rest, crVars, ownedBy, Conditions, Owners, Healths,
     Steps, Attempts, Work, workload
<1>16. CASE WorkloadsStopped
  BY <1>16 DEF WorkloadsStopped, AdoptReread, CurInv, ReadInv, TypeOK, Operands,
     Report, Work, crVars, objVars, ownedBy, Conditions, Owners, Healths, Steps,
     Attempts, Rest
<1>17. CASE RemoveFinalizer
  BY <1>17 DEF RemoveFinalizer, AdoptReread, CurInv, ReadInv, TypeOK, Operands,
     Report, ownedBy, Rest, Conditions, Owners, Healths, Steps, Attempts, crVars,
     objVars
<1>18. ASSUME NEW o \in Operands, OthersCreate(o) PROVE AdoptReread
  BY <1>18 DEF OthersCreate, AdoptReread, CurInv, ReadInv, TypeOK, Operands,
     Disturb, crVars, NotMine, ownedBy, Conditions, Owners, Healths, Steps, Attempts
<1>19. ASSUME NEW o \in Operands, OthersDelete(o) PROVE AdoptReread
  BY <1>19 DEF OthersDelete, AdoptReread, CurInv, ReadInv, TypeOK, Operands, Gone,
     ownedBy, Conditions, Owners, Healths, Steps, Attempts, Disturb, crVars, NotMine
<1>20. ASSUME NEW o \in Operands, Vanish(o) PROVE AdoptReread
  BY <1>20 DEF Vanish, AdoptReread, CurInv, ReadInv, TypeOK, Operands, Gone,
     ownedBy, Conditions, Owners, Healths, Steps, Attempts, Disturb, crVars, NotMine
<1>21. ASSUME NEW o \in Operands, ChangeHealth(o) PROVE AdoptReread
  BY <1>21 DEF ChangeHealth, AdoptReread, CurInv, ReadInv, TypeOK, Operands,
     workload, Healths, crVars, NotMine, ownedBy, Conditions, Owners, Steps,
     Attempts
<1>22. ASSUME NEW o \in Operands, Preflight(o) PROVE AdoptReread
  BY <1>22 DEF Preflight, AdoptReread, CurInv, ReadInv, TypeOK, Operands, crVars,
     objVars, curVars, Report, ownedBy, Conditions, Owners, Healths, Steps,
     Attempts, Rest
<1>23. ASSUME NEW o \in Operands, ApplyGet(o) PROVE AdoptReread
  BY <1>23 DEF ApplyGet, AdoptReread, CurInv, ReadInv, TypeOK, Operands, InOrder,
     ReconcileFailed, Got, crVars, objVars, ownedBy, Conditions, Owners, Healths,
     Steps, Attempts, workload, Report, Rest
<1>24. ASSUME NEW o \in Operands, Look(o) PROVE AdoptReread
  BY <1>24 DEF Look, AdoptReread, CurInv, ReadInv, TypeOK, Operands, Rest, crVars,
     objVars, Report, curVars, ownedBy, Conditions, Owners, Healths, Steps, Attempts
<1>25. ASSUME NEW o \in Operands, CleanupGet(o) PROVE AdoptReread
  BY <1>25 DEF CleanupGet, AdoptReread, CurInv, ReadInv, TypeOK, Operands, ownedBy,
     curVars, objVars, CleanupRest, Conditions, Owners, Healths, Steps, Attempts,
     crVars
<1>26. CASE UNCHANGED vars
  BY <1>26 DEF AdoptReread, CurInv, ReadInv, TypeOK, Operands, vars, ownedBy,
     Conditions, Owners, Healths, Steps, Attempts, crVars, objVars, curVars
<1> QED
  BY <1>1, <1>2, <1>3, <1>4, <1>5, <1>6, <1>7, <1>8, <1>9, <1>10, <1>11, <1>12,
     <1>13, <1>14, <1>15, <1>16, <1>17, <1>18, <1>19, <1>20, <1>21, <1>22, <1>23,
     <1>24, <1>25, <1>26 DEF Next, Reconcile, Cluster

\* AdoptsOnlyReread holds of every step: apply patches the object it has checked.
THEOREM AdoptsOnlyRereadHolds == Spec => AdoptsOnlyReread
<1>1. IInv /\ [Next]_vars => AdoptReread
  BY AdoptStep
<1> QED
  BY <1>1, Invariance, PTL DEF Spec, AdoptsOnlyReread, AdoptReread

=============================================================================
