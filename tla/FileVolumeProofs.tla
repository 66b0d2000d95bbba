-------------------------- MODULE FileVolumeProofs --------------------------
(***************************************************************************)
(* Proofs about FileVolume, for any number of create calls, nodes and      *)
(* faults: the type invariant; that no create destroys the data of a       *)
(* volume the CO was told of; that the raw file has the capacity the CO    *)
(* was told of; and, each under the kinds of faults it bears, that the     *)
(* file system has it, that the private growth mount is gone when the      *)
(* volume is used, and that a delete leaves no file and spares snapshots.  *)
(***************************************************************************)
EXTENDS FileVolume, TLAPS

\* Most leaves are first-order: Zenon takes them, and a leaf that needs more says SMT.
USE Zenon

-----------------------------------------------------------------------------
(* Type correctness                                                        *)

\* A file system that was formatted or grown fits the file, is no smaller than before,
\* and falls short of the file by the slack at most.
LEMMA FullSize ==
    ASSUME size \in 0..MaxSize, fs \in 0..MaxSize, NEW f \in FullSizes
    PROVE  f \in 0..MaxSize /\ f \in Nat /\ fs <= f /\ f <= size /\ size - f <= Slack
BY SMT, SizeAssumption DEF FullSizes

LEMMA FaultType == ASSUME faults \in 0..MaxFaults, NEW kind, Fault(kind) PROVE faults' \in 0..MaxFaults
BY SMT, FaultAssumption DEF Fault

LEMMA ContextErrorType ==
    ASSUME faults \in 0..MaxFaults, NEW c, ContextError(c) PROVE faults' \in 0..MaxFaults
BY FaultType DEF ContextError

LEMMA AnswerType ==
    ASSUME faults \in 0..MaxFaults, NEW answer, GetFileAnswer(answer) PROVE faults' \in 0..MaxFaults
BY FaultType DEF GetFileAnswer

\* What the calls of the CO know and the lock are left in their types.
CallTypes ==
    /\ phase \in Phases /\ live \in {NoCall} \cup Creates
    /\ capacity \in 0..MaxSize /\ want \in 0..MaxSize
    /\ pc \in [Creates -> CreateSteps] /\ volumeLock \in {NoCall} \cup Creates

LEMMA ReturnType ==
    ASSUME CallTypes, NEW c \in Creates, NEW r, Return(c, r)
    PROVE  CallTypes'
BY SMT, SizeAssumption DEF CallTypes, Return, Goto, Phases, CreateSteps

LEMMA GoOnType ==
    ASSUME CallTypes, NEW c \in Creates, NEW s \in CreateSteps, GoOn(c, s)
    PROVE  CallTypes'
BY DEF CallTypes, GoOn, Goto, coVars

LEMMA FinishType ==
    ASSUME CallTypes, NEW c \in Creates, Finish(c)
    PROVE  CallTypes'
<1>1. "poll" \in CreateSteps
  BY DEF CreateSteps
<1> QED
  BY <1>1, ReturnType, GoOnType DEF Finish

LEMMA CreateType ==
    ASSUME TypeOK, NEW c \in Creates, Create(c)
    PROVE  TypeOK'
<1>0. UNCHANGED fsType
  BY DEF Create
<1>1. CallTypes
  BY DEF TypeOK, CallTypes
<1>2. {"getFile", "restore", "makeFile", "format", "growLook", "growRaw", "growFs", "growMounted",
       "growUnmount"} \subseteq CreateSteps
  BY DEF CreateSteps
<1>3. SUFFICES /\ CallTypes' /\ faults' \in 0..MaxFaults
               /\ size' \in 0..MaxSize /\ fs' \in 0..MaxSize /\ visible' \in BOOLEAN
               /\ private' \in BOOLEAN
               /\ UNCHANGED <<snapshots, dpc, nodeVars>>
  BY <1>0 DEF TypeOK, CallTypes, nodeVars
<1>4. CASE AcquireVolumeLock(c)
  <2>1. CallTypes'
    BY <1>1, <1>2, <1>4, ReturnType DEF AcquireVolumeLock, CallTypes, Goto, coVars
  <2> QED
    BY <1>4, <2>1 DEF AcquireVolumeLock, TypeOK, fileVars
<1>5. CASE EnsureDeviceFile(c)
  BY <1>1, <1>2, <1>5, ReturnType, GoOnType, AnswerType, ContextErrorType DEF
     EnsureDeviceFile, TypeOK, fileVars
<1>6. CASE MakeEmptyRawFile(c)
  <2>1. CallTypes'
    BY <1>1, <1>2, <1>6, ReturnType, GoOnType, FinishType DEF MakeEmptyRawFile
  <2>2. faults' \in 0..MaxFaults
    BY <1>6, FaultType, ContextErrorType DEF MakeEmptyRawFile, TypeOK
  <2>3. size' \in 0..MaxSize /\ fs' \in 0..MaxSize
    BY SMT, <1>6, SizeAssumption DEF MakeEmptyRawFile, TypeOK
  <2>4. visible' \in BOOLEAN
    BY <1>6, SwitchAssumption DEF MakeEmptyRawFile, TypeOK
  <2> QED
    BY <1>6, <2>1, <2>2, <2>3, <2>4 DEF MakeEmptyRawFile, TypeOK
<1>7. CASE FormatDevice(c)
  BY <1>1, <1>7, ReturnType, FinishType, FaultType, FullSize DEF FormatDevice, TypeOK
<1>8. CASE RestoreFileSnap(c)
  <2>1. CallTypes'
    BY <1>1, <1>2, <1>8, ReturnType, GoOnType DEF RestoreFileSnap
  <2>2. faults' \in 0..MaxFaults
    BY <1>8, ContextErrorType DEF RestoreFileSnap, TypeOK
  <2>3. size' \in 0..MaxSize /\ fs' \in 0..MaxSize
    BY SMT, <1>8, SizeAssumption DEF RestoreFileSnap, TypeOK
  <2> QED
    BY <1>8, <2>1, <2>2, <2>3 DEF RestoreFileSnap, TypeOK
<1>9. CASE GrowLook(c)
  BY <1>1, <1>2, <1>9, ReturnType, GoOnType, FinishType, AnswerType, ContextErrorType
     DEF GrowLook, TypeOK, fileVars
<1>10. CASE GrowRaw(c)
  <2>1. CallTypes'
    BY <1>1, <1>2, <1>10, ReturnType, GoOnType, FinishType DEF GrowRaw
  <2>2. faults' \in 0..MaxFaults
    BY <1>10, ContextErrorType DEF GrowRaw, TypeOK
  <2> QED
    BY SMT, <1>10, <2>1, <2>2, SizeAssumption DEF GrowRaw, TypeOK
<1>11. CASE GrowFs(c)
  BY <1>1, <1>2, <1>11, ReturnType, GoOnType, FinishType, FaultType DEF GrowFs,
     TypeOK, fileVars
<1>12. CASE GrowMounted(c)
  BY <1>1, <1>2, <1>12, ReturnType, GoOnType, FaultType, FullSize DEF GrowMounted, TypeOK
<1>13. CASE GrowUnmount(c)
  BY <1>1, <1>13, ReturnType, FinishType, FaultType DEF GrowUnmount, TypeOK,
     fileVars
<1>14. CASE PollVisible(c)
  BY <1>1, <1>14, ReturnType, FaultType DEF PollVisible, TypeOK, fileVars
<1> QED
  BY <1>4, <1>5, <1>6, <1>7, <1>8, <1>9, <1>10, <1>11, <1>12, <1>13, <1>14 DEF
     Create

LEMMA NodeType ==
    ASSUME TypeOK, NEW n \in Nodes, Node(n), UNCHANGED fsType
    PROVE  TypeOK'
<1>1. ASSUME NEW mode \in {"ro", "rw"}, Publish(n, mode)
      PROVE  TypeOK'
  <2>1. faults' \in 0..MaxFaults
    BY <1>1, FaultType DEF Publish, TypeOK
  <2>2. mnt' \in [Nodes -> Modes] /\ published' \in [Nodes -> {"no", "ro", "rw"}]
    BY <1>1 DEF Publish, Mount, Answer, Modes, TypeOK
  <2>3. npc' \in [Nodes -> {"idle", "reconcile", "reconcileFresh"}]
    BY <1>1 DEF Publish, TypeOK
  <2> QED
    BY <1>1, <2>1, <2>2 DEF Publish, TypeOK, fileVars, coVars, createVars
<1>2. CASE Reconcile(n)
  <2>1. faults' \in 0..MaxFaults
    BY <1>2, FaultType DEF Reconcile, TypeOK
  <2>2. mnt' \in [Nodes -> Modes] /\ published' \in [Nodes -> {"no", "ro", "rw"}]
    BY <1>2 DEF Reconcile, Mount, Answer, Modes, TypeOK
  <2> QED
    BY <1>2, <2>1, <2>2, FullSize DEF Reconcile, TypeOK, coVars, createVars
<1>3. CASE Unpublish(n)
  BY <1>3 DEF Unpublish, Mount, Answer, Modes, TypeOK, fileVars, coVars, createVars
<1>4. CASE NodeExpandVolume(n)
  <2>1. faults' \in 0..MaxFaults
    BY <1>4, FaultType DEF NodeExpandVolume, TypeOK
  <2> QED
    BY <1>4, <2>1, SizeAssumption DEF NodeExpandVolume, TypeOK, createVars
<1>5. CASE ExpandMountedFilesystem(n)
  <2>1. faults' \in 0..MaxFaults
    BY <1>5, FaultType DEF ExpandMountedFilesystem, TypeOK
  <2>2. fs' \in 0..MaxSize
    BY <1>5, FullSize DEF ExpandMountedFilesystem, TypeOK
  <2> QED
    BY SMT, <1>5, <2>1, <2>2, SizeAssumption DEF ExpandMountedFilesystem, TypeOK, createVars
<1>6. CASE NodeRestart(n)
  <2>1. faults' \in 0..MaxFaults
    BY <1>6, FaultType DEF NodeRestart, TypeOK
  <2> QED
    BY SMT, <1>6, <2>1, SizeAssumption DEF NodeRestart, TypeOK, fileVars, coVars, createVars
<1> QED
  BY <1>1, <1>2, <1>3, <1>4, <1>5, <1>6 DEF Node

LEMMA DeleteType ==
    ASSUME TypeOK, Delete, UNCHANGED fsType
    PROVE  TypeOK'
<1> USE DEF TypeOK, Phases, DeleteSteps, fileVars, coVars, createVars, nodeVars
<1>1. CASE CoDelete
  BY <1>1 DEF CoDelete
<1>2. CASE DeleteVolume
  BY <1>2 DEF DeleteVolume
<1>3. CASE DeleteLookup
  BY <1>3, AnswerType DEF DeleteLookup
<1>4. CASE DeleteCheckSnapshots
  BY <1>4, FaultType DEF DeleteCheckSnapshots, DeleteReturns
<1>5. CASE DeleteFile
  <2>1. faults' \in 0..MaxFaults /\ dpc' \in DeleteSteps /\ phase' \in Phases
    BY <1>5, FaultType DEF DeleteFile, DeleteReturns
  <2>2. size' \in 0..MaxSize /\ fs' \in 0..MaxSize
    BY SMT, <1>5, SizeAssumption DEF DeleteFile
  <2>3. visible' \in BOOLEAN
    BY <1>5 DEF DeleteFile
  <2> QED
    BY <1>5, <2>1, <2>2, <2>3 DEF DeleteFile
<1> QED
  BY <1>1, <1>2, <1>3, <1>4, <1>5 DEF Delete

LEMMA NextType == TypeOK /\ [Next]_vars => TypeOK'
<1> SUFFICES ASSUME TypeOK, [Next]_vars
             PROVE  TypeOK'
  OBVIOUS
<1>0. UNCHANGED fsType
  BY DEF Next, vars
<1> USE <1>0
<1>1. ASSUME NEW c \in Creates, CoCreate(c)
      PROVE  TypeOK'
  BY <1>1 DEF CoCreate, Goto, CreateSteps, TypeOK, fileVars, nodeVars
<1>2. CASE CoAbandon
  BY <1>2, FaultType DEF CoAbandon, TypeOK, fileVars, createVars, nodeVars
<1>3. CASE Appear
  BY <1>3 DEF Appear, TypeOK, coVars, createVars, nodeVars
<1>4. CASE SnapshotChanges
  BY <1>4 DEF SnapshotChanges, TypeOK, coVars, createVars, nodeVars
<1>5. ASSUME NEW requested \in 1..MaxSize, ControllerExpandVolume(requested)
      PROVE  TypeOK'
  <2>1. faults' \in 0..MaxFaults
    BY <1>5, FaultType DEF ControllerExpandVolume, TypeOK
  <2> QED
    BY SMT, <1>5, <2>1, SizeAssumption DEF ControllerExpandVolume, TypeOK, fileVars,
       createVars, nodeVars
<1>6. CASE ControllerRestart
  BY <1>6, FaultType DEF ControllerRestart, TypeOK, CreateSteps, DeleteSteps, fileVars,
     nodeVars
<1>7. CASE UNCHANGED vars
  BY <1>7 DEF TypeOK, vars, fileVars, coVars, createVars, nodeVars
<1> QED
  BY <1>1, <1>2, <1>3, <1>4, <1>5, <1>6, <1>7, CreateType, NodeType, DeleteType DEF Next

LEMMA InitType == Init => TypeOK
<1> SUFFICES ASSUME Init
             PROVE  TypeOK
  OBVIOUS
<1>1. 0 \in 0..MaxSize /\ faults \in 0..MaxFaults
  BY SMT, SizeAssumption, FaultAssumption DEF Init
<1>2. visible \in BOOLEAN /\ snapshots \in BOOLEAN /\ private \in BOOLEAN
  BY DEF Init
<1> QED
  BY <1>1, <1>2 DEF Init, TypeOK, Phases, CreateSteps, DeleteSteps, Modes

\* Every reachable state has its type: in particular no growth of the file or of
\* its file system passes the largest size that was asked for.
THEOREM TypeCorrect == Spec => []TypeOK
BY InitType, NextType, PTL DEF Spec

-----------------------------------------------------------------------------
(* No data loss                                                            *)

\* Only a create that has the lock is answered OK, and then gives it back.
LEMMA ReturnHeld ==
    ASSUME CallTypes, LockHeld, CreatesOver, NEW c \in Creates, NEW r, Return(c, r),
           r = "ok" => pc[c] \notin {"idle", "lock"}
    PROVE  LockHeld' /\ CreatesOver'
<1>1. LockHeld'
  BY CallAssumption DEF CallTypes, LockHeld, Return, Goto
<1>2. CreatesOver'
  BY DEF CallTypes, LockHeld, CreatesOver, Return
<1> QED
  BY <1>1, <1>2

LEMMA GoOnHeld ==
    ASSUME CallTypes, LockHeld, CreatesOver, NEW c \in Creates, NEW s, GoOn(c, s),
           pc[c] \notin {"idle", "lock"}, s \notin {"idle", "lock"}
    PROVE  LockHeld' /\ CreatesOver'
BY DEF CallTypes, LockHeld, CreatesOver, GoOn, Goto, coVars

LEMMA FinishHeld ==
    ASSUME CallTypes, LockHeld, CreatesOver, NEW c \in Creates, Finish(c),
           pc[c] \notin {"idle", "lock"}
    PROVE  LockHeld' /\ CreatesOver'
BY ReturnHeld, GoOnHeld DEF Finish

LEMMA CreateHeld ==
    ASSUME IInv, NEW c \in Creates, Create(c)
    PROVE  LockHeld' /\ CreatesOver' /\ fs' <= size'
<1>1. CallTypes /\ LockHeld /\ CreatesOver /\ fs <= size /\ fs \in Int /\ size \in Int
  BY SMT DEF IInv, TypeOK, CallTypes
<1>0. \A f \in FullSizes : f <= size
  BY FullSize DEF IInv, TypeOK
<1>2. CASE AcquireVolumeLock(c)
  <2>1. CASE live = c /\ volumeLock = NoCall /\ volumeLock' = c /\ Goto(c, "getFile") /\ UNCHANGED coVars
    BY <1>1, <1>2, <2>1, CallAssumption DEF CallTypes, LockHeld, CreatesOver, Goto,
       coVars, AcquireVolumeLock, fileVars
  <2>2. CASE Return(c, "aborted")
    BY <1>1, <1>2, <2>2, ReturnHeld DEF AcquireVolumeLock, fileVars
  <2> QED
    BY <1>2, <2>1, <2>2 DEF AcquireVolumeLock
<1>3. CASE EnsureDeviceFile(c)
  BY <1>1, <1>3, ReturnHeld, GoOnHeld DEF EnsureDeviceFile, fileVars
<1>4. CASE MakeEmptyRawFile(c)
  <2>1. LockHeld' /\ CreatesOver'
    BY <1>1, <1>4, ReturnHeld, GoOnHeld, FinishHeld DEF MakeEmptyRawFile
  <2> QED
    BY SMT, <1>1, <1>4, <2>1, SizeAssumption DEF MakeEmptyRawFile
<1>5. CASE FormatDevice(c)
  BY <1>0, <1>1, <1>5, ReturnHeld, FinishHeld DEF FormatDevice
<1>6. CASE RestoreFileSnap(c)
  <2>1. LockHeld' /\ CreatesOver'
    BY <1>1, <1>6, ReturnHeld, GoOnHeld DEF RestoreFileSnap
  <2> QED
    BY SMT, <1>1, <1>6, <2>1, SizeAssumption DEF RestoreFileSnap
<1>7. CASE GrowLook(c)
  BY <1>1, <1>7, ReturnHeld, GoOnHeld, FinishHeld DEF GrowLook, fileVars
<1>8. CASE GrowRaw(c)
  <2>1. LockHeld' /\ CreatesOver'
    BY <1>1, <1>8, ReturnHeld, GoOnHeld, FinishHeld DEF GrowRaw
  <2> QED
    BY SMT, <1>1, <1>8, <2>1, SizeAssumption DEF GrowRaw
<1>9. CASE GrowFs(c)
  BY <1>1, <1>9, ReturnHeld, GoOnHeld, FinishHeld DEF GrowFs, fileVars
<1>10. CASE GrowMounted(c)
  BY <1>0, <1>1, <1>10, ReturnHeld, GoOnHeld DEF GrowMounted
<1>11. CASE GrowUnmount(c)
  BY <1>1, <1>11, ReturnHeld, FinishHeld DEF GrowUnmount, fileVars
<1>12. CASE PollVisible(c)
  BY <1>1, <1>12, ReturnHeld DEF PollVisible, fileVars
<1> QED
  BY <1>2, <1>3, <1>4, <1>5, <1>6, <1>7, <1>8, <1>9, <1>10, <1>11, <1>12 DEF Create

\* A node grows the file and its file system, and leaves the creates alone.
LEMMA NodeGrows ==
    ASSUME TypeOK, fs <= size, NEW n \in Nodes, Node(n)
    PROVE  /\ UNCHANGED <<pc, volumeLock, live, phase>>
           /\ fs' <= size' /\ size' >= size /\ fs' >= fs
<1>1. size \in Int /\ fs \in Int /\ want \in Int
  BY SMT DEF TypeOK
<1>0. \A f \in FullSizes : f <= size /\ fs <= f /\ f \in Int
  BY SMT, FullSize DEF TypeOK
<1>2. CASE NodeExpandVolume(n)
  BY SMT, <1>1, <1>2 DEF NodeExpandVolume, createVars
<1>3. CASE Reconcile(n) \/ ExpandMountedFilesystem(n)
  BY SMT, <1>0, <1>1, <1>3 DEF Reconcile, ExpandMountedFilesystem, createVars, coVars
<1>4. CASE (\E mode \in {"ro", "rw"} : Publish(n, mode)) \/ Unpublish(n) \/ NodeRestart(n)
  BY SMT, <1>1, <1>4 DEF Publish, Unpublish, NodeRestart, createVars, coVars, fileVars
<1> QED
  BY <1>2, <1>3, <1>4 DEF Node

\* A delete is called after the create was answered, and once at a time.
LEMMA DeleteOrder ==
    ASSUME IInv, Next
    PROVE  DeleteAfterCreate'
<1>1. DeleteAfterCreate /\ CreatesOver
  BY DEF IInv
<1>2. ASSUME NEW c \in Creates, CoCreate(c) \/ Create(c)
      PROVE  dpc' = dpc /\ (phase' = phase \/ phase = "creating")
  <2>1. ASSUME NEW r, Return(c, r) PROVE phase' = phase \/ phase = "creating"
    BY <2>1 DEF Return
  <2>2. ASSUME NEW s, GoOn(c, s) PROVE phase' = phase
    BY <2>2 DEF GoOn, coVars
  <2>3. Finish(c) => phase' = phase \/ phase = "creating"
    BY <2>1, <2>2 DEF Finish
  <2>4. CASE CoCreate(c) \/ AcquireVolumeLock(c)
    BY <2>4, <2>1 DEF CoCreate, AcquireVolumeLock, coVars
  <2>5. CASE EnsureDeviceFile(c) \/ RestoreFileSnap(c) \/ GrowLook(c)
    BY <2>5, <2>1, <2>2, <2>3 DEF EnsureDeviceFile, RestoreFileSnap, GrowLook
  <2>6. CASE MakeEmptyRawFile(c) \/ FormatDevice(c) \/ PollVisible(c)
    BY <2>6, <2>1, <2>2, <2>3 DEF MakeEmptyRawFile, FormatDevice, PollVisible
  <2>7. CASE GrowRaw(c) \/ GrowFs(c) \/ GrowMounted(c) \/ GrowUnmount(c)
    BY <2>7, <2>1, <2>2, <2>3 DEF GrowRaw, GrowFs, GrowMounted, GrowUnmount
  <2> QED
    BY <1>2, <2>4, <2>5, <2>6, <2>7 DEF Create
<1>3. ASSUME NEW n \in Nodes, Node(n)
      PROVE  dpc' = dpc /\ phase' = phase
  BY <1>3 DEF Node, Publish, Reconcile, Unpublish, NodeExpandVolume, ExpandMountedFilesystem, NodeRestart, coVars
<1>4. CASE Delete
  BY <1>1, <1>4 DEF Delete, CoDelete, DeleteVolume, DeleteLookup, DeleteCheckSnapshots,
     DeleteFile, DeleteReturns, DeleteAfterCreate, coVars
<1>5. CASE CoAbandon \/ Appear \/ SnapshotChanges \/ ControllerRestart
  BY <1>1, <1>5 DEF CoAbandon, Appear, SnapshotChanges, ControllerRestart,
     DeleteAfterCreate, coVars
<1>6. ASSUME NEW requested \in 1..MaxSize, ControllerExpandVolume(requested)
      PROVE  dpc' = dpc /\ phase' = phase
  BY <1>6 DEF ControllerExpandVolume
<1> QED
  BY <1>1, <1>2, <1>3, <1>4, <1>5, <1>6 DEF Next, DeleteAfterCreate

LEMMA NextInv == IInv /\ [Next]_vars => IInv'
<1> SUFFICES ASSUME IInv, [Next]_vars
             PROVE  IInv'
  OBVIOUS
<1>1. TypeOK /\ fs <= size /\ LockHeld /\ CreatesOver /\ DeleteAfterCreate
  BY DEF IInv
<1>10. DeleteAfterCreate'
  <2>1. CASE UNCHANGED vars
    BY <1>1, <2>1 DEF DeleteAfterCreate, vars, coVars
  <2> QED
    BY <2>1, DeleteOrder
<1>2. SUFFICES LockHeld' /\ CreatesOver' /\ fs' <= size'
  BY <1>1, <1>10, NextType DEF IInv
<1>3. ASSUME NEW c \in Creates, CoCreate(c)
      PROVE  LockHeld' /\ CreatesOver' /\ fs' <= size'
  BY <1>1, <1>3 DEF CoCreate, Goto, LockHeld, CreatesOver, TypeOK, fileVars
<1>4. ASSUME NEW n \in Nodes, Node(n)
      PROVE  LockHeld' /\ CreatesOver' /\ fs' <= size'
  BY <1>1, <1>4, NodeGrows DEF LockHeld, CreatesOver
<1>5. CASE Delete
  <2>1. UNCHANGED <<pc, volumeLock, live>> /\ fs' <= size'
    BY SMT, <1>1, <1>5 DEF Delete, CoDelete, DeleteVolume, DeleteLookup,
       DeleteCheckSnapshots, DeleteFile, createVars, coVars, fileVars
  <2>2. phase # "creating" \/ phase' = phase
    BY <1>1, <1>5 DEF Delete, CoDelete, DeleteVolume, DeleteLookup,
       DeleteCheckSnapshots, DeleteFile, DeleteAfterCreate
  <2> QED
    BY <1>1, <2>1, <2>2 DEF LockHeld, CreatesOver
<1>6. CASE CoAbandon \/ Appear \/ SnapshotChanges
  BY <1>1, <1>6 DEF CoAbandon, Appear, SnapshotChanges, LockHeld, CreatesOver,
     createVars, coVars, fileVars
<1>7. ASSUME NEW requested \in 1..MaxSize, ControllerExpandVolume(requested)
      PROVE  LockHeld' /\ CreatesOver' /\ fs' <= size'
  BY <1>1, <1>7 DEF ControllerExpandVolume, LockHeld, CreatesOver, createVars, fileVars
<1>8. CASE ControllerRestart
  BY <1>1, <1>8, CallAssumption DEF ControllerRestart, LockHeld, CreatesOver, fileVars
<1>9. CASE UNCHANGED vars
  BY <1>1, <1>9 DEF LockHeld, CreatesOver, vars, fileVars, coVars, createVars
<1> QED
  BY <1>3, <1>4, <1>5, <1>6, <1>7, <1>8, <1>9, CreateHeld DEF Next

\* While the volume is in use only its nodes touch the file, and they only grow
\* it.
LEMMA InUseGrows == IInv /\ [Next]_vars => NoDataLossStep
<1> SUFFICES ASSUME IInv, [Next]_vars, phase = "created", phase' = "created"
             PROVE  size' >= size /\ fs' >= fs
  BY DEF NoDataLossStep
<1>1. /\ TypeOK /\ fs <= size /\ LockHeld /\ CreatesOver
      /\ size \in Int /\ fs \in Int /\ dpc = "idle"
  BY SMT DEF IInv, TypeOK, DeleteAfterCreate
<1>2. ASSUME NEW c \in Creates, CoCreate(c) \/ Create(c)
      PROVE  size' = size /\ fs' = fs
  <2>1. pc[c] \in {"idle", "lock"}
    BY <1>1, CallAssumption DEF LockHeld, CreatesOver
  <2>2. CoCreate(c) \/ AcquireVolumeLock(c)
    BY <1>2, <2>1 DEF Create, EnsureDeviceFile, MakeEmptyRawFile, FormatDevice,
       RestoreFileSnap, GrowLook, GrowRaw, GrowFs, GrowMounted, GrowUnmount, PollVisible
  <2> QED
    BY <2>2 DEF CoCreate, AcquireVolumeLock, fileVars
<1>3. ASSUME NEW n \in Nodes, Node(n)
      PROVE  size' >= size /\ fs' >= fs
  BY <1>1, <1>3, NodeGrows
<1>4. CASE Delete
  BY <1>1, <1>4 DEF Delete, CoDelete, DeleteVolume, DeleteLookup, DeleteCheckSnapshots,
     DeleteFile
<1>5. CASE CoAbandon \/ Appear \/ SnapshotChanges \/ ControllerRestart
  BY SMT, <1>1, <1>5 DEF CoAbandon, Appear, SnapshotChanges, ControllerRestart, fileVars
<1>6. ASSUME NEW requested \in 1..MaxSize, ControllerExpandVolume(requested)
      PROVE  size' = size /\ fs' = fs
  BY <1>6 DEF ControllerExpandVolume, fileVars
<1>7. CASE UNCHANGED vars
  BY SMT, <1>1, <1>7 DEF vars, fileVars
<1> QED
  BY SMT, <1>1, <1>2, <1>3, <1>4, <1>5, <1>6, <1>7 DEF Next

LEMMA InitInv == Init => IInv
<1> SUFFICES ASSUME Init
             PROVE  fs <= size /\ LockHeld /\ CreatesOver /\ DeleteAfterCreate
  BY InitType DEF IInv
<1> QED
  BY SMT, CallAssumption DEF Init, LockHeld, CreatesOver, DeleteAfterCreate

\* The creates the CO gave up on, which acquireVolumeLock lets run one at a time,
\* have all let go of the file when one is answered.
THEOREM CreatesExclude == Spec => []IInv
BY InitInv, NextInv, PTL DEF Spec

\* No step shrinks, truncates or reformats the file of a volume between the OK of
\* CreateVolume and the call of DeleteVolume, for any number of abandoned
\* creates, crashes and failures.
THEOREM NoDataLossHolds == Spec => NoDataLoss
<1>1. Spec => []IInv
  BY CreatesExclude
<1>2. IInv /\ [Next]_vars => [NoDataLossStep]_vars
  BY InUseGrows
<1> QED
  BY <1>1, <1>2, PTL DEF Spec, NoDataLoss

-----------------------------------------------------------------------------
(* The capacity of the raw file                                            *)

\* While a create works on the file the others wait, and the CO waits for one.
LEMMA OthersWait ==
    ASSUME IInv, NEW c \in Creates, pc[c] \notin {"idle", "lock"}
    PROVE  /\ phase = "creating" /\ dpc = "idle"
           /\ \A d \in Creates : d # c => pc[d] \in {"idle", "lock"}
BY CallAssumption DEF IInv, LockHeld, CreatesOver, DeleteAfterCreate

\* What the two ways to end a step of a create change.
LEMMA ReturnMoves ==
    ASSUME TypeOK, NEW c \in Creates, NEW r, Return(c, r)
    PROVE  /\ pc'[c] = "idle" /\ \A d \in Creates : d # c => pc'[d] = pc[d]
           /\ \/ phase' = phase /\ capacity' = capacity
              \/ r = "ok" /\ phase = "creating" /\ phase' = "created" /\ capacity' = Size
           /\ want' = want
BY DEF TypeOK, Return, Goto

LEMMA GoOnMoves ==
    ASSUME TypeOK, NEW c \in Creates, NEW s, GoOn(c, s)
    PROVE  /\ pc'[c] = s /\ \A d \in Creates : d # c => pc'[d] = pc[d]
           /\ phase' = phase /\ capacity' = capacity /\ want' = want
BY DEF TypeOK, GoOn, Goto, coVars

\* Waiting for the lock changes nothing that outlives the call.
LEMMA LockMoves ==
    ASSUME TypeOK, NEW c \in Creates, AcquireVolumeLock(c)
    PROVE  UNCHANGED <<size, fs, visible, snapshots, dpc, phase, capacity, want>>
<1>1. UNCHANGED <<size, fs, visible, snapshots, dpc>> /\ (UNCHANGED coVars \/ Return(c, "aborted"))
  BY DEF AcquireVolumeLock, fileVars
<1>2. CASE UNCHANGED coVars
  BY <1>1, <1>2 DEF coVars
<1>3. CASE Return(c, "aborted")
  BY SMT, <1>1, <1>3, ReturnMoves
<1> QED
  BY <1>1, <1>2, <1>3

\* A create that is past the growth of the raw file has a large enough file; a node
\* grows its file system for no more than the file has.
SizedSteps == {"format", "growFs", "growMounted", "growUnmount", "poll"}
RawInv ==
    /\ \A c \in Creates : pc[c] \in SizedSteps => size >= Size
    /\ phase = "creating" => \A n \in Nodes : epc[n] = 0
    /\ phase = "created" => size >= Size /\ size >= capacity /\ \A n \in Nodes : epc[n] <= size

LEMMA RawReturn ==
    ASSUME IInv, RawInv, size' \in Nat, NEW c \in Creates, pc[c] \notin {"idle", "lock"},
           NEW r, Return(c, r), r = "ok" => size' >= Size, UNCHANGED nodeVars
    PROVE  RawInv'
<1>1. TypeOK
  BY DEF IInv
<1>2. \A d \in Creates : pc'[d] \in {"idle", "lock"}
  BY <1>1, OthersWait, ReturnMoves
<1>3. epc' = epc /\ \A n \in Nodes : epc[n] = 0
  BY OthersWait DEF nodeVars, RawInv
<1> QED
  BY SMT, <1>1, <1>3, OthersWait, ReturnMoves DEF RawInv, SizedSteps

LEMMA RawGoOn ==
    ASSUME IInv, RawInv, NEW c \in Creates, pc[c] \notin {"idle", "lock"},
           NEW s, GoOn(c, s), s \in SizedSteps => size' >= Size, UNCHANGED nodeVars
    PROVE  RawInv'
<1>1. TypeOK
  BY DEF IInv
<1>2. \A d \in Creates : d # c => pc'[d] \in {"idle", "lock"}
  BY <1>1, OthersWait, GoOnMoves
<1>3. epc' = epc /\ phase' = "creating" /\ pc'[c] = s
  BY <1>1, OthersWait, GoOnMoves DEF nodeVars
<1> QED
  BY <1>2, <1>3, OthersWait DEF RawInv, SizedSteps

LEMMA RawFinish ==
    ASSUME IInv, RawInv, size' \in Nat, NEW c \in Creates, pc[c] \notin {"idle", "lock"},
           Finish(c), size' >= Size, UNCHANGED nodeVars
    PROVE  RawInv'
BY RawReturn, RawGoOn DEF Finish

\* A create leaves no file that is too small behind its OK.
LEMMA RawCreate ==
    ASSUME IInv, RawInv, NEW c \in Creates, Create(c)
    PROVE  RawInv'
<1>1. TypeOK /\ size \in Nat /\ size' \in Nat
  <2>1. TypeOK /\ TypeOK'
    BY CreateType DEF IInv
  <2> QED
    BY SMT, <2>1 DEF TypeOK
<1>2. CASE AcquireVolumeLock(c)
  <2>1. UNCHANGED <<size, epc>>
    BY <1>2 DEF AcquireVolumeLock, fileVars, nodeVars
  <2>2. pc'[c] \in {"idle", "getFile"} /\ (\A d \in Creates : d # c => pc'[d] = pc[d])
        /\ UNCHANGED <<phase, capacity>>
    <3>1. CASE Return(c, "aborted")
      BY SMT, <1>1, <3>1, ReturnMoves
    <3>2. CASE Goto(c, "getFile") /\ UNCHANGED coVars
      BY <1>1, <3>2 DEF Goto, coVars, TypeOK
    <3> QED
      BY <1>2, <3>1, <3>2 DEF AcquireVolumeLock
  <2> QED
    BY <2>1, <2>2 DEF RawInv, SizedSteps
<1>3. pc[c] \in SizedSteps => size >= Size
  BY DEF RawInv
<1>4. CASE EnsureDeviceFile(c)
  <2>1. size' = size /\ pc[c] = "getFile" /\ UNCHANGED nodeVars
    BY <1>4 DEF EnsureDeviceFile, fileVars
  <2>2. ASSUME NEW s \in {"restore", "makeFile"}, GoOn(c, s) PROVE RawInv'
    BY <2>1, <2>2, RawGoOn DEF SizedSteps
  <2>3. ASSUME NEW r \in {"error", "alreadyExists"}, Return(c, r) PROVE RawInv'
    BY <1>1, <2>1, <2>3, RawReturn
  <2>4. ASSUME size = Size, Return(c, "ok") PROVE RawInv'
    BY SMT, <1>1, <2>1, <2>4, RawReturn, SizeAssumption
  <2> QED
    BY <1>4, <2>2, <2>3, <2>4 DEF EnsureDeviceFile
<1>5. CASE MakeEmptyRawFile(c)
  <2>1. pc[c] = "makeFile" /\ UNCHANGED nodeVars
    BY <1>5 DEF MakeEmptyRawFile
  <2>2. ASSUME Return(c, "error") PROVE RawInv'
    BY <1>1, <2>1, <2>2, RawReturn
  <2>3. ASSUME size' = Size, GoOn(c, "format") \/ Finish(c) PROVE RawInv'
    BY SMT, <1>1, <2>1, <2>3, RawGoOn, RawFinish, SizeAssumption
  <2> QED
    BY <1>5, <2>2, <2>3 DEF MakeEmptyRawFile
<1>6. CASE FormatDevice(c)
  <2>1. pc[c] = "format" /\ size' = size /\ UNCHANGED nodeVars
    BY <1>6 DEF FormatDevice
  <2> QED
    BY <1>1, <1>3, <1>6, RawReturn, RawFinish DEF FormatDevice, SizedSteps
<1>7. CASE RestoreFileSnap(c)
  <2>1. pc[c] = "restore" /\ UNCHANGED nodeVars
    BY <1>7 DEF RestoreFileSnap
  <2>2. ASSUME GoOn(c, "growLook") PROVE RawInv'
    BY <2>1, <2>2, RawGoOn DEF SizedSteps
  <2>3. ASSUME Return(c, "error") PROVE RawInv'
    BY <1>1, <2>1, <2>3, RawReturn
  <2> QED
    BY <1>7, <2>2, <2>3 DEF RestoreFileSnap
<1>8. CASE GrowLook(c)
  <2>1. pc[c] = "growLook" /\ size' = size /\ UNCHANGED nodeVars
    BY <1>8 DEF GrowLook, fileVars
  <2>2. ASSUME GoOn(c, "growRaw") PROVE RawInv'
    BY <2>1, <2>2, RawGoOn DEF SizedSteps
  <2>3. ASSUME Return(c, "error") PROVE RawInv'
    BY <1>1, <2>1, <2>3, RawReturn
  <2>4. ASSUME ~(size < Size), Finish(c) PROVE RawInv'
    BY SMT, <1>1, <2>1, <2>4, RawFinish, SizeAssumption
  <2> QED
    BY <1>8, <2>2, <2>3, <2>4 DEF GrowLook
<1>9. CASE GrowRaw(c)
  <2>1. pc[c] = "growRaw" /\ UNCHANGED nodeVars
    BY <1>9 DEF GrowRaw
  <2>2. ASSUME Return(c, "error") PROVE RawInv'
    BY <1>1, <2>1, <2>2, RawReturn
  <2>3. ASSUME size' = (IF size < Size THEN Size ELSE size), GoOn(c, "growFs") \/ Finish(c)
        PROVE  RawInv'
    <3>1. size' >= Size
      BY SMT, <1>1, <2>3, SizeAssumption
    <3> QED
      BY <1>1, <2>1, <2>3, <3>1, RawGoOn, RawFinish
  <2> QED
    BY <1>9, <2>2, <2>3 DEF GrowRaw
<1>10. CASE GrowFs(c)
  <2>1. pc[c] = "growFs" /\ size' = size /\ UNCHANGED nodeVars
    BY <1>10 DEF GrowFs, fileVars
  <2> QED
    BY <1>1, <1>3, <1>10, <2>1, RawReturn, RawGoOn, RawFinish DEF GrowFs, SizedSteps
<1>11. CASE GrowMounted(c)
  <2>1. pc[c] = "growMounted" /\ size' = size /\ UNCHANGED nodeVars
    BY <1>11 DEF GrowMounted
  <2> QED
    BY <1>1, <1>3, <1>11, RawReturn, RawGoOn DEF GrowMounted, SizedSteps
<1>12. CASE GrowUnmount(c)
  <2>1. pc[c] = "growUnmount" /\ size' = size /\ UNCHANGED nodeVars
    BY <1>12 DEF GrowUnmount, fileVars
  <2> QED
    BY <1>1, <1>3, <1>12, <2>1, RawReturn, RawFinish DEF GrowUnmount, SizedSteps
<1>13. CASE PollVisible(c)
  <2>1. pc[c] = "poll" /\ size' = size /\ UNCHANGED nodeVars
    BY <1>13 DEF PollVisible, fileVars
  <2> QED
    BY <1>1, <1>3, <1>13, <2>1, RawReturn DEF PollVisible, SizedSteps
<1> QED
  BY <1>2, <1>4, <1>5, <1>6, <1>7, <1>8, <1>9, <1>10, <1>11, <1>12, <1>13 DEF Create

\* A node is asked to grow a volume in use, and the CO is told after the file has grown.
LEMMA RawNode ==
    ASSUME IInv, RawInv, NEW n \in Nodes, Node(n)
    PROVE  RawInv'
<1>1. TypeOK /\ fs <= size /\ size \in Nat /\ capacity \in Nat /\ want \in Nat
      /\ epc \in [Nodes -> Nat]
  BY SMT DEF IInv, TypeOK
<1>2. UNCHANGED <<pc, phase>> /\ size' >= size /\ size' \in Nat
  <2>1. UNCHANGED <<pc, phase>> /\ size' >= size
    BY <1>1, NodeGrows
  <2>2. size' \in Nat
    BY <1>1 DEF Node, Publish, Reconcile, Unpublish, NodeExpandVolume,
       ExpandMountedFilesystem, NodeRestart, fileVars
  <2> QED
    BY <2>1, <2>2
<1>3. \A c \in Creates : pc'[c] \in SizedSteps => size' >= Size
  BY SMT, <1>1, <1>2, SizeAssumption DEF RawInv
<1>4. CASE \/ \E mode \in {"ro", "rw"} : Publish(n, mode)
           \/ Reconcile(n) \/ Unpublish(n)
  <2>1. UNCHANGED <<capacity, epc>>
    BY <1>4 DEF Publish, Reconcile, Unpublish, coVars
  <2> QED
    BY SMT, <1>1, <1>2, <1>3, <2>1, SizeAssumption DEF RawInv
<1>5. CASE NodeExpandVolume(n)
  <2>1. phase = "created" /\ size' = want /\ capacity' \in {capacity, want}
    BY <1>5 DEF NodeExpandVolume
  <2>2. \A m \in Nodes : epc'[m] = epc[m] \/ epc'[m] = want
    BY <1>1, <1>5 DEF NodeExpandVolume
  <2> QED
    BY SMT, <1>1, <1>2, <2>1, <2>2, SizeAssumption DEF RawInv
<1>6. CASE ExpandMountedFilesystem(n)
  <2>1. epc[n] > 0 /\ capacity' \in {capacity, epc[n]} /\ epc' = [epc EXCEPT ![n] = 0]
    BY <1>6 DEF ExpandMountedFilesystem
  <2>2. phase # "creating"
    BY SMT, <2>1 DEF RawInv
  <2> QED
    BY SMT, <1>1, <1>2, <2>1, SizeAssumption DEF RawInv
<1>7. CASE NodeRestart(n)
  <2>1. capacity' = capacity /\ epc' = [epc EXCEPT ![n] = 0]
    BY <1>7 DEF NodeRestart, coVars
  <2> QED
    BY SMT, <1>1, <1>2, <1>3, <2>1, SizeAssumption DEF RawInv
<1> QED
  BY <1>4, <1>5, <1>6, <1>7 DEF Node

LEMMA RawStep == IInv /\ RawInv /\ [Next]_vars => RawInv'
<1> SUFFICES ASSUME IInv, RawInv, [Next]_vars
             PROVE  RawInv'
  OBVIOUS
<1>1. TypeOK /\ size \in Nat /\ DeleteAfterCreate /\ CreatesOver /\ LockHeld
  BY SMT DEF IInv, TypeOK
<1>2. ASSUME NEW c \in Creates, CoCreate(c) PROVE RawInv'
  <2>1. UNCHANGED <<size, phase, capacity, epc>> /\ \A d \in Creates : pc'[d] = pc[d] \/ pc'[d] = "lock"
    BY SMT, <1>2 DEF CoCreate, Goto, TypeOK, fileVars, nodeVars
  <2> QED
    BY <2>1 DEF RawInv, SizedSteps
<1>3. CASE CoAbandon \/ Appear \/ SnapshotChanges
  BY <1>3 DEF CoAbandon, Appear, SnapshotChanges, RawInv, fileVars, coVars, createVars,
     nodeVars
<1>4. ASSUME NEW requested \in 1..MaxSize, ControllerExpandVolume(requested) PROVE RawInv'
  <2>1. UNCHANGED <<size, phase, pc, epc>> /\ capacity' \in {capacity, size}
    BY <1>4 DEF ControllerExpandVolume, fileVars, createVars, nodeVars
  <2> QED
    BY SMT, <1>1, <2>1 DEF RawInv
<1>5. CASE Delete
  <2>1. UNCHANGED <<pc, epc, capacity>> /\ phase' \in {phase, "deleting", "deleted"}
    BY <1>5 DEF Delete, CoDelete, DeleteVolume, DeleteLookup, DeleteCheckSnapshots,
       DeleteFile, DeleteReturns, createVars, coVars, nodeVars
  <2>2. size' = size \/ (phase # "creating" /\ phase' # "created")
    BY <1>1, <1>5 DEF Delete, CoDelete, DeleteVolume, DeleteLookup,
       DeleteCheckSnapshots, DeleteFile, DeleteReturns, DeleteAfterCreate, fileVars
  <2>3. phase # "creating" => \A c \in Creates : pc[c] \in {"idle", "lock"}
    BY <1>1, CallAssumption DEF LockHeld, CreatesOver
  <2> QED
    BY <2>1, <2>2, <2>3 DEF RawInv, SizedSteps
<1>6. CASE ControllerRestart
  BY <1>6 DEF ControllerRestart, RawInv, SizedSteps, fileVars, nodeVars
<1>7. CASE UNCHANGED vars
  BY <1>7 DEF vars, RawInv, fileVars, coVars, createVars, nodeVars
<1> QED
  BY <1>2, <1>3, <1>4, <1>5, <1>6, <1>7, RawCreate, RawNode DEF Next

LEMMA RawInvariance == Spec => [](IInv /\ RawInv)
<1>1. Init => RawInv
  BY DEF Init, RawInv, SizedSteps
<1> QED
  BY <1>1, InitInv, NextInv, RawStep, PTL DEF Spec

\* Whatever commands fail, calls are abandoned and processes restart, the raw file of a
\* volume in use has the capacity the CO was told of (ensureDeviceFileExists,
\* growRestoredDeviceFile, ControllerExpandVolume, NodeExpandVolume).
THEOREM RawCapacityDeliveredHolds == Spec => []RawCapacityDelivered
<1>1. RawInv => RawCapacityDelivered
  BY DEF RawInv, RawCapacityDelivered
<1> QED
  BY <1>1, RawInvariance, PTL

-----------------------------------------------------------------------------
(* The capacity of the file system, and the private growth mount           *)

\* No command fails and no process restarts; calls are abandoned and the files API fails.
CommandsWork == FaultKinds \cap {"command", "crash"} = {}
\* The check whether a path is mounted is answered.
ProbesAnswer == "probe" \notin FaultKinds
\* No capacity is lowered while an expansion is going on.
ExpansionsRise == "lower" \notin FaultKinds

\* The source's file system filled its file, or the file is grown.
SourceFull == SnapSize < Size \/ SnapSize - SnapFs <= Slack

\* A file system fills its file, except while the file is too small for the volume, while
\* a create is about to format or grow it, and while a node has an expansion to finish.
Full == size - fs <= Slack
Ready == Full \/ size < Size
GrowingSteps == {"format", "growFs", "growMounted"}
FullInv ==
    filesystemGrowthPossible =>
        /\ phase = "creating" => Ready \/ \E c \in Creates : pc[c] \in GrowingSteps
        /\ phase = "created" => fs + Slack >= capacity /\ (Full \/ size <= want)

LEMMA LargeEnough ==
    \A raw, inner \in Nat : raw >= Size /\ (raw - inner <= Slack \/ raw < Size) =>
        raw - inner <= Slack /\ inner + Slack >= Size
BY SMT, SizeAssumption

LEMMA FullReturn ==
    ASSUME IInv, RawInv', size' \in Nat, fs' \in Nat, NEW c \in Creates,
           pc[c] \notin {"idle", "lock"}, NEW r, Return(c, r), Ready'
    PROVE  FullInv'
<1>1. TypeOK /\ phase = "creating"
  BY OthersWait DEF IInv
<1>2. phase' = "creating" \/ (phase' = "created" /\ capacity' = Size)
  BY <1>1, ReturnMoves
<1>3. CASE phase' = "creating"
  BY <1>3 DEF FullInv
<1>4. CASE phase' = "created" /\ capacity' = Size
  <2>1. size' >= Size
    BY <1>4 DEF RawInv
  <2>0. size' - fs' <= Slack \/ size' < Size
    BY DEF Ready, Full
  <2>2. size' - fs' <= Slack /\ fs' + Slack >= Size
    BY <2>0, <2>1, LargeEnough
  <2> QED
    BY <1>4, <2>2 DEF FullInv, Full
<1> QED
  BY <1>2, <1>3, <1>4

LEMMA FullGoOn ==
    ASSUME IInv, NEW c \in Creates, pc[c] \notin {"idle", "lock"},
           NEW s, GoOn(c, s), s \in GrowingSteps \/ Ready'
    PROVE  FullInv'
<1>1. TypeOK /\ phase = "creating"
  BY OthersWait DEF IInv
<1>2. phase' = "creating" /\ pc'[c] = s
  BY <1>1, GoOnMoves
<1> QED
  BY <1>2 DEF FullInv

LEMMA FullFinish ==
    ASSUME IInv, RawInv', size' \in Nat, fs' \in Nat, NEW c \in Creates,
           pc[c] \notin {"idle", "lock"}, Finish(c), Ready'
    PROVE  FullInv'
BY FullReturn, FullGoOn DEF Finish

\* Nothing changes when neither the file nor its file system does.
LEMMA ReadySame == UNCHANGED <<size, fs>> => (Ready' <=> Ready) /\ (Full' <=> Full)
BY DEF Ready, Full

\* A create that is abandoned has formatted or grown the file system when it lets go of
\* the lock: past the growth of the raw file, nothing looks at the context.
LEMMA FullCreate ==
    ASSUME CommandsWork, SourceFull, IInv, RawInv, FullInv, NEW c \in Creates, Create(c)
    PROVE  FullInv'
<1>1. /\ TypeOK /\ fs <= size /\ size \in Nat /\ fs \in Nat
      /\ size' \in Nat /\ fs' \in Nat /\ RawInv' /\ UNCHANGED fsType
  <2>1. TypeOK /\ TypeOK' /\ fs <= size /\ RawInv' /\ UNCHANGED fsType
    BY CreateType, RawCreate DEF IInv, Create
  <2> QED
    BY SMT, <2>1 DEF TypeOK
<1>2. SUFFICES ASSUME filesystemGrowthPossible PROVE FullInv'
  BY <1>1 DEF FullInv, filesystemGrowthPossible
<1>3. ~Fault("command") /\ HasFS
  BY <1>2 DEF CommandsWork, Fault, filesystemGrowthPossible, HasFS
<1>4. pc[c] \notin GrowingSteps \cup {"idle", "lock"} => Ready
  BY <1>2, OthersWait DEF FullInv, GrowingSteps
<1>5. CASE AcquireVolumeLock(c)
  <2>1. pc[c] = "lock" /\ UNCHANGED <<size, fs>>
    BY <1>5 DEF AcquireVolumeLock, fileVars
  <2>2. (\A d \in Creates : d # c => pc'[d] = pc[d]) /\ UNCHANGED <<phase, capacity, want>>
    <3>1. CASE Return(c, "aborted")
      BY SMT, <1>1, <3>1, ReturnMoves
    <3>2. CASE Goto(c, "getFile") /\ UNCHANGED coVars
      BY <1>1, <3>2 DEF Goto, coVars, TypeOK
    <3> QED
      BY <1>5, <3>1, <3>2 DEF AcquireVolumeLock
  <2> QED
    BY <1>2, <2>1, <2>2, ReadySame DEF FullInv, GrowingSteps
<1>6. CASE EnsureDeviceFile(c) \/ GrowLook(c) \/ PollVisible(c)
  <2>1. pc[c] \in {"getFile", "growLook", "poll"} /\ UNCHANGED <<size, fs>>
    BY <1>6 DEF EnsureDeviceFile, GrowLook, PollVisible, fileVars
  <2>2. (\E r : Return(c, r)) \/ (\E s : GoOn(c, s)) \/ Finish(c)
    BY <1>6 DEF EnsureDeviceFile, GrowLook, PollVisible
  <2> QED
    BY <1>1, <1>4, <2>1, <2>2, ReadySame, FullReturn, FullGoOn, FullFinish DEF GrowingSteps
<1>7. CASE MakeEmptyRawFile(c)
  <2>1. pc[c] = "makeFile" /\ Ready
    BY <1>4, <1>7 DEF MakeEmptyRawFile, GrowingSteps
  <2>2. ASSUME GoOn(c, "format") PROVE FullInv'
    BY <2>1, <2>2, FullGoOn DEF GrowingSteps
  <2>3. ASSUME Return(c, "error"), UNCHANGED <<size, fs>> PROVE FullInv'
    BY <1>1, <2>1, <2>3, ReadySame, FullReturn
  <2> QED
    BY <1>3, <1>7, <2>2, <2>3 DEF MakeEmptyRawFile
<1>8. CASE FormatDevice(c)
  <2>1. pc[c] = "format" /\ size' = size /\ fs' \in FullSizes /\ Finish(c)
    BY <1>3, <1>8 DEF FormatDevice
  <2>2. Ready'
    BY <1>1, <2>1, FullSize DEF TypeOK, Ready, Full
  <2> QED
    BY <1>1, <2>1, <2>2, FullFinish
<1>9. CASE RestoreFileSnap(c)
  <2>0. pc[c] = "restore"
    BY <1>9 DEF RestoreFileSnap
  <2>1. Ready'
    <3>1. CASE size' = SnapSize /\ fs' = SnapFs
      BY <3>1 DEF Ready, Full, SourceFull
    <3>2. CASE UNCHANGED <<size, fs>>
      BY <1>4, <2>0, <3>2, ReadySame DEF GrowingSteps
    <3> QED
      BY <1>3, <1>9, <3>1, <3>2 DEF RestoreFileSnap
  <2>2. Return(c, "error") \/ GoOn(c, "growLook")
    BY <1>9 DEF RestoreFileSnap
  <2> QED
    BY <1>1, <2>0, <2>1, <2>2, FullReturn, FullGoOn
<1>10. CASE GrowRaw(c)
  <2>1. pc[c] = "growRaw" /\ Ready
    BY <1>4, <1>10 DEF GrowRaw, GrowingSteps
  <2>2. ASSUME GoOn(c, "growFs") PROVE FullInv'
    BY <2>1, <2>2, FullGoOn DEF GrowingSteps
  <2>3. ASSUME Return(c, "error"), UNCHANGED <<size, fs>> PROVE FullInv'
    BY <1>1, <2>1, <2>3, ReadySame, FullReturn
  <2> QED
    BY <1>2, <1>10, <2>2, <2>3 DEF GrowRaw
<1>11. CASE GrowFs(c)
  <2>1. pc[c] = "growFs" /\ UNCHANGED <<size, fs>>
    BY <1>11 DEF GrowFs, fileVars
  <2>2. ASSUME GoOn(c, "growMounted") PROVE FullInv'
    BY <2>1, <2>2, FullGoOn DEF GrowingSteps
  <2>3. ASSUME ~FilesystemNeedsGrowth, Finish(c) PROVE FullInv'
    <3>1. Ready
      BY SMT, <1>1, <2>3, SizeAssumption DEF FilesystemNeedsGrowth, Ready, Full
    <3> QED
      BY <1>1, <2>1, <2>3, <3>1, ReadySame, FullFinish
  <2> QED
    BY <1>3, <1>11, <2>2, <2>3 DEF GrowFs
<1>12. CASE GrowMounted(c)
  <2>1. pc[c] = "growMounted" /\ size' = size /\ fs' \in FullSizes /\ GoOn(c, "growUnmount")
    BY <1>3, <1>12 DEF GrowMounted
  <2>2. Ready'
    BY <1>1, <2>1, FullSize DEF TypeOK, Ready, Full
  <2> QED
    BY <2>1, <2>2, FullGoOn
<1>13. CASE GrowUnmount(c)
  <2>1. pc[c] = "growUnmount" /\ UNCHANGED <<size, fs>> /\ Finish(c)
    BY <1>3, <1>13 DEF GrowUnmount, fileVars
  <2> QED
    BY <1>1, <1>4, <2>1, ReadySame, FullFinish DEF GrowingSteps
<1> QED
  BY <1>5, <1>6, <1>7, <1>8, <1>9, <1>10, <1>11, <1>12, <1>13 DEF Create

\* A node that grows the file leaves the CO asking for as much until the file system
\* has grown, too.
LEMMA FullNode ==
    ASSUME IInv, RawInv, FullInv, NEW n \in Nodes, Node(n), UNCHANGED fsType
    PROVE  FullInv'
<1>1. /\ fs <= size /\ size \in Nat /\ fs \in Nat /\ capacity \in Nat /\ want \in Nat
      /\ epc \in [Nodes -> Nat] /\ UNCHANGED <<pc, phase>> /\ fs' >= fs /\ Slack \in Nat
      /\ \A f \in FullSizes : f \in Nat /\ size - f <= Slack
  BY SMT, NodeGrows, FullSize, SizeAssumption DEF IInv, TypeOK
<1>2. SUFFICES ASSUME filesystemGrowthPossible PROVE FullInv'
  BY DEF FullInv, filesystemGrowthPossible
<1>3. CASE \/ \E mode \in {"ro", "rw"} : Publish(n, mode)
           \/ Unpublish(n) \/ NodeRestart(n)
  BY <1>2, <1>3, ReadySame DEF Publish, Unpublish, NodeRestart, FullInv, fileVars, coVars,
     createVars
<1>4. CASE Reconcile(n)
  <2>1. UNCHANGED <<size, capacity, want>> /\ (fs' \in FullSizes \/ fs' = fs)
    BY <1>4 DEF Reconcile, coVars
  <2> QED
    BY SMT, <1>1, <1>2, <2>1 DEF FullInv, Ready, Full
<1>5. CASE NodeExpandVolume(n)
  <2>1. phase = "created" /\ size' = want /\ UNCHANGED <<fs, want, capacity>>
    BY <1>2, <1>5 DEF NodeExpandVolume, HasFS, filesystemGrowthPossible
  <2> QED
    BY SMT, <1>1, <1>2, <2>1 DEF FullInv, Ready, Full
<1>6. CASE ExpandMountedFilesystem(n)
  <2>1. CASE UNCHANGED <<size, fs, capacity, want>>
    BY <1>1, <1>2, <2>1, ReadySame DEF FullInv
  <2>2. CASE fs' \in FullSizes /\ size' = size /\ capacity' \in {capacity, epc[n]}
    <3>1. phase = "created" => epc[n] <= size /\ capacity <= size
      BY DEF RawInv
    <3> QED
      BY SMT, <1>1, <1>2, <2>2, <3>1 DEF FullInv, Ready, Full
  <2> QED
    BY <1>6, <2>1, <2>2 DEF ExpandMountedFilesystem
<1> QED
  BY <1>3, <1>4, <1>5, <1>6 DEF Node

LEMMA FullStep ==
    ASSUME CommandsWork, SourceFull, ExpansionsRise, IInv, RawInv, FullInv, [Next]_vars
    PROVE  FullInv'
<1>1. TypeOK /\ fs <= size /\ size \in Nat /\ fs \in Nat /\ capacity \in Nat /\ want \in Nat
  BY SMT DEF IInv, TypeOK
<1>0. UNCHANGED <<size, fs>> => (Ready' <=> Ready) /\ (Full' <=> Full)
  BY ReadySame
<1>2. UNCHANGED fsType
  BY DEF Next, vars
<1>3. ASSUME NEW c \in Creates, CoCreate(c) PROVE FullInv'
  <2>1. /\ UNCHANGED <<size, fs, phase, capacity, want>> /\ pc[c] = "idle"
        /\ \A d \in Creates : d # c => pc'[d] = pc[d]
    BY <1>1, <1>3 DEF CoCreate, Goto, TypeOK, fileVars
  <2> QED
    BY <1>0, <1>2, <2>1 DEF FullInv, GrowingSteps, filesystemGrowthPossible
<1>4. CASE CoAbandon \/ Appear \/ SnapshotChanges
  BY <1>0, <1>2, <1>4 DEF CoAbandon, Appear, SnapshotChanges, FullInv,
     filesystemGrowthPossible, fileVars, coVars, createVars
<1>5. ASSUME NEW requested \in 1..MaxSize, ControllerExpandVolume(requested) PROVE FullInv'
  <2>1. UNCHANGED <<size, fs, phase, pc>> /\ requested > want /\ phase = "created" /\ requested \in Nat
    BY SMT, <1>5 DEF ControllerExpandVolume, ExpansionsRise, Fault, fileVars, createVars
  <2>2. CASE size >= requested /\ capacity' = size
    BY SMT, <1>1, <1>2, <2>1, <2>2, SizeAssumption DEF FullInv, Full, filesystemGrowthPossible
  <2>3. CASE ~(size >= requested) /\ want' = requested /\ UNCHANGED capacity
    BY SMT, <1>1, <1>2, <2>1, <2>3 DEF FullInv, Full, filesystemGrowthPossible
  <2> QED
    BY <1>5, <2>2, <2>3 DEF ControllerExpandVolume
<1>6. CASE Delete
  <2>1. phase' = phase /\ phase \in {"creating", "created"} => UNCHANGED <<size, fs, pc, capacity, want>>
    BY <1>6 DEF Delete, CoDelete, DeleteVolume, DeleteLookup, DeleteCheckSnapshots,
       DeleteFile, IInv, DeleteAfterCreate
  <2>2. phase' = phase \/ phase' \in {"deleting", "deleted"}
    BY <1>6 DEF Delete, CoDelete, DeleteVolume, DeleteLookup, DeleteCheckSnapshots,
       DeleteFile, DeleteReturns, coVars
  <2> QED
    BY <1>0, <1>2, <2>1, <2>2 DEF FullInv, filesystemGrowthPossible
<1>7. ~ControllerRestart
  BY DEF ControllerRestart, CommandsWork, Fault
<1>8. CASE UNCHANGED vars
  BY <1>0, <1>8 DEF vars, FullInv, filesystemGrowthPossible, fileVars, coVars, createVars
<1> QED
  BY <1>2, <1>3, <1>4, <1>5, <1>6, <1>7, <1>8, FullCreate, FullNode DEF Next

\* The private mount is on only while a create is growing the file system.
PrivateInv == private => \E c \in Creates : pc[c] \in {"growMounted", "growUnmount"}

LEMMA PrivateStep ==
    ASSUME CommandsWork, ProbesAnswer, IInv, PrivateInv, [Next]_vars
    PROVE  PrivateInv'
<1>1. TypeOK
  BY DEF IInv
<1>2. ~Fault("command") /\ ~Fault("crash") /\ ~Fault("probe")
  BY DEF CommandsWork, ProbesAnswer, Fault
<1>3. ASSUME NEW c \in Creates, pc[c] \notin {"idle", "lock", "growMounted", "growUnmount"}
      PROVE  ~private
  BY <1>3, OthersWait DEF PrivateInv
<1>4. ASSUME NEW c \in Creates, Create(c) PROVE PrivateInv'
  <2>1. CASE AcquireVolumeLock(c)
    <3>1. pc[c] = "lock" /\ private' = private /\ \A d \in Creates : d # c => pc'[d] = pc[d]
      BY <1>1, <2>1, ReturnMoves DEF AcquireVolumeLock, Goto, TypeOK
    <3> QED
      BY <3>1 DEF PrivateInv
  <2>2. CASE EnsureDeviceFile(c) \/ MakeEmptyRawFile(c) \/ FormatDevice(c) \/ RestoreFileSnap(c)
    <3>1. private' = private /\ pc[c] \in {"getFile", "makeFile", "format", "restore"}
      BY <2>2 DEF EnsureDeviceFile, MakeEmptyRawFile, FormatDevice, RestoreFileSnap
    <3> QED
      BY <1>3, <3>1 DEF PrivateInv
  <2>3. CASE GrowLook(c) \/ GrowRaw(c) \/ PollVisible(c)
    <3>1. private' = private /\ pc[c] \in {"growLook", "growRaw", "poll"}
      BY <2>3 DEF GrowLook, GrowRaw, PollVisible
    <3> QED
      BY <1>3, <3>1 DEF PrivateInv
  <2>4. CASE GrowFs(c)
    <3>1. pc[c] = "growFs" /\ (private' = private \/ GoOn(c, "growMounted"))
      BY <1>2, <2>4 DEF GrowFs
    <3> QED
      BY <1>1, <1>3, <3>1, GoOnMoves DEF PrivateInv
  <2>5. CASE GrowMounted(c)
    <3>1. GoOn(c, "growUnmount")
      BY <1>2, <2>5 DEF GrowMounted
    <3> QED
      BY <1>1, <3>1, GoOnMoves DEF PrivateInv
  <2>6. CASE GrowUnmount(c)
    BY <1>2, <2>6 DEF GrowUnmount, PrivateInv
  <2> QED
    BY <1>4, <2>1, <2>2, <2>3, <2>4, <2>5, <2>6 DEF Create
<1>5. ASSUME NEW c \in Creates, CoCreate(c) PROVE PrivateInv'
  <2>1. private' = private /\ pc[c] = "idle" /\ \A d \in Creates : d # c => pc'[d] = pc[d]
    BY <1>1, <1>5 DEF CoCreate, Goto, TypeOK
  <2> QED
    BY <2>1 DEF PrivateInv
<1>6. CASE Delete \/ (\E n \in Nodes : Node(n))
  <2>1. UNCHANGED <<pc, private>>
    BY <1>6 DEF Delete, CoDelete, DeleteVolume, DeleteLookup,
       DeleteCheckSnapshots, DeleteFile, Node, Publish, Reconcile, Unpublish,
       NodeExpandVolume, ExpandMountedFilesystem, NodeRestart, createVars
  <2> QED
    BY <2>1 DEF PrivateInv
<1>7. CASE CoAbandon \/ Appear \/ SnapshotChanges \/ (\E r \in 1..MaxSize : ControllerExpandVolume(r))
  BY <1>7 DEF CoAbandon, Appear, SnapshotChanges, ControllerExpandVolume,
     PrivateInv, createVars
<1>8. ~ControllerRestart
  BY <1>2 DEF ControllerRestart
<1>9. CASE UNCHANGED vars
  BY <1>9 DEF vars, PrivateInv, createVars
<1> QED
  BY <1>4, <1>5, <1>6, <1>7, <1>8, <1>9 DEF Next

\* Where no command fails and no process restarts, the file system of a volume in use has
\* the capacity the CO was told of, but for filesystemGrowthSlack, however many creates are
\* abandoned half way and whatever part of a file mkfs, resize2fs and xfs_growfs leave
\* unused within the slack (growRestoredDeviceFile, NodeExpandVolume). No expansion is
\* lowered, and the file system of a source that is as large as the volume fills its file.
THEOREM CapacityDeliveredHolds ==
    ASSUME CommandsWork, SourceFull, ExpansionsRise PROVE Spec => []CapacityDelivered
<1>1. Init => FullInv
  <2> SUFFICES ASSUME Init PROVE FullInv
    OBVIOUS
  <2>1. size < Size /\ phase = "creating"
    BY SizeAssumption DEF Init
  <2> QED
    BY <2>1 DEF FullInv, Ready
<1>2. IInv /\ RawInv /\ FullInv /\ [Next]_vars => FullInv'
  BY FullStep
<1>3. RawInv /\ FullInv => CapacityDelivered
  BY DEF RawInv, FullInv, CapacityDelivered
<1> QED
  BY <1>1, <1>2, <1>3, RawInvariance, PTL DEF Spec

\* Where no command fails, no process restarts and the checks whether a path is mounted are
\* answered, the controller's private mount of a restored file system is gone when the CO may publish the volume (growFilesystemPrivatelyIfNeeded), abandoned
\* creates and lowered expansions included.
THEOREM PrivateMountAloneHolds ==
    ASSUME CommandsWork, ProbesAnswer PROVE Spec => []PrivateMountAlone
<1>1. Init => PrivateInv
  BY DEF Init, PrivateInv
<1>2. IInv /\ PrivateInv /\ [Next]_vars => PrivateInv'
  BY PrivateStep
<1>3. IInv /\ PrivateInv => PrivateMountAlone
  BY OthersWait DEF PrivateInv, PrivateMountAlone
<1> QED
  BY <1>1, <1>2, <1>3, CreatesExclude, PTL DEF Spec

-----------------------------------------------------------------------------
(* Deletion                                                                *)

\* The files API answers; and a create waits for its file to appear, or the file is
\* known at once.
FilesAnswer == "api" \notin FaultKinds
FilesAppear == PollsVisibility \/ ~MetadataLags

\* The Anvil knows the file of a volume the CO was told of, and a delete that was told
\* there is none is right.
VisibleInv ==
    /\ ~MetadataLags /\ size > 0 => visible
    /\ phase \in {"created", "deleting"} /\ size > 0 => visible
    /\ dpc = "checkUnknown" => size = 0
    /\ phase = "deleted" => size = 0

LEMMA VisibleReturn ==
    ASSUME IInv, NEW c \in Creates, pc[c] \notin {"idle", "lock"}, NEW r, Return(c, r),
           ~MetadataLags /\ size' > 0 => visible', r = "ok" /\ size' > 0 => visible', dpc' = dpc
    PROVE  VisibleInv'
<1>1. TypeOK /\ phase = "creating" /\ dpc = "idle"
  BY OthersWait DEF IInv
<1>2. phase' = "creating" \/ (phase' = "created" /\ r = "ok")
  BY <1>1, ReturnMoves
<1> QED
  BY <1>1, <1>2 DEF VisibleInv

LEMMA VisibleGoOn ==
    ASSUME IInv, NEW c \in Creates, pc[c] \notin {"idle", "lock"}, NEW s, GoOn(c, s),
           ~MetadataLags /\ size' > 0 => visible', dpc' = dpc
    PROVE  VisibleInv'
<1>1. TypeOK /\ phase = "creating" /\ dpc = "idle"
  BY OthersWait DEF IInv
<1>2. phase' = "creating"
  BY <1>1, GoOnMoves
<1> QED
  BY <1>1, <1>2 DEF VisibleInv

LEMMA VisibleFinish ==
    ASSUME FilesAppear, IInv, NEW c \in Creates, pc[c] \notin {"idle", "lock"}, Finish(c),
           ~MetadataLags /\ size' > 0 => visible', dpc' = dpc
    PROVE  VisibleInv'
BY VisibleReturn, VisibleGoOn DEF Finish, FilesAppear

\* A create is answered OK when the file was seen, or without a wait where that is sure.
LEMMA VisibleCreate ==
    ASSUME FilesAnswer, FilesAppear, IInv, VisibleInv, NEW c \in Creates, Create(c)
    PROVE  VisibleInv'
<1>1. TypeOK /\ size \in Nat /\ ~Fault("api")
  BY SMT DEF IInv, TypeOK, FilesAnswer, Fault
<1>2. ~MetadataLags /\ size > 0 => visible
  BY DEF VisibleInv
<1>3. CASE AcquireVolumeLock(c)
  <2>1. UNCHANGED <<size, visible, dpc, phase>>
    BY <1>1, <1>3, LockMoves
  <2> QED
    BY <2>1 DEF VisibleInv
<1>4. CASE EnsureDeviceFile(c)
  <2>1. pc[c] = "getFile" /\ UNCHANGED <<size, visible, dpc>>
    BY <1>4 DEF EnsureDeviceFile, fileVars
  <2>2. ASSUME NEW s, GoOn(c, s) PROVE VisibleInv'
    BY <1>2, <2>1, <2>2, VisibleGoOn
  <2>3. ASSUME NEW r, r # "ok", Return(c, r) PROVE VisibleInv'
    BY <1>2, <2>1, <2>3, VisibleReturn
  <2>4. ASSUME visible, Return(c, "ok") PROVE VisibleInv'
    BY <1>2, <2>1, <2>4, VisibleReturn
  <2>5. ASSUME GetFileAnswer("file") PROVE visible
    BY <1>1, <2>5 DEF GetFileAnswer
  <2> QED
    BY <1>4, <2>2, <2>3, <2>4, <2>5 DEF EnsureDeviceFile
<1>5. CASE MakeEmptyRawFile(c)
  <2>1. pc[c] = "makeFile" /\ dpc' = dpc /\ (~MetadataLags /\ size' > 0 => visible')
    <3>1. CASE UNCHANGED <<size, visible>>
      BY <1>2, <1>5, <3>1 DEF MakeEmptyRawFile
    <3>2. CASE visible' = IF size > 0 THEN visible ELSE ~MetadataLags
      BY <1>2, <1>5, <3>2 DEF MakeEmptyRawFile
    <3> QED
      BY <1>5, <3>1, <3>2 DEF MakeEmptyRawFile
  <2>2. Return(c, "error") \/ GoOn(c, "format") \/ Finish(c)
    BY <1>5 DEF MakeEmptyRawFile
  <2> QED
    BY <2>1, <2>2, VisibleReturn, VisibleGoOn, VisibleFinish
<1>6. CASE FormatDevice(c) \/ GrowLook(c) \/ GrowFs(c) \/ GrowMounted(c) \/ GrowUnmount(c)
  <2>1. /\ pc[c] \in {"format", "growLook", "growFs", "growMounted", "growUnmount"}
        /\ UNCHANGED <<size, visible, dpc>>
    BY <1>6 DEF FormatDevice, GrowLook, GrowFs, GrowMounted, GrowUnmount, fileVars
  <2>2. Return(c, "error") \/ (\E s : GoOn(c, s)) \/ Finish(c)
    BY <1>6 DEF FormatDevice, GrowLook, GrowFs, GrowMounted, GrowUnmount
  <2> QED
    BY <1>2, <2>1, <2>2, VisibleReturn, VisibleGoOn, VisibleFinish
<1>7. CASE RestoreFileSnap(c)
  <2>1. pc[c] = "restore" /\ dpc' = dpc /\ (~MetadataLags /\ size' > 0 => visible')
    BY <1>2, <1>7 DEF RestoreFileSnap
  <2>2. Return(c, "error") \/ GoOn(c, "growLook")
    BY <1>7 DEF RestoreFileSnap
  <2> QED
    BY <2>1, <2>2, VisibleReturn, VisibleGoOn
<1>8. CASE GrowRaw(c)
  <2>1. pc[c] = "growRaw" /\ UNCHANGED <<visible, dpc>> /\ (size > 0 \/ size' = size)
    BY <1>8 DEF GrowRaw
  <2>2. Return(c, "error") \/ GoOn(c, "growFs") \/ Finish(c)
    BY <1>8 DEF GrowRaw
  <2> QED
    BY <1>2, <2>1, <2>2, VisibleReturn, VisibleGoOn, VisibleFinish
<1>9. CASE PollVisible(c)
  <2>1. pc[c] = "poll" /\ visible /\ Return(c, "ok") /\ UNCHANGED <<visible, dpc>>
    BY <1>1, <1>9 DEF PollVisible, fileVars
  <2> QED
    BY <2>1, VisibleReturn
<1> QED
  BY <1>3, <1>4, <1>5, <1>6, <1>7, <1>8, <1>9 DEF Create

LEMMA VisibleStep ==
    ASSUME FilesAnswer, FilesAppear, IInv, VisibleInv, [Next]_vars
    PROVE  VisibleInv'
<1>1. TypeOK /\ size \in Nat /\ ~Fault("api") /\ DeleteAfterCreate
  BY SMT DEF IInv, TypeOK, FilesAnswer, Fault
<1>2. CASE (\E c \in Creates : CoCreate(c)) \/ CoAbandon \/ Appear \/ SnapshotChanges
  BY <1>2 DEF CoCreate, CoAbandon, Appear, SnapshotChanges, VisibleInv, fileVars, coVars
<1>3. CASE \E requested \in 1..MaxSize : ControllerExpandVolume(requested)
  BY SMT, <1>3 DEF ControllerExpandVolume, VisibleInv, fileVars
<1>4. ASSUME NEW n \in Nodes, Node(n) PROVE VisibleInv'
  <2>1. UNCHANGED <<visible, dpc, phase>> /\ (size' = size \/ (phase = "created" /\ visible))
    BY <1>4 DEF Node, Publish, Reconcile, Unpublish, NodeExpandVolume,
       ExpandMountedFilesystem, NodeRestart, fileVars, coVars
  <2> QED
    BY <1>1, <2>1 DEF VisibleInv, DeleteAfterCreate
<1>5. CASE CoDelete \/ DeleteVolume
  BY <1>5 DEF CoDelete, DeleteVolume, VisibleInv, fileVars, coVars
<1>6. CASE DeleteLookup
  <2>1. UNCHANGED <<size, visible, phase>> /\ phase = "deleting"
    BY <1>1, <1>6 DEF DeleteLookup, DeleteAfterCreate, fileVars, coVars
  <2>2. dpc' = "checkUnknown" => ~(size > 0 /\ visible)
    BY <1>1, <1>6 DEF DeleteLookup, GetFileAnswer
  <2> QED
    BY SMT, <1>1, <2>1, <2>2 DEF VisibleInv
<1>7. CASE DeleteCheckSnapshots
  <2>1. UNCHANGED <<size, visible>> /\ dpc' \in {"idle", "remove"} /\ phase = "deleting"
    BY <1>1, <1>7 DEF DeleteCheckSnapshots, DeleteReturns, DeleteAfterCreate, fileVars
  <2>2. phase' = phase \/ (phase' = "deleted" /\ dpc = "checkUnknown")
    BY <1>7 DEF DeleteCheckSnapshots, DeleteReturns
  <2> QED
    BY <2>1, <2>2 DEF VisibleInv
<1>8. CASE DeleteFile
  <2>1. dpc' = "idle" /\ phase = "deleting" /\ (size' = 0 \/ UNCHANGED <<size, visible, phase>>)
    BY <1>1, <1>8 DEF DeleteFile, DeleteReturns, DeleteAfterCreate
  <2> QED
    BY SMT, <2>1 DEF VisibleInv
<1>9. CASE ControllerRestart
  BY <1>9 DEF ControllerRestart, VisibleInv, fileVars
<1>10. CASE UNCHANGED vars
  BY <1>10 DEF vars, VisibleInv, fileVars, coVars
<1> QED
  BY <1>2, <1>3, <1>4, <1>5, <1>6, <1>7, <1>8, <1>9, <1>10, VisibleCreate DEF Next, Delete

\* A delete removes the file after it has seen that there are no snapshots, and none are
\* taken of a volume that is being deleted.
SnapshotInv ==
    /\ phase = "creating" => ~snapshots
    /\ size = 0 \/ dpc = "remove" => ~snapshots

LEMMA SnapshotStep ==
    ASSUME FilesAnswer, IInv, RawInv, SnapshotInv, [Next]_vars
    PROVE  SnapshotInv'
<1>1. /\ TypeOK /\ size \in Nat /\ ~Fault("api") /\ DeleteAfterCreate
      /\ phase = "created" => size > 0 /\ dpc = "idle"
  BY SMT, SizeAssumption DEF IInv, TypeOK, FilesAnswer, Fault, DeleteAfterCreate, RawInv
<1>2. ASSUME NEW c \in Creates, Create(c) PROVE SnapshotInv'
  <2>1. CASE AcquireVolumeLock(c)
    BY <1>1, <2>1, ReturnMoves DEF AcquireVolumeLock, SnapshotInv, fileVars, coVars
  <2>2. CASE ~AcquireVolumeLock(c)
    <3>1. pc[c] \notin {"idle", "lock"} /\ snapshots' = snapshots
      BY <1>2, <2>2 DEF Create, EnsureDeviceFile, MakeEmptyRawFile, FormatDevice,
         RestoreFileSnap, GrowLook, GrowRaw, GrowFs, GrowMounted, GrowUnmount,
         PollVisible, fileVars
    <3> QED
      BY <3>1, OthersWait DEF SnapshotInv
  <2> QED
    BY <2>1, <2>2
<1>3. CASE (\E c \in Creates : CoCreate(c)) \/ CoAbandon \/ Appear
  BY SMT, <1>3 DEF CoCreate, CoAbandon, Appear, SnapshotInv, fileVars, coVars
<1>4. CASE SnapshotChanges
  BY SMT, <1>1, <1>4 DEF SnapshotChanges, SnapshotInv, coVars
<1>5. CASE \E requested \in 1..MaxSize : ControllerExpandVolume(requested)
  BY SMT, <1>5 DEF ControllerExpandVolume, SnapshotInv, fileVars
<1>6. ASSUME NEW n \in Nodes, Node(n) PROVE SnapshotInv'
  <2>1. UNCHANGED <<snapshots, dpc, phase>>
    BY <1>6 DEF Node, Publish, Reconcile, Unpublish, NodeExpandVolume,
       ExpandMountedFilesystem, NodeRestart, fileVars, coVars
  <2>2. size' >= size
    BY <1>6, NodeGrows DEF IInv
  <2> QED
    BY SMT, <1>1, <2>1, <2>2 DEF SnapshotInv
<1>7. CASE CoDelete \/ DeleteVolume \/ DeleteLookup
  BY SMT, <1>7 DEF CoDelete, DeleteVolume, DeleteLookup, SnapshotInv, fileVars, coVars
<1>8. CASE DeleteCheckSnapshots
  <2>1. UNCHANGED <<size, snapshots>> /\ phase = "deleting" /\ phase' # "creating"
    BY <1>1, <1>8 DEF DeleteCheckSnapshots, DeleteReturns, DeleteAfterCreate, fileVars
  <2>2. dpc' = "remove" => ~snapshots
    BY <1>1, <1>8 DEF DeleteCheckSnapshots, DeleteReturns
  <2> QED
    BY <2>1, <2>2 DEF SnapshotInv
<1>9. CASE DeleteFile
  BY <1>9 DEF DeleteFile, SnapshotInv
<1>10. CASE ControllerRestart
  BY <1>10 DEF ControllerRestart, SnapshotInv, fileVars
<1>11. CASE UNCHANGED vars
  BY <1>11 DEF vars, SnapshotInv, fileVars, coVars
<1> QED
  BY <1>2, <1>3, <1>4, <1>5, <1>6, <1>7, <1>8, <1>9, <1>10, <1>11 DEF Next, Delete

\* With a files API that answers, a volume reported deleted leaves no file behind
\* (deleteFileBackedVolume), through failed commands, restarts and abandoned calls: a
\* create was answered only once the Anvil knew the file.
THEOREM DeletedIsGoneHolds ==
    ASSUME FilesAnswer, FilesAppear PROVE Spec => []DeletedIsGone
<1>1. Init => VisibleInv
  BY SMT DEF Init, VisibleInv
<1>2. IInv /\ VisibleInv /\ [Next]_vars => VisibleInv'
  BY VisibleStep
<1>3. VisibleInv => DeletedIsGone
  BY DEF VisibleInv, DeletedIsGone
<1> QED
  BY <1>1, <1>2, <1>3, CreatesExclude, PTL DEF Spec

\* With a files API that answers, the file of a volume with snapshots is not deleted
\* (the check of deleteFileBackedVolume), whether the Anvil lags behind or not.
THEOREM SnapshotsKeepFileHolds ==
    ASSUME FilesAnswer PROVE Spec => []SnapshotsKeepFile
<1>1. Init => SnapshotInv
  BY DEF Init, SnapshotInv
<1>2. IInv /\ RawInv /\ SnapshotInv /\ [Next]_vars => SnapshotInv'
  BY SnapshotStep
<1>3. IInv /\ SnapshotInv => SnapshotsKeepFile
  BY SMT DEF IInv, TypeOK, SnapshotInv, SnapshotsKeepFile
<1> QED
  BY <1>1, <1>2, <1>3, RawInvariance, PTL DEF Spec

-----------------------------------------------------------------------------
(* The volume that the CO sees                                             *)

LEMMA InitLife == Init => Life!Init
BY SMT DEF Init, Life!Init, told

\* A step of the file, its calls and its nodes is a step of the volume that the CO sees, or
\* changes nothing of it.
LEMMA LifeStep ==
    ASSUME FilesAnswer, IInv, IInv', RawInv, RawInv', VisibleInv, SnapshotInv, [Next]_vars
    PROVE  [Life!Next]_<<phase, size, told, snapshots>>
<1>1. /\ TypeOK /\ DeleteAfterCreate /\ ~Fault("api")
      /\ size \in Nat /\ size' \in Nat /\ capacity \in Nat /\ capacity' \in Nat
      /\ phase = "created" => size >= capacity
      /\ phase' = "created" => size' >= capacity' /\ size' > 0
  BY SMT, SizeAssumption DEF IInv, TypeOK, RawInv, FilesAnswer, Fault
<1>2. ASSUME UNCHANGED <<phase, size, snapshots>>, phase = "created" => capacity' = capacity
      PROVE  UNCHANGED <<phase, size, told, snapshots>>
  BY <1>2 DEF told
<1>3. ASSUME phase = "creating", snapshots' = snapshots,
             phase' = phase \/ (phase' = "created" /\ capacity' = Size)
      PROVE  Life!Next
  <2>1. CASE phase' = phase
    <3>1. Life!Prepare
      BY <1>1, <1>3, <2>1 DEF Life!Prepare, told
    <3> QED
      BY <3>1 DEF Life!Next
  <2>2. CASE phase' = "created" /\ capacity' = Size
    <3>1. told' = Size /\ Size \in 1..size'
      BY SMT, <1>1, <2>2, SizeAssumption DEF told
    <3>2. Life!Provide
      BY <1>1, <1>3, <2>2, <3>1 DEF Life!Provide
    <3> QED
      BY <3>2 DEF Life!Next
  <2> QED
    BY <1>3, <2>1, <2>2
<1>4. ASSUME phase = "created", UNCHANGED <<phase, snapshots>>, capacity' >= capacity
      PROVE  Life!Next
  <2>1. told = capacity /\ told' = capacity' /\ capacity' \in capacity..size' /\ size' \in Nat \ {0}
    BY SMT, <1>1, <1>4 DEF told
  <2>2. Life!Resize
    BY <1>4, <2>1 DEF Life!Resize
  <2> QED
    BY <2>2 DEF Life!Next
<1>5. ASSUME phase = "deleting", phase' \in {"deleting", "deleted"},
             ~snapshots, snapshots' = snapshots, size' = 0
      PROVE  Life!Next
  <2>1. Life!Remove
    BY <1>5 DEF Life!Remove, told
  <2> QED
    BY <2>1 DEF Life!Next
<1>6. CASE (\E c \in Creates : CoCreate(c)) \/ CoAbandon \/ Appear \/ ControllerRestart \/ UNCHANGED vars
  <2>1. UNCHANGED <<phase, size, snapshots, capacity>>
    BY <1>6 DEF CoCreate, CoAbandon, Appear, ControllerRestart, vars, fileVars, coVars
  <2> QED
    BY <1>2, <2>1
<1>7. ASSUME NEW c \in Creates, Create(c)
      PROVE  [Life!Next]_<<phase, size, told, snapshots>>
  <2>1. CASE AcquireVolumeLock(c)
    <3>1. UNCHANGED <<phase, size, snapshots, capacity>>
      BY <1>1, <2>1, LockMoves
    <3> QED
      BY <1>2, <3>1
  <2>2. CASE ~AcquireVolumeLock(c)
    <3>1. pc[c] \notin {"idle", "lock"} /\ snapshots' = snapshots
      BY <1>7, <2>2 DEF Create, EnsureDeviceFile, MakeEmptyRawFile, FormatDevice,
         RestoreFileSnap, GrowLook, GrowRaw, GrowFs, GrowMounted, GrowUnmount,
         PollVisible, fileVars
    <3>2. ASSUME NEW r, Return(c, r) PROVE phase' = phase \/ (phase' = "created" /\ capacity' = Size)
      BY <1>1, <3>2, ReturnMoves
    <3>3. ASSUME NEW s, GoOn(c, s) PROVE phase' = phase
      BY <1>1, <3>3, GoOnMoves
    <3>4. Finish(c) => phase' = phase \/ (phase' = "created" /\ capacity' = Size)
      BY <3>2, <3>3 DEF Finish
    <3>5. phase' = phase \/ (phase' = "created" /\ capacity' = Size)
      <4>1. CASE EnsureDeviceFile(c) \/ RestoreFileSnap(c) \/ GrowLook(c)
        BY <4>1, <3>2, <3>3, <3>4 DEF EnsureDeviceFile, RestoreFileSnap, GrowLook
      <4>2. CASE MakeEmptyRawFile(c) \/ FormatDevice(c) \/ PollVisible(c)
        BY <4>2, <3>2, <3>3, <3>4 DEF MakeEmptyRawFile, FormatDevice, PollVisible
      <4>3. CASE GrowRaw(c) \/ GrowFs(c) \/ GrowMounted(c) \/ GrowUnmount(c)
        BY <4>3, <3>2, <3>3, <3>4 DEF GrowRaw, GrowFs, GrowMounted, GrowUnmount
      <4> QED
        BY <1>7, <2>2, <4>1, <4>2, <4>3 DEF Create
    <3> QED
      BY <1>3, <3>1, <3>5, OthersWait
  <2> QED
    BY <2>1, <2>2
<1>8. CASE SnapshotChanges
  <2>1. Life!Snapshot
    BY <1>8 DEF SnapshotChanges, Life!Snapshot, told, coVars
  <2> QED
    BY <2>1 DEF Life!Next
<1>9. ASSUME NEW requested \in 1..MaxSize, ControllerExpandVolume(requested)
      PROVE  Life!Next
  <2>1. /\ phase = "created" /\ UNCHANGED <<phase, size, snapshots>>
        /\ capacity' = size \/ capacity' = capacity
    BY <1>9 DEF ControllerExpandVolume, fileVars
  <2> QED
    BY SMT, <1>1, <1>4, <2>1
<1>10. ASSUME NEW n \in Nodes, Node(n)
       PROVE  [Life!Next]_<<phase, size, told, snapshots>>
  <2>1. UNCHANGED <<phase, snapshots>> /\ size' >= size
    BY <1>10, NodeGrows DEF IInv, Node, Publish, Reconcile, Unpublish,
       NodeExpandVolume, ExpandMountedFilesystem, NodeRestart, fileVars
  <2>2. phase # "created" => size' = size
    BY <1>10 DEF Node, Publish, Reconcile, Unpublish, NodeExpandVolume,
       ExpandMountedFilesystem, NodeRestart, fileVars
  <2>3. phase = "created" => capacity' >= capacity
    <3>1. CASE NodeExpandVolume(n)
      BY SMT, <1>1, <3>1 DEF NodeExpandVolume, TypeOK
    <3>2. CASE ExpandMountedFilesystem(n)
      BY SMT, <1>1, <3>2 DEF ExpandMountedFilesystem, TypeOK
    <3>3. CASE (\E mode \in {"ro", "rw"} : Publish(n, mode)) \/ Reconcile(n) \/ Unpublish(n) \/ NodeRestart(n)
      <4>1. UNCHANGED coVars
        BY <3>3 DEF Publish, Reconcile, Unpublish, NodeRestart
      <4> QED
        BY SMT, <1>1, <4>1 DEF coVars
    <3> QED
      BY <1>10, <3>1, <3>2, <3>3 DEF Node
  <2> QED
    BY <1>2, <1>4, <2>1, <2>2, <2>3
<1>11. CASE CoDelete
  <2>1. Life!Retire
    BY <1>11 DEF CoDelete, Life!Retire, told, fileVars
  <2> QED
    BY <2>1 DEF Life!Next
<1>12. CASE DeleteVolume \/ DeleteLookup
  <2>1. UNCHANGED <<phase, size, snapshots, capacity>>
    BY <1>12 DEF DeleteVolume, DeleteLookup, fileVars, coVars
  <2> QED
    BY <1>2, <2>1
<1>13. CASE DeleteCheckSnapshots
  <2>1. UNCHANGED <<size, snapshots, capacity>> /\ phase = "deleting"
    BY <1>1, <1>13 DEF DeleteCheckSnapshots, DeleteAfterCreate, fileVars
  <2>2. \/ phase' = phase
        \/ phase' = "deleted" /\ dpc = "checkUnknown" /\ ~snapshots
    BY <1>1, <1>13 DEF DeleteCheckSnapshots, DeleteReturns
  <2>3. dpc = "checkUnknown" => size = 0
    BY DEF VisibleInv
  <2> QED
    BY <1>2, <1>5, <2>1, <2>2, <2>3
<1>14. CASE DeleteFile
  <2>1. phase = "deleting" /\ snapshots' = snapshots /\ ~snapshots /\ capacity' = capacity
    BY <1>1, <1>14 DEF DeleteFile, DeleteAfterCreate, SnapshotInv
  <2>2. \/ size' = 0 /\ phase' \in {"deleting", "deleted"}
        \/ UNCHANGED <<phase, size>>
    BY <1>14, <2>1 DEF DeleteFile, DeleteReturns
  <2> QED
    BY <1>2, <1>5, <2>1, <2>2
<1> QED
  BY <1>6, <1>7, <1>8, <1>9, <1>10, <1>11, <1>12, <1>13, <1>14 DEF Next, Delete

\* With a files API that answers and files that appear, the create, publish, expand and
\* delete calls of a volume, however interleaved, abandoned, failed or restarted, show the
\* CO the life of a volume that Volume promises.
THEOREM VolumeRefinement ==
    ASSUME FilesAnswer, FilesAppear PROVE Spec => ImplementsVolume
<1>1. Init => VisibleInv /\ SnapshotInv
  BY SMT DEF Init, VisibleInv, SnapshotInv
<1>2. IInv /\ VisibleInv /\ [Next]_vars => VisibleInv'
  BY VisibleStep
<1>3. IInv /\ RawInv /\ SnapshotInv /\ [Next]_vars => SnapshotInv'
  BY SnapshotStep
<1>4. IInv /\ IInv' /\ RawInv /\ RawInv' /\ VisibleInv /\ SnapshotInv /\ [Next]_vars
      => [Life!Next]_<<phase, size, told, snapshots>>
  BY LifeStep
<1> QED
  BY <1>1, <1>2, <1>3, <1>4, InitLife, RawInvariance, PTL DEF Spec, ImplementsVolume, Life!Spec

=============================================================================
