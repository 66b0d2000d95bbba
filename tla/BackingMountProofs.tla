------------------------- MODULE BackingMountProofs -------------------------
(* Theorems about BackingMount, for any number of calls and processes. *)
EXTENDS BackingMount, TLAPS, FiniteSetTheorems, SequenceTheorems

\* Most leaves are first-order: Zenon takes them, and a leaf that needs more says SMT.
USE Zenon

-----------------------------------------------------------------------------
(* Type correctness                                                        *)

\* Pushing on and popping from the stack of mounts.
LEMMA StackType ==
    /\ <<>> \in Seq(Servers)
    /\ <<"current">> \in Seq(Servers) /\ <<"foreign">> \in Seq(Servers)
    /\ \A s \in Seq(Servers) : /\ <<"current">> \o s \in Seq(Servers)
                               /\ <<"current">> \o s # <<>>
                               /\ s # <<>> => Tail(s) \in Seq(Servers)
<1>1. <<>> \in Seq(Servers)
  BY SMT
<1>2. <<"current">> \in Seq(Servers) /\ <<"foreign">> \in Seq(Servers)
  BY SMT DEF Servers
<1>3. ASSUME NEW s \in Seq(Servers)
      PROVE  <<"current">> \o s \in Seq(Servers) /\ <<"current">> \o s # <<>>
  BY SMT, <1>2, ConcatProperties
<1>4. ASSUME NEW s \in Seq(Servers), s # <<>> PROVE Tail(s) \in Seq(Servers)
  BY <1>4, HeadTailProperties
<1> QED
  BY <1>1, <1>2, <1>3, <1>4

\* Steps is closed under every jump of the specification.
LEMMA StepNames ==
    /\ {"idle", "acquire", "release", "ensureGetShare", "ensureLock", "classify",
        "replace", "removeReplaced", "mount", "mountCall", "work", "work2",
        "unmountGetShare", "unmountRefs", "unmountProbe", "unmount", "removeDir"}
       \subseteq Steps
BY DEF Steps, EnsureSteps, WorkSteps, UnmountSteps

\* A jump to one of the steps.
LEMMA Jump ==
    ASSUME TypeOK, NEW o \in Ops, NEW s \in Steps, Goto(o, s)
    PROVE  pc' \in [Ops -> Steps]
BY DEF Goto, TypeOK

\* The two updates of a reference count.
LEMMA BumpRef ==
    ASSUME refs \in [Procs -> Nat], NEW p \in Procs, bumpBackingRef(p)
    PROVE  /\ refs' \in [Procs -> Nat]
           /\ refs'[p] = refs[p] + 1
           /\ \A q \in Procs : q # p => refs'[q] = refs[q]
BY SMT DEF bumpBackingRef

LEMMA DropRef ==
    ASSUME refs \in [Procs -> Nat], NEW p \in Procs, dropBackingRef(p)
    PROVE  /\ refs' \in [Procs -> Nat]
           /\ refs[p] > 0 => refs'[p] = refs[p] - 1
           /\ \A q \in Procs : q # p => refs'[q] = refs[q]
<1>1. (IF refs[p] > 0 THEN refs[p] - 1 ELSE 0) \in Nat
  BY SMT
<1> QED
  BY <1>1 DEF dropBackingRef

LEMMA StartType ==
    ASSUME TypeOK, NEW o \in Ops, Start(o) \/ Unpublish(o)
    PROVE  TypeOK'
<1>1. pc' \in [Ops -> Steps]
  <2>1. "unmountGetShare" \in Steps /\ (IF IsRef(o) THEN "acquire" ELSE "ensureGetShare") \in Steps
    BY StepNames
  <2> QED
    BY <2>1, Jump DEF Start, Unpublish
<1>2. loops' \in [Ops -> {"none", "on", "detached"}]
  BY DEF TypeOK, Start, Unpublish, host
<1>3. effect' \in [Ops -> Places]
  BY DEF TypeOK, Start, Unpublish, Places
<1>4. result' \in [Ops -> {"none", "ok", "error", "unpublished"}]
  BY DEF TypeOK, Start, Unpublish, Return
<1> QED
  BY <1>1, <1>3, <1>4 DEF TypeOK, Start, Unpublish, host

LEMMA AcquireType ==
    ASSUME TypeOK, NEW o \in Ops, acquireBackingMount(o) \/ releaseBackingMount(o)
    PROVE  TypeOK'
<1>1. pc' \in [Ops -> Steps]
  BY StepNames DEF TypeOK, acquireBackingMount, releaseBackingMount, Goto
<1>2. refs' \in [Procs -> Nat]
  BY BumpRef, DropRef, ProcAssumption DEF TypeOK, acquireBackingMount, releaseBackingMount
<1>3. ml' \in [Procs -> {NoOp} \cup Ops]
  BY ProcAssumption DEF TypeOK, acquireBackingMount, releaseBackingMount, Lock
<1> QED
  BY <1>1, <1>2, <1>3 DEF TypeOK, acquireBackingMount, releaseBackingMount, host

\* The two ways ensureBackingShareMounted returns.
LEMMA EnsureReturnType ==
    ASSUME TypeOK, NEW o \in Ops, EnsureOk(o) \/ EnsureError(o)
    PROVE  /\ pc' \in [Ops -> Steps]
           /\ refs' \in [Procs -> Nat]
           /\ ml' \in [Procs -> {NoOp} \cup Ops]
           /\ result' \in [Ops -> {"none", "ok", "error", "unpublished"}]
<1>1. pc' \in [Ops -> Steps]
  <2>1. "work" \in Steps /\ (IF Kind[o] = "nested" THEN "unmountGetShare" ELSE "idle") \in Steps
    BY StepNames
  <2> QED
    BY <2>1 DEF TypeOK, EnsureOk, EnsureError, Goto
<1>2. refs' \in [Procs -> Nat]
  BY DropRef, ProcAssumption DEF TypeOK, EnsureOk, EnsureError
<1>3. ml' \in [Procs -> {NoOp} \cup Ops]
  BY ProcAssumption DEF TypeOK, EnsureOk, EnsureError, Unlock
<1>4. result' \in [Ops -> {"none", "ok", "error", "unpublished"}]
  BY DEF TypeOK, EnsureOk, EnsureError, Return
<1> QED
  BY <1>1, <1>2, <1>3, <1>4

LEMMA EnsureType ==
    ASSUME TypeOK, NEW o \in Ops, Ensure(o)
    PROVE  TypeOK'
<1>1. CASE EnsureGetShare(o)
  BY SMT, <1>1, EnsureReturnType, StepNames DEF EnsureGetShare, Goto, TypeOK, host
<1>2. CASE EnsureLock(o)
  BY <1>2, StepNames DEF EnsureLock, Goto, Lock, TypeOK, host
<1>3. CASE Classify(o)
  <2>1. /\ pc' \in [Ops -> Steps]
        /\ refs' \in [Procs -> Nat]
        /\ ml' \in [Procs -> {NoOp} \cup Ops]
        /\ result' \in [Ops -> {"none", "ok", "error", "unpublished"}]
    <3>1. EnsureOk(o) \/ EnsureError(o) \/ UNCHANGED <<refs, ml, result>>
      BY <1>3 DEF Classify
    <3>2. EnsureOk(o) \/ EnsureError(o) \/ Goto(o, "replace") \/ Goto(o, "mount")
      BY <1>3 DEF Classify
    <3>3. EnsureOk(o) \/ EnsureError(o) \/ pc' \in [Ops -> Steps]
      <4>1. "replace" \in Steps /\ "mount" \in Steps
        BY StepNames
      <4> QED
        BY <3>2, <4>1, Jump
    <3> QED
      BY <3>1, <3>3, EnsureReturnType DEF TypeOK
  <2>2. mounts' \in Seq(Servers)
    BY <1>3, StackType DEF Classify, ForceUnmountStale, TypeOK
  <2>3. loops' \in [Ops -> {"none", "on", "detached"}]
    BY <1>3 DEF Classify, ForceUnmountStale, TypeOK
  <2> QED
    BY <1>3, <2>1, <2>2, <2>3 DEF Classify, TypeOK
<1>4. CASE MountShareAtBestDataportal(o)
  BY SMT, <1>4, EnsureReturnType, StepNames DEF MountShareAtBestDataportal, Goto, TypeOK
<1>5. CASE MountCall(o)
  <2>1. mounts' \in Seq(Servers)
    BY <1>5, StackType DEF MountCall, TypeOK
  <2>2. lingering' \in [Procs -> BOOLEAN]
    BY <1>5 DEF MountCall, TypeOK
  <2> QED
    BY <1>5, <2>1, <2>2, EnsureReturnType DEF MountCall, TypeOK
<1> QED
  BY <1>1, <1>2, <1>3, <1>4, <1>5 DEF Ensure

LEMMA WhereType == Where \in Places
BY DEF Where, Places

LEMMA WorkType ==
    ASSUME TypeOK, NEW o \in Ops, Work(o)
    PROVE  TypeOK'
<1> USE WhereType, ProcAssumption DEF TypeOK, Finish, WriteAt, Goto, Return, host, Steps, EnsureSteps,
        WorkSteps, UnmountSteps
<1>1. CASE WorkFails(o)
  BY <1>1 DEF WorkFails
<1>2. CASE MakeEmptyRawFile(o)
  BY <1>2 DEF MakeEmptyRawFile
<1>3. CASE GrowRestoredDeviceFile(o)
  BY <1>3 DEF GrowRestoredDeviceFile
<1>4. CASE FormatDevice(o)
  BY <1>4 DEF FormatDevice
<1>5. CASE DeleteFile(o)
  BY <1>5 DEF DeleteFile
<1>6. CASE MakeEmptyRawFolder(o)
  BY <1>6 DEF MakeEmptyRawFolder
<1>7. CASE AttachLoopDevice(o)
  BY <1>7 DEF AttachLoopDevice
<1> QED
  BY <1>1, <1>2, <1>3, <1>4, <1>5, <1>6, <1>7 DEF Work

LEMMA UnmountReturnType ==
    ASSUME TypeOK, NEW o \in Ops, UnmountReturns(o)
    PROVE  pc' \in [Ops -> Steps] /\ ml' \in [Procs -> {NoOp} \cup Ops]
BY StepNames, ProcAssumption DEF TypeOK, UnmountReturns, Goto, Unlock

LEMMA UnmountType ==
    ASSUME TypeOK, NEW o \in Ops, Unmount(o)
    PROVE  TypeOK'
<1>1. CASE UnmountGetShare(o)
  BY <1>1, UnmountReturnType, StepNames DEF UnmountGetShare, Goto, TypeOK, host
<1>2. CASE UnmountCheckRefs(o)
  BY <1>2, UnmountReturnType, StepNames DEF UnmountCheckRefs, Goto, TypeOK, host
<1>3. CASE UnmountProbe(o)
  BY <1>3, UnmountReturnType, StepNames DEF UnmountProbe, Goto, TypeOK, host
<1>4. CASE UnmountFilesystem(o)
  <2>1. mounts' \in Seq(Servers)
    BY <1>4, StackType DEF UnmountFilesystem, IsShareMounted, ProbeAnswers, TypeOK
  <2>2. /\ pc' \in [Ops -> Steps]
        /\ refs' \in [Procs -> Nat]
        /\ ml' \in [Procs -> {NoOp} \cup Ops]
        /\ result' \in [Ops -> {"none", "ok", "error", "unpublished"}]
    <3>1. CASE pc[o] = "unmount"
      <4>1. UnmountReturns(o) \/ (Goto(o, "removeDir") /\ UNCHANGED ml)
        BY <1>4, <3>1 DEF UnmountFilesystem
      <4>2. UNCHANGED <<refs, result>>
        BY <1>4, <3>1 DEF UnmountFilesystem
      <4>3. pc' \in [Ops -> Steps] /\ ml' \in [Procs -> {NoOp} \cup Ops]
        <5>1. "removeDir" \in Steps
          BY StepNames
        <5> QED
          BY <4>1, <5>1, Jump, UnmountReturnType DEF TypeOK
      <4> QED
        BY <4>2, <4>3 DEF TypeOK
    <3>2. CASE pc[o] = "replace"
      <4>1. \/ EnsureError(o)
            \/ Goto(o, "removeReplaced") /\ UNCHANGED <<refs, ml, result>>
            \/ Goto(o, "mount") /\ UNCHANGED <<refs, ml, result>>
        BY <1>4, <3>2 DEF UnmountFilesystem
      <4>2. EnsureError(o) \/ pc' \in [Ops -> Steps]
        <5>1. "removeReplaced" \in Steps /\ "mount" \in Steps
          BY StepNames
        <5> QED
          BY <4>1, <5>1, Jump
      <4> QED
        BY <4>1, <4>2, EnsureReturnType DEF TypeOK
    <3> QED
      BY <1>4, <3>1, <3>2 DEF UnmountFilesystem
  <2> QED
    BY <1>4, <2>1, <2>2 DEF UnmountFilesystem, TypeOK
<1>5. CASE RemoveDir(o)
  BY <1>5, UnmountReturnType, EnsureReturnType, StepNames DEF RemoveDir, Goto,
     TypeOK
<1> QED
  BY <1>1, <1>2, <1>3, <1>4, <1>5 DEF Unmount

LEMMA HostType ==
    ASSUME TypeOK, NEW p \in Procs, LateMount(p) \/ Restart(p)
    PROVE  TypeOK'
<1>1. CASE LateMount(p)
  <2>1. lingering' \in [Procs -> BOOLEAN]
    BY <1>1 DEF LateMount, TypeOK
  <2>2. mounts' \in Seq(Servers)
    BY <1>1, StackType DEF LateMount, TypeOK
  <2> QED
    BY <1>1, <2>1, <2>2 DEF LateMount, TypeOK
<1>2. CASE Restart(p)
  <2>1. pc' \in [Ops -> Steps] /\ result' \in [Ops -> {"none", "ok", "error", "unpublished"}]
    BY <1>2, StepNames DEF Restart, TypeOK
  <2>2. refs' \in [Procs -> Nat]
    BY SMT, <1>2 DEF Restart, TypeOK
  <2>3. ml' \in [Procs -> {NoOp} \cup Ops]
    BY <1>2 DEF Restart, TypeOK
  <2>4. lingering' \in [Procs -> BOOLEAN]
    BY <1>2 DEF Restart, TypeOK
  <2> QED
    BY <1>2, <2>1, <2>2, <2>3, <2>4 DEF Restart, TypeOK
<1> QED
  BY <1>1, <1>2

LEMMA InitType == Init => TypeOK
<1> SUFFICES ASSUME Init PROVE TypeOK
  OBVIOUS
<1>1. mounts \in Seq(Servers)
  BY InheritedAssumption, StackType DEF Init
<1>2. lingering \in [Procs -> BOOLEAN]
  BY DEF Init
<1>3. stagingDir \in {"none", "empty", "used"}
  BY DEF Init
<1>4. loops \in [Ops -> {"none", "on", "detached"}]
  BY DEF Init
<1> QED
  BY <1>1 DEF Init, TypeOK, Steps, Places

LEMMA NextType == TypeOK /\ [Next]_vars => TypeOK'
<1> SUFFICES ASSUME TypeOK, [Next]_vars PROVE TypeOK'
  OBVIOUS
<1>1. ASSUME NEW o \in Ops, Start(o) \/ Unpublish(o) PROVE TypeOK'
  BY <1>1, StartType
<1>2. ASSUME NEW o \in Ops, acquireBackingMount(o) \/ releaseBackingMount(o) PROVE TypeOK'
  BY <1>2, AcquireType
<1>3. ASSUME NEW o \in Ops, Ensure(o) PROVE TypeOK'
  BY <1>3, EnsureType
<1>4. ASSUME NEW o \in Ops, Work(o) PROVE TypeOK'
  BY <1>4, WorkType
<1>5. ASSUME NEW o \in Ops, Unmount(o) PROVE TypeOK'
  BY <1>5, UnmountType
<1>6. ASSUME NEW p \in Procs, LateMount(p) \/ Restart(p) PROVE TypeOK'
  BY <1>6, HostType
<1>7. CASE UNCHANGED vars
  BY <1>7 DEF TypeOK, vars
<1> QED
  BY <1>1, <1>2, <1>3, <1>4, <1>5, <1>6, <1>7 DEF Next

\* Every value the backing-mount code keeps has its type in every reachable
\* state; in particular no reference count goes below zero.
THEOREM TypeCorrect == Spec => []TypeOK
BY InitType, NextType, PTL DEF Spec

-----------------------------------------------------------------------------
(* The reference count and the mount lock                                  *)

LEMMA HoldersFinite == \A p : IsFiniteSet(Holders(p))
<1> SUFFICES ASSUME NEW p PROVE IsFiniteSet(Holders(p))
  OBVIOUS
<1>1. Holders(p) \in SUBSET Ops
  BY DEF Holders, OpsOf
<1> QED
  BY <1>1, OpsAssumption, FS_Subset

\* A jump of call o that does not change whether it holds a reference.
LEMMA HoldersKept ==
    ASSUME TypeOK, NEW o \in Ops, NEW s, Goto(o, s),
           IsRef(o) => (pc[o] \in HoldSteps <=> s \in HoldSteps)
    PROVE  \A p : Holders(p)' = Holders(p)
BY DEF TypeOK, Goto, Holders, OpsOf, IsRef

LEMMA HoldersAdd ==
    ASSUME TypeOK, NEW o \in Ops, NEW s \in HoldSteps, Goto(o, s), IsRef(o)
    PROVE  /\ Holders(Proc[o])' = Holders(Proc[o]) \cup {o}
           /\ \A p : p # Proc[o] => Holders(p)' = Holders(p)
BY DEF TypeOK, Goto, Holders, OpsOf, IsRef

LEMMA HoldersRemove ==
    ASSUME TypeOK, NEW o \in Ops, NEW s, s \notin HoldSteps, Goto(o, s)
    PROVE  /\ Holders(Proc[o])' = Holders(Proc[o]) \ {o}
           /\ \A p : p # Proc[o] => Holders(p)' = Holders(p)
BY DEF TypeOK, Goto, Holders, OpsOf, IsRef

\* A jump that takes the mount lock on the way into its steps and releases it
\* on the way out keeps the lock's bookkeeping exact.
LEMMA LockMoves ==
    ASSUME TypeOK, LockExact, NEW o \in Ops, NEW s, Goto(o, s),
           \/ ml' = ml /\ (pc[o] \in LockSteps(o) <=> s \in LockSteps(o))
           \/ Lock(o) /\ s \in LockSteps(o)
           \/ Unlock(o) /\ s \notin LockSteps(o),
           s \notin OtherSteps(o)
    PROVE  LockExact'
<1>1. pc' = [pc EXCEPT ![o] = s] /\ pc \in [Ops -> Steps] /\ ml \in [Procs -> {NoOp} \cup Ops]
  BY DEF Goto, TypeOK
<1> SUFFICES ASSUME NEW q \in Ops
             PROVE  /\ pc'[q] \in LockSteps(q) <=> ml'[Proc[q]] = q
                    /\ pc'[q] \notin OtherSteps(q)
  BY DEF LockExact, LockSteps, OtherSteps, IsRef
<1>2. /\ pc[q] \in LockSteps(q) <=> ml[Proc[q]] = q
      /\ pc[o] \in LockSteps(o) <=> ml[Proc[o]] = o
      /\ pc[q] \notin OtherSteps(q)
      /\ Proc[q] \in Procs /\ Proc[o] \in Procs /\ q # NoOp /\ o # NoOp
  BY OpsAssumption, ProcAssumption DEF LockExact
<1>3. CASE ml' = ml
  BY <1>1, <1>2, <1>3 DEF Lock, Unlock
<1>4. CASE Lock(o) /\ s \in LockSteps(o)
  BY <1>1, <1>2, <1>4 DEF Lock
<1>5. CASE Unlock(o) /\ s \notin LockSteps(o)
  BY <1>1, <1>2, <1>5 DEF Unlock
<1> QED
  BY <1>3, <1>4, <1>5

\* Any jump that leaves the references alone and enters no step at which the
\* caller must be the only holder keeps the invariant, provided the lock is
\* taken and released with it.
LEMMA MoveKeeps ==
    ASSUME IInv, TypeOK', NEW o \in Ops, NEW s, Goto(o, s), refs' = refs,
           IsRef(o) => (pc[o] \in HoldSteps <=> s \in HoldSteps),
           \/ ml' = ml /\ (pc[o] \in LockSteps(o) <=> s \in LockSteps(o))
           \/ Lock(o) /\ s \in LockSteps(o)
           \/ Unlock(o) /\ s \notin LockSteps(o),
           s \notin OtherSteps(o),
           IsRef(o) /\ s \in EnsureSteps => pc[o] \in EnsureSteps,
           IsRef(o) /\ s \in UnmountSteps => pc[o] \in UnmountSteps,
           s \in {"replace", "removeReplaced"} => Holders(Proc[o]) \subseteq {o}
    PROVE  IInv'
<1>1. \A p : Holders(p)' = Holders(p)
  BY HoldersKept DEF IInv
<1>2. pc' = [pc EXCEPT ![o] = s] /\ pc \in [Ops -> Steps] /\ ml \in [Procs -> {NoOp} \cup Ops]
  BY DEF Goto, IInv, TypeOK
<1>3. LockExact'
  BY LockMoves DEF IInv
<1>4. RefsCounted'
  BY <1>1 DEF IInv, RefsCounted
<1>5. HoldersAlone'
  BY <1>1, <1>2 DEF IInv, HoldersAlone, IsRef
<1>6. ReplaceExclusive'
  BY <1>1, <1>2 DEF IInv, ReplaceExclusive
<1> QED
  BY <1>3, <1>4, <1>5, <1>6 DEF IInv

LEMMA NoHolder ==
    ASSUME RefsCounted, NEW p \in Procs, refs[p] = 0
    PROVE  Holders(p) = {}
BY HoldersFinite, FS_EmptySet DEF RefsCounted

\* With the mount lock free, nobody in the process is at a step that needs it.
LEMMA LockFree ==
    ASSUME IInv, NEW o \in Ops, ml[Proc[o]] = NoOp
    PROVE  \A q \in OpsOf(Proc[o]) : pc[q] \notin LockSteps(q)
BY OpsAssumption DEF IInv, LockExact, OpsOf

LEMMA AcquireKeeps ==
    ASSUME IInv, TypeOK', NEW o \in Ops, acquireBackingMount(o), IsRef(o)
    PROVE  IInv'
<1> DEFINE p == Proc[o]
<1>0. p \in Procs /\ pc \in [Ops -> Steps] /\ refs \in [Procs -> Nat]
      /\ ml \in [Procs -> {NoOp} \cup Ops] /\ TypeOK
  BY ProcAssumption DEF IInv, TypeOK
<1>1. PICK s \in HoldSteps : /\ Goto(o, s)
                             /\ \/ s = "ensureGetShare" /\ Lock(o) /\ refs[p] = 0
                                \/ s = "work" /\ ml' = ml
  BY DEF acquireBackingMount, HoldSteps, EnsureSteps, WorkSteps, backingMountRefs
<1>2. o \notin Holders(p)
  BY DEF acquireBackingMount, Holders, HoldSteps, EnsureSteps, WorkSteps
<1>3. Holders(p)' = Holders(p) \cup {o} /\ \A q : q # p => Holders(q)' = Holders(q)
  BY <1>0, <1>1, HoldersAdd
<1>4. \A q \in OpsOf(p) : pc[q] \notin LockSteps(q)
  BY LockFree DEF acquireBackingMount
<1>5. pc' = [pc EXCEPT ![o] = s]
  BY <1>1 DEF Goto
<1>6. RefsCounted'
  <2>1. Cardinality(Holders(p)') = Cardinality(Holders(p)) + 1
    BY <1>2, <1>3, HoldersFinite, FS_AddElement
  <2>2. refs'[p] = refs[p] + 1 /\ \A q \in Procs : q # p => refs'[q] = refs[q]
    BY <1>0, BumpRef DEF acquireBackingMount
  <2> QED
    BY <2>1, <2>2, <1>3 DEF RefsCounted, IInv
<1>7. LockExact'
  <2>1. pc[o] \notin LockSteps(o)
    BY <1>4 DEF OpsOf
  <2>2. /\ "ensureGetShare" \in LockSteps(o) /\ "work" \notin LockSteps(o)
        /\ "ensureGetShare" \notin OtherSteps(o) /\ "work" \notin OtherSteps(o)
    BY DEF LockSteps, OtherSteps, UnmountSteps
  <2> QED
    BY <1>1, <2>1, <2>2, LockMoves DEF IInv
<1>8. HoldersAlone'
  <2> SUFFICES ASSUME NEW q \in Ops, IsRef(q)
               PROVE  /\ pc'[q] \in EnsureSteps => Holders(Proc[q])' = {q}
                      /\ pc'[q] \in UnmountSteps => Holders(Proc[q])' = {}
    BY DEF HoldersAlone, IsRef
  <2>1. CASE q = o
    BY <2>1, <1>0, <1>1, <1>3, <1>5, NoHolder DEF IInv, EnsureSteps, UnmountSteps
  <2>2. CASE q # o /\ Proc[q] = p
    <3>1. pc'[q] = pc[q] /\ pc[q] \notin LockSteps(q) /\ pc[q] # "ensureLock"
      BY SMT, <2>2, <1>4, <1>5 DEF OpsOf, IInv, LockExact, OtherSteps
    <3> QED
      BY <3>1 DEF LockSteps, EnsureSteps
  <2>3. CASE q # o /\ Proc[q] # p
    BY <2>3, <1>0, <1>3, <1>5 DEF IInv, HoldersAlone
  <2> QED
    BY <2>1, <2>2, <2>3
<1>9. ReplaceExclusive'
  <2> SUFFICES ASSUME NEW q \in Ops, pc'[q] \in {"replace", "removeReplaced"}
               PROVE  Holders(Proc[q])' \subseteq {q}
    BY DEF ReplaceExclusive
  <2>1. q # o /\ pc'[q] = pc[q]
    BY <1>0, <1>1, <1>5
  <2>2. Proc[q] # p
    BY <2>1, <1>4 DEF OpsOf, LockSteps
  <2> QED
    BY <2>1, <2>2, <1>3 DEF IInv, ReplaceExclusive
<1> QED
  BY <1>6, <1>7, <1>8, <1>9 DEF IInv

\* releaseBackingMount, and the error return of ensureBackingShareMounted that
\* gives the reservation back: the reference goes with the holder.
LEMMA DropKeeps ==
    ASSUME IInv, TypeOK', NEW o \in Ops, IsRef(o), o \in Holders(Proc[o]),
           dropBackingRef(Proc[o]),
           NEW s \in {"idle", "unmountGetShare"}, Goto(o, s),
           s = "unmountGetShare" => refs'[Proc[o]] = 0,
           \/ ml[Proc[o]] = NoOp /\ s = "idle" /\ ml' = ml
           \/ Lock(o) /\ s = "unmountGetShare"
           \/ Unlock(o) /\ s = "idle" /\ pc[o] \in LockSteps(o)
    PROVE  IInv'
<1> DEFINE p == Proc[o]
<1>0. p \in Procs /\ pc \in [Ops -> Steps] /\ refs \in [Procs -> Nat]
      /\ ml \in [Procs -> {NoOp} \cup Ops] /\ TypeOK /\ RefsCounted /\ LockExact
  BY ProcAssumption DEF IInv, TypeOK
<1>1. pc' = [pc EXCEPT ![o] = s]
  BY DEF Goto
<1>2. Holders(p)' = Holders(p) \ {o} /\ \A q : q # p => Holders(q)' = Holders(q)
  BY <1>0, HoldersRemove DEF HoldSteps, EnsureSteps, WorkSteps
<1>3. \A q \in OpsOf(p) : q # o => pc[q] \notin LockSteps(q)
  BY <1>0, LockFree, OpsAssumption DEF LockExact, OpsOf, Lock
<1>4. RefsCounted'
  <2>1. /\ Cardinality(Holders(p)') = Cardinality(Holders(p)) - 1
        /\ Cardinality(Holders(p)) \in Nat
    BY <1>2, HoldersFinite, FS_RemoveElement, FS_CardinalityType
  <2>2. Cardinality(Holders(p)) # 0
    BY HoldersFinite, FS_EmptySet
  <2>3. refs[p] > 0
    BY SMT, <1>0, <2>1, <2>2 DEF RefsCounted
  <2>4. refs'[p] = refs[p] - 1 /\ \A q \in Procs : q # p => refs'[q] = refs[q]
    BY <1>0, <2>3, DropRef
  <2> QED
    BY <1>0, <1>2, <2>1, <2>4 DEF RefsCounted
<1>5. LockExact'
  <2>1. /\ "unmountGetShare" \in LockSteps(o) /\ "idle" \notin LockSteps(o)
        /\ "unmountGetShare" \notin OtherSteps(o) /\ "idle" \notin OtherSteps(o)
    BY DEF LockSteps, OtherSteps, UnmountSteps
  <2>2. ml[p] = NoOp => pc[o] \notin LockSteps(o)
    BY <1>0, OpsAssumption DEF LockExact
  <2> QED
    BY <1>0, <2>1, <2>2, LockMoves
<1>6. HoldersAlone'
  <2> SUFFICES ASSUME NEW q \in Ops, IsRef(q)
               PROVE  /\ pc'[q] \in EnsureSteps => Holders(Proc[q])' = {q}
                      /\ pc'[q] \in UnmountSteps => Holders(Proc[q])' = {}
    BY DEF HoldersAlone, IsRef
  <2>1. CASE q = o
    <3>1. s = "unmountGetShare" => Holders(p)' = {}
      <4> SUFFICES ASSUME refs'[p] = 0 PROVE Holders(p)' = {}
        OBVIOUS
      <4>1. Cardinality(Holders(p)') = 0
        BY <1>0, <1>4 DEF RefsCounted
      <4> QED
        BY <4>1, <1>2, HoldersFinite, FS_RemoveElement, FS_EmptySet
    <3> QED
      BY <2>1, <3>1, <1>0, <1>1 DEF EnsureSteps, UnmountSteps
  <2>2. CASE q # o /\ Proc[q] = p
    <3>1. pc'[q] = pc[q] /\ pc[q] \notin LockSteps(q) /\ pc[q] # "ensureLock"
      BY <2>2, <1>0, <1>1, <1>3 DEF OpsOf, LockExact, OtherSteps
    <3> QED
      BY <3>1 DEF LockSteps, EnsureSteps
  <2>3. CASE q # o /\ Proc[q] # p
    BY <2>3, <1>0, <1>1, <1>2 DEF IInv, HoldersAlone
  <2> QED
    BY <2>1, <2>2, <2>3
<1>7. ReplaceExclusive'
  BY <1>0, <1>1, <1>2 DEF IInv, ReplaceExclusive
<1> QED
  BY <1>4, <1>5, <1>6, <1>7 DEF IInv

LEMMA EnsureOkKeeps ==
    ASSUME IInv, TypeOK', NEW o \in Ops, pc[o] \in EnsureSteps, EnsureOk(o)
    PROVE  IInv'
<1>1. Goto(o, "work") /\ Unlock(o) /\ refs' = refs
  BY DEF EnsureOk
<1>2. pc[o] \in HoldSteps /\ "work" \in HoldSteps
  BY DEF HoldSteps, WorkSteps
<1>3. /\ "work" \notin LockSteps(o) /\ "work" \notin OtherSteps(o)
      /\ "work" \notin EnsureSteps /\ "work" \notin UnmountSteps
  BY DEF LockSteps, OtherSteps, EnsureSteps, UnmountSteps
<1> QED
  BY <1>1, <1>2, <1>3, MoveKeeps

LEMMA EnsureErrorKeeps ==
    ASSUME IInv, TypeOK', NEW o \in Ops, pc[o] \in EnsureSteps, EnsureError(o)
    PROVE  IInv'
<1>1. CASE IsRef(o)
  <2>1. Goto(o, "idle") /\ dropBackingRef(Proc[o]) /\ Unlock(o)
    BY <1>1 DEF EnsureError, IsRef, RefKinds
  <2>2. o \in Holders(Proc[o])
    BY <1>1 DEF Holders, HoldSteps, OpsOf
  <2>3. pc[o] \in LockSteps(o)
    BY <1>1 DEF IInv, LockExact, OtherSteps, LockSteps, EnsureSteps
  <2> QED
    BY <1>1, <2>1, <2>2, <2>3, DropKeeps
<1>2. CASE ~IsRef(o)
  <2>1. PICK s \in {"idle", "unmountGetShare"} : Goto(o, s)
    BY DEF EnsureError
  <2>2. Unlock(o) /\ refs' = refs
    BY <1>2 DEF EnsureError
  <2>3. s \notin LockSteps(o) /\ s \notin OtherSteps(o)
    BY <1>2 DEF LockSteps, OtherSteps
  <2> QED
    BY <1>2, <2>1, <2>2, <2>3, MoveKeeps
<1> QED
  BY <1>1, <1>2

\* A jump of call o within one part of the code, with lock and references
\* untouched.
LEMMA StayKeeps ==
    ASSUME IInv, TypeOK', NEW o \in Ops, NEW s, Goto(o, s), refs' = refs, ml' = ml,
           \/ pc[o] \in EnsureSteps \cap LockSteps(o) /\ s \in EnsureSteps \cap LockSteps(o)
           \/ pc[o] \in WorkSteps /\ s \in WorkSteps
           \/ pc[o] \in UnmountSteps /\ s \in UnmountSteps,
           s \in {"replace", "removeReplaced"} => Holders(Proc[o]) \subseteq {o}
    PROVE  IInv'
<1>1. IsRef(o) => (pc[o] \in HoldSteps <=> s \in HoldSteps)
  BY DEF HoldSteps, EnsureSteps, WorkSteps, UnmountSteps
<1>2. pc[o] \in LockSteps(o) <=> s \in LockSteps(o)
  BY DEF LockSteps, WorkSteps, UnmountSteps
<1>3. s \notin OtherSteps(o)
  BY DEF OtherSteps, LockSteps, WorkSteps, UnmountSteps, EnsureSteps
<1>4. /\ IsRef(o) /\ s \in EnsureSteps => pc[o] \in EnsureSteps
      /\ IsRef(o) /\ s \in UnmountSteps => pc[o] \in UnmountSteps
  BY DEF EnsureSteps, WorkSteps, UnmountSteps
<1> QED
  BY <1>1, <1>2, <1>3, <1>4, MoveKeeps

LEMMA StartKeeps ==
    ASSUME IInv, TypeOK', NEW o \in Ops, Start(o) \/ Unpublish(o)
    PROVE  IInv'
<1>0. Unpublish(o) => ~IsRef(o)
  BY DEF Unpublish, IsRef, RefKinds
<1>1. PICK s : /\ Goto(o, s)
               /\ s = IF Start(o) THEN IF IsRef(o) THEN "acquire" ELSE "ensureGetShare"
                                  ELSE "unmountGetShare"
  BY DEF Start, Unpublish
<1>2. refs' = refs /\ ml' = ml /\ pc[o] = "idle"
  BY DEF Start, Unpublish
<1>3. /\ IsRef(o) => (pc[o] \in HoldSteps <=> s \in HoldSteps)
      /\ IsRef(o) => s \notin EnsureSteps /\ s \notin UnmountSteps
      /\ s \notin {"replace", "removeReplaced"} /\ s \notin OtherSteps(o)
  BY <1>0, <1>1, <1>2 DEF HoldSteps, EnsureSteps, WorkSteps, UnmountSteps, OtherSteps
<1>4. pc[o] \notin LockSteps(o) /\ s \notin LockSteps(o)
  BY <1>0, <1>1, <1>2 DEF LockSteps, UnmountSteps
<1> QED
  BY <1>1, <1>2, <1>3, <1>4, MoveKeeps

LEMMA ReleaseKeeps ==
    ASSUME IInv, TypeOK', NEW o \in Ops, releaseBackingMount(o)
    PROVE  IInv'
<1>1. IsRef(o) /\ o \in Holders(Proc[o])
  BY DEF releaseBackingMount, IInv, LockExact, OtherSteps, Holders, HoldSteps, OpsOf
<1>2. \/ refs'[Proc[o]] = 0 /\ Lock(o) /\ Goto(o, "unmountGetShare")
      \/ ml[Proc[o]] = NoOp /\ ml' = ml /\ Goto(o, "idle")
  BY DEF releaseBackingMount
<1>3. dropBackingRef(Proc[o])
  BY DEF releaseBackingMount
<1> QED
  BY <1>1, <1>2, <1>3, DropKeeps

LEMMA EnsureKeeps ==
    ASSUME IInv, TypeOK', NEW o \in Ops, Ensure(o)
    PROVE  IInv'
<1>0. /\ "ensureGetShare" \in EnsureSteps /\ "classify" \in EnsureSteps
      /\ "mount" \in EnsureSteps /\ "mountCall" \in EnsureSteps /\ "replace" \in EnsureSteps
      /\ {"classify", "replace", "mount", "mountCall"} \subseteq LockSteps(o)
      /\ "ensureGetShare" \in LockSteps(o) <=> IsRef(o)
      /\ "ensureLock" \notin LockSteps(o)
  BY DEF EnsureSteps, LockSteps, UnmountSteps
<1>1. CASE EnsureGetShare(o)
  <2>0. pc[o] = "ensureGetShare"
    BY <1>1 DEF EnsureGetShare
  <2>1. CASE EnsureOk(o)
    BY <1>0, <2>0, <2>1, EnsureOkKeeps
  <2>2. CASE EnsureError(o)
    BY <1>0, <2>0, <2>2, EnsureErrorKeeps
  <2>3. CASE Goto(o, IF IsRef(o) THEN "classify" ELSE "ensureLock") /\ refs' = refs /\ ml' = ml
    <3>1. CASE IsRef(o)
      BY <1>0, <2>0, <2>3, <3>1, StayKeeps
    <3>2. CASE ~IsRef(o)
      BY <1>0, <2>0, <2>3, <3>2, MoveKeeps DEF OtherSteps
    <3> QED
      BY <3>1, <3>2
  <2> QED
    BY <1>1, <2>1, <2>2, <2>3 DEF EnsureGetShare
<1>2. CASE EnsureLock(o)
  <2>1. ~IsRef(o)
    BY <1>2 DEF EnsureLock, IInv, LockExact, OtherSteps
  <2>2. Lock(o) /\ Goto(o, "classify") /\ refs' = refs
    BY <1>2 DEF EnsureLock
  <2> QED
    BY <1>0, <2>1, <2>2, MoveKeeps DEF OtherSteps
<1>3. CASE Classify(o)
  <2>0. pc[o] = "classify"
    BY <1>3 DEF Classify
  <2>1. CASE EnsureOk(o)
    BY <1>0, <2>0, <2>1, EnsureOkKeeps
  <2>2. CASE EnsureError(o)
    BY <1>0, <2>0, <2>2, EnsureErrorKeeps
  <2>3. CASE ~(Others(o) > 0) /\ Goto(o, "replace") /\ refs' = refs /\ ml' = ml
    <3>1. Holders(Proc[o]) \subseteq {o}
      <4>1. CASE IsRef(o)
        BY <1>0, <2>0, <4>1 DEF IInv, HoldersAlone
      <4>2. CASE ~IsRef(o)
        <5>1. refs[Proc[o]] = 0
          BY SMT, <2>3, <4>2, ProcAssumption DEF Others, backingMountRefs, TypeOK
        <5> QED
          BY <5>1, ProcAssumption, NoHolder DEF IInv
      <4> QED
        BY <4>1, <4>2
    <3> QED
      BY <1>0, <2>0, <2>3, <3>1, StayKeeps
  <2>4. CASE Goto(o, "mount") /\ refs' = refs /\ ml' = ml
    BY <1>0, <2>0, <2>4, StayKeeps
  <2> QED
    BY <1>3, <2>1, <2>2, <2>3, <2>4 DEF Classify
<1>4. CASE MountShareAtBestDataportal(o)
  <2>0. pc[o] = "mount"
    BY <1>4 DEF MountShareAtBestDataportal
  <2>1. CASE EnsureOk(o)
    BY <1>0, <2>0, <2>1, EnsureOkKeeps
  <2>2. CASE EnsureError(o)
    BY <1>0, <2>0, <2>2, EnsureErrorKeeps
  <2>3. CASE Goto(o, "mountCall") /\ refs' = refs /\ ml' = ml
    BY <1>0, <2>0, <2>3, StayKeeps
  <2> QED
    BY <1>4, <2>1, <2>2, <2>3 DEF MountShareAtBestDataportal
<1>5. CASE MountCall(o)
  BY <1>0, <1>5, EnsureOkKeeps, EnsureErrorKeeps DEF MountCall
<1> QED
  BY <1>1, <1>2, <1>3, <1>4, <1>5 DEF Ensure

\* Every step of the work either stays in it or ends it.
LEMMA WorkKeeps ==
    ASSUME IInv, TypeOK', NEW o \in Ops, Work(o)
    PROVE  IInv'
<1>1. pc[o] \in WorkSteps /\ refs' = refs /\ ml' = ml
  BY DEF Work, WorkFails, MakeEmptyRawFile, GrowRestoredDeviceFile, FormatDevice,
     DeleteFile, MakeEmptyRawFolder, AttachLoopDevice, WorkSteps
<1>2. Goto(o, "work2") \/ \E r \in {"ok", "error"} : Finish(o, r)
  BY DEF Work, WorkFails, MakeEmptyRawFile, GrowRestoredDeviceFile, FormatDevice,
     DeleteFile, MakeEmptyRawFolder, AttachLoopDevice
<1>3. CASE Goto(o, "work2")
  BY <1>1, <1>3, StayKeeps DEF WorkSteps
<1>4. ASSUME NEW r \in {"ok", "error"}, Finish(o, r) PROVE IInv'
  <2>1. CASE IsRef(o)
    <3>1. Goto(o, "release")
      BY <1>4, <2>1 DEF Finish
    <3>2. pc[o] \notin LockSteps(o) /\ "release" \notin LockSteps(o) /\ "release" \notin OtherSteps(o)
      BY <1>1, <2>1 DEF LockSteps, WorkSteps, UnmountSteps, OtherSteps
    <3>3. pc[o] \in HoldSteps /\ "release" \in HoldSteps
          /\ "release" \notin EnsureSteps /\ "release" \notin UnmountSteps
      BY <1>1 DEF HoldSteps, EnsureSteps, UnmountSteps
    <3> QED
      BY <1>1, <3>1, <3>2, <3>3, MoveKeeps
  <2>2. CASE ~IsRef(o)
    <3>1. PICK s \in {"idle", "unmountGetShare"} : Goto(o, s)
      BY <1>4, <2>2 DEF Finish
    <3>2. pc[o] \notin LockSteps(o) /\ s \notin LockSteps(o) /\ s \notin OtherSteps(o)
      BY <1>1, <2>2 DEF LockSteps, WorkSteps, OtherSteps
    <3> QED
      BY <1>1, <2>2, <3>1, <3>2, MoveKeeps
  <2> QED
    BY <2>1, <2>2
<1> QED
  BY <1>2, <1>3, <1>4

LEMMA UnmountReturnsKeeps ==
    ASSUME IInv, TypeOK', NEW o \in Ops, pc[o] \in UnmountSteps, UnmountReturns(o), refs' = refs
    PROVE  IInv'
<1>1. Goto(o, "idle") /\ Unlock(o)
  BY DEF UnmountReturns
<1>2. /\ pc[o] \notin HoldSteps /\ "idle" \notin HoldSteps
      /\ "idle" \notin LockSteps(o) /\ "idle" \notin OtherSteps(o)
      /\ "idle" \notin EnsureSteps /\ "idle" \notin UnmountSteps
  BY DEF HoldSteps, EnsureSteps, WorkSteps, UnmountSteps, LockSteps, OtherSteps
<1> QED
  BY <1>1, <1>2, MoveKeeps

LEMMA UnmountKeeps ==
    ASSUME IInv, TypeOK', NEW o \in Ops, Unmount(o)
    PROVE  IInv'
<1>0. /\ {"unmountGetShare", "unmountRefs", "unmountProbe", "unmount", "removeDir"} \subseteq UnmountSteps
      /\ {"replace", "removeReplaced", "mount"} \subseteq EnsureSteps \cap LockSteps(o)
  BY DEF UnmountSteps, EnsureSteps, LockSteps
<1>1. ASSUME UnmountReturns(o), refs' = refs, pc[o] \in UnmountSteps PROVE IInv'
  BY <1>1, UnmountReturnsKeeps
<1>2. ASSUME NEW s \in UnmountSteps, Goto(o, s), refs' = refs, ml' = ml, pc[o] \in UnmountSteps
      PROVE  IInv'
  BY <1>2, StayKeeps DEF UnmountSteps
<1>3. CASE UnmountGetShare(o)
  BY <1>0, <1>1, <1>2, <1>3 DEF UnmountGetShare
<1>4. CASE UnmountCheckRefs(o)
  BY <1>0, <1>1, <1>2, <1>4 DEF UnmountCheckRefs
<1>5. CASE UnmountProbe(o)
  BY <1>0, <1>1, <1>2, <1>5 DEF UnmountProbe
<1>6. pc[o] \in {"replace", "removeReplaced"} => Holders(Proc[o]) \subseteq {o}
  BY DEF IInv, ReplaceExclusive
<1>7. CASE UnmountFilesystem(o)
  <2>1. CASE pc[o] = "unmount"
    BY <1>0, <1>1, <1>2, <1>7, <2>1 DEF UnmountFilesystem
  <2>2. CASE pc[o] = "replace"
    <3>1. \/ EnsureError(o)
          \/ \E s \in {"removeReplaced", "mount"} : Goto(o, s) /\ refs' = refs /\ ml' = ml
      BY <1>7, <2>2 DEF UnmountFilesystem
    <3> QED
      BY <1>0, <1>6, <2>2, <3>1, EnsureErrorKeeps, StayKeeps
  <2> QED
    BY <1>7, <2>1, <2>2 DEF UnmountFilesystem
<1>8. CASE RemoveDir(o)
  <2>1. CASE pc[o] = "removeDir"
    BY <1>0, <1>1, <1>8, <2>1 DEF RemoveDir
  <2>2. CASE pc[o] = "removeReplaced"
    <3>1. EnsureError(o) \/ (Goto(o, "mount") /\ refs' = refs /\ ml' = ml)
      BY <1>8, <2>2 DEF RemoveDir
    <3> QED
      BY <1>0, <1>6, <2>2, <3>1, EnsureErrorKeeps, StayKeeps
  <2> QED
    BY <1>8, <2>1, <2>2 DEF RemoveDir
<1> QED
  BY <1>3, <1>4, <1>5, <1>7, <1>8 DEF Unmount

LEMMA RestartKeeps ==
    ASSUME IInv, TypeOK', NEW p \in Procs, Restart(p)
    PROVE  IInv'
<1>0. pc \in [Ops -> Steps] /\ refs \in [Procs -> Nat] /\ ml \in [Procs -> {NoOp} \cup Ops]
  BY DEF IInv, TypeOK
<1>1. /\ \A o \in Ops : pc'[o] = IF Proc[o] = p THEN "idle" ELSE pc[o]
      /\ refs'[p] = 0 /\ \A q \in Procs : q # p => refs'[q] = refs[q]
      /\ ml'[p] = NoOp /\ \A q \in Procs : q # p => ml'[q] = ml[q]
  BY <1>0 DEF Restart
<1>2. Holders(p)' = {} /\ \A q : q # p => Holders(q)' = Holders(q)
  BY <1>1 DEF Holders, OpsOf, HoldSteps, EnsureSteps, WorkSteps
<1>3. LockExact'
  <2> SUFFICES ASSUME NEW q \in Ops
               PROVE  /\ pc'[q] \in LockSteps(q) <=> ml'[Proc[q]] = q
                      /\ pc'[q] \notin OtherSteps(q)
    BY DEF LockExact, LockSteps, OtherSteps, IsRef
  <2>1. "idle" \notin LockSteps(q) /\ "idle" \notin OtherSteps(q)
    BY DEF LockSteps, OtherSteps, UnmountSteps
  <2> QED
    BY SMT, <1>1, <2>1, OpsAssumption, ProcAssumption DEF IInv, LockExact
<1>4. RefsCounted'
  BY <1>1, <1>2, FS_EmptySet DEF IInv, RefsCounted
<1>5. HoldersAlone'
  BY <1>1, <1>2 DEF IInv, HoldersAlone, EnsureSteps
<1>6. ReplaceExclusive'
  BY <1>1, <1>2 DEF IInv, ReplaceExclusive
<1> QED
  BY <1>3, <1>4, <1>5, <1>6 DEF IInv

LEMMA InitIInv == Init => IInv
<1> SUFFICES ASSUME Init PROVE IInv
  OBVIOUS
<1>1. TypeOK
  BY InitType
<1>2. \A o \in Ops : pc[o] = "idle"
  BY DEF Init
<1>3. \A p : Holders(p) = {}
  BY <1>2 DEF Holders, OpsOf, HoldSteps, EnsureSteps, WorkSteps
<1>4. LockExact
  BY OpsAssumption, ProcAssumption DEF Init, LockExact, LockSteps, OtherSteps,
     UnmountSteps
<1>5. RefsCounted
  BY <1>3, FS_EmptySet DEF Init, RefsCounted
<1>6. HoldersAlone /\ ReplaceExclusive
  BY <1>2 DEF HoldersAlone, ReplaceExclusive, EnsureSteps, UnmountSteps
<1> QED
  BY <1>1, <1>4, <1>5, <1>6 DEF IInv

LEMMA NextIInv == IInv /\ [Next]_vars => IInv'
<1> SUFFICES ASSUME IInv, [Next]_vars PROVE IInv'
  OBVIOUS
<1>0. TypeOK'
  BY NextType DEF IInv
<1>1. ASSUME NEW o \in Ops, Start(o) \/ Unpublish(o) PROVE IInv'
  BY <1>0, <1>1, StartKeeps
<1>2. ASSUME NEW o \in Ops, acquireBackingMount(o) PROVE IInv'
  <2>1. IsRef(o)
    BY <1>2 DEF acquireBackingMount, IInv, LockExact, OtherSteps
  <2> QED
    BY <1>0, <1>2, <2>1, AcquireKeeps
<1>3. ASSUME NEW o \in Ops, releaseBackingMount(o) PROVE IInv'
  BY <1>0, <1>3, ReleaseKeeps
<1>4. ASSUME NEW o \in Ops, Ensure(o) PROVE IInv'
  BY <1>0, <1>4, EnsureKeeps
<1>5. ASSUME NEW o \in Ops, Work(o) PROVE IInv'
  BY <1>0, <1>5, WorkKeeps
<1>6. ASSUME NEW o \in Ops, Unmount(o) PROVE IInv'
  BY <1>0, <1>6, UnmountKeeps
<1>7. ASSUME NEW p \in Procs, LateMount(p) PROVE IInv'
  BY SMT, <1>0, <1>7 DEF LateMount, IInv, LockExact, RefsCounted, HoldersAlone,
     ReplaceExclusive, Holders, LockSteps
<1>8. ASSUME NEW p \in Procs, Restart(p) PROVE IInv'
  BY <1>0, <1>8, RestartKeeps
<1>9. CASE UNCHANGED vars
  BY SMT, <1>0, <1>9 DEF vars, IInv, LockExact, RefsCounted, HoldersAlone, ReplaceExclusive,
     Holders
<1> QED
  BY <1>1, <1>2, <1>3, <1>4, <1>5, <1>6, <1>7, <1>8, <1>9 DEF Next

\* The reference count is exact and the mount lock excludes, for every mix of
\* calls, processes, failures and restarts.
THEOREM Invariance == Spec => []IInv
BY InitIInv, NextIInv, PTL DEF Spec

\* mountRefs always equals the number of calls between acquireBackingMount's
\* reservation and its release.
THEOREM RefsCountedHolds == Spec => []RefsCounted
<1>1. IInv => RefsCounted
  BY DEF IInv
<1> QED
  BY <1>1, Invariance, PTL

\* Whoever replaces a foreign mount is the only user of it in the process.
THEOREM ReplaceExclusiveHolds == Spec => []ReplaceExclusive
<1>1. IInv => ReplaceExclusive
  BY DEF IInv
<1> QED
  BY <1>1, Invariance, PTL

-----------------------------------------------------------------------------
(* The mount under its holders                                             *)

\* While a call checks, makes or removes the mount, acquireBackingMount has
\* returned to nobody.
LEMMA NobodyAcquired ==
    ASSUME RefCallersOnly, IInv, NEW o \in Ops, pc[o] \in EnsureSteps \cup UnmountSteps
    PROVE  Acquired = {}
<1>1. Holders(Proc[o]) \subseteq {o}
  BY DEF RefCallersOnly, IInv, HoldersAlone
<1>2. \A q \in Acquired : q \in Holders(Proc[o])
  BY DEF RefCallersOnly, Acquired, Holders, OpsOf, HoldSteps
<1>3. o \notin Acquired
  BY DEF Acquired, EnsureSteps, UnmountSteps, WorkSteps
<1> QED
  BY <1>1, <1>2, <1>3

LEMMA AcquiredMoves ==
    ASSUME TypeOK, NEW o \in Ops, NEW s, Goto(o, s)
    PROVE  /\ Acquired' \subseteq Acquired \cup {o}
           /\ s \notin WorkSteps \cup {"release"} => Acquired' = Acquired \ {o}
BY DEF TypeOK, Goto, Acquired, IsRef

\* A reference that is not the first finds an earlier holder whose mount is done.
LEMMA LaterHolder ==
    ASSUME RefCallersOnly, IInv, NEW o \in Ops, ml[Proc[o]] = NoOp, refs[Proc[o]] # 0
    PROVE  Acquired # {}
<1>1. Cardinality(Holders(Proc[o])) # 0
  BY ProcAssumption DEF IInv, RefsCounted
<1>2. PICK q \in Holders(Proc[o]) : TRUE
  BY <1>1, FS_EmptySet
<1>3. q \in Ops /\ IsRef(q) /\ pc[q] \in HoldSteps /\ pc[q] \notin LockSteps(q) /\ pc[q] # "ensureLock"
  BY LockFree DEF Holders, OpsOf, IInv, LockExact, OtherSteps
<1>4. pc[q] \in WorkSteps \cup {"release"}
  BY <1>3 DEF HoldSteps, LockSteps, EnsureSteps
<1> QED
  BY <1>3, <1>4 DEF Acquired

\* How a step of a call changes who holds the mount and whether it is there.
HeldStep(o) ==
    \/ Acquired' \subseteq Acquired /\ mounts' = mounts
    \/ Acquired' \subseteq Acquired \cup {o} /\ mounts # <<>> /\ mounts' = mounts
    \/ Acquired' \subseteq Acquired \cup {o} /\ Acquired = {} /\ mounts' # <<>>
    \/ Acquired = {} /\ Acquired' = {}

LEMMA EnsureHeld ==
    ASSUME RefCallersOnly, IInv, NEW o \in Ops, Ensure(o)
    PROVE  HeldStep(o)
<1>0. TypeOK /\ IsRef(o)
  BY DEF IInv, RefCallersOnly
<1>1. Acquired = {}
  <2>1. pc[o] \in EnsureSteps
    BY DEF Ensure, EnsureGetShare, EnsureLock, Classify, MountShareAtBestDataportal,
       MountCall, EnsureSteps
  <2> QED
    BY <2>1, NobodyAcquired
<1>2. ASSUME EnsureOk(o) PROVE Acquired' \subseteq Acquired \cup {o}
  BY <1>0, <1>2, AcquiredMoves DEF EnsureOk
<1>3. ASSUME NEW s, s \notin WorkSteps \cup {"release"}, Goto(o, s) PROVE HeldStep(o)
  BY SMT, <1>0, <1>1, <1>3, AcquiredMoves DEF HeldStep
<1>4. ASSUME EnsureError(o) PROVE HeldStep(o)
  BY <1>3, <1>4 DEF EnsureError, WorkSteps
<1>5. CASE EnsureGetShare(o)
  <2>1. EnsureError(o) \/ Goto(o, "classify")
    BY <1>0, <1>5 DEF EnsureGetShare, GetShareAnswers, RefCallersOnly
  <2> QED
    BY <1>3, <1>4, <2>1 DEF WorkSteps
<1>6. CASE EnsureLock(o)
  BY <1>3, <1>6 DEF EnsureLock, WorkSteps
<1>7. CASE Classify(o)
  <2>1. \/ mounts # <<>> /\ mounts' = mounts /\ EnsureOk(o)
        \/ EnsureError(o)
        \/ \E s \in {"replace", "mount"} : Goto(o, s)
    BY SMT, <1>7 DEF Classify, classifyMount, ProbeAnswers
  <2> QED
    BY <1>2, <1>3, <1>4, <2>1 DEF HeldStep, WorkSteps
<1>8. CASE MountShareAtBestDataportal(o)
  <2>1. \/ mounts # <<>> /\ mounts' = mounts /\ EnsureOk(o)
        \/ EnsureError(o)
        \/ Goto(o, "mountCall")
    BY <1>8 DEF MountShareAtBestDataportal
  <2> QED
    BY <1>2, <1>3, <1>4, <2>1 DEF HeldStep, WorkSteps
<1>9. CASE MountCall(o)
  <2>1. \/ mounts' # <<>> /\ EnsureOk(o)
        \/ EnsureError(o)
    BY <1>0, <1>9, StackType DEF MountCall, TypeOK
  <2> QED
    BY <1>1, <1>2, <1>4, <2>1 DEF HeldStep
<1> QED
  BY <1>5, <1>6, <1>7, <1>8, <1>9 DEF Ensure

LEMMA UnmountHeld ==
    ASSUME RefCallersOnly, IInv, NEW o \in Ops, Unmount(o)
    PROVE  HeldStep(o)
<1>0. TypeOK
  BY DEF IInv
<1>1. pc[o] \in EnsureSteps \cup UnmountSteps
  BY DEF Unmount, UnmountGetShare, UnmountCheckRefs, UnmountProbe, UnmountFilesystem,
     RemoveDir, EnsureSteps, UnmountSteps
<1>2. \E s : Goto(o, s) /\ s \notin WorkSteps \cup {"release"}
  BY SMT DEF Unmount, UnmountGetShare, UnmountCheckRefs, UnmountProbe, UnmountFilesystem,
     RemoveDir, UnmountReturns, EnsureError, WorkSteps
<1> QED
  BY <1>0, <1>1, <1>2, NobodyAcquired, AcquiredMoves DEF HeldStep

LEMMA CallHeld ==
    ASSUME RefCallersOnly, IInv, HeldMountStays, NEW o \in Ops,
           \/ Start(o) \/ Unpublish(o) \/ acquireBackingMount(o) \/ releaseBackingMount(o)
           \/ Ensure(o) \/ Work(o) \/ Unmount(o)
    PROVE  HeldStep(o)
<1>0. TypeOK /\ IsRef(o)
  BY DEF IInv, RefCallersOnly
<1>1. ASSUME NEW s, s \notin WorkSteps \cup {"release"}, Goto(o, s), mounts' = mounts
      PROVE  HeldStep(o)
  BY <1>0, <1>1, AcquiredMoves DEF HeldStep
<1>2. CASE Start(o) \/ Unpublish(o)
  BY <1>1, <1>2 DEF Start, Unpublish, host, WorkSteps
<1>3. CASE acquireBackingMount(o)
  <2>1. CASE refs[Proc[o]] = 0
    BY <1>1, <1>3, <2>1 DEF acquireBackingMount, backingMountRefs, host, WorkSteps
  <2>2. CASE refs[Proc[o]] # 0
    <3>1. Acquired # {} /\ mounts' = mounts /\ Goto(o, "work")
      BY <1>3, <2>2, LaterHolder DEF acquireBackingMount, backingMountRefs, host
    <3>2. mounts # <<>>
      BY <3>1 DEF HeldMountStays
    <3> QED
      BY <1>0, <3>1, <3>2, AcquiredMoves DEF HeldStep
  <2> QED
    BY <2>1, <2>2
<1>4. CASE releaseBackingMount(o)
  BY <1>1, <1>4 DEF releaseBackingMount, host, WorkSteps
<1>5. CASE Work(o)
  <2>1. o \in Acquired /\ mounts' = mounts
    BY <1>0, <1>5 DEF Work, WorkFails, MakeEmptyRawFile, GrowRestoredDeviceFile,
       FormatDevice, DeleteFile, MakeEmptyRawFolder, AttachLoopDevice, Acquired,
       WorkSteps, host
  <2>2. \E s : Goto(o, s)
    BY <1>5 DEF Work, WorkFails, MakeEmptyRawFile, GrowRestoredDeviceFile,
       FormatDevice, DeleteFile, MakeEmptyRawFolder, AttachLoopDevice, Finish
  <2> QED
    BY <1>0, <2>1, <2>2, AcquiredMoves DEF HeldStep
<1> QED
  BY <1>2, <1>3, <1>4, <1>5, EnsureHeld, UnmountHeld

LEMMA HostHeld ==
    ASSUME TypeOK, NEW p \in Procs, LateMount(p) \/ Restart(p)
    PROVE  \/ Acquired' = Acquired /\ mounts' # <<>>
           \/ Acquired' \subseteq Acquired /\ mounts' = mounts
<1>1. CASE LateMount(p)
  BY <1>1, StackType DEF LateMount, TypeOK, Acquired, IsRef
<1>2. CASE Restart(p)
  BY <1>2 DEF Restart, TypeOK, Acquired, WorkSteps, IsRef
<1> QED
  BY <1>1, <1>2

\* Where the work of a call went: never to the bare directory.
NeverLocal == \A o \in Ops : effect[o] # "local"

LEMMA WorkNotLocal ==
    ASSUME RefCallersOnly, IInv, HeldMountStays, NeverLocal, NEW o \in Ops, Work(o)
    PROVE  NeverLocal'
<1>1. o \in Acquired
  BY DEF RefCallersOnly, Work, WorkFails, MakeEmptyRawFile, GrowRestoredDeviceFile,
     FormatDevice, DeleteFile, MakeEmptyRawFolder, AttachLoopDevice, Acquired, WorkSteps
<1>2. Where # "local"
  BY <1>1 DEF HeldMountStays, Where
<1>3. effect' = effect \/ effect' = [effect EXCEPT ![o] = Where]
  BY DEF Work, WorkFails, MakeEmptyRawFile, GrowRestoredDeviceFile, FormatDevice,
     DeleteFile, MakeEmptyRawFolder, AttachLoopDevice, WriteAt
<1> QED
  BY <1>2, <1>3 DEF NeverLocal, IInv, TypeOK

HeldInv == IInv /\ HeldMountStays /\ NeverLocal

LEMMA NextHeld == ASSUME RefCallersOnly PROVE HeldInv /\ [Next]_vars => HeldInv'
<1> SUFFICES ASSUME HeldInv, [Next]_vars PROVE HeldInv'
  OBVIOUS
<1>0. IInv /\ HeldMountStays /\ NeverLocal /\ TypeOK /\ IInv'
  BY NextIInv DEF HeldInv, IInv
<1>1. HeldMountStays'
  <2>1. ASSUME NEW o \in Ops, HeldStep(o) PROVE HeldMountStays'
    BY <1>0, <2>1 DEF HeldStep, HeldMountStays
  <2>2. ASSUME NEW p \in Procs, LateMount(p) \/ Restart(p) PROVE HeldMountStays'
    BY <1>0, <2>2, HostHeld DEF HeldMountStays
  <2>3. CASE UNCHANGED vars
    BY <1>0, <2>3 DEF HeldMountStays, Acquired, IsRef, vars
  <2> QED
    BY <1>0, <2>1, <2>2, <2>3, CallHeld DEF Next
<1>2. NeverLocal'
  <2>1. ASSUME NEW o \in Ops, Work(o) PROVE NeverLocal'
    BY <1>0, <2>1, WorkNotLocal
  <2>2. ASSUME NEW o \in Ops, Start(o) PROVE NeverLocal'
    BY <1>0, <2>2 DEF Start, NeverLocal, TypeOK
  <2>3. ASSUME NEW o \in Ops,
               Unpublish(o) \/ acquireBackingMount(o) \/ releaseBackingMount(o) \/ Ensure(o) \/ Unmount(o)
        PROVE  NeverLocal'
    <3>1. effect' = effect
      BY <2>3 DEF Unpublish, acquireBackingMount, releaseBackingMount, Ensure,
         Unmount, EnsureGetShare, EnsureLock, Classify, MountShareAtBestDataportal,
         MountCall, UnmountGetShare, UnmountCheckRefs, UnmountProbe, UnmountFilesystem,
         RemoveDir
    <3> QED
      BY <1>0, <3>1 DEF NeverLocal
  <2>4. ASSUME NEW p \in Procs, LateMount(p) \/ Restart(p) PROVE NeverLocal'
    BY <1>0, <2>4 DEF LateMount, Restart, NeverLocal
  <2>5. CASE UNCHANGED vars
    BY <1>0, <2>5 DEF NeverLocal, vars
  <2> QED
    BY <2>1, <2>2, <2>3, <2>4, <2>5 DEF Next
<1> QED
  BY <1>0, <1>1, <1>2 DEF HeldInv

LEMMA InitHeld == Init => HeldInv
<1>1. Init => HeldMountStays /\ NeverLocal
  BY DEF Init, HeldMountStays, NeverLocal, Acquired, WorkSteps
<1> QED
  BY <1>1, InitIInv DEF HeldInv

LEMMA HeldInvariance == ASSUME RefCallersOnly PROVE Spec => []HeldInv
<1>1. HeldInv /\ [Next]_vars => HeldInv'
  BY NextHeld
<1> QED
  BY <1>1, InitHeld, PTL DEF Spec

\* When every call goes through acquireBackingMount, in one process, the share
\* stays mounted from the return of acquire to the start of release: no mkfs
\* loses its mount to another call's release, replacement or restart.
THEOREM HeldMountStaysHolds == ASSUME RefCallersOnly PROVE Spec => []HeldMountStays
<1>1. HeldInv => HeldMountStays
  BY DEF HeldInv
<1> QED
  BY <1>1, HeldInvariance, PTL

\* Under the same condition no call reports success for work done in the bare
\* staging directory.
THEOREM WorkOnShareHolds == ASSUME RefCallersOnly PROVE Spec => []WorkOnShare
<1>1. HeldInv => WorkOnShare
  BY DEF HeldInv, NeverLocal, WorkOnShare
<1> QED
  BY <1>1, HeldInvariance, PTL

-----------------------------------------------------------------------------
(* Refinement                                                              *)

LEMMA InitShared == Init => Shared!Init
BY DEF Init, Shared!Init, Acquired, WorkSteps

\* A step of call o moves o alone.
LEMMA CallMoves ==
    ASSUME NEW o \in Ops,
           \/ Start(o) \/ Unpublish(o) \/ acquireBackingMount(o) \/ releaseBackingMount(o)
           \/ Ensure(o) \/ Work(o) \/ Unmount(o)
    PROVE  \E s : Goto(o, s)
<1>1. CASE Start(o) \/ Unpublish(o) \/ acquireBackingMount(o) \/ releaseBackingMount(o)
  BY <1>1 DEF Start, Unpublish, acquireBackingMount, releaseBackingMount
<1>2. CASE Ensure(o)
  <2>1. EnsureOk(o) \/ EnsureError(o) => \E s : Goto(o, s)
    BY DEF EnsureOk, EnsureError
  <2> QED
    BY <1>2, <2>1 DEF Ensure, EnsureGetShare, EnsureLock, Classify,
       MountShareAtBestDataportal, MountCall
<1>3. CASE Work(o)
  BY <1>3 DEF Work, WorkFails, MakeEmptyRawFile, GrowRestoredDeviceFile,
     FormatDevice, DeleteFile, MakeEmptyRawFolder, AttachLoopDevice, Finish
<1>4. CASE Unmount(o)
  <2>1. UnmountReturns(o) \/ EnsureError(o) => \E s : Goto(o, s)
    BY DEF UnmountReturns, EnsureError
  <2> QED
    BY <1>4, <2>1 DEF Unmount, UnmountGetShare, UnmountCheckRefs, UnmountProbe,
       UnmountFilesystem, RemoveDir
<1> QED
  BY <1>1, <1>2, <1>3, <1>4

LEMMA CallOthers ==
    ASSUME TypeOK, NEW o \in Ops, NEW s, Goto(o, s)
    PROVE  Acquired' \ {o} = Acquired \ {o}
BY DEF TypeOK, Goto, Acquired, IsRef

LEMMA NextShared ==
    ASSUME RefCallersOnly
    PROVE  HeldInv /\ HeldInv' /\ [Next]_vars => [Shared!Next]_<<Acquired, mounts # <<>>>>
<1> SUFFICES ASSUME HeldInv, HeldInv', [Next]_vars PROVE [Shared!Next]_<<Acquired, mounts # <<>>>>
  OBVIOUS
<1>0. IInv /\ HeldMountStays /\ HeldMountStays' /\ TypeOK
  BY DEF HeldInv, IInv
<1>1. ASSUME Acquired' \subseteq Acquired, mounts' = mounts PROVE Shared!Next
  <2>1. Acquired \ Acquired' \in SUBSET Users
    BY DEF Acquired, Users
  <2>2. Acquired' = Acquired \ (Acquired \ Acquired')
    BY <1>1
  <2>3. Shared!Release(Acquired \ Acquired')
    BY <1>1, <2>2 DEF Shared!Release
  <2> QED
    BY <2>1, <2>3 DEF Shared!Next
<1>2. ASSUME NEW o \in Ops, Acquired' = Acquired \cup {o}, mounts' # <<>>, mounts # <<>> \/ Acquired = {}
      PROVE  Shared!Next
  <2>1. o \in Users
    BY DEF RefCallersOnly, Users
  <2>2. Shared!Acquire(o)
    BY <1>2 DEF Shared!Acquire
  <2> QED
    BY <2>1, <2>2 DEF Shared!Next
<1>3. ASSUME Acquired' = Acquired, Acquired = {} \/ mounts' # <<>> PROVE Shared!Next
  <2>1. Shared!Remount
    BY <1>3 DEF Shared!Remount
  <2> QED
    BY <2>1 DEF Shared!Next
<1>4. ASSUME NEW o \in Ops,
             \/ Start(o) \/ Unpublish(o) \/ acquireBackingMount(o) \/ releaseBackingMount(o)
             \/ Ensure(o) \/ Work(o) \/ Unmount(o)
      PROVE  Shared!Next
  <2>1. HeldStep(o) /\ Acquired' \ {o} = Acquired \ {o}
    BY <1>0, <1>4, CallHeld, CallMoves, CallOthers
  <2>2. CASE o \in Acquired'
    <3>1. Acquired' = Acquired \cup {o}
      BY <2>1, <2>2
    <3> QED
      BY <1>0, <1>2, <3>1 DEF HeldMountStays
  <2>3. CASE o \notin Acquired'
    <3>1. Acquired' = Acquired \ {o}
      BY <2>1, <2>3
    <3> QED
      BY <1>1, <1>3, <2>1, <2>3, <3>1 DEF HeldStep
  <2> QED
    BY <2>2, <2>3
<1>5. ASSUME NEW p \in Procs, LateMount(p) \/ Restart(p) PROVE Shared!Next
  BY <1>0, <1>1, <1>3, <1>5, HostHeld
<1>6. CASE UNCHANGED vars
  BY <1>6 DEF vars, Acquired, IsRef
<1> QED
  BY <1>4, <1>5, <1>6 DEF Next

\* When every call goes through acquireBackingMount, in one process, acquire
\* and release implement SharedMount: users come and go, and the mount is made
\* or removed only while there is none.
THEOREM Refinement == ASSUME RefCallersOnly PROVE Spec => ImplementsSharedMount
<1>1. HeldInv /\ HeldInv' /\ [Next]_vars => [Shared!Next]_<<Acquired, mounts # <<>>>>
  BY NextShared
<1> QED
  BY <1>1, InitShared, HeldInvariance, PTL DEF Spec, ImplementsSharedMount, Shared!Spec

=============================================================================
