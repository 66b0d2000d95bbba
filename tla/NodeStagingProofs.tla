------------------------- MODULE NodeStagingProofs --------------------------
(***************************************************************************)
(* Proofs about NodeStaging: unstages that are about to succeed, the mount *)
(* slots, the root export, and the invariance of the whole.                *)
(***************************************************************************)
EXTENDS NodeStagingMounts, FiniteSetTheorems, TLAPS

\* Most leaves are first-order: Zenon takes them, and a leaf that needs more says SMT.
USE Zenon

\* An unstage that goes on does not change what is unstaged already,
LEMMA DoneMoves ==
    ASSUME TypeCall, TypeKubelet, CallInv, KubeletInv, DoneInv, NEW c \in Calls, Moves(c),
           UNCHANGED mounts, leaked \subseteq leaked',
           pc'[c] \in DoneSteps => pc[c] \in DoneSteps,
           Succeed(c) /\ kind[c] = "unstage" => pc[c] \in DoneSteps
    PROVE  DoneInv'
<1>1. CASE Progress(c) \/ Granted(c)
  BY <1>1 DEF Progress, Granted, Same, DoneInv, TypeCall
<1>2. CASE Fails(c)
  BY SMT, <1>2 DEF Fails, Fail, End, Goto, kubeletVars, DoneInv, TypeCall, DoneSteps
<1>3. CASE Succeeds(c)
  <2>1. Succeed(c) /\ vol[c] \in Volumes /\ pc[c] # "idle"
    BY <1>3 DEF Succeeds, CallInv
  <2>2. \A d \in Calls : pc'[d] \in DoneSteps /\ live'[d] =>
            pc[d] \in DoneSteps /\ live[d] /\ vol'[d] = vol[d]
    BY SMT, <2>1 DEF Succeed, End, Goto, TypeCall, DoneSteps
  <2>3. CASE ~live[c] \/ pod[c] # None
    <3>1. UNCHANGED device
      BY <2>1, <2>3 DEF Succeed, Answer
    <3> QED
      BY <2>2, <3>1 DEF DoneInv
  <2>4. CASE live[c] /\ pod[c] = None
    <3>1. /\ \A v \in Volumes \ {vol[c]} : device'[v] = device[v]
          /\ device'[vol[c]] = "none" => kind[c] # "stage"
      BY <2>1, <2>4 DEF Succeed, Answer, TypeKubelet
    <3>2. kind[c] \in {"stage", "unstage"}
      BY <2>1, <2>4, NoneAssumption DEF CallInv, KubeletInv, NotedInv, Kinds
    <3>3. device'[vol[c]] = "none" => mounts[vol[c]] = 0 \/ <<vol[c], None>> \in leaked
      BY <2>1, <2>4, <3>1, <3>2 DEF DoneInv
    <3> QED
      BY <2>2, <3>1, <3>3 DEF DoneInv
  <2> QED
    BY <2>3, <2>4
<1> QED
  BY <1>1, <1>2, <1>3 DEF Moves

\* and what kubelet holds unstaged is not mounted.
LEMMA DoneStep ==
    ASSUME TypeFlags, TypeNums, TypeCall, TypeKubelet, TypeTarget, TypeSets, CallInv,
           LockInv, KubeletInv, WorkInv, DoneInv, [DriverNext]_driverVars
    PROVE  DoneInv'
<1>1. CASE Restart
  BY <1>1 DEF Restart, DoneInv, TypeCall, TypeKubelet, kubeletVars
<1>2. ASSUME NEW c \in Calls, acquireMountSlot(c) PROVE DoneInv'
  <2>1. Moves(c)
    BY <1>2, HandlerMoves DEF HandlerStep
  <2>2. UNCHANGED mounts /\ leaked \subseteq leaked'
    BY <1>2 DEF acquireMountSlot, StageRest, HandlerRest
  <2>3. /\ pc'[c] \in DoneSteps => pc[c] \in DoneSteps
        /\ Succeed(c) /\ kind[c] = "unstage" => pc[c] \in DoneSteps
    BY <1>2 DEF acquireMountSlot, Step, Fail, Goto, End, TypeCall, CallInv, DoneSteps,
       StagingSteps, SlotSteps, PublishSteps, Succeed
  <2> QED
    BY <2>1, <2>2, <2>3, DoneMoves
<1>3. ASSUME NEW c \in Calls, MountToDataPortal(c) PROVE DoneInv'
  <2>1. Moves(c)
    BY <1>3, HandlerMoves DEF HandlerStep
  <2>2. UNCHANGED mounts /\ leaked \subseteq leaked'
    BY <1>3 DEF MountToDataPortal, StageRest, HandlerRest
  <2>3. /\ pc'[c] \in DoneSteps => pc[c] \in DoneSteps
        /\ Succeed(c) /\ kind[c] = "unstage" => pc[c] \in DoneSteps
    BY <1>3 DEF MountToDataPortal, StageFails, NextPortal, Step, Fail, Goto, End,
       TypeCall, CallInv, DoneSteps, StagingSteps, SlotSteps, PublishSteps, Succeed
  <2> QED
    BY <2>1, <2>2, <2>3, DoneMoves
<1>4. ASSUME NEW c \in Calls, MountShareCheck(c) PROVE DoneInv'
  <2>1. Moves(c)
    BY <1>4, HandlerMoves DEF HandlerStep
  <2>2. UNCHANGED mounts /\ leaked \subseteq leaked'
    BY <1>4 DEF MountShareCheck, StageRest, HandlerRest
  <2>3. /\ pc'[c] \in DoneSteps => pc[c] \in DoneSteps
        /\ Succeed(c) /\ kind[c] = "unstage" => pc[c] \in DoneSteps
    BY <1>4 DEF MountShareCheck, Step, NextPortal, Goto, TypeCall, DoneSteps,
       Succeed, End
  <2> QED
    BY <2>1, <2>2, <2>3, DoneMoves
<1>5. ASSUME NEW c \in Calls, beginMount(c) PROVE DoneInv'
  <2>1. Moves(c)
    BY <1>5, HandlerMoves DEF HandlerStep
  <2>2. UNCHANGED mounts /\ leaked \subseteq leaked'
    BY <1>5 DEF beginMount, StageRest, HandlerRest
  <2>3. /\ pc'[c] \in DoneSteps => pc[c] \in DoneSteps
        /\ Succeed(c) /\ kind[c] = "unstage" => pc[c] \in DoneSteps
    BY <1>5 DEF beginMount, Step, Goto, TypeCall, DoneSteps, Succeed, End
  <2> QED
    BY <2>1, <2>2, <2>3, DoneMoves
<1>6. ASSUME NEW c \in Calls, MountTimesOut(c) PROVE DoneInv'
  <2>1. Moves(c)
    BY <1>6, HandlerMoves DEF HandlerStep
  <2>2. UNCHANGED mounts /\ leaked \subseteq leaked'
    BY <1>6 DEF MountTimesOut, StageRest, HandlerRest
  <2>3. /\ pc'[c] \in DoneSteps => pc[c] \in DoneSteps
        /\ Succeed(c) /\ kind[c] = "unstage" => pc[c] \in DoneSteps
    BY <1>6 DEF MountTimesOut, NextPortal, Goto, TypeCall, DoneSteps, Succeed, End
  <2> QED
    BY <2>1, <2>2, <2>3, DoneMoves
<1>7. ASSUME NEW c \in Calls, Staged(c) PROVE DoneInv'
  <2>1. Moves(c)
    BY <1>7, HandlerMoves DEF HandlerStep
  <2>2. UNCHANGED mounts /\ leaked \subseteq leaked'
    BY <1>7 DEF Staged, StageRest, HandlerRest
  <2>3. /\ pc'[c] \in DoneSteps => pc[c] \in DoneSteps
        /\ Succeed(c) /\ kind[c] = "unstage" => pc[c] \in DoneSteps
    BY <1>7 DEF Staged, Step, Goto, TypeCall, DoneSteps, Succeed, End
  <2> QED
    BY <2>1, <2>2, <2>3, DoneMoves
<1>8. ASSUME NEW c \in Calls, acquireVolumeLock(c) PROVE DoneInv'
  <2>1. Moves(c)
    BY <1>8, HandlerMoves DEF HandlerStep
  <2>2. UNCHANGED mounts /\ leaked \subseteq leaked'
    BY <1>8 DEF acquireVolumeLock, StageRest, HandlerRest
  <2>3. /\ pc'[c] \in DoneSteps => pc[c] \in DoneSteps
        /\ Succeed(c) /\ kind[c] = "unstage" => pc[c] \in DoneSteps
    BY <1>8 DEF acquireVolumeLock, Goto, Fail, End, TypeCall, CallInv, DoneSteps,
       PublishSteps
  <2> QED
    BY <2>1, <2>2, <2>3, DoneMoves
<1>9. ASSUME NEW c \in Calls, PublishTarget(c) PROVE DoneInv'
  <2>1. Moves(c)
    BY <1>9, HandlerMoves DEF HandlerStep
  <2>2. UNCHANGED mounts /\ leaked \subseteq leaked'
    BY <1>9 DEF PublishTarget, PodRest, HandlerRest
  <2>3. /\ pc'[c] \in DoneSteps => pc[c] \in DoneSteps
        /\ Succeed(c) /\ kind[c] = "unstage" => pc[c] \in DoneSteps
    BY <1>9 DEF PublishTarget, Step, Fail, Goto, End, TypeCall, CallInv,
       DoneSteps, PublishSteps, Succeed
  <2> QED
    BY <2>1, <2>2, <2>3, DoneMoves
<1>10. ASSUME NEW c \in Calls, PublishStaging(c) PROVE DoneInv'
  <2>1. Moves(c)
    BY <1>10, HandlerMoves DEF HandlerStep
  <2>2. UNCHANGED mounts /\ leaked \subseteq leaked'
    BY <1>10 DEF PublishStaging, PodRest, HandlerRest
  <2>3. /\ pc'[c] \in DoneSteps => pc[c] \in DoneSteps
        /\ Succeed(c) /\ kind[c] = "unstage" => pc[c] \in DoneSteps
    BY <1>10 DEF PublishStaging, Step, Fail, Goto, End, TypeCall, CallInv,
       DoneSteps, PublishSteps
  <2> QED
    BY <2>1, <2>2, <2>3, DoneMoves
<1>11. ASSUME NEW c \in Calls, PublishRecheck(c) PROVE DoneInv'
  <2>1. Moves(c)
    BY <1>11, HandlerMoves DEF HandlerStep
  <2>2. UNCHANGED mounts /\ leaked \subseteq leaked'
    BY <1>11 DEF PublishRecheck, PodRest, HandlerRest
  <2>3. /\ pc'[c] \in DoneSteps => pc[c] \in DoneSteps
        /\ Succeed(c) /\ kind[c] = "unstage" => pc[c] \in DoneSteps
    BY <1>11 DEF PublishRecheck, Step, Fail, Goto, End, TypeCall, CallInv, DoneSteps,
       StagingSteps, SlotSteps, PublishSteps, Succeed
  <2> QED
    BY <2>1, <2>2, <2>3, DoneMoves
<1>12. ASSUME NEW c \in Calls, PublishBind(c) PROVE DoneInv'
  <2>1. Moves(c)
    BY <1>12, HandlerMoves DEF HandlerStep
  <2>2. UNCHANGED mounts /\ leaked \subseteq leaked'
    BY <1>12 DEF PublishBind, PodRest, HandlerRest
  <2>3. /\ pc'[c] \in DoneSteps => pc[c] \in DoneSteps
        /\ Succeed(c) /\ kind[c] = "unstage" => pc[c] \in DoneSteps
    BY <1>12 DEF PublishBind, Fail, End, Goto, TypeCall, CallInv, DoneSteps,
       StagingSteps, SlotSteps, PublishSteps, Succeed
  <2> QED
    BY <2>1, <2>2, <2>3, DoneMoves
<1>13. ASSUME NEW c \in Calls, Unpublish(c) PROVE DoneInv'
  <2>1. Moves(c)
    BY <1>13, HandlerMoves DEF HandlerStep
  <2>2. UNCHANGED mounts /\ leaked \subseteq leaked'
    BY <1>13 DEF Unpublish, Leaks, PodRest, HandlerRest
  <2>3. /\ pc'[c] \in DoneSteps => pc[c] \in DoneSteps
        /\ Succeed(c) /\ kind[c] = "unstage" => pc[c] \in DoneSteps
    BY <1>13 DEF Unpublish, Fail, End, Goto, TypeCall, CallInv, DoneSteps,
       Succeed
  <2> QED
    BY <2>1, <2>2, <2>3, DoneMoves
<1>14. ASSUME NEW c \in Calls, UnstageCheck(c) PROVE DoneInv'
  <2>1. vol[c] \in Volumes /\ pod[c] = None /\ kind[c] = "unstage" /\ pc[c] \in UnstageSteps
    BY <1>14 DEF UnstageCheck, CallInv, UnstageSteps
  <2>2. \A d \in Calls \ {c} : pc'[d] = pc[d] /\ live'[d] = live[d] /\ vol'[d] = vol[d]
    <3>1. \A d \in Calls \ {c} : pc'[d] = pc[d] /\ vol'[d] = vol[d]
      BY <1>14 DEF UnstageCheck, Step, Fail, End, Goto, TypeCall
    <3>2. live' = live \/ live' = [live EXCEPT ![c] = FALSE]
      BY <1>14 DEF UnstageCheck, Step, Fail, End
    <3>3. \A d \in Calls \ {c} : live'[d] = live[d]
      BY <3>2 DEF TypeFlags
    <3> QED
      BY <3>1, <3>3
  <2>3. UNCHANGED device
    BY <1>14 DEF UnstageCheck, Step, Fail, kubeletVars
  <2>4. \A v \in Volumes \ {vol[c]} :
            mounts'[v] = mounts[v] /\ (<<v, None>> \in leaked => <<v, None>> \in leaked')
    BY <1>14, <2>1 DEF UnstageCheck, Unmounts, Leaks, TypeNums
  <2>5. mounts[vol[c]] = 0 \/ <<vol[c], None>> \in leaked
        => mounts'[vol[c]] = 0 \/ <<vol[c], None>> \in leaked'
    BY SMT, <1>14, <2>1 DEF UnstageCheck, Unmounts, Leaks, TypeNums
  <2>6. pc'[c] \in DoneSteps /\ live'[c]
        => vol'[c] = vol[c] /\ (mounts'[vol[c]] = 0 \/ <<vol[c], None>> \in leaked')
    BY SMT, <1>14, <2>1 DEF UnstageCheck, Unmounts, Step, Fail, End, Goto, Leaks, TypeNums,
       TypeCall, DoneSteps
  <2>7. \A v \in Volumes : mounts[v] = 0 \/ <<v, None>> \in leaked
            => mounts'[v] = 0 \/ <<v, None>> \in leaked'
    BY <2>4, <2>5
  <2>8. \A d \in Calls : pc[d] \in DoneSteps => vol[d] \in Volumes
    BY DEF CallInv, DoneSteps
  <2> QED
    BY <2>2, <2>3, <2>6, <2>7, <2>8 DEF DoneInv
<1>15. ASSUME NEW c \in Calls, UnstageUmount(c) PROVE DoneInv'
  <2>1. vol[c] \in Volumes /\ pod[c] = None /\ kind[c] = "unstage" /\ pc[c] \in UnstageSteps
    BY <1>15 DEF UnstageUmount, CallInv, UnstageSteps
  <2>2. \A d \in Calls \ {c} : pc'[d] = pc[d] /\ live'[d] = live[d] /\ vol'[d] = vol[d]
    <3>1. \A d \in Calls \ {c} : pc'[d] = pc[d] /\ vol'[d] = vol[d]
      BY <1>15 DEF UnstageUmount, Step, Fail, End, Goto, TypeCall
    <3>2. live' = live \/ live' = [live EXCEPT ![c] = FALSE]
      BY <1>15 DEF UnstageUmount, Step, Fail, End
    <3>3. \A d \in Calls \ {c} : live'[d] = live[d]
      BY <3>2 DEF TypeFlags
    <3> QED
      BY <3>1, <3>3
  <2>3. UNCHANGED device
    BY <1>15 DEF UnstageUmount, Step, Fail, kubeletVars
  <2>4. \A v \in Volumes \ {vol[c]} :
            mounts'[v] = mounts[v] /\ (<<v, None>> \in leaked => <<v, None>> \in leaked')
    BY <1>15, <2>1 DEF UnstageUmount, Unmounts, Leaks, TypeNums
  <2>5. mounts[vol[c]] = 0 \/ <<vol[c], None>> \in leaked
        => mounts'[vol[c]] = 0 \/ <<vol[c], None>> \in leaked'
    BY SMT, <1>15, <2>1 DEF UnstageUmount, Unmounts, Leaks, TypeNums
  <2>6. pc'[c] \in DoneSteps /\ live'[c]
        => vol'[c] = vol[c] /\ (mounts'[vol[c]] = 0 \/ <<vol[c], None>> \in leaked')
    BY <1>15, <2>1 DEF UnstageUmount, Unmounts, Step, Fail, End, Goto, Leaks, TypeNums,
       TypeCall, DoneSteps
  <2>7. \A v \in Volumes : mounts[v] = 0 \/ <<v, None>> \in leaked
            => mounts'[v] = 0 \/ <<v, None>> \in leaked'
    BY <2>4, <2>5
  <2>8. \A d \in Calls : pc[d] \in DoneSteps => vol[d] \in Volumes
    BY DEF CallInv, DoneSteps
  <2> QED
    BY <2>2, <2>3, <2>6, <2>7, <2>8 DEF DoneInv
<1>16. ASSUME NEW c \in Calls, UnstageRmdir(c) PROVE DoneInv'
  <2>1. vol[c] \in Volumes /\ pod[c] = None /\ kind[c] = "unstage" /\ pc[c] \in UnstageSteps
    BY <1>16 DEF UnstageRmdir, CallInv, UnstageSteps
  <2>2. \A d \in Calls \ {c} : pc'[d] = pc[d] /\ live'[d] = live[d] /\ vol'[d] = vol[d]
    <3>1. \A d \in Calls \ {c} : pc'[d] = pc[d] /\ vol'[d] = vol[d]
      BY <1>16 DEF UnstageRmdir, Step, Fail, End, Goto, TypeCall
    <3>2. live' = live \/ live' = [live EXCEPT ![c] = FALSE]
      BY <1>16 DEF UnstageRmdir, Step, Fail, End
    <3>3. \A d \in Calls \ {c} : live'[d] = live[d]
      BY <3>2 DEF TypeFlags
    <3> QED
      BY <3>1, <3>3
  <2>3. UNCHANGED device
    BY <1>16 DEF UnstageRmdir, Step, Fail, kubeletVars
  <2>4. \A v \in Volumes \ {vol[c]} :
            mounts'[v] = mounts[v] /\ (<<v, None>> \in leaked => <<v, None>> \in leaked')
    BY <1>16, <2>1 DEF UnstageRmdir, Leaks, TypeNums
  <2>5. mounts[vol[c]] = 0 \/ <<vol[c], None>> \in leaked
        => mounts'[vol[c]] = 0 \/ <<vol[c], None>> \in leaked'
    BY <1>16, <2>1 DEF UnstageRmdir, Leaks, TypeNums
  <2>6. pc'[c] \in DoneSteps /\ live'[c]
        => vol'[c] = vol[c] /\ (mounts'[vol[c]] = 0 \/ <<vol[c], None>> \in leaked')
    BY SMT, <1>16 DEF UnstageRmdir, Step, Fail, End, Goto, Leaks, TypeNums, TypeCall,
       DoneSteps
  <2>7. \A v \in Volumes : mounts[v] = 0 \/ <<v, None>> \in leaked
            => mounts'[v] = 0 \/ <<v, None>> \in leaked'
    BY <2>4, <2>5
  <2>8. \A d \in Calls : pc[d] \in DoneSteps => vol[d] \in Volumes
    BY DEF CallInv, DoneSteps
  <2> QED
    BY <2>2, <2>3, <2>6, <2>7, <2>8 DEF DoneInv
<1>17. ASSUME NEW c \in Calls, LegacyMarker(c) PROVE DoneInv'
  <2>1. Moves(c)
    BY <1>17, HandlerMoves DEF HandlerStep
  <2>2. UNCHANGED mounts /\ leaked \subseteq leaked'
    BY <1>17 DEF LegacyMarker, LegacyRest, UnstageRest
  <2>3. /\ pc'[c] \in DoneSteps => pc[c] \in DoneSteps
        /\ Succeed(c) /\ kind[c] = "unstage" => pc[c] \in DoneSteps
    BY <1>17 DEF LegacyMarker, TypeCall, DoneSteps
  <2> QED
    BY <2>1, <2>2, <2>3, DoneMoves
<1>18. ASSUME NEW c \in Calls, acquireRootMountLock(c) PROVE DoneInv'
  <2>1. Moves(c)
    BY <1>18, HandlerMoves DEF HandlerStep
  <2>2. UNCHANGED mounts /\ leaked \subseteq leaked'
    BY <1>18 DEF acquireRootMountLock, LegacyRest, UnstageRest
  <2>3. /\ pc'[c] \in DoneSteps => pc[c] \in DoneSteps
        /\ Succeed(c) /\ kind[c] = "unstage" => pc[c] \in DoneSteps
    BY <1>18 DEF acquireRootMountLock, TypeCall, DoneSteps
  <2> QED
    BY <2>1, <2>2, <2>3, DoneMoves
<1>19. ASSUME NEW c \in Calls, LegacyRelease(c) PROVE DoneInv'
  <2>1. Moves(c)
    BY <1>19, HandlerMoves DEF HandlerStep
  <2>2. UNCHANGED mounts /\ leaked \subseteq leaked'
    BY <1>19 DEF LegacyRelease, LegacyRest, UnstageRest
  <2>3. /\ pc'[c] \in DoneSteps => pc[c] \in DoneSteps
        /\ Succeed(c) /\ kind[c] = "unstage" => pc[c] \in DoneSteps
    BY <1>19 DEF LegacyRelease, TypeCall, DoneSteps
  <2> QED
    BY <2>1, <2>2, <2>3, DoneMoves
<1>20. ASSUME NEW c \in Calls, LegacyUnmount(c) PROVE DoneInv'
  <2>1. Moves(c)
    BY <1>20, HandlerMoves DEF HandlerStep
  <2>2. UNCHANGED mounts /\ leaked \subseteq leaked'
    BY <1>20 DEF LegacyUnmount, LegacyRest, UnstageRest
  <2>3. /\ pc'[c] \in DoneSteps => pc[c] \in DoneSteps
        /\ Succeed(c) /\ kind[c] = "unstage" => pc[c] \in DoneSteps
    BY <1>20 DEF LegacyUnmount, TypeCall, DoneSteps
  <2> QED
    BY <2>1, <2>2, <2>3, DoneMoves
<1>21. ASSUME NEW c \in Calls, Deadline(c) PROVE DoneInv'
  BY SMT, <1>21 DEF Deadline, DoneInv, TypeCall, TypeKubelet, kubeletVars, hostVars
<1>22. ASSUME NEW c \in Calls, NEW v \in Volumes, NodeStageVolume(c, v) PROVE DoneInv'
  BY SMT, <1>22 DEF NodeStageVolume, DoneInv, TypeCall, TypeKubelet, Call, DoneSteps, Goto
<1>23. ASSUME NEW c \in Calls, NEW v \in Volumes, NodeUnstageVolume(c, v) PROVE DoneInv'
  <2>1. UNCHANGED <<mounts, leaked>> /\ \A u \in Volumes : device'[u] = "none" => device[u] = "none"
    BY <1>23 DEF NodeUnstageVolume, Call, TypeKubelet
  <2>2. \A d \in Calls : pc'[d] \in DoneSteps => d # c
    BY <1>23 DEF NodeUnstageVolume, Call, Goto, TypeCall, DoneSteps
  <2>3. \A d \in Calls \ {c} : pc'[d] = pc[d] /\ vol'[d] = vol[d] /\ live'[d] = live[d]
    BY <1>23 DEF NodeUnstageVolume, Call, Goto, TypeCall, TypeFlags
  <2> QED
    BY <2>1, <2>2, <2>3 DEF DoneInv
<1>24. ASSUME NEW c \in Calls, NEW v \in Volumes, NEW p \in Pods, NodePublishVolume(c, v, p) PROVE DoneInv'
  <2>1. UNCHANGED <<mounts, leaked, device>>
    BY <1>24 DEF NodePublishVolume, Call
  <2>2. \A d \in Calls : pc'[d] \in DoneSteps => d # c
    BY <1>24 DEF NodePublishVolume, Call, Goto, TypeCall, DoneSteps
  <2>3. \A d \in Calls \ {c} : pc'[d] = pc[d] /\ vol'[d] = vol[d] /\ live'[d] = live[d]
    BY <1>24 DEF NodePublishVolume, Call, Goto, TypeCall, TypeFlags
  <2> QED
    BY <2>1, <2>2, <2>3 DEF DoneInv
<1>25. ASSUME NEW c \in Calls, NEW v \in Volumes, NEW p \in Pods, NodeUnpublishVolume(c, v, p) PROVE DoneInv'
  BY SMT, <1>25 DEF NodeUnpublishVolume, DoneInv, TypeCall, TypeKubelet, Call, DoneSteps,
     Goto
<1>26. ASSUME NEW v \in Volumes, Stale(v) PROVE DoneInv'
  BY <1>26 DEF Stale, DoneInv, TypeCall, TypeKubelet, callVars, kubeletVars
<1>27. ASSUME NEW v \in Volumes, MountDone(v) PROVE DoneInv'
  <2>1. /\ \A u \in Volumes \ {v} : mounts'[u] = mounts[u]
        /\ UNCHANGED <<device, live, vol>> /\ leaked \subseteq leaked'
    BY <1>27 DEF MountDone, TypeNums, kubeletVars
  <2>2. \A d \in Calls : pc'[d] \in DoneSteps => pc[d] \in DoneSteps /\ vol[d] \in Volumes
    BY <1>27 DEF MountDone, Wake, DoneSteps, CallInv
  <2>3. CASE <<v, None>> \in leaked'
    BY <2>1, <2>2, <2>3 DEF DoneInv
  <2>4. CASE \E c \in Waiters(v) : live[c]
    <3>1. PICK c \in Calls : pc[c] = "wait" /\ vol[c] = v /\ live[c]
      BY <2>4 DEF Waiters
    <3>2. kind[c] \in {"stage", "publish"} /\ (kind[c] = "publish" => pod[c] \in Pods)
      BY <3>1 DEF CallInv, StagingSteps, SlotSteps
    <3>3. device[v] \in {"staging", "staged"}
      BY <3>1, <3>2 DEF KubeletInv, NotedInv, UseInv
    <3>4. \A d \in Calls : pc[d] \in DoneSteps /\ live[d] => vol[d] # v
      BY <3>3 DEF KubeletInv, NotedInv, CallInv, DoneSteps, UnstageSteps
    <3> QED
      BY <2>1, <2>2, <3>3, <3>4 DEF DoneInv
  <2> QED
    BY <1>27, <2>3, <2>4 DEF MountDone
<1>28. ASSUME NEW v \in Volumes, MountFails(v) PROVE DoneInv'
  BY <1>28 DEF MountFails, DoneInv, TypeCall, TypeKubelet, Wake, kubeletVars, DoneSteps
<1>29. CASE UNCHANGED driverVars
  BY <1>29 DEF DoneInv, TypeCall, TypeKubelet, driverVars, callVars, kubeletVars, hostVars
<1> QED
  BY <1>1, <1>2, <1>3, <1>4, <1>5, <1>6, <1>7, <1>8, <1>9, <1>10, <1>11, <1>12,
     <1>13, <1>14, <1>15, <1>16, <1>17, <1>18, <1>19, <1>20, <1>21, <1>22, <1>23,
     <1>24, <1>25, <1>26, <1>27, <1>28, <1>29 DEF DriverNext, HandlerStep, Kubelet

\* The calls that have a slot.
InSlots == {c \in Calls : pc[c] \in SlotSteps}

SlotInv == SlotsAccounted /\ free \in 0 .. Slots

\* A handler takes a free slot;
LEMMA SlotTaken ==
    ASSUME SlotsAccounted, free \in 0 .. Slots, NEW c \in Calls, c \notin InSlots,
           InSlots' = InSlots \cup {c}, free' = free - 1, free > 0
    PROVE  SlotsAccounted' /\ free' \in 0 .. Slots
<1>1. IsFiniteSet(InSlots)
  BY CallAssumption, FS_Subset DEF InSlots
<1>2. Cardinality(InSlots) \in Nat /\ Cardinality(InSlots \cup {c}) = Cardinality(InSlots) + 1
  BY <1>1, FS_CardinalityType, FS_AddElement
<1>3. free + Cardinality(InSlots) = Slots /\ (SlotsAccounted' <=> free' + Cardinality(InSlots') = Slots)
  BY DEF SlotsAccounted, InSlots
<1>4. Cardinality(InSlots') = Cardinality(InSlots) + 1
  BY <1>2
<1> QED
  BY SMT, <1>2, <1>3, <1>4, BoundAssumption

\* it gives its slot back;
LEMMA SlotGiven ==
    ASSUME SlotsAccounted, free \in 0 .. Slots, NEW c \in Calls, c \in InSlots,
           InSlots' = InSlots \ {c}, free' = free + 1
    PROVE  SlotsAccounted' /\ free' \in 0 .. Slots
<1>1. IsFiniteSet(InSlots)
  BY CallAssumption, FS_Subset DEF InSlots
<1>2. Cardinality(InSlots) \in Nat /\ Cardinality(InSlots \ {c}) = Cardinality(InSlots) - 1
  BY <1>1, FS_CardinalityType, FS_RemoveElement
<1>3. IsFiniteSet(InSlots \ {c})
  BY <1>1, FS_Subset
<1>4. Cardinality(InSlots \ {c}) \in Nat
  BY <1>3, FS_CardinalityType
<1>5. free + Cardinality(InSlots) = Slots /\ (SlotsAccounted' <=> free' + Cardinality(InSlots') = Slots)
  BY DEF SlotsAccounted, InSlots
<1>6. Cardinality(InSlots') = Cardinality(InSlots) - 1 /\ Cardinality(InSlots') \in Nat
  BY <1>2, <1>4
<1> QED
  BY SMT, <1>2, <1>5, <1>6, BoundAssumption

\* or the slots stay as they are.
LEMMA SlotKept ==
    ASSUME SlotsAccounted, free \in 0 .. Slots, InSlots' = InSlots, free' = free
    PROVE  SlotsAccounted' /\ free' \in 0 .. Slots
BY DEF SlotsAccounted, InSlots

\* No slot is lost.
LEMMA SlotStep ==
    ASSUME TypeCall, SlotInv, [DriverNext]_driverVars
    PROVE  SlotInv'
<1>1. CASE Restart
  <2>1. InSlots' = {} /\ free' = Slots
    BY <1>1 DEF Restart, InSlots, SlotSteps
  <2> QED
    BY SMT, <2>1, FS_EmptySet, BoundAssumption DEF SlotInv, SlotsAccounted, InSlots
<1>2. ASSUME NEW c \in Calls, acquireMountSlot(c) PROVE SlotInv'
  <2>1. CASE free > 0 /\ free' = free - 1 /\ Step(c, "try")
    <3>1. c \notin InSlots /\ InSlots' = InSlots \cup {c}
      BY <1>2, <2>1 DEF acquireMountSlot, Step, Goto, InSlots, SlotSteps, TypeCall
    <3> QED
      BY <2>1, <3>1, SlotTaken DEF SlotInv
  <2>2. CASE Fail(c) /\ UNCHANGED free
    <3>1. InSlots' = InSlots
      BY <1>2, <2>2 DEF acquireMountSlot, Fail, End, Goto, InSlots, SlotSteps, TypeCall
    <3> QED
      BY <2>2, <3>1, SlotKept DEF SlotInv
  <2> QED
    BY <1>2, <2>1, <2>2 DEF acquireMountSlot
<1>3. ASSUME NEW c \in Calls, MountToDataPortal(c) PROVE SlotInv'
  <2>1. CASE StageFails(c)
    <3>1. c \in InSlots /\ InSlots' = InSlots \ {c} /\ free' = free + 1
      BY <1>3, <2>1 DEF MountToDataPortal, StageFails, Fail, End, Goto, InSlots,
         SlotSteps, TypeCall
    <3> QED
      BY <3>1, SlotGiven DEF SlotInv
  <2>2. CASE (NextPortal(c) \/ Step(c, "check")) /\ UNCHANGED free
    <3>1. InSlots' = InSlots
      BY <1>3, <2>2 DEF MountToDataPortal, NextPortal, Step, Goto, InSlots, SlotSteps,
         TypeCall
    <3> QED
      BY <2>2, <3>1, SlotKept DEF SlotInv
  <2> QED
    BY <1>3, <2>1, <2>2 DEF MountToDataPortal
<1>4. ASSUME NEW c \in Calls, MountShareCheck(c) PROVE SlotInv'
  <2>1. InSlots' = InSlots /\ free' = free
    BY <1>4 DEF MountShareCheck, Step, NextPortal, Goto, InSlots, SlotSteps, TypeCall
  <2> QED
    BY <2>1, SlotKept DEF SlotInv
<1>5. ASSUME NEW c \in Calls, beginMount(c) PROVE SlotInv'
  <2>1. InSlots' = InSlots /\ free' = free
    BY <1>5 DEF beginMount, Step, Goto, InSlots, SlotSteps, TypeCall
  <2> QED
    BY <2>1, SlotKept DEF SlotInv
<1>6. ASSUME NEW c \in Calls, MountTimesOut(c) PROVE SlotInv'
  <2>1. InSlots' = InSlots /\ free' = free
    BY <1>6 DEF MountTimesOut, NextPortal, Goto, InSlots, SlotSteps, TypeCall
  <2> QED
    BY <2>1, SlotKept DEF SlotInv
<1>7. ASSUME NEW c \in Calls, Staged(c) PROVE SlotInv'
  <2>1. c \in InSlots /\ InSlots' = InSlots \ {c} /\ free' = free + 1
    BY <1>7 DEF Staged, Succeed, Step, End, Goto, InSlots, SlotSteps, TypeCall
  <2> QED
    BY <2>1, SlotGiven DEF SlotInv
<1>8. ASSUME NEW c \in Calls, acquireVolumeLock(c) PROVE SlotInv'
  <2>1. InSlots' = InSlots /\ free' = free
    BY <1>8 DEF acquireVolumeLock, Goto, Fail, End, InSlots, SlotSteps, TypeCall
  <2> QED
    BY <2>1, SlotKept DEF SlotInv
<1>9. ASSUME NEW c \in Calls, PublishTarget(c) PROVE SlotInv'
  <2>1. InSlots' = InSlots /\ free' = free
    BY <1>9 DEF PublishTarget, Succeed, Step, Fail, PodRest, End, Goto, InSlots,
       SlotSteps, TypeCall
  <2> QED
    BY <2>1, SlotKept DEF SlotInv
<1>10. ASSUME NEW c \in Calls, PublishStaging(c) PROVE SlotInv'
  <2>1. InSlots' = InSlots /\ free' = free
    BY <1>10 DEF PublishStaging, Step, Fail, PodRest, Goto, End, InSlots, SlotSteps,
       TypeCall
  <2> QED
    BY <2>1, SlotKept DEF SlotInv
<1>11. ASSUME NEW c \in Calls, PublishRecheck(c) PROVE SlotInv'
  <2>1. InSlots' = InSlots /\ free' = free
    BY <1>11 DEF PublishRecheck, Step, Fail, PodRest, Goto, End, InSlots, SlotSteps,
       TypeCall
  <2> QED
    BY <2>1, SlotKept DEF SlotInv
<1>12. ASSUME NEW c \in Calls, PublishBind(c) PROVE SlotInv'
  <2>1. InSlots' = InSlots /\ free' = free
    BY <1>12 DEF PublishBind, Succeed, Fail, PodRest, End, Goto, InSlots, SlotSteps,
       TypeCall
  <2> QED
    BY <2>1, SlotKept DEF SlotInv
<1>13. ASSUME NEW c \in Calls, Unpublish(c) PROVE SlotInv'
  <2>1. InSlots' = InSlots /\ free' = free
    BY <1>13 DEF Unpublish, Succeed, Fail, PodRest, End, Goto, InSlots, SlotSteps,
       TypeCall
  <2> QED
    BY <2>1, SlotKept DEF SlotInv
<1>14. ASSUME NEW c \in Calls, UnstageCheck(c) PROVE SlotInv'
  <2>1. InSlots' = InSlots /\ free' = free
    BY <1>14 DEF UnstageCheck, Step, Fail, UnstageRest, Goto, End, InSlots,
       SlotSteps, TypeCall
  <2> QED
    BY <2>1, SlotKept DEF SlotInv
<1>15. ASSUME NEW c \in Calls, UnstageUmount(c) PROVE SlotInv'
  <2>1. InSlots' = InSlots /\ free' = free
    BY <1>15 DEF UnstageUmount, Step, Fail, UnstageRest, Goto, End, InSlots,
       SlotSteps, TypeCall
  <2> QED
    BY <2>1, SlotKept DEF SlotInv
<1>16. ASSUME NEW c \in Calls, UnstageRmdir(c) PROVE SlotInv'
  <2>1. InSlots' = InSlots /\ free' = free
    BY <1>16 DEF UnstageRmdir, Step, Fail, UnstageRest, Goto, End, InSlots, SlotSteps,
       TypeCall
  <2> QED
    BY <2>1, SlotKept DEF SlotInv
<1>17. ASSUME NEW c \in Calls, LegacyMarker(c) PROVE SlotInv'
  <2>1. InSlots' = InSlots /\ free' = free
    BY <1>17 DEF LegacyMarker, Step, Succeed, LegacyRest, Goto, End, UnstageRest,
       InSlots, SlotSteps, TypeCall
  <2> QED
    BY <2>1, SlotKept DEF SlotInv
<1>18. ASSUME NEW c \in Calls, acquireRootMountLock(c) PROVE SlotInv'
  <2>1. InSlots' = InSlots /\ free' = free
    BY <1>18 DEF acquireRootMountLock, Goto, Fail, LegacyRest, End, UnstageRest,
       InSlots, SlotSteps, TypeCall
  <2> QED
    BY <2>1, SlotKept DEF SlotInv
<1>19. ASSUME NEW c \in Calls, LegacyRelease(c) PROVE SlotInv'
  <2>1. InSlots' = InSlots /\ free' = free
    BY <1>19 DEF LegacyRelease, Step, Fail, LegacyRest, Goto, End, UnstageRest, InSlots,
       SlotSteps, TypeCall
  <2> QED
    BY <2>1, SlotKept DEF SlotInv
<1>20. ASSUME NEW c \in Calls, LegacyUnmount(c) PROVE SlotInv'
  <2>1. InSlots' = InSlots /\ free' = free
    BY <1>20 DEF LegacyUnmount, Succeed, Fail, LegacyRest, End, UnstageRest,
       Goto, InSlots, SlotSteps, TypeCall
  <2> QED
    BY <2>1, SlotKept DEF SlotInv
<1>21. ASSUME NEW c \in Calls, Deadline(c) PROVE SlotInv'
  <2>1. InSlots' = InSlots /\ free' = free
    BY <1>21 DEF Deadline, lockVars, InSlots, SlotSteps, TypeCall
  <2> QED
    BY <2>1, SlotKept DEF SlotInv
<1>22. ASSUME NEW c \in Calls, NEW v \in Volumes, NodeStageVolume(c, v) PROVE SlotInv'
  <2>1. InSlots' = InSlots /\ free' = free
    BY <1>22 DEF NodeStageVolume, Call, Goto, lockVars, InSlots, SlotSteps, TypeCall
  <2> QED
    BY <2>1, SlotKept DEF SlotInv
<1>23. ASSUME NEW c \in Calls, NEW v \in Volumes, NodeUnstageVolume(c, v) PROVE SlotInv'
  <2>1. InSlots' = InSlots /\ free' = free
    BY <1>23 DEF NodeUnstageVolume, Call, Goto, lockVars, InSlots, SlotSteps, TypeCall
  <2> QED
    BY <2>1, SlotKept DEF SlotInv
<1>24. ASSUME NEW c \in Calls, NEW v \in Volumes, NEW p \in Pods, NodePublishVolume(c, v, p) PROVE SlotInv'
  <2>1. InSlots' = InSlots /\ free' = free
    BY <1>24 DEF NodePublishVolume, Call, Goto, lockVars, InSlots, SlotSteps, TypeCall
  <2> QED
    BY <2>1, SlotKept DEF SlotInv
<1>25. ASSUME NEW c \in Calls, NEW v \in Volumes, NEW p \in Pods, NodeUnpublishVolume(c, v, p) PROVE SlotInv'
  <2>1. InSlots' = InSlots /\ free' = free
    BY <1>25 DEF NodeUnpublishVolume, Call, Goto, lockVars, InSlots, SlotSteps, TypeCall
  <2> QED
    BY <2>1, SlotKept DEF SlotInv
<1>26. ASSUME NEW v \in Volumes, Stale(v) PROVE SlotInv'
  <2>1. InSlots' = InSlots /\ free' = free
    BY <1>26 DEF Stale, lockVars, callVars, InSlots, TypeCall
  <2> QED
    BY <2>1, SlotKept DEF SlotInv
<1>27. ASSUME NEW v \in Volumes, MountDone(v) PROVE SlotInv'
  <2>1. InSlots' = InSlots /\ free' = free
    BY <1>27 DEF MountDone, Wake, Waiters, lockVars, InSlots, SlotSteps, TypeCall
  <2> QED
    BY <2>1, SlotKept DEF SlotInv
<1>28. ASSUME NEW v \in Volumes, MountFails(v) PROVE SlotInv'
  <2>1. InSlots' = InSlots /\ free' = free
    BY <1>28 DEF MountFails, Wake, Waiters, lockVars, InSlots, SlotSteps, TypeCall
  <2> QED
    BY <2>1, SlotKept DEF SlotInv
<1>29. CASE UNCHANGED driverVars
  BY <1>29 DEF SlotInv, driverVars, SlotsAccounted, callVars, lockVars
<1> QED
  BY <1>1, <1>2, <1>3, <1>4, <1>5, <1>6, <1>7, <1>8, <1>9, <1>10, <1>11, <1>12,
     <1>13, <1>14, <1>15, <1>16, <1>17, <1>18, <1>19, <1>20, <1>21, <1>22, <1>23,
     <1>24, <1>25, <1>26, <1>27, <1>28, <1>29 DEF DriverNext, HandlerStep, Kubelet

\* The root export goes with the last marker.
LEMMA RootStep ==
    ASSUME TypeCall, TypeSets, RootWhileMarked, [DriverNext]_driverVars
    PROVE  RootWhileMarked'
<1>1. CASE Restart
  BY <1>1 DEF Restart, RootWhileMarked, TypeCall
<1>2. ASSUME NEW c \in Calls, acquireMountSlot(c) PROVE RootWhileMarked'
  BY <1>2 DEF acquireMountSlot, RootWhileMarked, TypeCall, Step, Fail, StageRest, Goto,
     End, HandlerRest
<1>3. ASSUME NEW c \in Calls, MountToDataPortal(c) PROVE RootWhileMarked'
  BY <1>3 DEF MountToDataPortal, RootWhileMarked, TypeCall, StageFails, NextPortal,
     Step, StageRest, Fail, Goto, HandlerRest, End
<1>4. ASSUME NEW c \in Calls, MountShareCheck(c) PROVE RootWhileMarked'
  BY <1>4 DEF MountShareCheck, RootWhileMarked, TypeCall, Step, NextPortal,
     StageRest, Goto, HandlerRest
<1>5. ASSUME NEW c \in Calls, beginMount(c) PROVE RootWhileMarked'
  BY <1>5 DEF beginMount, RootWhileMarked, TypeCall, Step, StageRest, Goto, HandlerRest
<1>6. ASSUME NEW c \in Calls, MountTimesOut(c) PROVE RootWhileMarked'
  BY <1>6 DEF MountTimesOut, RootWhileMarked, TypeCall, NextPortal, StageRest, Goto,
     HandlerRest
<1>7. ASSUME NEW c \in Calls, Staged(c) PROVE RootWhileMarked'
  BY <1>7 DEF Staged, RootWhileMarked, TypeCall, Succeed, Step, StageRest, End, Goto,
     HandlerRest
<1>8. ASSUME NEW c \in Calls, acquireVolumeLock(c) PROVE RootWhileMarked'
  BY <1>8 DEF acquireVolumeLock, RootWhileMarked, TypeCall, Goto, Fail, StageRest, End,
     HandlerRest
<1>9. ASSUME NEW c \in Calls, PublishTarget(c) PROVE RootWhileMarked'
  BY <1>9 DEF PublishTarget, RootWhileMarked, TypeCall, Succeed, Step, Fail, PodRest,
     End, Goto, HandlerRest
<1>10. ASSUME NEW c \in Calls, PublishStaging(c) PROVE RootWhileMarked'
  BY <1>10 DEF PublishStaging, RootWhileMarked, TypeCall, Step, Fail, PodRest, Goto,
     End, HandlerRest
<1>11. ASSUME NEW c \in Calls, PublishRecheck(c) PROVE RootWhileMarked'
  BY <1>11 DEF PublishRecheck, RootWhileMarked, TypeCall, Step, Fail, PodRest, Goto,
     End, HandlerRest
<1>12. ASSUME NEW c \in Calls, PublishBind(c) PROVE RootWhileMarked'
  BY <1>12 DEF PublishBind, RootWhileMarked, TypeCall, Succeed, Fail, PodRest, End,
     HandlerRest, Goto
<1>13. ASSUME NEW c \in Calls, Unpublish(c) PROVE RootWhileMarked'
  BY <1>13 DEF Unpublish, RootWhileMarked, TypeCall, Succeed, Fail, PodRest, End,
     HandlerRest, Goto
<1>14. ASSUME NEW c \in Calls, UnstageCheck(c) PROVE RootWhileMarked'
  BY <1>14 DEF UnstageCheck, RootWhileMarked, TypeCall, Step, Fail, Goto, End
<1>15. ASSUME NEW c \in Calls, UnstageUmount(c) PROVE RootWhileMarked'
  BY <1>15 DEF UnstageUmount, RootWhileMarked, TypeCall, Step, Fail, UnstageRest,
     Goto, End
<1>16. ASSUME NEW c \in Calls, UnstageRmdir(c) PROVE RootWhileMarked'
  BY <1>16 DEF UnstageRmdir, RootWhileMarked, TypeCall, Step, Fail, Goto, End
<1>17. ASSUME NEW c \in Calls, LegacyMarker(c) PROVE RootWhileMarked'
  BY <1>17 DEF LegacyMarker, RootWhileMarked, TypeCall, Succeed, Goto, End
<1>18. ASSUME NEW c \in Calls, acquireRootMountLock(c) PROVE RootWhileMarked'
  BY <1>18 DEF acquireRootMountLock, RootWhileMarked, TypeCall, Goto, Fail, End
<1>19. ASSUME NEW c \in Calls, LegacyRelease(c) PROVE RootWhileMarked'
  BY <1>19 DEF LegacyRelease, RootWhileMarked, TypeCall, Step, Fail, Goto, End
<1>20. ASSUME NEW c \in Calls, LegacyUnmount(c) PROVE RootWhileMarked'
  BY <1>20 DEF LegacyUnmount, RootWhileMarked, TypeCall, LegacyRest, UnstageRest
<1>21. ASSUME NEW c \in Calls, Deadline(c) PROVE RootWhileMarked'
  BY <1>21 DEF Deadline, RootWhileMarked, TypeCall, legacyVars
<1>22. ASSUME NEW c \in Calls, NEW v \in Volumes, NodeStageVolume(c, v) PROVE RootWhileMarked'
  BY <1>22 DEF NodeStageVolume, RootWhileMarked, TypeCall, Call, Goto, legacyVars
<1>23. ASSUME NEW c \in Calls, NEW v \in Volumes, NodeUnstageVolume(c, v) PROVE RootWhileMarked'
  BY <1>23 DEF NodeUnstageVolume, RootWhileMarked, TypeCall, Call, Goto, legacyVars
<1>24. ASSUME NEW c \in Calls, NEW v \in Volumes, NEW p \in Pods, NodePublishVolume(c, v, p) PROVE RootWhileMarked'
  BY <1>24 DEF NodePublishVolume, RootWhileMarked, TypeCall, Call, Goto, legacyVars
<1>25. ASSUME NEW c \in Calls, NEW v \in Volumes, NEW p \in Pods, NodeUnpublishVolume(c, v, p) PROVE RootWhileMarked'
  BY <1>25 DEF NodeUnpublishVolume, RootWhileMarked, TypeCall, Call, Goto, legacyVars
<1>26. ASSUME NEW v \in Volumes, Stale(v) PROVE RootWhileMarked'
  BY <1>26 DEF Stale, RootWhileMarked, TypeCall, callVars, legacyVars
<1>27. ASSUME NEW v \in Volumes, MountDone(v) PROVE RootWhileMarked'
  BY <1>27 DEF MountDone, RootWhileMarked, TypeCall, Wake, Waiters, legacyVars
<1>28. ASSUME NEW v \in Volumes, MountFails(v) PROVE RootWhileMarked'
  BY <1>28 DEF MountFails, RootWhileMarked, TypeCall, Wake, Waiters, legacyVars
<1>29. CASE UNCHANGED driverVars
  BY <1>29 DEF RootWhileMarked, TypeCall, driverVars, callVars, legacyVars
<1> QED
  BY <1>1, <1>2, <1>3, <1>4, <1>5, <1>6, <1>7, <1>8, <1>9, <1>10, <1>11, <1>12,
     <1>13, <1>14, <1>15, <1>16, <1>17, <1>18, <1>19, <1>20, <1>21, <1>22, <1>23,
     <1>24, <1>25, <1>26, <1>27, <1>28, <1>29 DEF DriverNext, HandlerStep, Kubelet

-----------------------------------------------------------------------------

\* The invariant holds at first.
LEMMA InitIInv == Init => IInv
<1> SUFFICES ASSUME Init PROVE IInv
  OBVIOUS
<1>1. TypeFlags
  <2>1. live \in [Calls -> BOOLEAN] /\ stale \in [Volumes -> BOOLEAN]
    BY DEF Init
  <2>3. dir \in [Volumes -> BOOLEAN]
    <3>1. \A v \in Volumes : (v \in markers) \in BOOLEAN
      BY SMT
    <3> QED
      BY <3>1 DEF Init
  <2>2. root \in BOOLEAN /\ blind \in BOOLEAN
    BY DEF Init
  <2> QED
    BY <2>1, <2>2, <2>3 DEF TypeFlags
<1>2. /\ TypeNums /\ TypeCall /\ TypeKubelet /\ TypeLocks /\ TypeTarget /\ TypeSets
      /\ free \in 0 .. Slots /\ hung \subseteq Calls
  BY SMT, BoundAssumption DEF Init, TypeNums, TypeCall, TypeKubelet, TypeLocks, TypeTarget,
     TypeSets, Steps
<1>3. CallInv /\ TriesInv /\ LockInv /\ KubeletInv /\ WorkInv /\ BindInv
  BY DEF Init, CallInv, TriesInv, LockInv, Locked, KubeletInv, NotedInv, SingleInv,
     UseInv, WorkInv, BindInv
<1>4. TargetInv /\ DoneInv
  BY NoneAssumption DEF Init, TargetInv, DoneInv, DoneSteps
<1>5. SlotsAccounted
  <2>1. InSlots = {}
    BY DEF Init, InSlots, SlotSteps
  <2>2. Cardinality(InSlots) = 0 /\ free = Slots
    BY <2>1, FS_EmptySet DEF Init
  <2>3. SlotsAccounted <=> free + Cardinality(InSlots) = Slots
    BY DEF SlotsAccounted, InSlots
  <2> QED
    BY SMT, BoundAssumption, <2>2, <2>3
<1>6. RootWhileMarked
  BY DEF Init, RootWhileMarked
<1> QED
  BY <1>1, <1>2, <1>3, <1>4, <1>5, <1>6, TypeParts DEF IInv

\* Every step preserves it.
LEMMA NextIInv == IInv /\ [Next]_vars => IInv'
<1> SUFFICES ASSUME IInv, [Next]_vars PROVE IInv'
  OBVIOUS
<1>0. [DriverNext]_driverVars /\ hung' \subseteq Calls
  BY DriverStep, HungStep, TypeParts DEF IInv
<1>1. /\ TypeFlags /\ TypeNums /\ TypeCall /\ TypeKubelet /\ TypeLocks /\ TypeTarget /\ TypeSets
      /\ SlotInv /\ CallInv /\ TriesInv /\ LockInv /\ KubeletInv /\ WorkInv /\ BindInv /\ TargetInv
      /\ DoneInv /\ RootWhileMarked
  BY TypeParts DEF IInv, SlotInv
<1>2. TypeFlags' /\ TypeNums' /\ TypeCall' /\ TypeKubelet' /\ TypeLocks' /\ TypeTarget' /\ TypeSets'
  BY <1>0, <1>1, FlagStep, NumStep, CallTypeStep, KubeletTypeStep, LocksTypeStep,
     TargetTypeStep, SetsTypeStep
<1>3. SlotInv'
  BY <1>0, <1>1, SlotStep
<1>4. TypeOK'
  BY <1>0, <1>2, <1>3 DEF TypeOK, TypeFlags, TypeNums, TypeCall, TypeKubelet, TypeLocks,
     TypeTarget, TypeSets, SlotInv
<1>5. CallInv' /\ TriesInv' /\ LockInv'
  BY <1>0, <1>1, CallStep, TriesStep, LockStep
<1>6. KubeletInv' /\ WorkInv'
  BY <1>0, <1>1, UseStep, SingleStep, NotedStep, WorkStep DEF KubeletInv
<1>7. BindInv' /\ TargetInv' /\ DoneInv' /\ RootWhileMarked'
  BY <1>0, <1>1, BindStep, TargetStep, DoneStep, RootStep
<1> QED
  BY <1>3, <1>4, <1>5, <1>6, <1>7 DEF IInv, SlotInv

\* On every node, whatever the number of handlers, volumes, pods, slots, portals and
\* faults: at most one mount of a staging path is under way and no mount slot is lost, a
\* published target holds the share, what kubelet was told is released is unmounted, and
\* the root export of an older driver lasts as long as its markers, each with the
\* exceptions its definition names (stageNFSVolume, publishShareBackedVolume,
\* NodeUnpublishVolume, NodeUnstageVolume, releaseLegacyRootExport).
THEOREM Invariance ==
    Spec => [](TypeOK /\ SlotsAccounted /\ PublishedIsBacked /\ ReleasedIsUnmounted /\ RootWhileMarked)
<1>1. IInv => TypeOK /\ SlotsAccounted /\ PublishedIsBacked /\ ReleasedIsUnmounted /\ RootWhileMarked
  <2> SUFFICES ASSUME IInv PROVE PublishedIsBacked /\ ReleasedIsUnmounted
    BY DEF IInv
  <2>1. TypeTarget /\ TargetInv /\ DoneInv
    BY TypeParts DEF IInv
  <2>2. PublishedIsBacked
    BY <2>1 DEF TypeTarget, TargetInv, PublishedIsBacked
  <2>3. ReleasedIsUnmounted
    BY <2>1 DEF TargetInv, DoneInv, ReleasedIsUnmounted
  <2> QED
    BY <2>2, <2>3
<1> QED
  BY <1>1, InitIInv, NextIInv, PTL DEF Spec

\* Every variable keeps its type: among other things beginMount lets one mount of a
\* staging path run at a time.
THEOREM TypeCorrect == Spec => []TypeOK
BY Invariance, PTL

\* No mount slot is lost or given back twice, however portals, mounts and calls fail
\* (acquireMountSlot, mountShareSubPathAtBestDataportal).
THEOREM SlotsAccountedHolds == Spec => []SlotsAccounted
BY Invariance, PTL

\* A published target has the share, for any number of handlers, volumes and pods, unless
\* an unstage that kubelet had given up on came between (publishShareBackedVolume).
THEOREM PublishedIsBackedHolds == Spec => []PublishedIsBacked
BY Invariance, PTL

\* What kubelet was told is unstaged or unpublished is unmounted, with the two exceptions
\* of the definition (NodeUnstageVolume, NodeUnpublishVolume).
THEOREM ReleasedIsUnmountedHolds == Spec => []ReleasedIsUnmounted
BY Invariance, PTL

\* The root export of an older driver is mounted exactly while a marker needs it, with the
\* exceptions of the definition (releaseLegacyRootExport).
THEOREM RootWhileMarkedHolds == Spec => []RootWhileMarked
BY Invariance, PTL

=============================================================================
