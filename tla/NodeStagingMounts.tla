------------------------- MODULE NodeStagingMounts --------------------------
(***************************************************************************)
(* Proofs about NodeStaging: the volume lock, what kubelet has noted, and  *)
(* what is mounted and bound.  The volume lock keeps a pod's publishes and *)
(* unpublishes apart, abandoned or not, and kubelet keeps its own calls    *)
(* apart; together they leave the abandoned stage and unstage as the only  *)
(* ones to interfere with the others.                                      *)
(***************************************************************************)
EXTENDS NodeStagingCalls, TLAPS

\* Most leaves are first-order: Zenon takes them, and a leaf that needs more says SMT.
USE Zenon

\* A call that ends releases the lock it has, and no other.
LEMMA LockEnds ==
    ASSUME TypeCall, TypeLocks, CallInv, LockInv, NEW c \in Calls, Fail(c) \/ Succeed(c)
    PROVE  LockInv'
<1>1. pc'[c] = "idle" /\ \A d \in Calls \ {c} :
          pc'[d] = pc[d] /\ kind'[d] = kind[d] /\ vol'[d] = vol[d]
  BY DEF Fail, Succeed, End, Goto, TypeCall
<1>2. \A v \in Volumes : lock[v] # c => lock'[v] = lock[v]
  BY DEF Fail, Succeed, End, ReleaseLock
<1>3. \A d \in Calls : Locked(d) => vol[d] \in Volumes
  BY DEF Locked, CallInv
<1> QED
  BY SMT, <1>1, <1>2, <1>3 DEF LockInv, Locked

\* A publish or unpublish keeps the lock it has.
LEMMA LockStep ==
    ASSUME TypeCall, TypeLocks, CallInv, LockInv, [DriverNext]_driverVars
    PROVE  LockInv'
<1>1. CASE Restart
  BY <1>1 DEF Restart, LockInv, TypeCall, TypeLocks, Locked
<1>2. ASSUME NEW c \in Calls, acquireMountSlot(c) PROVE LockInv'
  BY SMT, <1>2 DEF acquireMountSlot, LockInv, CallInv, TypeCall, TypeLocks, Step, Fail,
     Locked, Goto, End, ReleaseLock
<1>3. ASSUME NEW c \in Calls, MountToDataPortal(c) PROVE LockInv'
  BY SMT, <1>3 DEF MountToDataPortal, LockInv, CallInv, TypeCall, TypeLocks, StageFails,
     NextPortal, Step, Locked, Fail, Goto, End, ReleaseLock
<1>4. ASSUME NEW c \in Calls, MountShareCheck(c) PROVE LockInv'
  BY <1>4 DEF MountShareCheck, LockInv, TypeCall, TypeLocks, Step, NextPortal, Locked,
     Goto
<1>5. ASSUME NEW c \in Calls, beginMount(c) PROVE LockInv'
  BY <1>5 DEF beginMount, LockInv, TypeCall, TypeLocks, Step, Locked, Goto
<1>6. ASSUME NEW c \in Calls, MountTimesOut(c) PROVE LockInv'
  BY <1>6 DEF MountTimesOut, LockInv, TypeCall, TypeLocks, NextPortal, Locked, Goto
<1>7. ASSUME NEW c \in Calls, Staged(c) PROVE LockInv'
  BY SMT, <1>7 DEF Staged, LockInv, CallInv, TypeCall, TypeLocks, Succeed, Step, Locked, End,
     Goto, ReleaseLock
<1>8. ASSUME NEW c \in Calls, acquireVolumeLock(c) PROVE LockInv'
  BY SMT, <1>8, NoneAssumption DEF acquireVolumeLock, LockInv, CallInv, TypeCall, TypeLocks,
     Goto, Fail, Locked, End, ReleaseLock
<1>9. ASSUME NEW c \in Calls, PublishTarget(c) PROVE LockInv'
  BY SMT, <1>9 DEF PublishTarget, LockInv, CallInv, TypeCall, TypeLocks, Succeed, Step, Fail,
     Locked, End, Goto, ReleaseLock
<1>10. ASSUME NEW c \in Calls, PublishStaging(c) PROVE LockInv'
  BY SMT, <1>10 DEF PublishStaging, LockInv, CallInv, TypeCall, TypeLocks, Step, Fail,
     Locked, Kinds, Goto, End, ReleaseLock
<1>11. ASSUME NEW c \in Calls, PublishRecheck(c) PROVE LockInv'
  BY SMT, <1>11 DEF PublishRecheck, LockInv, CallInv, TypeCall, TypeLocks, Step, Fail,
     Locked, Goto, End, ReleaseLock
<1>12. ASSUME NEW c \in Calls, PublishBind(c) PROVE LockInv'
  <2>1. Fail(c) \/ Succeed(c)
    BY <1>12 DEF PublishBind
  <2> QED
    BY <2>1, LockEnds
<1>13. ASSUME NEW c \in Calls, Unpublish(c) PROVE LockInv'
  <2>1. Fail(c) \/ Succeed(c)
    BY <1>13 DEF Unpublish
  <2> QED
    BY <2>1, LockEnds
<1>14. ASSUME NEW c \in Calls, UnstageCheck(c) PROVE LockInv'
  <2>1. pc[c] = "unstage" /\ (Step(c, "umount") \/ Step(c, "marker") \/ Fail(c))
    BY <1>14 DEF UnstageCheck
  <2>2. CASE Step(c, "umount") \/ Step(c, "marker")
    BY <2>1, <2>2 DEF Step, Goto, LockInv, Locked, TypeCall
  <2> QED
    BY <2>1, <2>2, LockEnds
<1>15. ASSUME NEW c \in Calls, UnstageUmount(c) PROVE LockInv'
  <2>1. pc[c] = "umount" /\ (Step(c, "rmdir") \/ Step(c, "marker") \/ Fail(c))
    BY <1>15 DEF UnstageUmount
  <2>2. CASE Step(c, "rmdir") \/ Step(c, "marker")
    BY <2>1, <2>2 DEF Step, Goto, LockInv, Locked, TypeCall
  <2> QED
    BY <2>1, <2>2, LockEnds
<1>16. ASSUME NEW c \in Calls, UnstageRmdir(c) PROVE LockInv'
  BY SMT, <1>16 DEF UnstageRmdir, LockInv, CallInv, TypeCall, TypeLocks, Step, Fail, Locked,
     Goto, End, ReleaseLock
<1>17. ASSUME NEW c \in Calls, LegacyMarker(c) PROVE LockInv'
  BY SMT, <1>17 DEF LegacyMarker, LockInv, CallInv, TypeCall, TypeLocks, Step, Succeed,
     Locked, Goto, End, ReleaseLock
<1>18. ASSUME NEW c \in Calls, acquireRootMountLock(c) PROVE LockInv'
  BY SMT, <1>18 DEF acquireRootMountLock, LockInv, CallInv, TypeCall, TypeLocks, Goto, Fail,
     Locked, End, ReleaseLock
<1>19. ASSUME NEW c \in Calls, LegacyRelease(c) PROVE LockInv'
  BY SMT, <1>19 DEF LegacyRelease, LockInv, CallInv, TypeCall, TypeLocks, Step, Fail, Locked,
     Goto, End, ReleaseLock
<1>20. ASSUME NEW c \in Calls, LegacyUnmount(c) PROVE LockInv'
  <2>1. Fail(c) \/ Succeed(c)
    BY <1>20 DEF LegacyUnmount
  <2> QED
    BY <2>1, LockEnds
<1>21. ASSUME NEW c \in Calls, Deadline(c) PROVE LockInv'
  BY <1>21 DEF Deadline, LockInv, TypeCall, TypeLocks, lockVars, Locked
<1>22. ASSUME NEW c \in Calls, NEW v \in Volumes, NodeStageVolume(c, v) PROVE LockInv'
  BY <1>22 DEF NodeStageVolume, LockInv, TypeCall, TypeLocks, Call, Locked, Goto,
     lockVars
<1>23. ASSUME NEW c \in Calls, NEW v \in Volumes, NodeUnstageVolume(c, v) PROVE LockInv'
  BY <1>23 DEF NodeUnstageVolume, LockInv, TypeCall, TypeLocks, Call, Locked, Goto,
     lockVars
<1>24. ASSUME NEW c \in Calls, NEW v \in Volumes, NEW p \in Pods, NodePublishVolume(c, v, p) PROVE LockInv'
  BY <1>24 DEF NodePublishVolume, LockInv, TypeCall, TypeLocks, Call, Locked, Goto,
     lockVars
<1>25. ASSUME NEW c \in Calls, NEW v \in Volumes, NEW p \in Pods, NodeUnpublishVolume(c, v, p) PROVE LockInv'
  BY <1>25 DEF NodeUnpublishVolume, LockInv, TypeCall, TypeLocks, Call, Locked, Goto,
     lockVars
<1>26. ASSUME NEW v \in Volumes, Stale(v) PROVE LockInv'
  BY <1>26 DEF Stale, LockInv, TypeCall, TypeLocks, callVars, lockVars, Locked
<1>27. ASSUME NEW v \in Volumes, MountDone(v) PROVE LockInv'
  BY <1>27 DEF MountDone, LockInv, TypeCall, TypeLocks, Wake, Waiters, lockVars, Locked
<1>28. ASSUME NEW v \in Volumes, MountFails(v) PROVE LockInv'
  BY <1>28 DEF MountFails, LockInv, TypeCall, TypeLocks, Wake, Waiters, lockVars, Locked
<1>29. CASE UNCHANGED driverVars
  BY <1>29 DEF LockInv, TypeCall, TypeLocks, driverVars, Locked, callVars, lockVars
<1> QED
  BY <1>1, <1>2, <1>3, <1>4, <1>5, <1>6, <1>7, <1>8, <1>9, <1>10, <1>11, <1>12,
     <1>13, <1>14, <1>15, <1>16, <1>17, <1>18, <1>19, <1>20, <1>21, <1>22, <1>23,
     <1>24, <1>25, <1>26, <1>27, <1>28, <1>29 DEF DriverNext, HandlerStep, Kubelet

\* Pods use what is staged.
LEMMA UseStep ==
    ASSUME TypeCall, TypeKubelet, CallInv, KubeletInv, [DriverNext]_driverVars
    PROVE  UseInv'
<1>1. ASSUME NEW c \in Calls, HandlerStep(c) PROVE UseInv'
  <2>1. Moves(c)
    BY <1>1, HandlerMoves
  <2>2. CASE Progress(c)
    BY <2>2 DEF Progress, Same, UseInv, TypeCall, TypeKubelet, KubeletInv
  <2>3. CASE Granted(c)
    BY <2>3 DEF Granted, Same, UseInv, TypeCall, TypeKubelet, KubeletInv
  <2>4. CASE Fails(c)
    BY <2>4 DEF Fails, Fail, kubeletVars, UseInv, TypeCall, TypeKubelet, KubeletInv
  <2>5. CASE Succeeds(c)
    BY SMT, <2>5, NoneAssumption DEF Succeeds, Succeed, Answer, UseInv, TypeCall,
       TypeKubelet, KubeletInv, NotedInv, CallInv, Kinds
  <2> QED
    BY <2>1, <2>2, <2>3, <2>4, <2>5 DEF Moves
<1>2. CASE Restart
  BY <1>2 DEF Restart, UseInv, TypeCall, TypeKubelet, KubeletInv, kubeletVars
<1>3. ASSUME NEW c \in Calls, Deadline(c) PROVE UseInv'
  BY <1>3 DEF Deadline, UseInv, TypeCall, TypeKubelet, KubeletInv, kubeletVars
<1>4. ASSUME NEW c \in Calls, NEW v \in Volumes, NodeStageVolume(c, v) PROVE UseInv'
  BY <1>4 DEF NodeStageVolume, UseInv, TypeCall, TypeKubelet, KubeletInv
<1>5. ASSUME NEW c \in Calls, NEW v \in Volumes, NodeUnstageVolume(c, v) PROVE UseInv'
  BY <1>5 DEF NodeUnstageVolume, UseInv, TypeCall, TypeKubelet, KubeletInv
<1>6. ASSUME NEW c \in Calls, NEW v \in Volumes, NEW p \in Pods, NodePublishVolume(c, v, p) PROVE UseInv'
  BY <1>6 DEF NodePublishVolume, UseInv, TypeCall, TypeKubelet, KubeletInv
<1>7. ASSUME NEW c \in Calls, NEW v \in Volumes, NEW p \in Pods, NodeUnpublishVolume(c, v, p) PROVE UseInv'
  BY <1>7 DEF NodeUnpublishVolume, UseInv, TypeCall, TypeKubelet, KubeletInv
<1>8. ASSUME NEW v \in Volumes, Stale(v) PROVE UseInv'
  BY <1>8 DEF Stale, UseInv, TypeCall, TypeKubelet, KubeletInv, kubeletVars
<1>9. ASSUME NEW v \in Volumes, MountDone(v) PROVE UseInv'
  BY <1>9 DEF MountDone, UseInv, TypeCall, TypeKubelet, KubeletInv, kubeletVars
<1>10. ASSUME NEW v \in Volumes, MountFails(v) PROVE UseInv'
  BY <1>10 DEF MountFails, UseInv, TypeCall, TypeKubelet, KubeletInv, kubeletVars
<1>11. CASE UNCHANGED driverVars
  BY <1>11 DEF UseInv, TypeCall, TypeKubelet, KubeletInv, driverVars, kubeletVars
<1> QED
  BY <1>1, <1>2, <1>3, <1>4, <1>5, <1>6, <1>7, <1>8, <1>9, <1>10, <1>11 DEF DriverNext, Kubelet

\* Kubelet waits for one call at a time,
LEMMA SingleStep ==
    ASSUME TypeCall, TypeKubelet, CallInv, KubeletInv, [DriverNext]_driverVars
    PROVE  SingleInv'
<1>1. ASSUME NEW c \in Calls, HandlerStep(c) PROVE SingleInv'
  <2>1. Moves(c)
    BY <1>1, HandlerMoves
  <2>2. CASE Progress(c)
    BY SMT, <2>2 DEF Progress, Same, SingleInv, KubeletInv, TypeCall
  <2>3. CASE Granted(c)
    BY SMT, <2>3 DEF Granted, Same, SingleInv, KubeletInv, TypeCall
  <2>4. CASE Fails(c)
    BY SMT, <2>4 DEF Fails, Fail, End, Goto, SingleInv, KubeletInv, TypeCall
  <2>5. CASE Succeeds(c)
    BY SMT, <2>5 DEF Succeeds, Succeed, End, Goto, SingleInv, KubeletInv, TypeCall
  <2> QED
    BY <2>1, <2>2, <2>3, <2>4, <2>5 DEF Moves
<1>2. CASE Restart
  BY <1>2 DEF Restart, SingleInv, TypeCall
<1>3. ASSUME NEW c \in Calls, Deadline(c) PROVE SingleInv'
  BY SMT, <1>3 DEF Deadline, SingleInv, KubeletInv, TypeCall
<1>4. ASSUME NEW c \in Calls, NEW v \in Volumes, NodeStageVolume(c, v) PROVE SingleInv'
  BY SMT, <1>4 DEF NodeStageVolume, SingleInv, KubeletInv, TypeCall, Call, Waits, Goto
<1>5. ASSUME NEW c \in Calls, NEW v \in Volumes, NodeUnstageVolume(c, v) PROVE SingleInv'
  BY SMT, <1>5 DEF NodeUnstageVolume, SingleInv, KubeletInv, TypeCall, Call, Waits, Goto
<1>6. ASSUME NEW c \in Calls, NEW v \in Volumes, NEW p \in Pods, NodePublishVolume(c, v, p) PROVE SingleInv'
  BY SMT, <1>6 DEF NodePublishVolume, SingleInv, KubeletInv, TypeCall, Call, Waits, Goto
<1>7. ASSUME NEW c \in Calls, NEW v \in Volumes, NEW p \in Pods, NodeUnpublishVolume(c, v, p) PROVE SingleInv'
  BY SMT, <1>7 DEF NodeUnpublishVolume, SingleInv, KubeletInv, TypeCall, Call, Waits, Goto
<1>8. ASSUME NEW v \in Volumes, Stale(v) PROVE SingleInv'
  BY <1>8 DEF Stale, SingleInv, KubeletInv, TypeCall, callVars
<1>9. ASSUME NEW v \in Volumes, MountDone(v) PROVE SingleInv'
  BY <1>9 DEF MountDone, SingleInv, KubeletInv, TypeCall, Wake, Waiters
<1>10. ASSUME NEW v \in Volumes, MountFails(v) PROVE SingleInv'
  BY <1>10 DEF MountFails, SingleInv, KubeletInv, TypeCall, Wake, Waiters
<1>11. CASE UNCHANGED driverVars
  BY <1>11 DEF SingleInv, KubeletInv, TypeCall, driverVars, callVars
<1> QED
  BY <1>1, <1>2, <1>3, <1>4, <1>5, <1>6, <1>7, <1>8, <1>9, <1>10, <1>11 DEF DriverNext, Kubelet

\* A call the step leaves alone.
OthersCall(d) ==
    /\ pc'[d] = pc[d] /\ kind'[d] = kind[d] /\ vol'[d] = vol[d] /\ pod'[d] = pod[d]
    /\ live'[d] = live[d]

\* kubelet's request puts its call in place and touches no other.
LEMMA CallMade ==
    ASSUME TypeCall, NEW c \in Calls, NEW k, NEW v, NEW p, NEW step, Call(c, k, v, p, step)
    PROVE  /\ ~Waits(v, p) /\ pc'[c] = step /\ kind'[c] = k /\ vol'[c] = v /\ pod'[c] = p
           /\ \A d \in Calls \ {c} : OthersCall(d)
BY SMT DEF Call, Goto, TypeCall, OthersCall

\* and has noted what it waits for: an answer concerns no other call it waits for.
LEMMA AnswerAlone ==
    ASSUME TypeCall, TypeKubelet, CallInv, KubeletInv, NEW c \in Calls, Succeeds(c),
           NEW d \in Calls \ {c}, pc[d] # "idle", live[d]
    PROVE  /\ kind[d] \in {"stage", "unstage"} => device'[vol[d]] = device[vol[d]]
           /\ kind[d] \in {"publish", "unpublish"} => use'[vol[d]][pod[d]] = use[vol[d]][pod[d]]
<1>1. Answer(c) /\ pc[c] # "idle"
  BY DEF Succeeds, Succeed
<1>2. CASE ~live[c]
  BY <1>1, <1>2 DEF Answer
<1>3. CASE live[c] /\ vol[d] # vol[c]
  BY <1>1, <1>3 DEF Answer, TypeKubelet, CallInv
<1>4. CASE live[c] /\ vol[d] = vol[c]
  <2>1. pod[c] # None /\ pod[d] # None /\ pod[c] # pod[d]
    BY <1>1, <1>4 DEF KubeletInv, SingleInv
  <2>2. vol[c] \in Volumes /\ (kind[d] \in {"publish", "unpublish"} => pod[d] \in Pods)
    BY <1>1 DEF CallInv
  <2> QED
    BY <1>1, <1>4, <2>1, <2>2 DEF Answer, TypeKubelet
<1> QED
  BY <1>2, <1>3, <1>4

LEMMA NotedStep ==
    ASSUME TypeCall, TypeKubelet, CallInv, KubeletInv, [DriverNext]_driverVars
    PROVE  NotedInv'
<1>1. ASSUME NEW c \in Calls, HandlerStep(c) PROVE NotedInv'
  <2>1. Moves(c)
    BY <1>1, HandlerMoves
  <2>2. CASE Progress(c)
    BY SMT, <2>2 DEF Progress, Same, NotedInv, KubeletInv, TypeCall, TypeKubelet
  <2>3. CASE Granted(c)
    BY SMT, <2>3 DEF Granted, Same, NotedInv, KubeletInv, TypeCall, TypeKubelet
  <2>4. CASE Fails(c)
    BY SMT, <2>4 DEF Fails, Fail, End, kubeletVars, Goto, NotedInv, KubeletInv, TypeCall,
       TypeKubelet, StagingSteps
  <2>5. CASE Succeeds(c)
    <3>1. pc'[c] = "idle" /\ \A d \in Calls \ {c} : OthersCall(d)
      BY SMT, <2>5 DEF Succeeds, Succeed, End, Goto, TypeCall, OthersCall
    <3>2. ASSUME NEW d \in Calls \ {c}, pc[d] # "idle", live[d]
          PROVE  /\ kind[d] \in {"stage", "unstage"} => device'[vol[d]] = device[vol[d]]
                 /\ kind[d] \in {"publish", "unpublish"} => use'[vol[d]][pod[d]] = use[vol[d]][pod[d]]
      BY <2>5, <3>2, AnswerAlone
    <3> QED
      BY SMT, <3>1, <3>2 DEF NotedInv, KubeletInv, OthersCall
  <2> QED
    BY <2>1, <2>2, <2>3, <2>4, <2>5 DEF Moves
<1>2. CASE Restart
  BY <1>2 DEF Restart, NotedInv, TypeCall, TypeKubelet
<1>3. ASSUME NEW c \in Calls, Deadline(c) PROVE NotedInv'
  BY SMT, <1>3 DEF Deadline, NotedInv, KubeletInv, TypeCall, TypeKubelet, kubeletVars
<1>4. ASSUME NEW c \in Calls, NEW v \in Volumes, NodeStageVolume(c, v) PROVE NotedInv'
  BY SMT, <1>4 DEF NodeStageVolume, NotedInv, KubeletInv, TypeCall, TypeKubelet, Call, Kinds,
     StagingSteps, Waits, Goto
<1>5. ASSUME NEW c \in Calls, NEW v \in Volumes, NodeUnstageVolume(c, v) PROVE NotedInv'
  <2>1. /\ kind'[c] = "unstage" /\ vol'[c] = v /\ \A d \in Calls \ {c} : OthersCall(d)
        /\ ~Waits(v, None)
    BY SMT, <1>5, CallMade DEF NodeUnstageVolume
  <2>2. device'[v] = "unstaging" /\ use' = use /\ \A u \in Volumes \ {v} : device'[u] = device[u]
    BY <1>5 DEF NodeUnstageVolume, TypeKubelet
  <2>3. \A d \in Calls : pc[d] # "idle" /\ live[d] => vol[d] \in Volumes \ {v}
    BY <2>1 DEF Waits, CallInv
  <2>4. \A d \in Calls : pc[d] # "idle" /\ live[d] => device'[vol[d]] = device[vol[d]]
    BY <2>2, <2>3
  <2> QED
    BY SMT, <2>1, <2>2, <2>4 DEF NotedInv, KubeletInv, OthersCall, Kinds
<1>6. ASSUME NEW c \in Calls, NEW v \in Volumes, NEW p \in Pods, NodePublishVolume(c, v, p) PROVE NotedInv'
  BY SMT, <1>6 DEF NodePublishVolume, NotedInv, KubeletInv, TypeCall, TypeKubelet, Call,
     Kinds, Goto
<1>7. ASSUME NEW c \in Calls, NEW v \in Volumes, NEW p \in Pods, NodeUnpublishVolume(c, v, p) PROVE NotedInv'
  <2>1. /\ kind'[c] = "unpublish" /\ vol'[c] = v /\ pod'[c] = p
        /\ \A d \in Calls \ {c} : OthersCall(d)
        /\ ~Waits(v, p)
    BY <1>7, CallMade DEF NodeUnpublishVolume
  <2>2. /\ device' = device /\ use'[v][p] = "unpublishing"
        /\ \A u \in Volumes, q \in Pods : u # v \/ q # p => use'[u][q] = use[u][q]
    BY <1>7 DEF NodeUnpublishVolume, TypeKubelet
  <2>3. \A d \in Calls : pc[d] # "idle" /\ live[d] => vol[d] \in Volumes /\ (vol[d] # v \/ pod[d] # p)
    BY <2>1 DEF Waits, CallInv
  <2>4. \A d \in Calls : pc[d] # "idle" /\ kind[d] \in {"publish", "unpublish"} => pod[d] \in Pods
    BY DEF CallInv
  <2>5. \A d \in Calls : pc[d] # "idle" /\ live[d] /\ kind[d] \in {"publish", "unpublish"}
           => use'[vol[d]][pod[d]] = use[vol[d]][pod[d]]
    BY <2>2, <2>3, <2>4
  <2> QED
    BY SMT, <2>1, <2>2, <2>5 DEF NotedInv, KubeletInv, OthersCall, Kinds
<1>8. ASSUME NEW v \in Volumes, Stale(v) PROVE NotedInv'
  <2>1. UNCHANGED <<pc, kind, vol, pod, live, device, use>>
    BY <1>8 DEF Stale, callVars, kubeletVars
  <2> QED
    BY <2>1 DEF NotedInv, KubeletInv
<1>9. ASSUME NEW v \in Volumes, MountDone(v) PROVE NotedInv'
  <2>1. UNCHANGED <<kind, vol, pod, live, device, use>>
    BY <1>9 DEF MountDone, kubeletVars
  <2>2. \A d \in Calls : pc'[d] # "idle" => pc[d] # "idle"
    BY <1>9 DEF MountDone, Wake, Waiters
  <2> QED
    BY <2>1, <2>2 DEF NotedInv, KubeletInv
<1>10. ASSUME NEW v \in Volumes, MountFails(v) PROVE NotedInv'
  <2>1. UNCHANGED <<kind, vol, pod, live, device, use>>
    BY <1>10 DEF MountFails, kubeletVars
  <2>2. \A d \in Calls : pc'[d] # "idle" => pc[d] # "idle"
    BY <1>10 DEF MountFails, Wake, Waiters
  <2> QED
    BY <2>1, <2>2 DEF NotedInv, KubeletInv
<1>11. CASE UNCHANGED driverVars
  BY <1>11 DEF NotedInv, KubeletInv, TypeCall, TypeKubelet, driverVars, callVars,
     kubeletVars
<1> QED
  BY <1>1, <1>2, <1>3, <1>4, <1>5, <1>6, <1>7, <1>8, <1>9, <1>10, <1>11 DEF DriverNext, Kubelet

\* A handler past the lock keeps kubelet from being done with the pod.
LEMMA WorkStep ==
    ASSUME TypeCall, TypeKubelet, CallInv, LockInv, KubeletInv, WorkInv, [DriverNext]_driverVars
    PROVE  WorkInv'
<1>1. ASSUME NEW c \in Calls, HandlerStep(c) PROVE WorkInv'
  <2>1. Moves(c)
    BY <1>1, HandlerMoves
  <2>2. CASE Progress(c)
    BY <2>2 DEF Progress, Same, WorkInv, Locked, TypeCall, TypeKubelet
  <2>3. CASE Granted(c)
    BY SMT, <2>3 DEF Granted, Same, WorkInv, Locked, TypeCall, TypeKubelet, KubeletInv,
       NotedInv
  <2>4. CASE Fails(c)
    BY <2>4 DEF Fails, Fail, End, kubeletVars, Goto, WorkInv, Locked, TypeCall,
       TypeKubelet
  <2>5. CASE Succeeds(c)
    <3>1. pc'[c] = "idle" /\ \A d \in Calls \ {c} : OthersCall(d)
      BY SMT, <2>5 DEF Succeeds, Succeed, End, Goto, TypeCall, OthersCall
    <3>2. \A d \in Calls : Locked(d) => vol[d] \in Volumes /\ pod[d] \in Pods /\ lock[vol[d]] = d
      BY DEF Locked, CallInv, LockInv
    <3>3. ASSUME NEW d \in Calls \ {c}, Locked(d)
          PROVE  use'[vol[d]][pod[d]] = use[vol[d]][pod[d]]
      <4>1. CASE pod[c] = None
        BY <2>5, <4>1 DEF Succeeds, Succeed, Answer
      <4>2. CASE pod[c] # None
        <5>1. vol[c] # vol[d]
          BY <2>5, <3>2, <3>3, <4>2 DEF Succeeds
        <5> QED
          BY <2>5, <3>2, <3>3, <4>2, <5>1 DEF Succeeds, Succeed, Answer, TypeKubelet
      <4> QED
        BY <4>1, <4>2
    <3> QED
      BY SMT, <3>1, <3>3 DEF WorkInv, Locked, OthersCall
  <2> QED
    BY <2>1, <2>2, <2>3, <2>4, <2>5 DEF Moves
<1>2. CASE Restart
  BY <1>2 DEF Restart, WorkInv, Locked, TypeCall, TypeKubelet
<1>3. ASSUME NEW c \in Calls, Deadline(c) PROVE WorkInv'
  BY <1>3 DEF Deadline, WorkInv, Locked, TypeCall, TypeKubelet, kubeletVars
<1>4. ASSUME NEW c \in Calls, NEW v \in Volumes, NodeStageVolume(c, v) PROVE WorkInv'
  BY <1>4 DEF NodeStageVolume, WorkInv, Locked, TypeCall, TypeKubelet, Call, Goto
<1>5. ASSUME NEW c \in Calls, NEW v \in Volumes, NodeUnstageVolume(c, v) PROVE WorkInv'
  BY <1>5 DEF NodeUnstageVolume, WorkInv, Locked, TypeCall, TypeKubelet, Call, Goto
<1>6. ASSUME NEW c \in Calls, NEW v \in Volumes, NEW p \in Pods, NodePublishVolume(c, v, p) PROVE WorkInv'
  <2>1. pc'[c] = "lock" /\ \A d \in Calls \ {c} : OthersCall(d)
    BY <1>6, CallMade DEF NodePublishVolume
  <2>2. /\ use[v][p] \in {"none", "publishing"} /\ use'[v][p] = "publishing"
        /\ \A u \in Volumes, q \in Pods : u # v \/ q # p => use'[u][q] = use[u][q]
    BY <1>6 DEF NodePublishVolume, TypeKubelet
  <2>3. \A d \in Calls : Locked(d) => vol[d] \in Volumes /\ pod[d] \in Pods
    BY DEF Locked, CallInv
  <2>4. \A d \in Calls : Locked(d) => use'[vol[d]][pod[d]] = use[vol[d]][pod[d]]
    BY <2>2, <2>3 DEF WorkInv
  <2> QED
    BY SMT, <2>1, <2>4 DEF WorkInv, Locked, OthersCall
<1>7. ASSUME NEW c \in Calls, NEW v \in Volumes, NEW p \in Pods, NodeUnpublishVolume(c, v, p) PROVE WorkInv'
  <2>1. pc'[c] = "lock" /\ \A d \in Calls \ {c} : OthersCall(d)
    BY <1>7, CallMade DEF NodeUnpublishVolume
  <2>2. /\ use'[v][p] = "unpublishing"
        /\ \A u \in Volumes, q \in Pods : u # v \/ q # p => use'[u][q] = use[u][q]
    BY <1>7 DEF NodeUnpublishVolume, TypeKubelet
  <2>3. \A d \in Calls : Locked(d) => vol[d] \in Volumes /\ pod[d] \in Pods
    BY DEF Locked, CallInv
  <2>4. \A d \in Calls : Locked(d) => \/ use'[vol[d]][pod[d]] = use[vol[d]][pod[d]]
                                    \/ use'[vol[d]][pod[d]] = "unpublishing"
    BY <2>2, <2>3
  <2> QED
    BY SMT, <2>1, <2>4 DEF WorkInv, Locked, OthersCall
<1>8. ASSUME NEW v \in Volumes, Stale(v) PROVE WorkInv'
  BY <1>8 DEF Stale, WorkInv, Locked, TypeCall, TypeKubelet, callVars,
     kubeletVars
<1>9. ASSUME NEW v \in Volumes, MountDone(v) PROVE WorkInv'
  BY <1>9 DEF MountDone, WorkInv, Locked, TypeCall, TypeKubelet, Wake, Waiters,
     kubeletVars
<1>10. ASSUME NEW v \in Volumes, MountFails(v) PROVE WorkInv'
  BY <1>10 DEF MountFails, WorkInv, Locked, TypeCall, TypeKubelet, Wake, Waiters,
     kubeletVars
<1>11. CASE UNCHANGED driverVars
  BY <1>11 DEF WorkInv, Locked, TypeCall, TypeKubelet, driverVars, callVars, kubeletVars
<1> QED
  BY <1>1, <1>2, <1>3, <1>4, <1>5, <1>6, <1>7, <1>8, <1>9, <1>10, <1>11 DEF DriverNext, Kubelet

\* Only an unstage that kubelet has given up on unmounts under a publish that has the lock.
LEMMA UnstageAlone ==
    ASSUME TypeCall, TypeKubelet, CallInv, KubeletInv, WorkInv,
           NEW c \in Calls, pc[c] \in UnstageSteps, live[c],
           NEW d \in Calls, Locked(d)
    PROVE  vol[d] # vol[c]
BY SMT DEF TypeCall, TypeKubelet, CallInv, KubeletInv, NotedInv, UseInv, WorkInv, Locked,
   UnstageSteps

\* What is about to be bound is the share, unless an abandoned unstage unmounted it.
LEMMA BindStep ==
    ASSUME TypeNums, TypeCall, TypeKubelet, TypeSets, CallInv, LockInv, KubeletInv, WorkInv,
           BindInv, [DriverNext]_driverVars
    PROVE  BindInv'
<1>1. CASE Restart
  BY <1>1 DEF Restart, BindInv, TypeNums, TypeCall
<1>2. ASSUME NEW c \in Calls, acquireMountSlot(c) PROVE BindInv'
  BY <1>2 DEF acquireMountSlot, BindInv, TypeNums, TypeCall, Step, Fail, StageRest,
     Goto, End
<1>3. ASSUME NEW c \in Calls, MountToDataPortal(c) PROVE BindInv'
  BY <1>3 DEF MountToDataPortal, BindInv, TypeNums, TypeCall, StageFails, NextPortal,
     Step, StageRest, Fail, Goto, End
<1>4. ASSUME NEW c \in Calls, MountShareCheck(c) PROVE BindInv'
  BY <1>4 DEF MountShareCheck, BindInv, TypeNums, TypeCall, Step, NextPortal, StageRest,
     Goto
<1>5. ASSUME NEW c \in Calls, beginMount(c) PROVE BindInv'
  BY <1>5 DEF beginMount, BindInv, TypeNums, TypeCall, Step, StageRest, Goto
<1>6. ASSUME NEW c \in Calls, MountTimesOut(c) PROVE BindInv'
  BY <1>6 DEF MountTimesOut, BindInv, TypeNums, TypeCall, NextPortal, StageRest, Goto
<1>7. ASSUME NEW c \in Calls, Staged(c) PROVE BindInv'
  BY SMT, <1>7 DEF Staged, BindInv, TypeNums, TypeCall, Succeed, Step, StageRest, End, Goto
<1>8. ASSUME NEW c \in Calls, acquireVolumeLock(c) PROVE BindInv'
  BY <1>8 DEF acquireVolumeLock, BindInv, TypeNums, TypeCall, Goto, Fail, StageRest, End
<1>9. ASSUME NEW c \in Calls, PublishTarget(c) PROVE BindInv'
  <2>1. Locked(c) /\ pc'[c] # "bind" /\ UNCHANGED mounts /\ \A d \in Calls \ {c} :
            pc'[d] = pc[d] /\ vol'[d] = vol[d] /\ pod'[d] = pod[d]
    BY <1>9 DEF PublishTarget, Locked, CallInv, PublishSteps, Succeed, Step, Fail, End, Goto,
       TypeCall
  <2>2. \A x : x \in undermined => x \in undermined' \/ x = <<vol[c], pod[c]>>
    BY <1>9 DEF PublishTarget
  <2>3. \A d \in Calls \ {c} : pc[d] = "bind" => vol[d] # vol[c]
    <3>1. \A d \in Calls : pc[d] = "bind" => Locked(d)
      BY DEF CallInv, Locked, PublishSteps
    <3> QED
      BY <2>1, <3>1 DEF LockInv
  <2>4. \A d \in Calls \ {c} : vol[d] # vol[c] => <<vol[d], pod[d]>> # <<vol[c], pod[c]>>
    BY SMT
  <2> QED
    BY <2>1, <2>2, <2>3, <2>4 DEF BindInv
<1>10. ASSUME NEW c \in Calls, PublishStaging(c) PROVE BindInv'
  BY <1>10 DEF PublishStaging, BindInv, TypeNums, TypeCall, Step, Fail, PodRest, Goto,
     End
<1>11. ASSUME NEW c \in Calls, PublishRecheck(c) PROVE BindInv'
  BY <1>11 DEF PublishRecheck, BindInv, TypeNums, TypeCall, Step, Fail, PodRest, Goto,
     End
<1>12. ASSUME NEW c \in Calls, PublishBind(c) PROVE BindInv'
  BY <1>12 DEF PublishBind, BindInv, TypeNums, TypeCall, Succeed, Fail, PodRest, End,
     Goto
<1>13. ASSUME NEW c \in Calls, Unpublish(c) PROVE BindInv'
  BY <1>13 DEF Unpublish, BindInv, TypeNums, TypeCall, Succeed, Fail, PodRest, End, Goto
<1>14. ASSUME NEW c \in Calls, UnstageCheck(c) PROVE BindInv'
  <2>1. vol[c] \in Volumes /\ pc[c] \in UnstageSteps /\ pc'[c] # "bind" /\ \A d \in Calls \ {c} : pc'[d] = pc[d]
    BY <1>14 DEF UnstageCheck, Step, Fail, End, Goto, TypeCall, CallInv,
       UnstageSteps
  <2>2. \A d \in Calls \ {c} : vol'[d] = vol[d] /\ pod'[d] = pod[d]
    BY <1>14 DEF UnstageCheck, Step, Fail, End, TypeCall
  <2>3. (\A v \in Volumes \ {vol[c]} : mounts'[v] = mounts[v]) /\ undermined \subseteq undermined'
    BY <1>14, <2>1, UnmountsIs DEF UnstageCheck
  <2>4. \/ mounts'[vol[c]] = mounts[vol[c]] \/ live[c] \/ mounts'[vol[c]] > 0
        \/ \A d \in Calls : pc[d] = "bind" /\ vol[d] = vol[c] => <<vol[d], pod[d]>> \in undermined'
    BY <1>14, <2>1, UnmountsIs DEF UnstageCheck
  <2>5. \A d \in Calls \ {c} : pc[d] = "bind" => Locked(d) /\ vol[d] \in Volumes
    BY DEF CallInv, Locked, PublishSteps
  <2> QED
    BY SMT, <2>1, <2>2, <2>3, <2>4, <2>5, UnstageAlone DEF BindInv
<1>15. ASSUME NEW c \in Calls, UnstageUmount(c) PROVE BindInv'
  <2>1. vol[c] \in Volumes /\ pc[c] \in UnstageSteps /\ pc'[c] # "bind" /\ \A d \in Calls \ {c} : pc'[d] = pc[d]
    BY <1>15 DEF UnstageUmount, Step, Fail, End, Goto, TypeCall, CallInv,
       UnstageSteps
  <2>2. \A d \in Calls \ {c} : vol'[d] = vol[d] /\ pod'[d] = pod[d]
    BY <1>15 DEF UnstageUmount, Step, Fail, End, Goto, TypeCall
  <2>3. (\A v \in Volumes \ {vol[c]} : mounts'[v] = mounts[v]) /\ undermined \subseteq undermined'
    BY <1>15, <2>1, UnmountsIs DEF UnstageUmount
  <2>4. \/ mounts'[vol[c]] = mounts[vol[c]] \/ live[c] \/ mounts'[vol[c]] > 0
        \/ \A d \in Calls : pc[d] = "bind" /\ vol[d] = vol[c] => <<vol[d], pod[d]>> \in undermined'
    BY <1>15, <2>1, UnmountsIs DEF UnstageUmount
  <2>5. \A d \in Calls \ {c} : pc[d] = "bind" => Locked(d) /\ vol[d] \in Volumes
    BY DEF CallInv, Locked, PublishSteps
  <2> QED
    BY SMT, <2>1, <2>2, <2>3, <2>4, <2>5, UnstageAlone DEF BindInv
<1>16. ASSUME NEW c \in Calls, UnstageRmdir(c) PROVE BindInv'
  BY <1>16 DEF UnstageRmdir, BindInv, TypeNums, TypeCall, Step, Fail, Goto, End
<1>17. ASSUME NEW c \in Calls, LegacyMarker(c) PROVE BindInv'
  BY <1>17 DEF LegacyMarker, BindInv, TypeNums, TypeCall, Step, Succeed, LegacyRest,
     Goto, End
<1>18. ASSUME NEW c \in Calls, acquireRootMountLock(c) PROVE BindInv'
  BY <1>18 DEF acquireRootMountLock, BindInv, TypeNums, TypeCall, Goto, Fail,
     LegacyRest, End
<1>19. ASSUME NEW c \in Calls, LegacyRelease(c) PROVE BindInv'
  BY <1>19 DEF LegacyRelease, BindInv, TypeNums, TypeCall, Step, Fail, LegacyRest, Goto,
     End
<1>20. ASSUME NEW c \in Calls, LegacyUnmount(c) PROVE BindInv'
  BY <1>20 DEF LegacyUnmount, BindInv, TypeNums, TypeCall, Succeed, Fail,
     LegacyRest, End, Goto
<1>21. ASSUME NEW c \in Calls, Deadline(c) PROVE BindInv'
  BY <1>21 DEF Deadline, BindInv, TypeNums, TypeCall, hostVars
<1>22. ASSUME NEW c \in Calls, NEW v \in Volumes, NodeStageVolume(c, v) PROVE BindInv'
  BY <1>22 DEF NodeStageVolume, BindInv, TypeNums, TypeCall, Call, Goto
<1>23. ASSUME NEW c \in Calls, NEW v \in Volumes, NodeUnstageVolume(c, v) PROVE BindInv'
  BY <1>23 DEF NodeUnstageVolume, BindInv, TypeNums, TypeCall, Call, Goto
<1>24. ASSUME NEW c \in Calls, NEW v \in Volumes, NEW p \in Pods, NodePublishVolume(c, v, p) PROVE BindInv'
  BY <1>24 DEF NodePublishVolume, BindInv, TypeNums, TypeCall, Call, Goto
<1>25. ASSUME NEW c \in Calls, NEW v \in Volumes, NEW p \in Pods, NodeUnpublishVolume(c, v, p) PROVE BindInv'
  BY <1>25 DEF NodeUnpublishVolume, BindInv, TypeNums, TypeCall, Call, Goto
<1>26. ASSUME NEW v \in Volumes, Stale(v) PROVE BindInv'
  BY <1>26 DEF Stale, BindInv, TypeNums, TypeCall, callVars
<1>27. ASSUME NEW v \in Volumes, MountDone(v) PROVE BindInv'
  BY SMT, <1>27 DEF MountDone, BindInv, TypeNums, TypeCall, Wake
<1>28. ASSUME NEW v \in Volumes, MountFails(v) PROVE BindInv'
  BY <1>28 DEF MountFails, BindInv, TypeNums, TypeCall, Wake
<1>29. CASE UNCHANGED driverVars
  BY <1>29 DEF BindInv, TypeNums, TypeCall, driverVars, callVars, hostVars
<1> QED
  BY <1>1, <1>2, <1>3, <1>4, <1>5, <1>6, <1>7, <1>8, <1>9, <1>10, <1>11, <1>12,
     <1>13, <1>14, <1>15, <1>16, <1>17, <1>18, <1>19, <1>20, <1>21, <1>22, <1>23,
     <1>24, <1>25, <1>26, <1>27, <1>28, <1>29 DEF DriverNext, HandlerStep, Kubelet

\* What is left alone stays right;
LEMMA TargetKept ==
    ASSUME TargetInv, UNCHANGED <<use, target>>, undermined \subseteq undermined',
           \A v \in Volumes, p \in Pods : <<v, p>> \in leaked => <<v, p>> \in leaked'
    PROVE  TargetInv'
BY DEF TargetInv

\* a handler only touches its own volume and pod.
LEMMA TargetSet ==
    ASSUME TargetInv, NEW u \in Volumes, NEW q \in Pods,
           \A v \in Volumes, p \in Pods : v # u \/ p # q =>
               use'[v][p] = use[v][p] /\ target'[v][p] = target[v][p],
           undermined \ {<<u, q>>} \subseteq undermined',
           \A v \in Volumes, p \in Pods : <<v, p>> \in leaked => <<v, p>> \in leaked',
           target'[u][q] = "local" => <<u, q>> \in undermined',
           use'[u][q] = "published" => target'[u][q] # None,
           use'[u][q] = "none" => target'[u][q] = None \/ <<u, q>> \in leaked'
    PROVE  TargetInv'
<1> SUFFICES ASSUME NEW v \in Volumes, NEW p \in Pods
             PROVE  /\ target'[v][p] = "local" => <<v, p>> \in undermined'
                    /\ use'[v][p] = "published" => target'[v][p] # None
                    /\ use'[v][p] = "none" => target'[v][p] = None \/ <<v, p>> \in leaked'
  BY DEF TargetInv
<1>1. CASE v = u /\ p = q
  BY <1>1
<1>2. CASE v # u \/ p # q
  <2>1. use'[v][p] = use[v][p] /\ target'[v][p] = target[v][p]
    BY <1>2
  <2> QED
    BY SMT, <2>1 DEF TargetInv
<1> QED
  BY <1>1, <1>2

\* What the answer to a call for a pod changes, and what a bind or an unmount does.
LEMMA AnswerUse ==
    ASSUME TypeKubelet, NEW c \in Calls, vol[c] \in Volumes, pod[c] \in Pods, Succeed(c)
    PROVE  /\ \A v \in Volumes, p \in Pods : v # vol[c] \/ p # pod[c] => use'[v][p] = use[v][p]
           /\ use'[vol[c]][pod[c]] =
                  IF ~live[c] THEN use[vol[c]][pod[c]]
                  ELSE IF kind[c] = "publish" THEN "published" ELSE "none"
BY NoneAssumption DEF TypeKubelet, Succeed, Answer

\* The target that is set.
LEMMA SetTargetIs ==
    ASSUME TypeTarget, NEW c \in Calls, vol[c] \in Volumes, pod[c] \in Pods, NEW w, SetTarget(c, w)
    PROVE  /\ \A v \in Volumes, p \in Pods : v # vol[c] \/ p # pod[c] => target'[v][p] = target[v][p]
           /\ target'[vol[c]][pod[c]] = w
BY DEF TypeTarget, SetTarget

\* A published target is bound, to the share or after an abandoned unstage; a released one is not.
LEMMA TargetStep ==
    ASSUME TypeNums, TypeCall, TypeKubelet, TypeTarget, TypeSets, CallInv, LockInv,
           KubeletInv, WorkInv, BindInv, TargetInv, [DriverNext]_driverVars
    PROVE  TargetInv'
<1>1. CASE Restart
  <2>1. UNCHANGED <<use, target>>
    BY <1>1, NoneAssumption DEF Restart, kubeletVars
  <2>2. undermined \subseteq undermined' /\ \A u \in Volumes, q \in Pods : <<u, q>> \in leaked => <<u, q>> \in leaked'
    BY <1>1, NoneAssumption DEF Restart
  <2> QED
    BY <2>1, <2>2, TargetKept
<1>2. ASSUME NEW c \in Calls, acquireMountSlot(c) PROVE TargetInv'
  <2>1. UNCHANGED <<use, target>>
    BY <1>2 DEF acquireMountSlot, Step, Fail, StageRest, kubeletVars
  <2>2. undermined \subseteq undermined' /\ \A u \in Volumes, q \in Pods : <<u, q>> \in leaked => <<u, q>> \in leaked'
    BY <1>2, NoneAssumption DEF acquireMountSlot, StageRest, HandlerRest
  <2> QED
    BY <2>1, <2>2, TargetKept
<1>3. ASSUME NEW c \in Calls, MountToDataPortal(c) PROVE TargetInv'
  <2>1. UNCHANGED <<use, target>>
    BY <1>3 DEF MountToDataPortal, StageFails, NextPortal, Step, StageRest, Fail,
       kubeletVars
  <2>2. undermined \subseteq undermined' /\ \A u \in Volumes, q \in Pods : <<u, q>> \in leaked => <<u, q>> \in leaked'
    BY <1>3, NoneAssumption DEF MountToDataPortal, StageRest, HandlerRest
  <2> QED
    BY <2>1, <2>2, TargetKept
<1>4. ASSUME NEW c \in Calls, MountShareCheck(c) PROVE TargetInv'
  <2>1. UNCHANGED <<use, target>>
    BY <1>4 DEF MountShareCheck, Step, NextPortal, StageRest, kubeletVars
  <2>2. undermined \subseteq undermined' /\ \A u \in Volumes, q \in Pods : <<u, q>> \in leaked => <<u, q>> \in leaked'
    BY <1>4, NoneAssumption DEF MountShareCheck, StageRest, HandlerRest
  <2> QED
    BY <2>1, <2>2, TargetKept
<1>5. ASSUME NEW c \in Calls, beginMount(c) PROVE TargetInv'
  <2>1. UNCHANGED <<use, target>>
    BY <1>5, NoneAssumption DEF beginMount, Step, StageRest, kubeletVars
  <2>2. undermined \subseteq undermined' /\ \A u \in Volumes, q \in Pods : <<u, q>> \in leaked => <<u, q>> \in leaked'
    BY <1>5, NoneAssumption DEF beginMount, StageRest, HandlerRest
  <2> QED
    BY <2>1, <2>2, TargetKept
<1>6. ASSUME NEW c \in Calls, MountTimesOut(c) PROVE TargetInv'
  <2>1. UNCHANGED <<use, target>>
    BY <1>6, NoneAssumption DEF MountTimesOut, NextPortal, StageRest, kubeletVars
  <2>2. undermined \subseteq undermined' /\ \A u \in Volumes, q \in Pods : <<u, q>> \in leaked => <<u, q>> \in leaked'
    BY <1>6, NoneAssumption DEF MountTimesOut, StageRest, HandlerRest
  <2> QED
    BY <2>1, <2>2, TargetKept
<1>7. ASSUME NEW c \in Calls, Staged(c) PROVE TargetInv'
  <2>1. UNCHANGED <<use, target>>
    BY <1>7 DEF Staged, Succeed, Step, StageRest, Answer, kubeletVars, CallInv
  <2>2. undermined \subseteq undermined' /\ \A u \in Volumes, q \in Pods : <<u, q>> \in leaked => <<u, q>> \in leaked'
    BY <1>7, NoneAssumption DEF Staged, StageRest, HandlerRest
  <2> QED
    BY <2>1, <2>2, TargetKept
<1>8. ASSUME NEW c \in Calls, acquireVolumeLock(c) PROVE TargetInv'
  <2>1. UNCHANGED <<use, target>>
    BY <1>8, NoneAssumption DEF acquireVolumeLock, kubeletVars, Fail, StageRest
  <2>2. undermined \subseteq undermined' /\ \A u \in Volumes, q \in Pods : <<u, q>> \in leaked => <<u, q>> \in leaked'
    BY <1>8, NoneAssumption DEF acquireVolumeLock, StageRest, HandlerRest
  <2> QED
    BY <2>1, <2>2, TargetKept
<1>9. ASSUME NEW c \in Calls, PublishTarget(c) PROVE TargetInv'
  <2>1. Locked(c) /\ kind[c] = "publish" /\ vol[c] \in Volumes /\ pod[c] \in Pods
    BY <1>9 DEF PublishTarget, CallInv, PublishSteps, Locked
  <2>2. use[vol[c]][pod[c]] \in {"publishing", "unpublishing"} /\ UNCHANGED leaked
    BY <2>1, <1>9 DEF WorkInv, PublishTarget
  <2>3. CASE Target(c) # None /\ Succeed(c) /\ UNCHANGED <<target, undermined>>
    <3>1. target[vol[c]][pod[c]] # None /\ (target[vol[c]][pod[c]] = "local" => <<vol[c], pod[c]>> \in undermined)
      BY <2>1, <2>3 DEF Target, TargetInv
    <3>2. \A v \in Volumes, p \in Pods : v # vol[c] \/ p # pod[c] =>
               use'[v][p] = use[v][p] /\ target'[v][p] = target[v][p]
      <4>1. \A v \in Volumes, p \in Pods : v # vol[c] \/ p # pod[c] => use'[v][p] = use[v][p]
        BY <2>1, <2>3, AnswerUse
      <4> QED
        BY <2>3, <4>1
    <3>3. use'[vol[c]][pod[c]] # "none"
      BY <2>1, <2>2, <2>3, AnswerUse
    <3> QED
      BY <2>1, <2>2, <2>3, <3>1, <3>2, <3>3, TargetSet
  <2>4. CASE /\ SetTarget(c, None) /\ Step(c, "staging")
             /\ undermined' = undermined \ {<<vol[c], pod[c]>>}
    <3>1. UNCHANGED use
      BY <2>4 DEF Step, kubeletVars
    <3>2. target'[vol[c]][pod[c]] = None /\ \A v \in Volumes, p \in Pods : v # vol[c] \/ p # pod[c] =>
               use'[v][p] = use[v][p] /\ target'[v][p] = target[v][p]
      BY SMT, <2>1, <2>4, <3>1, SetTargetIs
    <3> QED
      BY <2>1, <2>2, <2>4, <3>1, <3>2, TargetSet, NoneAssumption
  <2>5. CASE UNCHANGED <<use, target, undermined>>
    BY <2>2, <2>5, TargetKept
  <2> QED
    BY <1>9, <2>3, <2>4, <2>5 DEF PublishTarget, Step, Fail, kubeletVars
<1>10. ASSUME NEW c \in Calls, PublishStaging(c) PROVE TargetInv'
  <2>1. UNCHANGED <<use, target>>
    BY <1>10 DEF PublishStaging, Step, Fail, kubeletVars
  <2>2. undermined \subseteq undermined' /\ \A u \in Volumes, q \in Pods : <<u, q>> \in leaked => <<u, q>> \in leaked'
    BY <1>10, NoneAssumption DEF PublishStaging, PodRest, HandlerRest
  <2> QED
    BY <2>1, <2>2, TargetKept
<1>11. ASSUME NEW c \in Calls, PublishRecheck(c) PROVE TargetInv'
  <2>1. UNCHANGED <<use, target>>
    BY <1>11 DEF PublishRecheck, Step, Fail, kubeletVars
  <2>2. undermined \subseteq undermined' /\ \A u \in Volumes, q \in Pods : <<u, q>> \in leaked => <<u, q>> \in leaked'
    BY <1>11, NoneAssumption DEF PublishRecheck, PodRest, HandlerRest
  <2> QED
    BY <2>1, <2>2, TargetKept
<1>12. ASSUME NEW c \in Calls, PublishBind(c) PROVE TargetInv'
  <2>1. Locked(c) /\ kind[c] = "publish" /\ vol[c] \in Volumes /\ pod[c] \in Pods
    BY <1>12 DEF PublishBind, CallInv, PublishSteps, Locked
  <2>2. use[vol[c]][pod[c]] \in {"publishing", "unpublishing"} /\ UNCHANGED <<undermined, leaked>>
    BY <2>1, <1>12 DEF WorkInv, PublishBind, PodRest, HandlerRest
  <2>3. ASSUME Bound(c)
        PROVE  /\ \A v \in Volumes, p \in Pods : v # vol[c] \/ p # pod[c] => target'[v][p] = target[v][p]
               /\ target'[vol[c]][pod[c]] # None
               /\ target'[vol[c]][pod[c]] = "local" => <<vol[c], pod[c]>> \in undermined
    <3>1. mounts[vol[c]] > 0 \/ <<vol[c], pod[c]>> \in undermined
      BY <1>12 DEF PublishBind, BindInv
    <3>2. PICK w \in {"share", "local"} : SetTarget(c, w) /\ (w = "local" => ~(mounts[vol[c]] > 0))
      BY <2>3 DEF Bound
    <3>3. /\ \A v \in Volumes, p \in Pods : v # vol[c] \/ p # pod[c] => target'[v][p] = target[v][p]
          /\ target'[vol[c]][pod[c]] = w
      BY <2>1, <3>2, SetTargetIs
    <3> QED
      BY <3>1, <3>2, <3>3, NoneAssumption
  <2>4. CASE Bound(c) /\ Succeed(c)
    <3>1. \A v \in Volumes, p \in Pods : v # vol[c] \/ p # pod[c] =>
               use'[v][p] = use[v][p] /\ target'[v][p] = target[v][p]
      <4>1. \A v \in Volumes, p \in Pods : v # vol[c] \/ p # pod[c] => use'[v][p] = use[v][p]
        BY <2>1, <2>4, AnswerUse
      <4> QED
        BY <2>3, <2>4, <4>1
    <3>2. use'[vol[c]][pod[c]] # "none"
      BY <2>1, <2>2, <2>4, AnswerUse
    <3> QED
      BY <2>1, <2>2, <2>3, <2>4, <3>1, <3>2, TargetSet
  <2>5. CASE Bound(c) /\ UNCHANGED use
    BY <2>1, <2>2, <2>3, <2>5, TargetSet
  <2>6. CASE UNCHANGED <<use, target>>
    BY <2>2, <2>6, TargetKept
  <2> QED
    BY <1>12, <2>4, <2>5, <2>6 DEF PublishBind, Fail, kubeletVars
<1>13. ASSUME NEW c \in Calls, Unpublish(c) PROVE TargetInv'
  <2>1. Locked(c) /\ kind[c] = "unpublish" /\ vol[c] \in Volumes /\ pod[c] \in Pods
    BY <1>13 DEF Unpublish, CallInv, Locked
  <2>2. use[vol[c]][pod[c]] = "unpublishing" /\ UNCHANGED undermined
    BY <2>1, <1>13 DEF WorkInv, Unpublish, PodRest, HandlerRest
  <2>3. CASE SetTarget(c, None) /\ Succeed(c) /\ UNCHANGED leaked
    <3>1. target'[vol[c]][pod[c]] = None /\ \A v \in Volumes, p \in Pods : v # vol[c] \/ p # pod[c] =>
               use'[v][p] = use[v][p] /\ target'[v][p] = target[v][p]
      <4>1. \A v \in Volumes, p \in Pods : v # vol[c] \/ p # pod[c] => use'[v][p] = use[v][p]
        BY <2>1, <2>3, AnswerUse
      <4>2. /\ target'[vol[c]][pod[c]] = None
            /\ \A v \in Volumes, p \in Pods : v # vol[c] \/ p # pod[c] => target'[v][p] = target[v][p]
        BY <2>1, <2>3, SetTargetIs
      <4> QED
        BY <4>1, <4>2
    <3>2. use'[vol[c]][pod[c]] # "published"
      BY <2>1, <2>2, <2>3, AnswerUse
    <3> QED
      BY <2>1, <2>2, <2>3, <3>1, <3>2, TargetSet, NoneAssumption
  <2>4. CASE UNCHANGED use /\ SetTarget(c, None) /\ UNCHANGED leaked
    <3>1. target'[vol[c]][pod[c]] = None /\ \A v \in Volumes, p \in Pods : v # vol[c] \/ p # pod[c] =>
               use'[v][p] = use[v][p] /\ target'[v][p] = target[v][p]
      BY SMT, <2>1, <2>4, SetTargetIs
    <3> QED
      BY <2>1, <2>2, <2>4, <3>1, TargetSet, NoneAssumption
  <2>5. CASE UNCHANGED <<use, target, leaked>>
    BY <2>2, <2>5, TargetKept
  <2>6. CASE Succeed(c) /\ Leaks(c) /\ UNCHANGED target
    <3>1. target[vol[c]][pod[c]] = "local" => <<vol[c], pod[c]>> \in undermined
      BY <2>1 DEF TargetInv
    <3>2. leaked \subseteq leaked' /\ (live[c] => <<vol[c], pod[c]>> \in leaked')
      BY <2>6 DEF Leaks
    <3> QED
      <4>1. \A v \in Volumes, p \in Pods : v # vol[c] \/ p # pod[c] =>
                use'[v][p] = use[v][p] /\ target'[v][p] = target[v][p]
        <5>1. \A v \in Volumes, p \in Pods : v # vol[c] \/ p # pod[c] => use'[v][p] = use[v][p]
          BY <2>1, <2>6, AnswerUse
        <5> QED
          BY <2>6, <5>1
      <4>2. use'[vol[c]][pod[c]] = IF live[c] THEN "none" ELSE "unpublishing"
        BY <2>1, <2>2, <2>6, AnswerUse
      <4> QED
        BY <2>1, <2>2, <2>6, <3>1, <3>2, <4>1, <4>2, TargetSet
  <2> QED
    BY <1>13, <2>3, <2>4, <2>5, <2>6 DEF Unpublish, Fail, kubeletVars
<1>14. ASSUME NEW c \in Calls, UnstageCheck(c) PROVE TargetInv'
  <2>1. UNCHANGED <<use, target>>
    BY <1>14 DEF UnstageCheck, Step, Fail, UnstageRest, kubeletVars
  <2>2. \A u \in Volumes, q \in Pods : <<u, q>> \in leaked => <<u, q>> \in leaked'
    BY <1>14, NoneAssumption DEF UnstageCheck, Leaks
  <2>3. vol[c] \in Volumes /\ (Unmounts(c) \/ UNCHANGED undermined)
    BY <1>14 DEF UnstageCheck, CallInv
  <2>4. undermined \subseteq undermined'
    BY <2>3, UnmountsIs
  <2> QED
    BY <2>1, <2>2, <2>4, TargetKept
<1>15. ASSUME NEW c \in Calls, UnstageUmount(c) PROVE TargetInv'
  <2>1. UNCHANGED <<use, target>>
    BY <1>15 DEF UnstageUmount, Step, Fail, UnstageRest, kubeletVars
  <2>2. \A u \in Volumes, q \in Pods : <<u, q>> \in leaked => <<u, q>> \in leaked'
    BY <1>15, NoneAssumption DEF UnstageUmount, Leaks
  <2>3. vol[c] \in Volumes /\ (Unmounts(c) \/ UNCHANGED undermined)
    BY <1>15 DEF UnstageUmount, CallInv
  <2>4. undermined \subseteq undermined'
    BY <2>3, UnmountsIs
  <2> QED
    BY <2>1, <2>2, <2>4, TargetKept
<1>16. ASSUME NEW c \in Calls, UnstageRmdir(c) PROVE TargetInv'
  <2>1. UNCHANGED <<use, target>>
    BY <1>16 DEF UnstageRmdir, Step, Fail, UnstageRest, kubeletVars
  <2>2. undermined \subseteq undermined' /\ \A u \in Volumes, q \in Pods : <<u, q>> \in leaked => <<u, q>> \in leaked'
    BY <1>16, NoneAssumption DEF UnstageRmdir, UnstageRest
  <2> QED
    BY <2>1, <2>2, TargetKept
<1>17. ASSUME NEW c \in Calls, LegacyMarker(c) PROVE TargetInv'
  <2>1. UNCHANGED <<use, target>>
    BY <1>17 DEF LegacyMarker, Step, Succeed, LegacyRest, kubeletVars, Answer,
       UnstageRest, CallInv, UnstageSteps
  <2>2. undermined \subseteq undermined' /\ \A u \in Volumes, q \in Pods : <<u, q>> \in leaked => <<u, q>> \in leaked'
    BY <1>17, NoneAssumption DEF LegacyMarker, LegacyRest, UnstageRest
  <2> QED
    BY <2>1, <2>2, TargetKept
<1>18. ASSUME NEW c \in Calls, acquireRootMountLock(c) PROVE TargetInv'
  <2>1. UNCHANGED <<use, target>>
    BY <1>18 DEF acquireRootMountLock, kubeletVars, Fail, LegacyRest, UnstageRest
  <2>2. undermined \subseteq undermined' /\ \A u \in Volumes, q \in Pods : <<u, q>> \in leaked => <<u, q>> \in leaked'
    BY <1>18, NoneAssumption DEF acquireRootMountLock, LegacyRest, UnstageRest
  <2> QED
    BY <2>1, <2>2, TargetKept
<1>19. ASSUME NEW c \in Calls, LegacyRelease(c) PROVE TargetInv'
  <2>1. UNCHANGED <<use, target>>
    BY <1>19 DEF LegacyRelease, Step, Fail, LegacyRest, kubeletVars, UnstageRest
  <2>2. undermined \subseteq undermined' /\ \A u \in Volumes, q \in Pods : <<u, q>> \in leaked => <<u, q>> \in leaked'
    BY <1>19, NoneAssumption DEF LegacyRelease, LegacyRest, UnstageRest
  <2> QED
    BY <2>1, <2>2, TargetKept
<1>20. ASSUME NEW c \in Calls, LegacyUnmount(c) PROVE TargetInv'
  <2>1. UNCHANGED <<use, target>>
    BY <1>20 DEF LegacyUnmount, Succeed, Fail, LegacyRest, Answer, kubeletVars,
       UnstageRest, CallInv, UnstageSteps
  <2>2. undermined \subseteq undermined' /\ \A u \in Volumes, q \in Pods : <<u, q>> \in leaked => <<u, q>> \in leaked'
    BY <1>20, NoneAssumption DEF LegacyUnmount, LegacyRest, UnstageRest
  <2> QED
    BY <2>1, <2>2, TargetKept
<1>21. ASSUME NEW c \in Calls, Deadline(c) PROVE TargetInv'
  <2>1. UNCHANGED <<use, target>>
    BY <1>21, NoneAssumption DEF Deadline, kubeletVars, hostVars
  <2>2. undermined \subseteq undermined' /\ \A u \in Volumes, q \in Pods : <<u, q>> \in leaked => <<u, q>> \in leaked'
    BY <1>21, NoneAssumption DEF Deadline
  <2> QED
    BY <2>1, <2>2, TargetKept
<1>22. ASSUME NEW c \in Calls, NEW v \in Volumes, NodeStageVolume(c, v) PROVE TargetInv'
  <2>1. UNCHANGED <<use, target>>
    BY <1>22, NoneAssumption DEF NodeStageVolume, Call
  <2>2. undermined \subseteq undermined' /\ \A u \in Volumes, q \in Pods : <<u, q>> \in leaked => <<u, q>> \in leaked'
    BY <1>22, NoneAssumption DEF NodeStageVolume, Call
  <2> QED
    BY <2>1, <2>2, TargetKept
<1>23. ASSUME NEW c \in Calls, NEW v \in Volumes, NodeUnstageVolume(c, v) PROVE TargetInv'
  <2>1. UNCHANGED <<use, target>>
    BY <1>23, NoneAssumption DEF NodeUnstageVolume, Call
  <2>2. undermined \subseteq undermined' /\ \A u \in Volumes, q \in Pods : <<u, q>> \in leaked => <<u, q>> \in leaked'
    BY <1>23, NoneAssumption DEF NodeUnstageVolume, Call
  <2> QED
    BY <2>1, <2>2, TargetKept
<1>24. ASSUME NEW c \in Calls, NEW v \in Volumes, NEW p \in Pods, NodePublishVolume(c, v, p) PROVE TargetInv'
  BY <1>24, NoneAssumption DEF NodePublishVolume, TargetInv, TypeKubelet, Call
<1>25. ASSUME NEW c \in Calls, NEW v \in Volumes, NEW p \in Pods, NodeUnpublishVolume(c, v, p) PROVE TargetInv'
  BY <1>25, NoneAssumption DEF NodeUnpublishVolume, TargetInv, TypeKubelet, Call
<1>26. ASSUME NEW v \in Volumes, Stale(v) PROVE TargetInv'
  <2>1. UNCHANGED <<use, target>>
    BY <1>26, NoneAssumption DEF Stale, kubeletVars
  <2>2. undermined \subseteq undermined' /\ \A u \in Volumes, q \in Pods : <<u, q>> \in leaked => <<u, q>> \in leaked'
    BY <1>26, NoneAssumption DEF Stale
  <2> QED
    BY <2>1, <2>2, TargetKept
<1>27. ASSUME NEW v \in Volumes, MountDone(v) PROVE TargetInv'
  <2>1. UNCHANGED <<use, target>>
    BY <1>27, NoneAssumption DEF MountDone, kubeletVars
  <2>2. undermined \subseteq undermined' /\ \A u \in Volumes, q \in Pods : <<u, q>> \in leaked => <<u, q>> \in leaked'
    BY <1>27, NoneAssumption DEF MountDone
  <2> QED
    BY <2>1, <2>2, TargetKept
<1>28. ASSUME NEW v \in Volumes, MountFails(v) PROVE TargetInv'
  <2>1. UNCHANGED <<use, target>>
    BY <1>28, NoneAssumption DEF MountFails, kubeletVars
  <2>2. undermined \subseteq undermined' /\ \A u \in Volumes, q \in Pods : <<u, q>> \in leaked => <<u, q>> \in leaked'
    BY <1>28, NoneAssumption DEF MountFails
  <2> QED
    BY <2>1, <2>2, TargetKept
<1>29. CASE UNCHANGED driverVars
  BY <1>29 DEF TargetInv, TypeKubelet, driverVars, kubeletVars, hostVars
<1> QED
  BY <1>1, <1>2, <1>3, <1>4, <1>5, <1>6, <1>7, <1>8, <1>9, <1>10, <1>11, <1>12,
     <1>13, <1>14, <1>15, <1>16, <1>17, <1>18, <1>19, <1>20, <1>21, <1>22, <1>23,
     <1>24, <1>25, <1>26, <1>27, <1>28, <1>29 DEF DriverNext, HandlerStep, Kubelet

=============================================================================
