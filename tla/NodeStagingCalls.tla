-------------------------- MODULE NodeStagingCalls --------------------------
(***************************************************************************)
(* Proofs about the calls of NodeStaging: the invariants that the proofs   *)
(* of its properties rest on, that every variable keeps its type, and that *)
(* a call is where its kind allows.                                        *)
(***************************************************************************)
EXTENDS NodeStaging, TLAPS

\* Most leaves are first-order: Zenon takes them, and a leaf that needs more says SMT.
USE Zenon

TypeFlags ==
    /\ live \in [Calls -> BOOLEAN] /\ dir \in [Volumes -> BOOLEAN]
    /\ stale \in [Volumes -> BOOLEAN] /\ root \in BOOLEAN /\ blind \in BOOLEAN

TypeNums ==
    /\ tries \in [Calls -> 0 .. Tries] /\ attempts \in [Volumes -> 0 .. 1]
    /\ mounts \in [Volumes -> 0 .. MaxMounts] /\ faults \in 0 .. MaxFaults

TypeCall ==
    /\ pc \in [Calls -> Steps] /\ kind \in [Calls -> {None} \cup Kinds]
    /\ vol \in [Calls -> {None} \cup Volumes] /\ pod \in [Calls -> {None} \cup Pods]

TypeKubelet ==
    /\ device \in [Volumes -> {"none", "staging", "staged", "unstaging"}]
    /\ use \in [Volumes -> [Pods -> {"none", "publishing", "published", "unpublishing"}]]

TypeLocks == lock \in [Volumes -> {None} \cup Calls] /\ rootLock \in {None} \cup Calls

TypeTarget == target \in [Volumes -> [Pods -> {None, "share", "local"}]]

TypeSets ==
    /\ markers \subseteq Volumes /\ undermined \subseteq Volumes \X Pods
    /\ leaked \subseteq Volumes \X ({None} \cup Pods)

\* Steps of a handler of each kind. A publish passes through the staging too.
StagingSteps == SlotSteps \cup {"slot"}
PublishSteps == {"target", "staging", "recheck", "bind"}
UnstageSteps == {"unstage", "umount", "rmdir", "marker", "root", "release", "unroot"}
DoneSteps == {"marker", "root", "release", "unroot"}

\* What a call is, by where it is.
CallInv ==
    \A c \in Calls : pc[c] # "idle" =>
        /\ vol[c] \in Volumes
        /\ kind[c] \in {"stage", "unstage"} => pod[c] = None
        /\ kind[c] \in {"publish", "unpublish"} => pod[c] \in Pods
        /\ pc[c] \in StagingSteps => kind[c] \in {"stage", "publish"}
        /\ pc[c] \in PublishSteps => kind[c] = "publish"
        /\ pc[c] = "lock" => kind[c] \in {"publish", "unpublish"}
        /\ pc[c] = "unbind" => kind[c] = "unpublish"
        /\ pc[c] \in UnstageSteps => kind[c] = "unstage"

TriesInv == \A c \in Calls : pc[c] \in {"check", "begin", "wait"} => tries[c] > 0

\* Past the lock, a publish or unpublish holds it.
Locked(c) == kind[c] \in {"publish", "unpublish"} /\ pc[c] \notin {"idle", "lock"}
LockInv == \A c \in Calls : Locked(c) => lock[vol[c]] = c

\* What kubelet waits for is what it has noted for the volume or the pod,
NotedInv ==
    \A c \in Calls : pc[c] # "idle" /\ live[c] =>
        /\ kind[c] \in Kinds
        /\ kind[c] = "stage" => device[vol[c]] = "staging"
        /\ kind[c] = "unstage" => device[vol[c]] = "unstaging"
        /\ kind[c] = "publish" => use[vol[c]][pod[c]] = "publishing"
        /\ kind[c] = "unpublish" => use[vol[c]][pod[c]] = "unpublishing"

\* it waits for one call at a time,
SingleInv ==
    \A c, d \in Calls :
        c # d /\ pc[c] # "idle" /\ pc[d] # "idle" /\ live[c] /\ live[d] /\ vol[c] = vol[d]
        => pod[c] # None /\ pod[d] # None /\ pod[c] # pod[d]

\* and pods use what is staged.
UseInv == \A v \in Volumes, p \in Pods : use[v][p] # "none" => device[v] = "staged"

KubeletInv == NotedInv /\ SingleInv /\ UseInv

\* A handler that has the lock keeps the pod from being done with, whether kubelet
\* still waits for it or not.
WorkInv ==
    \A c \in Calls : Locked(c) =>
        /\ use[vol[c]][pod[c]] \in {"publishing", "unpublishing"}
        /\ kind[c] = "unpublish" => use[vol[c]][pod[c]] = "unpublishing"

\* What is bound is the share, unless an abandoned unstage came in between.
BindInv ==
    \A c \in Calls : pc[c] = "bind" => mounts[vol[c]] > 0 \/ <<vol[c], pod[c]>> \in undermined

TargetInv ==
    \A v \in Volumes, p \in Pods :
        /\ target[v][p] = "local" => <<v, p>> \in undermined
        /\ use[v][p] = "published" => target[v][p] # None
        /\ use[v][p] = "none" => target[v][p] = None \/ <<v, p>> \in leaked

\* An unstage that is about to succeed has seen the staging path unmounted.
DoneInv ==
    /\ \A v \in Volumes : device[v] = "none" => mounts[v] = 0 \/ <<v, None>> \in leaked
    /\ \A c \in Calls : pc[c] \in DoneSteps /\ live[c] =>
           mounts[vol[c]] = 0 \/ <<vol[c], None>> \in leaked

IInv == TypeOK /\ CallInv /\ TriesInv /\ LockInv /\ SlotsAccounted /\ KubeletInv /\ WorkInv
        /\ BindInv /\ TargetInv /\ DoneInv /\ RootWhileMarked

-----------------------------------------------------------------------------
\* The parts of the type invariant.
LEMMA TypeParts == TypeOK <=>
    /\ TypeFlags /\ TypeNums /\ TypeCall /\ TypeKubelet /\ TypeLocks /\ TypeTarget /\ TypeSets
    /\ free \in 0 .. Slots /\ hung \subseteq Calls
BY DEF TypeOK, TypeFlags, TypeNums, TypeCall, TypeKubelet, TypeLocks, TypeTarget,
   TypeSets

\* The steps of the driver and its surroundings, whoever is stuck meanwhile.
DriverNext ==
    \/ \E c \in Calls : HandlerStep(c) \/ Kubelet(c)
    \/ \E v \in Volumes : Stale(v) \/ MountDone(v) \/ MountFails(v)
    \/ Restart

\* To get stuck or to go on changes nothing else.
LEMMA DriverStep ==
    ASSUME [Next]_vars PROVE [DriverNext]_driverVars
BY DEF Next, DriverNext, Handler, Hang, Resume, vars

LEMMA HungStep ==
    ASSUME hung \subseteq Calls, [Next]_vars PROVE hung' \subseteq Calls
<1>1. \/ UNCHANGED hung \/ hung' = {}
      \/ \E c \in Calls : hung' = hung \cup {c} \/ hung' = hung \ {c}
  BY DEF Next, Handler, Hang, Resume, vars
<1> QED
  BY SMT, <1>1

\* What an unmount leaves of the mounts, and whom it undermines.
LEMMA UnmountsIs ==
    ASSUME TypeNums, TypeCall, CallInv, NEW c \in Calls, vol[c] \in Volumes, Unmounts(c)
    PROVE  /\ \A v \in Volumes \ {vol[c]} : mounts'[v] = mounts[v]
           /\ undermined \subseteq undermined' /\ undermined' \subseteq undermined \cup (Volumes \X Pods)
           /\ live[c] \/ mounts'[vol[c]] > 0 \/
                  \A d \in Calls : pc[d] = "bind" /\ vol[d] = vol[c] => <<vol[d], pod[d]>> \in undermined'
<1>1. \A d \in Calls : pc[d] = "bind" => vol[d] \in Volumes /\ pod[d] \in Pods
  BY DEF CallInv, PublishSteps
<1>2. /\ mounts'[vol[c]] = mounts[vol[c]] - 1 /\ mounts[vol[c]] \in Nat
      /\ \A v \in Volumes \ {vol[c]} : mounts'[v] = mounts[v]
  BY SMT, BoundAssumption DEF Unmounts, TypeNums
<1>3. undermined \subseteq undermined' /\ undermined' \subseteq undermined \cup (Volumes \X Pods)
  BY SMT, <1>1 DEF Unmounts
<1>4. mounts[vol[c]] > 1 => mounts'[vol[c]] > 0
  BY SMT, <1>2
<1> QED
  BY <1>2, <1>3, <1>4 DEF Unmounts

\* The flags keep their types,
LEMMA FlagStep ==
    ASSUME TypeFlags, [DriverNext]_driverVars
    PROVE  TypeFlags'
<1>1. CASE Restart
  BY <1>1 DEF Restart, TypeFlags, kubeletVars
<1>2. ASSUME NEW c \in Calls, acquireMountSlot(c) PROVE TypeFlags'
  BY <1>2 DEF acquireMountSlot, TypeFlags, Step, Fail, StageRest, Goto, kubeletVars,
     End, HandlerRest
<1>3. ASSUME NEW c \in Calls, MountToDataPortal(c) PROVE TypeFlags'
  BY <1>3 DEF MountToDataPortal, TypeFlags, StageFails, NextPortal, Step, StageRest,
     Fail, Goto, kubeletVars, HandlerRest, End
<1>4. ASSUME NEW c \in Calls, MountShareCheck(c) PROVE TypeFlags'
  BY <1>4 DEF MountShareCheck, TypeFlags, Step, NextPortal, StageRest, Goto,
     kubeletVars, HandlerRest
<1>5. ASSUME NEW c \in Calls, beginMount(c) PROVE TypeFlags'
  BY <1>5 DEF beginMount, TypeFlags, Step, StageRest, HandlerRest
<1>6. ASSUME NEW c \in Calls, MountTimesOut(c) PROVE TypeFlags'
  BY <1>6 DEF MountTimesOut, TypeFlags, NextPortal, StageRest, HandlerRest
<1>7. ASSUME NEW c \in Calls, Staged(c) PROVE TypeFlags'
  BY <1>7 DEF Staged, TypeFlags, Succeed, Step, StageRest, End, Goto, kubeletVars,
     HandlerRest
<1>8. ASSUME NEW c \in Calls, acquireVolumeLock(c) PROVE TypeFlags'
  BY <1>8 DEF acquireVolumeLock, TypeFlags, Goto, kubeletVars, Fail, StageRest, End,
     HandlerRest
<1>9. ASSUME NEW c \in Calls, PublishTarget(c) PROVE TypeFlags'
  BY <1>9 DEF PublishTarget, TypeFlags, Target, StaleTarget, Succeed, Step, Fail,
     PodRest, End, Goto, kubeletVars, HandlerRest
<1>10. ASSUME NEW c \in Calls, PublishStaging(c) PROVE TypeFlags'
  BY <1>10 DEF PublishStaging, TypeFlags, Step, Fail, PodRest, Goto, kubeletVars,
     End, HandlerRest
<1>11. ASSUME NEW c \in Calls, PublishRecheck(c) PROVE TypeFlags'
  BY <1>11 DEF PublishRecheck, TypeFlags, Step, Fail, PodRest, Goto, kubeletVars,
     End, HandlerRest
<1>12. ASSUME NEW c \in Calls, PublishBind(c) PROVE TypeFlags'
  BY <1>12 DEF PublishBind, TypeFlags, Succeed, Fail, PodRest, End, kubeletVars,
     HandlerRest, Goto
<1>13. ASSUME NEW c \in Calls, Unpublish(c) PROVE TypeFlags'
  BY <1>13 DEF Unpublish, TypeFlags, Succeed, Target, Fail, PodRest, End,
     kubeletVars, HandlerRest, Goto
<1>14. ASSUME NEW c \in Calls, UnstageCheck(c) PROVE TypeFlags'
  BY <1>14 DEF UnstageCheck, TypeFlags, Step, Fail, UnstageRest, Goto, kubeletVars,
     End
<1>15. ASSUME NEW c \in Calls, UnstageUmount(c) PROVE TypeFlags'
  BY <1>15 DEF UnstageUmount, TypeFlags, Step, Fail, UnstageRest, Goto, kubeletVars,
     End
<1>16. ASSUME NEW c \in Calls, UnstageRmdir(c) PROVE TypeFlags'
  BY <1>16 DEF UnstageRmdir, TypeFlags, Step, Fail, UnstageRest, Goto, kubeletVars,
     End
<1>17. ASSUME NEW c \in Calls, LegacyMarker(c) PROVE TypeFlags'
  BY <1>17 DEF LegacyMarker, TypeFlags, Step, Succeed, LegacyRest, Goto,
     kubeletVars, End, UnstageRest
<1>18. ASSUME NEW c \in Calls, acquireRootMountLock(c) PROVE TypeFlags'
  BY <1>18 DEF acquireRootMountLock, TypeFlags, Goto, kubeletVars, Fail, LegacyRest,
     End, UnstageRest
<1>19. ASSUME NEW c \in Calls, LegacyRelease(c) PROVE TypeFlags'
  BY <1>19 DEF LegacyRelease, TypeFlags, Step, Fail, LegacyRest, Goto, kubeletVars,
     End, UnstageRest
<1>20. ASSUME NEW c \in Calls, LegacyUnmount(c) PROVE TypeFlags'
  BY <1>20 DEF LegacyUnmount, TypeFlags, Succeed, Fail, LegacyRest, End,
     kubeletVars, UnstageRest, Goto
<1>21. ASSUME NEW c \in Calls, Deadline(c) PROVE TypeFlags'
  BY <1>21 DEF Deadline, TypeFlags, hostVars, legacyVars
<1>22. ASSUME NEW c \in Calls, NEW v \in Volumes, NodeStageVolume(c, v) PROVE TypeFlags'
  BY <1>22 DEF NodeStageVolume, TypeFlags, Call, legacyVars
<1>23. ASSUME NEW c \in Calls, NEW v \in Volumes, NodeUnstageVolume(c, v) PROVE TypeFlags'
  BY <1>23 DEF NodeUnstageVolume, TypeFlags, Call, legacyVars
<1>24. ASSUME NEW c \in Calls, NEW v \in Volumes, NEW p \in Pods, NodePublishVolume(c, v, p) PROVE TypeFlags'
  BY <1>24 DEF NodePublishVolume, TypeFlags, Call, legacyVars
<1>25. ASSUME NEW c \in Calls, NEW v \in Volumes, NEW p \in Pods, NodeUnpublishVolume(c, v, p) PROVE TypeFlags'
  BY <1>25 DEF NodeUnpublishVolume, TypeFlags, Call, legacyVars
<1>26. ASSUME NEW v \in Volumes, Stale(v) PROVE TypeFlags'
  BY <1>26 DEF Stale, TypeFlags, callVars, legacyVars
<1>27. ASSUME NEW v \in Volumes, MountDone(v) PROVE TypeFlags'
  BY <1>27 DEF MountDone, TypeFlags, legacyVars
<1>28. ASSUME NEW v \in Volumes, MountFails(v) PROVE TypeFlags'
  BY <1>28 DEF MountFails, TypeFlags, legacyVars
<1>29. CASE UNCHANGED driverVars
  BY <1>29 DEF TypeFlags, driverVars, callVars, hostVars, legacyVars
<1> QED
  BY <1>1, <1>2, <1>3, <1>4, <1>5, <1>6, <1>7, <1>8, <1>9, <1>10, <1>11, <1>12,
     <1>13, <1>14, <1>15, <1>16, <1>17, <1>18, <1>19, <1>20, <1>21, <1>22, <1>23,
     <1>24, <1>25, <1>26, <1>27, <1>28, <1>29 DEF DriverNext, HandlerStep, Kubelet

\* so do the counters,
LEMMA NumStep ==
    ASSUME TypeNums, TypeCall, CallInv, TriesInv, [DriverNext]_driverVars
    PROVE  TypeNums'
<1>1. CASE Restart
  BY SMT, <1>1, BoundAssumption DEF Restart, TypeNums, TypeCall, Fault
<1>2. ASSUME NEW c \in Calls, acquireMountSlot(c) PROVE TypeNums'
  BY SMT, <1>2, BoundAssumption DEF acquireMountSlot, TypeNums, TypeCall, Step, Fail, End
<1>3. ASSUME NEW c \in Calls, MountToDataPortal(c) PROVE TypeNums'
  BY SMT, <1>3, BoundAssumption DEF MountToDataPortal, TypeNums, TypeCall, StageFails, Fault,
     NextPortal, Step, Fail, End
<1>4. ASSUME NEW c \in Calls, MountShareCheck(c) PROVE TypeNums'
  BY SMT, <1>4, BoundAssumption DEF MountShareCheck, TypeNums, TriesInv, TypeCall, Step,
     Fault, NextPortal
<1>5. ASSUME NEW c \in Calls, beginMount(c) PROVE TypeNums'
  BY SMT, <1>5 DEF beginMount, TypeNums, CallInv, TypeCall, Step
<1>6. ASSUME NEW c \in Calls, MountTimesOut(c) PROVE TypeNums'
  BY SMT, <1>6, BoundAssumption DEF MountTimesOut, TypeNums, TriesInv, TypeCall, NextPortal
<1>7. ASSUME NEW c \in Calls, Staged(c) PROVE TypeNums'
  BY SMT, <1>7, BoundAssumption DEF Staged, TypeNums, TypeCall, Succeed, Step, End
<1>8. ASSUME NEW c \in Calls, acquireVolumeLock(c) PROVE TypeNums'
  BY SMT, <1>8, BoundAssumption DEF acquireVolumeLock, TypeNums, TypeCall, Fail, End
<1>9. ASSUME NEW c \in Calls, PublishTarget(c) PROVE TypeNums'
  BY SMT, <1>9, BoundAssumption DEF PublishTarget, TypeNums, TypeCall, Succeed, Step, Fault,
     Fail, PodRest, End
<1>10. ASSUME NEW c \in Calls, PublishStaging(c) PROVE TypeNums'
  BY SMT, <1>10, BoundAssumption DEF PublishStaging, TypeNums, TypeCall, Step, Fail, Fault,
     PodRest, End
<1>11. ASSUME NEW c \in Calls, PublishRecheck(c) PROVE TypeNums'
  BY SMT, <1>11, BoundAssumption DEF PublishRecheck, TypeNums, TypeCall, Step, Fail, Fault,
     PodRest, End
<1>12. ASSUME NEW c \in Calls, PublishBind(c) PROVE TypeNums'
  BY SMT, <1>12, BoundAssumption DEF PublishBind, TypeNums, TypeCall, Succeed, Fail, Fault,
     PodRest, End
<1>13. ASSUME NEW c \in Calls, Unpublish(c) PROVE TypeNums'
  BY SMT, <1>13, BoundAssumption DEF Unpublish, TypeNums, TypeCall, Succeed, Fault, Fail,
     PodRest, End
<1>14. ASSUME NEW c \in Calls, UnstageCheck(c) PROVE TypeNums'
  BY SMT, <1>14, BoundAssumption DEF UnstageCheck, TypeNums, TypeCall, Step, Fail, Fault,
     UnstageRest, Unmounts, End
<1>15. ASSUME NEW c \in Calls, UnstageUmount(c) PROVE TypeNums'
  BY SMT, <1>15, BoundAssumption DEF UnstageUmount, TypeNums, TypeCall, Step, Fault, Fail,
     UnstageRest, Unmounts, End
<1>16. ASSUME NEW c \in Calls, UnstageRmdir(c) PROVE TypeNums'
  BY SMT, <1>16, BoundAssumption DEF UnstageRmdir, TypeNums, TypeCall, Step, Fail,
     UnstageRest, End
<1>17. ASSUME NEW c \in Calls, LegacyMarker(c) PROVE TypeNums'
  BY SMT, <1>17, BoundAssumption DEF LegacyMarker, TypeNums, TypeCall, Step, Succeed,
     LegacyRest, End, UnstageRest
<1>18. ASSUME NEW c \in Calls, acquireRootMountLock(c) PROVE TypeNums'
  BY SMT, <1>18, BoundAssumption DEF acquireRootMountLock, TypeNums, TypeCall, Fail,
     LegacyRest, End, UnstageRest
<1>19. ASSUME NEW c \in Calls, LegacyRelease(c) PROVE TypeNums'
  BY SMT, <1>19, BoundAssumption DEF LegacyRelease, TypeNums, TypeCall, Step, Fault, Fail,
     LegacyRest, End, UnstageRest
<1>20. ASSUME NEW c \in Calls, LegacyUnmount(c) PROVE TypeNums'
  BY SMT, <1>20, BoundAssumption DEF LegacyUnmount, TypeNums, TypeCall, Succeed, Fault, Fail,
     LegacyRest, End, UnstageRest
<1>21. ASSUME NEW c \in Calls, Deadline(c) PROVE TypeNums'
  BY SMT, <1>21, BoundAssumption DEF Deadline, TypeNums, TypeCall, Fault, hostVars
<1>22. ASSUME NEW c \in Calls, NEW v \in Volumes, NodeStageVolume(c, v) PROVE TypeNums'
  BY SMT, <1>22, BoundAssumption DEF NodeStageVolume, TypeNums, TypeCall, Call
<1>23. ASSUME NEW c \in Calls, NEW v \in Volumes, NodeUnstageVolume(c, v) PROVE TypeNums'
  BY SMT, <1>23, BoundAssumption DEF NodeUnstageVolume, TypeNums, TypeCall, Call
<1>24. ASSUME NEW c \in Calls, NEW v \in Volumes, NEW p \in Pods, NodePublishVolume(c, v, p) PROVE TypeNums'
  BY SMT, <1>24, BoundAssumption DEF NodePublishVolume, TypeNums, TypeCall, Call
<1>25. ASSUME NEW c \in Calls, NEW v \in Volumes, NEW p \in Pods, NodeUnpublishVolume(c, v, p) PROVE TypeNums'
  BY SMT, <1>25, BoundAssumption DEF NodeUnpublishVolume, TypeNums, TypeCall, Call
<1>26. ASSUME NEW v \in Volumes, Stale(v) PROVE TypeNums'
  BY SMT, <1>26, BoundAssumption DEF Stale, TypeNums, TypeCall, Fault, callVars
<1>27. ASSUME NEW v \in Volumes, MountDone(v) PROVE TypeNums'
  BY SMT, <1>27, BoundAssumption DEF MountDone, TypeNums, TypeCall
<1>28. ASSUME NEW v \in Volumes, MountFails(v) PROVE TypeNums'
  BY SMT, <1>28, BoundAssumption DEF MountFails, TypeNums, TriesInv, TypeCall, Fault, Waiters
<1>29. CASE UNCHANGED driverVars
  BY <1>29 DEF TypeNums, TypeCall, driverVars, callVars, hostVars
<1> QED
  BY <1>1, <1>2, <1>3, <1>4, <1>5, <1>6, <1>7, <1>8, <1>9, <1>10, <1>11, <1>12,
     <1>13, <1>14, <1>15, <1>16, <1>17, <1>18, <1>19, <1>20, <1>21, <1>22, <1>23,
     <1>24, <1>25, <1>26, <1>27, <1>28, <1>29 DEF DriverNext, HandlerStep, Kubelet

\* and what a call is,
LEMMA CallTypeStep ==
    ASSUME TypeCall, [DriverNext]_driverVars
    PROVE  TypeCall'
<1>1. CASE Restart
  BY <1>1 DEF Restart, TypeCall, Steps, Kinds, SlotSteps
<1>2. ASSUME NEW c \in Calls, acquireMountSlot(c) PROVE TypeCall'
  BY <1>2 DEF acquireMountSlot, TypeCall, Step, Fail, Steps, Goto, End, SlotSteps
<1>3. ASSUME NEW c \in Calls, MountToDataPortal(c) PROVE TypeCall'
  BY SMT, <1>3 DEF MountToDataPortal, TypeCall, StageFails, NextPortal, Step, Steps, Fail,
     Goto, SlotSteps, End
<1>4. ASSUME NEW c \in Calls, MountShareCheck(c) PROVE TypeCall'
  BY <1>4 DEF MountShareCheck, TypeCall, Step, NextPortal, Steps, Goto, SlotSteps
<1>5. ASSUME NEW c \in Calls, beginMount(c) PROVE TypeCall'
  BY <1>5 DEF beginMount, TypeCall, Step, Steps, Goto, SlotSteps
<1>6. ASSUME NEW c \in Calls, MountTimesOut(c) PROVE TypeCall'
  BY <1>6 DEF MountTimesOut, TypeCall, NextPortal, Steps, Goto, SlotSteps
<1>7. ASSUME NEW c \in Calls, Staged(c) PROVE TypeCall'
  BY <1>7 DEF Staged, TypeCall, Succeed, Step, Steps, End, Goto
<1>8. ASSUME NEW c \in Calls, acquireVolumeLock(c) PROVE TypeCall'
  BY <1>8 DEF acquireVolumeLock, TypeCall, Goto, Fail, Steps, End
<1>9. ASSUME NEW c \in Calls, PublishTarget(c) PROVE TypeCall'
  BY <1>9 DEF PublishTarget, TypeCall, Succeed, Step, Fail, Steps, End, Goto
<1>10. ASSUME NEW c \in Calls, PublishStaging(c) PROVE TypeCall'
  BY <1>10 DEF PublishStaging, TypeCall, Step, Fail, Steps, Goto, End
<1>11. ASSUME NEW c \in Calls, PublishRecheck(c) PROVE TypeCall'
  BY <1>11 DEF PublishRecheck, TypeCall, Step, Fail, Steps, Goto, End
<1>12. ASSUME NEW c \in Calls, PublishBind(c) PROVE TypeCall'
  BY <1>12 DEF PublishBind, TypeCall, Succeed, Fail, Steps, End, Goto
<1>13. ASSUME NEW c \in Calls, Unpublish(c) PROVE TypeCall'
  BY <1>13 DEF Unpublish, TypeCall, Succeed, Fail, Steps, End, Goto
<1>14. ASSUME NEW c \in Calls, UnstageCheck(c) PROVE TypeCall'
  <2>1. Step(c, "umount") \/ Step(c, "marker") \/ Fail(c)
    BY <1>14 DEF UnstageCheck
  <2> QED
    BY <2>1 DEF TypeCall, Step, Fail, Steps, Goto, End
<1>15. ASSUME NEW c \in Calls, UnstageUmount(c) PROVE TypeCall'
  BY <1>15 DEF UnstageUmount, TypeCall, Step, Fail, Steps, Goto, End
<1>16. ASSUME NEW c \in Calls, UnstageRmdir(c) PROVE TypeCall'
  BY SMT, <1>16 DEF UnstageRmdir, TypeCall, Step, Fail, Steps, Goto, End
<1>17. ASSUME NEW c \in Calls, LegacyMarker(c) PROVE TypeCall'
  BY SMT, <1>17 DEF LegacyMarker, TypeCall, Step, Succeed, Steps, Goto, End
<1>18. ASSUME NEW c \in Calls, acquireRootMountLock(c) PROVE TypeCall'
  BY <1>18 DEF acquireRootMountLock, TypeCall, Goto, Fail, Steps, End
<1>19. ASSUME NEW c \in Calls, LegacyRelease(c) PROVE TypeCall'
  BY <1>19 DEF LegacyRelease, TypeCall, Step, Fail, Steps, Goto, End
<1>20. ASSUME NEW c \in Calls, LegacyUnmount(c) PROVE TypeCall'
  BY <1>20 DEF LegacyUnmount, TypeCall, Succeed, Fail, Steps, End, Goto
<1>21. ASSUME NEW c \in Calls, Deadline(c) PROVE TypeCall'
  BY <1>21 DEF Deadline, TypeCall, Steps, Kinds, SlotSteps
<1>22. ASSUME NEW c \in Calls, NEW v \in Volumes, NodeStageVolume(c, v) PROVE TypeCall'
  BY <1>22 DEF NodeStageVolume, TypeCall, Call, Steps, Kinds, Goto
<1>23. ASSUME NEW c \in Calls, NEW v \in Volumes, NodeUnstageVolume(c, v) PROVE TypeCall'
  BY <1>23 DEF NodeUnstageVolume, TypeCall, Call, Steps, Kinds, Goto
<1>24. ASSUME NEW c \in Calls, NEW v \in Volumes, NEW p \in Pods, NodePublishVolume(c, v, p) PROVE TypeCall'
  BY <1>24 DEF NodePublishVolume, TypeCall, Call, Steps, Kinds, Goto
<1>25. ASSUME NEW c \in Calls, NEW v \in Volumes, NEW p \in Pods, NodeUnpublishVolume(c, v, p) PROVE TypeCall'
  BY <1>25 DEF NodeUnpublishVolume, TypeCall, Call, Steps, Kinds, Goto
<1>26. ASSUME NEW v \in Volumes, Stale(v) PROVE TypeCall'
  BY <1>26 DEF Stale, TypeCall, callVars
<1>27. ASSUME NEW v \in Volumes, MountDone(v) PROVE TypeCall'
  BY <1>27 DEF MountDone, TypeCall, Wake, Steps, SlotSteps
<1>28. ASSUME NEW v \in Volumes, MountFails(v) PROVE TypeCall'
  BY <1>28 DEF MountFails, TypeCall, Wake, Steps, SlotSteps
<1>29. CASE UNCHANGED driverVars
  BY <1>29 DEF TypeCall, driverVars, callVars
<1> QED
  BY <1>1, <1>2, <1>3, <1>4, <1>5, <1>6, <1>7, <1>8, <1>9, <1>10, <1>11, <1>12,
     <1>13, <1>14, <1>15, <1>16, <1>17, <1>18, <1>19, <1>20, <1>21, <1>22, <1>23,
     <1>24, <1>25, <1>26, <1>27, <1>28, <1>29 DEF DriverNext, HandlerStep, Kubelet

\* What the steps of a handler come to for kubelet: it goes on, gets the volume lock,
\* fails or succeeds.
Same(c) ==
    /\ pc[c] # "idle" /\ pc' = [pc EXCEPT ![c] = pc'[c]] /\ pc'[c] \in Steps \ {"idle", "lock"}
    /\ UNCHANGED <<kind, vol, pod, live, device, use>>
Progress(c) == Same(c) /\ pc[c] # "lock"
Granted(c) == Same(c) /\ pc[c] = "lock" /\ live[c]
Fails(c) == pc[c] # "idle" /\ Fail(c)
Succeeds(c) == pc[c] # "idle" /\ Succeed(c) /\ (pod[c] # None => Locked(c))
Moves(c) == Progress(c) \/ Granted(c) \/ Fails(c) \/ Succeeds(c)

\* Every step of a handler is one of these.
LEMMA HandlerMoves ==
    ASSUME TypeCall, CallInv, NEW c \in Calls, HandlerStep(c) PROVE Moves(c)
<1>1. ASSUME acquireMountSlot(c) PROVE Moves(c)
  BY <1>1 DEF acquireMountSlot, Step, Goto, kubeletVars, TypeCall, Moves, Progress,
     Fails, Same, Steps, SlotSteps
<1>2. ASSUME MountToDataPortal(c) PROVE Moves(c)
  BY <1>2 DEF MountToDataPortal, StageFails, NextPortal, Step, Goto, kubeletVars,
     TypeCall, Moves, Progress, Fails, Same, Steps, SlotSteps
<1>3. ASSUME MountShareCheck(c) PROVE Moves(c)
  BY <1>3 DEF MountShareCheck, Step, NextPortal, Goto, kubeletVars, TypeCall, Moves,
     Progress, Same, Steps, SlotSteps
<1>4. ASSUME beginMount(c) PROVE Moves(c)
  BY <1>4 DEF beginMount, Step, Goto, kubeletVars, TypeCall, Moves, Progress, Same,
     Steps, SlotSteps
<1>5. ASSUME MountTimesOut(c) PROVE Moves(c)
  BY <1>5 DEF MountTimesOut, NextPortal, Goto, kubeletVars, TypeCall, Moves, Progress,
     Same, Steps, SlotSteps
<1>6. ASSUME Staged(c) PROVE Moves(c)
  BY <1>6 DEF Staged, Step, Goto, kubeletVars, TypeCall, CallInv, Moves, Progress,
     Succeeds, Same, Steps
<1>7. ASSUME acquireVolumeLock(c) PROVE Moves(c)
  BY <1>7 DEF acquireVolumeLock, Goto, kubeletVars, TypeCall, Moves, Granted, Fails,
     Same, Steps
<1>8. ASSUME PublishTarget(c) PROVE Moves(c)
  BY <1>8 DEF PublishTarget, Step, Goto, kubeletVars, TypeCall, CallInv, Moves,
     Progress, Fails, Succeeds, Same, Steps, PublishSteps, Locked
<1>9. ASSUME PublishStaging(c) PROVE Moves(c)
  BY <1>9 DEF PublishStaging, Step, Goto, kubeletVars, TypeCall, Moves, Progress, Fails,
     Same, Steps
<1>10. ASSUME PublishRecheck(c) PROVE Moves(c)
  BY <1>10 DEF PublishRecheck, Step, Goto, kubeletVars, TypeCall, Moves, Progress,
     Fails, Same, Steps
<1>11. ASSUME PublishBind(c) PROVE Moves(c)
  BY <1>11 DEF PublishBind, TypeCall, CallInv, Moves, Fails, Succeeds, PublishSteps,
     Locked
<1>12. ASSUME Unpublish(c) PROVE Moves(c)
  BY <1>12 DEF Unpublish, TypeCall, CallInv, Moves, Fails, Succeeds, Locked
<1>13. ASSUME UnstageCheck(c) PROVE Moves(c)
  <2>1. pc[c] = "unstage" /\ (Step(c, "umount") \/ Step(c, "marker") \/ Fail(c))
    BY <1>13 DEF UnstageCheck
  <2> QED
    BY <2>1 DEF Step, Goto, kubeletVars, TypeCall, Moves, Progress, Fails, Same, Steps
<1>14. ASSUME UnstageUmount(c) PROVE Moves(c)
  BY <1>14 DEF UnstageUmount, Step, Goto, kubeletVars, TypeCall, Moves, Progress, Fails,
     Succeeds, Same, Steps, SlotSteps
<1>15. ASSUME UnstageRmdir(c) PROVE Moves(c)
  BY <1>15 DEF UnstageRmdir, Step, Goto, kubeletVars, TypeCall, Moves, Progress, Fails,
     Same, Steps
<1>16. ASSUME LegacyMarker(c) PROVE Moves(c)
  BY <1>16 DEF LegacyMarker, Step, Goto, kubeletVars, TypeCall, CallInv, Moves,
     Progress, Succeeds, Same, Steps, UnstageSteps
<1>17. ASSUME acquireRootMountLock(c) PROVE Moves(c)
  BY <1>17 DEF acquireRootMountLock, Goto, kubeletVars, TypeCall, Moves, Progress,
     Fails, Same, Steps
<1>18. ASSUME LegacyRelease(c) PROVE Moves(c)
  BY <1>18 DEF LegacyRelease, Step, Goto, kubeletVars, TypeCall, Moves, Progress, Fails,
     Same, Steps
<1>19. ASSUME LegacyUnmount(c) PROVE Moves(c)
  BY <1>19 DEF LegacyUnmount, TypeCall, CallInv, Moves, Fails, Succeeds, UnstageSteps
<1> QED
  BY <1>1, <1>2, <1>3, <1>4, <1>5, <1>6, <1>7, <1>8, <1>9, <1>10, <1>11, <1>12, <1>13,
     <1>14, <1>15, <1>16, <1>17, <1>18, <1>19 DEF HandlerStep

\* What kubelet notes keeps its type,
LEMMA KubeletTypeStep ==
    ASSUME TypeKubelet, TypeCall, CallInv, [DriverNext]_driverVars
    PROVE  TypeKubelet'
<1>1. ASSUME NEW c \in Calls, HandlerStep(c) PROVE TypeKubelet'
  <2>1. Moves(c)
    BY <1>1, HandlerMoves
  <2>2. CASE Progress(c)
    BY <2>2 DEF Progress, Same, TypeKubelet, TypeCall
  <2>3. CASE Granted(c)
    BY <2>3 DEF Granted, Same, TypeKubelet, TypeCall
  <2>4. CASE Fails(c)
    BY <2>4 DEF Fails, Fail, kubeletVars, TypeKubelet, TypeCall
  <2>5. CASE Succeeds(c)
    BY <2>5 DEF Succeeds, Succeed, Answer, TypeKubelet, TypeCall, CallInv
  <2> QED
    BY <2>1, <2>2, <2>3, <2>4, <2>5 DEF Moves
<1>2. CASE Restart
  BY <1>2 DEF Restart, TypeKubelet, TypeCall, kubeletVars
<1>3. ASSUME NEW c \in Calls, Deadline(c) PROVE TypeKubelet'
  BY <1>3 DEF Deadline, TypeKubelet, TypeCall, kubeletVars
<1>4. ASSUME NEW c \in Calls, NEW v \in Volumes, NodeStageVolume(c, v) PROVE TypeKubelet'
  BY <1>4 DEF NodeStageVolume, TypeKubelet, TypeCall
<1>5. ASSUME NEW c \in Calls, NEW v \in Volumes, NodeUnstageVolume(c, v) PROVE TypeKubelet'
  BY <1>5 DEF NodeUnstageVolume, TypeKubelet, TypeCall
<1>6. ASSUME NEW c \in Calls, NEW v \in Volumes, NEW p \in Pods, NodePublishVolume(c, v, p) PROVE TypeKubelet'
  BY <1>6 DEF NodePublishVolume, TypeKubelet, TypeCall
<1>7. ASSUME NEW c \in Calls, NEW v \in Volumes, NEW p \in Pods, NodeUnpublishVolume(c, v, p) PROVE TypeKubelet'
  BY <1>7 DEF NodeUnpublishVolume, TypeKubelet, TypeCall
<1>8. ASSUME NEW v \in Volumes, Stale(v) PROVE TypeKubelet'
  BY <1>8 DEF Stale, TypeKubelet, TypeCall, kubeletVars
<1>9. ASSUME NEW v \in Volumes, MountDone(v) PROVE TypeKubelet'
  BY <1>9 DEF MountDone, TypeKubelet, TypeCall, kubeletVars
<1>10. ASSUME NEW v \in Volumes, MountFails(v) PROVE TypeKubelet'
  BY <1>10 DEF MountFails, TypeKubelet, TypeCall, kubeletVars
<1>11. CASE UNCHANGED driverVars
  BY <1>11 DEF TypeKubelet, TypeCall, driverVars, kubeletVars
<1> QED
  BY <1>1, <1>2, <1>3, <1>4, <1>5, <1>6, <1>7, <1>8, <1>9, <1>10, <1>11 DEF DriverNext, Kubelet

\* the locks,
LEMMA LocksTypeStep ==
    ASSUME TypeLocks, TypeCall, CallInv, [DriverNext]_driverVars
    PROVE  TypeLocks'
<1>1. CASE Restart
  BY <1>1 DEF Restart, TypeLocks, TypeCall
<1>2. ASSUME NEW c \in Calls, acquireMountSlot(c) PROVE TypeLocks'
  BY SMT, <1>2 DEF acquireMountSlot, TypeLocks, TypeCall, Step, Fail, End, ReleaseLock,
     ReleaseRoot
<1>3. ASSUME NEW c \in Calls, MountToDataPortal(c) PROVE TypeLocks'
  BY SMT, <1>3 DEF MountToDataPortal, TypeLocks, TypeCall, StageFails, NextPortal, Step,
     Fail, End, ReleaseLock, ReleaseRoot
<1>4. ASSUME NEW c \in Calls, MountShareCheck(c) PROVE TypeLocks'
  BY <1>4 DEF MountShareCheck, TypeLocks, TypeCall, Step, NextPortal
<1>5. ASSUME NEW c \in Calls, beginMount(c) PROVE TypeLocks'
  BY <1>5 DEF beginMount, TypeLocks, TypeCall, Step
<1>6. ASSUME NEW c \in Calls, MountTimesOut(c) PROVE TypeLocks'
  BY <1>6 DEF MountTimesOut, TypeLocks, TypeCall, NextPortal
<1>7. ASSUME NEW c \in Calls, Staged(c) PROVE TypeLocks'
  BY <1>7 DEF Staged, TypeLocks, TypeCall, Succeed, Step, End, ReleaseLock, ReleaseRoot
<1>8. ASSUME NEW c \in Calls, acquireVolumeLock(c) PROVE TypeLocks'
  BY SMT, <1>8 DEF acquireVolumeLock, TypeLocks, TypeCall, Fail, End, ReleaseLock,
     ReleaseRoot
<1>9. ASSUME NEW c \in Calls, PublishTarget(c) PROVE TypeLocks'
  BY <1>9 DEF PublishTarget, TypeLocks, TypeCall, Succeed, Step, Fail, End, ReleaseLock,
     ReleaseRoot
<1>10. ASSUME NEW c \in Calls, PublishStaging(c) PROVE TypeLocks'
  BY SMT, <1>10 DEF PublishStaging, TypeLocks, TypeCall, Step, Fail, End, ReleaseLock,
     ReleaseRoot
<1>11. ASSUME NEW c \in Calls, PublishRecheck(c) PROVE TypeLocks'
  BY <1>11 DEF PublishRecheck, TypeLocks, TypeCall, Step, Fail, End, ReleaseLock,
     ReleaseRoot
<1>12. ASSUME NEW c \in Calls, PublishBind(c) PROVE TypeLocks'
  BY SMT, <1>12 DEF PublishBind, TypeLocks, TypeCall, Succeed, Fail, End, ReleaseLock,
     ReleaseRoot
<1>13. ASSUME NEW c \in Calls, Unpublish(c) PROVE TypeLocks'
  BY SMT, <1>13 DEF Unpublish, TypeLocks, TypeCall, Succeed, Fail, End, ReleaseLock,
     ReleaseRoot
<1>14. ASSUME NEW c \in Calls, UnstageCheck(c) PROVE TypeLocks'
  <2>1. Step(c, "umount") \/ Step(c, "marker") \/ Fail(c)
    BY <1>14 DEF UnstageCheck
  <2> QED
    BY SMT, <2>1 DEF TypeLocks, TypeCall, Step, Fail, End, ReleaseLock, ReleaseRoot
<1>15. ASSUME NEW c \in Calls, UnstageUmount(c) PROVE TypeLocks'
  BY SMT, <1>15 DEF UnstageUmount, TypeLocks, TypeCall, Step, Fail, End, SlotSteps,
     ReleaseLock, ReleaseRoot
<1>16. ASSUME NEW c \in Calls, UnstageRmdir(c) PROVE TypeLocks'
  BY <1>16 DEF UnstageRmdir, TypeLocks, TypeCall, Step, Fail, End, ReleaseLock,
     ReleaseRoot
<1>17. ASSUME NEW c \in Calls, LegacyMarker(c) PROVE TypeLocks'
  BY <1>17 DEF LegacyMarker, TypeLocks, TypeCall, Step, Succeed, End, ReleaseLock,
     ReleaseRoot
<1>18. ASSUME NEW c \in Calls, acquireRootMountLock(c) PROVE TypeLocks'
  BY SMT, <1>18 DEF acquireRootMountLock, TypeLocks, TypeCall, Fail, End, ReleaseLock,
     ReleaseRoot
<1>19. ASSUME NEW c \in Calls, LegacyRelease(c) PROVE TypeLocks'
  BY <1>19 DEF LegacyRelease, TypeLocks, TypeCall, Step, Fail, End, ReleaseLock,
     ReleaseRoot
<1>20. ASSUME NEW c \in Calls, LegacyUnmount(c) PROVE TypeLocks'
  BY SMT, <1>20 DEF LegacyUnmount, TypeLocks, TypeCall, Succeed, Fail, End, ReleaseLock,
     ReleaseRoot
<1>21. ASSUME NEW c \in Calls, Deadline(c) PROVE TypeLocks'
  BY <1>21 DEF Deadline, TypeLocks, TypeCall, lockVars
<1>22. ASSUME NEW c \in Calls, NEW v \in Volumes, NodeStageVolume(c, v) PROVE TypeLocks'
  BY <1>22 DEF NodeStageVolume, TypeLocks, TypeCall, Call, lockVars
<1>23. ASSUME NEW c \in Calls, NEW v \in Volumes, NodeUnstageVolume(c, v) PROVE TypeLocks'
  BY <1>23 DEF NodeUnstageVolume, TypeLocks, TypeCall, Call, lockVars
<1>24. ASSUME NEW c \in Calls, NEW v \in Volumes, NEW p \in Pods, NodePublishVolume(c, v, p) PROVE TypeLocks'
  BY <1>24 DEF NodePublishVolume, TypeLocks, TypeCall, Call, lockVars
<1>25. ASSUME NEW c \in Calls, NEW v \in Volumes, NEW p \in Pods, NodeUnpublishVolume(c, v, p) PROVE TypeLocks'
  BY <1>25 DEF NodeUnpublishVolume, TypeLocks, TypeCall, Call, lockVars
<1>26. ASSUME NEW v \in Volumes, Stale(v) PROVE TypeLocks'
  BY <1>26 DEF Stale, TypeLocks, TypeCall, lockVars
<1>27. ASSUME NEW v \in Volumes, MountDone(v) PROVE TypeLocks'
  BY <1>27 DEF MountDone, TypeLocks, TypeCall, lockVars
<1>28. ASSUME NEW v \in Volumes, MountFails(v) PROVE TypeLocks'
  BY <1>28 DEF MountFails, TypeLocks, TypeCall, lockVars
<1>29. CASE UNCHANGED driverVars
  BY <1>29 DEF TypeLocks, TypeCall, driverVars, lockVars
<1> QED
  BY <1>1, <1>2, <1>3, <1>4, <1>5, <1>6, <1>7, <1>8, <1>9, <1>10, <1>11, <1>12,
     <1>13, <1>14, <1>15, <1>16, <1>17, <1>18, <1>19, <1>20, <1>21, <1>22, <1>23,
     <1>24, <1>25, <1>26, <1>27, <1>28, <1>29 DEF DriverNext, HandlerStep, Kubelet

\* the targets
LEMMA TargetTypeStep ==
    ASSUME TypeTarget, TypeCall, CallInv, [DriverNext]_driverVars
    PROVE  TypeTarget'
<1>1. CASE Restart
  BY <1>1 DEF Restart, TypeTarget, TypeCall
<1>2. ASSUME NEW c \in Calls, acquireMountSlot(c) PROVE TypeTarget'
  BY <1>2 DEF acquireMountSlot, TypeTarget, TypeCall, StageRest
<1>3. ASSUME NEW c \in Calls, MountToDataPortal(c) PROVE TypeTarget'
  BY <1>3 DEF MountToDataPortal, TypeTarget, TypeCall, StageRest
<1>4. ASSUME NEW c \in Calls, MountShareCheck(c) PROVE TypeTarget'
  BY <1>4 DEF MountShareCheck, TypeTarget, TypeCall, StageRest
<1>5. ASSUME NEW c \in Calls, beginMount(c) PROVE TypeTarget'
  BY <1>5 DEF beginMount, TypeTarget, TypeCall, StageRest
<1>6. ASSUME NEW c \in Calls, MountTimesOut(c) PROVE TypeTarget'
  BY <1>6 DEF MountTimesOut, TypeTarget, TypeCall, StageRest
<1>7. ASSUME NEW c \in Calls, Staged(c) PROVE TypeTarget'
  BY <1>7 DEF Staged, TypeTarget, TypeCall, StageRest
<1>8. ASSUME NEW c \in Calls, acquireVolumeLock(c) PROVE TypeTarget'
  BY <1>8 DEF acquireVolumeLock, TypeTarget, TypeCall, StageRest
<1>9. ASSUME NEW c \in Calls, PublishTarget(c) PROVE TypeTarget'
  BY SMT, <1>9 DEF PublishTarget, TypeTarget, TypeCall, SetTarget
<1>10. ASSUME NEW c \in Calls, PublishStaging(c) PROVE TypeTarget'
  BY <1>10 DEF PublishStaging, TypeTarget, TypeCall
<1>11. ASSUME NEW c \in Calls, PublishRecheck(c) PROVE TypeTarget'
  BY <1>11 DEF PublishRecheck, TypeTarget, TypeCall
<1>12. ASSUME NEW c \in Calls, PublishBind(c) PROVE TypeTarget'
  BY SMT, <1>12 DEF PublishBind, TypeTarget, TypeCall, Bound, SetTarget
<1>13. ASSUME NEW c \in Calls, Unpublish(c) PROVE TypeTarget'
  BY SMT, <1>13 DEF Unpublish, TypeTarget, TypeCall, SetTarget
<1>14. ASSUME NEW c \in Calls, UnstageCheck(c) PROVE TypeTarget'
  BY <1>14 DEF UnstageCheck, TypeTarget, TypeCall, UnstageRest
<1>15. ASSUME NEW c \in Calls, UnstageUmount(c) PROVE TypeTarget'
  BY <1>15 DEF UnstageUmount, TypeTarget, TypeCall, UnstageRest
<1>16. ASSUME NEW c \in Calls, UnstageRmdir(c) PROVE TypeTarget'
  BY <1>16 DEF UnstageRmdir, TypeTarget, TypeCall, UnstageRest
<1>17. ASSUME NEW c \in Calls, LegacyMarker(c) PROVE TypeTarget'
  BY <1>17 DEF LegacyMarker, TypeTarget, TypeCall, LegacyRest, UnstageRest
<1>18. ASSUME NEW c \in Calls, acquireRootMountLock(c) PROVE TypeTarget'
  BY <1>18 DEF acquireRootMountLock, TypeTarget, TypeCall, LegacyRest, UnstageRest
<1>19. ASSUME NEW c \in Calls, LegacyRelease(c) PROVE TypeTarget'
  BY <1>19 DEF LegacyRelease, TypeTarget, TypeCall, LegacyRest, UnstageRest
<1>20. ASSUME NEW c \in Calls, LegacyUnmount(c) PROVE TypeTarget'
  BY <1>20 DEF LegacyUnmount, TypeTarget, TypeCall, LegacyRest, UnstageRest
<1>21. ASSUME NEW c \in Calls, Deadline(c) PROVE TypeTarget'
  BY <1>21 DEF Deadline, TypeTarget, TypeCall, hostVars
<1>22. ASSUME NEW c \in Calls, NEW v \in Volumes, NodeStageVolume(c, v) PROVE TypeTarget'
  BY <1>22 DEF NodeStageVolume, TypeTarget, TypeCall, Call
<1>23. ASSUME NEW c \in Calls, NEW v \in Volumes, NodeUnstageVolume(c, v) PROVE TypeTarget'
  BY <1>23 DEF NodeUnstageVolume, TypeTarget, TypeCall, Call
<1>24. ASSUME NEW c \in Calls, NEW v \in Volumes, NEW p \in Pods, NodePublishVolume(c, v, p) PROVE TypeTarget'
  BY <1>24 DEF NodePublishVolume, TypeTarget, TypeCall, Call
<1>25. ASSUME NEW c \in Calls, NEW v \in Volumes, NEW p \in Pods, NodeUnpublishVolume(c, v, p) PROVE TypeTarget'
  BY <1>25 DEF NodeUnpublishVolume, TypeTarget, TypeCall, Call
<1>26. ASSUME NEW v \in Volumes, Stale(v) PROVE TypeTarget'
  BY <1>26 DEF Stale, TypeTarget, TypeCall
<1>27. ASSUME NEW v \in Volumes, MountDone(v) PROVE TypeTarget'
  BY <1>27 DEF MountDone, TypeTarget, TypeCall
<1>28. ASSUME NEW v \in Volumes, MountFails(v) PROVE TypeTarget'
  BY <1>28 DEF MountFails, TypeTarget, TypeCall
<1>29. CASE UNCHANGED driverVars
  BY <1>29 DEF TypeTarget, TypeCall, driverVars, hostVars
<1> QED
  BY <1>1, <1>2, <1>3, <1>4, <1>5, <1>6, <1>7, <1>8, <1>9, <1>10, <1>11, <1>12,
     <1>13, <1>14, <1>15, <1>16, <1>17, <1>18, <1>19, <1>20, <1>21, <1>22, <1>23,
     <1>24, <1>25, <1>26, <1>27, <1>28, <1>29 DEF DriverNext, HandlerStep, Kubelet

\* and the sets.
LEMMA SetsTypeStep ==
    ASSUME TypeSets, TypeNums, TypeCall, CallInv, [DriverNext]_driverVars
    PROVE  TypeSets'
<1>1. CASE Restart
  BY <1>1 DEF Restart, TypeSets, TypeCall, CallInv
<1>2. ASSUME NEW c \in Calls, acquireMountSlot(c) PROVE TypeSets'
  BY <1>2 DEF acquireMountSlot, TypeSets, TypeCall, StageRest, HandlerRest
<1>3. ASSUME NEW c \in Calls, MountToDataPortal(c) PROVE TypeSets'
  BY <1>3 DEF MountToDataPortal, TypeSets, TypeCall, StageRest, HandlerRest
<1>4. ASSUME NEW c \in Calls, MountShareCheck(c) PROVE TypeSets'
  BY <1>4 DEF MountShareCheck, TypeSets, TypeCall, StageRest, HandlerRest
<1>5. ASSUME NEW c \in Calls, beginMount(c) PROVE TypeSets'
  BY <1>5 DEF beginMount, TypeSets, TypeCall, StageRest, HandlerRest
<1>6. ASSUME NEW c \in Calls, MountTimesOut(c) PROVE TypeSets'
  BY <1>6 DEF MountTimesOut, TypeSets, TypeCall, StageRest, HandlerRest
<1>7. ASSUME NEW c \in Calls, Staged(c) PROVE TypeSets'
  BY <1>7 DEF Staged, TypeSets, TypeCall, StageRest, HandlerRest
<1>8. ASSUME NEW c \in Calls, acquireVolumeLock(c) PROVE TypeSets'
  BY <1>8 DEF acquireVolumeLock, TypeSets, TypeCall, StageRest, HandlerRest
<1>9. ASSUME NEW c \in Calls, PublishTarget(c) PROVE TypeSets'
  BY <1>9 DEF PublishTarget, TypeSets, TypeCall, HandlerRest
<1>10. ASSUME NEW c \in Calls, PublishStaging(c) PROVE TypeSets'
  BY <1>10 DEF PublishStaging, TypeSets, TypeCall, PodRest, HandlerRest
<1>11. ASSUME NEW c \in Calls, PublishRecheck(c) PROVE TypeSets'
  BY <1>11 DEF PublishRecheck, TypeSets, TypeCall, PodRest, HandlerRest
<1>12. ASSUME NEW c \in Calls, PublishBind(c) PROVE TypeSets'
  BY <1>12 DEF PublishBind, TypeSets, TypeCall, PodRest, HandlerRest
<1>13. ASSUME NEW c \in Calls, Unpublish(c) PROVE TypeSets'
  <2>1. vol[c] \in Volumes /\ pod[c] \in {None} \cup Pods
    BY <1>13 DEF Unpublish, CallInv, TypeCall
  <2>2. UNCHANGED <<markers, undermined>> /\ leaked' \subseteq leaked \cup {<<vol[c], pod[c]>>}
    BY <1>13 DEF Unpublish, Leaks, PodRest, HandlerRest
  <2> QED
    BY SMT, <2>1, <2>2 DEF TypeSets
<1>14. ASSUME NEW c \in Calls, UnstageCheck(c) PROVE TypeSets'
  <2>1. vol[c] \in Volumes /\ pod[c] \in {None} \cup Pods /\ UNCHANGED markers
    BY <1>14 DEF UnstageCheck, CallInv, TypeCall
  <2>2. leaked' \subseteq leaked \cup {<<vol[c], pod[c]>>}
    BY <1>14 DEF UnstageCheck, Leaks
  <2>3. undermined' \subseteq undermined \cup (Volumes \X Pods)
    BY <1>14, <2>1, UnmountsIs DEF UnstageCheck
  <2> QED
    BY SMT, <2>1, <2>2, <2>3 DEF TypeSets
<1>15. ASSUME NEW c \in Calls, UnstageUmount(c) PROVE TypeSets'
  <2>1. vol[c] \in Volumes /\ pod[c] \in {None} \cup Pods /\ UNCHANGED markers
    BY <1>15 DEF UnstageUmount, CallInv, TypeCall
  <2>2. leaked' \subseteq leaked \cup {<<vol[c], pod[c]>>}
    BY <1>15 DEF UnstageUmount, Leaks
  <2>3. undermined' \subseteq undermined \cup (Volumes \X Pods)
    BY <1>15, <2>1, UnmountsIs DEF UnstageUmount
  <2> QED
    BY SMT, <2>1, <2>2, <2>3 DEF TypeSets
<1>16. ASSUME NEW c \in Calls, UnstageRmdir(c) PROVE TypeSets'
  BY <1>16 DEF UnstageRmdir, TypeSets, TypeCall
<1>17. ASSUME NEW c \in Calls, LegacyMarker(c) PROVE TypeSets'
  BY <1>17 DEF LegacyMarker, TypeSets, TypeCall, LegacyRest
<1>18. ASSUME NEW c \in Calls, acquireRootMountLock(c) PROVE TypeSets'
  BY <1>18 DEF acquireRootMountLock, TypeSets, TypeCall, LegacyRest
<1>19. ASSUME NEW c \in Calls, LegacyRelease(c) PROVE TypeSets'
  BY <1>19 DEF LegacyRelease, TypeSets, TypeCall, LegacyRest
<1>20. ASSUME NEW c \in Calls, LegacyUnmount(c) PROVE TypeSets'
  BY <1>20 DEF LegacyUnmount, TypeSets, TypeCall, LegacyRest
<1>21. ASSUME NEW c \in Calls, Deadline(c) PROVE TypeSets'
  BY <1>21 DEF Deadline, TypeSets, TypeCall, CallInv, legacyVars
<1>22. ASSUME NEW c \in Calls, NEW v \in Volumes, NodeStageVolume(c, v) PROVE TypeSets'
  BY <1>22 DEF NodeStageVolume, TypeSets, TypeCall, Call, legacyVars
<1>23. ASSUME NEW c \in Calls, NEW v \in Volumes, NodeUnstageVolume(c, v) PROVE TypeSets'
  BY <1>23 DEF NodeUnstageVolume, TypeSets, TypeCall, Call, legacyVars
<1>24. ASSUME NEW c \in Calls, NEW v \in Volumes, NEW p \in Pods, NodePublishVolume(c, v, p) PROVE TypeSets'
  BY <1>24 DEF NodePublishVolume, TypeSets, TypeCall, Call, legacyVars
<1>25. ASSUME NEW c \in Calls, NEW v \in Volumes, NEW p \in Pods, NodeUnpublishVolume(c, v, p) PROVE TypeSets'
  BY <1>25 DEF NodeUnpublishVolume, TypeSets, TypeCall, Call, legacyVars
<1>26. ASSUME NEW v \in Volumes, Stale(v) PROVE TypeSets'
  BY <1>26 DEF Stale, TypeSets, TypeCall, legacyVars
<1>27. ASSUME NEW v \in Volumes, MountDone(v) PROVE TypeSets'
  BY SMT, <1>27 DEF MountDone, TypeSets, TypeCall, legacyVars
<1>28. ASSUME NEW v \in Volumes, MountFails(v) PROVE TypeSets'
  BY <1>28 DEF MountFails, TypeSets, TypeCall, legacyVars
<1>29. CASE UNCHANGED driverVars
  BY <1>29 DEF TypeSets, TypeCall, CallInv, driverVars, legacyVars
<1> QED
  BY <1>1, <1>2, <1>3, <1>4, <1>5, <1>6, <1>7, <1>8, <1>9, <1>10, <1>11, <1>12,
     <1>13, <1>14, <1>15, <1>16, <1>17, <1>18, <1>19, <1>20, <1>21, <1>22, <1>23,
     <1>24, <1>25, <1>26, <1>27, <1>28, <1>29 DEF DriverNext, HandlerStep, Kubelet

\* A call that ends is idle,
LEMMA CallEnds ==
    ASSUME TypeCall, CallInv, NEW c \in Calls, Fail(c) \/ Succeed(c) PROVE CallInv'
<1>1. pc'[c] = "idle" /\ \A d \in Calls \ {c} :
          pc'[d] = pc[d] /\ kind'[d] = kind[d] /\ vol'[d] = vol[d] /\ pod'[d] = pod[d]
  BY DEF Fail, Succeed, End, Goto, TypeCall
<1> QED
  BY <1>1 DEF CallInv

\* one that goes on goes to a step of its kind,
GoesOn(c, s) == pc[c] # "idle" /\ Goto(c, s) /\ UNCHANGED <<kind, vol, pod>>

LEMMA CallGoesOn ==
    ASSUME TypeCall, CallInv, NEW c \in Calls, NEW s, GoesOn(c, s),
           s \in StagingSteps => kind[c] \in {"stage", "publish"},
           s \in PublishSteps => kind[c] = "publish",
           s # "lock",
           s = "unbind" => kind[c] = "unpublish",
           s \in UnstageSteps => kind[c] = "unstage"
    PROVE  CallInv'
<1>1. /\ UNCHANGED <<kind, vol, pod>> /\ pc[c] # "idle" /\ pc'[c] = s
      /\ \A d \in Calls \ {c} : pc'[d] = pc[d]
  BY DEF GoesOn, Goto, TypeCall
<1> QED
  BY <1>1 DEF CallInv

\* most often to one of the same operation.
Within(c, S) == pc[c] \in S /\ \E s \in S : GoesOn(c, s)

LEMMA StepsApart ==
    /\ StagingSteps \cap (PublishSteps \cup UnstageSteps \cup {"lock", "unbind"}) = {}
    /\ PublishSteps \cap (UnstageSteps \cup {"lock", "unbind"}) = {}
    /\ UnstageSteps \cap {"lock", "unbind"} = {}
BY DEF StagingSteps, PublishSteps, UnstageSteps, SlotSteps

LEMMA CallWithin ==
    ASSUME TypeCall, CallInv, NEW c \in Calls,
           Within(c, StagingSteps) \/ Within(c, PublishSteps) \/ Within(c, UnstageSteps)
    PROVE  CallInv'
<1>1. CASE Within(c, StagingSteps)
  <2>1. PICK s \in StagingSteps : GoesOn(c, s)
    BY <1>1 DEF Within
  <2>2. kind[c] \in {"stage", "publish"}
    BY <1>1, <2>1 DEF Within, GoesOn, CallInv
  <2> QED
    BY <2>1, <2>2, StepsApart, CallGoesOn
<1>2. CASE Within(c, PublishSteps)
  <2>1. PICK s \in PublishSteps : GoesOn(c, s)
    BY <1>2 DEF Within
  <2>2. kind[c] = "publish"
    BY <1>2, <2>1 DEF Within, GoesOn, CallInv
  <2> QED
    BY <2>1, <2>2, StepsApart, CallGoesOn
<1>3. CASE Within(c, UnstageSteps)
  <2>1. PICK s \in UnstageSteps : GoesOn(c, s)
    BY <1>3 DEF Within
  <2>2. kind[c] = "unstage"
    BY <1>3, <2>1 DEF Within, GoesOn, CallInv
  <2> QED
    BY <2>1, <2>2, StepsApart, CallGoesOn
<1> QED
  BY <1>1, <1>2, <1>3

\* A handler only passes through the steps of its kind,
LEMMA CallStep ==
    ASSUME TypeCall, CallInv, [DriverNext]_driverVars
    PROVE  CallInv'
<1>1. CASE Restart
  BY <1>1 DEF Restart, CallInv, TypeCall
<1>2. ASSUME NEW c \in Calls, acquireMountSlot(c) PROVE CallInv'
  <2>1. Fail(c) \/ Within(c, StagingSteps)
    BY <1>2 DEF acquireMountSlot, Step, Within, GoesOn, StagingSteps, SlotSteps
  <2> QED
    BY <2>1, CallEnds, CallWithin
<1>3. ASSUME NEW c \in Calls, MountToDataPortal(c) PROVE CallInv'
  <2>1. Fail(c) \/ Within(c, StagingSteps)
    BY <1>3 DEF MountToDataPortal, StageFails, NextPortal, Step, Within, GoesOn, StagingSteps, SlotSteps
  <2> QED
    BY <2>1, CallEnds, CallWithin
<1>4. ASSUME NEW c \in Calls, MountShareCheck(c) PROVE CallInv'
  <2>1. Within(c, StagingSteps)
    BY <1>4 DEF MountShareCheck, NextPortal, Step, Within, GoesOn, StagingSteps, SlotSteps
  <2> QED
    BY <2>1, CallWithin
<1>5. ASSUME NEW c \in Calls, beginMount(c) PROVE CallInv'
  <2>1. Within(c, StagingSteps)
    BY <1>5 DEF beginMount, Step, Within, GoesOn, StagingSteps, SlotSteps
  <2> QED
    BY <2>1, CallWithin
<1>6. ASSUME NEW c \in Calls, MountTimesOut(c) PROVE CallInv'
  <2>1. Within(c, StagingSteps)
    BY <1>6 DEF MountTimesOut, NextPortal, Within, GoesOn, StagingSteps, SlotSteps
  <2> QED
    BY <2>1, CallWithin
<1>7. ASSUME NEW c \in Calls, Staged(c) PROVE CallInv'
  <2>1. Succeed(c) \/ (kind[c] # "stage" /\ GoesOn(c, "recheck"))
    BY <1>7 DEF Staged, Step, GoesOn
  <2>2. kind[c] \in {"stage", "publish"}
    BY <1>7 DEF Staged, CallInv, StagingSteps, SlotSteps
  <2>3. "recheck" \in PublishSteps
    BY DEF PublishSteps
  <2> QED
    BY <2>1, <2>2, <2>3, StepsApart, CallEnds, CallGoesOn
<1>8. ASSUME NEW c \in Calls, acquireVolumeLock(c) PROVE CallInv'
  <2>1. \/ Fail(c)
        \/ kind[c] = "publish" /\ GoesOn(c, "target")
        \/ kind[c] # "publish" /\ GoesOn(c, "unbind")
    BY <1>8 DEF acquireVolumeLock, GoesOn
  <2>2. kind[c] \in {"publish", "unpublish"}
    BY <1>8 DEF acquireVolumeLock, CallInv
  <2>3. "target" \in PublishSteps
    BY DEF PublishSteps
  <2> QED
    BY <2>1, <2>2, <2>3, StepsApart, CallEnds, CallGoesOn
<1>9. ASSUME NEW c \in Calls, PublishTarget(c) PROVE CallInv'
  <2>1. Fail(c) \/ Succeed(c) \/ Within(c, PublishSteps)
    BY <1>9 DEF PublishTarget, Step, Within, GoesOn, PublishSteps
  <2> QED
    BY <2>1, CallEnds, CallWithin
<1>10. ASSUME NEW c \in Calls, PublishStaging(c) PROVE CallInv'
  <2>1. Fail(c) \/ Within(c, PublishSteps) \/ GoesOn(c, "slot")
    BY <1>10 DEF PublishStaging, Step, Within, GoesOn, PublishSteps
  <2>2. kind[c] = "publish"
    BY <1>10 DEF PublishStaging, CallInv, PublishSteps
  <2>3. "slot" \in StagingSteps
    BY DEF StagingSteps
  <2> QED
    BY <2>1, <2>2, <2>3, StepsApart, CallEnds, CallWithin, CallGoesOn
<1>11. ASSUME NEW c \in Calls, PublishRecheck(c) PROVE CallInv'
  <2>1. Fail(c) \/ Within(c, PublishSteps)
    BY <1>11 DEF PublishRecheck, Step, Within, GoesOn, PublishSteps
  <2> QED
    BY <2>1, CallEnds, CallWithin
<1>12. ASSUME NEW c \in Calls, PublishBind(c) PROVE CallInv'
  <2>1. Fail(c) \/ Succeed(c)
    BY <1>12 DEF PublishBind
  <2> QED
    BY <2>1, CallEnds
<1>13. ASSUME NEW c \in Calls, Unpublish(c) PROVE CallInv'
  <2>1. Fail(c) \/ Succeed(c)
    BY <1>13 DEF Unpublish
  <2> QED
    BY <2>1, CallEnds
<1>14. ASSUME NEW c \in Calls, UnstageCheck(c) PROVE CallInv'
  <2>1. Fail(c) \/ Within(c, UnstageSteps)
    BY <1>14 DEF UnstageCheck, Step, Within, GoesOn, UnstageSteps
  <2> QED
    BY <2>1, CallEnds, CallWithin
<1>15. ASSUME NEW c \in Calls, UnstageUmount(c) PROVE CallInv'
  <2>1. Fail(c) \/ Within(c, UnstageSteps)
    BY <1>15 DEF UnstageUmount, Step, Within, GoesOn, UnstageSteps
  <2> QED
    BY <2>1, CallEnds, CallWithin
<1>16. ASSUME NEW c \in Calls, UnstageRmdir(c) PROVE CallInv'
  <2>1. Fail(c) \/ Within(c, UnstageSteps)
    BY <1>16 DEF UnstageRmdir, Step, Within, GoesOn, UnstageSteps
  <2> QED
    BY <2>1, CallEnds, CallWithin
<1>17. ASSUME NEW c \in Calls, LegacyMarker(c) PROVE CallInv'
  <2>1. Succeed(c) \/ Within(c, UnstageSteps)
    BY <1>17 DEF LegacyMarker, Step, Within, GoesOn, UnstageSteps
  <2> QED
    BY <2>1, CallEnds, CallWithin
<1>18. ASSUME NEW c \in Calls, acquireRootMountLock(c) PROVE CallInv'
  <2>1. Fail(c) \/ Within(c, UnstageSteps)
    BY <1>18 DEF acquireRootMountLock, Within, GoesOn, UnstageSteps
  <2> QED
    BY <2>1, CallEnds, CallWithin
<1>19. ASSUME NEW c \in Calls, LegacyRelease(c) PROVE CallInv'
  <2>1. Fail(c) \/ Within(c, UnstageSteps)
    BY <1>19 DEF LegacyRelease, Step, Within, GoesOn, UnstageSteps
  <2> QED
    BY <2>1, CallEnds, CallWithin
<1>20. ASSUME NEW c \in Calls, LegacyUnmount(c) PROVE CallInv'
  <2>1. Fail(c) \/ Succeed(c)
    BY <1>20 DEF LegacyUnmount
  <2> QED
    BY <2>1, CallEnds
<1>21. ASSUME NEW c \in Calls, Deadline(c) PROVE CallInv'
  BY <1>21 DEF Deadline, CallInv, TypeCall
<1>22. ASSUME NEW c \in Calls, NEW v \in Volumes, NodeStageVolume(c, v) PROVE CallInv'
  BY <1>22 DEF NodeStageVolume, CallInv, TypeCall, Call, PublishSteps, UnstageSteps,
     Goto
<1>23. ASSUME NEW c \in Calls, NEW v \in Volumes, NodeUnstageVolume(c, v) PROVE CallInv'
  BY <1>23 DEF NodeUnstageVolume, CallInv, TypeCall, Call, StagingSteps, PublishSteps,
     Goto, SlotSteps
<1>24. ASSUME NEW c \in Calls, NEW v \in Volumes, NEW p \in Pods, NodePublishVolume(c, v, p) PROVE CallInv'
  BY <1>24 DEF NodePublishVolume, CallInv, TypeCall, Call, UnstageSteps, Goto
<1>25. ASSUME NEW c \in Calls, NEW v \in Volumes, NEW p \in Pods, NodeUnpublishVolume(c, v, p) PROVE CallInv'
  BY <1>25 DEF NodeUnpublishVolume, CallInv, TypeCall, Call, StagingSteps, PublishSteps,
     UnstageSteps, Goto, SlotSteps
<1>26. ASSUME NEW v \in Volumes, Stale(v) PROVE CallInv'
  BY <1>26 DEF Stale, CallInv, TypeCall, callVars
<1>27. ASSUME NEW v \in Volumes, MountDone(v) PROVE CallInv'
  BY <1>27 DEF MountDone, CallInv, TypeCall, Wake, Waiters, StagingSteps, PublishSteps,
     UnstageSteps, SlotSteps
<1>28. ASSUME NEW v \in Volumes, MountFails(v) PROVE CallInv'
  BY <1>28 DEF MountFails, CallInv, TypeCall, Wake, Waiters, StagingSteps, PublishSteps,
     UnstageSteps, SlotSteps
<1>29. CASE UNCHANGED driverVars
  BY <1>29 DEF CallInv, TypeCall, driverVars, callVars
<1> QED
  BY <1>1, <1>2, <1>3, <1>4, <1>5, <1>6, <1>7, <1>8, <1>9, <1>10, <1>11, <1>12,
     <1>13, <1>14, <1>15, <1>16, <1>17, <1>18, <1>19, <1>20, <1>21, <1>22, <1>23,
     <1>24, <1>25, <1>26, <1>27, <1>28, <1>29 DEF DriverNext, HandlerStep, Kubelet

\* and tries another portal only while there are any left.
LEMMA TriesStep ==
    ASSUME TypeNums, TypeCall, TriesInv, [DriverNext]_driverVars
    PROVE  TriesInv'
<1>1. CASE Restart
  BY <1>1 DEF Restart, TriesInv, TypeNums, TypeCall
<1>2. ASSUME NEW c \in Calls, acquireMountSlot(c) PROVE TriesInv'
  BY <1>2 DEF acquireMountSlot, TriesInv, TypeNums, TypeCall, Step, Fail, Goto, End
<1>3. ASSUME NEW c \in Calls, MountToDataPortal(c) PROVE TriesInv'
  BY <1>3 DEF MountToDataPortal, TriesInv, TypeNums, TypeCall, StageFails, NextPortal,
     Step, Fail, Goto, End
<1>4. ASSUME NEW c \in Calls, MountShareCheck(c) PROVE TriesInv'
  BY <1>4 DEF MountShareCheck, TriesInv, TypeNums, TypeCall, Step, NextPortal, Goto
<1>5. ASSUME NEW c \in Calls, beginMount(c) PROVE TriesInv'
  BY <1>5 DEF beginMount, TriesInv, TypeNums, TypeCall, Step, Goto
<1>6. ASSUME NEW c \in Calls, MountTimesOut(c) PROVE TriesInv'
  BY <1>6 DEF MountTimesOut, TriesInv, TypeNums, TypeCall, NextPortal, Goto
<1>7. ASSUME NEW c \in Calls, Staged(c) PROVE TriesInv'
  BY SMT, <1>7 DEF Staged, TriesInv, TypeNums, TypeCall, Succeed, Step, End, Goto
<1>8. ASSUME NEW c \in Calls, acquireVolumeLock(c) PROVE TriesInv'
  BY SMT, <1>8 DEF acquireVolumeLock, TriesInv, TypeNums, TypeCall, Goto, Fail, End
<1>9. ASSUME NEW c \in Calls, PublishTarget(c) PROVE TriesInv'
  BY <1>9 DEF PublishTarget, TriesInv, TypeNums, TypeCall, Succeed, Step, Fail, End,
     Goto
<1>10. ASSUME NEW c \in Calls, PublishStaging(c) PROVE TriesInv'
  BY <1>10 DEF PublishStaging, TriesInv, TypeNums, TypeCall, Step, Fail, Goto, End
<1>11. ASSUME NEW c \in Calls, PublishRecheck(c) PROVE TriesInv'
  BY <1>11 DEF PublishRecheck, TriesInv, TypeNums, TypeCall, Step, Fail, Goto, End
<1>12. ASSUME NEW c \in Calls, PublishBind(c) PROVE TriesInv'
  BY <1>12 DEF PublishBind, TriesInv, TypeNums, TypeCall, Succeed, Fail, End, Goto
<1>13. ASSUME NEW c \in Calls, Unpublish(c) PROVE TriesInv'
  BY <1>13 DEF Unpublish, TriesInv, TypeNums, TypeCall, Succeed, Fail, End, Goto
<1>14. ASSUME NEW c \in Calls, UnstageCheck(c) PROVE TriesInv'
  BY SMT, <1>14 DEF UnstageCheck, TriesInv, TypeNums, TypeCall, Step, Fail, Goto, End
<1>15. ASSUME NEW c \in Calls, UnstageUmount(c) PROVE TriesInv'
  BY <1>15 DEF UnstageUmount, TriesInv, TypeNums, TypeCall, Step, Fail, Kinds, Goto, End
<1>16. ASSUME NEW c \in Calls, UnstageRmdir(c) PROVE TriesInv'
  BY SMT, <1>16 DEF UnstageRmdir, TriesInv, TypeNums, TypeCall, Step, Fail, Goto, End
<1>17. ASSUME NEW c \in Calls, LegacyMarker(c) PROVE TriesInv'
  BY SMT, <1>17 DEF LegacyMarker, TriesInv, TypeNums, TypeCall, Step, Succeed, Goto, End
<1>18. ASSUME NEW c \in Calls, acquireRootMountLock(c) PROVE TriesInv'
  BY <1>18 DEF acquireRootMountLock, TriesInv, TypeNums, TypeCall, Goto, Fail, End
<1>19. ASSUME NEW c \in Calls, LegacyRelease(c) PROVE TriesInv'
  BY <1>19 DEF LegacyRelease, TriesInv, TypeNums, TypeCall, Step, Fail, Goto, End
<1>20. ASSUME NEW c \in Calls, LegacyUnmount(c) PROVE TriesInv'
  BY <1>20 DEF LegacyUnmount, TriesInv, TypeNums, TypeCall, Succeed, Fail, Kinds, End,
     Goto
<1>21. ASSUME NEW c \in Calls, Deadline(c) PROVE TriesInv'
  BY <1>21 DEF Deadline, TriesInv, TypeNums, TypeCall
<1>22. ASSUME NEW c \in Calls, NEW v \in Volumes, NodeStageVolume(c, v) PROVE TriesInv'
  BY <1>22 DEF NodeStageVolume, TriesInv, TypeNums, TypeCall, Call, Goto
<1>23. ASSUME NEW c \in Calls, NEW v \in Volumes, NodeUnstageVolume(c, v) PROVE TriesInv'
  BY <1>23 DEF NodeUnstageVolume, TriesInv, TypeNums, TypeCall, Call, Goto
<1>24. ASSUME NEW c \in Calls, NEW v \in Volumes, NEW p \in Pods, NodePublishVolume(c, v, p) PROVE TriesInv'
  BY <1>24 DEF NodePublishVolume, TriesInv, TypeNums, TypeCall, Call, Goto
<1>25. ASSUME NEW c \in Calls, NEW v \in Volumes, NEW p \in Pods, NodeUnpublishVolume(c, v, p) PROVE TriesInv'
  BY <1>25 DEF NodeUnpublishVolume, TriesInv, TypeNums, TypeCall, Call, Goto
<1>26. ASSUME NEW v \in Volumes, Stale(v) PROVE TriesInv'
  BY <1>26 DEF Stale, TriesInv, TypeNums, TypeCall, callVars
<1>27. ASSUME NEW v \in Volumes, MountDone(v) PROVE TriesInv'
  BY <1>27 DEF MountDone, TriesInv, TypeNums, TypeCall, Wake
<1>28. ASSUME NEW v \in Volumes, MountFails(v) PROVE TriesInv'
  BY <1>28 DEF MountFails, TriesInv, TypeNums, TypeCall, Wake
<1>29. CASE UNCHANGED driverVars
  BY <1>29 DEF TriesInv, TypeNums, TypeCall, driverVars, callVars
<1> QED
  BY <1>1, <1>2, <1>3, <1>4, <1>5, <1>6, <1>7, <1>8, <1>9, <1>10, <1>11, <1>12,
     <1>13, <1>14, <1>15, <1>16, <1>17, <1>18, <1>19, <1>20, <1>21, <1>22, <1>23,
     <1>24, <1>25, <1>26, <1>27, <1>28, <1>29 DEF DriverNext, HandlerStep, Kubelet

=============================================================================
