---------------------------- MODULE NodeStaging ----------------------------
(***************************************************************************)
(* NFS volumes on one node: NodeStageVolume mounts a volume's share at its *)
(* staging path, NodePublishVolume binds that mount into a pod (staging it *)
(* first if nothing is mounted there), NodeUnpublishVolume and             *)
(* NodeUnstageVolume undo it.  Publish and unpublish hold the volume lock; *)
(* stage and unstage do not.  Mounts run in goroutines of their own, one   *)
(* per staging path, and outlive the handler that times out on them.       *)
(*                                                                         *)
(* Kubelet has one call at a time out for the device of a volume or for a  *)
(* pod of it, and no pod call with a device call.  When a call's deadline  *)
(* passes it moves on, and the handler keeps running.                      *)
(***************************************************************************)
EXTENDS Integers, FiniteSets

CONSTANTS
    Calls,      \* concurrent handlers
    Volumes,    \* NFS volumes
    Wanted,     \* those that new pods are going to use
    Pods,       \* pods that use them
    None,       \* no value
    Slots,      \* NFS mounts at a time (MAX_CONCURRENT_NFS_MOUNTS)
    Tries,      \* data portals and NFS versions a handler goes through
    MaxMounts,  \* bound on the mounts on top of each other at a staging path
    FaultKinds, \* what may go wrong
    MaxFaults   \* and how often

ASSUME BoundAssumption ==
    /\ Slots \in Nat \ {0} /\ Tries \in Nat \ {0}
    /\ MaxMounts \in Nat /\ MaxFaults \in Nat
    /\ Wanted \subseteq Volumes
ASSUME CallAssumption == IsFiniteSet(Calls)
ASSUME NoneAssumption == None \notin Calls \cup Volumes \cup Pods \cup {"share", "local"}
ASSUME FaultAssumption ==
    FaultKinds \subseteq {"deadline", "portal", "probe", "mount", "stale", "marker", "restart", "hang"}

VARIABLES
    pc, kind, vol, pod, \* of each call: where it is, and what was called
    live,               \* whether kubelet still waits for it
    tries,              \* portals and versions it has left
    device,             \* kubelet's view of a volume: "none", "staging", "staged" or "unstaging"
    use,                \* and of a pod's use of it
    lock, rootLock,     \* volume locks, and the one of the root export
    free,               \* free mount slots
    attempts,           \* mountInFlight: mounts of a staging path under way
    mounts,             \* mounts of the share on the staging path
    dir,                \* whether the staging path exists
    stale,              \* mounts of the volume answer EIO or ESTALE
    target,             \* of each volume and pod: None, or "share" or "local" for what is bound there
    markers, root,      \* volumes staged by an older driver, and its root export
    undermined,         \* publishes whose staging path an abandoned unstage unmounted before the bind
    leaked,             \* staging paths and targets left mounted after kubelet let go of them
    blind,              \* the root export was left by a failed unmount or taken by a failed listing
    hung,               \* calls stuck in a system call on a mount whose server is gone
    faults

callVars == <<pc, kind, vol, pod, live, tries>>
kubeletVars == <<device, use>>
lockVars == <<lock, rootLock, free>>
hostVars == <<attempts, mounts, dir, stale, target>>
legacyVars == <<markers, root, blind>>
driverVars == <<callVars, kubeletVars, lockVars, hostVars, legacyVars, undermined, leaked, faults>>
vars == <<driverVars, hung>>

Kinds == {"stage", "publish", "unpublish", "unstage"}
Fault(f) == f \in FaultKinds /\ faults < MaxFaults /\ faults' = faults + 1
Goto(c, step) == pc' = [pc EXCEPT ![c] = step]

-----------------------------------------------------------------------------
(* Kubelet and the host                                                    *)

Waits(v, p) ==
    \E c \in Calls : pc[c] # "idle" /\ live[c] /\ vol[c] = v /\ (pod[c] \in {p, None} \/ p = None)

Call(c, k, v, p, step) ==
    /\ pc[c] = "idle" /\ ~Waits(v, p)
    /\ Goto(c, step)
    /\ kind' = [kind EXCEPT ![c] = k] /\ vol' = [vol EXCEPT ![c] = v] /\ pod' = [pod EXCEPT ![c] = p]
    /\ live' = [live EXCEPT ![c] = TRUE]
    /\ tries' = [tries EXCEPT ![c] = Tries]
    /\ UNCHANGED <<lockVars, attempts, mounts, stale, target, legacyVars, undermined, leaked, faults>>

\* Kubelet creates the staging directory before it calls.
NodeStageVolume(c, v) ==
    /\ v \in Wanted /\ device[v] # "staged"
    /\ Call(c, "stage", v, None, "slot")
    /\ device' = [device EXCEPT ![v] = "staging"]
    /\ dir' = [dir EXCEPT ![v] = TRUE]
    /\ UNCHANGED use

NodePublishVolume(c, v, p) ==
    /\ v \in Wanted /\ device[v] = "staged" /\ use[v][p] \in {"none", "publishing"}
    /\ Call(c, "publish", v, p, "lock")
    /\ use' = [use EXCEPT ![v][p] = "publishing"]
    /\ UNCHANGED <<device, dir>>

NodeUnpublishVolume(c, v, p) ==
    /\ use[v][p] # "none"
    /\ Call(c, "unpublish", v, p, "lock")
    /\ use' = [use EXCEPT ![v][p] = "unpublishing"]
    /\ UNCHANGED <<device, dir>>

NodeUnstageVolume(c, v) ==
    /\ device[v] # "none" /\ \A p \in Pods : use[v][p] = "none"
    /\ Call(c, "unstage", v, None, "unstage")
    /\ device' = [device EXCEPT ![v] = "unstaging"]
    /\ UNCHANGED <<use, dir>>

\* The deadline of a call passes; its context is cancelled.
Deadline(c) ==
    /\ pc[c] # "idle" /\ live[c] /\ Fault("deadline")
    /\ live' = [live EXCEPT ![c] = FALSE]
    /\ UNCHANGED <<pc, kind, vol, pod, tries, kubeletVars, lockVars, hostVars, legacyVars,
                   undermined, leaked>>

InUse(v) == mounts[v] > 0 \/ \E p \in Pods : target[v][p] = "share"

\* The mounts of a volume go stale, or recover.
Stale(v) ==
    /\ \/ ~stale[v] /\ InUse(v) /\ Fault("stale")
       \/ stale[v] /\ UNCHANGED faults
    /\ stale' = [stale EXCEPT ![v] = ~@]
    /\ UNCHANGED <<callVars, kubeletVars, lockVars, attempts, mounts, dir, target, legacyVars,
                   undermined, leaked>>

\* The lstat and the unmount of a path, and a bind from it, have no timeout: on a hard
\* NFS mount whose server is gone they do not return. The handler keeps its locks.
OnMount(c) ==
    \/ pc[c] \in {"bind", "umount"} /\ mounts[vol[c]] > 0
    \/ pc[c] = "unbind" /\ target[vol[c]][pod[c]] = "share"
    \/ pc[c] = "unroot" /\ root /\ markers = {}

Hang(c) ==
    /\ "hang" \in FaultKinds /\ c \notin hung /\ OnMount(c)
    /\ hung' = hung \cup {c}
    /\ UNCHANGED driverVars

\* The server is back.
Resume(c) ==
    /\ c \in hung
    /\ hung' = hung \ {c}
    /\ UNCHANGED driverVars

\* Those who wait for the mount of a volume: when it ends they go on.
Waiters(v) == {c \in Calls : pc[c] = "wait" /\ vol[c] = v}
Wake(v, step) == pc' = [c \in Calls |-> IF c \in Waiters(v) THEN step ELSE pc[c]]

MountDone(v) ==
    /\ attempts[v] > 0 /\ dir[v] /\ mounts[v] < MaxMounts
    /\ attempts' = [attempts EXCEPT ![v] = @ - 1]
    /\ Wake(v, "staged") /\ UNCHANGED faults
    /\ mounts' = [mounts EXCEPT ![v] = @ + 1]
    /\ leaked' = IF \E c \in Waiters(v) : live[c] THEN leaked ELSE leaked \cup {<<v, None>>}
    /\ UNCHANGED <<kind, vol, pod, live, tries, kubeletVars, lockVars, dir, stale, target,
                   legacyVars, undermined>>

\* It fails when the path is gone or mounted already, or for any other reason.
MountFails(v) ==
    /\ attempts[v] > 0
    /\ IF dir[v] /\ mounts[v] = 0 THEN Fault("mount") ELSE UNCHANGED faults
    /\ attempts' = [attempts EXCEPT ![v] = @ - 1]
    /\ Wake(v, "try")
    /\ tries' = [c \in Calls |-> IF c \in Waiters(v) THEN tries[c] - 1 ELSE tries[c]]
    /\ UNCHANGED <<kind, vol, pod, live, kubeletVars, lockVars, mounts, dir, stale, target,
                   legacyVars, undermined, leaked>>

-----------------------------------------------------------------------------
(* The end of a call                                                       *)

ReleaseLock(c) == lock' = [v \in Volumes |-> IF lock[v] = c THEN None ELSE lock[v]]
ReleaseRoot(c) == rootLock' = IF rootLock = c THEN None ELSE rootLock

Answer(c) ==
    /\ device' = IF ~live[c] \/ pod[c] # None THEN device
                 ELSE [device EXCEPT ![vol[c]] = IF kind[c] = "stage" THEN "staged" ELSE "none"]
    /\ use' = IF ~live[c] \/ pod[c] = None THEN use
              ELSE [use EXCEPT ![vol[c]][pod[c]] =
                        IF kind[c] = "publish" THEN "published" ELSE "none"]

End(c) ==
    /\ Goto(c, "idle")
    /\ kind' = [kind EXCEPT ![c] = None] /\ vol' = [vol EXCEPT ![c] = None]
    /\ pod' = [pod EXCEPT ![c] = None] /\ live' = [live EXCEPT ![c] = FALSE]
    /\ tries' = [tries EXCEPT ![c] = 0]
    /\ ReleaseLock(c) /\ ReleaseRoot(c)

Succeed(c) == End(c) /\ Answer(c)
Fail(c) == End(c) /\ UNCHANGED kubeletVars

\* Kubelet hears that a volume or a target is released while it is still mounted.
Leaks(c) == leaked' = IF live[c] THEN leaked \cup {<<vol[c], pod[c]>>} ELSE leaked
Step(c, step) == Goto(c, step) /\ UNCHANGED <<kind, vol, pod, live, tries, kubeletVars, lock, rootLock>>

HandlerRest == UNCHANGED <<stale, markers, root, blind>>

-----------------------------------------------------------------------------
(* stageNFSVolume, for NodeStageVolume and for NodePublishVolume           *)

StageRest == HandlerRest /\ UNCHANGED <<target, undermined, leaked>>

\* A handler waits for a slot until its deadline.
acquireMountSlot(c) ==
    /\ pc[c] = "slot"
    /\ \/ /\ free > 0 /\ live[c]
          /\ free' = free - 1 /\ Step(c, "try")
       \/ (free = 0 \/ ~live[c]) /\ Fail(c) /\ UNCHANGED free
    /\ UNCHANGED <<attempts, mounts, dir, faults>> /\ StageRest

NextPortal(c) ==
    /\ tries' = [tries EXCEPT ![c] = @ - 1]
    /\ Goto(c, "try")
    /\ UNCHANGED <<kind, vol, pod, live, kubeletVars, lock, rootLock>>

\* The end of a failed mountShareSubPathAtBestDataportal.
StageFails(c) == Fail(c) /\ free' = free + 1

\* Mutant: the slot is not given back when no portal could be mounted.
MountToDataPortalLeaksSlot(c) ==
    /\ pc[c] = "try"
    /\ \/ (tries[c] = 0 \/ ~live[c]) /\ Fail(c) /\ UNCHANGED <<free, faults>>
       \/ tries[c] > 0 /\ live[c] /\ Fault("portal") /\ NextPortal(c) /\ UNCHANGED free
       \/ /\ tries[c] > 0 /\ live[c]
          /\ Step(c, "check") /\ UNCHANGED <<free, faults>>
    /\ UNCHANGED <<attempts, mounts, dir>> /\ StageRest

\* MountToDataPortal: the next portal or NFS version; on a cancelled context the rest
\* are skipped. Without the list of portals there is nothing to try; without the list
\* of its exports a portal is skipped.
MountToDataPortal(c) ==
    /\ pc[c] = "try"
    /\ \/ (tries[c] = 0 \/ ~live[c]) /\ StageFails(c) /\ UNCHANGED faults
       \/ tries[c] = Tries /\ Fault("portal") /\ StageFails(c)
       \/ tries[c] > 0 /\ live[c] /\ Fault("portal") /\ NextPortal(c) /\ UNCHANGED free
       \/ /\ tries[c] > 0 /\ live[c]
          /\ Step(c, "check") /\ UNCHANGED <<free, faults>>
    /\ UNCHANGED <<attempts, mounts, dir>> /\ StageRest

\* MountShare creates a missing path, and has nothing to do when the path is mounted.
\* A path that cannot be examined fails this portal.
MountShareCheck(c) ==
    /\ pc[c] = "check"
    /\ \/ /\ mounts[vol[c]] > 0 /\ ~stale[vol[c]]
          /\ Step(c, "staged") /\ UNCHANGED <<dir, faults>>
       \/ /\ mounts[vol[c]] > 0
          /\ IF stale[vol[c]] THEN UNCHANGED faults ELSE Fault("probe")
          /\ NextPortal(c) /\ UNCHANGED dir
       \/ /\ mounts[vol[c]] = 0
          /\ dir' = [dir EXCEPT ![vol[c]] = TRUE]
          /\ Step(c, "begin") /\ UNCHANGED faults
    /\ UNCHANGED <<free, attempts, mounts>> /\ StageRest

\* Mutant: every handler starts a mount of its own.
beginMountAlways(c) ==
    /\ pc[c] = "begin"
    /\ attempts' = [attempts EXCEPT ![vol[c]] = @ + 1]
    /\ Step(c, "wait")
    /\ UNCHANGED <<free, mounts, dir, faults>> /\ StageRest

\* beginMount joins the mount of the path that is under way, or starts one.
beginMount(c) ==
    /\ pc[c] = "begin"
    /\ attempts' = [attempts EXCEPT ![vol[c]] = 1]
    /\ Step(c, "wait")
    /\ UNCHANGED <<free, mounts, dir, faults>> /\ StageRest

\* Mutant: a handler waits for its mount as long as it takes.
MountTimesOutNever(c) ==
    /\ pc[c] = "wait" /\ attempts[vol[c]] = 0
    /\ NextPortal(c)
    /\ UNCHANGED <<free, attempts, mounts, dir, faults>> /\ StageRest

\* MountShare gives up on a mount that takes too long and leaves it to itself.
MountTimesOut(c) ==
    /\ pc[c] = "wait"
    /\ NextPortal(c)
    /\ UNCHANGED <<free, attempts, mounts, dir, faults>> /\ StageRest

\* The slot is free again; NodePublishVolume goes on.
Staged(c) ==
    /\ pc[c] = "staged"
    /\ free' = free + 1
    /\ IF kind[c] = "stage" THEN Succeed(c) ELSE Step(c, "recheck")
    /\ UNCHANGED <<attempts, mounts, dir, faults>> /\ StageRest

-----------------------------------------------------------------------------
(* NodePublishVolume and NodeUnpublishVolume                               *)

\* Mutant: a handler kubelet has given up on still takes the lock.
acquireVolumeLockLate(c) ==
    /\ pc[c] = "lock"
    /\ \/ /\ lock[vol[c]] = None
          /\ lock' = [lock EXCEPT ![vol[c]] = c]
          /\ Goto(c, IF kind[c] = "publish" THEN "target" ELSE "unbind")
          /\ UNCHANGED <<kind, vol, pod, live, tries, kubeletVars, rootLock>>
       \/ (lock[vol[c]] # None \/ ~live[c]) /\ Fail(c)
    /\ UNCHANGED <<free, attempts, mounts, dir, faults>> /\ StageRest

\* A handler whose context is cancelled does not get the lock any more, nor does one
\* that has waited too long.
acquireVolumeLock(c) ==
    /\ pc[c] = "lock"
    /\ \/ /\ lock[vol[c]] = None /\ live[c]
          /\ lock' = [lock EXCEPT ![vol[c]] = c]
          /\ Goto(c, IF kind[c] = "publish" THEN "target" ELSE "unbind")
          /\ UNCHANGED <<kind, vol, pod, live, tries, kubeletVars, rootLock>>
       \/ (lock[vol[c]] # None \/ ~live[c]) /\ Fail(c)
    /\ UNCHANGED <<free, attempts, mounts, dir, faults>> /\ StageRest

Target(c) == target[vol[c]][pod[c]]
SetTarget(c, what) == target' = [target EXCEPT ![vol[c]][pod[c]] = what]
PodRest == HandlerRest /\ UNCHANGED <<free, attempts, mounts, dir, undermined>>

StaleTarget(c) == Target(c) = "share" /\ stale[vol[c]]

\* A mounted target is published already, a stale one is detached first.
PublishTarget(c) ==
    /\ pc[c] = "target"
    /\ \/ Target(c) # None /\ ~StaleTarget(c) /\ Succeed(c) /\ UNCHANGED <<target, undermined, faults>>
       \/ /\ StaleTarget(c) \/ Target(c) = None
          /\ SetTarget(c, None) /\ Step(c, "staging") /\ UNCHANGED faults
          /\ undermined' = undermined \ {<<vol[c], pod[c]>>}
       \/ Target(c) # None /\ Fault("probe") /\ Fail(c) /\ UNCHANGED <<target, undermined>>
    /\ HandlerRest /\ UNCHANGED <<free, attempts, mounts, dir, leaked>>

\* Mutant: a staging path with nothing mounted on it is bound as it is.
PublishStagingAnyway(c) ==
    /\ pc[c] = "staging"
    /\ IF dir[vol[c]] /\ ~stale[vol[c]] THEN Step(c, "bind") ELSE Fail(c)
    /\ UNCHANGED <<target, faults>> /\ PodRest /\ UNCHANGED leaked

\* A staging path that cannot be examined fails the call; one with nothing mounted on it
\* is staged here.
PublishStaging(c) ==
    /\ pc[c] = "staging"
    /\ \/ mounts[vol[c]] > 0 /\ ~stale[vol[c]] /\ Step(c, "bind") /\ UNCHANGED faults
       \/ mounts[vol[c]] = 0 /\ dir[vol[c]] /\ Step(c, "slot") /\ UNCHANGED faults
       \/ (~dir[vol[c]] \/ (mounts[vol[c]] > 0 /\ stale[vol[c]])) /\ Fail(c) /\ UNCHANGED faults
       \/ mounts[vol[c]] > 0 /\ Fault("probe") /\ Fail(c)
    /\ UNCHANGED target /\ PodRest /\ UNCHANGED leaked

\* "refusing to publish an unbacked directory"
PublishRecheck(c) ==
    /\ pc[c] = "recheck"
    /\ \/ mounts[vol[c]] > 0 /\ ~stale[vol[c]] /\ Step(c, "bind") /\ UNCHANGED faults
       \/ (mounts[vol[c]] = 0 \/ stale[vol[c]]) /\ Fail(c) /\ UNCHANGED faults
       \/ mounts[vol[c]] > 0 /\ Fault("probe") /\ Fail(c)
    /\ UNCHANGED target /\ PodRest /\ UNCHANGED leaked

\* bindMountDevice, or bindMountReadOnly, which can fail with the target bound. It binds
\* whatever is at the staging path.
Bound(c) == SetTarget(c, IF mounts[vol[c]] > 0 THEN "share" ELSE "local")

PublishBind(c) ==
    /\ pc[c] = "bind"
    /\ \/ dir[vol[c]] /\ Bound(c) /\ Succeed(c) /\ UNCHANGED faults
       \/ ~dir[vol[c]] /\ Fail(c) /\ UNCHANGED <<target, faults>>
       \/ Fault("mount") /\ Fail(c) /\ ((dir[vol[c]] /\ Bound(c)) \/ UNCHANGED target)
    /\ PodRest /\ UNCHANGED leaked

\* A stale target is detached; a mount check that times out counts as not mounted, and
\* the call succeeds without an unmount.
Unpublish(c) ==
    /\ pc[c] = "unbind"
    /\ \/ SetTarget(c, None) /\ Succeed(c) /\ UNCHANGED <<leaked, faults>>
       \/ /\ Target(c) # None /\ Fault("mount")
          /\ Fail(c) /\ (SetTarget(c, None) \/ UNCHANGED target) /\ UNCHANGED leaked
       \/ Target(c) # None /\ Fault("probe") /\ Succeed(c) /\ Leaks(c) /\ UNCHANGED target
    /\ PodRest

-----------------------------------------------------------------------------
(* NodeUnstageVolume                                                       *)

UnstageRest == UNCHANGED <<free, attempts, stale, target>>

\* An abandoned unstage takes the last mount from under the publishes about to bind it.
Unmounts(c) ==
    /\ mounts' = [mounts EXCEPT ![vol[c]] = @ - 1]
    /\ undermined' = IF live[c] \/ mounts[vol[c]] > 1 THEN undermined
                     ELSE undermined \cup {<<vol[d], pod[d]>> : d \in
                              {e \in Calls : pc[e] = "bind" /\ vol[e] = vol[c]}}

\* A stale mount is detached and its directory removed, a mount check that times out
\* counts as not mounted.
UnstageCheck(c) ==
    /\ pc[c] = "unstage"
    /\ \/ /\ mounts[vol[c]] > 0 /\ ~stale[vol[c]]
          /\ Step(c, "umount") /\ UNCHANGED <<mounts, dir, undermined, leaked, faults>>
       \/ /\ mounts[vol[c]] > 0 /\ stale[vol[c]]
          /\ Unmounts(c)
          /\ IF mounts[vol[c]] = 1
             THEN /\ dir' = [dir EXCEPT ![vol[c]] = FALSE]
                  /\ leaked' = leaked \ {<<vol[c], None>>}
                  /\ Step(c, "marker")
             ELSE Fail(c) /\ UNCHANGED <<dir, leaked>>
          /\ UNCHANGED faults
       \/ /\ mounts[vol[c]] > 0 /\ stale[vol[c]] /\ Fault("mount")
          /\ Fail(c) /\ UNCHANGED <<mounts, dir, undermined, leaked>>
       \/ /\ mounts[vol[c]] > 0 /\ Fault("probe")
          /\ Step(c, "marker") /\ Leaks(c) /\ UNCHANGED <<mounts, dir, undermined>>
       \/ /\ mounts[vol[c]] = 0
          /\ Step(c, "marker") /\ UNCHANGED <<mounts, dir, undermined, leaked, faults>>
    /\ UnstageRest /\ UNCHANGED <<markers, root, blind>>

\* UnmountFilesystem checks again, a path it cannot examine counting as not mounted,
\* detaches one mount and then removes the directory.
UnstageUmount(c) ==
    /\ pc[c] = "umount"
    /\ \/ /\ mounts[vol[c]] > 0 /\ ~stale[vol[c]]
          /\ Unmounts(c)
          /\ Step(c, "rmdir") /\ UNCHANGED <<leaked, faults>>
       \/ /\ mounts[vol[c]] = 0
          /\ Step(c, "marker") /\ UNCHANGED <<mounts, undermined, leaked, faults>>
       \/ /\ mounts[vol[c]] > 0
          /\ IF stale[vol[c]] THEN UNCHANGED faults ELSE Fault("probe")
          /\ Step(c, "marker") /\ Leaks(c) /\ UNCHANGED <<mounts, undermined>>
       \/ /\ mounts[vol[c]] > 0 /\ ~stale[vol[c]] /\ Fault("mount")
          /\ Fail(c) /\ UNCHANGED <<mounts, undermined, leaked>>
    /\ UnstageRest /\ UNCHANGED <<dir, markers, root, blind>>

UnstageRmdir(c) ==
    /\ pc[c] = "rmdir"
    /\ IF mounts[vol[c]] = 0
       THEN /\ dir' = [dir EXCEPT ![vol[c]] = FALSE]
            /\ leaked' = leaked \ {<<vol[c], None>>}
            /\ Step(c, "marker")
       ELSE Fail(c) /\ UNCHANGED <<dir, leaked>>
    /\ UnstageRest /\ UNCHANGED <<mounts, undermined, faults, markers, root, blind>>

LegacyRest == UnstageRest /\ UNCHANGED <<mounts, dir, undermined, leaked>>

\* releaseLegacyRootExport: a volume without a marker has nothing to release.
LegacyMarker(c) ==
    /\ pc[c] = "marker"
    /\ IF vol[c] \in markers THEN Step(c, "root") ELSE Succeed(c)
    /\ UNCHANGED <<markers, root, blind, faults>> /\ LegacyRest

acquireRootMountLock(c) ==
    /\ pc[c] = "root"
    /\ \/ /\ rootLock = None /\ live[c]
          /\ rootLock' = c /\ Goto(c, "release")
          /\ UNCHANGED <<kind, vol, pod, live, tries, kubeletVars, lock>>
       \/ (rootLock # None \/ ~live[c]) /\ Fail(c)
    /\ UNCHANGED <<markers, root, blind, faults>> /\ LegacyRest

LegacyRelease(c) ==
    /\ pc[c] = "release"
    /\ \/ markers' = markers \ {vol[c]} /\ Step(c, "unroot") /\ UNCHANGED faults
       \/ Fault("marker") /\ Fail(c) /\ UNCHANGED markers
    /\ UNCHANGED <<root, blind>> /\ LegacyRest

\* Mutant: the root export is unmounted with every volume.
LegacyUnmountAlways(c) ==
    /\ pc[c] = "unroot"
    /\ \/ Succeed(c) /\ root' = FALSE /\ UNCHANGED <<blind, faults>>
       \/ Fault("mount") /\ Fail(c) /\ blind' = TRUE /\ UNCHANGED root
    /\ UNCHANGED markers /\ LegacyRest

\* The root export goes with the last marker. If it cannot be unmounted the call fails,
\* but its retry finds no marker; a listing that fails counts as an empty one, a mount
\* check that times out as not mounted.
LegacyUnmount(c) ==
    /\ pc[c] = "unroot"
    /\ \/ markers # {} /\ Succeed(c) /\ UNCHANGED <<root, blind, faults>>
       \/ markers = {} /\ Succeed(c) /\ root' = FALSE /\ UNCHANGED <<blind, faults>>
       \/ markers = {} /\ Fault("mount") /\ Fail(c) /\ blind' = TRUE /\ UNCHANGED root
       \/ markers = {} /\ Fault("probe") /\ Succeed(c) /\ blind' = TRUE /\ UNCHANGED root
       \/ markers # {} /\ Fault("marker") /\ Succeed(c) /\ root' = FALSE /\ blind' = TRUE
    /\ UNCHANGED markers /\ LegacyRest

\* The process restarts; the mounts it was waiting for end with it.
Restart ==
    /\ Fault("restart")
    /\ pc' = [c \in Calls |-> "idle"] /\ kind' = [c \in Calls |-> None]
    /\ vol' = [c \in Calls |-> None] /\ pod' = [c \in Calls |-> None]
    /\ live' = [c \in Calls |-> FALSE] /\ tries' = [c \in Calls |-> 0]
    /\ lock' = [v \in Volumes |-> None] /\ rootLock' = None /\ free' = Slots
    /\ attempts' = [v \in Volumes |-> 0]
    /\ blind' = (blind \/ \E c \in Calls : pc[c] = "unroot")
    /\ UNCHANGED <<kubeletVars, mounts, dir, stale, target, markers, root, undermined, leaked>>

-----------------------------------------------------------------------------

\* Volumes with a marker were staged by an older driver, through the root export.
Init ==
    /\ pc = [c \in Calls |-> "idle"] /\ kind = [c \in Calls |-> None]
    /\ vol = [c \in Calls |-> None] /\ pod = [c \in Calls |-> None]
    /\ live = [c \in Calls |-> FALSE] /\ tries = [c \in Calls |-> 0]
    /\ lock = [v \in Volumes |-> None] /\ rootLock = None /\ free = Slots
    /\ attempts = [v \in Volumes |-> 0] /\ mounts = [v \in Volumes |-> 0]
    /\ stale = [v \in Volumes |-> FALSE]
    /\ target = [v \in Volumes |-> [p \in Pods |-> None]]
    /\ use = [v \in Volumes |-> [p \in Pods |-> "none"]]
    /\ markers \in SUBSET Volumes /\ root = (markers # {})
    /\ device = [v \in Volumes |-> IF v \in markers THEN "staged" ELSE "none"]
    /\ dir = [v \in Volumes |-> v \in markers]
    /\ undermined = {} /\ leaked = {} /\ blind = FALSE /\ hung = {} /\ faults = 0

HandlerStep(c) ==
    \/ acquireMountSlot(c) \/ MountToDataPortal(c) \/ MountShareCheck(c) \/ beginMount(c)
    \/ MountTimesOut(c) \/ Staged(c)
    \/ acquireVolumeLock(c) \/ PublishTarget(c) \/ PublishStaging(c) \/ PublishRecheck(c)
    \/ PublishBind(c) \/ Unpublish(c)
    \/ UnstageCheck(c) \/ UnstageUmount(c) \/ UnstageRmdir(c)
    \/ LegacyMarker(c) \/ acquireRootMountLock(c) \/ LegacyRelease(c) \/ LegacyUnmount(c)

Handler(c) == c \notin hung /\ HandlerStep(c) /\ UNCHANGED hung

Kubelet(c) ==
    \/ \E v \in Volumes : NodeStageVolume(c, v) \/ NodeUnstageVolume(c, v)
    \/ \E v \in Volumes, p \in Pods : NodePublishVolume(c, v, p) \/ NodeUnpublishVolume(c, v, p)
    \/ Deadline(c)

Next ==
    \/ \E c \in Calls : Handler(c) \/ Hang(c) \/ Resume(c)
    \/ \E c \in Calls : Kubelet(c) /\ UNCHANGED hung
    \/ \E v \in Volumes : (Stale(v) \/ MountDone(v) \/ MountFails(v)) /\ UNCHANGED hung
    \/ Restart /\ hung' = {}

Spec == Init /\ [][Next]_vars

\* Handlers keep running while they are not stuck. Nothing is assumed of the mounts,
\* which may hang for ever, nor of a server that is gone.
FairSpec == Spec /\ \A c \in Calls : WF_vars(Handler(c))

-----------------------------------------------------------------------------

SlotSteps == {"try", "check", "begin", "wait", "staged"}
Steps == SlotSteps \cup
    {"idle", "slot", "lock", "target", "staging", "recheck", "bind", "unbind",
     "unstage", "umount", "rmdir", "marker", "root", "release", "unroot"}

\* In particular at most one mount of a staging path is under way, however often calls
\* time out on it and are retried (beginMount).
TypeOK ==
    /\ pc \in [Calls -> Steps] /\ kind \in [Calls -> {None} \cup Kinds]
    /\ vol \in [Calls -> {None} \cup Volumes] /\ pod \in [Calls -> {None} \cup Pods]
    /\ live \in [Calls -> BOOLEAN] /\ tries \in [Calls -> 0 .. Tries]
    /\ device \in [Volumes -> {"none", "staging", "staged", "unstaging"}]
    /\ use \in [Volumes -> [Pods -> {"none", "publishing", "published", "unpublishing"}]]
    /\ lock \in [Volumes -> {None} \cup Calls] /\ rootLock \in {None} \cup Calls
    /\ free \in 0 .. Slots
    /\ attempts \in [Volumes -> 0 .. 1] /\ mounts \in [Volumes -> 0 .. MaxMounts]
    /\ dir \in [Volumes -> BOOLEAN] /\ stale \in [Volumes -> BOOLEAN]
    /\ target \in [Volumes -> [Pods -> {None, "share", "local"}]]
    /\ markers \subseteq Volumes /\ root \in BOOLEAN /\ blind \in BOOLEAN
    /\ undermined \subseteq Volumes \X Pods /\ hung \subseteq Calls
    /\ leaked \subseteq Volumes \X ({None} \cup Pods)
    /\ faults \in 0 .. MaxFaults

\* Every mount slot is free or held by a handler that is looking for a portal or waiting
\* for a mount: none is lost on an error, a timeout or a cancelled call
\* (acquireMountSlot, mountShareSubPathAtBestDataportal).
SlotsAccounted ==
    free + Cardinality({c \in Calls : pc[c] \in SlotSteps}) = Slots

\* A pod whose volume kubelet holds published has the share at its target, "Never bind
\* a staging path with nothing mounted on it" (publishShareBackedVolume), unless an
\* unstage that kubelet had given up on unmounted the staging path between the last check
\* of this very publish and its bind.
PublishedIsBacked ==
    \A v \in Volumes, p \in Pods :
        use[v][p] = "published" => target[v][p] = "share" \/ <<v, p>> \in undermined

\* What kubelet was told is unstaged or unpublished is not mounted any more, except for
\* a mount that ended after everyone had stopped waiting for it and for mount checks
\* that timed out (NodeUnstageVolume, NodeUnpublishVolume).
ReleasedIsUnmounted ==
    \A v \in Volumes :
        /\ device[v] = "none" => mounts[v] = 0 \/ <<v, None>> \in leaked
        /\ \A p \in Pods :
               use[v][p] = "none" => target[v][p] = None \/ <<v, p>> \in leaked

\* The root export of an older driver stays mounted as long as a volume staged through
\* it has its marker, and goes with the last one, unless its unmount, its mount check or
\* the listing of the markers failed or a restart came in between (releaseLegacyRootExport).
RootWhileMarked ==
    \/ blind
    \/ /\ markers # {} => root
       /\ root => markers # {} \/ \E c \in Calls : pc[c] = "unroot"

\* Every call returns even if a data portal never answers, or is itself stuck in an lstat,
\* an unmount or a bind on a mount whose server is gone: no handler waits without bound
\* for a slot, for a mount or for a lock, not even for the lock of one that is stuck
\* (acquireMountSlot, acquireVolumeLock, acquireRootMountLock, MountShare).
CallsReturn ==
    \A c \in Calls : pc[c] # "idle" ~> pc[c] = "idle" \/ c \in hung
=============================================================================
