----------------------------- MODULE FileVolume -----------------------------
(***************************************************************************)
(* The life of one file-backed volume: a raw file on the backing share,    *)
(* with a file system in it unless the volume is a block volume.           *)
(*                                                                         *)
(* CreateVolume makes and formats the file, or restores it from a snapshot *)
(* and grows it; NodePublishVolume mounts it on a node; Controller- and    *)
(* NodeExpandVolume grow it; DeleteVolume removes it.  The orchestrator    *)
(* (CO) gives up on calls and makes them again, commands fail, processes   *)
(* restart, and the Anvil learns of a new file some time after it was      *)
(* written over NFS.                                                       *)
(*                                                                         *)
(* The mount of the backing share is the subject of BackingMount; here a   *)
(* step that needs it may fail.                                            *)
(***************************************************************************)
EXTENDS Integers, FiniteSets

CONSTANTS
    Creates,          \* CreateVolume calls that may be in flight together
    Nodes,            \* nodes the volume may be published on
    NoCall,           \* no create call
    FSTypes,          \* file systems a volume may have, "" for a block volume
    Size,             \* hsVolume.Size, the capacity asked for
    SnapSize,         \* size of the source snapshot's file, 0 without a source
    SnapFs,           \* size of the file system in it
    Slack,            \* filesystemGrowthSlack
    MaxSize,          \* bound on expansions
    PollsVisibility,  \* objectiveTarget is "file" or "both"
    MetadataLags,     \* TRUE: the Anvil may not know a new file at once
    FaultKinds,       \* which faults happen
    MaxFaults         \* and how many at most

\* A command fails, a process restarts, the CO gives up on a call, the files API
\* fails, the check whether a path is mounted fails, the user lowers the capacity of
\* an expansion that is still going on.
AllFaults == {"command", "crash", "abandon", "api", "probe", "lower"}

ASSUME CallAssumption == NoCall \notin Creates
\* checkFileBackedMinSize refuses ext3.
ASSUME TypeAssumption == FSTypes \subseteq {"", "ext4", "xfs"}
ASSUME SizeAssumption ==
    /\ Size \in Nat /\ SnapSize \in Nat /\ MaxSize \in Nat
    /\ 0 < Size /\ SnapSize <= Size /\ Size <= MaxSize
    /\ SnapFs \in 0..SnapSize /\ Slack \in Nat
ASSUME FaultAssumption == FaultKinds \subseteq AllFaults /\ MaxFaults \in Nat
ASSUME SwitchAssumption ==
    PollsVisibility \in BOOLEAN /\ MetadataLags \in BOOLEAN

VARIABLES
    fsType,      \* hsVolume.FSType
    size,        \* size of the file, 0 when there is none
    fs,          \* size of the file system in it, 0 when there is none
    visible,     \* the Anvil's files API knows the file
    snapshots,   \* the file has snapshots on the Anvil
    phase,       \* what the CO knows: "creating", "created", "deleting", "deleted"
    live,        \* the create call the CO is waiting for
    capacity,    \* the largest capacity the CO was told the volume has
    want,        \* the capacity the node is asked to expand to, 0 for none
    pc,          \* where each create call is
    volumeLock,  \* holder of the lock on the volume's name
    private,     \* the private growth mount of the restored file is on
    dpc,         \* where the delete call is
    mnt,         \* what is mounted at each node's publish target
    npc,         \* where each node's publish call is
    published,   \* what each node's kubelet was told
    epc,         \* size each node is growing its file system for, 0 when idle
    faults       \* faults so far

fileVars == <<size, fs, visible, snapshots>>
coVars == <<phase, live, capacity, want>>
createVars == <<pc, volumeLock, private>>
nodeVars == <<mnt, npc, published, epc>>
vars == <<fsType, fileVars, coVars, createVars, dpc, nodeVars, faults>>

Phases == {"creating", "created", "deleting", "deleted"}
CreateSteps == {"idle", "lock", "getFile", "restore", "growLook", "growRaw", "growFs",
                "growMounted", "growUnmount", "makeFile", "format", "poll"}
DeleteSteps == {"idle", "lookup", "checkKnown", "checkUnknown", "remove"}
Modes == {"none", "ro", "rw"}

HasFS == fsType # ""
filesystemGrowthPossible == fsType \in {"ext4", "xfs"}

Fault(kind) ==
    /\ kind \in FaultKinds
    /\ faults < MaxFaults
    /\ faults' = faults + 1

\* A file system may fall short of its file by the slack and count as fully grown.
FilesystemNeedsGrowth == size - fs > Slack

\* What formatting (mkfs) or growing the file system (resize2fs, xfs_growfs) makes of
\* it: its size reaches that of the file, but for a last part too small to be used.
FullSizes == {f \in fs..size : f > 0 /\ size - f <= Slack}

-----------------------------------------------------------------------------
(* The files API of the Anvil                                              *)

\* GetFile: the file, or nil when it is unknown. It is nil, too, for any other
\* answer 500; a transport error is an error.
GetFileAnswer(answer) ==
    \/ answer = (IF size > 0 /\ visible THEN "file" ELSE "nil") /\ UNCHANGED faults
    \/ answer \in {"nil", "error"} /\ Fault("api")

\* The Anvil learns of a file written over NFS.
Appear ==
    /\ size > 0 /\ ~visible
    /\ visible' = TRUE
    /\ UNCHANGED <<size, fs, snapshots, coVars, createVars, dpc, nodeVars, faults>>

\* A CreateSnapshot or DeleteSnapshot of the volume completes on the Anvil. The
\* CO takes no snapshot of a volume it is deleting.
SnapshotChanges ==
    /\ phase = "created" \/ (phase = "deleting" /\ snapshots)
    /\ snapshots' = ~snapshots
    /\ UNCHANGED <<size, fs, visible, coVars, createVars, dpc, nodeVars, faults>>

-----------------------------------------------------------------------------
(* CreateVolume                                                            *)

Goto(c, s) == pc' = [pc EXCEPT ![c] = s]

\* The CO calls CreateVolume until it is answered OK, one call at a time. The
\* checks before the volume lock change nothing.
CoCreate(c) ==
    /\ phase = "creating"
    /\ live = NoCall /\ pc[c] = "idle"
    /\ live' = c
    /\ Goto(c, "lock")
    /\ UNCHANGED <<fileVars, phase, capacity, want, volumeLock, private, dpc, nodeVars, faults>>

\* The CO's deadline for the call passes: the call's context is cancelled, the
\* handler runs on until it notices.
CoAbandon ==
    /\ live # NoCall
    /\ Fault("abandon")
    /\ live' = NoCall
    /\ UNCHANGED <<fileVars, phase, capacity, want, createVars, dpc, nodeVars>>

\* Mutant: an error return forgets the unlock.
ReturnKeepsLock(c, r) ==
    LET acknowledged == live = c /\ r = "ok" /\ phase = "creating" IN
    /\ Goto(c, "idle")
    /\ volumeLock' = IF volumeLock = c /\ r = "ok" THEN NoCall ELSE volumeLock
    /\ live' = IF live = c THEN NoCall ELSE live
    /\ phase' = IF acknowledged THEN "created" ELSE phase
    /\ capacity' = IF acknowledged THEN Size ELSE capacity
    /\ UNCHANGED want

\* The handler returns and its deferred unlock runs. The answer reaches the CO
\* only if it still waits for it.
Return(c, r) ==
    LET acknowledged == live = c /\ r = "ok" /\ phase = "creating" IN
    /\ Goto(c, "idle")
    /\ volumeLock' = IF volumeLock = c THEN NoCall ELSE volumeLock
    /\ live' = IF live = c THEN NoCall ELSE live
    /\ phase' = IF acknowledged THEN "created" ELSE phase
    /\ capacity' = IF acknowledged THEN Size ELSE capacity
    /\ UNCHANGED want

GoOn(c, s) == Goto(c, s) /\ UNCHANGED <<volumeLock, coVars>>

\* A call that uses the request's context fails once that is cancelled.
ContextError(c) == (live # c /\ UNCHANGED faults) \/ Fault("command")

\* Mutant: the lock is keyed by something no other create uses.
AcquireVolumeLockUnshared(c) ==
    /\ pc[c] = "lock"
    /\ \/ /\ live = c
          /\ volumeLock' = c
          /\ Goto(c, "getFile")
          /\ UNCHANGED coVars
       \/ (live # c \/ volumeLock # NoCall) /\ Return(c, "aborted")
    /\ UNCHANGED <<fileVars, private, dpc, nodeVars, faults>>

\* acquireVolumeLock(volumeName): the lock, or Aborted after 30 seconds or when
\* the context is cancelled.
AcquireVolumeLock(c) ==
    /\ pc[c] = "lock"
    /\ \/ /\ live = c /\ volumeLock = NoCall
          /\ volumeLock' = c
          /\ Goto(c, "getFile")
          /\ UNCHANGED coVars
       \/ (live # c \/ volumeLock # NoCall) /\ Return(c, "aborted")
    /\ UNCHANGED <<fileVars, private, dpc, nodeVars, faults>>

\* Mutant: a file of any size is taken for the finished volume.
EnsureDeviceFileAnySize(c) ==
    /\ pc[c] = "getFile"
    /\ \/ ContextError(c) /\ Return(c, "error")
       \/ /\ live = c
          /\ \E answer \in {"file", "nil", "error"} :
                /\ GetFileAnswer(answer)
                /\ \/ answer = "error" /\ Return(c, "error")
                   \/ answer = "file" /\ Return(c, "ok")
                   \/ answer = "nil" /\ GoOn(c, IF SnapSize > 0 THEN "restore" ELSE "makeFile")
    /\ UNCHANGED <<fileVars, private, dpc, nodeVars>>

\* ensureFileBackedVolumeExists and the start of ensureDeviceFileExists: the
\* backing share is looked up or created, then the file is looked up. A file of
\* the right size is taken for the finished volume.
EnsureDeviceFile(c) ==
    /\ pc[c] = "getFile"
    /\ \/ ContextError(c) /\ Return(c, "error")
       \/ /\ live = c
          /\ \E answer \in {"file", "nil", "error"} :
                /\ GetFileAnswer(answer)
                /\ \/ answer = "error" /\ Return(c, "error")
                   \/ answer = "file" /\ size # Size /\ Return(c, "alreadyExists")
                   \/ answer = "file" /\ size = Size /\ Return(c, "ok")
                   \/ answer = "nil" /\ GoOn(c, IF SnapSize > 0 THEN "restore" ELSE "makeFile")
    /\ UNCHANGED <<fileVars, private, dpc, nodeVars>>

\* Mutant: the poll is skipped for every objectiveTarget.
FinishWithoutPoll(c) == Return(c, "ok")

\* What is left after the file is done: metadata tags, and with objectiveTarget
\* "file" or "both" the wait for the file to become visible. Errors in both are
\* only logged.
Finish(c) == IF PollsVisibility THEN GoOn(c, "poll") ELSE Return(c, "ok")

\* applyObjectiveAndMetadata, on a context of its own: until the file is visible
\* or ten minutes have passed. Its error is only logged.
PollVisible(c) ==
    /\ pc[c] = "poll"
    /\ (visible /\ UNCHANGED faults) \/ Fault("api")
    /\ Return(c, "ok")
    /\ UNCHANGED <<fileVars, private, dpc, nodeVars>>

\* MakeEmptyRawFile: qemu-img create truncates what is there. A command that was
\* killed on its timeout may have made the file.
MakeEmptyRawFile(c) ==
    /\ pc[c] = "makeFile"
    /\ \/ /\ size' = Size /\ fs' = 0
          /\ visible' = IF size > 0 THEN visible ELSE ~MetadataLags
          /\ \/ UNCHANGED faults /\ HasFS /\ GoOn(c, "format")
             \/ UNCHANGED faults /\ ~HasFS /\ Finish(c)
             \/ Fault("command") /\ Return(c, "error")
       \/ ContextError(c) /\ Return(c, "error") /\ UNCHANGED <<size, fs, visible>>
    /\ UNCHANGED <<snapshots, private, dpc, nodeVars>>

FormatDevice(c) ==
    /\ pc[c] = "format"
    /\ \/ fs' \in FullSizes /\ Finish(c) /\ UNCHANGED faults
       \/ Fault("command") /\ Return(c, "error") /\ UNCHANGED fs
    /\ UNCHANGED <<size, visible, snapshots, private, dpc, nodeVars>>

\* RestoreFileSnapToDestination, on the Anvil. A failed call may have taken
\* effect.
RestoreFileSnap(c) ==
    /\ pc[c] = "restore"
    /\ \/ /\ size' = SnapSize /\ fs' = (IF HasFS THEN SnapFs ELSE 0)
          /\ visible' = TRUE
          /\ \/ UNCHANGED faults /\ GoOn(c, "growLook")
             \/ ContextError(c) /\ Return(c, "error")
       \/ ContextError(c) /\ Return(c, "error") /\ UNCHANGED <<size, fs, visible>>
    /\ UNCHANGED <<snapshots, private, dpc, nodeVars>>

\* growRestoredDeviceFile: nothing to do for a file without a file system that
\* is large enough.
GrowLook(c) ==
    /\ pc[c] = "growLook"
    /\ \/ ContextError(c) /\ Return(c, "error")
       \/ /\ live = c
          /\ \E answer \in {"file", "nil", "error"} :
                /\ GetFileAnswer(answer)
                /\ \/ answer = "error" /\ Return(c, "error")
                   \/ LET rawGrowthNeeded == answer = "nil" \/ size < Size IN
                      /\ answer # "error"
                      /\ IF rawGrowthNeeded \/ filesystemGrowthPossible
                         THEN GoOn(c, "growRaw") ELSE Finish(c)
    /\ UNCHANGED <<fileVars, private, dpc, nodeVars>>

\* Mutant: the file is grown by the requested size, not to it.
GrowRawRelative(c) ==
    /\ pc[c] = "growRaw"
    /\ \/ /\ size > 0
          /\ size' = IF size < Size THEN size + Size ELSE size
          /\ IF filesystemGrowthPossible THEN GoOn(c, "growFs") ELSE Finish(c)
          /\ UNCHANGED faults
       \/ (ContextError(c) \/ (size = 0 /\ UNCHANGED faults)) /\ Return(c, "error") /\ UNCHANGED size
    /\ UNCHANGED <<fs, visible, snapshots, private, dpc, nodeVars>>

\* Mutant: the file system is left for the first publish to grow.
GrowRawOnly(c) ==
    /\ pc[c] = "growRaw"
    /\ size' = IF size < Size THEN Size ELSE size
    /\ Finish(c)
    /\ UNCHANGED <<fs, visible, snapshots, private, dpc, nodeVars, faults>>

\* acquireBackingMount, stat, ExpandRawFileSize.
GrowRaw(c) ==
    /\ pc[c] = "growRaw"
    /\ \/ /\ size > 0
          /\ size' = IF size < Size THEN Size ELSE size
          /\ IF filesystemGrowthPossible THEN GoOn(c, "growFs") ELSE Finish(c)
          /\ UNCHANGED faults
       \/ (ContextError(c) \/ (size = 0 /\ UNCHANGED faults)) /\ Return(c, "error") /\ UNCHANGED size
    /\ UNCHANGED <<fs, visible, snapshots, private, dpc, nodeVars>>

\* growFilesystemPrivatelyIfNeeded: the check and the private mount, the growth,
\* and the unmount. On an error the deferred cleanup unmounts again, best effort.
GrowFs(c) ==
    /\ pc[c] = "growFs"
    /\ \/ ~FilesystemNeedsGrowth /\ Finish(c) /\ UNCHANGED <<private, faults>>
       \/ FilesystemNeedsGrowth /\ GoOn(c, "growMounted") /\ private' = TRUE /\ UNCHANGED faults
       \/ Fault("command") /\ Return(c, "error") /\ UNCHANGED private
    /\ UNCHANGED <<fileVars, dpc, nodeVars>>

GrowMounted(c) ==
    /\ pc[c] = "growMounted"
    /\ \/ fs' \in FullSizes /\ GoOn(c, "growUnmount") /\ UNCHANGED <<private, faults>>
       \/ Fault("command") /\ Return(c, "error") /\ private' \in BOOLEAN /\ UNCHANGED fs
    /\ UNCHANGED <<size, visible, snapshots, dpc, nodeVars>>

\* Mutant: the private mount is left behind on success.
GrowUnmountSkipped(c) ==
    /\ pc[c] = "growUnmount"
    /\ Finish(c)
    /\ UNCHANGED <<fileVars, private, dpc, nodeVars, faults>>

\* UnmountFilesystem takes a path for not mounted, and is content, when the check
\* fails or is not answered in time (IsShareMounted).
GrowUnmount(c) ==
    /\ pc[c] = "growUnmount"
    /\ \/ Finish(c) /\ private' = FALSE /\ UNCHANGED faults
       \/ Finish(c) /\ Fault("probe") /\ UNCHANGED private
       \/ Fault("command") /\ Return(c, "error") /\ private' \in BOOLEAN
    /\ UNCHANGED <<fileVars, dpc, nodeVars>>

-----------------------------------------------------------------------------
(* NodePublishVolume and NodeUnpublishVolume                               *)

\* The CO publishes a volume it was told of: writable on one node, or read-only
\* on any number. It repeats a publish to the same target in the same mode.
MayPublish(n, mode) ==
    /\ phase = "created" /\ npc[n] = "idle"
    /\ mnt[n] \in {"none", mode} /\ published[n] \in {"no", mode}
    /\ \A m \in Nodes \ {n} :
          LET other == {mnt[m], published[m]} \ {"none", "no"} IN
          IF mode = "rw" THEN other = {} ELSE "rw" \notin other

Answer(n, mode) == published' = [published EXCEPT ![n] = mode]
Mount(n, mode) == mnt' = [mnt EXCEPT ![n] = mode]

\* publishFileBackedVolume up to the mount. A target that answers EIO is
\* detached and counts as not mounted; any other failure leaves things as they
\* are.
Publish(n, mode) ==
    /\ MayPublish(n, mode)
    /\ \E mounted \in BOOLEAN :
          /\ mounted => mnt[n] = mode
          /\ (~mounted /\ mnt[n] # "none") => Fault("command")
          /\ (mounted \/ mnt[n] = "none") => UNCHANGED faults
          /\ \/ /\ mode = "rw" /\ HasFS
                /\ mounted \/ fs > 0
                /\ Mount(n, mode)
                /\ npc' = [npc EXCEPT ![n] = IF mounted THEN "reconcile" ELSE "reconcileFresh"]
                /\ UNCHANGED published
             \/ /\ mode = "ro" /\ HasFS
                /\ mounted \/ (fs > 0 /\ ~FilesystemNeedsGrowth)
                /\ Mount(n, mode) /\ Answer(n, mode)
                /\ UNCHANGED npc
             \/ /\ ~HasFS /\ size > 0
                /\ Mount(n, mode) /\ Answer(n, mode)
                /\ UNCHANGED npc
             \/ /\ ~mounted /\ mnt[n] # "none"
                /\ Mount(n, "none")
                /\ UNCHANGED <<npc, published>>
    /\ UNCHANGED <<fileVars, coVars, createVars, dpc, epc>>

\* reconcilePublishedFilesystem: a failure after a fresh mount undoes the mount,
\* if the unmount works; on a republish it is only logged.
Reconcile(n) ==
    /\ npc[n] \in {"reconcile", "reconcileFresh"}
    /\ npc' = [npc EXCEPT ![n] = "idle"]
    /\ \/ fs' \in FullSizes /\ Answer(n, "rw") /\ UNCHANGED <<mnt, faults>>
       \/ /\ Fault("command")
          /\ \/ npc[n] = "reconcile" /\ Answer(n, "rw") /\ UNCHANGED mnt
             \/ /\ npc[n] = "reconcileFresh"
                /\ Mount(n, "none") \/ UNCHANGED mnt
                /\ UNCHANGED published
          /\ UNCHANGED fs
    /\ UNCHANGED <<size, visible, snapshots, coVars, createVars, dpc, epc>>

\* NodeUnpublishVolume; a failed unmount changes nothing.
Unpublish(n) ==
    /\ npc[n] = "idle" /\ (mnt[n] # "none" \/ published[n] # "no")
    /\ Mount(n, "none") /\ Answer(n, "no")
    /\ UNCHANGED <<fileVars, coVars, createVars, dpc, npc, epc, faults>>

-----------------------------------------------------------------------------
(* Expansion                                                               *)

\* ControllerExpandVolume only decides: it grows nothing itself. It takes no
\* lock. A file that is large enough needs no expansion on the node. Its failures
\* change nothing.
ControllerExpandVolume(requested) ==
    /\ phase = "created" /\ capacity < requested /\ visible
    /\ IF requested > want THEN UNCHANGED faults ELSE Fault("lower")
    /\ IF size >= requested THEN want' = 0 /\ capacity' = size
                            ELSE want' = requested /\ UNCHANGED capacity
    /\ UNCHANGED <<fileVars, phase, live, createVars, dpc, nodeVars>>

\* NodeExpandVolume, without any lock: ExpandDeviceFileSize needs the loop device
\* of the published file, and qemu-img refuses to shrink. The loop device's
\* refresh may fail after the file has grown.
NodeExpandVolume(n) ==
    /\ phase = "created" /\ want > 0 /\ epc[n] = 0 /\ visible
    /\ mnt[n] = "rw" /\ size <= want
    /\ size' = want
    /\ \/ HasFS /\ epc' = [epc EXCEPT ![n] = want] /\ UNCHANGED <<capacity, want, faults>>
       \/ ~HasFS /\ capacity' = want /\ want' = 0 /\ UNCHANGED <<epc, faults>>
       \/ Fault("command") /\ UNCHANGED <<epc, capacity, want>>
    /\ UNCHANGED <<fs, visible, snapshots, phase, live, createVars, dpc, mnt, npc, published>>

\* ExpandMountedFilesystem: it fails if the file is no longer mounted.
ExpandMountedFilesystem(n) ==
    /\ epc[n] > 0
    /\ epc' = [epc EXCEPT ![n] = 0]
    /\ \/ /\ mnt[n] = "rw"
          /\ fs' \in FullSizes
          /\ capacity' = IF capacity < epc[n] THEN epc[n] ELSE capacity
          /\ want' = IF want = epc[n] THEN 0 ELSE want
          /\ UNCHANGED faults
       \/ /\ (mnt[n] # "rw" /\ UNCHANGED faults) \/ Fault("command")
          /\ UNCHANGED <<fs, capacity, want>>
    /\ UNCHANGED <<size, visible, snapshots, phase, live, createVars, dpc, mnt, npc, published>>

-----------------------------------------------------------------------------
(* DeleteVolume                                                            *)

\* The CO deletes a volume that is published nowhere.
CoDelete ==
    /\ phase = "created"
    /\ \A n \in Nodes : mnt[n] = "none" /\ published[n] = "no" /\ npc[n] = "idle"
    /\ phase' = "deleting"
    /\ UNCHANGED <<fileVars, live, capacity, want, createVars, dpc, nodeVars, faults>>

\* The lock is keyed by the volume's ID, not by its name: it excludes other
\* deletes only.
DeleteVolume ==
    /\ phase = "deleting" /\ dpc = "idle"
    /\ dpc' = "lookup"
    /\ UNCHANGED <<fileVars, coVars, createVars, nodeVars, faults>>

\* deleteFileBackedVolume: a failed lookup counts as "does not exist".
DeleteLookup ==
    /\ dpc = "lookup"
    /\ \E answer \in {"file", "nil", "error"} :
          /\ GetFileAnswer(answer)
          /\ dpc' = IF answer = "file" THEN "checkKnown" ELSE "checkUnknown"
    /\ UNCHANGED <<fileVars, coVars, createVars, nodeVars>>

\* The answer reaches the CO, or it has given up and calls again.
DeleteReturns ==
    /\ dpc' = "idle"
    /\ \/ phase' = "deleted" /\ UNCHANGED faults
       \/ phase' = phase /\ Fault("abandon")

\* Mutant: volumes with snapshots are not refused.
DeleteCheckSnapshotsSkipped ==
    /\ \/ dpc = "checkKnown" /\ dpc' = "remove" /\ UNCHANGED <<phase, faults>>
       \/ dpc = "checkUnknown" /\ DeleteReturns
    /\ UNCHANGED <<fileVars, live, capacity, want, createVars, nodeVars>>

\* GetFileSnapshots: snapshots refuse the delete; a failed listing counts as
\* none.
DeleteCheckSnapshots ==
    /\ \/ /\ dpc \in {"checkKnown", "checkUnknown"} /\ snapshots
          /\ dpc' = "idle"
          /\ UNCHANGED <<phase, faults>>
       \/ /\ dpc = "checkKnown"
          /\ (~snapshots /\ UNCHANGED faults) \/ Fault("api")
          /\ dpc' = "remove"
          /\ UNCHANGED phase
       \/ dpc = "checkUnknown" /\ ~snapshots /\ DeleteReturns
       \/ /\ dpc = "checkUnknown" /\ snapshots /\ Fault("api")
          /\ dpc' = "idle" /\ phase' = "deleted"
    /\ UNCHANGED <<fileVars, live, capacity, want, createVars, nodeVars>>

\* The share's lock, its mount and DeleteFile.
DeleteFile ==
    /\ dpc = "remove"
    /\ \/ size' = 0 /\ fs' = 0 /\ visible' = FALSE /\ DeleteReturns
       \/ Fault("command") /\ dpc' = "idle" /\ UNCHANGED <<phase, size, fs, visible>>
    /\ UNCHANGED <<snapshots, live, capacity, want, createVars, nodeVars>>

-----------------------------------------------------------------------------
(* Restarts                                                                *)

ControllerRestart ==
    /\ Fault("crash")
    /\ pc' = [c \in Creates |-> "idle"]
    /\ volumeLock' = NoCall
    /\ live' = NoCall
    /\ dpc' = "idle"
    /\ UNCHANGED <<fileVars, phase, capacity, want, private, nodeVars>>

NodeRestart(n) ==
    /\ Fault("crash")
    /\ npc' = [npc EXCEPT ![n] = "idle"]
    /\ epc' = [epc EXCEPT ![n] = 0]
    /\ UNCHANGED <<fileVars, coVars, createVars, dpc, mnt, published>>

-----------------------------------------------------------------------------
Init ==
    /\ fsType \in FSTypes
    /\ size = 0 /\ fs = 0 /\ visible = FALSE /\ snapshots = FALSE
    /\ phase = "creating" /\ live = NoCall /\ capacity = 0 /\ want = 0
    /\ pc = [c \in Creates |-> "idle"] /\ volumeLock = NoCall /\ private = FALSE
    /\ dpc = "idle"
    /\ mnt = [n \in Nodes |-> "none"] /\ npc = [n \in Nodes |-> "idle"]
    /\ published = [n \in Nodes |-> "no"] /\ epc = [n \in Nodes |-> 0]
    /\ faults = 0

Create(c) ==
    /\ \/ AcquireVolumeLock(c) \/ EnsureDeviceFile(c) \/ MakeEmptyRawFile(c) \/ FormatDevice(c)
       \/ RestoreFileSnap(c) \/ GrowLook(c) \/ GrowRaw(c) \/ GrowFs(c) \/ GrowMounted(c)
       \/ GrowUnmount(c) \/ PollVisible(c)
    /\ UNCHANGED fsType

Delete == CoDelete \/ DeleteVolume \/ DeleteLookup \/ DeleteCheckSnapshots \/ DeleteFile

Node(n) ==
    \/ \E mode \in {"ro", "rw"} : Publish(n, mode)
    \/ Reconcile(n) \/ Unpublish(n) \/ NodeExpandVolume(n) \/ ExpandMountedFilesystem(n)
    \/ NodeRestart(n)

Next ==
    /\ \/ \E c \in Creates : CoCreate(c) \/ Create(c)
       \/ CoAbandon \/ Appear \/ SnapshotChanges
       \/ \E requested \in 1..MaxSize : ControllerExpandVolume(requested)
       \/ \E n \in Nodes : Node(n)
       \/ Delete \/ ControllerRestart
    /\ UNCHANGED fsType

Spec == Init /\ [][Next]_vars

\* The CO repeats a create that was not answered OK, the Anvil learns of every file, and
\* a handler runs to its end: its commands, requests and mount checks are all given a
\* time limit. (Its unmounts are not: the fairness assumes that unmounting a path on
\* the controller returns. A run with a source, which may unmount, checks no liveness.)
Fairness ==
    /\ WF_vars(UNCHANGED fsType /\ \E c \in Creates : CoCreate(c))
    /\ \A c \in Creates : WF_vars(Create(c))
    /\ WF_vars(UNCHANGED fsType /\ Appear)

FairSpec == Spec /\ Fairness

-----------------------------------------------------------------------------
(* Properties                                                              *)

\* Every variable has its type; neither the file nor its file system is ever larger than
\* the largest capacity asked for.
TypeOK ==
    /\ fsType \in FSTypes
    /\ size \in 0..MaxSize /\ fs \in 0..MaxSize
    /\ visible \in BOOLEAN /\ snapshots \in BOOLEAN
    /\ phase \in Phases /\ live \in {NoCall} \cup Creates
    /\ capacity \in 0..MaxSize /\ want \in 0..MaxSize
    /\ pc \in [Creates -> CreateSteps] /\ volumeLock \in {NoCall} \cup Creates
    /\ private \in BOOLEAN
    /\ dpc \in DeleteSteps
    /\ mnt \in [Nodes -> Modes] /\ npc \in [Nodes -> {"idle", "reconcile", "reconcileFresh"}]
    /\ published \in [Nodes -> {"no", "ro", "rw"}] /\ epc \in [Nodes -> 0..MaxSize]
    /\ faults \in 0..MaxFaults

\* Once CreateVolume was answered OK and until DeleteVolume is called, no step
\* shrinks, truncates or reformats the file: no create that is still in flight,
\* abandoned or overtaken, touches a volume that may be in use.
NoDataLossStep == phase = "created" /\ phase' = "created" => size' >= size /\ fs' >= fs
NoDataLoss == [][NoDataLossStep]_vars

\* A create works on the file exactly while it has the lock on the volume's name,
\* and after the CO was answered OK no create has it or can still get it.
LockHeld == \A c \in Creates : pc[c] \notin {"idle", "lock"} <=> volumeLock = c
CreatesOver == phase # "creating" => live = NoCall /\ volumeLock = NoCall
DeleteAfterCreate == dpc # "idle" => phase = "deleting"

\* Inductive; it implies NoDataLossStep.
IInv == TypeOK /\ fs <= size /\ LockHeld /\ CreatesOver /\ DeleteAfterCreate

\* A volume has the capacity the CO was told of: in the raw file, and, but for
\* filesystemGrowthSlack, in the file system of a volume that has one. No retry of an
\* abandoned create and no expansion leaves a file system that still needs growth
\* behind an answer OK (growRestoredDeviceFile, NodeExpandVolume).
CapacityDelivered ==
    phase = "created" =>
        size >= capacity /\ (filesystemGrowthPossible => fs + Slack >= capacity)

\* Whatever fails, the raw file has at least the capacity the CO was told of: no retry
\* takes a file that is too small for the volume (EnsureDeviceFile), and an expansion
\* is answered only after the file has grown.
RawCapacityDelivered == phase = "created" => size >= capacity

\* A file-backed volume is formatted when CreateVolume returns OK ("a single
\* large file on a backing share, formatted with ext4 or xfs", README).
CreatedIsFormatted == HasFS /\ phase = "created" => fs > 0

\* The controller's private writable mount of a restored file system is gone
\* before any node can publish the volume ("the only safe window",
\* growRestoredDeviceFile).
PrivateMountAlone == private => phase = "creating"

\* A volume reported deleted leaves no file on the backing share.
DeletedIsGone == phase = "deleted" => size = 0

\* The file of a volume with snapshots is not deleted ("Check if file has
\* snapshots and fail", deleteFileBackedVolume).
SnapshotsKeepFile == snapshots => size > 0

\* To the CO the raw file is the storage that Volume promises: it is there, as large as
\* the CO was told, from the answer of CreateVolume to the call of DeleteVolume, and it is
\* gone, and had no snapshots, when the volume is reported deleted.
told == IF phase = "created" THEN capacity ELSE 0
Life == INSTANCE Volume WITH storage <- size, capacity <- told, kept <- snapshots
ImplementsVolume == Life!Spec

\* The CO's retries of a CreateVolume without a source succeed in the end, after
\* attempts that were abandoned, cut off by a restart or failed in a command.
CreateSucceeds == <>(phase = "created")
=============================================================================
