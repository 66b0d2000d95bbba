---------------------------- MODULE BackingMount ----------------------------
(***************************************************************************)
(* The mount of one backing share at its staging directory                 *)
(* (/tmp + ExportPath) and the calls that use it.                          *)
(*                                                                         *)
(* File-backed creates, snapshot restores and deletes take an in-process   *)
(* reference on the mount (acquireBackingMount / releaseBackingMount,      *)
(* pkg/driver/utils.go).  Nested-NFS creates and node publishes only call  *)
(* EnsureBackingShareMounted and, when they are done or have failed, call  *)
(* UnmountBackingShareIfUnused directly, without the mount lock.           *)
(*                                                                         *)
(* A driver process has its own mountRefs and mountLocks; the mount itself *)
(* and the loop devices belong to the host, because both the controller    *)
(* and the node pod mount the host's /tmp with bidirectional propagation.  *)
(***************************************************************************)
EXTENDS Integers, Sequences, FiniteSets

CONSTANTS
    Ops,               \* the calls: each runs, returns and may be made again
    Procs,             \* driver processes on this host
    Kind,              \* what an operation is, [Ops -> Kinds]
    Proc,              \* the process that serves it, [Ops -> Procs]
    Inherited,         \* mounts a starting driver pod may find on the host
    NoOp,              \* "nobody holds the mount lock"
    ShareMayVanish,    \* TRUE: GetShare may answer 404 for the backing share
    ProbesMayTimeOut   \* TRUE: a mount check of a live mount may time out

RefKinds == {"create", "restore", "delete"}
Kinds == RefKinds \cup {"nested", "publish"}

\* The calls that hold the backing share's volume lock from start to end.
\* create and restore hold it only around ensureBackingShareExists.
ShareLockKinds == {"nested", "delete", "publish"}

ASSUME OpsAssumption == IsFiniteSet(Ops) /\ NoOp \notin Ops
ASSUME KindAssumption == Kind \in [Ops -> Kinds]
ASSUME ProcAssumption == Proc \in [Ops -> Procs]
ASSUME InheritedAssumption == Inherited \subseteq {<<>>, <<"current">>, <<"foreign">>}
ASSUME FlagAssumption == ShareMayVanish \in BOOLEAN /\ ProbesMayTimeOut \in BOOLEAN

VARIABLES
    pc,         \* where each operation is
    refs,       \* mountRefs[backingDir] of each process
    ml,         \* holder of mountLocks[backingDir] in each process
    mounts,     \* NFS mounts stacked on the staging directory, topmost first
    stagingDir, \* the directory under the mounts: "none", "empty" or "used"
    loops,      \* loop device of each publish: "none", "on" or "detached"
    lingering,  \* a timed-out mount syscall still running in the process
    effect,     \* where the operation's work went
    result      \* what the operation's last call returned

vars == <<pc, refs, ml, mounts, stagingDir, loops, lingering, effect, result>>

Servers == {"current", "foreign"}
Places == {"none", "share", "foreign", "local"}

\* Steps of ensureBackingShareMounted, of the work under the mount, and of
\* UnmountBackingShareIfUnused.
EnsureSteps == {"ensureGetShare", "ensureLock", "classify", "replace",
                "removeReplaced", "mount", "mountCall"}
WorkSteps == {"work", "work2"}
UnmountSteps == {"unmountGetShare", "unmountRefs", "unmountProbe", "unmount",
                 "removeDir"}
Steps == {"idle", "acquire", "release"} \cup EnsureSteps \cup WorkSteps \cup UnmountSteps

IsRef(o) == Kind[o] \in RefKinds
OpsOf(p) == {o \in Ops : Proc[o] = p}

\* The operations of process p that have taken a reference and not dropped it.
HoldSteps == EnsureSteps \cup WorkSteps \cup {"release"}
Holders(p) == {o \in OpsOf(p) : IsRef(o) /\ pc[o] \in HoldSteps}

\* The operations for which acquireBackingMount has returned.
Acquired == {o \in Ops : IsRef(o) /\ pc[o] \in WorkSteps \cup {"release"}}

-----------------------------------------------------------------------------
(* What the calls see of the host and of the Anvil                         *)

\* Where a path below the staging directory leads.
Where ==
    IF mounts = <<>> THEN "local"
    ELSE IF Head(mounts) = "current" THEN "share" ELSE "foreign"

\* GetShare: the share, an error, or nil (404).
GetShareAnswers == {"share", "error"} \cup (IF ShareMayVanish THEN {"nil"} ELSE {})

\* One SafeIsMountPoint probe. A missing directory counts as not mounted.
ProbeAnswers ==
    IF mounts = <<>> THEN {"absent"}
    ELSE {"mounted"} \cup (IF ProbesMayTimeOut THEN {"timeout"} ELSE {})

\* IsShareMounted: a probe that times out counts as not mounted.
IsShareMounted == {a = "mounted" : a \in ProbeAnswers}

\* classifyMount with mountStaleProbes = 2: stale after two timeouts in a row,
\* otherwise what the first probe that answered said.
classifyMount ==
    {IF a # "timeout" THEN a ELSE IF b # "timeout" THEN b ELSE "stale" :
        a \in ProbeAnswers, b \in ProbeAnswers}

\* foreignBackingMountServer: a mount from another Anvil is told from a current
\* one, unless the Anvil cannot be asked.
foreignBackingMountServer == {FALSE, Where = "foreign"}

\* loopDevicesUnder: losetup -a lists a device whether or not its file is still
\* reachable through the staging directory. Both callers treat a failed listing
\* like a device in use.
loopDevicesUnder == {\E o \in Ops : loops[o] # "none", TRUE}

\* umount returns EBUSY while a loop device sits on the only mount.
Pinned == Len(mounts) = 1 /\ \E o \in Ops : loops[o] = "on"

-----------------------------------------------------------------------------
(* Reference count and mount lock                                          *)

backingMountRefs(p) == refs[p]
backingMountInUse(p) == backingMountRefs(p) > 0

bumpBackingRef(p) == refs' = [refs EXCEPT ![p] = @ + 1]
dropBackingRef(p) == refs' = [refs EXCEPT ![p] = IF @ > 0 THEN @ - 1 ELSE 0]

Goto(o, s) == pc' = [pc EXCEPT ![o] = s]
Lock(o) == ml[Proc[o]] = NoOp /\ ml' = [ml EXCEPT ![Proc[o]] = o]
Unlock(o) == ml' = [ml EXCEPT ![Proc[o]] = IF @ = o THEN NoOp ELSE @]
Return(o, r) == result' = [result EXCEPT ![o] = r]

host == <<mounts, stagingDir, loops, lingering>>

-----------------------------------------------------------------------------
(* Starting a call                                                         *)

Unpublishing(q) == pc[q] # "idle" /\ result[q] = "unpublished"

ShareLockFree(p) ==
    \A q \in OpsOf(p) : Kind[q] \in ShareLockKinds => pc[q] = "idle" \/ Unpublishing(q)

\* A call passes the backing share's volume lock. A caller whose wait times out
\* gets Aborted and has changed nothing: it is still idle here. A publish of a
\* volume that is already published does not touch the backing mount.
Start(o) ==
    /\ pc[o] = "idle"
    /\ ShareLockFree(Proc[o])
    /\ loops[o] = "none"
    /\ Goto(o, IF IsRef(o) THEN "acquire" ELSE "ensureGetShare")
    /\ effect' = [effect EXCEPT ![o] = "none"]
    /\ Return(o, "none")
    /\ UNCHANGED <<refs, ml, host>>

\* Mutant: only the first holder waits for the mount lock.
acquireBackingMountUnlocked(o) ==
    /\ pc[o] = "acquire"
    /\ bumpBackingRef(Proc[o])
    /\ \/ /\ backingMountRefs(Proc[o]) = 0
          /\ Lock(o)
          /\ Goto(o, "ensureGetShare")
       \/ /\ backingMountRefs(Proc[o]) # 0
          /\ Goto(o, "work")
          /\ UNCHANGED ml
    /\ UNCHANGED <<host, effect, result>>

\* acquireBackingMount up to the mount: the reference is reserved under the
\* mount lock, and only the first holder checks or makes the mount.
acquireBackingMount(o) ==
    /\ pc[o] = "acquire"
    /\ ml[Proc[o]] = NoOp
    /\ bumpBackingRef(Proc[o])
    /\ \/ /\ backingMountRefs(Proc[o]) = 0
          /\ Lock(o)
          /\ Goto(o, "ensureGetShare")
       \/ /\ backingMountRefs(Proc[o]) # 0
          /\ Goto(o, "work")
          /\ UNCHANGED ml
    /\ UNCHANGED <<host, effect, result>>

-----------------------------------------------------------------------------
(* ensureBackingShareMounted                                               *)

\* It returns nil: a reference holder leaves acquireBackingMount with the mount
\* lock released, the others go on to their work.
EnsureOk(o) ==
    /\ Goto(o, "work")
    /\ Unlock(o)
    /\ UNCHANGED <<refs, result>>

\* Mutant: the failed caller keeps its reservation.
EnsureErrorLeaksRef(o) ==
    /\ Goto(o, IF Kind[o] = "nested" THEN "unmountGetShare" ELSE "idle")
    /\ Unlock(o)
    /\ Return(o, "error")
    /\ UNCHANGED refs

\* Mutant: every failed caller drops a reference, whether or not it took one.
EnsureErrorAlwaysDrops(o) ==
    /\ Goto(o, IF Kind[o] = "nested" THEN "unmountGetShare" ELSE "idle")
    /\ refs' = [refs EXCEPT ![Proc[o]] = @ - 1]
    /\ Unlock(o)
    /\ Return(o, "error")

\* Mutant: the error return skips the unlock.
EnsureErrorKeepsLock(o) ==
    /\ Goto(o, IF Kind[o] = "nested" THEN "unmountGetShare" ELSE "idle")
    /\ IF IsRef(o) THEN dropBackingRef(Proc[o]) ELSE UNCHANGED refs
    /\ Return(o, "error")
    /\ UNCHANGED ml

\* It returns an error: acquireBackingMount drops the reference it reserved;
\* a nested create's deferred unmount still runs; a publish just returns.
EnsureError(o) ==
    /\ Goto(o, IF Kind[o] = "nested" THEN "unmountGetShare" ELSE "idle")
    /\ IF IsRef(o) THEN dropBackingRef(Proc[o]) ELSE UNCHANGED refs
    /\ Unlock(o)
    /\ Return(o, "error")

\* Mutant: a failed lookup is swallowed.
EnsureGetShareIgnoresError(o) ==
    /\ pc[o] = "ensureGetShare"
    /\ \E answer \in GetShareAnswers :
          \/ answer # "share" /\ EnsureOk(o)
          \/ /\ answer = "share"
             /\ Goto(o, IF IsRef(o) THEN "classify" ELSE "ensureLock")
             /\ UNCHANGED <<refs, ml, result>>
    /\ UNCHANGED <<host, effect>>

EnsureGetShare(o) ==
    /\ pc[o] = "ensureGetShare"
    /\ \E answer \in GetShareAnswers :
          \/ answer = "error" /\ EnsureError(o)
          \/ answer = "nil" /\ EnsureOk(o)
          \/ /\ answer = "share"
             /\ Goto(o, IF IsRef(o) THEN "classify" ELSE "ensureLock")
             /\ UNCHANGED <<refs, ml, result>>
    /\ UNCHANGED <<host, effect>>

EnsureLock(o) ==
    /\ pc[o] = "ensureLock"
    /\ Lock(o)
    /\ Goto(o, "classify")
    /\ UNCHANGED <<refs, host, effect, result>>

\* Mutant: every caller subtracts a reference of its own.
OthersButOne(o) == backingMountRefs(Proc[o]) - 1

\* Other references than the caller's own.
Others(o) == backingMountRefs(Proc[o]) - (IF IsRef(o) THEN 1 ELSE 0)

\* ForceUnmountStale: umount -f -l, best effort. It detaches the topmost mount
\* whoever uses it; loop devices on the last one keep running, detached.
ForceUnmountStale ==
    \/ UNCHANGED <<mounts, loops>>
    \/ /\ mounts # <<>>
       /\ mounts' = Tail(mounts)
       /\ loops' = [o \in Ops |-> IF Len(mounts) = 1 /\ loops[o] = "on"
                                  THEN "detached" ELSE loops[o]]

Classify(o) ==
    /\ pc[o] = "classify"
    /\ \E state \in classifyMount :
          \/ /\ state = "mounted"
             /\ \E foreign \in foreignBackingMountServer, inUse \in loopDevicesUnder :
                   \/ ~foreign /\ EnsureOk(o)
                   \/ foreign /\ (Others(o) > 0 \/ inUse) /\ EnsureError(o)
                   \/ /\ foreign /\ ~(Others(o) > 0 \/ inUse)
                      /\ Goto(o, "replace")
                      /\ UNCHANGED <<refs, ml, result>>
             /\ UNCHANGED <<mounts, loops>>
          \/ /\ state = "stale"
             /\ ForceUnmountStale
             /\ Goto(o, "mount")
             /\ UNCHANGED <<refs, ml, result>>
          \/ /\ state = "absent"
             /\ Goto(o, "mount")
             /\ UNCHANGED <<refs, ml, mounts, loops, result>>
    /\ UNCHANGED <<stagingDir, lingering, effect>>

\* MountShareAtBestDataportal, up to the mount syscall: no slot, no data portal,
\* no export or a failed probe is an error; MountShare keeps a mount it finds,
\* and creates the directory if it is missing.
MountShareAtBestDataportal(o) ==
    /\ pc[o] = "mount"
    /\ \/ EnsureError(o) /\ UNCHANGED stagingDir
       \/ mounts # <<>> /\ EnsureOk(o) /\ UNCHANGED stagingDir
       \/ /\ mounts = <<>>
          /\ stagingDir' = IF stagingDir = "none" THEN "empty" ELSE stagingDir
          /\ Goto(o, "mountCall")
          /\ UNCHANGED <<refs, ml, result>>
    /\ UNCHANGED <<mounts, loops, lingering, effect>>

\* beginMount and the wait for it: the mount lands on top of what is there by
\* now, fails, or outlasts the wait and lingers. An attempt that still lingers
\* from an earlier call is joined, not repeated.
MountCall(o) ==
    /\ pc[o] = "mountCall"
    /\ \/ /\ stagingDir # "none"
          /\ mounts' = <<"current">> \o mounts
          /\ lingering' = [lingering EXCEPT ![Proc[o]] = FALSE]
          /\ EnsureOk(o)
       \/ /\ \E late \in BOOLEAN : lingering' = [lingering EXCEPT ![Proc[o]] = late]
          /\ EnsureError(o)
          /\ UNCHANGED mounts
    /\ UNCHANGED <<stagingDir, loops, effect>>

\* The lingering syscall returns after its caller gave up: it mounts on top of
\* whatever is there by now, or fails (always, if the directory is gone).
LateMount(p) ==
    /\ lingering[p]
    /\ lingering' = [lingering EXCEPT ![p] = FALSE]
    /\ \/ stagingDir # "none" /\ mounts' = <<"current">> \o mounts
       \/ UNCHANGED mounts
    /\ UNCHANGED <<pc, refs, ml, stagingDir, loops, effect, result>>

-----------------------------------------------------------------------------
(* The work done through the mount                                         *)

\* The work is over: reference holders release, a nested create runs its
\* deferred unmount, a publish unmounts only after a failure.
Finish(o, r) ==
    /\ Return(o, r)
    /\ Goto(o, IF IsRef(o) THEN "release"
               ELSE IF Kind[o] = "publish" /\ r = "ok" THEN "idle"
               ELSE "unmountGetShare")

WriteAt(o, place) ==
    /\ effect' = [effect EXCEPT ![o] = place]
    /\ stagingDir' = IF place = "local" THEN "used" ELSE stagingDir

\* Any command on the path may fail.
WorkFails(o) ==
    /\ pc[o] \in WorkSteps
    /\ Finish(o, "error")
    /\ UNCHANGED <<refs, ml, host, effect>>

\* MakeEmptyRawFile: qemu-img needs the directory, mounted or not. A block
\* volume is not formatted.
MakeEmptyRawFile(o) ==
    /\ pc[o] = "work" /\ Kind[o] = "create"
    /\ ~(Where = "local" /\ stagingDir = "none")
    /\ WriteAt(o, Where)
    /\ \/ Goto(o, "work2") /\ UNCHANGED result
       \/ Finish(o, "ok")
    /\ UNCHANGED <<refs, ml, mounts, loops, lingering>>

\* growRestoredDeviceFile: the file was restored on the Anvil, so it is found
\* only through a mount of the current share.
GrowRestoredDeviceFile(o) ==
    /\ pc[o] = "work" /\ Kind[o] = "restore"
    /\ Where = "share"
    /\ WriteAt(o, Where)
    /\ \/ Goto(o, "work2") /\ UNCHANGED result
       \/ Finish(o, "ok")
    /\ UNCHANGED <<refs, ml, mounts, loops, lingering>>

\* FormatDevice, or the growth of a restored file system: the file must still
\* be where the first command left it.
FormatDevice(o) ==
    /\ pc[o] = "work2"
    /\ Where = effect[o]
    /\ Finish(o, "ok")
    /\ UNCHANGED <<refs, ml, host, effect>>

\* DeleteFile: a path that is not there counts as deleted.
DeleteFile(o) ==
    /\ pc[o] = "work" /\ Kind[o] = "delete"
    /\ effect' = [effect EXCEPT ![o] = Where]
    /\ Finish(o, "ok")
    /\ UNCHANGED <<refs, ml, host>>

\* MakeEmptyRawFolder: MkdirAll creates the staging directory too.
MakeEmptyRawFolder(o) ==
    /\ pc[o] = "work" /\ Kind[o] = "nested"
    /\ WriteAt(o, Where)
    /\ Finish(o, "ok")
    /\ UNCHANGED <<refs, ml, mounts, loops, lingering>>

\* AttachLoopDeviceWithRetry or the loop mount of the file's own file system.
AttachLoopDevice(o) ==
    /\ pc[o] = "work" /\ Kind[o] = "publish"
    /\ Where = "local" => stagingDir = "used"
    /\ effect' = [effect EXCEPT ![o] = Where]
    /\ loops' = [loops EXCEPT ![o] = IF Where = "local" THEN "detached" ELSE "on"]
    /\ Finish(o, "ok")
    /\ UNCHANGED <<refs, ml, mounts, stagingDir, lingering>>

\* unpublishFileBackedVolume: it takes another lock key than publish ("/share",
\* not "share"), detaches the loop device and calls the unmount directly.
Unpublish(o) ==
    /\ Kind[o] = "publish" /\ pc[o] = "idle" /\ loops[o] # "none"
    /\ \A q \in OpsOf(Proc[o]) : ~Unpublishing(q)
    /\ loops' = [loops EXCEPT ![o] = "none"]
    /\ Goto(o, "unmountGetShare")
    /\ Return(o, "unpublished")
    /\ UNCHANGED <<refs, ml, mounts, stagingDir, lingering, effect>>

-----------------------------------------------------------------------------
(* Release and UnmountBackingShareIfUnused                                 *)

\* releaseBackingMount: the last holder to drop keeps the mount lock for the
\* unmount, the others are done.
releaseBackingMount(o) ==
    /\ pc[o] = "release"
    /\ ml[Proc[o]] = NoOp
    /\ dropBackingRef(Proc[o])
    /\ \/ /\ refs'[Proc[o]] = 0
          /\ Lock(o)
          /\ Goto(o, "unmountGetShare")
       \/ /\ refs'[Proc[o]] # 0
          /\ Goto(o, "idle")
          /\ UNCHANGED ml
    /\ UNCHANGED <<host, effect, result>>

\* The call returns. Its unmount error is logged, never reported.
UnmountReturns(o) == Goto(o, "idle") /\ Unlock(o)

UnmountGetShare(o) ==
    /\ pc[o] = "unmountGetShare"
    /\ \E answer \in GetShareAnswers :
          IF answer = "share" THEN Goto(o, "unmountRefs") /\ UNCHANGED ml
                              ELSE UnmountReturns(o)
    /\ UNCHANGED <<refs, host, effect, result>>

UnmountCheckRefs(o) ==
    /\ pc[o] = "unmountRefs"
    /\ IF backingMountInUse(Proc[o]) THEN UnmountReturns(o)
                                     ELSE Goto(o, "unmountProbe") /\ UNCHANGED ml
    /\ UNCHANGED <<refs, host, effect, result>>

UnmountProbe(o) ==
    /\ pc[o] = "unmountProbe"
    /\ \E mounted \in IsShareMounted, inUse \in loopDevicesUnder :
          IF mounted /\ ~inUse THEN Goto(o, "unmount") /\ UNCHANGED ml
                               ELSE UnmountReturns(o)
    /\ UNCHANGED <<refs, host, effect, result>>

\* UnmountFilesystem, for both of its callers: the unmount above and the
\* replacement of a foreign mount. It leaves a path alone that it does not see
\* mounted, and reports a failed umount.
UnmountFilesystem(o) ==
    /\ \/ /\ pc[o] = "unmount"
          /\ UNCHANGED <<refs, result>>
          /\ \E mounted \in IsShareMounted :
                \/ /\ mounted /\ ~Pinned
                   /\ mounts' = Tail(mounts)
                   /\ Goto(o, "removeDir") /\ UNCHANGED ml
                \/ UnmountReturns(o) /\ UNCHANGED mounts
       \/ /\ pc[o] = "replace"
          /\ \E mounted \in IsShareMounted :
                \/ /\ mounted /\ ~Pinned
                   /\ mounts' = Tail(mounts)
                   /\ Goto(o, "removeReplaced") /\ UNCHANGED <<refs, ml, result>>
                \/ mounted /\ EnsureError(o) /\ UNCHANGED mounts
                \/ /\ ~mounted
                   /\ Goto(o, "mount")
                   /\ UNCHANGED <<refs, ml, mounts, result>>
    /\ UNCHANGED <<stagingDir, loops, lingering, effect>>

\* os.Remove of the unmounted directory. It fails on a mount point and on a
\* directory with files in it; replacing a foreign mount then fails too.
RemoveDir(o) ==
    LET removed == mounts = <<>> /\ stagingDir # "used" IN
    /\ stagingDir' = IF removed THEN "none" ELSE stagingDir
    /\ \/ pc[o] = "removeDir" /\ UnmountReturns(o) /\ UNCHANGED <<refs, result>>
       \/ /\ pc[o] = "removeReplaced" /\ removed
          /\ Goto(o, "mount")
          /\ UNCHANGED <<refs, ml, result>>
       \/ pc[o] = "removeReplaced" /\ ~removed /\ EnsureError(o)
    /\ UNCHANGED <<mounts, loops, lingering, effect>>

-----------------------------------------------------------------------------
(* A driver process dies and comes back: its calls are gone, its counters   *)
(* start empty, the host keeps its mounts and loop devices.                 *)

Restart(p) ==
    /\ pc' = [o \in Ops |-> IF Proc[o] = p THEN "idle" ELSE pc[o]]
    /\ result' = [o \in Ops |-> IF Proc[o] = p THEN "none" ELSE result[o]]
    /\ refs' = [refs EXCEPT ![p] = 0]
    /\ ml' = [ml EXCEPT ![p] = NoOp]
    /\ \E late \in {FALSE, lingering[p]} : lingering' = [lingering EXCEPT ![p] = late]
    /\ UNCHANGED <<mounts, stagingDir, loops, effect>>

-----------------------------------------------------------------------------
\* A new driver pod may inherit a mount, of this Anvil or of the previous one,
\* with loop devices of published volumes on it.
Init ==
    /\ pc = [o \in Ops |-> "idle"]
    /\ refs = [p \in Procs |-> 0]
    /\ ml = [p \in Procs |-> NoOp]
    /\ mounts \in Inherited
    /\ stagingDir = IF mounts = <<>> THEN "none" ELSE "empty"
    /\ loops \in {f \in [Ops -> {"none", "on"}] :
                     \A o \in Ops : f[o] = "on" => Kind[o] = "publish" /\ mounts # <<>>}
    /\ lingering = [p \in Procs |-> FALSE]
    /\ effect = [o \in Ops |-> "none"]
    /\ result = [o \in Ops |-> "none"]

Work(o) ==
    \/ WorkFails(o) \/ MakeEmptyRawFile(o) \/ GrowRestoredDeviceFile(o)
    \/ FormatDevice(o) \/ DeleteFile(o) \/ MakeEmptyRawFolder(o)
    \/ AttachLoopDevice(o)

Ensure(o) ==
    \/ EnsureGetShare(o) \/ EnsureLock(o) \/ Classify(o)
    \/ MountShareAtBestDataportal(o) \/ MountCall(o)

Unmount(o) ==
    \/ UnmountGetShare(o) \/ UnmountCheckRefs(o) \/ UnmountProbe(o)
    \/ UnmountFilesystem(o) \/ RemoveDir(o)

Next ==
    \/ \E o \in Ops : \/ Start(o) \/ Unpublish(o)
                      \/ acquireBackingMount(o) \/ releaseBackingMount(o)
                      \/ Ensure(o) \/ Work(o) \/ Unmount(o)
    \/ \E p \in Procs : LateMount(p) \/ Restart(p)

Spec == Init /\ [][Next]_vars

\* A call goes on until it returns: its probes and its mount have a timeout; that its
\* umount, which has none, returns is assumed. A waiter on the mount lock (a Go
\* sync.Mutex) is served eventually, even if others come.
Fairness ==
    \A o \in Ops : /\ WF_vars(Ensure(o) \/ Work(o) \/ Unmount(o))
                   /\ SF_vars(acquireBackingMount(o))
                   /\ SF_vars(releaseBackingMount(o))
                   /\ SF_vars(EnsureLock(o))

FairSpec == Spec /\ Fairness

-----------------------------------------------------------------------------
(* Properties                                                              *)

\* Every variable has its type; mountRefs is never negative.
TypeOK ==
    /\ pc \in [Ops -> Steps]
    /\ refs \in [Procs -> Nat]
    /\ ml \in [Procs -> {NoOp} \cup Ops]
    /\ mounts \in Seq(Servers)
    /\ stagingDir \in {"none", "empty", "used"}
    /\ loops \in [Ops -> {"none", "on", "detached"}]
    /\ lingering \in [Procs -> BOOLEAN]
    /\ effect \in [Ops -> Places]
    /\ result \in [Ops -> {"none", "ok", "error", "unpublished"}]

\* mountRefs counts exactly the calls that are between taking and dropping a
\* reference: no path of acquireBackingMount or releaseBackingMount, error
\* returns and restarts included, leaks a reference or drops one twice.
RefsCounted == \A p \in Procs : refs[p] = Cardinality(Holders(p))

\* While a call is between acquireBackingMount and releaseBackingMount, the
\* backing share is mounted ("can't ... unmount a share out from under an
\* in-flight mkfs", backingMountInUse).
HeldMountStays == Acquired # {} => mounts # <<>>

\* A call that decided to replace a foreign mount is the only user of the
\* mount: no other call of its process holds a reference until it has unmounted.
ReplaceExclusive ==
    \A o \in Ops : pc[o] \in {"replace", "removeReplaced"} =>
                       Holders(Proc[o]) \subseteq {o}

\* The steps at which call o has its process's mount lock.
LockSteps(o) ==
    {"classify", "replace", "removeReplaced", "mount", "mountCall"}
    \cup (IF IsRef(o) THEN {"ensureGetShare"} \cup UnmountSteps ELSE {})

\* The steps a call never takes because of its kind.
OtherSteps(o) == IF IsRef(o) THEN {"ensureLock"} ELSE {"acquire", "release"}

\* The mount lock is held exactly by the call that is at one of these steps:
\* no return path keeps it, and no two calls are inside at once.
LockExact ==
    \A o \in Ops : /\ pc[o] \in LockSteps(o) <=> ml[Proc[o]] = o
                   /\ pc[o] \notin OtherSteps(o)

\* A reference holder that checks or makes the mount is the only holder of its
\* process, and one that unmounts after its release leaves no holder behind.
HoldersAlone ==
    \A o \in Ops : IsRef(o) =>
        /\ pc[o] \in EnsureSteps => Holders(Proc[o]) = {o}
        /\ pc[o] \in UnmountSteps => Holders(Proc[o]) = {}

\* Inductive: RefsCounted and ReplaceExclusive need to know who has the lock.
IInv == TypeOK /\ LockExact /\ RefsCounted /\ HoldersAlone /\ ReplaceExclusive

\* Every call goes through the reference count, in one process, and the share
\* is not removed from the Anvil under them.
RefCallersOnly ==
    /\ \A o \in Ops : IsRef(o)
    /\ \A o, q \in Ops : Proc[o] = Proc[q]
    /\ ~ShareMayVanish

\* A call that reports success did its work on an NFS mount, never in the bare
\* staging directory on the node's own disk.
WorkOnShare == \A o \in Ops : result[o] = "ok" => effect[o] # "local"

\* The calls that hold a reference see the mount as SharedMount promises: it
\* is there from acquire to release and goes away only when the last is done.
Users == {o \in Ops : IsRef(o)}
Shared == INSTANCE SharedMount WITH
    users <- Acquired,
    mounted <- mounts # <<>>
ImplementsSharedMount == Shared!Spec

\* Every call returns: the mount lock is never leaked and never waited for in
\* a circle.
EveryCallReturns == \A o \in Ops : pc[o] # "idle" ~> pc[o] = "idle"

=============================================================================
