# TLA+ models of the Hammerspace CSI driver

These modules model the parts of the driver and its operator where several calls,
processes or retries share state. TLC checks them on small instances, and TLAPS
proves the safety properties for any number of calls, nodes, volumes and faults.

## The system

| Part | Code | Modelled by |
|---|---|---|
| Mount of a backing share, its reference count and lock | `pkg/driver/utils.go`, `pkg/common/host_utils.go` | `BackingMount`, `SharedMount` |
| File-backed volumes: create, restore, publish, expand, delete | `pkg/driver/controller.go`, `node.go`, `node_helper.go` | `FileVolume`, `Volume` |
| Share-backed volumes and the Anvil's tasks | `controller.go`, `pkg/client/hsclient.go` | `ShareVolume`, `Volume` |
| Snapshots and the consistency freeze | `controller.go`, `freezer.go` | `Snapshot` |
| NFS volumes on a node: stage, publish, unpublish, unstage, mount slots, the legacy root export | `node.go`, `node_helper.go`, `driver.go`, `host_utils.go` | `NodeStaging` |
| Nested-NFS volumes: a directory on a backing share | `controller.go` | `BackingMount` (creation), `NodeStaging` (on the node) |
| Operator reconciliation and cleanup | `operator/internal/operator/reconcile.go` | `OperatorReconcile` |

The CO (Kubernetes' sidecars and kubelet) calls the driver, gives up on calls after
a deadline and repeats them. The controller pod and, on every host, a node pod serve
the calls. Both mount the host's `/tmp` with bidirectional propagation, so mounts and
loop devices belong to the host and outlive a process, while `mountRefs`,
`mountLocks`, the volume and snapshot locks and `recentlyCreatedSnapshots` are a
process's own. The storage itself is on the Anvil, which does most of its work in
tasks that outlive the request. `PROJECT.json` lists every component, every hazard at
its line, and the source lines of every definition.

In every module a step is a stretch of a handler between two points where something
else can interfere: a lock, a command, a request to the Anvil or the cluster. Failures
are counted and bounded (`MaxFaults`, `MaxErrors`), and where their kind matters
`FaultKinds` says which happen.

## BackingMount

One backing share and its staging directory. `Ops` are calls of five kinds. Creates,
restores and deletes go through `acquireBackingMount` and `releaseBackingMount`;
nested-NFS creates and publishes call `EnsureBackingShareMounted` and
`UnmountBackingShareIfUnused` directly.

| State | Code |
|---|---|
| `refs`, `ml` | `mountRefs[dir]`, the holder of `mountLocks[dir]`, per process |
| `mounts`, `stagingDir` | NFS mounts stacked on the directory, the directory itself |
| `loops` | loop devices of published volumes |
| `lingering` | a mount syscall whose caller timed out (`beginMount`) |
| `effect`, `result` | where a call's work went, what it returned |

Probes may time out, `GetShare` may fail or answer 404, any command may fail, a process
may restart at any time. A driver may start on a host with a mount left by an earlier
one, from this Anvil or from another.

`SharedMount` is the promise of acquire and release: whoever is between them has the
share mounted. `ImplementsSharedMount` is the refinement.

## FileVolume

One file-backed volume. `size` and `fs` are the sizes of the raw file and of the file
system in it, 0 when there is none; `visible` says whether the Anvil's files API knows
the file. `phase` and `capacity` are what the CO was told. `pc` and `dpc` say where each
create and the delete are, `volumeLock` who has the lock on the volume's name, `mnt`,
`npc`, `published` and `epc` what each node does. The faults are a failed command, a
restart, an abandoned call, a failed files API, a failed check of what is mounted and a
lowered expansion. The mount of the backing share is not repeated here: a step that
needs it may fail. Sizes are small numbers whose order is what matters. `Slack` is
`filesystemGrowthSlack`: mkfs and the growth tools may leave a file system that much
smaller than its file (`FullSizes`), the driver then takes it for fully grown
(`FilesystemNeedsGrowth`), and `CapacityDelivered` asks for no more. An unmount of the
private growth mount whose check fails counts as done (`GrowUnmount`), and CreateVolume
answers OK with the mount left; the same of a pod's target is in `NodeStaging`. The CO
repeats a create until it is answered OK and not after that, and deletes a volume that
it was told of and has unpublished.

`Volume` is what the CO is promised of a volume: storage is prepared until the create is
answered; then it is there with at least the capacity the CO was told, which only grows;
it is removed only after the delete was called, when there are no snapshots, and it is gone
when the delete is answered. `ImplementsVolume` is the refinement, with the raw file as
the storage. `ShareVolume` implements the same `Volume`.

## ShareVolume

One share-backed volume from CreateVolume to DeleteVolume. The handlers (`pc`) ask the
Anvil for work, which queues a task (`queue`), and poll until the task is over
(`outcome`). The Anvil ends tasks in any order: nothing in the driver relies on one, so
none is assumed. A handler can be cut off anywhere; the next call finds the share, or
the task an earlier call left, and waits for it or starts over. After a failed expansion
the CO may ask for less than before (`want`). `lists` is fixed at the start: whether the
Anvil lists a share whose create task has not ended, which the driver does not control.
`lostTask`, `lostClean`, `blind` and `crossed` remember the four things that the driver
cannot see afterwards: a create call that ended before its task, one that ended before
the deletion its cleanup had asked for, a request accepted without a task to poll, and
an expansion that met a smaller resize which an earlier call had left queued and which
may still run after it. The properties name the ones they need; `crossed` ends with the
first expansion that finds no such resize left.

The share is the storage of `Volume` once its create task has succeeded, with its size
limit as the size. `ImplementsVolume` says that every step is a step of `Volume`, or
leaves what the CO sees alone, except where one of the four happens in a way that matters
(`Undercut`, `blind`, `crossed`); there the CO may have been told more than there is.

## Snapshot

`CreateSnapshot` and `DeleteSnapshot` with any number of concurrent handlers: the lock
per snapshot name (`lock`), the map `recentlyCreatedSnapshots` (`recent`), the look-up
of the filesystems to freeze, freeze, snapshot and deferred unfreeze. A call can be
cancelled at any time, an exec can fail after it has run, and a restart forgets
everything but what is frozen (`stuck` remembers who is left). The CO does not reuse the
name of a snapshot that it has deleted (Kubernetes derives names from UIDs): the map is
never emptied, so such a create would be answered with the deleted snapshot. A file
snapshot is deleted by an expression that names the second it was taken in
(`fileSnapshotTimestamp`), so every snapshot of that file in that second goes with it
(`DeletedWith`); `AnswerIsRight` excepts an answer from the map that was lost in this way
(`LostWithAnother`). A handler that finds a filesystem frozen by another one goes on
without a freeze of its own, as the code's best-effort rule has it; `QuiescedWhileHeld`
is about what a handler has frozen itself.

## NodeStaging

NFS volumes on one node. Publish and unpublish hold the volume lock; stage and unstage
do not. A stage takes a mount slot (`free`), goes through the data portals and NFS
versions (`tries`), and its mount runs in a goroutine of its own (`attempts`) that
outlives a handler that times out. `device` and `use` are what kubelet believes; kubelet
has one call at a time out for a device or a pod, gives up on it after its deadline, and
the handler runs on. `markers` and `root` are the volumes that an older driver staged
and the root export it mounted for them. `hung` are the handlers stuck in an lstat, an
unmount or a bind on a mount whose server is gone: these calls have no timeout
(`node.go:506`, `host_utils.go:908`), and a stuck handler keeps its lock and goes on
only when the server answers again. `undermined`, `leaked` and `blind` remember the
events that the properties except: a publish whose staging path was unmounted between
its last check and its bind, a mount left by a late end or a timed-out check, a failed
step in the release of the root export.

## OperatorReconcile

The one `HammerspaceCSIDriver` resource (CR) and its operands. `pc`, `todo` and `cur`
are the pass of `Reconcile` that is going on; `owner`, `dying`, `csa` and `health` the
operands' objects in the cluster. UIDs and resource versions are abstracted to whether
the object that was read is still there (`same`) and the CR still unchanged (`fresh`).
Meanwhile users create, edit and delete the CR, others create and delete objects of the
same names, workloads change their health, requests fail, and the operator restarts.

## Runs

Each run's configuration has the run's name. Passing runs:

| Run | Question | Distinct states |
|---|---|---|
| `BackingMountRefs` | Do counted callers keep the mount, through restarts and timeouts, and does every call return? | 16,598 |
| `BackingMountMixed` | Is a foreign mount replaced only by its sole user, with uncounted callers and a node process around? | 1,205,114 |
| `FileVolumeFaults` | Can a stray create damage a restored volume in use, or a retry deliver too small a file, whatever fails? | 63,488 |
| `FileVolumeRetry` | Is a restored volume complete, but for the slack, when calls are abandoned and lookups fail but commands and mount checks work? | 242,500 |
| `FileVolumeDelete` | With a working files API: do retries of a create succeed, and does the CO see the life that `Volume` promises? | 12,671 |
| `ShareVolume` | Is what the CO was told of a share true on the Anvil, whatever tasks are left there, and do retries succeed? | 372,308 |
| `Snapshot` | Has a name one snapshot, of the right volume, and does what a handler froze stay frozen until that handler unfreezes it, and no longer? | 1,159,135 |
| `NodeStaging` | Do pods get the share, is what is released unmounted, is no slot lost, and does every call return that is not stuck on a dead server? | 635,756 |
| `OperatorReconcile` | Does the finalizer cover every operand, is only what is owned deleted, in order, and does the CR converge or go away? | 129,046 |

Runs that show the code doing otherwise than its comments or documents say; the quotes
are under `findings` in `PROJECT.json`:

| Run | What happens |
|---|---|
| `FileVolumeUnformatted` | a retry after a failed mkfs finds a file of the right size and answers OK |
| `SnapshotCancel` | a call cancelled while its fsfreeze runs leaves the filesystem frozen |
| `OperatorAdopts` | an object that replaced an operand while `upgradeManagedFields` retried its patch is adopted |

The passing runs name the conditions they need, and these variants of their
configurations show that the conditions are necessary:

- `BackingMountRefs` with `ShareMayVanish = TRUE` violates `HeldMountStays`, which
  `ImplementsSharedMount` contains: acquire succeeds without a mount when the share
  answers 404.
- One create and one nested-NFS create (`Nesteds = {n1}`), no inherited mount, nothing
  vanishing or timing out: `HeldMountStays` is violated. The nested create checks the
  count without the mount lock (`utils.go:661`) and unmounts after the create took its
  reference.
- One delete and one publish of a node pod on the same host: `WorkOnShare` is violated.
  The node process does not see the controller's count, unmounts under the delete, and
  the delete reports success.
- `FileVolumeRetry` with `"command"` violates `CapacityDelivered`: the retry after a
  failed growth of the file system answers OK. With `"crash"` it violates
  `PrivateMountAlone` too: the private mount outlives the controller. With `"probe"` it
  violates `PrivateMountAlone`: a mount check that fails counts as not mounted, and
  CreateVolume answers OK. With `SnapSize = 3`, the size of the volume, it violates
  `CapacityDelivered`: nothing grows the short file system of such a snapshot before the
  volume is published. With `"lower"` it
  violates `CapacityDelivered`: a request at or below the size of a file whose file
  system has not grown yet is answered without an expansion on the node.
- `FileVolumeDelete` with `"api"` violates `SnapshotsKeepFile`: a failed listing counts
  as no snapshots. With `PollsVisibility = FALSE` it violates `DeletedIsGone`: a delete
  before the Anvil knows the file leaves the file.
- `FileVolumeDelete` with `SnapSize = 1` and `"abandon"` violates `CreateSucceeds`: an
  abandoned restore leaves a file of the snapshot's size, and every retry answers
  AlreadyExists.

Bounds. Three calls let one hold the mount, one acquire and one release, and the proofs
are for any number; two or three creates let one be abandoned, one run and one be
answered. Sizes up to 4 leave room for a snapshot below the requested size and an
expansion above it, and those of a share for a request that is lowered and still above
the promise. Four queued tasks hold a create or a delete and several resizes. Two
snapshot calls over two names and two volumes meet on a name, on a volume, or on
neither; instances with three volumes and with two nodes were checked by hand. Two
handlers on a node let a call that kubelet gave up on meet the one that replaced it, one
slot makes them compete, and a second volume is one that an older driver staged. One
account and one workload are enough for the order of cleanup, three attempts of
`upgradeManagedFields` come from the code. Two to four faults let a failure meet an
abandoned call and a restart. None of the safety results rests on these bounds: the
proofs below are for any values.

Deadlock is not checked where the system really may stop: a deleted volume, and calls
that nobody has to make.

Fairness. A handler that has started goes on: its waits for locks, slots, tasks, probes
and NFS mounts have a timeout or end with the call's context. Not every wait has one:
`os.Lstat`, umount and bind of a mount whose server is gone never return. `NodeStaging`
models this (`Hang`), and a stuck handler is not fair there, so that `CallsReturn` says
that the others are not held up by it. The unmounts of `BackingMount` and `FileVolume` are
assumed to return. In `BackingMount` a waiter for the mount lock gets it,
because Go's mutex hands it to a starving waiter (hence strong fairness). In
`FileVolume` and `ShareVolume` the CO repeats a call until it is answered, the Anvil
learns of every file, works off its tasks and drops removed shares. In `NodeStaging` and
`Snapshot` only the handlers are fair: mounts may hang for ever, and nobody has to call.
A stage that waits for a mount slot waits until kubelet's deadline at most. In
`OperatorReconcile` the 15 second loop goes on and the API server finishes deletions.
Faults are never fair.

## Proofs

Every type invariant, safety invariant and action property that a passing run checks,
and the three refinements, are theorems, under the assumptions that the modules state about
their constants. The inductive invariants were checked with TLC before they were proved.
The type invariant of `ShareVolume` is only proved. The proof modules leave first-order
steps to Zenon (`USE Zenon`) and name SMT where a step needs arithmetic or sequences.

`BackingMountProofs` (any `Ops`, `Procs`, `Inherited`):

- `TypeCorrect`, and `Invariance` of `IInv`: types; the mount lock is held exactly by
  the call at a locked step (`LockExact`); `refs` counts the holders (`RefsCounted`); a
  holder that checks, makes or removes the mount has no other holder beside it
  (`HoldersAlone`); `ReplaceExclusive`. `RefsCounted` alone is not inductive: that the
  first holder is alone needs the lock, and the lock is given back on exactly the paths
  `LockExact` names.
- `RefsCountedHolds` and `ReplaceExclusiveHolds` follow, with uncounted callers, several
  processes and vanishing shares included.
- `HeldMountStaysHolds`, `WorkOnShareHolds` and `Refinement` assume `RefCallersOnly`:
  every caller is counted, there is one process, and the share is not removed. The first
  three variants above show that each part of the assumption is needed. Their invariant
  adds to `IInv` that the mount is there while it is held and that no work went to the
  local disk.

`FileVolumeProofs` (any `Creates`, `Nodes`, sizes and number of faults):

- `TypeCorrect`, `CreatesExclude` and `NoDataLossHolds`, whatever fails. `IInv` says that
  a create works on the file exactly while it has the volume lock (`LockHeld`), that no
  create has it or can still get it once one was answered (`CreatesOver`), that deletes
  come after creates, and that the file system fits its file. From it, only nodes touch
  a volume in use, and they only grow it.
- `RawCapacityDeliveredHolds`, whatever fails. `RawInv` adds that a create past the
  growth of the raw file has a large enough file, which the others, waiting for the
  lock, cannot undo, and that a node grows its file system for no more than the file has.
- `CapacityDeliveredHolds` assumes `CommandsWork` (no failed command, no restart),
  `ExpansionsRise` (no lowered request) and `SourceFull` (the snapshot is smaller than the
  volume, or its file system fills it but for the slack). `FullInv` follows the file
  system, within the slack, in step with the file through creation, growth and expansion.
- `PrivateMountAloneHolds` assumes `CommandsWork` and `ProbesAnswer` (no failed mount
  check): `PrivateInv` says that the private
  mount belongs to a create that is about to remove it.
- `DeletedIsGoneHolds` assumes `FilesAnswer` (the files API does not fail) and
  `FilesAppear` (a create polls for its file, or the Anvil knows files at once), and
  `SnapshotsKeepFileHolds` assumes `FilesAnswer`. `VisibleInv` says that the Anvil knows
  the file of every created volume, so that a delete told of no file is right;
  `SnapshotInv` that a delete about to remove the file has no snapshots to fear.
- `VolumeRefinement`, under the same two assumptions: every step is a step of `Volume`
  or leaves what the CO sees alone (`LifeStep`), by `IInv`, `RawInv`, `VisibleInv` and
  `SnapshotInv` together.

The variants above show that each of these assumptions is needed.

`ShareVolumeProofs` (any sizes, faults and queue): `TypeCorrect`,
`CapacityDeliveredHolds`, `DeletedIsGoneHolds`, `SnapshotsKeepShareHolds`,
`VolumeRefinement`. The invariant ties the handlers to the CO's phases (`PhaseInv`), the
queue to the share (`QueueInv`), what is left on the Anvil to the call that left it
(`LeftInv`), the task a handler waits for to its effect (`WaitInv`), and says that,
unless the last expansion met a smaller one, the limit and every queued resize are at
least what was promised (`SizeInv`), so that the order in which they run does not
matter. For the refinement, `LifeInv` says that a share with snapshots stays.
`StepKinds` sorts the steps by what they do to the volume, and `LifeStep` finds the step
of `Volume` for each.

`SnapshotProofs` (any calls, names, volumes, nodes, faults): `TypeCorrect`,
`SameNameSameSnapshotHolds`, `AnswerIsRightHolds`, `QuiescedWhileHeldHolds`,
`NoneLeftFrozenHolds`. Past the lock a call holds it (`LockInv`), so between its look at
the map and its answer nobody else answers for the name (`AnswerInv`); what is known
under a name was taken for it (`IdInv`) and is still there unless the CO deleted it or
another one of the same file and second (`AliveInv`); what is frozen belongs to one
handler (`FrozenInv`).

`NodeStagingProofs`, with `NodeStagingCalls` and `NodeStagingMounts` for the lemmas on
calls and on mounts (any handlers, volumes, pods, slots, portals, faults):
`TypeCorrect`, `SlotsAccountedHolds`, `PublishedIsBackedHolds`,
`ReleasedIsUnmountedHolds`, `RootWhileMarkedHolds`. The invariant says where a call may
be by its kind (`CallInv`, `TriesInv`), that publish and unpublish past the lock hold it
(`LockInv`), that kubelet's view agrees with the calls it waits for and that these do
not overlap (`KubeletInv`), that a handler with the lock, waited for or not, keeps its
pod's use open (`WorkInv`), that what is about to be bound is mounted (`BindInv`), and
what that leaves at the targets and the staging path (`TargetInv`, `DoneInv`).

`OperatorReconcileProofs` (any operands, edits, errors): `TypeCorrect`,
`OwnedUnderFinalizerHolds`, `NoOrphansHolds`, `DeletesOwnedHolds`,
`WorkloadsStopFirstHolds`, `AdoptsOnlyRereadHolds`. Where the reconciler is says what it
may rely on: the CR and its finalizer stay while operands are applied or removed
(`CRInv`), an operand that cleanup has passed is not the CR's and stays so (`PassInv`),
and the object apply has read is nobody else's unless it was read again (`ReadInv`).

Only model-checked: the liveness properties `EveryCallReturns`, `CreateSucceeds` (of
`FileVolume` and of `ShareVolume`), `DeleteSucceeds`, `ThawsEventually`, `CallsReturn`,
`DeletionFinishes` and `Converges`, since liveness under fairness is beyond the prover.

## Not modelled

- Restoring share-backed volumes: the driver refuses it
  (`shareBackedSnapshotRestoreSupported` is false).
- Deletion of nested-NFS volumes, which removes a directory.
- Metadata tags and objectives: their errors are logged, and no later step reads them.
- The capacity cache: it gates a create with a number that reserves nothing.
- Overlapping CreateVolume and DeleteVolume of one volume, which take different lock
  keys: the CO deletes only what it was told was created.
- Volume statistics, listing, validation, volume and snapshot IDs, the identity service,
  the CSI v0 adapter, the contents of rendered manifests, configuration, logging and
  metrics: no state shared between calls.

## Running

    tlc -config BackingMountRefs.cfg MCBackingMount
    tlc -config FileVolumeFaults.cfg FileVolume
    tlc -config ShareVolume.cfg ShareVolume
    tlapm FileVolumeProofs.tla

The other runs and proof modules work the same way. `NodeStagingCalls`,
`NodeStagingMounts` and `NodeStagingProofs` are proved one by one.
