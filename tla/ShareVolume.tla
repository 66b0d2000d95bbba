---------------------------- MODULE ShareVolume ----------------------------
(***************************************************************************)
(* A share-backed (NFS) volume from CreateVolume to DeleteVolume.  The     *)
(* controller's handlers drive one share of the Anvil, whose work is done  *)
(* by tasks: a request is accepted, its task runs later, and the handler   *)
(* polls until it can see the task finish.                                 *)
(*                                                                         *)
(* A handler can be cut off at any point (its context expires, a request   *)
(* or the answer is lost, the controller restarts); the container          *)
(* orchestrator (CO) then calls again, and what the earlier call left      *)
(* queued on the Anvil is still there.  Calls for one volume do not        *)
(* overlap: a cut-off handler's next request fails on its context.         *)
(***************************************************************************)
EXTENDS Integers, Sequences

CONSTANTS
    Size,        \* capacity CreateVolume asks for
    MaxSize,     \* bound on the capacity the CO expands the volume to
    MaxFaults,   \* bound on lost calls, failed tasks and bad answers
    MaxQueue     \* bound on the Anvil's queued tasks

ASSUME SizeAssumption == Size \in Nat \ {0} /\ MaxSize \in Nat /\ Size <= MaxSize
ASSUME BoundAssumption == MaxFaults \in Nat /\ MaxQueue \in Nat \ {0}

VARIABLES
    lists,     \* whether the Anvil lists a share whose creation has not succeeded
    phase,     \* what the CO wants: the volume is "creating", "created", ...
    want,      \* capacity it asks for
    acked,     \* capacity it was promised
    snaps,     \* whether the share has snapshots
    pc,        \* where the handler is
    share,     \* "none", "unfinished", "live", or "removed"
    limit,     \* the share's size limit
    queue,     \* the Anvil's tasks, as they were accepted
    outcome,   \* how the last task of each kind ended; for a resize, the last one named
    lostTask,  \* a create call ended without seeing its create task succeed or fail
    lostClean, \* a create call ended before the deletion it had asked for
    blind,     \* the Anvil accepted a request without naming its task
    crossed,   \* the last expansion met a smaller resize that an earlier call had left queued
    faults

coVars == <<phase, want, acked, snaps>>
anvilVars == <<lists, share, limit, queue, outcome>>
lostVars == <<lostTask, lostClean, blind, crossed>>
vars == <<coVars, pc, anvilVars, lostVars, faults>>

Kinds == {"create", "delete", "resize"}
Task(kind, size) == [kind |-> kind, size |-> size]
CreateSteps == {"createGet", "post", "waitCreate", "joinCreate", "cleanup", "waitCleanup"}
ExpandSteps == {"expandGet", "put", "waitResize"}
DeleteSteps == {"deleteGet", "snapshots", "delete", "waitDelete"}

Without(q, i) == SubSeq(q, 1, i - 1) \o SubSeq(q, i + 1, Len(q))
In(q, kind) == \E i \in 1 .. Len(q) : q[i].kind = kind
Queued(kind) == In(queue, kind)
Fault == faults < MaxFaults /\ faults' = faults + 1

-----------------------------------------------------------------------------
(* The Anvil (external)                                                    *)

Accept(task) == Len(queue) < MaxQueue /\ queue' = Append(queue, task)

AnvilOnly == UNCHANGED <<lists, coVars, pc, lostVars>>

Succeeded(task) ==
    \/ /\ task.kind = "create"
       /\ share' = "live" /\ limit' = task.size
    \/ /\ task.kind = "delete"
       /\ share' \in {"removed", "none"} /\ limit' = limit
    \/ /\ task.kind = "resize"
       /\ limit' = IF share = "live" THEN task.size ELSE limit
       /\ UNCHANGED share

\* A task ends, not always in the order of acceptance. There is one create and one delete
\* at a time; of the resizes, the one a handler waits for is the last that was accepted.
Ends(i, result) ==
    /\ queue' = Without(queue, i)
    /\ outcome' = IF queue[i].kind = "resize" /\ (i < Len(queue) \/ outcome["resize"] # "RUNNING")
                  THEN outcome ELSE [outcome EXCEPT ![queue[i].kind] = result]

TaskDone ==
    /\ \E i \in 1 .. Len(queue) : Succeeded(queue[i]) /\ Ends(i, "COMPLETED")
    /\ UNCHANGED faults /\ AnvilOnly

TaskFails ==
    /\ Fault
    /\ \E i \in 1 .. Len(queue) : Ends(i, "FAILED")
    /\ UNCHANGED <<share, limit>> /\ AnvilOnly

\* A removed share is dropped when its delete delay is over.
Purge ==
    /\ share = "removed"
    /\ share' = "none"
    /\ UNCHANGED <<limit, queue, outcome, faults>> /\ AnvilOnly

-----------------------------------------------------------------------------
(* The CO                                                                  *)

CallsOnly == UNCHANGED <<anvilVars, lostVars, faults>>

CreateVolume ==
    /\ pc = "idle" /\ phase = "creating"
    /\ pc' = "createGet"
    /\ UNCHANGED coVars /\ CallsOnly

\* After a failed expansion the CO may ask for the same, for more or for less, but for
\* more than it was promised.
ControllerExpandVolume ==
    /\ pc = "idle" /\ phase = "created"
    /\ want' \in acked + 1 .. MaxSize
    /\ pc' = "expandGet"
    /\ UNCHANGED <<phase, acked, snaps>> /\ CallsOnly

\* The PV is deleted: from now on the CO calls DeleteVolume.
DeleteWanted ==
    /\ pc = "idle" /\ phase = "created"
    /\ phase' = "deleting"
    /\ UNCHANGED <<want, acked, snaps, pc>> /\ CallsOnly

DeleteVolume ==
    /\ pc = "idle" /\ phase = "deleting"
    /\ pc' = "deleteGet"
    /\ UNCHANGED coVars /\ CallsOnly

\* Snapshots of the share are taken while the volume is in use, and dropped.
TakeSnapshot ==
    /\ phase = "created" /\ share = "live" /\ ~snaps
    /\ snaps' = TRUE
    /\ UNCHANGED <<phase, want, acked, pc>> /\ CallsOnly

DropSnapshot ==
    /\ snaps
    /\ snaps' = FALSE
    /\ UNCHANGED <<phase, want, acked, pc>> /\ CallsOnly

-----------------------------------------------------------------------------
(* The handlers                                                            *)

Go(step) == pc' = step /\ UNCHANGED coVars

\* What a create call that fails leaves to the next one.
Forget ==
    /\ lostTask' = (lostTask \/ Queued("create") \/ share = "unfinished")
    /\ lostClean' = (lostClean \/ Queued("delete"))
    /\ UNCHANGED <<blind, crossed>>

\* The handler answers with an error.
Fail ==
    /\ pc' = "idle" /\ UNCHANGED coVars
    /\ IF pc \in CreateSteps THEN Forget ELSE UNCHANGED lostVars

\* The handler is cut off, or a request fails.
CutOff ==
    /\ pc # "idle" /\ Fault /\ Fail
    /\ UNCHANGED anvilVars

Created ==
    /\ pc' = "idle" /\ phase' = "created" /\ acked' = want
    /\ UNCHANGED <<want, snaps, lostVars>>

Deleted ==
    /\ pc' = "idle" /\ phase' = "deleted"
    /\ UNCHANGED <<want, acked, snaps, lostVars>>

\* ensureShareBackedVolumeExists: a share of the right size that is not REMOVED is
\* taken for the volume.
CreateGetShare ==
    /\ pc = "createGet"
    /\ IF share = "none" THEN Go("post") /\ UNCHANGED lostVars
       ELSE IF limit # want \/ share = "removed" THEN Fail
       ELSE Created
    /\ UNCHANGED <<anvilVars, faults>>

\* Mutant: the size is left out of the request.
CreateShareUnsized ==
    /\ pc = "post"
    /\ UNCHANGED <<lists, outcome>>
    /\ \/ /\ ~Queued("create") /\ share = "none"
          /\ Accept(Task("create", 0))
          /\ share' = IF lists THEN "unfinished" ELSE "none"
          /\ limit' = 0
          /\ Go("waitCreate") /\ UNCHANGED <<lostVars, faults>>
       \/ /\ Queued("create")
          /\ Go("joinCreate")
          /\ UNCHANGED <<share, limit, queue, lostVars, faults>>

\* CreateShare's POST: accepted; refused because the create is already queued, and
\* that task is waited for; or refused because there is a share of that name.
CreateShare ==
    /\ pc = "post"
    /\ UNCHANGED <<lists, outcome>>
    /\ \/ /\ ~Queued("create") /\ share = "none"
          /\ Accept(Task("create", want))
          /\ share' = IF lists THEN "unfinished" ELSE "none"
          /\ limit' = IF lists THEN want ELSE limit
          /\ \/ Go("waitCreate") /\ UNCHANGED faults
             \/ Go("cleanup") /\ Fault
          /\ UNCHANGED lostVars
       \/ /\ Queued("create")
          /\ Go("joinCreate")
          /\ UNCHANGED <<share, limit, queue, lostVars, faults>>
       \/ /\ ~Queued("create") /\ share # "none"
          /\ Fail
          /\ UNCHANGED <<share, limit, queue, faults>>

Completed(kind) == ~Queued(kind) /\ outcome[kind] = "COMPLETED"
Failed(kind) == ~Queued(kind) /\ outcome[kind] = "FAILED"

\* WaitForTaskCompletion of the task CreateShare started. An unreadable answer
\* counts as a failed task. After a failure the share is deleted.
WaitCreate ==
    /\ pc = "waitCreate"
    /\ \/ Completed("create") /\ Created /\ UNCHANGED faults
       \/ Failed("create") /\ Go("cleanup") /\ UNCHANGED <<lostVars, faults>>
       \/ Fault /\ Go("cleanup") /\ UNCHANGED lostVars
    /\ UNCHANGED anvilVars

\* The wait for a task an earlier call started: its failure is left to the next call.
JoinCreate ==
    /\ pc = "joinCreate"
    /\ \/ Completed("create") /\ Created
       \/ Failed("create") /\ Fail
    /\ UNCHANGED <<anvilVars, faults>>

\* DeleteShare: what the Anvil answers, and how the handler goes on when the share is
\* being deleted, gone, or held by another task.
DeleteShare(waitStep, Gone, Refused) ==
    /\ UNCHANGED <<lists, share, limit, outcome>>
    /\ \/ /\ Queued("delete")
          /\ Go(waitStep) /\ UNCHANGED <<queue, lostVars, faults>>
       \/ /\ ~Queued("delete") /\ share \in {"none", "removed"}
          /\ Gone /\ UNCHANGED <<queue, faults>>
       \/ /\ ~Queued("delete") /\ (Queued("create") \/ Queued("resize"))
          /\ Refused /\ UNCHANGED <<queue, faults>>
       \/ /\ queue = <<>> /\ share \in {"unfinished", "live"}
          /\ Accept(Task("delete", 0))
          /\ Go(waitStep) /\ UNCHANGED <<lostVars, faults>>

\* The deletion deferred by CreateShare; the call fails whatever comes of it.
Cleanup ==
    /\ pc = "cleanup"
    /\ DeleteShare("waitCleanup", Fail, Fail)

WaitCleanup ==
    /\ pc = "waitCleanup" /\ ~Queued("delete")
    /\ Fail
    /\ UNCHANGED <<anvilVars, faults>>

-----------------------------------------------------------------------------
(* ControllerExpandVolume                                                  *)

\* Mutant: the answer adds the requested to the promised capacity.
ExpandedBy ==
    /\ pc' = "idle" /\ acked' = acked + want
    /\ UNCHANGED <<phase, want, snaps>>

Expanded ==
    /\ pc' = "idle" /\ acked' = want
    /\ UNCHANGED <<phase, want, snaps>>

Smaller == \E i \in 1 .. Len(queue) : queue[i].kind = "resize" /\ queue[i].size < want

\* What is compared is the space the share reports as available, which is at most
\* its limit.
ExpandGetShare ==
    /\ pc = "expandGet"
    /\ \E available \in 0 .. limit :
          \/ share = "none" /\ Fail
          \/ share # "none" /\ available < want /\ Go("put") /\ UNCHANGED lostVars
          \/ /\ share # "none" /\ available >= want
             /\ Expanded /\ crossed' = Smaller /\ UNCHANGED <<lostTask, lostClean, blind>>
    /\ UNCHANGED <<anvilVars, faults>>

\* UpdateShareSize: the PUT is refused when the share is gone or being deleted.
\* Without a task to monitor the expansion is answered as done.
UpdateShareSize ==
    /\ pc = "put"
    /\ \/ /\ share \in {"none", "removed"} \/ Queued("delete")
          /\ Fail /\ UNCHANGED <<queue, outcome, faults>>
       \/ /\ share \notin {"none", "removed"} /\ ~Queued("delete")
          /\ Accept(Task("resize", want))
          /\ crossed' = (crossed \/ Smaller) /\ UNCHANGED <<lostTask, lostClean>>
          /\ \/ /\ outcome' = [outcome EXCEPT !["resize"] = "RUNNING"]
                /\ Go("waitResize") /\ UNCHANGED <<blind, faults>>
             \/ Expanded /\ Fault /\ blind' = TRUE /\ UNCHANGED outcome
    /\ UNCHANGED <<lists, share, limit>>

\* Mutant: the expansion is answered before its task has finished.
WaitResizeNot ==
    /\ pc = "waitResize"
    /\ Expanded /\ UNCHANGED lostVars
    /\ UNCHANGED <<anvilVars, faults>>

\* The handler waits for its own task, whatever else the Anvil has to do.
WaitResize ==
    /\ pc = "waitResize"
    /\ \/ /\ outcome["resize"] = "COMPLETED" /\ Expanded
          /\ crossed' = (crossed /\ (limit < want \/ Smaller))
          /\ UNCHANGED <<lostTask, lostClean, blind>>
       \/ outcome["resize"] = "FAILED" /\ Fail
    /\ UNCHANGED <<anvilVars, faults>>

-----------------------------------------------------------------------------
(* DeleteVolume                                                            *)

\* Mutant: a share that is gone is an error.
DeleteGetShareStrict ==
    /\ pc = "deleteGet"
    /\ IF share = "none" THEN Fail ELSE Go("snapshots") /\ UNCHANGED lostVars
    /\ UNCHANGED <<anvilVars, faults>>

DeleteGetShare ==
    /\ pc = "deleteGet"
    /\ IF share = "none" THEN Deleted ELSE Go("snapshots") /\ UNCHANGED lostVars
    /\ UNCHANGED <<anvilVars, faults>>

\* Mutant: snapshots do not keep a share from being deleted.
GetShareSnapshotsIgnored ==
    /\ pc = "snapshots"
    /\ Go("delete") /\ UNCHANGED <<lostVars, anvilVars, faults>>

GetShareSnapshots ==
    /\ pc = "snapshots"
    /\ IF snaps THEN Fail ELSE Go("delete") /\ UNCHANGED lostVars
    /\ UNCHANGED <<anvilVars, faults>>

\* A deletion the Anvil accepts without a task to monitor is answered as done.
DeleteBackingShare ==
    /\ pc = "delete"
    /\ \/ DeleteShare("waitDelete", Deleted, Fail)
       \/ /\ queue = <<>> /\ share \in {"unfinished", "live"}
          /\ Accept(Task("delete", 0)) /\ Fault
          /\ pc' = "idle" /\ phase' = "deleted" /\ blind' = TRUE
          /\ UNCHANGED <<want, acked, snaps, lostTask, lostClean, crossed>>
          /\ UNCHANGED <<lists, share, limit, outcome>>

\* Mutant: a failed delete task counts as a deleted share.
WaitForShareDeleteAny ==
    /\ pc = "waitDelete" /\ ~Queued("delete")
    /\ Deleted
    /\ UNCHANGED <<anvilVars, faults>>

WaitForShareDelete ==
    /\ pc = "waitDelete"
    /\ \/ Completed("delete") /\ Deleted
       \/ Failed("delete") /\ Fail
    /\ UNCHANGED <<anvilVars, faults>>

-----------------------------------------------------------------------------
Handler ==
    \/ CreateGetShare \/ CreateShare \/ WaitCreate \/ JoinCreate \/ Cleanup \/ WaitCleanup
    \/ ExpandGetShare \/ UpdateShareSize \/ WaitResize
    \/ DeleteGetShare \/ GetShareSnapshots \/ DeleteBackingShare \/ WaitForShareDelete

\* A share of that name may already be there, made by someone else.
Init ==
    /\ lists \in BOOLEAN
    /\ phase = "creating" /\ want = Size /\ acked = 0 /\ snaps = FALSE
    /\ pc = "idle"
    /\ share \in {"none", "live"} /\ limit \in 1 .. MaxSize
    /\ queue = <<>> /\ outcome = [k \in Kinds |-> "COMPLETED"]
    /\ lostTask = FALSE /\ lostClean = FALSE /\ blind = FALSE /\ crossed = FALSE
    /\ faults = 0

Next ==
    \/ CreateVolume \/ ControllerExpandVolume \/ DeleteWanted \/ DeleteVolume
    \/ TakeSnapshot \/ DropSnapshot
    \/ Handler \/ CutOff
    \/ TaskDone \/ TaskFails \/ Purge

Spec == Init /\ [][Next]_vars

\* The CO repeats a call until it is answered, handlers go on, the Anvil works off
\* its tasks and drops removed shares.
Fairness ==
    /\ WF_vars(CreateVolume) /\ WF_vars(DeleteVolume) /\ WF_vars(Handler)
    /\ WF_vars(TaskDone) /\ WF_vars(Purge)
FairSpec == Spec /\ Fairness

-----------------------------------------------------------------------------
(* Properties                                                              *)

\* Every variable has its type.
TypeOK ==
    /\ phase \in {"creating", "created", "deleting", "deleted"}
    /\ want \in 1 .. MaxSize /\ acked \in 0 .. MaxSize
    /\ pc \in {"idle"} \cup CreateSteps \cup ExpandSteps \cup DeleteSteps
    /\ share \in {"none", "unfinished", "live", "removed"} /\ limit \in 0 .. MaxSize
    /\ queue \in Seq([kind : Kinds, size : 0 .. MaxSize])
    /\ outcome \in [Kinds -> {"RUNNING", "COMPLETED", "FAILED"}]
    /\ lists \in BOOLEAN /\ snaps \in BOOLEAN
    /\ lostTask \in BOOLEAN /\ lostClean \in BOOLEAN /\ blind \in BOOLEAN /\ crossed \in BOOLEAN
    /\ faults \in 0 .. MaxFaults

\* Two things can take a created volume's share away: a create call that ended before the
\* deletion it had asked for, and, if the Anvil lists unfinished shares, one that ended
\* before its create task.
Undercut == lostClean \/ (lists /\ lostTask)

\* A volume the CO was told is there has its share, finished, across lost answers and
\* failed or repeated tasks, and the share's limit covers the capacity the CO was
\* promised, by CreateVolume or by an expansion, in whatever order the Anvil does the
\* resize tasks that earlier calls have left, as long as the last expansion met no smaller.
CapacityDelivered ==
    phase = "created" /\ ~Undercut => share = "live" /\ (~blind /\ ~crossed => acked <= limit)

\* When the CO was told that the volume is gone, its share is gone or marked removed,
\* and no task is left on the Anvil that could bring it back.
DeletedIsGone ==
    phase = "deleted" /\ ~blind => share \in {"none", "removed"} /\ ~Queued("create")

\* A share that has snapshots is not removed: DeleteVolume refuses, and the cleanup of
\* a failed create, which does not look for snapshots, meets none unless it was lost.
SnapshotsKeepShare ==
    [][share = "live" /\ share' # "live" /\ snaps => lostClean]_vars

\* What the CO has of the share, and what it was told of its capacity.
storage == IF share = "live" THEN limit ELSE 0
capacity == IF phase = "created" THEN acked ELSE 0
Life == INSTANCE Volume WITH kept <- snaps

\* As long as no call was lost that can take the share away, no task went unnamed and the
\* last expansion met no smaller resize, the share's life is that of a volume as Volume
\* promises it: a step of the handlers, the Anvil or the CO is one of its steps, or changes
\* nothing the CO sees.
ImplementsVolume ==
    /\ Life!Init
    /\ [][~Undercut' /\ ~blind' /\ ~crossed' => [Life!Next]_<<phase, storage, capacity, snaps>>]_vars

\* Unless a share of another size is in the way, a volume is created in the end: every
\* retry finds the share, waits on the task an earlier attempt left, or starts over.
CreateSucceeds ==
    share = "none" \/ limit = want => (phase = "creating" ~> phase = "created")

\* Once its snapshots are gone for good, the deletion of a volume ends.
DeleteSucceeds == <>[]~snaps => (phase = "deleting" ~> phase = "deleted")
=============================================================================
