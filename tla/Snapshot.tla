------------------------------ MODULE Snapshot ------------------------------
(***************************************************************************)
(* CreateSnapshot and DeleteSnapshot: the lock per snapshot name, the map  *)
(* of recently created snapshots, and the freezing of the filesystems of a *)
(* file-backed volume around the Anvil's snapshot of its file.             *)
(*                                                                         *)
(* Handlers run concurrently.  The context of a call can be cancelled at   *)
(* any time: requests to the Anvil and the cluster then fail, except that  *)
(* filesystems are unfrozen on a context of their own.  A restart forgets  *)
(* handlers, locks and the map; what is frozen stays frozen.               *)
(***************************************************************************)
EXTENDS Integers, FiniteSets, Sequences

CONSTANTS
    Calls,       \* concurrent handlers
    Names,       \* snapshot names
    Volumes,     \* source volumes
    FileBacked,  \* those that are files in a backing share
    ByPath,      \* those of them whose ID says so (isFileBackedVolumeID)
    Nodes,       \* nodes with pods that use a volume
    None,        \* no value
    MaxSnaps,    \* bound on the snapshots the Anvil takes
    FaultKinds,  \* what may go wrong
    MaxFaults    \* and how often

ASSUME VolumeAssumption ==
    ByPath \subseteq FileBacked /\ FileBacked \subseteq Volumes
ASSUME BoundAssumption == MaxSnaps \in Nat /\ MaxFaults \in Nat
ASSUME FaultAssumption == FaultKinds \subseteq {"cancel", "anvil", "lookup", "exec", "restart"}

VARIABLES
    pc, name, src,   \* of each call: where it is, and its arguments
    cancelled,       \* its context is cancelled
    todo, target,    \* filesystems it has still to freeze, and the one it is freezing
    frozenBy,        \* those it has frozen
    result,          \* the snapshot it will answer with, or None
    lock,            \* of each name: the call that holds it
    recent,          \* recentlyCreatedSnapshots
    frozen,          \* frozen filesystems
    alive, taken,    \* the Anvil's snapshots, and what every one it ever took was taken for
    answers,         \* of each name: the snapshots the CO was told of
    dropped,         \* names whose snapshot the CO has deleted
    stuck,           \* filesystems left frozen by a lost exec or a restart
    restarted,
    faults

callVars == <<pc, name, src, cancelled, todo, target, frozenBy, result>>
anvilVars == <<alive, taken>>
coVars == <<answers, dropped>>
vars == <<callVars, lock, recent, frozen, anvilVars, coVars, stuck, restarted, faults>>

Ids == 1 .. MaxSnaps
Mount(v, node) == [volume |-> v, node |-> node]
MountsOf(v) == {Mount(v, node) : node \in Nodes}
Mounts == UNION {MountsOf(v) : v \in FileBacked}

ASSUME NoneAssumption ==
    /\ None \notin Calls \cup Names \cup Volumes \cup Mounts \cup Nat
    /\ None \notin [id : Ids, source : Volumes]

Fault(kind) == kind \in FaultKinds /\ faults < MaxFaults /\ faults' = faults + 1
Goto(c, step) == pc' = [pc EXCEPT ![c] = step]

-----------------------------------------------------------------------------
(* The CO                                                                  *)

\* The snapshotter names snapshots by the UID of their object: it does not come back
\* to a name after it has deleted its snapshot.
CreateSnapshot(c, n, v) ==
    /\ pc[c] = "idle" /\ n \notin dropped
    /\ Goto(c, "lock")
    /\ name' = [name EXCEPT ![c] = n] /\ src' = [src EXCEPT ![c] = v]
    /\ UNCHANGED <<cancelled, todo, target, frozenBy, result, lock, recent, frozen, anvilVars,
                   coVars, stuck, restarted, faults>>

Cancel(c) ==
    /\ pc[c] # "idle" /\ ~cancelled[c] /\ Fault("cancel")
    /\ cancelled' = [cancelled EXCEPT ![c] = TRUE]
    /\ UNCHANGED <<pc, name, src, todo, target, frozenBy, result, lock, recent, frozen,
                   anvilVars, coVars, stuck, restarted>>

InUse(n) == \E c \in Calls : pc[c] # "idle" /\ name[c] = n /\ ~cancelled[c]

\* The ID of a file snapshot holds the time it was taken at; the expression it is deleted
\* by keeps of it only the second.
fileSnapshotTimestamp(id) == taken[id].second

\* What the Anvil deletes with snapshot id: a share snapshot goes by its name, a file
\* snapshot with every snapshot of that file that was taken in the same second.
DeletedWith(id, other) ==
    \/ other = id
    \/ /\ taken[id].source \in FileBacked /\ taken[other].source = taken[id].source
       /\ fileSnapshotTimestamp(other) = fileSnapshotTimestamp(id)

\* DeleteSnapshot takes no lock and leaves recentlyCreatedSnapshots alone; a snapshot
\* that is not found counts as deleted.
DeleteSnapshot(n, id) ==
    /\ id \in answers[n] /\ ~InUse(n)
    /\ dropped' = dropped \cup {n}
    /\ alive' = {other \in alive : ~DeletedWith(id, other)}
    /\ UNCHANGED <<callVars, lock, recent, frozen, taken, answers, stuck, restarted, faults>>

-----------------------------------------------------------------------------
(* CreateSnapshot's handler                                                *)

End(c) ==
    /\ Goto(c, "idle")
    /\ name' = [name EXCEPT ![c] = None] /\ src' = [src EXCEPT ![c] = None]
    /\ cancelled' = [cancelled EXCEPT ![c] = FALSE]

HandlerRest == UNCHANGED <<name, src, cancelled, anvilVars, coVars, stuck, restarted>>

\* Mutant: calls with one name are not serialized.
AcquireShared(c) ==
    /\ pc[c] = "lock"
    /\ lock' = [lock EXCEPT ![name[c]] = c]
    /\ Goto(c, "look")
    /\ UNCHANGED <<todo, target, frozenBy, result, recent, frozen, faults>> /\ HandlerRest

Acquire(c) ==
    /\ pc[c] = "lock" /\ lock[name[c]] = None /\ ~cancelled[c]
    /\ lock' = [lock EXCEPT ![name[c]] = c]
    /\ Goto(c, "look")
    /\ UNCHANGED <<todo, target, frozenBy, result, recent, frozen, faults>> /\ HandlerRest

\* The lock is not free in time: Aborted.
AcquireFails(c) ==
    /\ pc[c] = "lock" /\ (lock[name[c]] # None \/ cancelled[c])
    /\ End(c)
    /\ UNCHANGED <<todo, target, frozenBy, result, lock, recent, frozen, anvilVars, coVars,
                   stuck, restarted, faults>>

Source(c) == IF src[c] \in FileBacked THEN "find" ELSE "snap"

\* Mutant: the source of a remembered snapshot is not compared.
LookByName(c) ==
    /\ pc[c] = "look"
    /\ \/ /\ recent[name[c]] # None
          /\ result' = [result EXCEPT ![c] = recent[name[c]].id]
          /\ Goto(c, "thaw") /\ UNCHANGED faults
       \/ /\ recent[name[c]] = None /\ (src[c] \in ByPath \/ ~cancelled[c])
          /\ Goto(c, Source(c)) /\ UNCHANGED <<result, faults>>
       \/ /\ recent[name[c]] = None /\ src[c] \notin ByPath
          /\ IF cancelled[c] THEN UNCHANGED faults ELSE Fault("anvil")
          /\ Goto(c, "thaw") /\ UNCHANGED result
    /\ UNCHANGED <<todo, target, frozenBy, lock, recent, frozen>> /\ HandlerRest

\* A recent snapshot of that name answers the call if it is of the same volume;
\* otherwise a new one is taken. GetShare tells the kind of a source whose ID does not.
Look(c) ==
    /\ pc[c] = "look"
    /\ \/ /\ recent[name[c]] # None
          /\ result' = [result EXCEPT ![c] =
                 IF recent[name[c]].source = src[c] THEN recent[name[c]].id ELSE None]
          /\ Goto(c, "thaw") /\ UNCHANGED faults
       \/ /\ recent[name[c]] = None /\ (src[c] \in ByPath \/ ~cancelled[c])
          /\ Goto(c, Source(c)) /\ UNCHANGED <<result, faults>>
       \/ /\ recent[name[c]] = None /\ src[c] \notin ByPath
          /\ IF cancelled[c] THEN UNCHANGED faults ELSE Fault("anvil")
          /\ Goto(c, "thaw") /\ UNCHANGED result
    /\ UNCHANGED <<todo, target, frozenBy, lock, recent, frozen>> /\ HandlerRest

\* findMountsForVolumeHandle: a failed lookup misses filesystems, or finds none.
Find(c) ==
    /\ pc[c] = "find"
    /\ \E found \in SUBSET MountsOf(src[c]) :
           /\ todo' = [todo EXCEPT ![c] = found]
           /\ IF cancelled[c] THEN found = {} /\ UNCHANGED faults
              ELSE IF found = MountsOf(src[c]) THEN UNCHANGED faults
              ELSE Fault("lookup")
    /\ Goto(c, "freeze")
    /\ UNCHANGED <<target, frozenBy, result, lock, recent, frozen>> /\ HandlerRest

\* FreezeForVolumeHandle starts fsfreeze for one filesystem. On a cancelled context,
\* or when the exec cannot be started, the filesystem is skipped.
FreezeStart(c, m) ==
    /\ pc[c] = "freeze" /\ m \in todo[c]
    /\ todo' = [todo EXCEPT ![c] = @ \ {m}]
    /\ \/ /\ ~cancelled[c]
          /\ target' = [target EXCEPT ![c] = m]
          /\ Goto(c, "freezing") /\ UNCHANGED faults
       \/ /\ IF cancelled[c] THEN UNCHANGED faults ELSE Fault("exec")
          /\ UNCHANGED <<target, pc>>
    /\ UNCHANGED <<frozenBy, result, lock, recent, frozen>> /\ HandlerRest

FreezeRest == UNCHANGED <<name, src, cancelled, todo, result, lock, recent, anvilVars, coVars,
                          restarted>>

\* Mutant: a filesystem that is frozen already counts as frozen by this handler.
FreezeDoneShared(c) ==
    /\ pc[c] = "freezing"
    /\ frozen' = frozen \cup {target[c]}
    /\ \/ /\ ~cancelled[c]
          /\ frozenBy' = [frozenBy EXCEPT ![c] = @ \cup {target[c]}]
          /\ UNCHANGED <<stuck, faults>>
       \/ /\ IF cancelled[c] THEN UNCHANGED faults ELSE Fault("exec")
          /\ stuck' = stuck \cup {target[c]}
          /\ UNCHANGED frozenBy
    /\ target' = [target EXCEPT ![c] = None]
    /\ Goto(c, "freeze")
    /\ FreezeRest

\* fsfreeze has run: it fails if the filesystem is frozen already. The handler learns
\* of a success, and records it, unless its context was cancelled or the stream broke.
FreezeDone(c) ==
    /\ pc[c] = "freezing"
    /\ frozen' = frozen \cup {target[c]}
    /\ \/ /\ target[c] \in frozen
          /\ UNCHANGED <<frozenBy, stuck, faults>>
       \/ /\ target[c] \notin frozen /\ ~cancelled[c]
          /\ frozenBy' = [frozenBy EXCEPT ![c] = @ \cup {target[c]}]
          /\ UNCHANGED <<stuck, faults>>
       \/ /\ target[c] \notin frozen
          /\ IF cancelled[c] THEN UNCHANGED faults ELSE Fault("exec")
          /\ stuck' = stuck \cup {target[c]}
          /\ UNCHANGED frozenBy
    /\ target' = [target EXCEPT ![c] = None]
    /\ Goto(c, "freeze")
    /\ FreezeRest

FreezeEnd(c) ==
    /\ pc[c] = "freeze" /\ todo[c] = {}
    /\ Goto(c, "snap")
    /\ UNCHANGED <<target, frozenBy, frozen, stuck, faults>> /\ FreezeRest

AnvilRest == UNCHANGED <<name, src, cancelled, todo, target, frozenBy, lock, frozen,
                         coVars, stuck, restarted>>

\* The second a snapshot is taken in: that of the latest one, or a later one.
Seconds == IF taken = <<>> THEN {0}
           ELSE {fileSnapshotTimestamp(Len(taken)), fileSnapshotTimestamp(Len(taken)) + 1}

Take(c) ==
    /\ Len(taken) < MaxSnaps
    /\ \E second \in Seconds :
           taken' = Append(taken, [name |-> name[c], source |-> src[c], second |-> second])
    /\ alive' = alive \cup {Len(taken) + 1}

\* SnapshotShare or SnapshotFile.
SnapTaken(c) ==
    /\ pc[c] = "snap" /\ ~cancelled[c] /\ Take(c)
    /\ result' = [result EXCEPT ![c] = Len(taken) + 1]
    /\ Goto(c, "store")
    /\ UNCHANGED <<recent, faults>> /\ AnvilRest

\* Mutant: a failed snapshot is remembered as well.
SnapFailsStored(c) ==
    /\ pc[c] = "snap"
    /\ IF cancelled[c] \/ Len(taken) = MaxSnaps THEN UNCHANGED faults ELSE Fault("anvil")
    /\ Take(c) \/ UNCHANGED anvilVars
    /\ Goto(c, "store")
    /\ UNCHANGED <<result, recent>> /\ AnvilRest

\* The request fails, or is cut off, before or after the Anvil has acted on it.
SnapFails(c) ==
    /\ pc[c] = "snap"
    /\ IF cancelled[c] \/ Len(taken) = MaxSnaps THEN UNCHANGED faults ELSE Fault("anvil")
    /\ Take(c) \/ UNCHANGED anvilVars
    /\ Goto(c, "thaw")
    /\ UNCHANGED <<result, recent>> /\ AnvilRest

\* recentlyCreatedSnapshots remembers the snapshot under its name, for good.
Store(c) ==
    /\ pc[c] = "store"
    /\ recent' = [recent EXCEPT ![name[c]] = [id |-> result[c], source |-> src[c]]]
    /\ Goto(c, "thaw")
    /\ UNCHANGED <<result, anvilVars, faults>> /\ AnvilRest

ThawRest == UNCHANGED <<todo, target, recent, anvilVars, dropped, restarted>>

\* Mutant: filesystems are unfrozen on the context of the call.
UnfreezeInCall(c, m) ==
    /\ pc[c] = "thaw" /\ m \in frozenBy[c] /\ ~cancelled[c]
    /\ frozenBy' = [frozenBy EXCEPT ![c] = @ \ {m}]
    /\ \/ frozen' = frozen \ {m} /\ UNCHANGED <<stuck, faults>>
       \/ Fault("exec") /\ stuck' = stuck \cup {m} /\ UNCHANGED frozen
    /\ UNCHANGED <<pc, name, src, cancelled, result, lock, answers>> /\ ThawRest

\* Unfreeze, deferred and on a context that outlives the call: one filesystem this
\* handler froze. A failed exec leaves it frozen and goes on to the next.
Unfreeze(c, m) ==
    /\ pc[c] = "thaw" /\ m \in frozenBy[c]
    /\ frozenBy' = [frozenBy EXCEPT ![c] = @ \ {m}]
    /\ \/ frozen' = frozen \ {m} /\ UNCHANGED <<stuck, faults>>
       \/ Fault("exec") /\ stuck' = stuck \cup {m} /\ UNCHANGED frozen
    /\ UNCHANGED <<pc, name, src, cancelled, result, lock, answers>> /\ ThawRest

\* Mutant: a call that failed returns without unfreezing.
ReturnOnError(c) ==
    /\ pc[c] = "thaw" /\ (frozenBy[c] = {} \/ result[c] = None)
    /\ frozenBy' = [frozenBy EXCEPT ![c] = {}]
    /\ lock' = [lock EXCEPT ![name[c]] = None]
    /\ result' = [result EXCEPT ![c] = None]
    /\ IF result[c] # None /\ ~cancelled[c]
       THEN answers' = [answers EXCEPT ![name[c]] = @ \cup {result[c]}]
       ELSE UNCHANGED answers
    /\ End(c)
    /\ UNCHANGED <<frozen, stuck, faults>> /\ ThawRest

\* The lock is released and the call answered; nobody hears the answer to a call
\* that was cancelled.
Return(c) ==
    /\ pc[c] = "thaw" /\ frozenBy[c] = {}
    /\ lock' = [lock EXCEPT ![name[c]] = None]
    /\ result' = [result EXCEPT ![c] = None]
    /\ IF result[c] # None /\ ~cancelled[c]
       THEN answers' = [answers EXCEPT ![name[c]] = @ \cup {result[c]}]
       ELSE UNCHANGED answers
    /\ End(c)
    /\ UNCHANGED <<frozenBy, frozen, stuck, faults>> /\ ThawRest

\* The process restarts. An fsfreeze that was started may still run.
Restart ==
    /\ Fault("restart")
    /\ \E late \in SUBSET {target[c] : c \in {d \in Calls : pc[d] = "freezing"}} :
           frozen' = frozen \cup late
    /\ pc' = [c \in Calls |-> "idle"] /\ cancelled' = [c \in Calls |-> FALSE]
    /\ name' = [c \in Calls |-> None] /\ src' = [c \in Calls |-> None]
    /\ todo' = [c \in Calls |-> {}] /\ frozenBy' = [c \in Calls |-> {}]
    /\ target' = [c \in Calls |-> None] /\ result' = [c \in Calls |-> None]
    /\ lock' = [n \in Names |-> None] /\ recent' = [n \in Names |-> None]
    /\ stuck' = frozen' /\ restarted' = TRUE
    /\ UNCHANGED <<anvilVars, coVars>>

-----------------------------------------------------------------------------

Init ==
    /\ pc = [c \in Calls |-> "idle"]
    /\ name = [c \in Calls |-> None] /\ src = [c \in Calls |-> None]
    /\ cancelled = [c \in Calls |-> FALSE]
    /\ todo = [c \in Calls |-> {}] /\ frozenBy = [c \in Calls |-> {}]
    /\ target = [c \in Calls |-> None] /\ result = [c \in Calls |-> None]
    /\ lock = [n \in Names |-> None] /\ recent = [n \in Names |-> None]
    /\ frozen = {} /\ stuck = {}
    /\ alive = {} /\ taken = <<>>
    /\ answers = [n \in Names |-> {}] /\ dropped = {}
    /\ restarted = FALSE /\ faults = 0

Handler(c) ==
    \/ Acquire(c) \/ AcquireFails(c) \/ Look(c) \/ Find(c)
    \/ \E m \in Mounts : FreezeStart(c, m)
    \/ FreezeDone(c) \/ FreezeEnd(c)
    \/ SnapTaken(c) \/ SnapFails(c) \/ Store(c)
    \/ \E m \in Mounts : Unfreeze(c, m)
    \/ Return(c)

Next ==
    \/ \E c \in Calls : Handler(c) \/ Cancel(c)
    \/ \E c \in Calls, n \in Names, v \in Volumes : CreateSnapshot(c, n, v)
    \/ \E n \in Names, id \in Ids : DeleteSnapshot(n, id)
    \/ Restart

Spec == Init /\ [][Next]_vars

\* Handlers keep running: requests and execs end, with an answer or an error.
FairSpec == Spec /\ \A c \in Calls : WF_vars(Handler(c))

-----------------------------------------------------------------------------

Steps == {"idle", "lock", "look", "find", "freeze", "freezing", "snap", "store", "thaw"}

\* Every variable has its type: a snapshot is remembered only with its ID (Store).
TypeOK ==
    /\ pc \in [Calls -> Steps]
    /\ name \in [Calls -> {None} \cup Names] /\ src \in [Calls -> {None} \cup Volumes]
    /\ cancelled \in [Calls -> BOOLEAN]
    /\ todo \in [Calls -> SUBSET Mounts] /\ frozenBy \in [Calls -> SUBSET Mounts]
    /\ target \in [Calls -> {None} \cup Mounts]
    /\ result \in [Calls -> {None} \cup Ids]
    /\ lock \in [Names -> {None} \cup Calls]
    /\ recent \in [Names -> {None} \cup [id : Ids, source : Volumes]]
    /\ frozen \subseteq Mounts /\ stuck \subseteq Mounts
    /\ alive \subseteq Ids /\ taken \in Seq([name : Names, source : Volumes, second : Nat])
    /\ Len(taken) <= MaxSnaps
    /\ answers \in [Names -> SUBSET Ids] /\ dropped \subseteq Names
    /\ restarted \in BOOLEAN /\ faults \in 0 .. MaxFaults

\* Calls with one name that overlap, are retried or come with another source volume are
\* all answered with one snapshot, as long as the process has not restarted
\* (acquireSnapshotLock and recentlyCreatedSnapshots in CreateSnapshot).
SameNameSameSnapshot ==
    ~restarted => \A n \in Names : \A i, j \in answers[n] : i = j

\* Snapshot id may have gone with another one that the CO has deleted.
LostWithAnother(id) ==
    \E other \in 1 .. Len(taken) :
        other # id /\ taken[other].name \in dropped /\ DeletedWith(other, id)

\* The snapshot a live call is about to be answered with is one of the volume the call
\* names, also when it comes from recentlyCreatedSnapshots, and it exists on the Anvil
\* unless the CO deleted another snapshot that was taken of the same file in the same
\* second (DeleteFileSnapshot): recentlyCreatedSnapshots does not notice that.
AnswerIsRight ==
    \A c \in Calls :
        pc[c] = "thaw" /\ result[c] # None /\ ~cancelled[c] =>
            /\ taken[result[c]].source = src[c]
            /\ result[c] \in alive \/ LostWithAnother(result[c])

\* What a handler froze stays frozen until it unfreezes it, so that the snapshot of a
\* volume whose filesystems it froze is taken while they are quiesced, whatever the
\* handlers of other snapshots of the same volume do (FreezeForVolumeHandle, Unfreeze).
QuiescedWhileHeld ==
    \A c \in Calls : frozenBy[c] \subseteq frozen

\* Every frozen filesystem is one a handler will unfreeze, except those whose fsfreeze
\* answered with an error after it had run and those a restart abandoned.
NoneLeftFrozen ==
    \A m \in frozen : m \in stuck \/ \E c \in Calls : m \in frozenBy[c]

\* A frozen filesystem is unfrozen in the end, with the same exceptions, also when the
\* call is cancelled or its snapshot fails (the deferred Unfreeze).
ThawsEventually ==
    \A m \in Mounts : m \in frozen ~> (m \notin frozen \/ m \in stuck)

\* "Detach from the gRPC request so cancellation cannot leave the workload frozen": once
\* no call is in progress nothing is frozen, in runs where nothing fails and the only
\* thing that happens to calls is that they are cancelled.
CancelThaws ==
    (\A c \in Calls : pc[c] = "idle") => frozen = {}
=============================================================================
