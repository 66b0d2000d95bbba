------------------------- MODULE ShareVolumeProofs -------------------------
(***************************************************************************)
(* What the share-backed volume's handlers guarantee for any sizes, any    *)
(* number of faults and any length of the Anvil's queue.                   *)
(***************************************************************************)
EXTENDS ShareVolume, TLAPS

\* Most leaves are first-order: Zenon takes them, and a leaf that needs more says SMT.
USE Zenon

\* The handlers belong to the CO's phases.
PhaseInv ==
    /\ pc \in CreateSteps => phase = "creating"
    /\ pc \in ExpandSteps => phase = "created"
    /\ pc \in DeleteSteps => phase = "deleting"
    /\ phase = "creating" => want = Size /\ ~snaps

\* What the Anvil's queue holds fits the state of the share.
QueueInv ==
    /\ share \in {"none", "removed"} => ~Queued("delete") /\ ~Queued("resize")
    /\ Queued("delete") => Len(queue) = 1
    /\ \A i \in 1 .. Len(queue) : queue[i].kind = "create" => i = 1 /\ queue[i].size = Size
    /\ limit > 0 /\ \A i \in 1 .. Len(queue) : queue[i].kind = "resize" => queue[i].size > 0
    /\ Queued("create") => share \in {"none", "unfinished"}
    /\ share = "unfinished" => lists /\ limit = Size
    /\ phase = "creating" => ~Queued("resize")
    /\ phase # "creating" /\ Queued("create") => share = "unfinished"

\* Work left behind by an earlier call is remembered as such.
LeftInv ==
    /\ phase = "creating" /\ (Queued("create") \/ share = "unfinished")
         => lostTask \/ pc \in {"waitCreate", "cleanup", "waitCleanup"}
    /\ phase \in {"creating", "created"} /\ Queued("delete") => lostClean \/ pc = "waitCleanup"
    /\ Queued("delete") /\ snaps => lostClean
    /\ pc \in {"delete", "waitDelete"} => ~snaps

\* A handler that waits for a task will see what its task did.
WaitInv ==
    /\ pc \in {"waitCreate", "joinCreate"} => ~Queued("delete")
    /\ pc \in {"waitCreate", "joinCreate"} /\ Completed("create") => share = "live" /\ limit = want
    /\ pc = "waitDelete" /\ Completed("delete") => share \in {"none", "removed"}

\* Unless the last expansion met a smaller one, every resize that is left is for no less
\* than what was promised, and than what a handler that waits has asked for: whichever
\* of them the Anvil does last, the limit is enough.
SizeInv ==
    phase = "created" /\ ~Undercut =>
        /\ share = "live" /\ ~Queued("delete") /\ ~Queued("create")
        /\ acked <= want
        /\ pc \in ExpandSteps => acked < want
        /\ ~crossed =>
              /\ \A i \in 1 .. Len(queue) : acked <= queue[i].size
              /\ ~blind => acked <= limit
              /\ pc = "waitResize" => \A i \in 1 .. Len(queue) : want <= queue[i].size
              /\ pc = "waitResize" /\ outcome["resize"] = "COMPLETED" => want <= limit

TypeFlags ==
    /\ lists \in BOOLEAN /\ snaps \in BOOLEAN
    /\ lostTask \in BOOLEAN /\ lostClean \in BOOLEAN /\ blind \in BOOLEAN
    /\ crossed \in BOOLEAN

TypeNums ==
    /\ want \in 1 .. MaxSize /\ acked \in 0 .. MaxSize
    /\ limit \in 0 .. MaxSize /\ faults \in 0 .. MaxFaults

Tasks == [kind : Kinds, size : 0 .. MaxSize]

TypeRest ==
    /\ phase \in {"creating", "created", "deleting", "deleted"}
    /\ pc \in {"idle"} \cup CreateSteps \cup ExpandSteps \cup DeleteSteps
    /\ share \in {"none", "unfinished", "live", "removed"}
    /\ queue \in Seq(Tasks)
    /\ outcome \in [Kinds -> {"RUNNING", "COMPLETED", "FAILED"}]

IInv ==
    /\ TypeOK /\ PhaseInv /\ QueueInv /\ LeftInv /\ WaitInv /\ SizeInv
    /\ DeletedIsGone

-----------------------------------------------------------------------------
\* The parts of the type invariant.
LEMMA TypeParts == TypeOK <=> TypeFlags /\ TypeNums /\ TypeRest
BY DEF TypeOK, TypeFlags, TypeNums, TypeRest, Tasks

\* Nothing is in an empty queue.
LEMMA InEmpty == ASSUME NEW q, Len(q) = 0, NEW k PROVE ~In(q, k)
<1>1. \A i \in 1 .. Len(q) : FALSE
  BY SMT
<1> QED
  BY <1>1 DEF In

\* What accepting a task does to the queue.
LEMMA Appended ==
    ASSUME TypeRest, NEW t \in Tasks, queue' = Append(queue, t)
    PROVE  /\ queue' \in Seq(Tasks) /\ Len(queue') = Len(queue) + 1
           /\ \A i \in 1 .. Len(queue) : queue'[i] = queue[i]
           /\ queue'[Len(queue')] = t
           /\ \A k : In(queue', k) <=> In(queue, k) \/ t.kind = k
<1>1. /\ queue' \in Seq(Tasks) /\ Len(queue') = Len(queue) + 1
      /\ \A i \in 1 .. Len(queue) : queue'[i] = queue[i]
      /\ queue'[Len(queue')] = t /\ Len(queue) \in Nat
  BY SMT DEF TypeRest
<1> QED
  BY SMT, <1>1 DEF In

\* What is left of a sequence without one of its elements.
LEMMA Removed ==
    ASSUME NEW S, NEW q \in Seq(S), NEW i \in 1 .. Len(q), NEW r, r = Without(q, i)
    PROVE  /\ r \in Seq(S) /\ Len(r) = Len(q) - 1
           /\ \A j \in 1 .. Len(r) : r[j] = IF j < i THEN q[j] ELSE q[j + 1]
<1>1. Len(q) \in Nat /\ i \in Nat /\ i >= 1 /\ i <= Len(q)
  BY SMT
<1>2. /\ SubSeq(q, 1, i - 1) \in Seq(S) /\ Len(SubSeq(q, 1, i - 1)) = i - 1
      /\ \A j \in 1 .. i - 1 : SubSeq(q, 1, i - 1)[j] = q[j]
  BY SMT, <1>1
<1>3. /\ SubSeq(q, i + 1, Len(q)) \in Seq(S) /\ Len(SubSeq(q, i + 1, Len(q))) = Len(q) - i
      /\ \A j \in 1 .. Len(q) - i : SubSeq(q, i + 1, Len(q))[j] = q[i + j]
  BY SMT, <1>1
<1> DEFINE a == SubSeq(q, 1, i - 1)
           b == SubSeq(q, i + 1, Len(q))
<1>4. a \in Seq(S) /\ b \in Seq(S) /\ Len(a) = i - 1 /\ Len(b) = Len(q) - i /\ r = a \o b
  BY <1>2, <1>3 DEF Without
<1> HIDE DEF a, b
<1>5. r \in Seq(S) /\ Len(r) = Len(q) - 1
  BY SMT, <1>1, <1>4
<1>6. \A j \in 1 .. Len(r) : r[j] = IF j < i THEN a[j] ELSE b[j - (i - 1)]
  BY SMT, <1>1, <1>4, <1>5
<1> QED
  BY SMT, <1>1, <1>2, <1>3, <1>5, <1>6 DEF a, b

\* What the end of a task does to the queue.
LEMMA Dropped ==
    ASSUME TypeRest, NEW i \in 1 .. Len(queue), queue' = Without(queue, i)
    PROVE  /\ queue' \in Seq(Tasks) /\ Len(queue') = Len(queue) - 1 /\ Len(queue) \in Nat \ {0}
           /\ queue[i] \in Tasks
           /\ \A j \in 1 .. Len(queue') : \E n \in 1 .. Len(queue) :
                 n # i /\ (n = 1 => j = 1) /\ queue'[j] = queue[n]
           /\ \A k : In(queue, k) <=> queue[i].kind = k \/ In(queue', k)
<1>1. /\ queue' \in Seq(Tasks) /\ Len(queue') = Len(queue) - 1
      /\ \A j \in 1 .. Len(queue') : queue'[j] = IF j < i THEN queue[j] ELSE queue[j + 1]
  <2>1. queue \in Seq(Tasks)
    BY DEF TypeRest
  <2>2. \A r : r = Without(queue, i) =>
           /\ r \in Seq(Tasks) /\ Len(r) = Len(queue) - 1
           /\ \A j \in 1 .. Len(r) : r[j] = IF j < i THEN queue[j] ELSE queue[j + 1]
    BY <2>1, Removed
  <2> QED
    BY <2>2
<1>2. Len(queue) \in Nat \ {0} /\ queue[i] \in Tasks /\ i \in Nat
  BY SMT DEF TypeRest
<1>3. ASSUME NEW j \in 1 .. Len(queue')
      PROVE  \E n \in 1 .. Len(queue) : n # i /\ (n = 1 => j = 1) /\ queue'[j] = queue[n]
  <2>1. CASE j < i
    <3>1. j \in 1 .. Len(queue) /\ j # i /\ queue'[j] = queue[j]
      BY SMT, <1>1, <1>2, <2>1
    <3> QED
      BY <3>1
  <2>2. CASE ~(j < i)
    <3>1. j + 1 \in 1 .. Len(queue) /\ j + 1 # i /\ j + 1 # 1 /\ queue'[j] = queue[j + 1]
      BY SMT, <1>1, <1>2, <2>2
    <3> QED
      BY <3>1
  <2> QED
    BY <2>1, <2>2
<1>4. ASSUME NEW k, In(queue, k), queue[i].kind # k PROVE In(queue', k)
  <2>1. PICK n \in 1 .. Len(queue) : queue[n].kind = k
    BY <1>4 DEF In
  <2>2. CASE n < i
    <3>1. n \in 1 .. Len(queue') /\ queue'[n] = queue[n]
      BY SMT, <1>1, <1>2, <2>2
    <3> QED
      BY <2>1, <3>1 DEF In
  <2>3. CASE n > i
    <3>1. n - 1 \in 1 .. Len(queue') /\ queue'[n - 1] = queue[n]
      BY SMT, <1>1, <1>2, <2>3
    <3> QED
      BY <2>1, <3>1 DEF In
  <2>4. n < i \/ n > i
    BY SMT, <1>2, <1>4, <2>1
  <2> QED
    BY <2>2, <2>3, <2>4
<1>5. ASSUME NEW k, In(queue', k) PROVE In(queue, k)
  BY <1>3, <1>5 DEF In
<1>6. ASSUME NEW k, queue[i].kind = k PROVE In(queue, k)
  BY <1>6 DEF In
<1> QED
  BY <1>1, <1>2, <1>3, <1>4, <1>5, <1>6

\* A task ends: it was in the queue, and is not any more.
LEMMA Ended ==
    ASSUME TypeRest, TaskDone \/ TaskFails
    PROVE  /\ \E i \in 1 .. Len(queue) :
                 /\ queue[i] \in Tasks
                 /\ Queued(queue[i].kind)
                 /\ \/ TaskDone /\ Succeeded(queue[i]) /\ Ends(i, "COMPLETED")
                    \/ TaskFails /\ Ends(i, "FAILED") /\ UNCHANGED <<share, limit>>
                 /\ \A j \in 1 .. Len(queue') : \E n \in 1 .. Len(queue) :
                       n # i /\ (n = 1 => j = 1) /\ queue'[j] = queue[n]
                 /\ \A k : In(queue, k) <=> queue[i].kind = k \/ In(queue', k)
           /\ queue' \in Seq(Tasks) /\ Len(queue') = Len(queue) - 1 /\ Len(queue) \in Nat \ {0}
           /\ AnvilOnly
<1>1. PICK i \in 1 .. Len(queue) :
         \/ TaskDone /\ Succeeded(queue[i]) /\ Ends(i, "COMPLETED")
         \/ TaskFails /\ Ends(i, "FAILED") /\ UNCHANGED <<share, limit>>
  BY DEF TaskDone, TaskFails
<1>2. queue' = Without(queue, i)
  BY <1>1 DEF Ends
<1>3. AnvilOnly
  BY DEF TaskDone, TaskFails
<1> HIDE DEF TypeRest
<1> QED
  BY <1>1, <1>2, <1>3, Dropped DEF Queued

\* What is in an empty queue, and in one that is not.
LEMMA InQueue ==
    ASSUME TypeRest
    PROVE  /\ Len(queue) \in Nat
           /\ \A i \in 1 .. Len(queue) : In(queue, queue[i].kind) /\ queue[i] \in Tasks
           /\ (\A k \in Kinds : ~In(queue, k)) => queue = <<>>
           /\ queue = <<>> => \A k : ~In(queue, k)
<1>1. Len(queue) \in Nat /\ \A i \in 1 .. Len(queue) : queue[i] \in Tasks
  BY SMT DEF TypeRest
<1>2. \A i \in 1 .. Len(queue) : In(queue, queue[i].kind)
  BY <1>1 DEF In
<1>3. (\A k \in Kinds : ~In(queue, k)) => queue = <<>>
  <2> SUFFICES ASSUME queue # <<>> PROVE \E k \in Kinds : In(queue, k)
    OBVIOUS
  <2>1. 1 \in 1 .. Len(queue)
    BY SMT DEF TypeRest
  <2>2. queue[1].kind \in Kinds
    BY <1>1, <2>1 DEF Tasks
  <2> QED
    BY <1>2, <2>1, <2>2
<1>4. queue = <<>> => \A k : ~In(queue, k)
  BY SMT DEF In
<1> QED
  BY <1>1, <1>2, <1>3, <1>4

LEMMA SmallerFlag == Smaller \in BOOLEAN
BY SMT DEF Smaller

\* The types are preserved: the flags,
LEMMA FlagStep ==
    ASSUME TypeFlags, [Next]_vars PROVE TypeFlags'
<1>1. CASE CreateVolume
  BY <1>1 DEF CreateVolume, TypeFlags, coVars, CallsOnly, anvilVars, lostVars
<1>2. CASE ControllerExpandVolume
  BY <1>2 DEF ControllerExpandVolume, TypeFlags, CallsOnly, anvilVars, lostVars
<1>3. CASE DeleteWanted
  BY <1>3 DEF DeleteWanted, TypeFlags, CallsOnly, anvilVars, lostVars
<1>4. CASE DeleteVolume
  BY <1>4 DEF DeleteVolume, TypeFlags, coVars, CallsOnly, anvilVars, lostVars
<1>5. CASE TakeSnapshot
  BY <1>5 DEF TakeSnapshot, TypeFlags, CallsOnly, anvilVars, lostVars
<1>6. CASE DropSnapshot
  BY <1>6 DEF DropSnapshot, TypeFlags, CallsOnly, anvilVars, lostVars
<1>7. CASE CreateGetShare
  BY <1>7 DEF CreateGetShare, TypeFlags, Go, lostVars, Fail, Created, anvilVars,
     coVars, Forget
<1>8. CASE CreateShare
  BY <1>8 DEF CreateShare, TypeFlags, Go, lostVars, Fail, coVars, Forget
<1>9. CASE WaitCreate
  BY <1>9 DEF WaitCreate, TypeFlags, Created, Go, lostVars, anvilVars, coVars
<1>10. CASE JoinCreate
  BY <1>10 DEF JoinCreate, TypeFlags, Created, Fail, anvilVars, lostVars, coVars,
     Forget
<1>11. CASE Cleanup
  BY <1>11 DEF Cleanup, TypeFlags, DeleteShare, Fail, Go, lostVars, coVars,
     Forget
<1>12. CASE WaitCleanup
  BY <1>12 DEF WaitCleanup, TypeFlags, Fail, anvilVars, coVars, CreateSteps, Forget
<1>13. CASE ExpandGetShare
  <2>1. UNCHANGED <<lists, snaps, lostTask, lostClean>>
    BY <1>13 DEF ExpandGetShare, Fail, Go, Expanded, lostVars, anvilVars, coVars, CreateSteps
  <2>2. blind' = blind \/ blind' = TRUE
    BY <1>13 DEF ExpandGetShare, Fail, Go, Expanded, lostVars, CreateSteps
  <2>3. crossed' \in BOOLEAN
    BY <1>13, SmallerFlag DEF ExpandGetShare, TypeFlags, Fail, Go, Expanded, lostVars, CreateSteps
  <2> QED
    BY <2>1, <2>2, <2>3 DEF TypeFlags
<1>14. CASE UpdateShareSize
  <2>1. UNCHANGED <<lists, snaps, lostTask, lostClean>>
    BY <1>14 DEF UpdateShareSize, Fail, Go, Expanded, lostVars, anvilVars, coVars, CreateSteps
  <2>2. blind' = blind \/ blind' = TRUE
    BY <1>14 DEF UpdateShareSize, Fail, Go, Expanded, lostVars, CreateSteps
  <2>3. crossed' \in BOOLEAN
    BY <1>14, SmallerFlag DEF UpdateShareSize, TypeFlags, Fail, Go, Expanded, lostVars, CreateSteps
  <2> QED
    BY <2>1, <2>2, <2>3 DEF TypeFlags
<1>15. CASE WaitResize
  <2>1. UNCHANGED <<lists, snaps, lostTask, lostClean>>
    BY <1>15 DEF WaitResize, Fail, Go, Expanded, lostVars, anvilVars, coVars, CreateSteps
  <2>2. blind' = blind \/ blind' = TRUE
    BY <1>15 DEF WaitResize, Fail, Go, Expanded, lostVars, CreateSteps
  <2>3. crossed' \in BOOLEAN
    BY <1>15, SmallerFlag DEF WaitResize, TypeFlags, Fail, Go, Expanded, lostVars, CreateSteps
  <2> QED
    BY <2>1, <2>2, <2>3 DEF TypeFlags
<1>16. CASE DeleteGetShare
  BY <1>16 DEF DeleteGetShare, TypeFlags, Deleted, Go, lostVars, anvilVars, coVars
<1>17. CASE GetShareSnapshots
  BY <1>17 DEF GetShareSnapshots, TypeFlags, Fail, Go, lostVars, anvilVars, coVars,
     Forget
<1>18. CASE DeleteBackingShare
  BY <1>18 DEF DeleteBackingShare, TypeFlags, DeleteShare, Deleted, Fail, Go,
     lostVars, coVars, Forget
<1>19. CASE WaitForShareDelete
  BY <1>19 DEF WaitForShareDelete, TypeFlags, Deleted, Fail, anvilVars, lostVars,
     coVars, CreateSteps
<1>20. CASE CutOff
  BY <1>20 DEF CutOff, TypeFlags, Fail, anvilVars, coVars, Forget, lostVars
<1>21. CASE TaskDone
  BY <1>21 DEF TaskDone, TypeFlags, AnvilOnly, coVars, lostVars
<1>22. CASE TaskFails
  BY <1>22 DEF TaskFails, TypeFlags, AnvilOnly, coVars, lostVars
<1>23. CASE Purge
  BY <1>23 DEF Purge, TypeFlags, AnvilOnly, coVars, lostVars
<1>24. CASE UNCHANGED vars
  BY <1>24 DEF TypeFlags, vars, coVars, anvilVars, lostVars
<1> QED
  BY <1>1, <1>2, <1>3, <1>4, <1>5, <1>6, <1>7, <1>8, <1>9, <1>10, <1>11, <1>12,
     <1>13, <1>14, <1>15, <1>16, <1>17, <1>18, <1>19, <1>20, <1>21, <1>22, <1>23,
     <1>24 DEF Next, Handler

\* the numbers,
LEMMA NumStep ==
    ASSUME TypeNums, TypeRest, [Next]_vars PROVE TypeNums'
<1> USE SizeAssumption, BoundAssumption, InQueue
<1>1. CASE CreateVolume
  BY <1>1 DEF CreateVolume, TypeNums, coVars, CallsOnly, anvilVars
<1>2. CASE ControllerExpandVolume
  BY SMT, <1>2 DEF ControllerExpandVolume, TypeNums, CallsOnly, anvilVars
<1>3. CASE DeleteWanted
  BY <1>3 DEF DeleteWanted, TypeNums, CallsOnly, anvilVars
<1>4. CASE DeleteVolume
  BY <1>4 DEF DeleteVolume, TypeNums, coVars, CallsOnly, anvilVars
<1>5. CASE TakeSnapshot
  BY <1>5 DEF TakeSnapshot, TypeNums, CallsOnly, anvilVars
<1>6. CASE DropSnapshot
  BY <1>6 DEF DropSnapshot, TypeNums, CallsOnly, anvilVars
<1>7. CASE CreateGetShare
  BY <1>7 DEF CreateGetShare, TypeNums, Go, Fail, Created, anvilVars, coVars
<1>8. CASE CreateShare
  BY SMT, <1>8 DEF CreateShare, TypeNums, Go, Fault, Fail, coVars
<1>9. CASE WaitCreate
  BY SMT, <1>9 DEF WaitCreate, TypeNums, Created, Go, Fault, anvilVars, coVars
<1>10. CASE JoinCreate
  BY SMT, <1>10 DEF JoinCreate, TypeNums, Created, Fail, anvilVars, coVars
<1>11. CASE Cleanup
  BY <1>11 DEF Cleanup, TypeNums, DeleteShare, Fail, Go, coVars
<1>12. CASE WaitCleanup
  BY <1>12 DEF WaitCleanup, TypeNums, Fail, anvilVars, coVars
<1>13. CASE ExpandGetShare
  BY SMT, <1>13 DEF ExpandGetShare, TypeNums, Fail, Go, Expanded, anvilVars, coVars
<1>14. CASE UpdateShareSize
  BY SMT, <1>14 DEF UpdateShareSize, TypeNums, Fail, Go, Expanded, Fault, coVars
<1>15. CASE WaitResize
  BY SMT, <1>15 DEF WaitResize, TypeNums, Expanded, Fail, anvilVars, coVars
<1>16. CASE DeleteGetShare
  BY <1>16 DEF DeleteGetShare, TypeNums, Deleted, Go, anvilVars, coVars
<1>17. CASE GetShareSnapshots
  BY <1>17 DEF GetShareSnapshots, TypeNums, Fail, Go, anvilVars, coVars
<1>18. CASE DeleteBackingShare
  BY SMT, <1>18 DEF DeleteBackingShare, TypeNums, DeleteShare, Deleted, Fail, Fault, Go,
     coVars
<1>19. CASE WaitForShareDelete
  BY <1>19 DEF WaitForShareDelete, TypeNums, Deleted, Fail, anvilVars, coVars
<1>20. CASE CutOff
  BY SMT, <1>20 DEF CutOff, TypeNums, Fault, Fail, anvilVars, coVars
<1>21. CASE TaskDone
  <2>1. PICK i \in 1 .. Len(queue) : queue[i] \in Tasks /\ Succeeded(queue[i])
    BY <1>21, InQueue DEF TaskDone
  <2>2. queue[i].size \in 0 .. MaxSize
    BY SMT, <2>1 DEF Tasks
  <2> QED
    BY <1>21, <2>1, <2>2 DEF TaskDone, TypeNums, Succeeded, AnvilOnly, coVars
<1>22. CASE TaskFails
  BY SMT, <1>22 DEF TaskFails, TypeNums, Fault, AnvilOnly, coVars
<1>23. CASE Purge
  BY <1>23 DEF Purge, TypeNums, AnvilOnly, coVars
<1>24. CASE UNCHANGED vars
  BY <1>24 DEF TypeNums, vars, coVars, anvilVars
<1> QED
  BY <1>1, <1>2, <1>3, <1>4, <1>5, <1>6, <1>7, <1>8, <1>9, <1>10, <1>11, <1>12,
     <1>13, <1>14, <1>15, <1>16, <1>17, <1>18, <1>19, <1>20, <1>21, <1>22, <1>23,
     <1>24 DEF Next, Handler

\* and the rest.
LEMMA RestStep ==
    ASSUME TypeNums, TypeRest, [Next]_vars PROVE TypeRest'
<1>1. CASE CreateVolume
  BY <1>1 DEF CreateVolume, TypeRest, coVars, CallsOnly, CreateSteps, anvilVars
<1>2. CASE ControllerExpandVolume
  BY <1>2 DEF ControllerExpandVolume, TypeRest, CallsOnly, ExpandSteps, anvilVars
<1>3. CASE DeleteWanted
  BY <1>3 DEF DeleteWanted, TypeRest, CallsOnly, anvilVars
<1>4. CASE DeleteVolume
  BY <1>4 DEF DeleteVolume, TypeRest, coVars, CallsOnly, DeleteSteps, anvilVars
<1>5. CASE TakeSnapshot
  BY <1>5 DEF TakeSnapshot, TypeRest, CallsOnly, anvilVars
<1>6. CASE DropSnapshot
  BY <1>6 DEF DropSnapshot, TypeRest, CallsOnly, anvilVars
<1>7. CASE CreateGetShare
  BY <1>7 DEF CreateGetShare, TypeRest, Go, Fail, Created, anvilVars, CreateSteps,
     coVars
<1>8. CASE CreateShare
  <2>1. CASE queue' = queue
    BY <1>8, <2>1 DEF CreateShare, TypeRest, Go, Fail, CreateSteps, coVars
  <2>2. CASE queue' = Append(queue, Task("create", want))
    <3>1. Task("create", want) \in Tasks /\ Task("create", want).kind = "create"
      BY SMT, SizeAssumption DEF Task, Tasks, Kinds, TypeNums
    <3> HIDE DEF Tasks
    <3> QED
      BY SMT, <1>8, <2>2, <3>1 DEF CreateShare, TypeRest, Go, CreateSteps, coVars
  <2> QED
    BY <1>8, <2>1, <2>2 DEF CreateShare, Accept
<1>9. CASE WaitCreate
  BY <1>9 DEF WaitCreate, TypeRest, Created, Go, anvilVars, CreateSteps, coVars
<1>10. CASE JoinCreate
  BY <1>10 DEF JoinCreate, TypeRest, Created, Fail, anvilVars, coVars
<1>11. CASE Cleanup
  <2>1. CASE queue' = queue
    BY <1>11, <2>1 DEF Cleanup, TypeRest, DeleteShare, Fail, CreateSteps, Go, coVars
  <2>2. CASE queue' = Append(queue, Task("delete", 0))
    <3>1. Task("delete", 0) \in Tasks /\ Task("delete", 0).kind = "delete"
      BY SMT, SizeAssumption DEF Task, Tasks, Kinds, TypeNums
    <3> HIDE DEF Tasks
    <3> QED
      BY SMT, <1>11, <2>2, <3>1 DEF Cleanup, TypeRest, DeleteShare, CreateSteps, Go, coVars
  <2> QED
    BY <1>11, <2>1, <2>2 DEF Cleanup, DeleteShare, Accept
<1>12. CASE WaitCleanup
  BY <1>12 DEF WaitCleanup, TypeRest, Fail, anvilVars, coVars
<1>13. CASE ExpandGetShare
  BY <1>13 DEF ExpandGetShare, TypeRest, Fail, Go, Expanded, anvilVars, ExpandSteps,
     coVars
<1>14. CASE UpdateShareSize
  <2>1. CASE queue' = queue
    BY <1>14, <2>1 DEF UpdateShareSize, TypeRest, Fail, Go, Expanded, ExpandSteps,
       coVars
  <2>2. CASE queue' = Append(queue, Task("resize", want))
    <3>1. Task("resize", want) \in Tasks /\ Task("resize", want).kind = "resize"
      BY SMT, SizeAssumption DEF Task, Tasks, Kinds, TypeNums
    <3> HIDE DEF Tasks
    <3> QED
      BY SMT, <1>14, <2>2, <3>1 DEF UpdateShareSize, TypeRest, Go, Expanded, ExpandSteps,
         coVars
  <2> QED
    BY <1>14, <2>1, <2>2 DEF UpdateShareSize, Accept
<1>15. CASE WaitResize
  BY <1>15 DEF WaitResize, TypeRest, Expanded, Fail, anvilVars, coVars
<1>16. CASE DeleteGetShare
  BY <1>16 DEF DeleteGetShare, TypeRest, Deleted, Go, anvilVars, DeleteSteps, coVars
<1>17. CASE GetShareSnapshots
  BY <1>17 DEF GetShareSnapshots, TypeRest, Fail, Go, anvilVars, DeleteSteps, coVars
<1>18. CASE DeleteBackingShare
  <2>1. CASE queue' = queue
    BY <1>18, <2>1 DEF DeleteBackingShare, TypeRest, DeleteShare, Deleted, Fail,
       DeleteSteps, Go, coVars
  <2>2. CASE queue' = Append(queue, Task("delete", 0))
    <3>1. Task("delete", 0) \in Tasks /\ Task("delete", 0).kind = "delete"
      BY SMT, SizeAssumption DEF Task, Tasks, Kinds, TypeNums
    <3> HIDE DEF Tasks
    <3> QED
      BY SMT, <1>18, <2>2, <3>1 DEF DeleteBackingShare, TypeRest, DeleteShare, DeleteSteps,
         Go, coVars
  <2> QED
    BY <1>18, <2>1, <2>2 DEF DeleteBackingShare, DeleteShare, Accept
<1>19. CASE WaitForShareDelete
  BY <1>19 DEF WaitForShareDelete, TypeRest, Deleted, Fail, anvilVars, coVars
<1>20. CASE CutOff
  BY <1>20 DEF CutOff, TypeRest, Fail, anvilVars, coVars
<1>21. CASE TaskDone \/ TaskFails
  <2>1. PICK i \in 1 .. Len(queue) :
           /\ queue[i] \in Tasks
           /\ \/ Succeeded(queue[i]) /\ Ends(i, "COMPLETED")
              \/ Ends(i, "FAILED") /\ UNCHANGED <<share, limit>>
    BY <1>21, Ended
  <2>2. queue' \in Seq(Tasks) /\ AnvilOnly
    BY <1>21, Ended
  <2>3. share' \in {"none", "unfinished", "live", "removed"}
    BY <2>1 DEF Succeeded, TypeRest
  <2>4. queue[i].kind \in Kinds
    BY SMT, <2>1 DEF Tasks
  <2>5. outcome' \in [Kinds -> {"RUNNING", "COMPLETED", "FAILED"}]
    BY SMT, <2>1, <2>4 DEF Ends, TypeRest
  <2> QED
    BY <2>2, <2>3, <2>5 DEF TypeRest, AnvilOnly, coVars
<1>23. CASE Purge
  BY <1>23 DEF Purge, TypeRest, AnvilOnly, coVars
<1>24. CASE UNCHANGED vars
  BY <1>24 DEF TypeRest, vars, coVars, anvilVars
<1> QED
  BY <1>1, <1>2, <1>3, <1>4, <1>5, <1>6, <1>7, <1>8, <1>9, <1>10, <1>11, <1>12,
     <1>13, <1>14, <1>15, <1>16, <1>17, <1>18, <1>19, <1>20, <1>21, <1>23, <1>24
     DEF Next, Handler

\* The handlers stay within the CO's phases.
LEMMA PhaseStep ==
    ASSUME TypeOK, PhaseInv, [Next]_vars PROVE PhaseInv'
<1>1. CASE CreateVolume
  BY <1>1 DEF CreateVolume, PhaseInv, coVars, ExpandSteps, DeleteSteps
<1>2. CASE ControllerExpandVolume
  BY <1>2 DEF ControllerExpandVolume, PhaseInv, CreateSteps, DeleteSteps
<1>3. CASE DeleteWanted
  BY <1>3 DEF DeleteWanted, PhaseInv, ExpandSteps
<1>4. CASE DeleteVolume
  BY <1>4 DEF DeleteVolume, PhaseInv, coVars, CreateSteps, ExpandSteps
<1>5. CASE TakeSnapshot
  BY <1>5 DEF TakeSnapshot, PhaseInv
<1>6. CASE DropSnapshot
  BY <1>6 DEF DropSnapshot, PhaseInv
<1>7. CASE CreateGetShare
  BY <1>7 DEF CreateGetShare, PhaseInv, Go, Fail, Created, CreateSteps, ExpandSteps,
     DeleteSteps, coVars
<1>8. CASE CreateShare
  BY SMT, <1>8 DEF CreateShare, PhaseInv, Go, Fail, CreateSteps, ExpandSteps, DeleteSteps,
     coVars
<1>9. CASE WaitCreate
  BY SMT, <1>9 DEF WaitCreate, PhaseInv, Created, Go, CreateSteps, ExpandSteps, DeleteSteps,
     coVars
<1>10. CASE JoinCreate
  BY SMT, <1>10 DEF JoinCreate, PhaseInv, Created, Fail, CreateSteps, ExpandSteps,
     DeleteSteps, coVars
<1>11. CASE Cleanup
  BY SMT, <1>11 DEF Cleanup, PhaseInv, DeleteShare, Fail, CreateSteps, ExpandSteps,
     DeleteSteps, Go, coVars
<1>12. CASE WaitCleanup
  BY <1>12 DEF WaitCleanup, PhaseInv, Fail, CreateSteps, ExpandSteps, DeleteSteps,
     coVars
<1>13. CASE ExpandGetShare
  BY <1>13 DEF ExpandGetShare, PhaseInv, Fail, Go, Expanded, CreateSteps, ExpandSteps,
     DeleteSteps, coVars
<1>14. CASE UpdateShareSize
  BY <1>14 DEF UpdateShareSize, PhaseInv, Fail, Go, Expanded, CreateSteps, ExpandSteps,
     DeleteSteps, coVars
<1>15. CASE WaitResize
  BY <1>15 DEF WaitResize, PhaseInv, Expanded, Fail, CreateSteps, ExpandSteps,
     DeleteSteps, coVars
<1>16. CASE DeleteGetShare
  BY <1>16 DEF DeleteGetShare, PhaseInv, Deleted, Go, CreateSteps, ExpandSteps,
     DeleteSteps, coVars
<1>17. CASE GetShareSnapshots
  BY <1>17 DEF GetShareSnapshots, PhaseInv, Fail, Go, CreateSteps, ExpandSteps,
     DeleteSteps, coVars
<1>18. CASE DeleteBackingShare
  BY <1>18 DEF DeleteBackingShare, PhaseInv, DeleteShare, Deleted, Fail, CreateSteps,
     ExpandSteps, DeleteSteps, Go, coVars
<1>19. CASE WaitForShareDelete
  BY <1>19 DEF WaitForShareDelete, PhaseInv, Deleted, Fail, CreateSteps, ExpandSteps,
     DeleteSteps, coVars
<1>20. CASE CutOff
  BY <1>20 DEF CutOff, PhaseInv, Fail, CreateSteps, ExpandSteps, DeleteSteps, coVars
<1>21. CASE TaskDone
  BY <1>21 DEF TaskDone, PhaseInv, AnvilOnly, coVars
<1>22. CASE TaskFails
  BY <1>22 DEF TaskFails, PhaseInv, AnvilOnly, coVars
<1>23. CASE Purge
  BY <1>23 DEF Purge, PhaseInv, AnvilOnly, coVars
<1>24. CASE UNCHANGED vars
  BY <1>24 DEF PhaseInv, vars, coVars
<1> QED
  BY <1>1, <1>2, <1>3, <1>4, <1>5, <1>6, <1>7, <1>8, <1>9, <1>10, <1>11, <1>12,
     <1>13, <1>14, <1>15, <1>16, <1>17, <1>18, <1>19, <1>20, <1>21, <1>22, <1>23,
     <1>24 DEF Next, Handler

\* A queue with a create task holds no delete task.
LEMMA NotBoth ==
    ASSUME TypeRest, QueueInv PROVE ~(Queued("create") /\ Queued("delete"))
<1> SUFFICES ASSUME Queued("create"), Queued("delete") PROVE FALSE
  OBVIOUS
<1>1. PICK i \in 1 .. Len(queue) : queue[i].kind = "create"
  BY DEF Queued, In
<1>2. PICK j \in 1 .. Len(queue) : queue[j].kind = "delete"
  BY DEF Queued, In
<1>3. i = 1 /\ Len(queue) = 1
  BY <1>1 DEF QueueInv
<1>4. j = 1
  BY SMT, <1>2, <1>3
<1> QED
  BY <1>1, <1>2, <1>3, <1>4

\* The queue fits the share.
LEMMA QueueStep ==
    ASSUME TypeFlags, TypeNums, TypeRest, PhaseInv, QueueInv, [Next]_vars PROVE QueueInv'
<1> USE SizeAssumption, InQueue
<1>1. CASE CreateVolume
  BY <1>1 DEF CreateVolume, QueueInv, TypeNums, TypeRest, coVars, CallsOnly, Queued,
     anvilVars
<1>2. CASE ControllerExpandVolume
  BY <1>2 DEF ControllerExpandVolume, QueueInv, TypeNums, TypeRest, CallsOnly, Queued,
     anvilVars
<1>3. CASE DeleteWanted
  BY <1>3 DEF DeleteWanted, QueueInv, TypeNums, TypeRest, CallsOnly, Queued, anvilVars
<1>4. CASE DeleteVolume
  BY <1>4 DEF DeleteVolume, QueueInv, TypeNums, TypeRest, coVars, CallsOnly, Queued,
     anvilVars
<1>5. CASE TakeSnapshot
  BY <1>5 DEF TakeSnapshot, QueueInv, TypeNums, TypeRest, CallsOnly, Queued, anvilVars
<1>6. CASE DropSnapshot
  BY <1>6 DEF DropSnapshot, QueueInv, TypeNums, TypeRest, CallsOnly, Queued, anvilVars
<1>7. CASE CreateGetShare
  BY <1>7 DEF CreateGetShare, QueueInv, TypeNums, TypeRest, Go, Fail, Created,
     anvilVars, Queued, coVars
<1>8. CASE CreateShare
  <2>1. CASE queue' = queue
    BY SMT, <1>8, <2>1 DEF CreateShare, QueueInv, TypeNums, TypeRest, Queued, Accept, Go,
       Fail, coVars
  <2>2. CASE queue' = Append(queue, Task("create", want))
    <3>1. Task("create", want) \in Tasks /\ Task("create", want).kind = "create"
      BY SMT, SizeAssumption DEF Task, Tasks, Kinds, TypeNums
    <3> HIDE DEF Tasks
    <3> QED
      BY SMT, <1>8, <2>2, <3>1, Appended DEF CreateShare, QueueInv, PhaseInv, TypeNums,
         TypeRest, Queued, Task, Go, lostVars, ExpandSteps, DeleteSteps, Kinds, coVars
  <2> QED
    BY <1>8, <2>1, <2>2 DEF CreateShare, Accept
<1>9. CASE WaitCreate
  BY <1>9 DEF WaitCreate, QueueInv, TypeNums, TypeRest, Completed, Created, Go,
     anvilVars, Queued, coVars
<1>10. CASE JoinCreate
  BY <1>10 DEF JoinCreate, QueueInv, TypeNums, TypeRest, Completed, Created, Fail,
     anvilVars, Queued, coVars
<1>11. CASE Cleanup
  <2>1. CASE queue' = queue
    BY <1>11, <2>1 DEF Cleanup, QueueInv, TypeNums, TypeRest, DeleteShare, Fail, Queued,
       Go, coVars
  <2>2. CASE queue' = Append(queue, Task("delete", 0))
    <3>1. Task("delete", 0) \in Tasks /\ Task("delete", 0).kind = "delete"
      BY SMT, SizeAssumption DEF Task, Tasks, Kinds, TypeNums
    <3> HIDE DEF Tasks
    <3> QED
      BY SMT, <1>11, <2>2, <3>1, Appended DEF Cleanup, QueueInv, TypeNums, TypeRest,
         DeleteShare, Queued
  <2> QED
    BY <1>11, <2>1, <2>2 DEF Cleanup, DeleteShare, Accept
<1>12. CASE WaitCleanup
  BY <1>12 DEF WaitCleanup, QueueInv, TypeNums, TypeRest, Queued, Fail, anvilVars,
     coVars
<1>13. CASE ExpandGetShare
  BY <1>13 DEF ExpandGetShare, QueueInv, TypeNums, TypeRest, Fail, Go, Expanded,
     anvilVars, Queued, coVars
<1>14. CASE UpdateShareSize
  <2>1. CASE queue' = queue
    BY <1>14, <2>1 DEF UpdateShareSize, QueueInv, TypeNums, TypeRest, Queued, Fail, Go,
       Expanded, coVars
  <2>2. CASE queue' = Append(queue, Task("resize", want))
    <3>1. Task("resize", want) \in Tasks /\ Task("resize", want).kind = "resize"
      BY SMT, SizeAssumption DEF Task, Tasks, Kinds, TypeNums
    <3> QED
      <4>1. /\ share \notin {"none", "removed"} /\ ~Queued("delete")
            /\ UNCHANGED <<share, limit, phase, lists>> /\ phase = "created"
        <5>1. queue' # queue
          BY SMT, <2>2, <3>1, Appended DEF TypeRest
        <5> QED
          BY <1>14, <5>1 DEF UpdateShareSize, Go, Expanded, coVars, PhaseInv, ExpandSteps
      <4>2. /\ Len(queue') = Len(queue) + 1 /\ Len(queue) \in Nat
            /\ \A i \in 1 .. Len(queue) : queue'[i] = queue[i]
            /\ queue'[Len(queue')] = Task("resize", want)
            /\ \A k : In(queue', k) <=> In(queue, k) \/ k = "resize"
        BY <2>2, <3>1, Appended
      <4>3. \A i \in 1 .. Len(queue') : i \in 1 .. Len(queue) \/ i = Len(queue')
        BY SMT, <4>2
      <4>4. Task("resize", want).size > 0
        BY SMT DEF Task, TypeNums
      <4>5. \A i \in 1 .. Len(queue') :
               /\ queue'[i].kind = "create" => i = 1 /\ queue'[i].size = Size
               /\ queue'[i].kind = "resize" => queue'[i].size > 0
        BY <3>1, <4>2, <4>3, <4>4 DEF QueueInv
      <4> QED
        BY <4>1, <4>2, <4>5 DEF QueueInv, Queued
  <2> QED
    BY <1>14, <2>1, <2>2 DEF UpdateShareSize, Accept
<1>15. CASE WaitResize
  BY <1>15 DEF WaitResize, QueueInv, TypeNums, TypeRest, Expanded, Fail, anvilVars,
     Queued, coVars
<1>16. CASE DeleteGetShare
  BY <1>16 DEF DeleteGetShare, QueueInv, PhaseInv, TypeNums, TypeRest, Go, anvilVars,
     Queued, DeleteSteps, coVars
<1>17. CASE GetShareSnapshots
  BY <1>17 DEF GetShareSnapshots, QueueInv, TypeNums, TypeRest, Fail, Go, anvilVars,
     Queued, coVars
<1>18. CASE DeleteBackingShare
  <2>1. CASE queue' = queue
    BY <1>18, <2>1 DEF DeleteBackingShare, QueueInv, PhaseInv, TypeNums, TypeRest,
       DeleteShare, Fail, Queued, DeleteSteps, Go, coVars
  <2>2. CASE queue' = Append(queue, Task("delete", 0))
    <3>1. Task("delete", 0) \in Tasks /\ Task("delete", 0).kind = "delete"
      BY SMT, SizeAssumption DEF Task, Tasks, Kinds, TypeNums
    <3> HIDE DEF Tasks
    <3> QED
      BY SMT, <1>18, <2>2, <3>1, Appended DEF DeleteBackingShare, QueueInv, TypeNums,
         TypeRest, DeleteShare, Queued
  <2> QED
    BY <1>18, <2>1, <2>2 DEF DeleteBackingShare, DeleteShare, Accept
<1>19. CASE WaitForShareDelete
  BY <1>19 DEF WaitForShareDelete, QueueInv, PhaseInv, TypeNums, TypeRest, Deleted,
     Fail, anvilVars, Queued, DeleteSteps, coVars
<1>20. CASE CutOff
  BY <1>20 DEF CutOff, QueueInv, TypeNums, TypeRest, Fail, anvilVars, Queued, coVars
<1>21. CASE TaskDone \/ TaskFails
  <2>1. PICK i \in 1 .. Len(queue) :
           /\ queue[i] \in Tasks /\ Queued(queue[i].kind)
           /\ Succeeded(queue[i]) \/ UNCHANGED <<share, limit>>
           /\ \A j \in 1 .. Len(queue') : \E n \in 1 .. Len(queue) :
                 n # i /\ (n = 1 => j = 1) /\ queue'[j] = queue[n]
           /\ \A k : In(queue, k) <=> queue[i].kind = k \/ In(queue', k)
    BY <1>21, Ended
  <2>2. Len(queue') = Len(queue) - 1 /\ Len(queue) \in Nat \ {0} /\ phase' = phase /\ lists' = lists
    BY <1>21, Ended DEF AnvilOnly, coVars
  <2>3. \A j \in 1 .. Len(queue') :
           /\ queue'[j].kind = "create" => j = 1 /\ queue'[j].size = Size
           /\ queue'[j].kind = "resize" => queue'[j].size > 0
    <3> TAKE j \in 1 .. Len(queue')
    <3>1. PICK n \in 1 .. Len(queue) : (n = 1 => j = 1) /\ queue'[j] = queue[n]
      BY <2>1
    <3> QED
      BY <3>1 DEF QueueInv
  <2>4. queue[i].kind = "create" => ~In(queue', "create") /\ queue[i].size = Size
    <3>1. queue[i].kind = "create" => i = 1 /\ queue[i].size = Size
      BY DEF QueueInv
    <3>2. queue[i].kind = "create" => \A j \in 1 .. Len(queue') : queue'[j].kind # "create"
      BY <2>1, <3>1 DEF QueueInv
    <3> QED
      BY <3>1, <3>2 DEF In
  <2>5. In(queue, "delete") => Len(queue') = 0 /\ \A k : ~In(queue', k)
    <3>1. In(queue, "delete") => Len(queue) = 1
      BY DEF QueueInv, Queued
    <3>2. Len(queue) = 1 => Len(queue') = 0
      BY SMT, <2>2
    <3>3. Len(queue') = 0 => \A k : ~In(queue', k)
      BY InEmpty
    <3> QED
      BY <3>1, <3>2, <3>3
  <2>6. queue[i].kind \in Kinds
    BY SMT, <2>1 DEF Tasks
  <2>7. \A k : In(queue', k) => In(queue, k)
    BY <2>1
  <2>8. limit' > 0
    BY SMT, <2>1, <2>4 DEF QueueInv, Succeeded
  <2>9. CASE UNCHANGED <<share, limit>>
    BY <2>2, <2>3, <2>5, <2>7, <2>8, <2>9 DEF QueueInv, Queued
  <2>10. CASE queue[i].kind = "create" /\ Succeeded(queue[i])
    BY <2>2, <2>3, <2>4, <2>5, <2>7, <2>8, <2>10 DEF QueueInv, Queued, Succeeded
  <2>11. CASE queue[i].kind = "delete" /\ Succeeded(queue[i])
    BY <2>1, <2>2, <2>3, <2>5, <2>8, <2>11 DEF QueueInv, Queued, Succeeded
  <2>12. CASE queue[i].kind = "resize" /\ Succeeded(queue[i])
    BY <2>1, <2>2, <2>3, <2>5, <2>7, <2>8, <2>12 DEF QueueInv, Queued, Succeeded
  <2> QED
    BY <2>1, <2>6, <2>9, <2>10, <2>11, <2>12 DEF Kinds
<1>23. CASE Purge
  BY <1>23 DEF Purge, QueueInv, TypeNums, TypeRest, Queued
<1>24. CASE UNCHANGED vars
  BY <1>24 DEF QueueInv, TypeNums, TypeRest, vars, Queued, coVars, anvilVars
<1> QED
  BY <1>1, <1>2, <1>3, <1>4, <1>5, <1>6, <1>7, <1>8, <1>9, <1>10, <1>11, <1>12,
     <1>13, <1>14, <1>15, <1>16, <1>17, <1>18, <1>19, <1>20, <1>21, <1>23, <1>24
     DEF Next, Handler

\* What a call leaves behind is remembered.
LEMMA LeftStep ==
    ASSUME TypeFlags, TypeNums, TypeRest, PhaseInv, QueueInv, LeftInv, [Next]_vars PROVE LeftInv'
<1> USE SizeAssumption, InQueue
<1>1. CASE CreateVolume
  BY <1>1 DEF CreateVolume, LeftInv, TypeNums, TypeRest, CallsOnly, Queued, anvilVars,
     lostVars
<1>2. CASE ControllerExpandVolume
  BY <1>2 DEF ControllerExpandVolume, LeftInv, TypeNums, TypeRest, CallsOnly, Queued,
     anvilVars, lostVars
<1>3. CASE DeleteWanted
  BY <1>3 DEF DeleteWanted, LeftInv, TypeNums, TypeRest, CallsOnly, Queued, anvilVars,
     lostVars
<1>4. CASE DeleteVolume
  BY <1>4 DEF DeleteVolume, LeftInv, TypeNums, TypeRest, coVars, CallsOnly, Queued,
     anvilVars, lostVars
<1>5. CASE TakeSnapshot
  BY <1>5 DEF TakeSnapshot, LeftInv, PhaseInv, TypeNums, TypeRest, CallsOnly, Queued,
     ExpandSteps, anvilVars, lostVars
<1>6. CASE DropSnapshot
  BY <1>6 DEF DropSnapshot, LeftInv, TypeNums, TypeRest, CallsOnly, Queued, anvilVars,
     lostVars
<1>7. CASE CreateGetShare
  BY <1>7 DEF CreateGetShare, LeftInv, PhaseInv, TypeNums, TypeRest, Go,
     lostVars, Fail, Created, anvilVars, Queued, DeleteSteps, coVars, Forget
<1>8. CASE CreateShare
  <2>1. CASE queue' = queue
    BY <1>8, <2>1 DEF CreateShare, LeftInv, PhaseInv, TypeNums, TypeRest, Queued,
       Go, lostVars, Fail, DeleteSteps, coVars, Forget
  <2>2. CASE queue' = Append(queue, Task("create", want))
    <3>1. Task("create", want) \in Tasks /\ Task("create", want).kind = "create"
      BY SMT, SizeAssumption DEF Task, Tasks, Kinds, TypeNums
    <3> HIDE DEF Tasks
    <3> QED
      BY SMT, <1>8, <2>2, <3>1, Appended DEF CreateShare, LeftInv, QueueInv, TypeNums,
         TypeRest, Queued, Go
  <2> QED
    BY <1>8, <2>1, <2>2 DEF CreateShare, Accept
<1>9. CASE WaitCreate
  BY <1>9 DEF WaitCreate, LeftInv, PhaseInv, TypeNums, TypeRest, Created, Go, lostVars,
     anvilVars, Queued, DeleteSteps
<1>10. CASE JoinCreate
  BY <1>10 DEF JoinCreate, LeftInv, PhaseInv, TypeNums, TypeRest, Created, Fail,
     anvilVars, Queued, DeleteSteps, lostVars, coVars, Forget
<1>11. CASE Cleanup
  <2>1. CASE queue' = queue
    BY <1>11, <2>1 DEF Cleanup, LeftInv, PhaseInv, TypeNums, TypeRest,
       DeleteShare, Fail, Queued, DeleteSteps, Go, lostVars, coVars, Forget
  <2>2. CASE queue' = Append(queue, Task("delete", 0))
    <3>1. Task("delete", 0) \in Tasks /\ Task("delete", 0).kind = "delete"
      BY SMT, SizeAssumption DEF Task, Tasks, Kinds, TypeNums
    <3> HIDE DEF Tasks
    <3> QED
      BY SMT, <1>11, <2>2 DEF Cleanup, LeftInv, PhaseInv, TypeNums, TypeRest, DeleteShare,
         ExpandSteps, DeleteSteps, Go, coVars
  <2> QED
    BY <1>11, <2>1, <2>2 DEF Cleanup, DeleteShare, Accept
<1>12. CASE WaitCleanup
  BY <1>12 DEF WaitCleanup, LeftInv, TypeNums, TypeRest, Queued, Fail, anvilVars,
     ExpandSteps, DeleteSteps, Forget
<1>13. CASE ExpandGetShare
  <2>1. UNCHANGED <<share, queue, phase, snaps, lostTask, lostClean>> /\ pc = "expandGet"
        /\ pc' \in {"idle", "put"}
    BY <1>13 DEF ExpandGetShare, Fail, Go, Expanded, lostVars, anvilVars, CreateSteps, coVars
  <2> QED
    BY <2>1 DEF LeftInv, Queued
<1>14. CASE UpdateShareSize
  <2>1. CASE queue' = queue
    BY SMT, <1>14, <2>1 DEF UpdateShareSize, LeftInv, TypeNums, TypeRest, Queued, Fail, Go,
       lostVars, Expanded, CreateSteps, coVars
  <2>2. CASE queue' = Append(queue, Task("resize", want))
    <3>1. Task("resize", want) \in Tasks /\ Task("resize", want).kind = "resize"
      BY SMT, SizeAssumption DEF Task, Tasks, Kinds, TypeNums
    <3> HIDE DEF Tasks
    <3> QED
      BY SMT, <1>14, <2>2, <3>1, Appended DEF UpdateShareSize, LeftInv, TypeNums, TypeRest,
         Queued, Go, lostVars, Expanded, coVars
  <2> QED
    BY <1>14, <2>1, <2>2 DEF UpdateShareSize, Accept
<1>15. CASE WaitResize
  BY SMT, <1>15 DEF WaitResize, LeftInv, TypeNums, TypeRest, Expanded, lostVars, Fail,
     anvilVars, Queued, CreateSteps, coVars
<1>16. CASE DeleteGetShare
  BY <1>16 DEF DeleteGetShare, LeftInv, TypeNums, TypeRest, Deleted, Go, lostVars,
     anvilVars, Queued, coVars
<1>17. CASE GetShareSnapshots
  BY <1>17 DEF GetShareSnapshots, LeftInv, TypeNums, TypeRest, Fail, Go, lostVars,
     anvilVars, Queued, CreateSteps, coVars
<1>18. CASE DeleteBackingShare
  <2>1. CASE queue' = queue
    BY SMT, <1>18, <2>1 DEF DeleteBackingShare, LeftInv, TypeNums, TypeRest, DeleteShare,
       Deleted, Fail, Queued, CreateSteps, Go, lostVars, coVars
  <2>2. CASE queue' = Append(queue, Task("delete", 0))
    <3>1. Task("delete", 0) \in Tasks /\ Task("delete", 0).kind = "delete"
      BY SMT, SizeAssumption DEF Task, Tasks, Kinds, TypeNums
    <3> HIDE DEF Tasks
    <3> QED
      BY SMT, <1>18, <2>2 DEF DeleteBackingShare, LeftInv, PhaseInv, TypeNums, TypeRest,
         DeleteShare, DeleteSteps, Go, coVars
  <2> QED
    BY <1>18, <2>1, <2>2 DEF DeleteBackingShare, DeleteShare, Accept
<1>19. CASE WaitForShareDelete
  BY SMT, <1>19 DEF WaitForShareDelete, LeftInv, TypeNums, TypeRest, Deleted, Fail,
     anvilVars, Queued, CreateSteps, lostVars, coVars
<1>20. CASE CutOff
  BY <1>20 DEF CutOff, LeftInv, TypeNums, TypeRest, Fail, anvilVars, Queued,
     ExpandSteps, DeleteSteps, coVars, Forget, lostVars
<1>21. CASE TaskDone \/ TaskFails
  <2>1. /\ \A k : In(queue', k) => In(queue, k)
        /\ share' = "unfinished" => share = "unfinished"
    BY <1>21, Ended DEF Succeeded
  <2> QED
    <3>1. UNCHANGED <<phase, snaps, pc, lostTask, lostClean>>
      BY <1>21, Ended DEF AnvilOnly, coVars, lostVars
    <3> QED
      BY <2>1, <3>1 DEF LeftInv, Queued
<1>23. CASE Purge
  BY <1>23 DEF Purge, LeftInv, TypeNums, TypeRest, AnvilOnly, Queued, coVars, lostVars
<1>24. CASE UNCHANGED vars
  BY <1>24 DEF LeftInv, TypeNums, TypeRest, vars, Queued, coVars, anvilVars, lostVars
<1> QED
  BY <1>1, <1>2, <1>3, <1>4, <1>5, <1>6, <1>7, <1>8, <1>9, <1>10, <1>11, <1>12,
     <1>13, <1>14, <1>15, <1>16, <1>17, <1>18, <1>19, <1>20, <1>21, <1>23, <1>24
     DEF Next, Handler

\* A handler sees what its task did.
LEMMA WaitStep ==
    ASSUME TypeFlags, TypeNums, TypeRest, PhaseInv, QueueInv, LeftInv, WaitInv, [Next]_vars PROVE WaitInv'
<1> USE SizeAssumption, InQueue, NotBoth
<1>1. CASE CreateVolume
  BY <1>1 DEF CreateVolume, WaitInv, TypeNums, TypeRest
<1>2. CASE ControllerExpandVolume
  BY <1>2 DEF ControllerExpandVolume, WaitInv, TypeNums, TypeRest
<1>3. CASE DeleteWanted
  BY <1>3 DEF DeleteWanted, WaitInv, TypeNums, TypeRest
<1>4. CASE DeleteVolume
  BY <1>4 DEF DeleteVolume, WaitInv, TypeNums, TypeRest
<1>5. CASE TakeSnapshot
  BY <1>5 DEF TakeSnapshot, WaitInv, TypeNums, TypeRest, CallsOnly, Queued, Completed,
     anvilVars
<1>6. CASE DropSnapshot
  BY <1>6 DEF DropSnapshot, WaitInv, TypeNums, TypeRest, CallsOnly, Queued, Completed,
     anvilVars
<1>7. CASE CreateGetShare
  BY <1>7 DEF CreateGetShare, WaitInv, TypeNums, TypeRest, Go, Fail, Created
<1>8. CASE CreateShare
  <2>1. CASE queue' = queue
    BY SMT, <1>8, <2>1 DEF CreateShare, WaitInv, TypeNums, TypeRest, Queued, Accept, Go,
       Fail, Completed
  <2>2. CASE queue' = Append(queue, Task("create", want))
    <3>1. Task("create", want) \in Tasks /\ Task("create", want).kind = "create"
      BY SMT, SizeAssumption DEF Task, Tasks, Kinds, TypeNums
    <3> HIDE DEF Tasks
    <3>2. queue' # queue
      BY SMT, <2>2, <3>1, Appended DEF TypeRest
    <3>3. share = "none" /\ pc' \in {"waitCreate", "cleanup"}
      BY <1>8, <3>2 DEF CreateShare, Go
    <3>4. Queued("create")' /\ ~Queued("delete")'
      BY <2>2, <3>1, <3>3, Appended DEF Queued, QueueInv
    <3> QED
      BY <3>3, <3>4 DEF WaitInv, Completed
  <2> QED
    BY <1>8, <2>1, <2>2 DEF CreateShare, Accept
<1>9. CASE WaitCreate
  BY <1>9 DEF WaitCreate, WaitInv, TypeNums, TypeRest, Created, Go
<1>10. CASE JoinCreate
  BY <1>10 DEF JoinCreate, WaitInv, TypeNums, TypeRest, Created, Fail
<1>11. CASE Cleanup
  <2>1. CASE queue' = queue
    BY <1>11 DEF Cleanup, WaitInv, TypeNums, TypeRest, DeleteShare, Fail, Go
  <2>2. CASE queue' = Append(queue, Task("delete", 0))
    <3>1. Task("delete", 0) \in Tasks /\ Task("delete", 0).kind = "delete"
      BY SMT, SizeAssumption DEF Task, Tasks, Kinds, TypeNums
    <3> HIDE DEF Tasks
    <3> QED
      BY <1>11 DEF Cleanup, WaitInv, TypeNums, TypeRest, DeleteShare, Fail, Go
  <2> QED
    BY <1>11, <2>1, <2>2 DEF Cleanup, DeleteShare, Accept
<1>12. CASE WaitCleanup
  BY <1>12 DEF WaitCleanup, WaitInv, TypeNums, TypeRest, Fail
<1>13. CASE ExpandGetShare
  BY <1>13 DEF ExpandGetShare, WaitInv, TypeNums, TypeRest, Fail, Go, Expanded
<1>14. CASE UpdateShareSize
  <2>1. CASE queue' = queue
    BY <1>14 DEF UpdateShareSize, WaitInv, TypeNums, TypeRest, Fail, Go, Expanded
  <2>2. CASE queue' = Append(queue, Task("resize", want))
    <3>1. Task("resize", want) \in Tasks /\ Task("resize", want).kind = "resize"
      BY SMT, SizeAssumption DEF Task, Tasks, Kinds, TypeNums
    <3> HIDE DEF Tasks
    <3> QED
      BY SMT, <1>14, <2>2 DEF UpdateShareSize, WaitInv, TypeNums, TypeRest, Go, Expanded
  <2> QED
    BY <1>14, <2>1, <2>2 DEF UpdateShareSize, Accept
<1>15. CASE WaitResize
  BY <1>15 DEF WaitResize, WaitInv, TypeNums, TypeRest, Expanded, Fail
<1>16. CASE DeleteGetShare
  BY <1>16 DEF DeleteGetShare, WaitInv, TypeNums, TypeRest, Deleted, Go
<1>17. CASE GetShareSnapshots
  BY <1>17 DEF GetShareSnapshots, WaitInv, TypeNums, TypeRest, Fail, Go
<1>18. CASE DeleteBackingShare
  <2>1. CASE queue' = queue
    BY SMT, <1>18, <2>1 DEF DeleteBackingShare, WaitInv, TypeNums, TypeRest, DeleteShare,
       Deleted, Fail, Accept, Queued, Completed, Go
  <2>2. CASE queue' = Append(queue, Task("delete", 0))
    <3>1. Task("delete", 0) \in Tasks /\ Task("delete", 0).kind = "delete"
      BY SMT, SizeAssumption DEF Task, Tasks, Kinds, TypeNums
    <3> HIDE DEF Tasks
    <3> QED
      BY SMT, <1>18, <2>2, <3>1, Appended DEF DeleteBackingShare, WaitInv, TypeNums,
         TypeRest, DeleteShare, Queued, Completed, Go
  <2> QED
    BY <1>18, <2>1, <2>2 DEF DeleteBackingShare, DeleteShare, Accept
<1>19. CASE WaitForShareDelete
  BY <1>19 DEF WaitForShareDelete, WaitInv, TypeNums, TypeRest, Deleted, Fail
<1>20. CASE CutOff
  BY <1>20 DEF CutOff, WaitInv, TypeNums, TypeRest, Fail
<1>21. CASE TaskDone \/ TaskFails
  <2>1. PICK i \in 1 .. Len(queue) :
           /\ queue[i] \in Tasks /\ Queued(queue[i].kind)
           /\ \/ Succeeded(queue[i]) /\ Ends(i, "COMPLETED")
              \/ Ends(i, "FAILED") /\ UNCHANGED <<share, limit>>
           /\ \A k : In(queue, k) <=> queue[i].kind = k \/ In(queue', k)
    BY <1>21, Ended
  <2>2. AnvilOnly
    BY <1>21, Ended
  <2>3. queue[i].kind \in Kinds
    BY SMT, <2>1 DEF Tasks
  <2>4. outcome' = outcome \/ outcome' = [outcome EXCEPT ![queue[i].kind] = "COMPLETED"]
                        \/ outcome' = [outcome EXCEPT ![queue[i].kind] = "FAILED"]
    BY <2>1 DEF Ends
  <2>5. queue[i].kind = "create" => queue[i].size = Size
    BY DEF QueueInv
  <2>6. pc \in {"waitCreate", "joinCreate"} => phase = "creating" /\ want = Size /\ ~Queued("resize") /\ ~Queued("delete")
    BY DEF PhaseInv, CreateSteps, QueueInv, WaitInv
  <2>7. pc \in {"waitCreate", "joinCreate"} => queue[i].kind = "create"
    BY <2>1, <2>3, <2>6 DEF Kinds
  <2>8. pc' \in {"waitCreate", "joinCreate"} => ~Queued("delete")'
    BY <2>1, <2>2, <2>6 DEF AnvilOnly, Queued
  <2>9. pc' \in {"waitCreate", "joinCreate"} /\ Completed("create")' => share' = "live" /\ limit' = want'
    <3> SUFFICES ASSUME pc \in {"waitCreate", "joinCreate"}, outcome'["create"] = "COMPLETED"
                 PROVE  share' = "live" /\ limit' = want
      BY <2>2 DEF AnvilOnly, coVars, Completed
    <3>1. queue[i].kind = "create" /\ queue[i].size = want
      BY <2>5, <2>6, <2>7
    <3>2. Ends(i, "FAILED") => outcome'["create"] = "FAILED"
      BY SMT, <3>1 DEF Ends, TypeRest, Kinds
    <3> QED
      BY <2>1, <3>1, <3>2 DEF Succeeded
  <2>10. pc' = "waitDelete" /\ Completed("delete")' => share' \in {"none", "removed"}
    <3> SUFFICES ASSUME pc = "waitDelete", outcome'["delete"] = "COMPLETED", ~In(queue', "delete")
                 PROVE  share' \in {"none", "removed"}
      BY <2>2 DEF AnvilOnly, Completed, Queued
    <3>1. CASE queue[i].kind = "delete"
      <4>1. Ends(i, "FAILED") => outcome'["delete"] = "FAILED"
        BY SMT, <3>1 DEF Ends, TypeRest, Kinds
      <4> QED
        BY <2>1, <3>1, <4>1 DEF Succeeded
    <3>2. CASE queue[i].kind # "delete"
      <4>1. ~Queued("delete")
        BY <2>1, <3>2 DEF Queued
      <4>2. outcome["delete"] = "COMPLETED"
        BY SMT, <2>3, <2>4, <3>2 DEF TypeRest, Kinds
      <4>3. share \in {"none", "removed"}
        BY <4>1, <4>2 DEF WaitInv, Completed
      <4>4. queue[i].kind = "create" => share = "unfinished"
        BY <2>1 DEF PhaseInv, DeleteSteps, QueueInv
      <4> QED
        BY <2>1, <2>3, <3>2, <4>3, <4>4 DEF Succeeded, Kinds
    <3> QED
      BY <3>1, <3>2
  <2> QED
    BY <2>8, <2>9, <2>10 DEF WaitInv
<1>23. CASE Purge
  BY <1>23 DEF Purge, WaitInv, TypeNums, TypeRest, AnvilOnly, Queued, Completed
<1>24. CASE UNCHANGED vars
  BY <1>24 DEF WaitInv, TypeNums, TypeRest, vars, Queued, Completed, coVars, anvilVars
<1> QED
  BY <1>1, <1>2, <1>3, <1>4, <1>5, <1>6, <1>7, <1>8, <1>9, <1>10, <1>11, <1>12,
     <1>13, <1>14, <1>15, <1>16, <1>17, <1>18, <1>19, <1>20, <1>21, <1>23, <1>24
     DEF Next, Handler

\* Whichever resize is done last, the limit is enough.
LEMMA SizeStep ==
    ASSUME TypeFlags, TypeNums, TypeRest, PhaseInv, QueueInv, LeftInv, WaitInv, SizeInv, [Next]_vars PROVE SizeInv'
<1> USE SizeAssumption, InQueue
<1>1. CASE CreateVolume
  BY <1>1 DEF CreateVolume, SizeInv, TypeFlags, TypeNums, TypeRest, coVars
<1>2. CASE ControllerExpandVolume
  <2>1. acked < want' /\ acked <= want'
    BY SMT, <1>2 DEF ControllerExpandVolume, TypeNums
  <2> QED
    BY <1>2, <2>1 DEF ControllerExpandVolume, SizeInv, CallsOnly, anvilVars, lostVars, Undercut,
       Queued
<1>3. CASE DeleteWanted
  BY <1>3 DEF DeleteWanted, SizeInv, TypeFlags, TypeNums, TypeRest
<1>4. CASE DeleteVolume
  BY <1>4 DEF DeleteVolume, SizeInv, TypeFlags, TypeNums, TypeRest, coVars
<1>5. CASE TakeSnapshot
  BY <1>5 DEF TakeSnapshot, SizeInv, TypeFlags, TypeNums, TypeRest, CallsOnly, Undercut,
     Queued, Completed, anvilVars, lostVars
<1>6. CASE DropSnapshot
  BY <1>6 DEF DropSnapshot, SizeInv, TypeFlags, TypeNums, TypeRest, CallsOnly, Undercut,
     Queued, Completed, anvilVars, lostVars
<1>7. CASE CreateGetShare
  <2> SUFFICES ASSUME phase' = "created", ~Undercut' PROVE SizeInv'
    BY DEF SizeInv
  <2>1. phase = "creating" /\ pc = "createGet" /\ want = Size
    BY <1>7 DEF CreateGetShare, PhaseInv, CreateSteps
  <2>2. Created /\ limit = want /\ share \notin {"none", "removed"} /\ UNCHANGED anvilVars
    BY <1>7, <2>1 DEF CreateGetShare, Go, Fail, coVars
  <2>3. ~lostClean /\ ~(lists /\ lostTask)
    BY <2>2 DEF Created, Undercut, lostVars, anvilVars
  <2>4. ~Queued("delete") /\ ~Queued("create") /\ ~Queued("resize") /\ share = "live"
    <3>1. share # "unfinished"
      BY <2>1, <2>3 DEF LeftInv, QueueInv
    <3>2. share = "live"
      BY <2>2, <3>1 DEF TypeRest
    <3> QED
      BY <2>1, <2>3, <3>2 DEF LeftInv, QueueInv
  <2>5. \A i \in 1 .. Len(queue) : FALSE
    <3>1. queue = <<>>
      BY <2>4, InQueue DEF Queued, Kinds
    <3> QED
      BY SMT, <3>1
  <2>6. acked' = want' /\ acked' = limit' /\ pc' = "idle" /\ UNCHANGED <<share, queue>>
    BY <2>2 DEF Created, anvilVars
  <2>7. acked' <= want' /\ acked' <= limit'
    BY SMT, <2>2, <2>6 DEF TypeNums, Created
  <2> QED
    BY <2>4, <2>5, <2>6, <2>7 DEF SizeInv, Queued, ExpandSteps
<1>8. CASE CreateShare
  <2>1. phase = "creating"
    BY <1>8 DEF CreateShare, PhaseInv, CreateSteps
  <2>2. phase' = phase
    BY <1>8 DEF CreateShare, Go, Fail, coVars
  <2> QED
    BY <2>1, <2>2 DEF SizeInv
<1>9. CASE WaitCreate
  BY SMT, <1>9 DEF WaitCreate, SizeInv, WaitInv, QueueInv, PhaseInv, TypeFlags, TypeNums,
     TypeRest, Created, Go, anvilVars, Queued, ExpandSteps, DeleteSteps, Kinds, coVars
<1>10. CASE JoinCreate
  BY SMT, <1>10 DEF JoinCreate, SizeInv, WaitInv, QueueInv, PhaseInv, TypeFlags, TypeNums,
     TypeRest, Created, Fail, anvilVars, Queued, ExpandSteps, DeleteSteps, Kinds, coVars
<1>11. CASE Cleanup
  <2>1. phase = "creating"
    BY <1>11 DEF Cleanup, PhaseInv, CreateSteps
  <2>2. phase' = phase
    BY <1>11 DEF Cleanup, DeleteShare, Go, Fail, coVars
  <2> QED
    BY <2>1, <2>2 DEF SizeInv
<1>12. CASE WaitCleanup
  <2>1. phase = "creating"
    BY <1>12 DEF WaitCleanup, PhaseInv, CreateSteps
  <2>2. phase' = phase
    BY <1>12 DEF WaitCleanup, Fail, coVars
  <2> QED
    BY <2>1, <2>2 DEF SizeInv
<1>13. CASE ExpandGetShare
  <2>1. \A i \in 1 .. Len(queue) : queue[i].size \in Nat /\ queue[i].kind \in Kinds
    BY SMT DEF TypeRest, Tasks
  <2>2. ~Smaller => \A i \in 1 .. Len(queue) : queue[i].kind = "resize" => want <= queue[i].size
    BY SMT, <2>1 DEF Smaller, TypeNums
  <2>3. UNCHANGED <<share, limit, queue, outcome, phase, want, blind, lists, lostTask, lostClean>>
    BY <1>13 DEF ExpandGetShare, Go, Fail, Expanded, coVars, lostVars, anvilVars, CreateSteps
  <2>4. \/ pc' = "idle" /\ UNCHANGED <<acked, crossed>>
        \/ pc' = "put" /\ UNCHANGED <<acked, crossed>>
        \/ pc' = "idle" /\ acked' = want /\ crossed' = Smaller /\ want <= limit
    <3>1. \A n \in 0 .. limit : n >= want => want <= limit
      BY SMT DEF TypeNums
    <3> QED
      BY <1>13, <3>1 DEF ExpandGetShare, Go, Fail, Expanded, coVars, lostVars, CreateSteps
  <2>5. pc \in ExpandSteps /\ pc # "waitResize" /\ want <= want
    BY SMT, <1>13 DEF ExpandGetShare, ExpandSteps, TypeNums
  <2> QED
    BY <2>1, <2>2, <2>3, <2>4, <2>5 DEF SizeInv, Undercut, Queued, ExpandSteps, Kinds
<1>14. CASE UpdateShareSize
  <2> SUFFICES ASSUME phase' = "created", ~Undercut' PROVE SizeInv'
    BY DEF SizeInv
  <2>1. UNCHANGED <<share, limit, phase, want, lists, lostTask, lostClean>> /\ pc = "put"
    BY <1>14 DEF UpdateShareSize, Go, Fail, Expanded, coVars, lostVars, CreateSteps
  <2>2. /\ share = "live" /\ ~Queued("delete") /\ ~Queued("create") /\ acked < want
        /\ ~crossed => (\A i \in 1 .. Len(queue) : acked <= queue[i].size) /\ (~blind => acked <= limit)
    BY <2>1 DEF SizeInv, Undercut, ExpandSteps
  <2>3. /\ queue' = Append(queue, Task("resize", want))
        /\ crossed' = (crossed \/ Smaller)
        /\ \/ pc' = "waitResize" /\ outcome' = [outcome EXCEPT !["resize"] = "RUNNING"]
              /\ UNCHANGED <<acked, blind>>
           \/ pc' = "idle" /\ acked' = want /\ blind'
    BY SMT, <1>14, <2>2 DEF UpdateShareSize, Accept, Go, Expanded, coVars
  <2>4. Task("resize", want) \in Tasks /\ Task("resize", want).kind = "resize"
        /\ Task("resize", want).size = want
    BY SMT DEF Task, Tasks, Kinds, TypeNums
  <2>5. /\ Len(queue') = Len(queue) + 1 /\ Len(queue) \in Nat
        /\ \A i \in 1 .. Len(queue) : queue'[i] = queue[i]
        /\ queue'[Len(queue')] = Task("resize", want)
        /\ \A k : In(queue', k) <=> In(queue, k) \/ k = "resize"
    BY <2>3, <2>4, Appended
  <2>6. \A i \in 1 .. Len(queue') : i \in 1 .. Len(queue) \/ i = Len(queue')
    BY SMT, <2>5
  <2>7. \A i \in 1 .. Len(queue) : queue[i].size \in Nat /\ queue[i].kind = "resize"
    <3>1. \A i \in 1 .. Len(queue) : queue[i].size \in Nat /\ queue[i].kind \in Kinds
      BY SMT DEF TypeRest, Tasks
    <3> QED
      BY <2>2, <3>1 DEF Queued, In, Kinds
  <2>8. ~crossed' => \A i \in 1 .. Len(queue) : want <= queue[i].size
    <3>1. ~crossed' => ~Smaller
      BY <2>3
    <3> QED
      BY SMT, <2>7, <3>1 DEF Smaller, TypeNums
  <2>9. ~crossed' => \A i \in 1 .. Len(queue') : want <= queue'[i].size
    <3>1. want <= want
      BY SMT DEF TypeNums
    <3> QED
      BY <2>4, <2>5, <2>6, <2>8, <3>1
  <2>10. acked' <= want /\ (pc' \in ExpandSteps => acked' < want)
    BY SMT, <2>2, <2>3 DEF TypeNums, ExpandSteps
  <2>11. ~crossed' => \A i \in 1 .. Len(queue') : acked' <= queue'[i].size
    <3>1. \A n \in Nat : want <= n => acked' <= n
      BY SMT, <2>2, <2>3 DEF TypeNums
    <3>2. \A i \in 1 .. Len(queue') : queue'[i].size \in Nat
      <4>1. want \in Nat
        BY SMT DEF TypeNums
      <4> QED
        BY <2>4, <2>5, <2>6, <2>7, <4>1
    <3> QED
      BY <2>9, <3>1, <3>2
  <2>12. ~crossed' /\ ~blind' => acked' <= limit'
    BY <2>1, <2>2, <2>3
  <2>13. pc' = "waitResize" => outcome'["resize"] = "RUNNING"
    BY SMT, <2>3 DEF TypeRest, Kinds
  <2>14. ~Queued("delete")' /\ ~Queued("create")'
    BY <2>2, <2>5 DEF Queued
  <2> QED
    BY <2>1, <2>2, <2>9, <2>10, <2>11, <2>12, <2>13, <2>14 DEF SizeInv
<1>15. CASE WaitResize
  <2> SUFFICES ASSUME phase' = "created", ~Undercut' PROVE SizeInv'
    BY DEF SizeInv
  <2>1. UNCHANGED <<share, limit, queue, phase, want, blind, lists, lostTask, lostClean>> /\ pc = "waitResize"
    BY <1>15 DEF WaitResize, Fail, Expanded, coVars, lostVars, anvilVars, CreateSteps
  <2>2. \/ pc' = "idle" /\ UNCHANGED <<acked, crossed>>
        \/ /\ pc' = "idle" /\ acked' = want /\ outcome["resize"] = "COMPLETED"
           /\ crossed' = (crossed /\ (limit < want \/ Smaller))
    BY <1>15 DEF WaitResize, Fail, Expanded, coVars, lostVars, CreateSteps
  <2>3. /\ share = "live" /\ ~Queued("delete") /\ ~Queued("create") /\ acked <= want
        /\ ~crossed => /\ \A i \in 1 .. Len(queue) : acked <= queue[i].size /\ want <= queue[i].size
                       /\ ~blind => acked <= limit
                       /\ outcome["resize"] = "COMPLETED" => want <= limit
    BY <2>1 DEF SizeInv, Undercut
  <2>4. \A i \in 1 .. Len(queue) : queue[i].size \in Nat /\ queue[i].kind = "resize"
    <3>1. \A i \in 1 .. Len(queue) : queue[i].size \in Nat /\ queue[i].kind \in Kinds
      BY SMT DEF TypeRest, Tasks
    <3> QED
      BY <2>3, <3>1 DEF Queued, In, Kinds
  <2>5. ~Smaller => \A i \in 1 .. Len(queue) : want <= queue[i].size
    BY SMT, <2>4 DEF Smaller, TypeNums
  <2>6. ~(limit < want) => want <= limit
    BY SMT DEF TypeNums
  <2>7. want <= want /\ acked' <= want'
    BY SMT, <2>1, <2>2, <2>3 DEF TypeNums
  <2>8. ~crossed' => /\ \A i \in 1 .. Len(queue') : acked' <= queue'[i].size
                     /\ ~blind' => acked' <= limit'
    BY <2>1, <2>2, <2>3, <2>5, <2>6
  <2>9. pc' \notin ExpandSteps
    BY <2>2 DEF ExpandSteps
  <2> QED
    BY <2>1, <2>2, <2>3, <2>7, <2>8, <2>9 DEF SizeInv, Queued
<1>16. CASE DeleteGetShare \/ GetShareSnapshots \/ DeleteBackingShare \/ WaitForShareDelete
  <2>1. phase = "deleting"
    BY <1>16 DEF DeleteGetShare, GetShareSnapshots, DeleteBackingShare, WaitForShareDelete,
       PhaseInv, DeleteSteps
  <2>2. phase' \in {phase, "deleted"}
    BY <1>16 DEF DeleteGetShare, GetShareSnapshots, DeleteBackingShare, WaitForShareDelete,
       DeleteShare, Deleted, Go, Fail, coVars
  <2> QED
    BY <2>1, <2>2 DEF SizeInv
<1>20. CASE CutOff
  <2>1. UNCHANGED <<lists, share, limit, queue, coVars, blind, crossed>> /\ pc' = "idle"
    BY <1>20 DEF CutOff, Fail, Forget, anvilVars, lostVars
  <2>2. Undercut => Undercut'
    BY <1>20 DEF CutOff, Fail, Forget, anvilVars, lostVars, Undercut
  <2> QED
    BY <2>1, <2>2 DEF SizeInv, Queued, ExpandSteps, coVars
<1>21. CASE TaskDone \/ TaskFails
  <2>1. PICK i \in 1 .. Len(queue) :
           /\ queue[i] \in Tasks /\ Queued(queue[i].kind)
           /\ \/ Succeeded(queue[i]) /\ Ends(i, "COMPLETED")
              \/ Ends(i, "FAILED") /\ UNCHANGED <<share, limit>>
           /\ \A j \in 1 .. Len(queue') : \E n \in 1 .. Len(queue) :
                 n # i /\ (n = 1 => j = 1) /\ queue'[j] = queue[n]
           /\ \A k : In(queue, k) <=> queue[i].kind = k \/ In(queue', k)
    BY <1>21, Ended
  <2>2. UNCHANGED <<phase, pc, want, acked, lists, lostTask, lostClean, blind, crossed>>
    BY <1>21, Ended DEF AnvilOnly, coVars, lostVars
  <2> SUFFICES ASSUME phase = "created", ~Undercut PROVE SizeInv'
    BY <2>2 DEF SizeInv, Undercut
  <2>3. /\ share = "live" /\ ~Queued("delete") /\ ~Queued("create") /\ acked <= want
        /\ pc \in ExpandSteps => acked < want
        /\ ~crossed =>
              /\ \A j \in 1 .. Len(queue) : acked <= queue[j].size
              /\ ~blind => acked <= limit
              /\ pc = "waitResize" => \A j \in 1 .. Len(queue) : want <= queue[j].size
              /\ pc = "waitResize" /\ outcome["resize"] = "COMPLETED" => want <= limit
    BY DEF SizeInv
  <2>4. queue[i].kind = "resize"
    <3>1. queue[i].kind \in Kinds
      BY SMT, <2>1 DEF Tasks
    <3> QED
      BY <2>1, <2>3, <3>1 DEF Kinds
  <2>5. share' = "live" /\ limit' \in {limit, queue[i].size}
    BY <2>1, <2>3, <2>4 DEF Succeeded
  <2>6. /\ ~Queued("delete")' /\ ~Queued("create")'
        /\ ~crossed => /\ \A j \in 1 .. Len(queue') : acked <= queue'[j].size
                       /\ ~blind => acked <= limit'
                       /\ pc = "waitResize" => \A j \in 1 .. Len(queue') : want <= queue'[j].size
    BY <2>1, <2>3, <2>5 DEF Queued
  <2>7. ~crossed /\ pc = "waitResize" /\ outcome'["resize"] = "COMPLETED" => want <= limit'
    <3>1. Ends(i, "FAILED") => outcome' = outcome \/ outcome'["resize"] = "FAILED"
      BY SMT, <2>4 DEF Ends, TypeRest, Kinds
    <3>2. Succeeded(queue[i]) => limit' = queue[i].size
      BY <2>3, <2>4 DEF Succeeded
    <3> QED
      BY <2>1, <2>3, <3>1, <3>2
  <2> QED
    BY <2>2, <2>3, <2>5, <2>6, <2>7 DEF SizeInv
<1>23. CASE Purge
  BY <1>23 DEF Purge, SizeInv, TypeFlags, TypeNums, TypeRest, AnvilOnly, Undercut,
     coVars, lostVars
<1>24. CASE UNCHANGED vars
  BY <1>24 DEF SizeInv, TypeFlags, TypeNums, TypeRest, vars, Undercut, Queued,
     Completed, coVars, anvilVars, lostVars
<1> QED
  BY <1>1, <1>2, <1>3, <1>4, <1>5, <1>6, <1>7, <1>8, <1>9, <1>10, <1>11, <1>12,
     <1>13, <1>14, <1>15, <1>16, <1>20, <1>21, <1>23, <1>24 DEF Next, Handler

\* A deleted volume stays deleted.
LEMMA DeletedStep ==
    ASSUME TypeFlags, TypeNums, TypeRest, PhaseInv, QueueInv, WaitInv, DeletedIsGone, [Next]_vars PROVE DeletedIsGone'
<1> USE SizeAssumption, InQueue
<1>1. CASE CreateVolume
  BY <1>1 DEF CreateVolume, DeletedIsGone, TypeNums, TypeRest, coVars
<1>2. CASE ControllerExpandVolume
  BY <1>2 DEF ControllerExpandVolume, DeletedIsGone, TypeNums, TypeRest
<1>3. CASE DeleteWanted
  BY <1>3 DEF DeleteWanted, DeletedIsGone, TypeNums, TypeRest
<1>4. CASE DeleteVolume
  BY <1>4 DEF DeleteVolume, DeletedIsGone, TypeNums, TypeRest, coVars
<1>5. CASE TakeSnapshot
  BY <1>5 DEF TakeSnapshot, DeletedIsGone, TypeNums, TypeRest
<1>6. CASE DropSnapshot
  BY <1>6 DEF DropSnapshot, DeletedIsGone, TypeNums, TypeRest, CallsOnly, Queued,
     anvilVars, lostVars
<1>7. CASE CreateGetShare
  BY <1>7 DEF CreateGetShare, DeletedIsGone, TypeNums, TypeRest, Go, lostVars, Fail,
     Created, anvilVars, Queued, coVars, Forget
<1>8. CASE CreateShare
  <2>1. CASE queue' = queue
    BY SMT, <1>8, <2>1 DEF CreateShare, DeletedIsGone, TypeNums, TypeRest, Queued, Accept,
       Go, lostVars, Fail, coVars, Forget
  <2>2. CASE queue' = Append(queue, Task("create", want))
    <3>1. Task("create", want) \in Tasks /\ Task("create", want).kind = "create"
      BY SMT, SizeAssumption DEF Task, Tasks, Kinds, TypeNums
    <3> HIDE DEF Tasks
    <3> QED
      BY SMT, <1>8, <2>2 DEF CreateShare, DeletedIsGone, PhaseInv, TypeNums, TypeRest, Go,
         coVars
  <2> QED
    BY <1>8, <2>1, <2>2 DEF CreateShare, Accept
<1>9. CASE WaitCreate
  BY <1>9 DEF WaitCreate, DeletedIsGone, TypeNums, TypeRest, Created, Go, lostVars,
     anvilVars, Queued, coVars
<1>10. CASE JoinCreate
  BY <1>10 DEF JoinCreate, DeletedIsGone, TypeNums, TypeRest, Created, Fail, anvilVars,
     Queued, lostVars, coVars, Forget
<1>11. CASE Cleanup
  <2>1. CASE queue' = queue
    BY <1>11 DEF Cleanup, DeletedIsGone, TypeNums, TypeRest, DeleteShare, Fail, Queued,
       Go, lostVars, coVars, Forget
  <2>2. CASE queue' = Append(queue, Task("delete", 0))
    <3>1. Task("delete", 0) \in Tasks /\ Task("delete", 0).kind = "delete"
      BY SMT, SizeAssumption DEF Task, Tasks, Kinds, TypeNums
    <3> HIDE DEF Tasks
    <3> QED
      BY SMT, <1>11, <2>2 DEF Cleanup, DeletedIsGone, TypeNums, TypeRest, DeleteShare, Go,
         lostVars, coVars
  <2> QED
    BY <1>11, <2>1, <2>2 DEF Cleanup, DeleteShare, Accept
<1>12. CASE WaitCleanup
  BY <1>12 DEF WaitCleanup, DeletedIsGone, TypeNums, TypeRest, Queued, Fail, anvilVars,
     coVars, Forget, lostVars
<1>13. CASE ExpandGetShare
  <2>1. UNCHANGED <<share, queue, phase, blind>>
    BY <1>13 DEF ExpandGetShare, Fail, Go, Expanded, lostVars, anvilVars, coVars, Forget
  <2> QED
    BY <2>1 DEF DeletedIsGone, Queued
<1>14. CASE UpdateShareSize
  <2>1. CASE queue' = queue
    BY <1>14 DEF UpdateShareSize, DeletedIsGone, TypeNums, TypeRest, Queued, Fail, Go,
       lostVars, coVars, Forget
  <2>2. CASE queue' = Append(queue, Task("resize", want))
    <3>1. Task("resize", want) \in Tasks /\ Task("resize", want).kind = "resize"
      BY SMT, SizeAssumption DEF Task, Tasks, Kinds, TypeNums
    <3> HIDE DEF Tasks
    <3> QED
      BY SMT, <1>14, <2>2 DEF UpdateShareSize, DeletedIsGone, TypeNums, TypeRest, Go,
         lostVars, coVars
  <2> QED
    BY <1>14, <2>1, <2>2 DEF UpdateShareSize, Accept
<1>15. CASE WaitResize
  BY <1>15 DEF WaitResize, DeletedIsGone, TypeNums, TypeRest, Expanded, lostVars, Fail,
     anvilVars, Queued, coVars, Forget
<1>16. CASE DeleteGetShare
  BY <1>16 DEF DeleteGetShare, DeletedIsGone, QueueInv, PhaseInv, TypeNums, TypeRest,
     Go, anvilVars, Queued, DeleteSteps, coVars
<1>17. CASE GetShareSnapshots
  BY <1>17 DEF GetShareSnapshots, DeletedIsGone, TypeNums, TypeRest, Fail, Go, lostVars,
     anvilVars, Queued, coVars, Forget
<1>18. CASE DeleteBackingShare
  <2>1. CASE queue' = queue
    BY <1>18 DEF DeleteBackingShare, DeletedIsGone, QueueInv, PhaseInv, TypeNums,
       TypeRest, DeleteShare, Fail, Queued, DeleteSteps, Go, coVars
  <2>2. CASE queue' = Append(queue, Task("delete", 0))
    <3>1. Task("delete", 0) \in Tasks /\ Task("delete", 0).kind = "delete"
      BY SMT, SizeAssumption DEF Task, Tasks, Kinds, TypeNums
    <3> HIDE DEF Tasks
    <3> QED
      BY SMT, <1>18, <2>2 DEF DeleteBackingShare, DeletedIsGone, PhaseInv, TypeNums,
         TypeRest, DeleteShare, Go, coVars
  <2> QED
    BY <1>18, <2>1, <2>2 DEF DeleteBackingShare, DeleteShare, Accept
<1>19. CASE WaitForShareDelete
  BY <1>19 DEF WaitForShareDelete, DeletedIsGone, WaitInv, QueueInv, PhaseInv, TypeNums,
     TypeRest, Fail, anvilVars, Queued, DeleteSteps, coVars
<1>20. CASE CutOff
  BY <1>20 DEF CutOff, DeletedIsGone, TypeNums, TypeRest, Fail, anvilVars, Queued,
     coVars, Forget, lostVars
<1>21. CASE TaskDone \/ TaskFails
  <2>1. PICK i \in 1 .. Len(queue) :
           /\ Queued(queue[i].kind)
           /\ Succeeded(queue[i]) \/ UNCHANGED <<share, limit>>
           /\ \A k : In(queue, k) <=> queue[i].kind = k \/ In(queue', k)
    BY <1>21, Ended
  <2> QED
    BY <1>21, <2>1, Ended DEF DeletedIsGone, Succeeded, AnvilOnly, Queued, coVars, lostVars
<1>23. CASE Purge
  BY <1>23 DEF Purge, DeletedIsGone, TypeNums, TypeRest, AnvilOnly, Queued, coVars,
     lostVars
<1>24. CASE UNCHANGED vars
  BY <1>24 DEF DeletedIsGone, TypeNums, TypeRest, vars, Queued, coVars, anvilVars,
     lostVars
<1> QED
  BY <1>1, <1>2, <1>3, <1>4, <1>5, <1>6, <1>7, <1>8, <1>9, <1>10, <1>11, <1>12,
     <1>13, <1>14, <1>15, <1>16, <1>17, <1>18, <1>19, <1>20, <1>21, <1>23, <1>24
     DEF Next, Handler

\* The invariant holds initially.
LEMMA InitInv == Init => IInv
<1> SUFFICES ASSUME Init PROVE IInv
  OBVIOUS
<1>1. TypeFlags
  BY DEF Init, TypeFlags
<1>2. TypeNums
  BY SMT, SizeAssumption, BoundAssumption DEF Init, TypeNums
<1>3. TypeRest
  BY SMT DEF Init, TypeRest
<1>4. \A k : ~In(queue, k)
  BY SMT DEF Init, In
<1>5. \A i \in 1 .. Len(queue) : FALSE
  BY SMT DEF Init
<1>6. PhaseInv
  BY DEF Init, PhaseInv, CreateSteps, ExpandSteps, DeleteSteps
<1>7. QueueInv /\ LeftInv /\ WaitInv /\ SizeInv /\ DeletedIsGone
  BY SMT, <1>4, <1>5 DEF Init, QueueInv, LeftInv, WaitInv, SizeInv, DeletedIsGone, Queued
<1> QED
  BY <1>1, <1>2, <1>3, <1>6, <1>7, TypeParts DEF IInv

\* The invariant is inductive.
LEMMA InvStep == IInv /\ [Next]_vars => IInv'
<1> SUFFICES ASSUME IInv, [Next]_vars PROVE IInv'
  OBVIOUS
<1>1. TypeFlags /\ TypeNums /\ TypeRest
  BY TypeParts DEF IInv
<1>2. TypeFlags' /\ TypeNums' /\ TypeRest'
  BY <1>1, FlagStep, NumStep, RestStep
<1>3. TypeOK'
  BY <1>2 DEF TypeOK, TypeFlags, TypeNums, TypeRest, Tasks
<1>4. PhaseInv' /\ QueueInv' /\ LeftInv' /\ WaitInv' /\ SizeInv' /\ DeletedIsGone'
  BY <1>1, PhaseStep, QueueStep, LeftStep, WaitStep, SizeStep, DeletedStep DEF IInv
<1> QED
  BY <1>3, <1>4 DEF IInv

\* The inductive invariant: what a call in progress, or one that is over, has left on the
\* Anvil.
THEOREM Invariance == Spec => []IInv
BY InitInv, InvStep, PTL DEF Spec

\* Every variable keeps its type, for any number of faults and queued tasks.
THEOREM TypeCorrect == Spec => []TypeOK
BY Invariance, PTL DEF IInv

\* A volume that CreateVolume has reported has its finished share, and its limit covers
\* every capacity that CreateVolume or ControllerExpandVolume has promised, in whatever
\* order the Anvil does the tasks of calls that were given up on, as long as the last
\* expansion found none among them for less than it asked for.
THEOREM CapacityDeliveredHolds == Spec => []CapacityDelivered
<1>1. IInv => CapacityDelivered
  BY DEF IInv, SizeInv, CapacityDelivered
<1> QED
  BY <1>1, Invariance, PTL

\* When DeleteVolume has reported a share deleted it is gone for good: no create task of
\* an earlier call is left that would make it again (deleteShareBackedVolume).
THEOREM DeletedIsGoneHolds == Spec => []DeletedIsGone
BY Invariance, PTL DEF IInv

\* A step that removes a share with snapshots follows a lost cleanup.
KeepShare == (share = "live" /\ share' # "live" /\ snaps => lostClean)

LEMMA KeepStep ==
    ASSUME IInv, [Next]_vars PROVE KeepShare
<1> USE DEF IInv
<1> USE TypeParts
<1>1. CASE CreateVolume
  BY <1>1 DEF CreateVolume, KeepShare, CallsOnly, anvilVars
<1>2. CASE ControllerExpandVolume
  BY <1>2 DEF ControllerExpandVolume, KeepShare, CallsOnly, anvilVars
<1>3. CASE DeleteWanted
  BY <1>3 DEF DeleteWanted, KeepShare, CallsOnly, anvilVars
<1>4. CASE DeleteVolume
  BY <1>4 DEF DeleteVolume, KeepShare, CallsOnly, anvilVars
<1>5. CASE TakeSnapshot
  BY <1>5 DEF TakeSnapshot, KeepShare
<1>6. CASE DropSnapshot
  BY <1>6 DEF DropSnapshot, KeepShare, CallsOnly, anvilVars
<1>7. CASE CreateGetShare
  BY <1>7 DEF CreateGetShare, KeepShare, anvilVars
<1>8. CASE CreateShare
  BY <1>8 DEF CreateShare, KeepShare
<1>9. CASE WaitCreate
  BY <1>9 DEF WaitCreate, KeepShare, anvilVars
<1>10. CASE JoinCreate
  BY <1>10 DEF JoinCreate, KeepShare, anvilVars
<1>11. CASE Cleanup
  BY <1>11 DEF Cleanup, KeepShare, DeleteShare
<1>12. CASE WaitCleanup
  BY <1>12 DEF WaitCleanup, KeepShare, anvilVars
<1>13. CASE ExpandGetShare
  BY <1>13 DEF ExpandGetShare, KeepShare, anvilVars
<1>14. CASE UpdateShareSize
  BY <1>14 DEF UpdateShareSize, KeepShare
<1>15. CASE WaitResize
  BY <1>15 DEF WaitResize, KeepShare, anvilVars
<1>16. CASE DeleteGetShare
  BY <1>16 DEF DeleteGetShare, KeepShare, anvilVars
<1>17. CASE GetShareSnapshots
  BY <1>17 DEF GetShareSnapshots, KeepShare, anvilVars
<1>18. CASE DeleteBackingShare
  BY <1>18 DEF DeleteBackingShare, KeepShare, LeftInv
<1>19. CASE WaitForShareDelete
  BY <1>19 DEF WaitForShareDelete, KeepShare, anvilVars
<1>20. CASE CutOff
  BY <1>20 DEF CutOff, KeepShare, anvilVars
<1>21. CASE TaskDone
  <2>1. PICK i \in 1 .. Len(queue) : Queued(queue[i].kind) /\ Succeeded(queue[i])
    BY <1>21, InQueue DEF TaskDone, Queued
  <2> QED
    BY <2>1 DEF KeepShare, LeftInv, Succeeded
<1>22. CASE TaskFails
  BY <1>22 DEF TaskFails, KeepShare
<1>23. CASE Purge
  BY <1>23 DEF Purge, KeepShare
<1>24. CASE UNCHANGED vars
  BY <1>24 DEF KeepShare, vars, anvilVars
<1> QED
  BY <1>1, <1>2, <1>3, <1>4, <1>5, <1>6, <1>7, <1>8, <1>9, <1>10, <1>11, <1>12,
     <1>13, <1>14, <1>15, <1>16, <1>17, <1>18, <1>19, <1>20, <1>21, <1>22, <1>23,
     <1>24 DEF Next, Handler

\* SnapshotsKeepShare holds of every step: a delete task on a share with snapshots is
\* one that a create call has left behind.
THEOREM SnapshotsKeepShareHolds == Spec => SnapshotsKeepShare
<1>1. IInv /\ [Next]_vars => KeepShare
  BY KeepStep
<1> QED
  BY <1>1, Invariance, PTL DEF Spec, SnapshotsKeepShare, KeepShare

-----------------------------------------------------------------------------
(* The volume that the CO sees                                             *)

\* From the first answer on: the CO was told of a capacity; a share about to be deleted
\* is finished; snapshots keep the share.
LifeInv ==
    /\ phase = "created" => acked > 0
    /\ ~Undercut =>
        /\ phase = "deleting" => share # "unfinished"
        /\ snaps => share = "live" /\ phase \in {"created", "deleting"}

\* A call of CreateVolume, up to its answer.
Creating ==
    /\ phase = "creating"
    /\ \/ phase' = "creating"
       \/ phase' = "created" /\ acked' = want /\ UNCHANGED <<want, snaps>>

\* A call of ControllerExpandVolume, up to its answer.
InUse ==
    /\ phase = "created" /\ phase' = "created"
    /\ acked' \in {acked, want}
    /\ UNCHANGED <<share, limit, snaps>>

\* A call of DeleteVolume, up to its answer.
Deleting ==
    /\ phase = "deleting" /\ phase' \in {"deleting", "deleted"}
    /\ phase' = "deleted" => share \in {"none", "removed"} \/ (blind' /\ ~snaps)
    /\ queue' = queue \/ queue' = Append(queue, Task("delete", 0))
    /\ UNCHANGED <<share, limit, snaps>>

Quiet == UNCHANGED <<phase, acked, snaps, share, limit, queue>>

\* What a step does to the volume, by who takes it.
LEMMA StepKinds ==
    ASSUME PhaseInv, LeftInv, WaitInv, [Next]_vars
    PROVE  \/ Creating \/ InUse \/ Deleting \/ Quiet
           \/ TakeSnapshot \/ DropSnapshot \/ DeleteWanted
           \/ TaskDone \/ TaskFails \/ Purge
<1>1. CASE CreateVolume \/ ControllerExpandVolume \/ DeleteVolume
  BY <1>1 DEF CreateVolume, ControllerExpandVolume, DeleteVolume, CallsOnly, coVars, anvilVars, Quiet
<1>2. CASE CutOff
  BY <1>2 DEF CutOff, Fail, coVars, anvilVars, Quiet
<1>3. CASE UNCHANGED vars
  BY <1>3 DEF vars, coVars, anvilVars, Quiet
<1>4. CASE CreateGetShare \/ CreateShare \/ WaitCreate \/ JoinCreate \/ Cleanup \/ WaitCleanup
  <2>1. phase = "creating"
    BY <1>4 DEF CreateGetShare, CreateShare, WaitCreate, JoinCreate, Cleanup, WaitCleanup,
       PhaseInv, CreateSteps
  <2>2. phase' = phase \/ Created
    BY <1>4 DEF CreateGetShare, CreateShare, WaitCreate, JoinCreate, Cleanup, WaitCleanup,
       DeleteShare, Go, Fail, coVars
  <2> QED
    BY <2>1, <2>2 DEF Creating, Created
<1>5. CASE ExpandGetShare \/ UpdateShareSize \/ WaitResize
  <2>1. phase = "created"
    BY <1>5 DEF ExpandGetShare, UpdateShareSize, WaitResize, PhaseInv, ExpandSteps
  <2>2. UNCHANGED <<share, limit>>
    BY <1>5 DEF ExpandGetShare, UpdateShareSize, WaitResize, anvilVars
  <2>3. UNCHANGED coVars \/ Expanded
    BY <1>5 DEF ExpandGetShare, UpdateShareSize, WaitResize, Go, Fail
  <2> QED
    BY <2>1, <2>2, <2>3 DEF InUse, Expanded, coVars
<1>6. CASE DeleteGetShare \/ GetShareSnapshots \/ WaitForShareDelete
  <2>1. phase = "deleting" /\ UNCHANGED <<share, limit, queue>>
    BY <1>6 DEF DeleteGetShare, GetShareSnapshots, WaitForShareDelete, PhaseInv, DeleteSteps, anvilVars
  <2>2. UNCHANGED coVars \/ (Deleted /\ share \in {"none", "removed"})
    BY <1>6 DEF DeleteGetShare, GetShareSnapshots, WaitForShareDelete, WaitInv, Go, Fail
  <2> QED
    BY <2>1, <2>2 DEF Deleting, Deleted, coVars
<1>7. CASE DeleteBackingShare
  <2>1. phase = "deleting" /\ ~snaps /\ UNCHANGED <<share, limit>>
    BY <1>7 DEF DeleteBackingShare, DeleteShare, PhaseInv, LeftInv, DeleteSteps
  <2>2. queue' = queue \/ queue' = Append(queue, Task("delete", 0))
    BY <1>7 DEF DeleteBackingShare, DeleteShare, Accept
  <2>3. \/ UNCHANGED coVars
        \/ Deleted /\ share \in {"none", "removed"}
        \/ phase' = "deleted" /\ snaps' = snaps /\ blind'
    BY <1>7 DEF DeleteBackingShare, DeleteShare, Go, Fail
  <2> QED
    BY <2>1, <2>2, <2>3 DEF Deleting, Deleted, coVars
<1> QED
  BY <1>1, <1>2, <1>3, <1>4, <1>5, <1>6, <1>7 DEF Next, Handler

\* What was lost stays lost.
LEMMA Lasting ==
    ASSUME [Next]_vars
    PROVE  (Undercut => Undercut') /\ (blind => blind')
<1>1. Fail => (lostTask => lostTask') /\ (lostClean => lostClean') /\ blind' = blind
  BY DEF Fail, Forget, lostVars
<1>2. Created \/ Deleted => UNCHANGED lostVars
  BY DEF Created, Deleted
<1>3. CASE CreateVolume \/ ControllerExpandVolume \/ DeleteWanted \/ DeleteVolume
           \/ TakeSnapshot \/ DropSnapshot
  <2>1. UNCHANGED <<lists, lostTask, lostClean, blind>>
    BY <1>3 DEF CreateVolume, ControllerExpandVolume, DeleteWanted, DeleteVolume, TakeSnapshot,
       DropSnapshot, CallsOnly, anvilVars, lostVars
  <2> QED
    BY <2>1 DEF Undercut
<1>4. CASE TaskDone \/ TaskFails \/ Purge
  <2>1. UNCHANGED <<lists, lostTask, lostClean, blind>>
    BY <1>4 DEF TaskDone, TaskFails, Purge, AnvilOnly, lostVars
  <2> QED
    BY <2>1 DEF Undercut
<1>5. CASE CutOff
  <2>1. Fail /\ lists' = lists
    BY <1>5 DEF CutOff, anvilVars
  <2> QED
    BY SMT, <1>1, <2>1 DEF Undercut
<1>6. CASE Handler
  <2>1. lists' = lists
    BY <1>6 DEF Handler, CreateGetShare, CreateShare, WaitCreate, JoinCreate, Cleanup, WaitCleanup,
       ExpandGetShare, UpdateShareSize, WaitResize, DeleteGetShare, GetShareSnapshots,
       DeleteBackingShare, WaitForShareDelete, DeleteShare, anvilVars
  <2>2. \/ Fail \/ UNCHANGED <<lostTask, lostClean, blind>>
        \/ blind' /\ UNCHANGED <<lostTask, lostClean>>
    BY <1>2, <1>6 DEF Handler, CreateGetShare, CreateShare, WaitCreate, JoinCreate, Cleanup, WaitCleanup,
       ExpandGetShare, UpdateShareSize, WaitResize, DeleteGetShare, GetShareSnapshots,
       DeleteBackingShare, WaitForShareDelete, DeleteShare, lostVars
  <2> QED
    BY SMT, <1>1, <2>1, <2>2 DEF Undercut
<1>7. CASE UNCHANGED vars
  BY <1>7 DEF vars, anvilVars, lostVars, Undercut
<1> QED
  BY <1>3, <1>4, <1>5, <1>6, <1>7 DEF Next

\* Until it is deleted the share is finished, and with its snapshots it stays.
LEMMA LifeInvStep ==
    ASSUME IInv, IInv', LifeInv, [Next]_vars
    PROVE  LifeInv'
<1>1. /\ TypeNums /\ TypeRest /\ PhaseInv /\ PhaseInv' /\ QueueInv /\ LeftInv /\ WaitInv
      /\ SizeInv /\ SizeInv'
  BY TypeParts DEF IInv
<1>2. \/ Creating \/ InUse \/ Deleting \/ Quiet
      \/ TakeSnapshot \/ DropSnapshot \/ DeleteWanted
      \/ TaskDone \/ TaskFails \/ Purge
  BY <1>1, StepKinds
<1>3. phase' = "created" => acked' > 0
  <2>1. want > 0
    BY SMT, <1>1, SizeAssumption DEF TypeNums
  <2>2. \/ acked' = acked /\ phase' = phase
        \/ acked' \in {acked, want} /\ phase = "created"
        \/ acked' = want
        \/ phase' # "created"
    BY <1>2 DEF Creating, InUse, Deleting, Quiet, TakeSnapshot, DropSnapshot, DeleteWanted,
       TaskDone, TaskFails, Purge, AnvilOnly, coVars
  <2> QED
    BY <2>1, <2>2 DEF LifeInv
<1> SUFFICES ASSUME ~Undercut'
             PROVE  /\ phase' = "deleting" => share' # "unfinished"
                    /\ snaps' => share' = "live" /\ phase' \in {"created", "deleting"}
  BY <1>3 DEF LifeInv
<1>4. /\ ~Undercut
      /\ phase = "deleting" => share # "unfinished"
      /\ snaps => share = "live" /\ phase \in {"created", "deleting"}
  BY Lasting DEF LifeInv
<1>5. CASE phase' \in {"creating", "created"}
  BY <1>1, <1>5 DEF PhaseInv, SizeInv
<1>6. CASE phase' \in {"deleting", "deleted"} /\ Deleting
  BY <1>4, <1>6 DEF Deleting
<1>7. CASE phase' \in {"deleting", "deleted"} /\ (Quiet \/ DropSnapshot)
  <2>1. UNCHANGED <<phase, share>>
    BY <1>7 DEF Quiet, DropSnapshot, CallsOnly, anvilVars
  <2>2. snaps' = snaps \/ ~snaps'
    BY <1>7 DEF Quiet, DropSnapshot
  <2>3. snaps' => share' = "live" /\ phase' \in {"created", "deleting"}
    BY <1>4, <2>1, <2>2
  <2>4. phase' = "deleting" => share' # "unfinished"
    BY <1>4, <2>1
  <2> QED
    BY <2>3, <2>4
<1>8. CASE DeleteWanted
  <2>1. phase = "created" /\ phase' = "deleting" /\ UNCHANGED <<share, snaps>>
    BY <1>8 DEF DeleteWanted, CallsOnly, anvilVars
  <2>2. share = "live"
    BY <1>1, <1>4, <2>1 DEF SizeInv
  <2> QED
    BY <2>1, <2>2
<1>9. CASE phase' \in {"deleting", "deleted"} /\ (TaskDone \/ TaskFails)
  <2>1. PICK i \in 1 .. Len(queue) :
           Queued(queue[i].kind) /\ (Succeeded(queue[i]) \/ UNCHANGED <<share, limit>>)
    BY <1>1, <1>9, Ended
  <2>2. phase' = phase /\ snaps' = snaps
    BY <1>1, <1>9, Ended DEF AnvilOnly, coVars
  <2>3. Queued("delete") => ~snaps
    BY <1>1, <1>4 DEF LeftInv, Undercut
  <2> QED
    BY <1>4, <2>1, <2>2, <2>3 DEF Succeeded
<1>10. CASE Purge
  <2>1. share = "removed" /\ share' = "none" /\ snaps' = snaps
    BY <1>10 DEF Purge, AnvilOnly, coVars
  <2> QED
    BY <1>4, <2>1
<1>11. Creating \/ InUse \/ TakeSnapshot => phase' \in {"creating", "created"}
  BY DEF Creating, InUse, TakeSnapshot
<1>12. phase' \in {"creating", "created", "deleting", "deleted"}
  BY DEF IInv, TypeOK
<1> QED
  BY <1>2, <1>5, <1>6, <1>7, <1>8, <1>9, <1>10, <1>11, <1>12

\* Under the name of the volume there may be a share from the start.
LEMMA InitLife == Init => Life!Init /\ LifeInv
<1> SUFFICES ASSUME Init PROVE Life!Init /\ LifeInv
  OBVIOUS
<1>1. limit \in Nat
  BY SMT, SizeAssumption DEF Init
<1>2. Life!Init
  BY SMT, <1>1 DEF Init, Life!Init, storage, capacity
<1> QED
  BY <1>2 DEF Init, LifeInv

\* A step of the handlers, the Anvil or the CO is a step of the volume that the CO sees,
\* or changes nothing of it.
LEMMA LifeStep ==
    ASSUME IInv, IInv', LifeInv, LifeInv', [Next]_vars, ~Undercut', ~blind', ~crossed'
    PROVE  [Life!Next]_<<phase, storage, capacity, snaps>>
<1>1. /\ TypeNums /\ TypeRest /\ PhaseInv /\ PhaseInv' /\ QueueInv /\ QueueInv' /\ LeftInv
      /\ WaitInv /\ SizeInv /\ SizeInv' /\ DeletedIsGone /\ DeletedIsGone'
  BY TypeParts DEF IInv
<1>2. /\ limit \in Nat /\ limit' \in Nat /\ acked \in Nat /\ acked' \in Nat /\ want' \in Nat
      /\ storage \in Nat /\ storage' \in Nat
      /\ snaps \in BOOLEAN /\ snaps' \in BOOLEAN
  BY SMT, SizeAssumption DEF IInv, TypeOK, storage
<1>3. ~Undercut /\ ~blind
  BY Lasting
<1>4. \/ Creating \/ InUse \/ Deleting \/ Quiet
      \/ TakeSnapshot \/ DropSnapshot \/ DeleteWanted
      \/ TaskDone \/ TaskFails \/ Purge
  BY <1>1, StepKinds
<1>5. Quiet => UNCHANGED <<phase, storage, capacity, snaps>>
  BY DEF Quiet, storage, capacity
<1>6. /\ phase = "created" => share = "live"
      /\ phase' = "created" => share' = "live" /\ acked' <= limit'
      /\ limit' > 0
  BY <1>1, <1>3 DEF SizeInv, QueueInv
<1>7. CASE Creating
  <2>1. CASE phase' = "creating"
    <3>1. ~snaps /\ ~snaps' /\ phase = "creating"
      BY <1>1, <1>7, <2>1 DEF PhaseInv, Creating
    <3>2. snaps' = snaps
      BY <1>2, <3>1
    <3>3. Life!Prepare
      BY <1>2, <2>1, <3>1, <3>2 DEF Life!Prepare, capacity
    <3> QED
      BY <3>3 DEF Life!Next
  <2>2. CASE phase' = "created"
    <3>1. phase = "creating" /\ acked' = want /\ snaps' = snaps
      BY <1>7, <2>2 DEF Creating
    <3>2. capacity' = acked' /\ storage' = limit'
      BY <1>6, <2>2 DEF capacity, storage
    <3>3. acked' \in 1 .. limit'
      BY SMT, <1>1, <1>2, <1>6, <2>2, <3>1, SizeAssumption DEF TypeNums
    <3>4. Life!Provide
      BY <1>2, <2>2, <3>1, <3>2, <3>3 DEF Life!Provide
    <3> QED
      BY <3>4 DEF Life!Next
  <2> QED
    BY <1>7, <2>1, <2>2 DEF Creating
<1>8. ASSUME phase = "created", phase' = "created", snaps' = snaps, acked <= acked'
      PROVE  Life!Next
  <2>1. capacity = acked /\ capacity' = acked' /\ storage = limit /\ storage' = limit'
    BY <1>6, <1>8 DEF capacity, storage
  <2>2. acked' \in acked .. limit' /\ limit' \in Nat \ {0}
    BY SMT, <1>2, <1>6, <1>8
  <2>3. Life!Resize
    BY <1>8, <2>1, <2>2 DEF Life!Resize
  <2> QED
    BY <2>3 DEF Life!Next
<1>9. CASE InUse
  <2>1. acked <= want
    BY <1>1, <1>3, <1>9 DEF SizeInv, InUse
  <2>2. acked <= acked'
    BY SMT, <1>2, <1>9, <2>1 DEF InUse
  <2> QED
    BY <1>8, <1>9, <2>2 DEF InUse
<1>10. CASE TakeSnapshot \/ DropSnapshot
  <2>1. UNCHANGED <<phase, share, limit, acked>>
    BY <1>10 DEF TakeSnapshot, DropSnapshot, CallsOnly, anvilVars
  <2>2. phase = "created" \/ (phase = "deleting" /\ snaps)
    BY <1>3, <1>10 DEF TakeSnapshot, DropSnapshot, LifeInv
  <2>3. snaps' = ~snaps
    BY <1>2, <1>10 DEF TakeSnapshot, DropSnapshot
  <2>4. Life!Snapshot
    BY <2>1, <2>2, <2>3 DEF Life!Snapshot, storage, capacity
  <2> QED
    BY <2>4 DEF Life!Next
<1>11. CASE DeleteWanted
  <2>1. Life!Retire
    BY <1>11 DEF DeleteWanted, CallsOnly, anvilVars, Life!Retire, storage, capacity
  <2> QED
    BY <2>1 DEF Life!Next
<1>12. ASSUME phase = "deleting", phase' \in {"deleting", "deleted"}, ~snaps, snaps' = snaps, share' # "live"
       PROVE  Life!Next
  <2>1. Life!Remove
    BY <1>12 DEF Life!Remove, storage, capacity
  <2> QED
    BY <2>1 DEF Life!Next
<1>13. CASE Deleting
  <2>1. CASE phase' = "deleting"
    BY <1>13, <2>1 DEF Deleting, storage, capacity
  <2>2. CASE phase' = "deleted"
    <3>1. share' # "live" /\ share # "live" /\ snaps' = snaps
      BY <1>13, <2>2 DEF Deleting
    <3>2. ~snaps
      BY <1>3, <3>1 DEF LifeInv
    <3> QED
      BY <1>12, <1>13, <2>2, <3>1, <3>2 DEF Deleting
  <2> QED
    BY <1>13, <2>1, <2>2 DEF Deleting
<1>14. CASE Purge
  BY <1>14 DEF Purge, AnvilOnly, coVars, storage, capacity
<1>15. CASE TaskFails
  BY <1>15 DEF TaskFails, AnvilOnly, coVars, storage, capacity
<1>16. CASE TaskDone
  <2>1. PICK i \in 1 .. Len(queue) :
           queue[i] \in Tasks /\ Queued(queue[i].kind) /\ Succeeded(queue[i])
    BY <1>1, <1>16, InQueue DEF TaskDone, Queued
  <2>2. UNCHANGED <<phase, acked, snaps>>
    BY <1>16 DEF TaskDone, AnvilOnly, coVars
  <2>3. queue[i].kind \in Kinds
    BY SMT, <2>1 DEF Tasks
  <2>4. CASE phase = "creating"
    <3>1. Creating
      BY <2>2, <2>4 DEF Creating
    <3> QED
      BY <1>7, <3>1
  <2>5. CASE phase = "created"
    <3>1. acked <= acked'
      BY SMT, <1>2, <2>2
    <3> QED
      BY <1>8, <2>2, <2>5, <3>1
  <2>6. CASE phase = "deleting"
    <3>1. ~Queued("create") /\ share # "unfinished"
      BY <1>1, <1>3, <2>6 DEF QueueInv, LifeInv
    <3>2. CASE queue[i].kind = "delete"
      <4>1. ~snaps
        BY <1>1, <1>3, <2>1, <3>2 DEF LeftInv, Undercut
      <4>2. share' # "live"
        BY <2>1, <3>2 DEF Succeeded
      <4> QED
        BY <1>12, <2>2, <2>6, <4>1, <4>2
    <3>3. CASE queue[i].kind = "resize" /\ share # "live"
      BY <2>1, <2>2, <3>3 DEF Succeeded, storage, capacity
    <3>4. CASE queue[i].kind = "resize" /\ share = "live"
      <4>1. share' = "live" /\ limit > 0
        BY <1>1, <2>1, <3>4 DEF Succeeded, QueueInv
      <4>2. storage > 0 /\ storage' \in Nat \ {0} /\ capacity = 0 /\ capacity' = 0
        BY SMT, <1>2, <1>6, <2>2, <2>6, <3>4, <4>1 DEF storage, capacity
      <4>3. Life!Resize
        BY <2>2, <2>6, <4>2 DEF Life!Resize
      <4> QED
        BY <4>3 DEF Life!Next
    <3> QED
      BY <2>1, <2>3, <3>1, <3>2, <3>3, <3>4 DEF Kinds
  <2>7. CASE phase = "deleted"
    <3>1. share # "live" /\ share' # "live"
      BY <1>1, <1>3, <2>2, <2>7 DEF DeletedIsGone
    <3> QED
      BY <2>2, <2>7, <3>1 DEF storage, capacity
  <2> QED
    BY <1>1, <2>4, <2>5, <2>6, <2>7 DEF TypeRest
<1> QED
  BY <1>4, <1>5, <1>7, <1>9, <1>10, <1>11, <1>13, <1>14, <1>15, <1>16

\* Unless a call was lost that can take the share away, the Anvil accepted a request
\* without naming its task, or the last expansion met a smaller resize, CreateVolume,
\* ControllerExpandVolume, DeleteVolume and what the Anvil still does for calls that were
\* given up on show the CO the life of a volume that Volume promises.
THEOREM VolumeRefinement == Spec => ImplementsVolume
<1>1. IInv /\ IInv' /\ LifeInv /\ [Next]_vars => LifeInv'
  BY LifeInvStep
<1>2. IInv /\ IInv' /\ LifeInv /\ LifeInv' /\ [Next]_vars
      => (~Undercut' /\ ~blind' /\ ~crossed' => [Life!Next]_<<phase, storage, capacity, snaps>>)
  BY LifeStep
<1> QED
  BY <1>1, <1>2, InitLife, Invariance, PTL DEF Spec, ImplementsVolume

=============================================================================
