--------------------------- MODULE SnapshotProofs ---------------------------
(***************************************************************************)
(* Proofs about Snapshot.  The invariants follow from what the lock of a   *)
(* name protects: between the look at recentlyCreatedSnapshots and the     *)
(* return of the call nobody else answers for the name, so the snapshot    *)
(* the map holds is the one every answer carries.  What is frozen belongs  *)
(* to at most one handler, which alone unfreezes it.                       *)
(***************************************************************************)
EXTENDS Snapshot, TLAPS

\* Most leaves are first-order: Zenon takes them, and a leaf that needs more says SMT.
USE Zenon

TypeFlags == cancelled \in [Calls -> BOOLEAN] /\ restarted \in BOOLEAN

TypeNums == faults \in 0 .. MaxFaults

Requests == [name : Names, source : Volumes, second : Nat]

TypeIds ==
    /\ result \in [Calls -> {None} \cup Ids]
    /\ recent \in [Names -> {None} \cup [id : Ids, source : Volumes]]
    /\ alive \subseteq Ids /\ taken \in Seq(Requests) /\ Len(taken) <= MaxSnaps
    /\ answers \in [Names -> SUBSET Ids]

TypeRest ==
    /\ pc \in [Calls -> Steps]
    /\ name \in [Calls -> {None} \cup Names] /\ src \in [Calls -> {None} \cup Volumes]
    /\ todo \in [Calls -> SUBSET Mounts] /\ frozenBy \in [Calls -> SUBSET Mounts]
    /\ target \in [Calls -> {None} \cup Mounts]
    /\ lock \in [Names -> {None} \cup Calls]
    /\ frozen \subseteq Mounts /\ stuck \subseteq Mounts
    /\ dropped \subseteq Names

\* What a call has, by where it is.
CallInv ==
    \A c \in Calls :
        /\ pc[c] # "idle" => name[c] \in Names /\ src[c] \in Volumes
        /\ pc[c] \in {"find", "freeze", "freezing"} => src[c] \in FileBacked
        /\ pc[c] = "freezing" => target[c] \in Mounts
        /\ pc[c] = "store" => result[c] # None
        /\ result[c] # None => pc[c] \in {"store", "thaw"}

\* Past the lock, a call holds it.
LockInv ==
    \A c \in Calls : pc[c] \notin {"idle", "lock"} => lock[name[c]] = c

\* A snapshot known under a name was taken for that name, and for the source it is
\* known to be of.
IdInv ==
    /\ \A c \in Calls : result[c] # None =>
           /\ result[c] \in 1 .. Len(taken)
           /\ taken[result[c]].name = name[c] /\ taken[result[c]].source = src[c]
    /\ \A n \in Names : recent[n] # None =>
           /\ recent[n].id \in 1 .. Len(taken)
           /\ taken[recent[n].id].name = n /\ taken[recent[n].id].source = recent[n].source
    /\ \A n \in Names : \A id \in answers[n] :
           id \in 1 .. Len(taken) /\ taken[id].name = n

\* The map of recent snapshots decides what a name is answered with.
AnswerInv ==
    /\ \A c \in Calls : pc[c] \in {"find", "freeze", "freezing", "snap", "store"} =>
           recent[name[c]] = None
    /\ \A c \in Calls : pc[c] = "thaw" /\ result[c] # None =>
           recent[name[c]] # None /\ recent[name[c]].id = result[c]
    /\ ~restarted => \A n \in Names : \A id \in answers[n] :
           recent[n] # None /\ recent[n].id = id

\* Of the snapshots of other seconds, only those the CO was told of are deleted, and it
\* does not ask for them again.
Kept == {id \in Ids : id \in alive \/ LostWithAnother(id)}

AliveInv ==
    /\ \A c \in Calls : pc[c] = "store" =>
           result[c] \in Kept /\ result[c] \notin answers[name[c]]
    /\ \A n \in Names : recent[n] # None /\ n \notin dropped => recent[n].id \in Kept
    /\ \A c \in Calls : pc[c] # "idle" /\ ~cancelled[c] => name[c] \notin dropped

\* A filesystem is frozen on behalf of one handler.
FrozenInv ==
    /\ QuiescedWhileHeld /\ NoneLeftFrozen
    /\ \A c, d \in Calls : c # d => frozenBy[c] \cap frozenBy[d] = {}

IInv == TypeOK /\ CallInv /\ LockInv /\ IdInv /\ AnswerInv /\ AliveInv /\ FrozenInv

-----------------------------------------------------------------------------
\* The parts of the type invariant.
LEMMA TypeParts == TypeOK <=> TypeFlags /\ TypeNums /\ TypeIds /\ TypeRest
BY DEF TypeOK, TypeFlags, TypeNums, TypeIds, TypeRest, Requests

\* The filesystems of a file-backed volume.
LEMMA MountsOfVolume == \A v \in FileBacked : MountsOf(v) \subseteq Mounts
BY DEF Mounts

\* What taking a snapshot does to the Anvil's record of them.
LEMMA Taken ==
    ASSUME TypeIds, NEW r \in Requests, taken' = Append(taken, r)
    PROVE  /\ taken' \in Seq(Requests) /\ Len(taken') = Len(taken) + 1 /\ Len(taken) \in Nat
           /\ \A i \in 1 .. Len(taken) : taken'[i] = taken[i]
           /\ taken'[Len(taken) + 1] = r
BY SMT DEF TypeIds

\* A call that takes a snapshot adds it as the last one, under its name and of its source.
LEMMA TakeAdds ==
    ASSUME TypeIds, NEW c \in Calls, name[c] \in Names, src[c] \in Volumes, Take(c)
    PROVE  /\ taken' \in Seq(Requests) /\ Len(taken') = Len(taken) + 1 /\ Len(taken) \in Nat
           /\ Len(taken') <= MaxSnaps /\ Len(taken) + 1 \in Ids
           /\ \A i \in 1 .. Len(taken) : taken'[i] = taken[i]
           /\ taken'[Len(taken) + 1].name = name[c] /\ taken'[Len(taken) + 1].source = src[c]
           /\ alive' = alive \cup {Len(taken) + 1}
<1>1. Len(taken) \in Nat /\ Len(taken) < MaxSnaps
  BY SMT DEF TypeIds, Take
<1>2. \A second \in Seconds : second \in Nat
  <2>1. CASE taken = <<>>
    BY SMT, <2>1 DEF Seconds
  <2>2. CASE taken # <<>>
    <3>1. Len(taken) \in 1 .. Len(taken)
      BY SMT, <2>2 DEF TypeIds
    <3>2. taken[Len(taken)] \in Requests
      BY SMT, <3>1 DEF TypeIds
    <3>3. taken[Len(taken)].second \in Nat
      BY <3>2 DEF Requests
    <3> QED
      BY SMT, <2>2, <3>3 DEF Seconds, fileSnapshotTimestamp
  <2> QED
    BY <2>1, <2>2
<1>3. PICK second \in Seconds :
          taken' = Append(taken, [name |-> name[c], source |-> src[c], second |-> second])
  BY DEF Take
<1> DEFINE r == [name |-> name[c], source |-> src[c], second |-> second]
<1>4. r \in Requests /\ r.name = name[c] /\ r.source = src[c]
  BY <1>2 DEF Requests
<1>5. taken' = Append(taken, r)
  BY <1>3
<1> HIDE DEF r
<1>6. /\ taken' \in Seq(Requests) /\ Len(taken') = Len(taken) + 1
      /\ \A i \in 1 .. Len(taken) : taken'[i] = taken[i]
      /\ taken'[Len(taken) + 1] = r
  BY <1>4, <1>5, Taken
<1>7. Len(taken') <= MaxSnaps /\ Len(taken) + 1 \in Ids
  BY SMT, <1>1, <1>6, BoundAssumption DEF Ids
<1> QED
  BY <1>1, <1>4, <1>6, <1>7 DEF Take

LEMMA InitIInv == Init => IInv
<1> SUFFICES ASSUME Init PROVE IInv
  OBVIOUS
<1>1. TypeOK
  <2>1. TypeFlags
    BY DEF Init, TypeFlags
  <2>4. TypeNums
    BY SMT, BoundAssumption DEF Init, TypeNums
  <2>2. TypeIds
    BY SMT, BoundAssumption DEF Init, TypeIds, Requests
  <2>3. TypeRest
    BY DEF Init, TypeRest, Steps
  <2> QED
    BY <2>1, <2>2, <2>3, <2>4, TypeParts
<1>2. CallInv /\ LockInv /\ IdInv /\ AnswerInv /\ AliveInv
  BY DEF Init, CallInv, LockInv, IdInv, AnswerInv, AliveInv
<1>3. FrozenInv
  BY DEF Init, FrozenInv, QuiescedWhileHeld, NoneLeftFrozen
<1> QED
  BY <1>1, <1>2, <1>3 DEF IInv

\* Booleans stay booleans.
LEMMA FlagsStep == TypeFlags /\ [Next]_vars => TypeFlags'
<1> SUFFICES ASSUME TypeFlags, [Next]_vars PROVE TypeFlags'
  OBVIOUS
<1>1. CASE Restart
  BY <1>1 DEF Restart, TypeFlags, Fault, anvilVars, coVars
<1>2. ASSUME NEW c \in Calls, Acquire(c) PROVE TypeFlags'
  BY <1>2 DEF Acquire, TypeFlags, HandlerRest
<1>3. ASSUME NEW c \in Calls, AcquireFails(c) PROVE TypeFlags'
  BY <1>3 DEF AcquireFails, TypeFlags, End
<1>4. ASSUME NEW c \in Calls, Look(c) PROVE TypeFlags'
  BY <1>4 DEF Look, TypeFlags, HandlerRest
<1>5. ASSUME NEW c \in Calls, Find(c) PROVE TypeFlags'
  BY <1>5 DEF Find, TypeFlags, HandlerRest
<1>6. ASSUME NEW c \in Calls, NEW m \in Mounts, FreezeStart(c, m) PROVE TypeFlags'
  BY <1>6 DEF FreezeStart, TypeFlags, HandlerRest
<1>7. ASSUME NEW c \in Calls, FreezeDone(c) PROVE TypeFlags'
  BY <1>7 DEF FreezeDone, TypeFlags, FreezeRest
<1>8. ASSUME NEW c \in Calls, FreezeEnd(c) PROVE TypeFlags'
  BY <1>8 DEF FreezeEnd, TypeFlags, FreezeRest
<1>9. ASSUME NEW c \in Calls, SnapTaken(c) PROVE TypeFlags'
  BY <1>9 DEF SnapTaken, TypeFlags, AnvilRest
<1>10. ASSUME NEW c \in Calls, SnapFails(c) PROVE TypeFlags'
  BY <1>10 DEF SnapFails, TypeFlags, AnvilRest
<1>11. ASSUME NEW c \in Calls, Store(c) PROVE TypeFlags'
  BY <1>11 DEF Store, TypeFlags, AnvilRest
<1>12. ASSUME NEW c \in Calls, NEW m \in Mounts, Unfreeze(c, m) PROVE TypeFlags'
  BY <1>12 DEF Unfreeze, TypeFlags, Fault, ThawRest, anvilVars
<1>13. ASSUME NEW c \in Calls, Return(c) PROVE TypeFlags'
  BY <1>13 DEF Return, TypeFlags, End, ThawRest
<1>14. ASSUME NEW c \in Calls, Cancel(c) PROVE TypeFlags'
  BY <1>14 DEF Cancel, TypeFlags, Fault, anvilVars, coVars
<1>15. ASSUME NEW c \in Calls, NEW n \in Names, NEW v \in Volumes, CreateSnapshot(c, n, v) PROVE TypeFlags'
  BY <1>15 DEF CreateSnapshot, TypeFlags, Goto, anvilVars, coVars
<1>16. ASSUME NEW n \in Names, NEW id \in Ids, DeleteSnapshot(n, id) PROVE TypeFlags'
  BY <1>16 DEF DeleteSnapshot, TypeFlags, InUse, callVars
<1>17. CASE UNCHANGED vars
  BY <1>17 DEF TypeFlags, vars, callVars, anvilVars, coVars
<1> QED
  BY <1>1, <1>2, <1>3, <1>4, <1>5, <1>6, <1>7, <1>8, <1>9, <1>10, <1>11, <1>12,
     <1>13, <1>14, <1>15, <1>16, <1>17 DEF Next, Handler

\* The counter of faults stays in its range.
LEMMA NumsStep == TypeNums /\ [Next]_vars => TypeNums'
<1> SUFFICES ASSUME TypeNums, [Next]_vars PROVE TypeNums'
  OBVIOUS
<1>1. CASE Restart
  BY SMT, <1>1, BoundAssumption DEF Restart, TypeNums, Fault
<1>2. ASSUME NEW c \in Calls, Acquire(c) PROVE TypeNums'
  BY <1>2 DEF Acquire, TypeNums
<1>3. ASSUME NEW c \in Calls, AcquireFails(c) PROVE TypeNums'
  BY <1>3 DEF AcquireFails, TypeNums
<1>4. ASSUME NEW c \in Calls, Look(c) PROVE TypeNums'
  BY SMT, <1>4, BoundAssumption DEF Look, TypeNums, Fault
<1>5. ASSUME NEW c \in Calls, Find(c) PROVE TypeNums'
  BY SMT, <1>5, BoundAssumption DEF Find, TypeNums, Fault
<1>6. ASSUME NEW c \in Calls, NEW m \in Mounts, FreezeStart(c, m) PROVE TypeNums'
  BY SMT, <1>6, BoundAssumption DEF FreezeStart, TypeNums, Fault
<1>7. ASSUME NEW c \in Calls, FreezeDone(c) PROVE TypeNums'
  BY SMT, <1>7, BoundAssumption DEF FreezeDone, TypeNums, Fault
<1>8. ASSUME NEW c \in Calls, FreezeEnd(c) PROVE TypeNums'
  BY <1>8 DEF FreezeEnd, TypeNums
<1>9. ASSUME NEW c \in Calls, SnapTaken(c) PROVE TypeNums'
  BY <1>9 DEF SnapTaken, TypeNums
<1>10. ASSUME NEW c \in Calls, SnapFails(c) PROVE TypeNums'
  BY SMT, <1>10, BoundAssumption DEF SnapFails, TypeNums, Fault
<1>11. ASSUME NEW c \in Calls, Store(c) PROVE TypeNums'
  BY <1>11 DEF Store, TypeNums
<1>12. ASSUME NEW c \in Calls, NEW m \in Mounts, Unfreeze(c, m) PROVE TypeNums'
  BY SMT, <1>12, BoundAssumption DEF Unfreeze, TypeNums, Fault
<1>13. ASSUME NEW c \in Calls, Return(c) PROVE TypeNums'
  BY <1>13 DEF Return, TypeNums
<1>14. ASSUME NEW c \in Calls, Cancel(c) PROVE TypeNums'
  BY SMT, <1>14, BoundAssumption DEF Cancel, TypeNums, Fault
<1>15. ASSUME NEW c \in Calls, NEW n \in Names, NEW v \in Volumes, CreateSnapshot(c, n, v) PROVE TypeNums'
  BY <1>15 DEF CreateSnapshot, TypeNums
<1>16. ASSUME NEW n \in Names, NEW id \in Ids, DeleteSnapshot(n, id) PROVE TypeNums'
  BY <1>16, BoundAssumption DEF DeleteSnapshot, TypeNums, InUse, callVars
<1>17. CASE UNCHANGED vars
  BY <1>17 DEF TypeNums, vars
<1> QED
  BY <1>1, <1>2, <1>3, <1>4, <1>5, <1>6, <1>7, <1>8, <1>9, <1>10, <1>11, <1>12,
     <1>13, <1>14, <1>15, <1>16, <1>17 DEF Next, Handler

\* Snapshots, and what refers to them.
LEMMA IdsStep == TypeIds /\ TypeRest /\ CallInv /\ [Next]_vars => TypeIds'
<1> SUFFICES ASSUME TypeIds /\ TypeRest /\ CallInv, [Next]_vars PROVE TypeIds'
  OBVIOUS
<1>1. CASE Restart
  BY <1>1 DEF Restart, TypeIds, TypeRest, anvilVars, coVars
<1>2. ASSUME NEW c \in Calls, Acquire(c) PROVE TypeIds'
  BY <1>2 DEF Acquire, TypeIds, TypeRest, HandlerRest, anvilVars, coVars
<1>3. ASSUME NEW c \in Calls, AcquireFails(c) PROVE TypeIds'
  BY <1>3 DEF AcquireFails, TypeIds, TypeRest, anvilVars, coVars
<1>4. ASSUME NEW c \in Calls, Look(c) PROVE TypeIds'
  BY <1>4 DEF Look, TypeIds, TypeRest, CallInv, Source, HandlerRest, Steps, anvilVars,
     coVars
<1>5. ASSUME NEW c \in Calls, Find(c) PROVE TypeIds'
  BY <1>5 DEF Find, TypeIds, TypeRest, HandlerRest, anvilVars, coVars
<1>6. ASSUME NEW c \in Calls, NEW m \in Mounts, FreezeStart(c, m) PROVE TypeIds'
  BY <1>6 DEF FreezeStart, TypeIds, TypeRest, HandlerRest, anvilVars, coVars
<1>7. ASSUME NEW c \in Calls, FreezeDone(c) PROVE TypeIds'
  BY <1>7 DEF FreezeDone, TypeIds, TypeRest, FreezeRest, anvilVars, coVars
<1>8. ASSUME NEW c \in Calls, FreezeEnd(c) PROVE TypeIds'
  BY <1>8 DEF FreezeEnd, TypeIds, TypeRest, FreezeRest, anvilVars, coVars
<1>9. ASSUME NEW c \in Calls, SnapTaken(c) PROVE TypeIds'
  <2>1. Take(c) => TypeIds'
    <3> SUFFICES ASSUME Take(c) PROVE TypeIds'
      OBVIOUS
    <3>1. name[c] \in Names /\ src[c] \in Volumes
      BY <1>9 DEF SnapTaken, CallInv
    <3>2. /\ taken' \in Seq(Requests) /\ Len(taken') <= MaxSnaps /\ Len(taken) + 1 \in Ids
          /\ alive' = alive \cup {Len(taken) + 1}
      BY <3>1, TakeAdds
    <3> QED
      BY <3>2, <1>9 DEF SnapTaken, AnvilRest, TypeIds, TypeRest, coVars
  <2> QED
    BY <2>1, <1>9 DEF SnapTaken
<1>10. ASSUME NEW c \in Calls, SnapFails(c) PROVE TypeIds'
  <2>1. Take(c) => TypeIds'
    <3> SUFFICES ASSUME Take(c) PROVE TypeIds'
      OBVIOUS
    <3>1. name[c] \in Names /\ src[c] \in Volumes
      BY <1>10 DEF SnapFails, CallInv
    <3>2. /\ taken' \in Seq(Requests) /\ Len(taken') <= MaxSnaps /\ Len(taken) + 1 \in Ids
          /\ alive' = alive \cup {Len(taken) + 1}
      BY <3>1, TakeAdds
    <3> QED
      BY <3>2, <1>10 DEF SnapFails, AnvilRest, TypeIds, TypeRest, coVars
  <2>2. UNCHANGED anvilVars => TypeIds'
    BY <1>10 DEF SnapFails, AnvilRest, TypeIds, anvilVars, coVars
  <2> QED
    BY <2>1, <2>2, <1>10 DEF SnapFails
<1>11. ASSUME NEW c \in Calls, Store(c) PROVE TypeIds'
  BY <1>11 DEF Store, TypeIds, TypeRest, CallInv, anvilVars, AnvilRest, coVars
<1>12. ASSUME NEW c \in Calls, NEW m \in Mounts, Unfreeze(c, m) PROVE TypeIds'
  BY <1>12 DEF Unfreeze, TypeIds, TypeRest, ThawRest, anvilVars
<1>13. ASSUME NEW c \in Calls, Return(c) PROVE TypeIds'
  <2>1. name[c] \in Names /\ result[c] \in {None} \cup Ids
    BY <1>13 DEF Return, CallInv, TypeIds
  <2>2. answers' \in [Names -> SUBSET Ids]
    BY SMT, <2>1, <1>13 DEF Return, TypeIds
  <2>3. result' \in [Calls -> {None} \cup Ids]
    BY <1>13 DEF Return, TypeIds
  <2> QED
    BY SMT, <1>13 DEF Return, ThawRest, anvilVars, TypeIds
<1>14. ASSUME NEW c \in Calls, Cancel(c) PROVE TypeIds'
  BY <1>14 DEF Cancel, TypeIds, TypeRest, anvilVars, coVars
<1>15. ASSUME NEW c \in Calls, NEW n \in Names, NEW v \in Volumes, CreateSnapshot(c, n, v) PROVE TypeIds'
  BY <1>15 DEF CreateSnapshot, TypeIds, TypeRest, anvilVars, coVars
<1>16. ASSUME NEW n \in Names, NEW id \in Ids, DeleteSnapshot(n, id) PROVE TypeIds'
  BY <1>16 DEF DeleteSnapshot, TypeIds, TypeRest, callVars
<1>17. CASE UNCHANGED vars
  BY <1>17 DEF TypeIds, TypeRest, vars, callVars, anvilVars, coVars
<1> QED
  BY <1>1, <1>2, <1>3, <1>4, <1>5, <1>6, <1>7, <1>8, <1>9, <1>10, <1>11, <1>12,
     <1>13, <1>14, <1>15, <1>16, <1>17 DEF Next, Handler

\* The other variables.
LEMMA RestStep == TypeRest /\ CallInv /\ [Next]_vars => TypeRest'
<1> SUFFICES ASSUME TypeRest /\ CallInv, [Next]_vars PROVE TypeRest'
  OBVIOUS
<1>1. CASE Restart
  BY SMT, <1>1 DEF Restart, TypeRest, CallInv, coVars, Steps
<1>2. ASSUME NEW c \in Calls, Acquire(c) PROVE TypeRest'
  BY <1>2 DEF Acquire, TypeRest, CallInv, Goto, HandlerRest, Steps, coVars
<1>3. ASSUME NEW c \in Calls, AcquireFails(c) PROVE TypeRest'
  BY <1>3 DEF AcquireFails, TypeRest, End, coVars, Steps, Goto
<1>4. ASSUME NEW c \in Calls, Look(c) PROVE TypeRest'
  BY <1>4 DEF Look, TypeRest, Goto, Source, HandlerRest, Steps, coVars
<1>5. ASSUME NEW c \in Calls, Find(c) PROVE TypeRest'
  BY SMT, <1>5, MountsOfVolume DEF Find, TypeRest, CallInv, Goto, HandlerRest, Steps, coVars
<1>6. ASSUME NEW c \in Calls, NEW m \in Mounts, FreezeStart(c, m) PROVE TypeRest'
  BY SMT, <1>6 DEF FreezeStart, TypeRest, Goto, HandlerRest, Steps, coVars
<1>7. ASSUME NEW c \in Calls, FreezeDone(c) PROVE TypeRest'
  BY SMT, <1>7 DEF FreezeDone, TypeRest, CallInv, Goto, FreezeRest, Steps, coVars
<1>8. ASSUME NEW c \in Calls, FreezeEnd(c) PROVE TypeRest'
  BY <1>8 DEF FreezeEnd, TypeRest, Goto, FreezeRest, Steps, coVars
<1>9. ASSUME NEW c \in Calls, SnapTaken(c) PROVE TypeRest'
  BY <1>9 DEF SnapTaken, TypeRest, Goto, AnvilRest, Steps, coVars
<1>10. ASSUME NEW c \in Calls, SnapFails(c) PROVE TypeRest'
  BY <1>10 DEF SnapFails, TypeRest, Goto, AnvilRest, Steps, coVars
<1>11. ASSUME NEW c \in Calls, Store(c) PROVE TypeRest'
  BY <1>11 DEF Store, TypeRest, Goto, AnvilRest, Steps, coVars
<1>12. ASSUME NEW c \in Calls, NEW m \in Mounts, Unfreeze(c, m) PROVE TypeRest'
  BY <1>12 DEF Unfreeze, TypeRest, ThawRest
<1>13. ASSUME NEW c \in Calls, Return(c) PROVE TypeRest'
  BY <1>13 DEF Return, TypeRest, CallInv, End, ThawRest, Steps, Goto
<1>14. ASSUME NEW c \in Calls, Cancel(c) PROVE TypeRest'
  BY <1>14 DEF Cancel, TypeRest, coVars
<1>15. ASSUME NEW c \in Calls, NEW n \in Names, NEW v \in Volumes, CreateSnapshot(c, n, v) PROVE TypeRest'
  BY <1>15 DEF CreateSnapshot, TypeRest, Goto, coVars, Steps
<1>16. ASSUME NEW n \in Names, NEW id \in Ids, DeleteSnapshot(n, id) PROVE TypeRest'
  BY <1>16 DEF DeleteSnapshot, TypeRest, callVars
<1>17. CASE UNCHANGED vars
  BY <1>17 DEF TypeRest, vars, callVars, coVars
<1> QED
  BY <1>1, <1>2, <1>3, <1>4, <1>5, <1>6, <1>7, <1>8, <1>9, <1>10, <1>11, <1>12,
     <1>13, <1>14, <1>15, <1>16, <1>17 DEF Next, Handler

\* What a call has.
LEMMA CallStep == TypeIds /\ TypeRest /\ CallInv /\ [Next]_vars => CallInv'
<1> SUFFICES ASSUME TypeIds /\ TypeRest /\ CallInv, [Next]_vars PROVE CallInv'
  OBVIOUS
<1>1. CASE Restart
  BY <1>1 DEF Restart, TypeIds, TypeRest, CallInv
<1>2. ASSUME NEW c \in Calls, Acquire(c) PROVE CallInv'
  BY <1>2 DEF Acquire, TypeIds, TypeRest, CallInv, Goto, HandlerRest
<1>3. ASSUME NEW c \in Calls, AcquireFails(c) PROVE CallInv'
  BY <1>3 DEF AcquireFails, TypeIds, TypeRest, CallInv, End, Goto
<1>4. ASSUME NEW c \in Calls, Look(c) PROVE CallInv'
  BY SMT, <1>4 DEF Look, TypeIds, TypeRest, CallInv, Goto, Source, HandlerRest
<1>5. ASSUME NEW c \in Calls, Find(c) PROVE CallInv'
  BY <1>5 DEF Find, TypeIds, TypeRest, CallInv, Goto, HandlerRest
<1>6. ASSUME NEW c \in Calls, NEW m \in Mounts, FreezeStart(c, m) PROVE CallInv'
  BY <1>6 DEF FreezeStart, TypeIds, TypeRest, CallInv, Goto, HandlerRest
<1>7. ASSUME NEW c \in Calls, FreezeDone(c) PROVE CallInv'
  BY <1>7 DEF FreezeDone, TypeIds, TypeRest, CallInv, Goto, FreezeRest
<1>8. ASSUME NEW c \in Calls, FreezeEnd(c) PROVE CallInv'
  BY <1>8 DEF FreezeEnd, TypeIds, TypeRest, CallInv, Goto, FreezeRest
<1>9. ASSUME NEW c \in Calls, SnapTaken(c) PROVE CallInv'
  BY SMT, <1>9, NoneAssumption DEF SnapTaken, TypeIds, TypeRest, CallInv, Goto, AnvilRest
<1>10. ASSUME NEW c \in Calls, SnapFails(c) PROVE CallInv'
  BY <1>10 DEF SnapFails, TypeIds, TypeRest, CallInv, Goto, AnvilRest
<1>11. ASSUME NEW c \in Calls, Store(c) PROVE CallInv'
  BY <1>11 DEF Store, TypeIds, TypeRest, CallInv, Goto, AnvilRest
<1>12. ASSUME NEW c \in Calls, NEW m \in Mounts, Unfreeze(c, m) PROVE CallInv'
  BY <1>12 DEF Unfreeze, TypeIds, TypeRest, CallInv, ThawRest
<1>13. ASSUME NEW c \in Calls, Return(c) PROVE CallInv'
  BY <1>13 DEF Return, TypeIds, TypeRest, CallInv, End, ThawRest, Goto
<1>14. ASSUME NEW c \in Calls, Cancel(c) PROVE CallInv'
  BY <1>14 DEF Cancel, TypeIds, TypeRest, CallInv
<1>15. ASSUME NEW c \in Calls, NEW n \in Names, NEW v \in Volumes, CreateSnapshot(c, n, v) PROVE CallInv'
  BY <1>15 DEF CreateSnapshot, TypeIds, TypeRest, CallInv, Goto
<1>16. ASSUME NEW n \in Names, NEW id \in Ids, DeleteSnapshot(n, id) PROVE CallInv'
  BY <1>16 DEF DeleteSnapshot, TypeIds, TypeRest, CallInv, callVars
<1>17. CASE UNCHANGED vars
  BY <1>17 DEF TypeIds, TypeRest, CallInv, vars, callVars
<1> QED
  BY <1>1, <1>2, <1>3, <1>4, <1>5, <1>6, <1>7, <1>8, <1>9, <1>10, <1>11, <1>12,
     <1>13, <1>14, <1>15, <1>16, <1>17 DEF Next, Handler

\* The lock of a name has one holder.
LEMMA LockStep == TypeRest /\ CallInv /\ LockInv /\ [Next]_vars => LockInv'
<1> SUFFICES ASSUME TypeRest /\ CallInv /\ LockInv, [Next]_vars PROVE LockInv'
  OBVIOUS
<1>1. CASE Restart
  BY <1>1 DEF Restart, TypeRest, LockInv
<1>2. ASSUME NEW c \in Calls, Acquire(c) PROVE LockInv'
  BY SMT, <1>2, NoneAssumption DEF Acquire, TypeRest, CallInv, LockInv, Goto, HandlerRest
<1>3. ASSUME NEW c \in Calls, AcquireFails(c) PROVE LockInv'
  BY <1>3 DEF AcquireFails, TypeRest, LockInv, End, Goto
<1>4. ASSUME NEW c \in Calls, Look(c) PROVE LockInv'
  BY <1>4 DEF Look, TypeRest, LockInv, Goto, HandlerRest
<1>5. ASSUME NEW c \in Calls, Find(c) PROVE LockInv'
  BY SMT, <1>5 DEF Find, TypeRest, LockInv, Goto, HandlerRest
<1>6. ASSUME NEW c \in Calls, NEW m \in Mounts, FreezeStart(c, m) PROVE LockInv'
  BY <1>6 DEF FreezeStart, TypeRest, LockInv, Goto, HandlerRest
<1>7. ASSUME NEW c \in Calls, FreezeDone(c) PROVE LockInv'
  BY <1>7 DEF FreezeDone, TypeRest, LockInv, Goto, FreezeRest
<1>8. ASSUME NEW c \in Calls, FreezeEnd(c) PROVE LockInv'
  BY <1>8 DEF FreezeEnd, TypeRest, LockInv, Goto, FreezeRest
<1>9. ASSUME NEW c \in Calls, SnapTaken(c) PROVE LockInv'
  BY <1>9 DEF SnapTaken, TypeRest, LockInv, Goto, AnvilRest
<1>10. ASSUME NEW c \in Calls, SnapFails(c) PROVE LockInv'
  BY <1>10 DEF SnapFails, TypeRest, LockInv, Goto, AnvilRest
<1>11. ASSUME NEW c \in Calls, Store(c) PROVE LockInv'
  BY <1>11 DEF Store, TypeRest, LockInv, Goto, AnvilRest
<1>12. ASSUME NEW c \in Calls, NEW m \in Mounts, Unfreeze(c, m) PROVE LockInv'
  BY <1>12 DEF Unfreeze, TypeRest, LockInv
<1>13. ASSUME NEW c \in Calls, Return(c) PROVE LockInv'
  BY SMT, <1>13 DEF Return, TypeRest, LockInv, End, Goto
<1>14. ASSUME NEW c \in Calls, Cancel(c) PROVE LockInv'
  BY <1>14 DEF Cancel, TypeRest, LockInv
<1>15. ASSUME NEW c \in Calls, NEW n \in Names, NEW v \in Volumes, CreateSnapshot(c, n, v) PROVE LockInv'
  BY <1>15 DEF CreateSnapshot, TypeRest, LockInv, Goto
<1>16. ASSUME NEW n \in Names, NEW id \in Ids, DeleteSnapshot(n, id) PROVE LockInv'
  BY <1>16 DEF DeleteSnapshot, TypeRest, LockInv, callVars
<1>17. CASE UNCHANGED vars
  BY <1>17 DEF TypeRest, LockInv, vars, callVars
<1> QED
  BY <1>1, <1>2, <1>3, <1>4, <1>5, <1>6, <1>7, <1>8, <1>9, <1>10, <1>11, <1>12,
     <1>13, <1>14, <1>15, <1>16, <1>17 DEF Next, Handler

\* A snapshot keeps its name and source.
LEMMA IdStep == TypeIds /\ TypeRest /\ CallInv /\ LockInv /\ IdInv /\ [Next]_vars => IdInv'
<1> SUFFICES ASSUME TypeIds /\ TypeRest /\ CallInv /\ LockInv /\ IdInv, [Next]_vars PROVE IdInv'
  OBVIOUS
<1>1. CASE Restart
  BY <1>1 DEF Restart, TypeIds, TypeRest, IdInv, anvilVars, coVars
<1>2. ASSUME NEW c \in Calls, Acquire(c) PROVE IdInv'
  BY <1>2 DEF Acquire, TypeIds, TypeRest, IdInv, HandlerRest, anvilVars, coVars
<1>3. ASSUME NEW c \in Calls, AcquireFails(c) PROVE IdInv'
  BY SMT, <1>3 DEF AcquireFails, TypeIds, TypeRest, CallInv, IdInv, End, anvilVars, coVars,
     Goto
<1>4. ASSUME NEW c \in Calls, Look(c) PROVE IdInv'
  BY SMT, <1>4 DEF Look, TypeIds, TypeRest, CallInv, IdInv, HandlerRest, anvilVars, coVars
<1>5. ASSUME NEW c \in Calls, Find(c) PROVE IdInv'
  BY <1>5 DEF Find, TypeIds, TypeRest, IdInv, HandlerRest, anvilVars, coVars
<1>6. ASSUME NEW c \in Calls, NEW m \in Mounts, FreezeStart(c, m) PROVE IdInv'
  BY <1>6 DEF FreezeStart, TypeIds, TypeRest, IdInv, HandlerRest, anvilVars, coVars
<1>7. ASSUME NEW c \in Calls, FreezeDone(c) PROVE IdInv'
  BY <1>7 DEF FreezeDone, TypeIds, TypeRest, IdInv, FreezeRest, anvilVars, coVars
<1>8. ASSUME NEW c \in Calls, FreezeEnd(c) PROVE IdInv'
  BY <1>8 DEF FreezeEnd, TypeIds, TypeRest, IdInv, FreezeRest, anvilVars, coVars
<1>9. ASSUME NEW c \in Calls, SnapTaken(c) PROVE IdInv'
  <2>1. /\ name[c] \in Names /\ src[c] \in Volumes /\ Take(c)
        /\ UNCHANGED <<name, src, recent, answers>>
        /\ result' = [result EXCEPT ![c] = Len(taken) + 1]
    BY <1>9 DEF SnapTaken, CallInv, AnvilRest, coVars
  <2>2. /\ Len(taken') = Len(taken) + 1 /\ Len(taken) \in Nat
        /\ \A i \in 1 .. Len(taken) : taken'[i] = taken[i]
        /\ taken'[Len(taken) + 1].name = name[c] /\ taken'[Len(taken) + 1].source = src[c]
    BY <2>1, TakeAdds
  <2>3. /\ 1 .. Len(taken) \subseteq 1 .. Len(taken')
        /\ Len(taken) + 1 \in 1 .. Len(taken')
    BY SMT, <2>2
  <2>4. /\ result'[c] = Len(taken) + 1
        /\ \A d \in Calls : d # c => result'[d] = result[d]
    BY <2>1 DEF TypeIds
  <2>5. \A d \in Calls : result'[d] # None =>
            /\ result'[d] \in 1 .. Len(taken')
            /\ taken'[result'[d]].name = name'[d] /\ taken'[result'[d]].source = src'[d]
    BY SMT, <2>1, <2>2, <2>3, <2>4 DEF IdInv
  <2>6. \A n \in Names : recent'[n] # None =>
            /\ recent'[n].id \in 1 .. Len(taken')
            /\ taken'[recent'[n].id].name = n
            /\ taken'[recent'[n].id].source = recent'[n].source
    BY <2>1, <2>2, <2>3 DEF IdInv
  <2>7. \A n \in Names : \A id \in answers'[n] :
            id \in 1 .. Len(taken') /\ taken'[id].name = n
    BY SMT, <2>1, <2>2, <2>3 DEF IdInv
  <2> QED
    BY <2>5, <2>6, <2>7 DEF IdInv
<1>10. ASSUME NEW c \in Calls, SnapFails(c) PROVE IdInv'
  <2>1. /\ name[c] \in Names /\ src[c] \in Volumes /\ (Take(c) \/ taken' = taken)
        /\ UNCHANGED <<name, src, recent, answers, result>>
    BY <1>10 DEF SnapFails, CallInv, AnvilRest, anvilVars, coVars
  <2>2. /\ \A i \in 1 .. Len(taken) : taken'[i] = taken[i] /\ i \in 1 .. Len(taken')
    <3>1. CASE Take(c)
      <4>1. /\ Len(taken') = Len(taken) + 1 /\ Len(taken) \in Nat
            /\ \A i \in 1 .. Len(taken) : taken'[i] = taken[i]
        BY <2>1, <3>1, TakeAdds
      <4> QED
        BY SMT, <4>1
    <3> QED
      BY <2>1, <3>1
  <2> QED
    BY SMT, <2>1, <2>2 DEF IdInv
<1>11. ASSUME NEW c \in Calls, Store(c) PROVE IdInv'
  BY SMT, <1>11 DEF Store, TypeIds, TypeRest, CallInv, IdInv, anvilVars, AnvilRest, coVars
<1>12. ASSUME NEW c \in Calls, NEW m \in Mounts, Unfreeze(c, m) PROVE IdInv'
  BY <1>12 DEF Unfreeze, TypeIds, TypeRest, IdInv, ThawRest, anvilVars
<1>13. ASSUME NEW c \in Calls, Return(c) PROVE IdInv'
  <2>1. name[c] \in Names /\ taken' = taken /\ recent' = recent
    BY <1>13 DEF Return, ThawRest, CallInv, anvilVars
  <2>2. \A d \in Calls : result'[d] # None =>
            result'[d] = result[d] /\ name'[d] = name[d] /\ src'[d] = src[d]
    BY <1>13 DEF Return, End, TypeIds, TypeRest
  <2>3. \A n \in Names : \A id \in answers'[n] :
            id \in answers[n] \/ (id = result[c] /\ n = name[c] /\ result[c] # None)
    BY SMT, <1>13 DEF Return, TypeIds
  <2>4. \A n \in Names : \A id \in answers'[n] : id \in 1 .. Len(taken) /\ taken[id].name = n
    BY SMT, <2>3 DEF IdInv
  <2>5. \A d \in Calls : result'[d] # None =>
            /\ result'[d] \in 1 .. Len(taken)
            /\ taken[result'[d]].name = name'[d] /\ taken[result'[d]].source = src'[d]
    BY <2>2 DEF IdInv
  <2> QED
    BY <2>1, <2>4, <2>5 DEF IdInv
<1>14. ASSUME NEW c \in Calls, Cancel(c) PROVE IdInv'
  BY <1>14 DEF Cancel, TypeIds, TypeRest, IdInv, anvilVars, coVars
<1>15. ASSUME NEW c \in Calls, NEW n \in Names, NEW v \in Volumes, CreateSnapshot(c, n, v) PROVE IdInv'
  <2>1. result[c] = None /\ UNCHANGED <<result, taken, recent, answers>>
    BY <1>15 DEF CreateSnapshot, CallInv, anvilVars, coVars
  <2>2. \A d \in Calls : d # c => name'[d] = name[d] /\ src'[d] = src[d]
    BY <1>15 DEF CreateSnapshot, TypeRest
  <2> QED
    BY <2>1, <2>2 DEF IdInv
<1>16. ASSUME NEW n \in Names, NEW id \in Ids, DeleteSnapshot(n, id) PROVE IdInv'
  BY <1>16 DEF DeleteSnapshot, TypeIds, TypeRest, IdInv, callVars
<1>17. CASE UNCHANGED vars
  BY <1>17 DEF TypeIds, TypeRest, IdInv, vars, callVars, anvilVars, coVars
<1> QED
  BY <1>1, <1>2, <1>3, <1>4, <1>5, <1>6, <1>7, <1>8, <1>9, <1>10, <1>11, <1>12,
     <1>13, <1>14, <1>15, <1>16, <1>17 DEF Next, Handler

\* Answers agree with the map of recent snapshots.
LEMMA AnswerStep == TypeIds /\ TypeRest /\ CallInv /\ LockInv /\ IdInv /\ AnswerInv /\ [Next]_vars => AnswerInv'
<1> SUFFICES ASSUME TypeIds /\ TypeRest /\ CallInv /\ LockInv /\ IdInv /\ AnswerInv, [Next]_vars PROVE AnswerInv'
  OBVIOUS
<1>1. CASE Restart
  BY <1>1 DEF Restart, TypeIds, TypeRest, AnswerInv
<1>2. ASSUME NEW c \in Calls, Acquire(c) PROVE AnswerInv'
  BY SMT, <1>2 DEF Acquire, TypeIds, TypeRest, AnswerInv, Goto, HandlerRest, coVars
<1>3. ASSUME NEW c \in Calls, AcquireFails(c) PROVE AnswerInv'
  BY <1>3 DEF AcquireFails, TypeIds, TypeRest, AnswerInv, End, coVars, Goto
<1>4. ASSUME NEW c \in Calls, Look(c) PROVE AnswerInv'
  BY SMT, <1>4 DEF Look, TypeIds, TypeRest, CallInv, AnswerInv, Goto, HandlerRest, coVars
<1>5. ASSUME NEW c \in Calls, Find(c) PROVE AnswerInv'
  BY <1>5 DEF Find, TypeIds, TypeRest, AnswerInv, Goto, HandlerRest, coVars
<1>6. ASSUME NEW c \in Calls, NEW m \in Mounts, FreezeStart(c, m) PROVE AnswerInv'
  BY SMT, <1>6 DEF FreezeStart, TypeIds, TypeRest, AnswerInv, Goto, HandlerRest, coVars
<1>7. ASSUME NEW c \in Calls, FreezeDone(c) PROVE AnswerInv'
  BY SMT, <1>7 DEF FreezeDone, TypeIds, TypeRest, AnswerInv, Goto, FreezeRest, coVars
<1>8. ASSUME NEW c \in Calls, FreezeEnd(c) PROVE AnswerInv'
  BY <1>8 DEF FreezeEnd, TypeIds, TypeRest, AnswerInv, Goto, FreezeRest, coVars
<1>9. ASSUME NEW c \in Calls, SnapTaken(c) PROVE AnswerInv'
  BY <1>9 DEF SnapTaken, TypeIds, TypeRest, AnswerInv, Goto, AnvilRest, coVars
<1>10. ASSUME NEW c \in Calls, SnapFails(c) PROVE AnswerInv'
  BY <1>10 DEF SnapFails, TypeIds, TypeRest, CallInv, AnswerInv, Goto, AnvilRest, coVars
<1>11. ASSUME NEW c \in Calls, Store(c) PROVE AnswerInv'
  <2>1. /\ name[c] \in Names /\ recent[name[c]] = None /\ result[c] # None
        /\ lock[name[c]] = c /\ pc[c] = "store"
    BY <1>11 DEF Store, CallInv, AnswerInv, LockInv
  <2>2. /\ UNCHANGED <<name, result, restarted, answers>>
        /\ \A d \in Calls : pc'[d] = IF d = c THEN "thaw" ELSE pc[d]
        /\ \A n \in Names : n # name[c] => recent'[n] = recent[n]
        /\ recent'[name[c]] = [id |-> result[c], source |-> src[c]]
    BY <1>11, <2>1 DEF Store, Goto, AnvilRest, coVars, TypeIds, TypeRest
  <2>3. recent'[name[c]] # None /\ recent'[name[c]].id = result[c]
    <3>1. recent'[name[c]] \in [id : Ids, source : Volumes]
      BY SMT, <2>1, <2>2, <1>11 DEF Store, CallInv, TypeIds
    <3>2. recent'[name[c]] # None
      BY <3>1, NoneAssumption
    <3> QED
      BY SMT, <2>2, <3>2
  <2>4. \A d \in Calls : d # c /\ pc[d] \notin {"idle", "lock"} => name[d] # name[c]
    BY <2>1 DEF LockInv
  <2>5. \A d \in Calls : pc[d] # "idle" => name[d] \in Names
    BY DEF CallInv
  <2>6. \A d \in Calls : pc'[d] \in {"find", "freeze", "freezing", "snap", "store"} =>
            recent'[name'[d]] = None
    BY <2>2, <2>4, <2>5 DEF AnswerInv
  <2>7. \A d \in Calls : pc'[d] = "thaw" /\ result'[d] # None =>
            recent'[name'[d]] # None /\ recent'[name'[d]].id = result'[d]
    BY SMT, <2>2, <2>3, <2>4, <2>5 DEF AnswerInv
  <2>8. ~restarted' => \A n \in Names : \A id \in answers'[n] :
            recent'[n] # None /\ recent'[n].id = id
    BY SMT, <2>1, <2>2 DEF AnswerInv
  <2> QED
    BY <2>6, <2>7, <2>8 DEF AnswerInv
<1>12. ASSUME NEW c \in Calls, NEW m \in Mounts, Unfreeze(c, m) PROVE AnswerInv'
  BY <1>12 DEF Unfreeze, TypeIds, TypeRest, AnswerInv, ThawRest
<1>13. ASSUME NEW c \in Calls, Return(c) PROVE AnswerInv'
  <2>1. name[c] \in Names /\ recent' = recent /\ restarted' = restarted /\ pc[c] = "thaw"
    BY <1>13 DEF Return, ThawRest, CallInv
  <2>2. \A d \in Calls : pc'[d] # "idle" =>
            pc'[d] = pc[d] /\ name'[d] = name[d] /\ result'[d] = result[d]
    BY <1>13 DEF Return, End, Goto, TypeIds, TypeRest
  <2>3. \A n \in Names : \A id \in answers'[n] :
            id \in answers[n] \/ (id = result[c] /\ n = name[c] /\ result[c] # None)
    BY SMT, <1>13 DEF Return, TypeIds
  <2>4. ~restarted' => \A n \in Names : \A id \in answers'[n] :
            recent'[n] # None /\ recent'[n].id = id
    BY SMT, <2>1, <2>3 DEF AnswerInv
  <2> QED
    BY SMT, <2>1, <2>2, <2>4 DEF AnswerInv
<1>14. ASSUME NEW c \in Calls, Cancel(c) PROVE AnswerInv'
  BY <1>14 DEF Cancel, TypeIds, TypeRest, AnswerInv, coVars
<1>15. ASSUME NEW c \in Calls, NEW n \in Names, NEW v \in Volumes, CreateSnapshot(c, n, v) PROVE AnswerInv'
  <2>1. UNCHANGED <<result, recent, answers, restarted>> /\ pc'[c] = "lock"
    BY <1>15 DEF CreateSnapshot, Goto, TypeRest, anvilVars, coVars
  <2>2. \A d \in Calls : d # c => name'[d] = name[d] /\ pc'[d] = pc[d]
    BY <1>15 DEF CreateSnapshot, Goto, TypeRest
  <2> QED
    BY SMT, <2>1, <2>2 DEF AnswerInv
<1>16. ASSUME NEW n \in Names, NEW id \in Ids, DeleteSnapshot(n, id) PROVE AnswerInv'
  BY <1>16 DEF DeleteSnapshot, TypeIds, TypeRest, AnswerInv, callVars
<1>17. CASE UNCHANGED vars
  BY <1>17 DEF TypeIds, TypeRest, AnswerInv, vars, callVars, coVars
<1> QED
  BY <1>1, <1>2, <1>3, <1>4, <1>5, <1>6, <1>7, <1>8, <1>9, <1>10, <1>11, <1>12,
     <1>13, <1>14, <1>15, <1>16, <1>17 DEF Next, Handler

\* What is kept depends on the Anvil's snapshots and on the names the CO deleted.
LEMMA KeptSame == UNCHANGED <<alive, taken, dropped>> => Kept' = Kept
BY DEF Kept, LostWithAnother, DeletedWith, fileSnapshotTimestamp

\* Taking a snapshot keeps those there are, and the new one.
LEMMA KeptTake ==
    ASSUME TypeIds, IdInv, NEW c \in Calls, name[c] \in Names, src[c] \in Volumes, Take(c),
           dropped' = dropped
    PROVE  /\ \A id \in 1 .. Len(taken) : id \in Kept => id \in Kept'
           /\ Len(taken) + 1 \in Kept'
<1>1. /\ Len(taken') = Len(taken) + 1 /\ Len(taken) \in Nat /\ Len(taken) + 1 \in Ids
      /\ \A i \in 1 .. Len(taken) : taken'[i] = taken[i]
      /\ alive' = alive \cup {Len(taken) + 1}
  BY TakeAdds
<1>2. 1 .. Len(taken) \subseteq 1 .. Len(taken')
  BY SMT, <1>1
<1>3. ASSUME NEW id \in 1 .. Len(taken), id \in Kept PROVE id \in Kept'
  BY <1>1, <1>2, <1>3 DEF Kept, LostWithAnother, DeletedWith, fileSnapshotTimestamp
<1>4. Len(taken) + 1 \in Kept'
  BY <1>1 DEF Kept
<1> QED
  BY <1>3, <1>4

\* A step keeps the snapshots that can be answered with, when the handlers at "store"
\* and the calls waited for are among those of before, and neither the memory nor the
\* answers change.
LEMMA AliveKept ==
  ASSUME AliveInv, UNCHANGED <<recent, answers, dropped>>,
         \A d \in Calls : pc'[d] = "store" =>
             pc[d] = "store" /\ result'[d] = result[d] /\ name'[d] = name[d],
         \A d \in Calls : pc'[d] # "idle" /\ ~cancelled'[d] =>
             pc[d] # "idle" /\ ~cancelled[d] /\ name'[d] = name[d],
         \A d \in Calls : pc[d] = "store" /\ result[d] \in Kept => result[d] \in Kept',
         \A n \in Names : recent[n] # None /\ recent[n].id \in Kept => recent[n].id \in Kept'
  PROVE  AliveInv'
  BY DEF AliveInv

\* Snapshots that can be answered with exist.
LEMMA AliveStep == TypeIds /\ TypeRest /\ CallInv /\ LockInv /\ TypeFlags /\ IdInv /\ AnswerInv /\ AliveInv /\ [Next]_vars => AliveInv'
<1> SUFFICES ASSUME TypeIds /\ TypeRest /\ CallInv /\ LockInv /\ TypeFlags /\ IdInv /\ AnswerInv /\ AliveInv, [Next]_vars PROVE AliveInv'
  OBVIOUS
<1>1. CASE Restart
  BY <1>1, KeptSame DEF Restart, TypeIds, TypeRest, TypeFlags, AliveInv, anvilVars, coVars
<1>2. ASSUME NEW c \in Calls, Acquire(c) PROVE AliveInv'
  <2>1. /\ UNCHANGED <<name, cancelled, recent, alive, taken, answers, dropped>>
    BY <1>2 DEF Acquire, HandlerRest, anvilVars, coVars
  <2>2. \A d \in Calls : \/ pc'[d] = pc[d] /\ result'[d] = result[d]
                         \/ pc[d] # "idle" /\ pc'[d] # "store"
    BY <1>2 DEF Acquire, TypeRest, Goto
  <2> QED
    BY <2>1, <2>2, AliveKept, KeptSame
<1>3. ASSUME NEW c \in Calls, AcquireFails(c) PROVE AliveInv'
  BY <1>3, KeptSame DEF AcquireFails, TypeIds, TypeRest, TypeFlags, AliveInv, End, anvilVars,
     coVars, Goto
<1>4. ASSUME NEW c \in Calls, Look(c) PROVE AliveInv'
  <2>1. /\ UNCHANGED <<name, cancelled, recent, alive, taken, answers, dropped>>
    BY <1>4 DEF Look, HandlerRest, anvilVars, coVars
  <2>2. \A d \in Calls : \/ pc'[d] = pc[d] /\ result'[d] = result[d]
                         \/ pc[d] # "idle" /\ pc'[d] # "store"
    BY <1>4 DEF Look, Source, TypeRest, TypeIds, Goto
  <2> QED
    BY <2>1, <2>2, AliveKept, KeptSame
<1>5. ASSUME NEW c \in Calls, Find(c) PROVE AliveInv'
  <2>1. /\ UNCHANGED <<name, cancelled, recent, alive, taken, answers, dropped>>
    BY <1>5 DEF Find, HandlerRest, anvilVars, coVars
  <2>2. \A d \in Calls : \/ pc'[d] = pc[d] /\ result'[d] = result[d]
                         \/ pc[d] # "idle" /\ pc'[d] # "store"
    BY <1>5 DEF Find, TypeRest, Goto
  <2> QED
    BY <2>1, <2>2, AliveKept, KeptSame
<1>6. ASSUME NEW c \in Calls, NEW m \in Mounts, FreezeStart(c, m) PROVE AliveInv'
  <2>1. /\ UNCHANGED <<name, result, cancelled, recent, alive, taken, answers, dropped>>
        /\ \A d \in Calls : pc'[d] = pc[d] \/ (pc[d] # "idle" /\ pc'[d] # "store")
    BY <1>6 DEF FreezeStart, TypeRest, Goto, HandlerRest, anvilVars, coVars
  <2> QED
    BY <2>1, KeptSame DEF AliveInv
<1>7. ASSUME NEW c \in Calls, FreezeDone(c) PROVE AliveInv'
  <2>1. /\ UNCHANGED <<name, cancelled, recent, alive, taken, answers, dropped>>
    BY <1>7 DEF FreezeDone, FreezeRest, anvilVars, coVars
  <2>2. \A d \in Calls : \/ pc'[d] = pc[d] /\ result'[d] = result[d]
                         \/ pc[d] # "idle" /\ pc'[d] # "store"
    BY <1>7 DEF FreezeDone, FreezeRest, TypeRest, Goto
  <2> QED
    BY <2>1, <2>2, AliveKept, KeptSame
<1>8. ASSUME NEW c \in Calls, FreezeEnd(c) PROVE AliveInv'
  <2>1. /\ UNCHANGED <<name, cancelled, recent, alive, taken, answers, dropped>>
    BY <1>8 DEF FreezeEnd, FreezeRest, anvilVars, coVars
  <2>2. \A d \in Calls : \/ pc'[d] = pc[d] /\ result'[d] = result[d]
                         \/ pc[d] # "idle" /\ pc'[d] # "store"
    BY <1>8 DEF FreezeEnd, FreezeRest, TypeRest, Goto
  <2> QED
    BY <2>1, <2>2, AliveKept, KeptSame
<1>9. ASSUME NEW c \in Calls, SnapTaken(c) PROVE AliveInv'
  <2>1. UNCHANGED <<name, cancelled, recent, answers, dropped>> /\ Take(c)
    BY <1>9 DEF SnapTaken, AnvilRest, coVars
  <2>2. /\ pc[c] = "snap" /\ result'[c] = Len(taken) + 1
        /\ \A d \in Calls \ {c} : pc'[d] = pc[d] /\ result'[d] = result[d]
    BY <1>9 DEF SnapTaken, TypeIds, TypeRest, Goto
  <2>3. name[c] \in Names /\ src[c] \in Volumes
    BY <2>2 DEF CallInv
  <2>4. Len(taken) + 1 \notin answers[name[c]]
    BY SMT, <2>3 DEF IdInv, TypeIds
  <2>5. /\ \A id \in 1 .. Len(taken) : id \in Kept => id \in Kept'
        /\ Len(taken) + 1 \in Kept'
    BY <2>1, <2>3, KeptTake
  <2>6. /\ \A d \in Calls : pc[d] = "store" => result[d] \in 1 .. Len(taken)
        /\ \A n \in Names : recent[n] # None => recent[n].id \in 1 .. Len(taken)
    BY DEF IdInv, CallInv
  <2> QED
    BY <2>1, <2>2, <2>4, <2>5, <2>6 DEF AliveInv
<1>10. ASSUME NEW c \in Calls, SnapFails(c) PROVE AliveInv'
  <2>1. /\ UNCHANGED <<name, cancelled, recent, answers, dropped>>
        /\ Take(c) \/ UNCHANGED <<alive, taken>>
    BY <1>10 DEF SnapFails, AnvilRest, anvilVars, coVars
  <2>2. \A d \in Calls : \/ pc'[d] = pc[d] /\ result'[d] = result[d]
                         \/ pc[d] # "idle" /\ pc'[d] # "store"
    BY <1>10 DEF SnapFails, TypeRest, Goto
  <2>3. name[c] \in Names /\ src[c] \in Volumes
    BY <1>10 DEF SnapFails, CallInv
  <2>4. \A id \in 1 .. Len(taken) : id \in Kept => id \in Kept'
    BY <2>1, <2>3, KeptTake, KeptSame
  <2>5. /\ \A d \in Calls : pc[d] = "store" => result[d] \in 1 .. Len(taken)
        /\ \A n \in Names : recent[n] # None => recent[n].id \in 1 .. Len(taken)
    BY DEF IdInv, CallInv
  <2> QED
    BY <2>1, <2>2, <2>4, <2>5, AliveKept
<1>11. ASSUME NEW c \in Calls, Store(c) PROVE AliveInv'
  <2>1. /\ UNCHANGED <<name, result, cancelled, alive, taken, answers, dropped>>
        /\ pc[c] = "store" /\ pc'[c] = "thaw" /\ \A d \in Calls : d # c => pc'[d] = pc[d]
    BY <1>11 DEF Store, TypeRest, Goto, anvilVars, AnvilRest, coVars
  <2>2. \A n \in Names : recent'[n] = recent[n] \/ recent'[n].id = result[c]
    BY <1>11 DEF Store, TypeIds
  <2>3. result[c] \in Kept
    BY <2>1 DEF AliveInv
  <2> QED
    BY <2>1, <2>2, <2>3, KeptSame DEF AliveInv
<1>12. ASSUME NEW c \in Calls, NEW m \in Mounts, Unfreeze(c, m) PROVE AliveInv'
  <2>1. /\ UNCHANGED <<name, cancelled, recent, alive, taken, answers, dropped>>
    BY <1>12 DEF Unfreeze, ThawRest, anvilVars
  <2>2. \A d \in Calls : \/ pc'[d] = pc[d] /\ result'[d] = result[d]
                         \/ pc[d] # "idle" /\ pc'[d] # "store"
    BY <1>12 DEF Unfreeze
  <2> QED
    BY <2>1, <2>2, AliveKept, KeptSame
<1>13. ASSUME NEW c \in Calls, Return(c) PROVE AliveInv'
  <2>1. /\ UNCHANGED <<recent, alive, taken, dropped>> /\ pc[c] = "thaw" /\ pc'[c] = "idle"
        /\ \A d \in Calls \ {c} : /\ pc'[d] = pc[d] /\ result'[d] = result[d]
                                 /\ name'[d] = name[d] /\ cancelled'[d] = cancelled[d]
    BY <1>13 DEF Return, End, Goto, ThawRest, anvilVars, TypeIds, TypeRest, TypeFlags
  <2>2. \A n \in Names : n # name[c] => answers'[n] = answers[n]
    BY <1>13 DEF Return, TypeIds
  <2>3. \A d \in Calls \ {c} : pc[d] = "store" => name[d] \in Names /\ name[d] # name[c]
    BY SMT, <2>1 DEF CallInv, LockInv
  <2> QED
    BY SMT, <2>1, <2>2, <2>3, KeptSame DEF AliveInv
<1>14. ASSUME NEW c \in Calls, Cancel(c) PROVE AliveInv'
  <2>1. UNCHANGED <<pc, name, result, recent, alive, taken, answers, dropped>>
    BY <1>14 DEF Cancel, anvilVars, coVars
  <2>2. \A d \in Calls : cancelled'[d] = cancelled[d] \/ cancelled'[d]
    BY <1>14 DEF Cancel, TypeFlags
  <2> QED
    BY <2>1, <2>2, AliveKept, KeptSame
<1>15. ASSUME NEW c \in Calls, NEW n \in Names, NEW v \in Volumes, CreateSnapshot(c, n, v) PROVE AliveInv'
  <2>1. /\ UNCHANGED <<cancelled, result, recent, alive, taken, answers, dropped>>
        /\ n \notin dropped
    BY <1>15 DEF CreateSnapshot, anvilVars, coVars
  <2>2. /\ pc'[c] = "lock" /\ name'[c] = n
        /\ \A d \in Calls \ {c} : pc'[d] = pc[d] /\ name'[d] = name[d]
    BY <1>15 DEF CreateSnapshot, Goto, TypeIds, TypeRest, CallInv
  <2> QED
    BY <2>1, <2>2, KeptSame DEF AliveInv
<1>16. ASSUME NEW n \in Names, NEW id \in Ids, DeleteSnapshot(n, id) PROVE AliveInv'
  <2>1. /\ id \in answers[n] /\ ~InUse(n) /\ dropped' = dropped \cup {n}
        /\ alive' = {other \in alive : ~DeletedWith(id, other)}
        /\ UNCHANGED <<pc, name, cancelled, result, recent, taken, answers>>
    BY <1>16 DEF DeleteSnapshot, callVars
  <2>2. \A c \in Calls : pc[c] = "store" => result[c] # id
    BY SMT, <2>1 DEF IdInv, AliveInv, InUse, CallInv
  <2>3. \A m \in Names : m # n /\ recent[m] # None => recent[m].id # id
    BY SMT, <2>1 DEF IdInv
  <2>4. \A c \in Calls : pc[c] # "idle" /\ ~cancelled[c] => name[c] # n
    BY <2>1 DEF InUse
  <2>5. id \in 1 .. Len(taken) /\ taken[id].name = n
    BY <2>1 DEF IdInv
  <2>6. ASSUME NEW other \in Kept, other # id PROVE other \in Kept'
    <3>1. other \in Ids
      BY DEF Kept
    <3>2. CASE LostWithAnother(other)
      BY <2>1, <3>1, <3>2 DEF Kept, LostWithAnother, DeletedWith, fileSnapshotTimestamp
    <3>3. CASE other \in alive /\ DeletedWith(id, other)
      BY <2>1, <2>5, <2>6, <3>1, <3>3 DEF Kept, LostWithAnother, DeletedWith, fileSnapshotTimestamp
    <3>4. CASE other \in alive /\ ~DeletedWith(id, other)
      BY <2>1, <3>1, <3>4 DEF Kept
    <3> QED
      BY <3>2, <3>3, <3>4 DEF Kept
  <2> QED
    BY <2>1, <2>2, <2>3, <2>4, <2>6 DEF AliveInv
<1>17. CASE UNCHANGED vars
  BY <1>17, AliveKept, KeptSame DEF vars, callVars, anvilVars, coVars
<1> QED
  BY <1>1, <1>2, <1>3, <1>4, <1>5, <1>6, <1>7, <1>8, <1>9, <1>10, <1>11, <1>12,
     <1>13, <1>14, <1>15, <1>16, <1>17 DEF Next, Handler

\* Frozen filesystems have one owner.
LEMMA FrozenStep == TypeRest /\ CallInv /\ FrozenInv /\ [Next]_vars => FrozenInv'
<1> SUFFICES ASSUME TypeRest /\ CallInv /\ FrozenInv, [Next]_vars PROVE FrozenInv'
  OBVIOUS
<1>1. CASE Restart
  BY <1>1 DEF Restart, TypeRest, FrozenInv, QuiescedWhileHeld, NoneLeftFrozen
<1>2. ASSUME NEW c \in Calls, Acquire(c) PROVE FrozenInv'
  BY <1>2 DEF Acquire, TypeRest, FrozenInv, HandlerRest, QuiescedWhileHeld,
     NoneLeftFrozen
<1>3. ASSUME NEW c \in Calls, AcquireFails(c) PROVE FrozenInv'
  BY <1>3 DEF AcquireFails, TypeRest, FrozenInv, QuiescedWhileHeld, NoneLeftFrozen
<1>4. ASSUME NEW c \in Calls, Look(c) PROVE FrozenInv'
  BY <1>4 DEF Look, TypeRest, FrozenInv, HandlerRest, QuiescedWhileHeld, NoneLeftFrozen
<1>5. ASSUME NEW c \in Calls, Find(c) PROVE FrozenInv'
  BY <1>5 DEF Find, TypeRest, FrozenInv, HandlerRest, QuiescedWhileHeld, NoneLeftFrozen
<1>6. ASSUME NEW c \in Calls, NEW m \in Mounts, FreezeStart(c, m) PROVE FrozenInv'
  BY <1>6 DEF FreezeStart, TypeRest, FrozenInv, HandlerRest, QuiescedWhileHeld,
     NoneLeftFrozen
<1>7. ASSUME NEW c \in Calls, FreezeDone(c) PROVE FrozenInv'
  BY SMT, <1>7 DEF FreezeDone, TypeRest, FrozenInv, QuiescedWhileHeld, NoneLeftFrozen
<1>8. ASSUME NEW c \in Calls, FreezeEnd(c) PROVE FrozenInv'
  BY <1>8 DEF FreezeEnd, TypeRest, FrozenInv, QuiescedWhileHeld, NoneLeftFrozen
<1>9. ASSUME NEW c \in Calls, SnapTaken(c) PROVE FrozenInv'
  BY <1>9 DEF SnapTaken, TypeRest, FrozenInv, AnvilRest, QuiescedWhileHeld,
     NoneLeftFrozen
<1>10. ASSUME NEW c \in Calls, SnapFails(c) PROVE FrozenInv'
  BY <1>10 DEF SnapFails, TypeRest, FrozenInv, AnvilRest, QuiescedWhileHeld,
     NoneLeftFrozen
<1>11. ASSUME NEW c \in Calls, Store(c) PROVE FrozenInv'
  BY <1>11 DEF Store, TypeRest, FrozenInv, AnvilRest, QuiescedWhileHeld, NoneLeftFrozen
<1>12. ASSUME NEW c \in Calls, NEW m \in Mounts, Unfreeze(c, m) PROVE FrozenInv'
  BY <1>12 DEF Unfreeze, TypeRest, FrozenInv, QuiescedWhileHeld, NoneLeftFrozen
<1>13. ASSUME NEW c \in Calls, Return(c) PROVE FrozenInv'
  BY <1>13 DEF Return, TypeRest, FrozenInv, QuiescedWhileHeld, NoneLeftFrozen
<1>14. ASSUME NEW c \in Calls, Cancel(c) PROVE FrozenInv'
  BY <1>14 DEF Cancel, TypeRest, FrozenInv, QuiescedWhileHeld, NoneLeftFrozen
<1>15. ASSUME NEW c \in Calls, NEW n \in Names, NEW v \in Volumes, CreateSnapshot(c, n, v) PROVE FrozenInv'
  BY <1>15 DEF CreateSnapshot, TypeRest, FrozenInv, QuiescedWhileHeld, NoneLeftFrozen
<1>16. ASSUME NEW n \in Names, NEW id \in Ids, DeleteSnapshot(n, id) PROVE FrozenInv'
  BY <1>16 DEF DeleteSnapshot, TypeRest, FrozenInv, callVars, QuiescedWhileHeld,
     NoneLeftFrozen
<1>17. CASE UNCHANGED vars
  BY <1>17 DEF TypeRest, FrozenInv, vars, QuiescedWhileHeld, NoneLeftFrozen, callVars
<1> QED
  BY <1>1, <1>2, <1>3, <1>4, <1>5, <1>6, <1>7, <1>8, <1>9, <1>10, <1>11, <1>12,
     <1>13, <1>14, <1>15, <1>16, <1>17 DEF Next, Handler

LEMMA NextIInv == IInv /\ [Next]_vars => IInv'
<1> SUFFICES ASSUME IInv, [Next]_vars PROVE IInv'
  OBVIOUS
<1>1. TypeFlags /\ TypeNums /\ TypeIds /\ TypeRest
  BY TypeParts DEF IInv
<1>2. TypeFlags' /\ TypeNums' /\ TypeIds' /\ TypeRest'
  BY <1>1, FlagsStep, NumsStep, IdsStep, RestStep DEF IInv
<1>3. TypeOK'
  BY <1>2 DEF TypeOK, TypeFlags, TypeNums, TypeIds, TypeRest, Requests
<1>4. CallInv' /\ LockInv' /\ IdInv' /\ AnswerInv' /\ AliveInv' /\ FrozenInv'
  BY <1>1, CallStep, LockStep, IdStep, AnswerStep, AliveStep, FrozenStep DEF IInv
<1> QED
  BY <1>3, <1>4 DEF IInv

\* What the invariant says of answers.
LEMMA IInvSafe == IInv => SameNameSameSnapshot /\ AnswerIsRight /\ QuiescedWhileHeld /\ NoneLeftFrozen
<1> SUFFICES ASSUME IInv PROVE SameNameSameSnapshot /\ AnswerIsRight /\ QuiescedWhileHeld /\ NoneLeftFrozen
  OBVIOUS
<1>1. SameNameSameSnapshot
  BY SMT DEF IInv, AnswerInv, SameNameSameSnapshot
<1>2. AnswerIsRight
  <2> SUFFICES ASSUME NEW c \in Calls, pc[c] = "thaw", result[c] # None, ~cancelled[c]
               PROVE  /\ taken[result[c]].source = src[c]
                      /\ result[c] \in alive \/ LostWithAnother(result[c])
    BY DEF AnswerIsRight
  <2>1. name[c] \in Names /\ name[c] \notin dropped
    BY DEF IInv, CallInv, AliveInv
  <2>2. result[c] \in Kept
    BY <2>1 DEF IInv, AnswerInv, AliveInv
  <2> QED
    BY <2>2 DEF IInv, IdInv, Kept
<1>3. QuiescedWhileHeld /\ NoneLeftFrozen
  BY DEF IInv, FrozenInv
<1> QED
  BY <1>1, <1>2, <1>3

\* For any calls, names, volumes and nodes and any number of faults: overlapping and
\* retried CreateSnapshot calls with one name get one snapshot until the process
\* restarts; a live call is answered with a snapshot that is of its volume, and that
\* exists unless another one of the same file and second was deleted;
\* what a handler froze stays frozen until it unfreezes it; and only a lost exec or a
\* restart leaves a filesystem frozen with nobody to unfreeze it.
THEOREM Invariance ==
    Spec => [](TypeOK /\ SameNameSameSnapshot /\ AnswerIsRight /\ QuiescedWhileHeld
               /\ NoneLeftFrozen)
<1>1. IInv => TypeOK
  BY DEF IInv
<1> QED
  BY <1>1, InitIInv, NextIInv, IInvSafe, PTL DEF Spec

\* Every variable keeps its type, for any calls, names, volumes, nodes and faults.
THEOREM TypeCorrect == Spec => []TypeOK
BY Invariance, PTL

\* Any number of CreateSnapshot calls with one name, overlapping or retried, are answered
\* with one snapshot until the process restarts: the snapshot lock covers the lookup in
\* recentlyCreatedSnapshots, the snapshot and its entry.
THEOREM SameNameSameSnapshotHolds == Spec => []SameNameSameSnapshot
BY Invariance, PTL

\* A live CreateSnapshot call is answered with a snapshot of the volume it names, also out of
\* recentlyCreatedSnapshots, and that snapshot exists unless the CO deleted another one that
\* was taken of the same file in the same second (DeleteFileSnapshot), for any times the
\* snapshots are taken at.
THEOREM AnswerIsRightHolds == Spec => []AnswerIsRight
BY Invariance, PTL

\* No handler unfreezes what another one froze and still needs (FreezeForVolumeHandle,
\* Unfreeze), for any number of snapshots of one volume at once.
THEOREM QuiescedWhileHeldHolds == Spec => []QuiescedWhileHeld
BY Invariance, PTL

\* Only an fsfreeze whose answer was lost, and a restart, leave a filesystem frozen that no
\* handler's deferred Unfreeze will reach.
THEOREM NoneLeftFrozenHolds == Spec => []NoneLeftFrozen
BY Invariance, PTL

=============================================================================
