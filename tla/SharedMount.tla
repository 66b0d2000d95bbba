---------------------------- MODULE SharedMount -----------------------------
(***************************************************************************)
(* What acquireBackingMount and releaseBackingMount promise together       *)
(* (pkg/driver/utils.go): users come and go, and the share may be mounted, *)
(* remounted or unmounted freely only while nobody uses it.                *)
(***************************************************************************)
CONSTANT Users

VARIABLES users,   \* calls between acquire and release
          mounted  \* something is mounted at the staging directory

Init == users = {} /\ mounted \in BOOLEAN

\* A user gets in only with the share mounted.
Acquire(u) ==
    /\ users' = users \cup {u}
    /\ mounted' = TRUE
    /\ mounted \/ users = {}

\* One user leaves, or all of them with the process; the mount is not touched.
Release(gone) ==
    /\ users' = users \ gone
    /\ mounted' = mounted

\* Mounting never hurts; unmounting needs the last user to have left.
Remount ==
    /\ mounted' \in BOOLEAN
    /\ users # {} => mounted' = TRUE
    /\ users' = users

Next ==
    \/ \E u \in Users : Acquire(u)
    \/ \E gone \in SUBSET Users : Release(gone)
    \/ Remount

Spec == Init /\ [][Next]_<<users, mounted>>
=============================================================================
