--------------------------- MODULE ExclusiveLock ---------------------------
(***************************************************************************)
(* What withExclusiveLock and withSharedStateLockEffect promise their      *)
(* callers (apps/api/src/persistence.ts): at most one task at a time is    *)
(* inside the lock.  StateLock implements this module; the modules about   *)
(* what is done inside the lock are built on it.                           *)
(***************************************************************************)
CONSTANT Task

VARIABLE holders   \* the tasks inside the lock

Init == holders = {}

Enter(t) == holders = {} /\ holders' = {t}

\* By its own release, or by the death of its process.
Leave(t) == t \in holders /\ holders' = holders \ {t}

Next == \E t \in Task : Enter(t) \/ Leave(t)

Spec == Init /\ [][Next]_holders

\* The promise, as an invariant.
AtMostOne == \A t, u \in holders : t = u
=============================================================================
