---------------------------- MODULE MCStateFile ----------------------------
(***************************************************************************)
(* The state file and what guards it, in one run; part says which instance *)
(* this behaviour is of, and the others stay as they are:                  *)
(*   "lock"      tasks that die anywhere outside the reclaim lock;         *)
(*   "recovery"  tasks that die inside it too, and leave a reclaim file    *)
(*               behind: that the lock stays usable.  That it excludes is  *)
(*               not claimed there; statelock_reclaim_race refutes it;     *)
(*   "requests"  the operations that run inside the lock.                  *)
(***************************************************************************)
EXTENDS MCStateLock, MCRuntimeStore

CONSTANT Parts
VARIABLES part, rFile, rAlive, rPc, rExpired

recoveryVars == <<rFile, rAlive, rPc, rExpired>>
Recovery == INSTANCE StateLock WITH
  FaultAt <- AfterPidWrite,
  file <- rFile, alive <- rAlive, pc <- rPc, expired <- rExpired

StateFileInit == part \in Parts /\ Init /\ Recovery!Init /\ StoreInit

StateFileNext ==
  /\ UNCHANGED part
  /\ \/ part = "lock" /\ Next /\ UNCHANGED <<recoveryVars, storeVars>>
     \/ part = "recovery" /\ Recovery!Next /\ UNCHANGED <<vars, storeVars>>
     \/ part = "requests" /\ StoreNext /\ UNCHANGED <<vars, recoveryVars>>

\* What the scheduler owes each component, in the behaviours of its part.  System
\* calls return, timers fire and time passes: strong fairness of Age, because its
\* guard is off whenever some prompt task is inside a window.
LockFairness ==
  /\ \A t \in Task :
       WF_vars(part = "lock" /\ TaskStep(t)) /\ WF_vars(part = "lock" /\ Expire(t))
  /\ \A path \in Path : SF_vars(part = "lock" /\ Age(path))
RecoveryFairness ==
  /\ \A t \in Task :
       /\ WF_recoveryVars(part = "recovery" /\ Recovery!TaskStep(t))
       /\ WF_recoveryVars(part = "recovery" /\ Recovery!Expire(t))
  /\ \A path \in Path : SF_recoveryVars(part = "recovery" /\ Recovery!Age(path))
\* Requests arrive or not; a request that arrived is carried on by the event loop,
\* and the wait for the lock is bounded by its timeout.
StoreFairness == \A t \in Request : WF_storeVars(part = "requests" /\ Answer(t))

StateFileSpec ==
  /\ StateFileInit /\ [][StateFileNext]_<<part, vars, recoveryVars, storeVars>>
  /\ LockFairness /\ RecoveryFairness /\ StoreFairness

\* Once pid writes succeed again, no call waits for ever: it enters the lock or
\* fails with STATE_LOCK_TIMEOUT, unless its process dies; in either set of faults.
\* (A reclaim that freed the lock retries without a look at the deadline, so an
\* endless supply of orphaned locks could keep a call going past it.)
AcquireEnds ==
  WritesRecover =>
    \A t \in Task : []<>({pc[t], rPc[t]} \subseteq {"idle", "critical", "dead"})

\* Whatever files crashes and failed writes leave behind, of the lock or of the
\* reclaim lock, with a pid or without, the lock stays usable: once pid writes
\* succeed again, tasks enter it as long as some task keeps trying.
NoPermanentOrphan ==
  WritesRecover =>
    ([]<>(\E t \in Task : "open" \in {pc[t], rPc[t]})
       => []<>(\E t \in Task : "critical" \in {pc[t], rPc[t]}))
=============================================================================
