----------------------------- MODULE StateLock -----------------------------
(***************************************************************************)
(* The lock file that serialises every operation on a shared state file    *)
(* (apps/api/src/persistence.ts).                                          *)
(*                                                                         *)
(* A task is one call of withExclusiveLock, or of the Effect variant       *)
(* acquireSharedStateLockLease / releaseSharedStateLockLease; it runs in a *)
(* process, and several tasks may share one.  The lock is the existence of *)
(* `<state>.lock`; a second file, `<state>.lock.reclaim`, serialises the   *)
(* tasks that want to remove a lock whose owner died.  Every await in the  *)
(* code is a place where other tasks run, so every system call is a step   *)
(* of its own: the file is created by one step and its pid written by the  *)
(* next, it is read by one step and its age looked up by another, it is    *)
(* judged stale by one step and removed by a later one.                    *)
(*                                                                         *)
(* Faults are confined to the program points of FaultAt: a process crashes *)
(* only while all its tasks are at such points, and a pid write fails only *)
(* at one.  Tasks outside SlowTasks cross the two windows that the code    *)
(* guards by age alone (create to pid write, read to stat) in less than    *)
(* LOCK_STALE_MS.  The theorems and the runs say which of these they use.  *)
(***************************************************************************)
EXTENDS Naturals

CONSTANTS
  Task,       \* the calls that want the lock
  Proc,       \* the processes that run them
  ProcOf,     \* the process each task runs in
  NoTask,     \* the creator of a file that does not exist
  NoPid,      \* the content of a lock file whose pid is not written yet
  FaultAt,    \* program points where a crash or a failed pid write is allowed
  SlowTasks   \* tasks that may stall for LOCK_STALE_MS in an unguarded window

\* The points of acquireReclaimLock and reclaimStaleLock at which the task may
\* have created the reclaim file.
InReclaim == {"writeReclaimPid", "readLock", "statLock", "rmLock",
              "releaseReclaimed", "releaseUnchanged"}

PC == InReclaim \cup
      {"idle", "open", "writePid", "critical", "openReclaim", "readReclaim",
       "statReclaim", "rmReclaim", "reopenReclaim", "retry", "dead"}

Path == {"lock", "reclaim"}

ASSUME TaskAssumption == ProcOf \in [Task -> Proc] /\ NoTask \notin Task
ASSUME PidAssumption == NoPid \notin Proc
ASSUME FaultAssumption == FaultAt \subseteq PC /\ SlowTasks \subseteq Task

VARIABLES
  file,     \* the two lock files: creator, pid written in them, older than
            \* LOCK_STALE_MS or not
  alive,    \* which processes run
  pc,       \* where each task is
  expired   \* whether a task's deadline (LOCK_TIMEOUT_MS) has passed

vars == <<file, alive, pc, expired>>

Absent == [by |-> NoTask, pid |-> NoPid, aged |-> FALSE]
Created(t) == [by |-> t, pid |-> NoPid, aged |-> FALSE]
Written(t) == [by |-> t, pid |-> ProcOf[t], aged |-> FALSE]
Exists(path) == file[path].by # NoTask

Init ==
  /\ file = [path \in Path |-> Absent]
  /\ alive = [p \in Proc |-> TRUE]
  /\ pc = [t \in Task |-> "idle"]
  /\ expired = [t \in Task |-> FALSE]

Goto(t, from, to) == pc[t] = from /\ pc' = [pc EXCEPT ![t] = to]

-----------------------------------------------------------------------------
(* canReclaimLockFile: what one read of the file, and then, for a file     *)
(* without a pid, one stat of it, decide.                                  *)

OwnerAlive(path) == file[path].pid # NoPid /\ alive[file[path].pid]
OwnerUnknown(path) == Exists(path) /\ file[path].pid = NoPid
OwnerDead(path) == file[path].pid # NoPid /\ ~alive[file[path].pid]

ReadOwner(t, path, from, statAt, yes, no) ==
  /\ \/ OwnerDead(path) /\ Goto(t, from, yes)
     \/ OwnerUnknown(path) /\ Goto(t, from, statAt)
     \/ (OwnerAlive(path) \/ ~Exists(path)) /\ Goto(t, from, no)
  /\ UNCHANGED <<file, alive, expired>>

StatAge(t, path, from, yes, no) ==
  /\ Goto(t, from, IF Exists(path) /\ file[path].aged THEN yes ELSE no)
  /\ UNCHANGED <<file, alive, expired>>

\* open(path, "wx"): creates the file, or finds that it exists.
OpenExclusive(t, path, from, created, exists) ==
  /\ \/ ~Exists(path) /\ Goto(t, from, created)
                      /\ file' = [file EXCEPT ![path] = Created(t)]
     \/ Exists(path) /\ Goto(t, from, exists) /\ UNCHANGED file
  /\ UNCHANGED <<alive, expired>>

\* writeFile through the handle: a file that was removed meanwhile, and one
\* created by another task under the same name, do not get the pid.
WriteOwner(t, path, from, to) ==
  /\ Goto(t, from, to)
  /\ file' = IF file[path].by = t
             THEN [file EXCEPT ![path] = Written(t)]
             ELSE file
  /\ UNCHANGED alive

\* The deadline is a local of the call: it is gone when the call is over.
Forgets(t) == expired' = [expired EXCEPT ![t] = FALSE]

\* rm(path, {force: true}): removes whatever file is there.
Remove(t, path, from, to) ==
  /\ Goto(t, from, to)
  /\ file' = [file EXCEPT ![path] = Absent]
  /\ UNCHANGED <<alive, expired>>

-----------------------------------------------------------------------------
(* Faulty variants of the steps below, which the properties must reject    *)

\* open(path, "w"): the file of another task is taken over.
OpenShared(t) ==
  /\ Goto(t, "open", "writePid")
  /\ file' = [file EXCEPT !["lock"] = Created(t)]
  /\ UNCHANGED <<alive, expired>>
OpenReclaimShared(t) ==
  /\ Goto(t, "openReclaim", "writeReclaimPid")
  /\ file' = [file EXCEPT !["reclaim"] = Created(t)]
  /\ UNCHANGED <<alive, expired>>
\* A finally block around the whole wait: a timeout releases the lock, too.
RetryReleasing(t) ==
  /\ Goto(t, "retry", IF expired[t] THEN "idle" ELSE "open")
  /\ file' = IF expired[t] THEN [file EXCEPT !["lock"] = Absent] ELSE file
  /\ Forgets(t) /\ UNCHANGED alive
\* The deadline is never looked at.
RetryForever(t) == Goto(t, "retry", "open") /\ UNCHANGED <<file, alive, expired>>
\* A file without a pid is stale whatever its age.
StatLockAnyAge(t) ==
  /\ Goto(t, "statLock", IF Exists("lock") THEN "rmLock" ELSE "releaseUnchanged")
  /\ UNCHANGED <<file, alive, expired>>
\* A pid of the task's own process is taken for one that was reused.
ReadLockOwnPid(t) ==
  \/ ReadOwner(t, "lock", "readLock", "statLock", "rmLock", "releaseUnchanged")
  \/ /\ file["lock"].pid = ProcOf[t] /\ Goto(t, "readLock", "rmLock")
     /\ UNCHANGED <<file, alive, expired>>
\* A reclaim file is never stale.
ReadReclaimNever(t) ==
  Goto(t, "readReclaim", "retry") /\ UNCHANGED <<file, alive, expired>>

-----------------------------------------------------------------------------
(* acquireLock and withExclusiveLock                                       *)

Call(t) == Goto(t, "idle", "open") /\ UNCHANGED <<file, alive, expired>>

Open(t) == OpenExclusive(t, "lock", "open", "writePid", "openReclaim")
WritePid(t) == WriteOwner(t, "lock", "writePid", "critical") /\ Forgets(t)

\* The reclaim freed nothing: the deadline decides between an error and a sleep.
Retry(t) ==
  /\ Goto(t, "retry", IF expired[t] THEN "idle" ELSE "open")
  /\ Forgets(t) /\ UNCHANGED <<file, alive>>

Release(t) == Remove(t, "lock", "critical", "idle")

-----------------------------------------------------------------------------
(* acquireReclaimLock and reclaimStaleLock                                 *)

OpenReclaim(t) ==
  OpenExclusive(t, "reclaim", "openReclaim", "writeReclaimPid", "readReclaim")
ReadReclaim(t) ==
  ReadOwner(t, "reclaim", "readReclaim", "statReclaim", "rmReclaim", "retry")
StatReclaim(t) ==
  StatAge(t, "reclaim", "statReclaim", "rmReclaim", "retry")
RmReclaim(t) == Remove(t, "reclaim", "rmReclaim", "reopenReclaim")
ReopenReclaim(t) ==
  OpenExclusive(t, "reclaim", "reopenReclaim", "writeReclaimPid", "retry")
WriteReclaimPid(t) ==
  WriteOwner(t, "reclaim", "writeReclaimPid", "readLock") /\ UNCHANGED expired

ReadLock(t) ==
  ReadOwner(t, "lock", "readLock", "statLock", "rmLock", "releaseUnchanged")
StatLock(t) == StatAge(t, "lock", "statLock", "rmLock", "releaseUnchanged")
RmLock(t) == Remove(t, "lock", "rmLock", "releaseReclaimed")
\* The finally block; a reclaim that removed the lock goes straight back to
\* open, without looking at the deadline.
ReleaseReclaimed(t) == Remove(t, "reclaim", "releaseReclaimed", "open")
ReleaseUnchanged(t) == Remove(t, "reclaim", "releaseUnchanged", "retry")

-----------------------------------------------------------------------------
(* The environment: time, failed writes, crashes                           *)

\* t is in a window that only the age of the file at path protects.
InWindow(t, path) ==
  \/ path = "lock" /\ pc[t] = "writePid" /\ file[path].by = t
  \/ path = "reclaim" /\ pc[t] = "writeReclaimPid" /\ file[path].by = t
  \/ path = "lock" /\ pc[t] = "statLock"
  \/ path = "reclaim" /\ pc[t] = "statReclaim"

Age(path) ==
  /\ Exists(path) /\ ~file[path].aged
  /\ \A t \in Task \ SlowTasks : ~InWindow(t, path)
  /\ file' = [file EXCEPT ![path].aged = TRUE]
  /\ UNCHANGED <<alive, pc, expired>>

Expire(t) ==
  /\ pc[t] \notin {"idle", "critical", "dead"} /\ ~expired[t]
  /\ expired' = [expired EXCEPT ![t] = TRUE]
  /\ UNCHANGED <<file, alive, pc>>

\* writeFile throws (ENOSPC, EIO): the error leaves acquireLock with the file
\* created, empty and owned by nobody.
WriteFails(t) ==
  /\ pc[t] \in FaultAt
  /\ Goto(t, "writePid", "idle") \/ Goto(t, "writeReclaimPid", "idle")
  /\ Forgets(t) /\ UNCHANGED <<file, alive>>

Crash(p) ==
  /\ alive[p]
  /\ \A t \in Task : ProcOf[t] = p => pc[t] \in FaultAt
  /\ alive' = [alive EXCEPT ![p] = FALSE]
  /\ pc' = [t \in Task |-> IF ProcOf[t] = p THEN "dead" ELSE pc[t]]
  /\ expired' = [t \in Task |-> expired[t] /\ ProcOf[t] # p]
  /\ UNCHANGED file

-----------------------------------------------------------------------------
Acquire(t) == Open(t) \/ WritePid(t) \/ Retry(t)
ReclaimLockStep(t) ==
  \/ OpenReclaim(t) \/ ReadReclaim(t) \/ StatReclaim(t)
  \/ RmReclaim(t) \/ ReopenReclaim(t) \/ WriteReclaimPid(t)
ReclaimStep(t) ==
  \/ ReadLock(t) \/ StatLock(t) \/ RmLock(t)
  \/ ReleaseReclaimed(t) \/ ReleaseUnchanged(t)
\* What the code of a live task does once it was called: never a fault.
TaskStep(t) == Acquire(t) \/ ReclaimLockStep(t) \/ ReclaimStep(t) \/ Release(t)

Next ==
  \/ \E t \in Task : Call(t) \/ TaskStep(t) \/ Expire(t) \/ WriteFails(t)
  \/ \E path \in Path : Age(path)
  \/ \E p \in Proc : Crash(p)

Spec == Init /\ [][Next]_vars

-----------------------------------------------------------------------------
TypeOK ==
  /\ file \in [Path -> [by : Task \cup {NoTask}, pid : Proc \cup {NoPid},
                        aged : BOOLEAN]]
  /\ alive \in [Proc -> BOOLEAN]
  /\ pc \in [Task -> PC]
  /\ expired \in [Task -> BOOLEAN]

\* The function passed to withExclusiveLock is never executed by two tasks at
\* once, whoever crashed and whatever was reclaimed before.
MutualExclusion ==
  \A t, u \in Task : pc[t] = "critical" /\ pc[u] = "critical" => t = u

\* A task inside the lock owns the file that stands for it, with its pid in it:
\* nobody reclaimed it, and its own unconditional rm will remove its own file.
HolderOwnsFile ==
  \A t \in Task : pc[t] = "critical" =>
    file["lock"].by = t /\ file["lock"].pid = ProcOf[t]

\* t still needs the file it created at path.
UsesFile(t, path) ==
  pc[t] \in IF path = "lock" THEN {"writePid", "critical"} ELSE InReclaim

\* The lock file protocol implements the abstract lock.
Inside == {t \in Task : pc[t] = "critical"}
Lock == INSTANCE ExclusiveLock WITH holders <- Inside
ImplementsExclusiveLock == Lock!Spec

\* A lock file disappears only by the hand of the task that created it, or when
\* that task is no longer using it (it died, or its pid write failed).
RemovesOnlyOrphans ==
  [][\A path \in Path, t \in Task :
       file[path].by = t /\ file'[path].by # t =>
         ~UsesFile(t, path) \/ pc'[t] # pc[t]]_vars

\* Pid writes fail only finitely often (crashes are finite, as processes are).
WritesRecover == <>[][\A t \in Task : ~WriteFails(t)]_vars

-----------------------------------------------------------------------------
(* The inductive invariant behind these properties, where no task dies or  *)
(* fails while it holds the reclaim lock, and none stalls in a window.     *)

ReclaimersSurvive == SlowTasks = {} /\ FaultAt \cap InReclaim = {}

\* Nothing runs in a dead process, and a pid in a file is its creator's.
PidsTellTheTruth ==
  /\ \A t \in Task : pc[t] = "dead" <=> ~alive[ProcOf[t]]
  /\ \A path \in Path :
       IF Exists(path)
       THEN file[path].pid \in {NoPid, ProcOf[file[path].by]}
       ELSE file[path] = Absent

\* The reclaim file is that of the one task between its creation and its
\* removal, and is never judged stale.
ReclaimIsExclusive ==
  \A t \in Task :
    /\ pc[t] \in InReclaim <=> file["reclaim"].by = t
    /\ pc[t] = "writeReclaimPid" => file["reclaim"] = Created(t)
    /\ pc[t] \in InReclaim \ {"writeReclaimPid"} =>
         file["reclaim"].pid = ProcOf[t]
    /\ pc[t] = "statReclaim" => ~file["reclaim"].aged
    /\ pc[t] \notin {"rmReclaim", "reopenReclaim"}

\* Who entered or is entering the lock owns the file.
LockIsOwned ==
  /\ \A t \in Task : pc[t] = "writePid" => file["lock"] = Created(t)
  /\ HolderOwnsFile

\* A lock judged stale, or about to be judged so by its age, is nobody's.
Orphaned == Exists("lock") /\ ~UsesFile(file["lock"].by, "lock")
StaleIsOrphaned ==
  \A t \in Task :
    /\ pc[t] = "statLock" /\ file["lock"].aged => Orphaned
    /\ pc[t] = "rmLock" => Orphaned

IInv ==
  /\ TypeOK
  /\ PidsTellTheTruth
  /\ ReclaimIsExclusive
  /\ LockIsOwned
  /\ StaleIsOrphaned
=============================================================================
