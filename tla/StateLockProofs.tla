-------------------------- MODULE StateLockProofs --------------------------
(***************************************************************************)
(* Proofs about the lock-file protocol of StateLock, for any number of     *)
(* tasks and processes.  Type correctness needs no hypothesis.  Mutual     *)
(* exclusion, the ownership of the lock file, the fate of orphaned files   *)
(* and the refinement of ExclusiveLock hold where ReclaimersSurvive does;  *)
(* without it TLC finds two tasks inside the lock.                         *)
(***************************************************************************)
EXTENDS StateLock, TLAPS

-----------------------------------------------------------------------------
(* Type correctness                                                        *)

\* The records kept of a lock file: one just created, or with its pid written.
LEMMA FileRecords ==
  ASSUME NEW t \in Task
  PROVE  /\ Absent \in [by : Task \cup {NoTask}, pid : Proc \cup {NoPid}, aged : BOOLEAN]
         /\ Created(t) \in [by : Task \cup {NoTask}, pid : Proc \cup {NoPid}, aged : BOOLEAN]
         /\ Written(t) \in [by : Task \cup {NoTask}, pid : Proc \cup {NoPid}, aged : BOOLEAN]
  BY TaskAssumption DEF Absent, Created, Written

\* What the four shared steps of the tasks preserve.
LEMMA StepTypes ==
  ASSUME TypeOK, NEW t \in Task, NEW path \in Path, NEW from \in PC, NEW a \in PC,
         NEW b \in PC, NEW c \in PC,
         \/ ReadOwner(t, path, from, a, b, c)
         \/ StatAge(t, path, from, a, b)
         \/ OpenExclusive(t, path, from, a, b)
         \/ WriteOwner(t, path, from, a) /\ (UNCHANGED expired \/ Forgets(t))
         \/ Remove(t, path, from, a)
  PROVE  TypeOK'
  BY FileRecords
  DEF TypeOK, ReadOwner, StatAge, OpenExclusive, WriteOwner, Forgets, Remove, Goto

\* Every step of the protocol keeps the variables in their types.
LEMMA TypeStep ==
  ASSUME TypeOK, [Next]_vars
  PROVE  TypeOK'
<1>1. ASSUME NEW t \in Task, Call(t) PROVE TypeOK'
  BY <1>1 DEF TypeOK, Call, Goto, PC
<1>2. ASSUME NEW t \in Task, TaskStep(t) PROVE TypeOK'
  <2>1. CASE Retry(t)
    BY <2>1 DEF TypeOK, Retry, Forgets, Goto, PC
  <2>2. CASE Open(t) \/ OpenReclaim(t) \/ ReopenReclaim(t)
    BY <2>2, StepTypes
    DEF Open, OpenReclaim, ReopenReclaim, PC, InReclaim, Path
  <2>3. CASE WritePid(t) \/ WriteReclaimPid(t)
    BY <2>3, StepTypes DEF WritePid, WriteReclaimPid, PC, InReclaim, Path
  <2>4. CASE \/ RmReclaim(t) \/ RmLock(t) \/ Release(t)
             \/ ReleaseReclaimed(t) \/ ReleaseUnchanged(t)
    BY <2>4, StepTypes
    DEF RmReclaim, RmLock, Release, ReleaseReclaimed, ReleaseUnchanged,
        PC, InReclaim, Path
  <2>5. CASE ReadReclaim(t) \/ StatReclaim(t) \/ ReadLock(t) \/ StatLock(t)
    BY <2>5, StepTypes
    DEF ReadReclaim, StatReclaim, ReadLock, StatLock, PC, InReclaim, Path
  <2> QED
    BY <1>2, <2>1, <2>2, <2>3, <2>4, <2>5
    DEF TaskStep, Acquire, ReclaimLockStep, ReclaimStep
<1>3. ASSUME NEW t \in Task, Expire(t) PROVE TypeOK'
  BY <1>3 DEF TypeOK, Expire
<1>4. ASSUME NEW t \in Task, WriteFails(t) PROVE TypeOK'
  BY <1>4 DEF TypeOK, WriteFails, Forgets, Goto, PC
<1>5. ASSUME NEW path \in Path, Age(path) PROVE TypeOK'
  BY <1>5 DEF TypeOK, Age
<1>6. ASSUME NEW p \in Proc, Crash(p) PROVE TypeOK'
  BY <1>6 DEF TypeOK, Crash, PC
<1>7. CASE UNCHANGED vars
  BY <1>7 DEF TypeOK, vars
<1> QED
  BY <1>1, <1>2, <1>3, <1>4, <1>5, <1>6, <1>7 DEF Next

\* The variables have their types, whatever the constants are: no step of the
\* protocol of persistence.ts leaves its program points or corrupts a file.
THEOREM TypeCorrect == Spec => []TypeOK
<1>1. Init => TypeOK
  BY FileRecords DEF Init, TypeOK, PC, Absent
<1> QED
  BY <1>1, TypeStep, PTL DEF Spec

-----------------------------------------------------------------------------
(* The inductive invariant                                                 *)

LEMMA InvInit == Init => IInv
<1> SUFFICES ASSUME Init PROVE IInv
  OBVIOUS
<1>1. TypeOK
  BY FileRecords DEF Init, TypeOK, PC, Absent
<1>2. PidsTellTheTruth
  BY TaskAssumption DEF Init, PidsTellTheTruth, Exists, Absent
<1>3. ReclaimIsExclusive
  BY TaskAssumption DEF Init, ReclaimIsExclusive, InReclaim, Absent, Path
<1>4. LockIsOwned /\ StaleIsOrphaned
  BY DEF Init, LockIsOwned, HolderOwnsFile, StaleIsOrphaned
<1> QED
  BY <1>1, <1>2, <1>3, <1>4 DEF IInv

\* Requests, waits and expired deadlines touch no file.
LEMMA LocalStep ==
  ASSUME IInv, TypeOK', NEW t \in Task, Call(t) \/ Retry(t) \/ Expire(t)
  PROVE  IInv'
  BY TaskAssumption, PidAssumption
  DEF IInv, TypeOK, PidsTellTheTruth, ReclaimIsExclusive, LockIsOwned, HolderOwnsFile,
      StaleIsOrphaned, Orphaned, UsesFile, Call, Retry, Expire, Goto, Exists,
      InReclaim, Path, Absent, Created

\* The lock file: created, given a pid, removed by its owner.
LEMMA OpenStep ==
  ASSUME IInv, TypeOK', NEW t \in Task, Open(t)
  PROVE  IInv'
  BY TaskAssumption, PidAssumption
  DEF IInv, TypeOK, PidsTellTheTruth, ReclaimIsExclusive, LockIsOwned, HolderOwnsFile,
      StaleIsOrphaned, Orphaned, UsesFile, Open, OpenExclusive, Goto, Exists,
      InReclaim, Path, Absent, Created

LEMMA WritePidStep ==
  ASSUME IInv, TypeOK', NEW t \in Task, WritePid(t)
  PROVE  IInv'
  BY TaskAssumption, PidAssumption
  DEF IInv, TypeOK, PidsTellTheTruth, ReclaimIsExclusive, LockIsOwned, HolderOwnsFile,
      StaleIsOrphaned, Orphaned, UsesFile, WritePid, WriteOwner, Written, Goto, Exists,
      InReclaim, Path, Absent, Created

LEMMA ReleaseStep ==
  ASSUME IInv, TypeOK', NEW t \in Task, Release(t)
  PROVE  IInv'
  BY TaskAssumption, PidAssumption
  DEF IInv, TypeOK, PidsTellTheTruth, ReclaimIsExclusive, LockIsOwned, HolderOwnsFile,
      StaleIsOrphaned, Orphaned, UsesFile, Release, Remove, Goto, Exists,
      InReclaim, Path, Absent, Created

\* The reclaim file: one task at a time creates it, and only that task removes it.
LEMMA OpenReclaimStep ==
  ASSUME IInv, TypeOK', NEW t \in Task, OpenReclaim(t)
  PROVE  IInv'
  BY TaskAssumption, PidAssumption
  DEF IInv, TypeOK, PidsTellTheTruth, ReclaimIsExclusive, LockIsOwned, HolderOwnsFile,
      StaleIsOrphaned, Orphaned, UsesFile, OpenReclaim, OpenExclusive, Goto, Exists,
      InReclaim, Path, Absent, Created

LEMMA JudgeReclaimStep ==
  ASSUME IInv, TypeOK', NEW t \in Task, ReadReclaim(t) \/ StatReclaim(t)
  PROVE  IInv'
  BY TaskAssumption, PidAssumption
  DEF IInv, TypeOK, PidsTellTheTruth, ReclaimIsExclusive, LockIsOwned, HolderOwnsFile,
      StaleIsOrphaned, Orphaned, UsesFile, ReadReclaim, StatReclaim, ReadOwner, StatAge,
      OwnerAlive, OwnerUnknown, OwnerDead, Goto, Exists,
      InReclaim, Path, Absent, Created

LEMMA WriteReclaimPidStep ==
  ASSUME IInv, TypeOK', NEW t \in Task, WriteReclaimPid(t)
  PROVE  IInv'
  BY TaskAssumption, PidAssumption
  DEF IInv, TypeOK, PidsTellTheTruth, ReclaimIsExclusive, LockIsOwned, HolderOwnsFile,
      StaleIsOrphaned, Orphaned, UsesFile, WriteReclaimPid, WriteOwner, Written, Goto, Exists,
      InReclaim, Path, Absent, Created

LEMMA ReleaseReclaimStep ==
  ASSUME IInv, TypeOK', NEW t \in Task, ReleaseReclaimed(t) \/ ReleaseUnchanged(t)
  PROVE  IInv'
  BY TaskAssumption, PidAssumption
  DEF IInv, TypeOK, PidsTellTheTruth, ReclaimIsExclusive, LockIsOwned, HolderOwnsFile,
      StaleIsOrphaned, Orphaned, UsesFile, ReleaseReclaimed, ReleaseUnchanged, Remove, Goto, Exists,
      InReclaim, Path, Absent, Created

\* The lock file in the hands of the task that reclaims it.
LEMMA JudgeLockStep ==
  ASSUME IInv, TypeOK', NEW t \in Task, ReadLock(t) \/ StatLock(t)
  PROVE  IInv'
  BY TaskAssumption, PidAssumption
  DEF IInv, TypeOK, PidsTellTheTruth, ReclaimIsExclusive, LockIsOwned, HolderOwnsFile,
      StaleIsOrphaned, Orphaned, UsesFile, ReadLock, StatLock, ReadOwner, StatAge,
      OwnerAlive, OwnerUnknown, OwnerDead, Goto, Exists,
      InReclaim, Path, Absent, Created

LEMMA RmLockStep ==
  ASSUME IInv, TypeOK', NEW t \in Task, RmLock(t)
  PROVE  IInv'
  BY TaskAssumption, PidAssumption
  DEF IInv, TypeOK, PidsTellTheTruth, ReclaimIsExclusive, LockIsOwned, HolderOwnsFile,
      StaleIsOrphaned, Orphaned, UsesFile, RmLock, Remove, Goto, Exists,
      InReclaim, Path, Absent, Created

\* Neither step happens: no reclaim file is ever judged stale.
LEMMA NoStaleReclaimStep ==
  ASSUME IInv, NEW t \in Task
  PROVE  ~RmReclaim(t) /\ ~ReopenReclaim(t)
  BY DEF IInv, ReclaimIsExclusive, RmReclaim, ReopenReclaim, Remove, OpenExclusive, Goto

\* Faults: a failed write, a crash, a file that grows old.
LEMMA WriteFailsStep ==
  ASSUME IInv, TypeOK', ReclaimersSurvive, NEW t \in Task, WriteFails(t)
  PROVE  IInv'
  BY TaskAssumption, PidAssumption
  DEF IInv, TypeOK, PidsTellTheTruth, ReclaimIsExclusive, LockIsOwned, HolderOwnsFile,
      StaleIsOrphaned, Orphaned, UsesFile, WriteFails, ReclaimersSurvive, Goto, Exists,
      InReclaim, Path, Absent, Created

LEMMA CrashStep ==
  ASSUME IInv, TypeOK', ReclaimersSurvive, NEW p \in Proc, Crash(p)
  PROVE  IInv'
  BY TaskAssumption, PidAssumption
  DEF IInv, TypeOK, PidsTellTheTruth, ReclaimIsExclusive, LockIsOwned, HolderOwnsFile,
      StaleIsOrphaned, Orphaned, UsesFile, Crash, ReclaimersSurvive, Goto, Exists,
      InReclaim, Path, Absent, Created

LEMMA AgeStep ==
  ASSUME IInv, TypeOK', ReclaimersSurvive, NEW path \in Path, Age(path)
  PROVE  IInv'
<1>1. /\ file'[path] = [file[path] EXCEPT !.aged = TRUE]
      /\ \A q \in Path \ {path} : file'[q] = file[q]
      /\ UNCHANGED <<alive, pc, expired>>
  BY DEF IInv, TypeOK, Age
<1>2. \A t \in Task : ~InWindow(t, path)
  BY DEF Age, ReclaimersSurvive
<1>3. PidsTellTheTruth'
  <2>1. Exists(path) /\ Exists(path)' /\ file'[path].pid = file[path].pid
                      /\ file'[path].by = file[path].by
    BY <1>1 DEF Age, Exists, IInv, TypeOK
  <2>2. \A q \in Path : /\ Exists(q)' <=> Exists(q)
                        /\ file'[q].pid = file[q].pid /\ file'[q].by = file[q].by
    BY <1>1, <2>1 DEF Exists
  <2>3. PidsTellTheTruth
    BY DEF IInv
  <2>4. ASSUME NEW q \in Path
        PROVE  IF Exists(q)' THEN file'[q].pid \in {NoPid, ProcOf[file'[q].by]}
                             ELSE file'[q] = Absent
    <3>1. CASE q = path
      BY ONLY <2>1, <2>2, <2>3, <2>4, <3>1 DEF PidsTellTheTruth
    <3>2. CASE q # path
      BY ONLY <1>1, <2>2, <2>3, <2>4, <3>2 DEF PidsTellTheTruth
    <3> QED
      BY <3>1, <3>2
  <2> QED
    BY ONLY <1>1, <2>3, <2>4 DEF PidsTellTheTruth
<1>4. ReclaimIsExclusive'
  BY <1>1, <1>2
  DEF IInv, TypeOK, ReclaimIsExclusive, InReclaim, InWindow, Path, Created
<1>5. LockIsOwned'
  BY <1>1, <1>2
  DEF IInv, TypeOK, LockIsOwned, HolderOwnsFile, InWindow, Path, Created
<1>6. StaleIsOrphaned'
  BY <1>1, <1>2
  DEF IInv, TypeOK, StaleIsOrphaned, Orphaned, UsesFile, Exists, InWindow, Path
<1> QED
  BY <1>3, <1>4, <1>5, <1>6 DEF IInv

LEMMA InvStep ==
  ASSUME IInv, ReclaimersSurvive, [Next]_vars
  PROVE  IInv'
<1>1. TypeOK'
  BY TypeStep DEF IInv
<1>2. ASSUME NEW t \in Task, TaskStep(t) PROVE IInv'
  BY <1>1, <1>2, LocalStep, OpenStep, WritePidStep, ReleaseStep, OpenReclaimStep,
     JudgeReclaimStep, WriteReclaimPidStep, ReleaseReclaimStep, JudgeLockStep,
     RmLockStep, NoStaleReclaimStep
  DEF TaskStep, Acquire, ReclaimLockStep, ReclaimStep
<1>3. CASE UNCHANGED vars
  BY <1>3, <1>1
  DEF vars, IInv, PidsTellTheTruth, ReclaimIsExclusive, LockIsOwned, HolderOwnsFile,
      StaleIsOrphaned, Orphaned, UsesFile, Exists
<1> QED
  BY <1>1, <1>2, <1>3, LocalStep, WriteFailsStep, CrashStep, AgeStep DEF Next

\* The inductive invariant of the lock protocol: what a pid in a file, the reclaim
\* lock, ownership and staleness mean at every point of every task.
THEOREM Inductive == ReclaimersSurvive => (Spec => []IInv)
<1> SUFFICES ASSUME ReclaimersSurvive PROVE Spec => []IInv
  OBVIOUS
<1>1. IInv /\ [Next]_vars => IInv'
  BY InvStep
<1> QED
  BY <1>1, InvInit, PTL DEF Spec

-----------------------------------------------------------------------------
(* What follows from it                                                    *)

\* A task inside the lock owns the lock file, with its pid in it: release removes
\* the file of the very task that releases.
THEOREM OwnershipHolds == ReclaimersSurvive => (Spec => []HolderOwnsFile)
<1>1. IInv => HolderOwnsFile
  BY DEF IInv, LockIsOwned
<1> QED
  BY <1>1, Inductive, PTL

LEMMA OwnersExclude == IInv => MutualExclusion
BY DEF IInv, LockIsOwned, HolderOwnsFile, MutualExclusion

\* withExclusiveLock never runs two tasks at once, for any number of tasks and
\* processes, whatever lock files crashes and failed writes leave behind, as long
\* as no task dies or fails while it holds the reclaim lock.
THEOREM ExclusionHolds == ReclaimersSurvive => (Spec => []MutualExclusion)
<1> QED
  BY OwnersExclude, Inductive, PTL

\* A lock file disappears only by the hand of its owner or as an orphan.
THEOREM RemovalsAreSafe == ReclaimersSurvive => (Spec => RemovesOnlyOrphans)
<1>1. ASSUME IInv, [Next]_vars, NEW path \in Path, NEW t \in Task,
             file[path].by = t, file'[path].by # t
      PROVE  ~UsesFile(t, path) \/ pc'[t] # pc[t]
  <2>1. ASSUME NEW u \in Task, Release(u) PROVE pc'[t] # pc[t]
    BY <1>1, <2>1
    DEF IInv, TypeOK, LockIsOwned, HolderOwnsFile, Release, Remove, Goto, Path
  <2>2. ASSUME NEW u \in Task, ReleaseReclaimed(u) \/ ReleaseUnchanged(u)
        PROVE  pc'[t] # pc[t]
    BY <1>1, <2>2
    DEF IInv, TypeOK, ReclaimIsExclusive, InReclaim, ReleaseReclaimed,
        ReleaseUnchanged, Remove, Goto, Path
  <2>3. ASSUME NEW u \in Task, RmLock(u) PROVE ~UsesFile(t, path)
    BY <1>1, <2>3
    DEF IInv, TypeOK, StaleIsOrphaned, Orphaned, RmLock, Remove, Goto, Path
  <2>4. ASSUME NEW u \in Task, NEW q \in Path, NEW from, NEW a, NEW b,
               OpenExclusive(u, q, from, a, b) \/ WriteOwner(u, q, from, a)
        PROVE  FALSE
    BY <1>1, <2>4, TaskAssumption
    DEF IInv, TypeOK, OpenExclusive, WriteOwner, Written, Created, Exists
  <2>5. ASSUME NEW q \in Path, Age(q) PROVE FALSE
    BY <1>1, <2>5 DEF IInv, TypeOK, Age
  <2>6. CASE UNCHANGED file
    BY <1>1, <2>6
  <2>7. ASSUME NEW u \in Task, TaskStep(u)
        PROVE  ~UsesFile(t, path) \/ pc'[t] # pc[t]
    <3>1. CASE Open(u) \/ OpenReclaim(u) \/ ReopenReclaim(u)
      BY <3>1, <2>4 DEF Open, OpenReclaim, ReopenReclaim, Path
    <3>2. CASE WritePid(u) \/ WriteReclaimPid(u)
      BY <3>2, <2>4 DEF WritePid, WriteReclaimPid, Path
    <3>3. CASE \/ Retry(u) \/ ReadReclaim(u) \/ StatReclaim(u)
               \/ ReadLock(u) \/ StatLock(u)
      BY <3>3, <2>6
      DEF Retry, ReadReclaim, StatReclaim, ReadLock, StatLock, ReadOwner, StatAge
    <3> QED
      BY <1>1, <2>1, <2>2, <2>3, <2>7, <3>1, <3>2, <3>3, NoStaleReclaimStep
      DEF TaskStep, Acquire, ReclaimLockStep, ReclaimStep
  <2> QED
    BY <1>1, <2>5, <2>6, <2>7
    DEF Next, vars, Call, Expire, WriteFails, Crash
<1>2. IInv /\ [Next]_vars =>
        [\A path \in Path, t \in Task :
           file[path].by = t /\ file'[path].by # t =>
             ~UsesFile(t, path) \/ pc'[t] # pc[t]]_vars
  BY <1>1
<1> QED
  BY <1>2, Inductive, PTL DEF Spec, RemovesOnlyOrphans

-----------------------------------------------------------------------------
(* The refinement of ExclusiveLock                                         *)

\* Entering, leaving, dying inside the lock; every other step stutters.
LEMMA MapsToStep ==
  ASSUME IInv, [Next]_vars
  PROVE  [Lock!Next]_Inside
<1> DEFINE quiet == Inside' = Inside
<1>1. ASSUME NEW t \in Task, WritePid(t) PROVE Lock!Enter(t)
  <2>1. Inside = {}
    <3>1. pc[t] = "writePid"
      BY <1>1 DEF WritePid, WriteOwner, Goto
    <3>2. file["lock"].by = t
      BY <3>1 DEF IInv, TypeOK, LockIsOwned, HolderOwnsFile, Path, Created
    <3>3. \A u \in Inside : u = t
      BY <3>2 DEF IInv, LockIsOwned, HolderOwnsFile, Inside
    <3> QED
      BY <3>1, <3>3 DEF Inside
  <2>2. Inside' = {t}
    BY <1>1, <2>1 DEF IInv, TypeOK, WritePid, WriteOwner, Goto, Inside
  <2> QED
    BY <2>1, <2>2 DEF Lock!Enter
<1>2. ASSUME NEW t \in Task, Release(t) PROVE Lock!Leave(t)
  BY <1>2 DEF IInv, TypeOK, Release, Remove, Goto, Inside, Lock!Leave
<1>3. ASSUME NEW p \in Proc, Crash(p) PROVE quiet \/ \E t \in Task : Lock!Leave(t)
  <2>1. CASE \E t \in Inside : ProcOf[t] = p
    <3>1. PICK t \in Inside : ProcOf[t] = p
      BY <2>1
    <3>2. Inside = {t}
      BY <3>1, OwnersExclude DEF MutualExclusion, Inside
    <3>3. Inside' = {}
      BY <1>3, <3>1, <3>2 DEF Crash, Inside
    <3> QED
      BY <3>1, <3>2, <3>3 DEF Lock!Leave, Inside
  <2>2. CASE ~\E t \in Inside : ProcOf[t] = p
    BY <1>3, <2>2 DEF Crash, Inside
  <2> QED
    BY <2>1, <2>2
<1>4. ASSUME NEW t \in Task, TaskStep(t), ~WritePid(t), ~Release(t) PROVE quiet
  <2>1. pc[t] # "critical" /\ (\E to \in PC \ {"critical"} : pc' = [pc EXCEPT ![t] = to])
    BY <1>4
    DEF TaskStep, Acquire, ReclaimLockStep, ReclaimStep, Retry, Open, OpenReclaim,
        ReadReclaim, StatReclaim, RmReclaim, ReopenReclaim, WriteReclaimPid, ReadLock,
        StatLock, RmLock, ReleaseReclaimed, ReleaseUnchanged, ReadOwner, StatAge,
        OpenExclusive, WriteOwner, Remove, Goto, PC, InReclaim
  <2> QED
    BY <2>1 DEF IInv, TypeOK, Inside
<1>5. ASSUME NEW t \in Task, Call(t) \/ WriteFails(t) PROVE quiet
  BY <1>5 DEF IInv, TypeOK, Call, WriteFails, Goto, Inside
<1>6. CASE UNCHANGED pc
  BY <1>6 DEF Inside
<1> QED
  BY <1>1, <1>2, <1>3, <1>4, <1>5, <1>6 DEF Next, vars, Expire, Age, Lock!Next

\* The lock-file protocol implements the abstract lock of ExclusiveLock, on which
\* RuntimeStore builds.
THEOREM Implements == ReclaimersSurvive => (Spec => ImplementsExclusiveLock)
<1>1. Init => Lock!Init
  BY DEF Init, Lock!Init, Inside
<1>2. IInv /\ [Next]_vars => [Lock!Next]_Inside
  BY MapsToStep
<1> QED
  BY <1>1, <1>2, Inductive, PTL DEF Spec, ImplementsExclusiveLock, Lock!Spec
=============================================================================
