------------------------- MODULE RuntimeStoreProofs -------------------------
(***************************************************************************)
(* Proofs about the execution of operations in RuntimeStore, for any       *)
(* number of requests and processes.  That acknowledged effects are        *)
(* durable, failures leave no trace and commits are serial holds where     *)
(* WritersRunThrough does; that no response shows what was never persisted *)
(* needs that readers run through as well, and only read.                  *)
(***************************************************************************)
EXTENDS RuntimeStore, TLAPS

-----------------------------------------------------------------------------
(* The hypotheses: executors are synchronous, at least those of the        *)
(* requests that persist the shared file, and the operations that run      *)
(* without the lock do not write.                                          *)

WritersRunThrough == "shared" \in Backends => Yielding \subseteq ReadOnly
AllRunThrough == "shared" \in Backends => Yielding = {}
ReadersOnlyRead == "shared" \in Backends => ReadOnly \cap Writers = {}

-----------------------------------------------------------------------------
(* The inductive invariant                                                 *)

InLock == {"loading", "hydrating", "executing", "exporting", "writing",
           "renaming", "leaving", "failing"}
\* Where a request runs that takes no lock, unless it ended.
Unlocked == {"new", "loading", "hydrating", "executing", "done", "failed", "dead"}

\* A request that locks is in the lock from its read to its release, alone;
\* nothing else is.
LockIsHeld ==
  /\ \A t \in Request :
       /\ Locks(t) => (t \in inside <=> place[t] \in InLock)
       /\ ~Locks(t) => t \notin inside /\ place[t] \in Unlocked
  /\ \A t, u \in inside : t = u

\* A request that does not yield keeps the event loop of its process from its
\* hydration to its export, and nothing else keeps it.
LoopIsKept ==
  /\ \A p \in Server : loop[p] # NoRequest =>
       ServerOf[loop[p]] = p /\ place[loop[p]] \in {"executing", "exporting"}
  /\ \A t \in Request \ Yielding :
       place[t] \in {"executing", "exporting"} => loop[ServerOf[t]] = t

\* Between its read and its commit the request in the lock works on the persisted
\* state and its own effect, and on nothing else.
WorksOnDisk ==
  \A t \in Request : Locks(t) =>
    /\ place[t] = "hydrating" => snapshot[t] = disk
    /\ place[t] = "executing" => stores[ServerOf[t]] = disk
    /\ place[t] = "exporting" => stores[ServerOf[t]] = disk \cup Effect(t)
    /\ place[t] \in {"writing", "renaming"} => snapshot[t] = disk \cup Effect(t)
    /\ place[t] \in {"leaving", "done"} => Effect(t) \subseteq disk

\* What is persisted are effects of requests that committed.
DiskIsCommitted ==
  \A t \in disk : t \in Writers /\ place[t] \in {"leaving", "done", "dead"}

StoreInv == StoreTypeOK /\ LockIsHeld /\ LoopIsKept /\ WorksOnDisk /\ DiskIsCommitted

\* What a request sees is persisted, or about to be, by the request itself.
SeesCommitted ==
  \A t \in Request :
    /\ Locks(t) /\ place[t] \in {"exporting", "writing", "renaming", "leaving"} =>
         view[t] \subseteq disk \cup Effect(t)
    /\ ~Locks(t) /\ place[t] = "hydrating" => snapshot[t] \subseteq disk
    /\ ~Locks(t) /\ place[t] = "executing" => stores[ServerOf[t]] \subseteq disk
    /\ place[t] = "done" => view[t] \subseteq disk

-----------------------------------------------------------------------------
(* Type correctness                                                        *)

\* Every step keeps the variables in their types.
LEMMA TypeStep ==
  ASSUME StoreTypeOK, [StoreNext]_storeVars
  PROVE  StoreTypeOK'
<1> USE RequestAssumption DEF StoreTypeOK, Moves, Place
<1>1. ASSUME NEW t \in Request, Start(t) PROVE StoreTypeOK'
  BY <1>1 DEF Start
<1>2. ASSUME NEW t \in Request, Answer(t) PROVE StoreTypeOK'
  <2>1. CASE EnterLock(t) \/ LockTimeout(t) \/ Load(t) \/ LeaveLock(t)
    BY <2>1 DEF EnterLock, LockTimeout, Load, LeaveLock, FileLock!Enter, FileLock!Leave
  <2>2. CASE Hydrate(t)
    BY <2>2 DEF Hydrate
  <2>3. CASE Execute(t)
    <3>1. stores' \in [Server -> SUBSET Request]
      BY <2>3 DEF Execute, Effect
    <3>2. view' \in [Request -> SUBSET Request]
      BY <2>3, <3>1 DEF Execute
    <3> QED
      BY <2>3, <3>1, <3>2 DEF Execute
  <2>4. CASE ExecuteThrows(t)
    BY <2>4 DEF ExecuteThrows, Effect
  <2>5. CASE Export(t) \/ WriteTemp(t) \/ Commit(t) \/ IOFails(t)
    BY <2>5 DEF Export, WriteTemp, Commit, IOFails
  <2> QED
    BY <1>2, <2>1, <2>2, <2>3, <2>4, <2>5 DEF Answer
<1>3. ASSUME NEW p \in Server, ServerDies(p) PROVE StoreTypeOK'
  BY <1>3 DEF ServerDies
<1>4. CASE UNCHANGED storeVars
  BY <1>4 DEF storeVars
<1> QED
  BY <1>1, <1>2, <1>3, <1>4 DEF StoreNext

LEMMA TypeInit == StoreInit => StoreTypeOK
BY RequestAssumption DEF StoreInit, StoreTypeOK, Place

\* The variables keep their types.
THEOREM StoreTypeCorrect == StoreSpec => []StoreTypeOK
BY TypeInit, TypeStep, PTL DEF StoreSpec

-----------------------------------------------------------------------------
(* The invariant is inductive: one lemma for each kind of step             *)

LEMMA InvInit == StoreInit => StoreInv
BY TypeInit, RequestAssumption
DEF StoreInv, LockIsHeld, LoopIsKept, WorksOnDisk, DiskIsCommitted, StoreInit, InLock,
  Unlocked

\* Whether a request locks is settled by the backend.
LEMMA LocksStay == ASSUME UNCHANGED backend PROVE \A t \in Request : Locks(t)' = Locks(t)
BY DEF Locks

\* A request starts, or fails before it has the lock.
LEMMA StartStep ==
  ASSUME StoreInv, StoreTypeOK', NEW t \in Request, Start(t) \/ LockTimeout(t)
  PROVE  StoreInv'
BY RequestAssumption, LocksStay
DEF StoreInv, StoreTypeOK, LockIsHeld, LoopIsKept, WorksOnDisk, DiskIsCommitted,
  InLock, Unlocked,
    Start, LockTimeout, Moves, Effect

\* A request enters the lock, reads the persisted state, or prepares to write it.
LEMMA EnterStep ==
  ASSUME StoreInv, StoreTypeOK', NEW t \in Request, EnterLock(t) \/ Load(t) \/ WriteTemp(t)
  PROVE  StoreInv'
<1>1. CASE EnterLock(t)
  BY <1>1, RequestAssumption, LocksStay
  DEF StoreInv, StoreTypeOK, LockIsHeld, LoopIsKept, WorksOnDisk, DiskIsCommitted, InLock,
      Unlocked, EnterLock, Moves, Effect, FileLock!Enter
<1>2. CASE Load(t)
  BY <1>2, RequestAssumption, LocksStay
  DEF StoreInv, StoreTypeOK, LockIsHeld, LoopIsKept, WorksOnDisk, DiskIsCommitted, InLock,
      Unlocked, Load, Moves, Effect
<1>3. CASE WriteTemp(t)
  BY <1>3, RequestAssumption, LocksStay
  DEF StoreInv, StoreTypeOK, LockIsHeld, LoopIsKept, WorksOnDisk, DiskIsCommitted, InLock,
      Unlocked, WriteTemp, Moves, Effect
<1> QED
  BY <1>1, <1>2, <1>3

\* While another request of its process may run, a request that locks is not
\* between its hydration and its export.
LEMMA StoreIsOwned ==
  ASSUME StoreInv, WritersRunThrough, NEW t \in Request, NEW u \in Request, t # u,
         ServerOf[u] = ServerOf[t], Runs(t), Locks(u),
         place[u] \in {"executing", "exporting"}
  PROVE  Locks(t) /\ t \notin inside
<1>1. CASE u \in Yielding
  BY <1>1, BackendAssumption
  DEF StoreInv, StoreTypeOK, LockIsHeld, InLock, WritersRunThrough, Locks
<1>2. CASE u \notin Yielding
  BY <1>2, RequestAssumption DEF StoreInv, LoopIsKept, Runs
<1> QED
  BY <1>1, <1>2

\* A request takes the store of its process.
LEMMA HydrateStep ==
  ASSUME StoreInv, StoreTypeOK', WritersRunThrough, NEW t \in Request, Hydrate(t)
  PROVE  StoreInv'
<1>1. LockIsHeld' /\ DiskIsCommitted'
  BY LocksStay
  DEF StoreInv, StoreTypeOK, LockIsHeld, DiskIsCommitted, InLock, Unlocked, Hydrate, Moves
<1>2. LoopIsKept'
  BY RequestAssumption DEF StoreInv, StoreTypeOK, LoopIsKept, Hydrate, Moves, Runs
<1>3. WorksOnDisk'
  <2> SUFFICES ASSUME NEW u \in Request, Locks(u)
               PROVE  /\ place'[u] = "hydrating" => snapshot'[u] = disk'
                      /\ place'[u] = "executing" => stores'[ServerOf[u]] = disk'
                      /\ place'[u] = "exporting" =>
                           stores'[ServerOf[u]] = disk' \cup Effect(u)
                      /\ place'[u] \in {"writing", "renaming"} =>
                           snapshot'[u] = disk' \cup Effect(u)
                      /\ place'[u] \in {"leaving", "done"} => Effect(u) \subseteq disk'
    BY LocksStay DEF WorksOnDisk, Hydrate, Effect
  <2>1. CASE u = t
    BY <2>1, RequestAssumption DEF StoreInv, StoreTypeOK, WorksOnDisk, Hydrate, Moves
  <2>2. CASE u # t /\ ~(ServerOf[u] = ServerOf[t] /\ place[u] \in {"executing",
    "exporting"})
    BY <2>2, RequestAssumption DEF StoreInv, StoreTypeOK, WorksOnDisk, Hydrate, Moves
  <2>3. CASE u # t /\ ServerOf[u] = ServerOf[t] /\ place[u] \in {"executing", "exporting"}
    BY <2>3, StoreIsOwned DEF StoreInv, LockIsHeld, InLock, Hydrate, Moves
  <2> QED
    BY <2>1, <2>2, <2>3
<1> QED
  BY <1>1, <1>2, <1>3 DEF StoreInv

\* The executor changes the store of its process, and ends or throws.
LEMMA ExecuteStep ==
  ASSUME StoreInv, StoreTypeOK', WritersRunThrough, NEW t \in Request,
    Execute(t) \/ ExecuteThrows(t)
  PROVE  StoreInv'
<1>1. PICK partial \in SUBSET Effect(t) :
        /\ stores' = [stores EXCEPT ![ServerOf[t]] = @ \cup partial]
        /\ Execute(t) => partial = Effect(t)
  BY DEF Execute, ExecuteThrows
<1>2. LockIsHeld' /\ DiskIsCommitted'
  BY LocksStay
  DEF StoreInv, StoreTypeOK, LockIsHeld, DiskIsCommitted, InLock, Unlocked, Execute,
    ExecuteThrows, Moves
<1>3. LoopIsKept'
  BY RequestAssumption DEF StoreInv, StoreTypeOK, LoopIsKept, Execute, ExecuteThrows,
     Moves, Runs
<1>4. ASSUME NEW u \in Request, Locks(u), u = t
      PROVE  /\ place'[u] \in {"exporting", "failing"}
             /\ place'[u] = "exporting" => stores'[ServerOf[u]] = disk' \cup Effect(u)
  BY <1>1, <1>4, RequestAssumption
  DEF StoreInv, StoreTypeOK, WorksOnDisk, Execute, ExecuteThrows, Moves
<1>5. ASSUME NEW u \in Request, Locks(u), u # t,
             ServerOf[u] = ServerOf[t], place[u] \in {"executing", "exporting"}
      PROVE  FALSE
  BY <1>5, StoreIsOwned DEF StoreInv, LockIsHeld, InLock, Execute, ExecuteThrows, Moves
<1>6. WorksOnDisk'
  BY <1>1, <1>4, <1>5, LocksStay, RequestAssumption
  DEF StoreInv, StoreTypeOK, WorksOnDisk, Execute, ExecuteThrows, Moves, Effect
<1> QED
  BY <1>2, <1>3, <1>6 DEF StoreInv

\* The export of the store, a failed read or write, the release of the lock.
LEMMA ExportStep ==
  ASSUME StoreInv, StoreTypeOK', NEW t \in Request, Export(t) \/ IOFails(t)
  PROVE  StoreInv'
<1>1. CASE Export(t)
  BY <1>1, RequestAssumption, LocksStay
  DEF StoreInv, StoreTypeOK, LockIsHeld, LoopIsKept, WorksOnDisk, DiskIsCommitted, InLock,
      Unlocked, Export, Moves, Effect, Runs
<1>2. CASE IOFails(t)
  BY <1>2, RequestAssumption, LocksStay
  DEF StoreInv, StoreTypeOK, LockIsHeld, LoopIsKept, WorksOnDisk, DiskIsCommitted, InLock,
      Unlocked, IOFails, Effect
<1> QED
  BY <1>1, <1>2

LEMMA LeaveStep ==
  ASSUME StoreInv, StoreTypeOK', NEW t \in Request, LeaveLock(t)
  PROVE  StoreInv'
BY RequestAssumption, LocksStay
DEF StoreInv, StoreTypeOK, LockIsHeld, LoopIsKept, WorksOnDisk, DiskIsCommitted, InLock,
    Unlocked, LeaveLock, Moves, Effect, FileLock!Leave

\* What the request in the lock persists is the persisted state and its effect:
\* no other request is then at work on it.
LEMMA CommitAdds ==
  ASSUME StoreInv, NEW t \in Request, Commit(t)
  PROVE  /\ disk' = disk \cup Effect(t)
         /\ Locks(t) /\ t \in inside
BY DEF StoreInv, LockIsHeld, WorksOnDisk, InLock, Unlocked, Commit, Moves

LEMMA CommitStep ==
  ASSUME StoreInv, StoreTypeOK', NEW t \in Request, Commit(t)
  PROVE  StoreInv'
<1>1. LockIsHeld' /\ LoopIsKept'
  BY LocksStay
  DEF StoreInv, StoreTypeOK, LockIsHeld, LoopIsKept, InLock, Unlocked, Commit, Moves
<1>2. WorksOnDisk'
  <2>1. ASSUME NEW u \in Request, Locks(u), u # t
        PROVE  place'[u] \in {"leaving", "done"} => Effect(u) \subseteq disk'
    <3>1. place'[u] = place[u] /\ disk \subseteq disk'
      BY <2>1, CommitAdds DEF StoreInv, StoreTypeOK, Commit, Moves
    <3> QED
      BY <2>1, <3>1 DEF StoreInv, WorksOnDisk
  <2>2. ASSUME NEW u \in Request, Locks(u), u # t
        PROVE  place'[u] \notin {"hydrating", "executing", "exporting", "writing",
          "renaming"}
    BY <2>2, CommitAdds DEF StoreInv, StoreTypeOK, LockIsHeld, InLock, Commit, Moves
  <2>3. place'[t] = "leaving" /\ Effect(t) \subseteq disk'
    BY CommitAdds DEF StoreInv, StoreTypeOK, Commit, Moves
  <2> QED
    BY <2>1, <2>2, <2>3, LocksStay DEF WorksOnDisk, Commit, Effect
<1>3. DiskIsCommitted'
  <2> SUFFICES ASSUME NEW u \in disk'
               PROVE  u \in Writers /\ place'[u] \in {"leaving", "done", "dead"}
    BY DEF DiskIsCommitted
  <2>1. u \in disk \/ (u = t /\ t \in Writers)
    BY CommitAdds DEF Effect
  <2> QED
    BY <2>1 DEF StoreInv, StoreTypeOK, DiskIsCommitted, Commit, Moves
<1> QED
  BY <1>1, <1>2, <1>3 DEF StoreInv

\* A crash takes the requests of one process, and nothing persisted.
LEMMA CrashStep ==
  ASSUME StoreInv, StoreTypeOK', NEW p \in Server, ServerDies(p)
  PROVE  StoreInv'
BY RequestAssumption, LocksStay
DEF StoreInv, StoreTypeOK, LockIsHeld, LoopIsKept, WorksOnDisk, DiskIsCommitted, InLock,
    Unlocked, ServerDies, Effect

LEMMA InvStep ==
  ASSUME StoreInv, WritersRunThrough, [StoreNext]_storeVars
  PROVE  StoreInv'
<1>1. StoreTypeOK'
  BY TypeStep DEF StoreInv
<1>2. ASSUME NEW t \in Request, Start(t) \/ Answer(t) PROVE StoreInv'
  BY <1>1, <1>2, StartStep, EnterStep, HydrateStep, ExecuteStep, ExportStep, CommitStep,
     LeaveStep DEF Answer
<1>3. CASE UNCHANGED storeVars
  BY <1>1, <1>3, LocksStay
  DEF storeVars, StoreInv, LockIsHeld, LoopIsKept, WorksOnDisk, DiskIsCommitted, Effect
<1> QED
  BY <1>1, <1>2, <1>3, CrashStep DEF StoreNext

THEOREM StoreInductive == WritersRunThrough => (StoreSpec => []StoreInv)
<1> SUFFICES ASSUME WritersRunThrough PROVE StoreSpec => []StoreInv
  OBVIOUS
<1>1. StoreInv /\ [StoreNext]_storeVars => StoreInv'
  BY InvStep
<1> QED
  BY <1>1, InvInit, PTL DEF StoreSpec

-----------------------------------------------------------------------------
(* What follows from it                                                    *)

\* A request that locked and was answered with success has its effects in the
\* persisted state: with the shared file that is every one but a read-only one.
LockedIsDurable ==
  \A t \in Writers : place[t] = "done" /\ Locks(t) => t \in disk

\* Writers that skip the lock may lose their own effects, not those of the others.
THEOREM LockedDurabilityHolds == WritersRunThrough => (StoreSpec => []LockedIsDurable)
<1>1. StoreInv => LockedIsDurable
  BY RequestAssumption DEF StoreInv, WorksOnDisk, LockedIsDurable, Effect
<1> QED
  BY <1>1, StoreInductive, PTL

\* Where the operations that skip the lock do not write, that is every request.
THEOREM DurabilityHolds ==
  WritersRunThrough /\ ReadersOnlyRead => (StoreSpec => []AcknowledgedIsDurable)
<1> SUFFICES ASSUME WritersRunThrough, ReadersOnlyRead
             PROVE  StoreSpec => []AcknowledgedIsDurable
  OBVIOUS
<1>1. StoreInv => AcknowledgedIsDurable
  BY RequestAssumption, BackendAssumption
  DEF StoreInv, StoreTypeOK, WorksOnDisk, AcknowledgedIsDurable, Effect, Locks,
    ReadersOnlyRead
<1> QED
  BY <1>1, StoreInductive, PTL

\* A request that failed, halfway through its runner or in its write, left nothing
\* in the persisted state, whatever was persisted from the same store since.
THEOREM NoTraceHolds == WritersRunThrough => (StoreSpec => []FailedLeavesNoTrace)
<1>1. StoreInv => FailedLeavesNoTrace
  BY DEF StoreInv, DiskIsCommitted, FailedLeavesNoTrace
<1> QED
  BY <1>1, StoreInductive, PTL

\* Every change of the persisted state adds the effect of one request.
THEOREM CommitsAreSerial == WritersRunThrough => (StoreSpec => SerialCommits)
<1> SUFFICES ASSUME WritersRunThrough PROVE StoreSpec => SerialCommits
  OBVIOUS
<1>1. ASSUME StoreInv, [StoreNext]_storeVars, disk' # disk
      PROVE  \E t \in Writers : disk' = disk \cup {t}
  <2>1. PICK t \in Request : Commit(t)
    BY <1>1
    DEF StoreNext, Answer, Start, EnterLock, LockTimeout, Load, Hydrate, Execute,
      ExecuteThrows,
        Export, WriteTemp, IOFails, LeaveLock, ServerDies, storeVars
  <2>2. disk' = disk \cup Effect(t)
    BY <1>1, <2>1, CommitAdds
  <2> QED
    BY <1>1, <2>2 DEF Effect
<1> QED
  BY <1>1, StoreInductive, PTL DEF SerialCommits, StoreSpec

-----------------------------------------------------------------------------
(* What a response shows                                                   *)

LEMMA DiskGrows == ASSUME StoreInv, [StoreNext]_storeVars PROVE disk \subseteq disk'
<1>1. ASSUME NEW t \in Request, Commit(t) PROVE disk \subseteq disk'
  BY <1>1, CommitAdds
<1> QED
  BY <1>1
  DEF StoreNext, Answer, Start, EnterLock, LockTimeout, Load, Hydrate, Execute,
    ExecuteThrows,
      Export, WriteTemp, IOFails, LeaveLock, ServerDies, storeVars

\* Of the requests that take no lock, none is past its hydration while another
\* of its process may run.
LEMMA ReaderRunsThrough ==
  ASSUME StoreInv, AllRunThrough, NEW t \in Request, NEW u \in Request, t # u,
         ServerOf[u] = ServerOf[t], Runs(t), ~Locks(u)
  PROVE  place[u] # "executing"
BY RequestAssumption, BackendAssumption
DEF StoreInv, StoreTypeOK, LoopIsKept, AllRunThrough, Runs, Locks

\* No step of a request shows another, or itself, what is not persisted.
LEMMA SeesStep ==
  ASSUME StoreInv, SeesCommitted, AllRunThrough, ReadersOnlyRead, StoreTypeOK',
         NEW t \in Request, Start(t) \/ Answer(t), disk \subseteq disk'
  PROVE  SeesCommitted'
<1> USE RequestAssumption, LocksStay
<1>1. CASE Start(t) \/ LockTimeout(t) \/ EnterLock(t) \/ Load(t) \/ WriteTemp(t)
           \/ IOFails(t) \/ Export(t)
  BY <1>1
  DEF StoreInv, StoreTypeOK, SeesCommitted, Start, LockTimeout, EnterLock, Load,
    WriteTemp, IOFails,
      Export, Moves, Effect
<1>2. CASE Hydrate(t)
  <2>1. ASSUME NEW u \in Request, u # t, ~Locks(u), place[u] = "executing"
        PROVE  ServerOf[u] # ServerOf[t]
    BY <1>2, <2>1, ReaderRunsThrough DEF Hydrate
  <2> QED
    BY <1>2, <2>1 DEF StoreInv, StoreTypeOK, SeesCommitted, Hydrate, Moves, Effect
<1>3. CASE Execute(t)
  <2>1. ASSUME NEW u \in Request, u # t, ~Locks(u), place[u] = "executing"
        PROVE  ServerOf[u] # ServerOf[t]
    BY <1>3, <2>1, ReaderRunsThrough DEF Execute
  <2>2. view'[t] = stores[ServerOf[t]] \cup Effect(t)
    BY <1>3 DEF StoreInv, StoreTypeOK, Execute
  <2>3. Locks(t) => view'[t] \subseteq disk \cup Effect(t)
    BY <1>3, <2>2 DEF StoreInv, WorksOnDisk, Execute, Moves
  <2>4. ~Locks(t) => view'[t] \subseteq disk
    BY <1>3, <2>2, BackendAssumption
    DEF StoreInv, StoreTypeOK, SeesCommitted, Execute, Moves, Locks, ReadersOnlyRead, Effect
  <2> QED
    BY <1>3, <2>1, <2>3, <2>4 DEF StoreInv, StoreTypeOK, SeesCommitted, Execute, Moves,
       Effect
<1>4. CASE ExecuteThrows(t)
  <2>1. ASSUME NEW u \in Request, u # t, ~Locks(u), place[u] = "executing"
        PROVE  ServerOf[u] # ServerOf[t]
    BY <1>4, <2>1, ReaderRunsThrough DEF ExecuteThrows
  <2> QED
    BY <1>4, <2>1 DEF StoreInv, StoreTypeOK, SeesCommitted, ExecuteThrows, Moves, Effect
<1>5. CASE Commit(t)
  BY <1>5, CommitAdds DEF StoreInv, StoreTypeOK, SeesCommitted, Commit, Moves, Effect
<1>6. CASE LeaveLock(t)
  BY <1>6 DEF StoreInv, StoreTypeOK, LockIsHeld, WorksOnDisk, SeesCommitted, LeaveLock,
     Moves, Effect,
              FileLock!Leave
<1> QED
  BY <1>1, <1>2, <1>3, <1>4, <1>5, <1>6 DEF Answer

\* No response shows the effects of a request that was never persisted, where
\* executors run through and the operations that skip the lock do not write.
THEOREM ReadsAreCommitted ==
  AllRunThrough /\ ReadersOnlyRead => (StoreSpec => []ReadsOnlyCommitted)
<1> SUFFICES ASSUME AllRunThrough, ReadersOnlyRead
             PROVE  StoreSpec => []ReadsOnlyCommitted
  OBVIOUS
<1>1. WritersRunThrough
  BY DEF AllRunThrough, WritersRunThrough
<1>2. StoreInit => SeesCommitted
  BY RequestAssumption DEF StoreInit, SeesCommitted
<1>3. StoreInv /\ SeesCommitted /\ [StoreNext]_storeVars => SeesCommitted'
  <2> SUFFICES ASSUME StoreInv, SeesCommitted, [StoreNext]_storeVars PROVE SeesCommitted'
    OBVIOUS
  <2>1. StoreTypeOK'
    BY TypeStep DEF StoreInv
  <2>2. ASSUME NEW t \in Request, Start(t) \/ Answer(t) PROVE SeesCommitted'
    BY <2>1, <2>2, SeesStep, DiskGrows
  <2>3. ASSUME NEW p \in Server, ServerDies(p) PROVE SeesCommitted'
    BY <2>3, RequestAssumption, LocksStay DEF StoreInv, StoreTypeOK, SeesCommitted,
       ServerDies, Effect
  <2>4. CASE UNCHANGED storeVars
    BY <2>4, LocksStay DEF storeVars, SeesCommitted, Effect
  <2> QED
    BY <2>2, <2>3, <2>4 DEF StoreNext
<1>4. SeesCommitted => ReadsOnlyCommitted
  BY DEF SeesCommitted, ReadsOnlyCommitted
<1> QED
  BY <1>1, <1>2, <1>3, <1>4, StoreInductive, PTL DEF StoreSpec
=============================================================================
