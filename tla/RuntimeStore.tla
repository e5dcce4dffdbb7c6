---------------------------- MODULE RuntimeStore ----------------------------
(***************************************************************************)
(* How one operation runs against the persisted state                      *)
(* (apps/api/src/runtime-service.ts, persistence.ts): hydrate the          *)
(* in-memory store of the process from the persisted snapshot, execute the *)
(* operation on it, export the store and persist the export, all inside    *)
(* the lock of the state file, or without it for the operations listed in  *)
(* READ_ONLY_OPERATIONS.                                                   *)
(*                                                                         *)
(* A server is a process; a snapshot is the set of the requests whose      *)
(* effects it holds.  All requests of a server share one store (the module *)
(* global `stores` of core.ts) and one event loop.  The lock is the        *)
(* abstract one that StateLock implements.                                 *)
(***************************************************************************)
EXTENDS FiniteSets

CONSTANTS
  Request,     \* requests
  Server,      \* processes
  ServerOf,    \* the process that serves each request
  Writers,     \* requests whose runner changes the store
  ReadOnly,    \* requests whose operation is in READ_ONLY_OPERATIONS
  Yielding,    \* requests whose executor waits for I/O
  Backends,    \* "shared" (legacy JSON file) or "sqlite", or both, to choose from
  NoRequest    \* the event loop is free

ASSUME RequestAssumption ==
  /\ ServerOf \in [Request -> Server] /\ NoRequest \notin Request
  /\ Writers \subseteq Request /\ ReadOnly \subseteq Request /\ Yielding \subseteq Request
ASSUME BackendAssumption == Backends \subseteq {"shared", "sqlite"}

VARIABLES
  backend,   \* what the name of the state file selected, once and for all
  disk,      \* the persisted snapshot: the JSON file or the sqlite row
  stores,    \* the in-memory store of each process
  plugin,    \* whether the configured policy pack plugin is installed
  loop,      \* the request whose continuation must finish before others run
  inside,    \* the requests inside the lock of the state file
  place,     \* where each request is
  snapshot,  \* what each request read, and later what it exported
  view,      \* the store each request's response was computed from
  governed   \* whether the plugin was installed when the request executed

storeVars == <<backend, disk, stores, plugin, loop, inside, place, snapshot, view,
             governed>>

Place == {"new", "locking", "loading", "hydrating", "executing", "exporting",
          "writing", "renaming", "leaving", "failing", "done", "failed", "dead"}

FileLock == INSTANCE ExclusiveLock WITH Task <- Request, holders <- inside

\* withExclusiveLock is skipped for the read-only operations of the shared file.
Locks(t) == backend = "sqlite" \/ t \notin ReadOnly

StoreInit ==
  /\ backend \in Backends
  /\ disk = {}
  /\ stores = [p \in Server |-> {}]
  /\ plugin = [p \in Server |-> FALSE]
  /\ loop = [p \in Server |-> NoRequest]
  /\ inside = {}
  /\ place = [t \in Request |-> "new"]
  /\ snapshot = [t \in Request |-> {}]
  /\ view = [t \in Request |-> {}]
  /\ governed = [t \in Request |-> TRUE]

Moves(t, from, to) == place[t] = from /\ place' = [place EXCEPT ![t] = to]
\* Only the request that holds the event loop of its process may run.
Runs(t) == loop[ServerOf[t]] \in {NoRequest, t}

-----------------------------------------------------------------------------
(* Faulty variants of the steps below, which the properties must reject    *)

\* The lock does not exclude.
EnterLockShared(t) ==
  /\ Runs(t)
  /\ inside' = inside \cup {t}
  /\ Moves(t, "locking", "loading")
  /\ UNCHANGED <<backend, disk, stores, plugin, loop, snapshot, view, governed>>
\* The lock is recorded for the process, not for the request.
EnterLockOfProcess(t) ==
  /\ Runs(t)
  /\ inside = {} /\ inside' = {ServerOf[t]}
  /\ Moves(t, "locking", "loading")
  /\ UNCHANGED <<backend, disk, stores, plugin, loop, snapshot, view, governed>>
HydrateTo(t, store) ==
  /\ Runs(t)
  /\ Moves(t, "hydrating", "executing")
  /\ stores' = [stores EXCEPT ![ServerOf[t]] = store]
  /\ plugin' = [plugin EXCEPT ![ServerOf[t]] = @ /\ backend = "shared"]
  /\ loop' = [loop EXCEPT ![ServerOf[t]] = IF t \in Yielding THEN NoRequest ELSE t]
  /\ UNCHANGED <<backend, disk, inside, snapshot, view, governed>>
\* The snapshot is merged into the store, or loaded only into an empty one.
HydrateMerging(t) == HydrateTo(t, stores[ServerOf[t]] \cup snapshot[t])
HydrateOnce(t) ==
  HydrateTo(t, IF stores[ServerOf[t]] = {} THEN snapshot[t] ELSE stores[ServerOf[t]])
\* A failed write is ignored.
IOFailsSilently(t) ==
  /\ Runs(t)
  /\ place[t] \in {"writing", "renaming"}
  /\ place' = [place EXCEPT ![t] = "leaving"]
  /\ UNCHANGED <<backend, disk, stores, plugin, loop, inside, snapshot, view, governed>>
\* The lock is released after success only.
LeaveLockOnSuccess(t) ==
  /\ Runs(t)
  /\ \/ FileLock!Leave(t) /\ Moves(t, "leaving", "done")
     \/ UNCHANGED inside /\ Moves(t, "failing", "failed")
  /\ UNCHANGED <<backend, disk, stores, plugin, loop, snapshot, view, governed>>

-----------------------------------------------------------------------------
\* createDefaultRuntimeService().executeOperation: the plugin named by the
\* environment is installed first, for the whole process.
Start(t) ==
  /\ Runs(t)
  /\ Moves(t, "new", IF Locks(t) THEN "locking" ELSE "loading")
  /\ plugin' = [plugin EXCEPT ![ServerOf[t]] = TRUE]
  /\ UNCHANGED <<backend, disk, stores, loop, inside, snapshot, view, governed>>

EnterLock(t) ==
  /\ Runs(t)
  /\ FileLock!Enter(t)
  /\ Moves(t, "locking", "loading")
  /\ UNCHANGED <<backend, disk, stores, plugin, loop, snapshot, view, governed>>

\* STATE_LOCK_TIMEOUT
LockTimeout(t) ==
  /\ Runs(t)
  /\ Moves(t, "locking", "failed")
  /\ UNCHANGED <<backend, disk, stores, plugin, loop, inside, snapshot, view, governed>>

\* readSnapshotFromFile, loadPersistedSnapshot
Load(t) ==
  /\ Runs(t)
  /\ Moves(t, "loading", "hydrating")
  /\ snapshot' = [snapshot EXCEPT ![t] = disk]
  /\ UNCHANGED <<backend, disk, stores, plugin, loop, inside, view, governed>>

\* importStoreSnapshot replaces the store; the sqlite path calls resetStore
\* first, which also resets the plugin.  From here to the export the code runs
\* without giving up the event loop, unless its executor waits.
Hydrate(t) ==
  /\ Runs(t)
  /\ Moves(t, "hydrating", "executing")
  /\ stores' = [stores EXCEPT ![ServerOf[t]] = snapshot[t]]
  /\ plugin' = [plugin EXCEPT ![ServerOf[t]] = @ /\ backend = "shared"]
  /\ loop' = [loop EXCEPT ![ServerOf[t]] = IF t \in Yielding THEN NoRequest ELSE t]
  /\ UNCHANGED <<backend, disk, inside, snapshot, view, governed>>

Effect(t) == Writers \cap {t}

\* A read-only operation of the shared file answers now; the others persist.
Execute(t) ==
  /\ Runs(t)
  /\ Moves(t, "executing", IF Locks(t) THEN "exporting" ELSE "done")
  /\ stores' = [stores EXCEPT ![ServerOf[t]] = @ \cup Effect(t)]
  /\ view' = [view EXCEPT ![t] = stores'[ServerOf[t]]]
  /\ governed' = [governed EXCEPT ![t] = plugin[ServerOf[t]]]
  /\ loop' = [loop EXCEPT ![ServerOf[t]] = IF Locks(t) THEN @ ELSE NoRequest]
  /\ UNCHANGED <<backend, disk, plugin, inside, snapshot>>

\* The runner throws, before or after it changed the store.
ExecuteThrows(t) ==
  /\ Runs(t)
  /\ Moves(t, "executing", IF Locks(t) THEN "failing" ELSE "failed")
  /\ \E partial \in SUBSET Effect(t) :
       stores' = [stores EXCEPT ![ServerOf[t]] = @ \cup partial]
  /\ loop' = [loop EXCEPT ![ServerOf[t]] = NoRequest]
  /\ UNCHANGED <<backend, disk, plugin, inside, snapshot, view, governed>>

\* exportStoreSnapshot, the synchronous start of the persist.
Export(t) ==
  /\ Runs(t)
  /\ Moves(t, "exporting", "writing")
  /\ snapshot' = [snapshot EXCEPT ![t] = stores[ServerOf[t]]]
  /\ loop' = [loop EXCEPT ![ServerOf[t]] = NoRequest]
  /\ UNCHANGED <<backend, disk, stores, plugin, inside, view, governed>>

\* writeSnapshotAtomic: the temporary file is private to the request until it is
\* renamed.  persistSnapshot is one sqlite statement.
WriteTemp(t) ==
  /\ Runs(t)
  /\ backend = "shared"
  /\ Moves(t, "writing", "renaming")
  /\ UNCHANGED <<backend, disk, stores, plugin, loop, inside, snapshot, view, governed>>

Commit(t) ==
  /\ Runs(t)
  /\ Moves(t, IF backend = "shared" THEN "renaming" ELSE "writing", "leaving")
  /\ disk' = snapshot[t]
  /\ UNCHANGED <<backend, stores, plugin, loop, inside, snapshot, view, governed>>

\* A read or a write of the state fails; the finally block still releases.
IOFails(t) ==
  /\ Runs(t)
  /\ place[t] \in {"loading", "writing", "renaming"}
  /\ place' = [place EXCEPT ![t] = IF Locks(t) THEN "failing" ELSE "failed"]
  /\ UNCHANGED <<backend, disk, stores, plugin, loop, inside, snapshot, view, governed>>

LeaveLock(t) ==
  /\ Runs(t)
  /\ FileLock!Leave(t)
  /\ Moves(t, "leaving", "done") \/ Moves(t, "failing", "failed")
  /\ UNCHANGED <<backend, disk, stores, plugin, loop, snapshot, view, governed>>

\* The process dies with everything in its memory; its lock is reclaimed.
ServerDies(p) ==
  /\ \E t \in Request : ServerOf[t] = p /\ place[t] \notin {"new", "done", "failed", "dead"}
  /\ LET gone == {t \in Request : ServerOf[t] = p /\ place[t] \notin {"done", "failed"}}
     IN /\ place' = [t \in Request |-> IF t \in gone THEN "dead" ELSE place[t]]
        /\ inside' = inside \ gone
  /\ stores' = [stores EXCEPT ![p] = {}]
  /\ loop' = [loop EXCEPT ![p] = NoRequest]
  /\ UNCHANGED <<backend, disk, plugin, snapshot, view, governed>>

-----------------------------------------------------------------------------
Answer(t) ==
  \/ EnterLock(t) \/ LockTimeout(t) \/ Load(t) \/ Hydrate(t) \/ Execute(t)
  \/ ExecuteThrows(t) \/ Export(t) \/ WriteTemp(t) \/ Commit(t) \/ IOFails(t)
  \/ LeaveLock(t)

StoreNext ==
  \/ \E t \in Request : Start(t) \/ Answer(t)
  \/ \E p \in Server : ServerDies(p)

StoreSpec == StoreInit /\ [][StoreNext]_storeVars

-----------------------------------------------------------------------------
StoreTypeOK ==
  /\ backend \in Backends
  /\ disk \subseteq Request
  /\ stores \in [Server -> SUBSET Request]
  /\ plugin \in [Server -> BOOLEAN]
  /\ loop \in [Server -> Request \cup {NoRequest}]
  /\ inside \subseteq Request
  /\ place \in [Request -> Place]
  /\ snapshot \in [Request -> SUBSET Request]
  /\ view \in [Request -> SUBSET Request]
  /\ governed \in [Request -> BOOLEAN]

\* A request that was answered with success has its effects in the persisted
\* state, and they stay there whatever other processes write or lose later.
AcknowledgedIsDurable ==
  \A t \in Writers : place[t] = "done" => t \in disk

\* A request that failed left nothing in the persisted state, even if its runner
\* threw halfway and a later request of the process persisted the same store.
FailedLeavesNoTrace ==
  \A t \in Request : place[t] \in {"failing", "failed"} => t \notin disk

\* No response shows the effects of a request that was never persisted: what a
\* read sees, a crash of any process cannot take back.
ReadsOnlyCommitted ==
  \A t \in Request : place[t] = "done" => view[t] \subseteq disk

\* Requests are serialised: every change of the persisted state is the effect of
\* one request added to the state just before, so no request overwrites the
\* effects of another or persists those of a request that has not committed.
SerialCommits ==
  [][disk' # disk => \E t \in Writers : disk' = disk \cup {t}]_storeVars

\* No request that arrived stays unanswered for ever unless its process dies, and
\* however requests end, they leave the lock free for those that come later.
Answered ==
  []<>(/\ \A t \in Request : place[t] \in {"new", "done", "failed", "dead"}
       /\ inside = {})

\* The configured policy pack plugin governs every operation that is executed.
PluginGoverns == \A t \in Request : governed[t]
=============================================================================
