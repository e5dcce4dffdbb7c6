# Formal models of UMS memory

TLA+ models of `ums-memory`: what its concurrent and stateful parts do, model-checked with TLC on
small instances, and in part proved with TLAPS for every instance. Paths in this file are relative
to the repository; `PROJECT.json` maps every definition to the lines it models and lists the runs,
the faulty variants every property must reject, the findings, the hazards and the theorems.

How to run, from this directory:

    tlc -config state_file.cfg MCStateFile.tla      # a run: its module and its .cfg
    tlapm StateLockProofs.tla                       # a proof module

## 1. Inventory

The system is a memory service for coding agents: an in-memory engine (`apps/api/src/core.ts`) of
synchronous operations over scopes `(storeId, profile)`, a persistence layer that loads and saves
its whole store around each operation, an HTTP service and a supervised worker in front of it, and a
local daemon (`apps/ums`) that feeds it with what coding tools write.

| Component | State | Operations | Hard behaviour | What makes it correct | Module |
|---|---|---|---|---|---|
| Shared state lock (`apps/api/src/persistence.ts`) | `<state>.lock`, `<state>.lock.reclaim`, pid and age of each | acquire, reclaim, release | tasks of several processes between any two system calls; crashes; failed writes; timeouts | exclusion; nobody removes a lock in use; orphans are freed | `StateLock` |
| Operation execution (`persistence.ts`, `runtime-service.ts`) | persisted snapshot, one process-wide store, the installed plugin | hydrate, execute, export, persist | requests share the store; runner, read or write fails; crash | one request at a time; durable when answered; no trace when failed | `RuntimeStore` |
| Candidate lifecycle (`core.ts`) | shadow candidates, replay evaluations, active rules, feedback | shadow_write, replay_eval, promote, demote, overrides, incidents, feedback, curation, review clock | requests replayed, corrected, out of order; six operations edit the rules | rules mirror promotions; promotions are earned; replays change nothing | `MemoryLifecycle` |
| Weights and outcomes (`core.ts`) | confidence, utility, adjustment ledger, outcomes | addweight, outcome, attribution, ranking policy | replays after the bounded ledger forgot | a remembered cause counts once; nudges are earned | `MemoryWeights` |
| Review schedule (`core.ts`) | entries, clocks, archival tiers, decay cursors | update, rebalance, clock tick | ticks replayed, out of order, over snapshots | the earliest are active; each day decays once | `ReviewScheduler` |
| Events to rules (`core.ts`, `ace/`) | events, rules; validations held by the caller | ingest, reflect, validate, curate_guarded, context ranking | validations go stale; batches overlap; ties | no request stores an event twice; one winner for a conflict; rules have evidence | `Curation` |
| Learner records (`core.ts`) | profile, identity edges, misconceptions, plan, decisions, signals | their updates, recommendations | merges in any order; refusals after a change | newest wins; signals count once; strictness stays | `ScopeRecords` |
| Recall and tutoring (`core.ts`) | allowlist, audit, sessions | recall_authorization, tutor_degraded, context | refusals are errors, errors are not persisted | the allowlist is what was acknowledged | `RecallTutor` |
| Policy audit (`core.ts`) | audit trail, decisions, incidents, exports | decisions, checks, incidents, export, console queries | a bounded trail ordered by callers' timestamps | the trail keeps the newest; what is told is true of it | `PolicyTrail` |
| Snapshot of the profiles (`core.ts`) | persisted snapshot, profiles | import, export, first use of a profile | defaults, older releases, shared objects | nothing ingested is lost; the import is stable | `StateSnapshot` |
| Collector daemon (`apps/ums/src/daemon-sync.ts`) | journal, sync state file, checkpoint files, memories, sync lock, daemon pid | sync cycle, pid updates | crash at any step; failed or half-done delivery; stale state written back; limits | every line is journaled once and delivered, in order | `DaemonSync`, `SourceCollection` |
| Daemon lifecycle (`daemon-lifecycle.ts`, `daemon-supervisor.ts`, `index.ts`) | pid in the sync state, install record, OS unit | install, start, stop, restart, status, uninstall | two starts; polling with timeouts; pid overwritten by a cycle | one daemon, and the status knows it | `DaemonControl` |
| Configuration (`daemon-config.ts`, `daemon-credentials.ts`, `index.ts`) | config file, keyring | account, memory, route, source and config commands | commands overlap without a lock; failing writes | always loadable; acknowledged commands hold | `CollectorConfig` |
| Supervised worker (`worker-runtime.ts`) | phase, fiber, deferreds, restart count | start, stop, signals, cycles, ready | stop against start, cycle, failure, signal | stop means stopped; ready() truthful and settled | `WorkerSupervisor` |
| API server and its supervisor (`server.ts`, `service-runtime.ts`, `telemetry.ts`) | phase, servers, handlers, loaded service, counters | requests, start, stop | stop against launch, restart, load; handlers outlive their server | stop means stopped; answers match work | `ApiService` |
| Sqlite runtime persistence (`libs/shared/src/effect/storage/sqlite/runtime-persistence-repository.ts`) | execution ledger, executions in flight | execute once | concurrent identical requests; failed, interrupted or crashed leader | callers of one request get one answer | `ExecutionLedger` |
| Storage repositories (`libs/shared/src/effect/storage`) | tenant tables, idempotency ledger, audit | upsert, delete, export, import, backfill | cascades, retries, another key; Postgres without a transaction | references stay in the tenant; a key acts once | `StorageRepository`, `PostgresStorage` |
| Migrations, backup (same directory) | schema version, snapshot files | open, migrate, back up, prune | two releases at once; crash; clock set back | the version names the schema; the latest backup is kept | `SchemaMigration`, `BackupReplicator` |
| Dual-run cutover (`storage-dualrun.ts`) | two repositories, waivers, report | run a suite on both, compare | a divergence no operation shows | passed means equal | `StorageDualRun` |
| Retrieval (`libs/shared/src/effect/services/retrieval-service.ts`) | none but the cursor | plan, reconcile, page, pack | a plan anew for each page | pages cover once; no conflict is shown; budgets hold | `RetrievalPlanner` |
| Identity, tenancy, authorization (same directory) | users, subjects, roles, checkpoints | life cycle, groups, session, access | feeds late, doubled, out of order | users follow the last events of their feeds; access is what groups grant | `IdentityDirectory` |
| Guidance, CLI, scripts, the older `account-sync.ts`, pure helpers | none, or no caller | load, save, report | I/O | not modelled | |

Interactions. Requests from the HTTP server, the worker, the CLI and the daemon's local delivery all
go through operation execution, which takes the state lock and calls the engine. The daemon takes a
sync lock of its own around each cycle and calls `ingest` for local accounts and HTTP for remote ones;
its pid is in the very file its cycles rewrite. The worker calls `review_schedule_clock` and
`replay_eval` as any client does.

## 2. Plan

The order follows the damage a fault does: first what protects the data, then what changes it.

1. `ExclusiveLock`, `StateLock`, `RuntimeStore`: done.
2. `MemoryLifecycle`, `DaemonSync`, `WorkerSupervisor`: done in their core.
3. The stores below (`ExecutionLedger`, `StorageRepository`, `PostgresStorage`, `StorageDualRun`,
   `SchemaMigration`, `BackupReplicator`), the rest of the engine (`MemoryWeights`, `ReviewScheduler`,
   `Curation`, `ScopeRecords`, `RecallTutor`, `PolicyTrail`, `StateSnapshot`) and what surrounds it
   (`DaemonControl`, `CollectorConfig`, `SourceCollection`, `RetrievalPlanner`, `IdentityDirectory`,
   `ApiService`): done.
4. Proofs: the lock, the runtime store, the sync cycle, the worker, the services, the stores, the daemon's
   commands, the configuration, every part of the engine and retrieval: done (section 6).

Composition: `RuntimeStore` and `DaemonSync` instantiate `ExclusiveLock`, the abstract specification
of a lock; `StateLock` is shown to implement it. A composition with the lock files themselves would
only multiply states that the refinement already covers. `StorageDualRun` extends the two repositories
it compares: a step of the suite is a step of each.

## 3. The modules

**`ExclusiveLock`**: a set of holders that has at most one member. The abstraction of both locks.

**`StateLock`** (`persistence.ts`: `acquireLock`, `reclaimStaleLock`, `acquireReclaimLock`,
`canReclaimLockFile`, `withExclusiveLock`, the lease functions). A task is one call; every system call
is an action, so other tasks run between the creation of a lock file and its pid, between the read of
a file and the stat of it, and between the verdict that it is stale and its removal. A file has its
creator, the pid in it (or none yet) and whether it is older than `LOCK_STALE_MS`. Faults are actions:
`Crash`, `WriteFails`, `Age`, `Expire`. `FaultAt` and `SlowTasks` say where they may strike. An error
of `rm` (the code ignores it), and a pid given to a new process by the system, are left out.

**`RuntimeStore`** (`executeOperationWithSharedState`, `executeSqliteBackedOperationEffect`,
`importStoreSnapshot`, `exportStoreSnapshot`, `writeSnapshotAtomic`). A task is one request; a snapshot
is the set of the requests whose effects it has. `loop` is the event loop of a process: from hydrate to
export the code runs without an await that lets another request in, so `Hydrate` takes the loop and
`Export` (or the answer of a read) gives it back. Both backends are instances of one model.

**`MemoryLifecycle`** (one scope of `core.ts`). Runners are synchronous: one request is one action,
with its trailing rule edits and demotions. A net value score is abstracted to its sign, and
timestamps to a few numbers. Freshness windows and thresholds are inputs.

**`DaemonSync`** (`runConfiguredSyncCycleEffect` and what it calls). It collects one file after the other, and files
grow in between; then it is cut at every write: journal, state file, source checkpoints, memory
checkpoints, each delivery. `Abort` ends it anywhere. Every read of
the state merges the two copies of each checkpoint by the higher value, as the code does, and every
cycle reconciles the state with the journal first. `UpdateStatus` is the pid update outside the lock.

**`WorkerSupervisor`** (`createSupervisedWorkerService`). One event loop; a step is what runs between
two awaits. `requestShutdown` is two steps because it awaits in the middle, `stop` up to three.

The stores:

**`ExecutionLedger`** (`runtime-persistence-repository.ts`: `execute`, `executeAndRecord`, the key and JSON
normalization). A caller looks for its row, then joins the execution in flight or starts one; the
execution runs, inserts its row if there is none, clears its registration and completes its deferred.
Every effect is a step, a caller may be interrupted, an execution or a whole process may die between
any two. Two repositories over one table stand for two processes.

**`StorageRepository`** (`sqlite/storage-repository.ts`, `enterprise-schema.ts`, `snapshot-codec.ts`). `db`
is a record of tables; a request is one transaction and one action, with its cascades, the audit entry
written after a rollback, and the replay of the idempotency ledger. What an upsert refers to is judged in
the order of the code, so that the first foreign or unknown reference decides its answer. Export, import and the provenance
backfill are actions; a history variable holds the effects of keyed requests.

**`PostgresStorage`** (`postgres/storage-repository.ts`). The same promises without a transaction: a request
makes up to four driver calls, one action each, and may fail at any and be sent again.

**`StorageDualRun`** (`storage-dualrun.ts`) extends both: `dual` holds a sqlite and a Postgres state, a step
runs one operation of the suite on both and appends the comparison, with the waivers, to `report`.

**`SchemaMigration`** (`sqlite/migrations.ts`): processes of two releases open a file; the steps of a
migration are those of one immediate transaction, a crash rolls it back, and the schema may be changed
by hand in between. **`BackupReplicator`** (`backup-replication.ts`): snapshots on demand and by a timer,
retention over the files and the list of managed ones, restarts that read the directory again, and a
clock that may be set back.

The engine (`apps/api/src/core.ts`), where a synchronous runner is one action:

**`MemoryWeights`**: `addweight` with the ledger and the audit trail that make it idempotent, outcomes that
move utilities, attribution and the ranking policy. Scores are steps of a small range.
**`ReviewScheduler`**: the schedule, the clocks and their consolidation, the bounded active set with its
tiers, and the decay every tick brings; each operation starts from what the snapshot keeps of the clocks.
**`Curation`** (also `ace/reflector.ts`, `validator.ts`, `curation-tiebreaks.ts`): ingest with both digests,
reflect, validate and curate_guarded. What validate answered stays with the caller (`held`), so events
may arrive before it is used. **`ScopeRecords`**: the merge of each kind of learner record with the record
of its id, and the recommendations made of them. **`RecallTutor`**: allowlist, refusals and tutoring
sessions, with and without a state file, since a refused operation is not persisted.
**`PolicyTrail`**: everything that writes the bounded audit trail, its export, incidents with their
quarantine, and the console's queries as operators over the same state. Only the rows of the console
that come from these writers are in it; the order of two events of one time is that of their hashes,
an arbitrary one (`AuditOrder`). **`StateSnapshot`**: import and export of all profiles around
each operation, with the default profile, what older releases left, and objects two profiles share.

What surrounds it:

**`DaemonControl`** (`daemon-lifecycle.ts`, `daemon-supervisor.ts`, the daemon command of `index.ts`): a command
reads the status, then acts on what it read, polls and kills; the daemon checks, records its pid, cycles
on a copy of the state and dies at a signal. `calm` says whether commands are run one at a time.
**`CollectorConfig`** (`daemon-config.ts`, `daemon-credentials.ts`, `index.ts`): a command is a process that
reads the file, checks its request, waits, and renames a whole new file into place.
**`SourceCollection`** (`daemon-sync.ts`): what a cycle reads, under which roots, and where it goes on. A
cycle is one step that may be cut at each of its writes, also inside the journal append; the files grow,
are left with half a record, and are rewritten. `DaemonSync` has the finer interleavings.
**`RetrievalPlanner`** (`retrieval-service.ts`): the plan of a request, the policy's denials, the
reconciliation of conflicts, the page, its cursor and its pack; scores are exact fractions.
**`IdentityDirectory`** (`enterprise-identity-service.ts`, `tenant-routing-service.ts`,
`authorization-service.ts`): the caller's tables are the state, an event of a feed, a login or an access
is an action. **`ApiService`** (`service-runtime.ts`, `server.ts`, `telemetry.ts`, `runtime-service.ts`): the
supervisor's loop step by step, several `stop()` calls, and requests whose handlers outlive the server.

Modules of several instances. `MCPersistence`, `MCEngine` and `MCDaemon` give the constants of the
stores, of the engine and of the rest their values; `MCPlatform` composes the three. `MCStateFile` has the
lock twice, with two sets of faults, and the requests of `RuntimeStore`; `MCBackground` has the sync cycle and
the worker. In each of these a behaviour is of one `part`. They also state the fairness (section 5). The
other `MC...` modules are of one module each. The theorems are in `StateLockProofs`, `RuntimeStoreProofs`,
`DaemonSyncProofs`, `WorkerSupervisorProofs`, `StorageProofs` (ledger, schema, backups, the two repositories
and their dual run), `EngineProofs` (the lifecycle, the other seven parts of the engine, retrieval),
`ServicesProofs` (the API, the directory, the daemon's commands, the configuration, the sources) and
`PlatformProofs` (the composition).

## 4. The runs

| Run | Instance | Shows |
|---|---|---|
| `state_file`, part `lock` | 3 tasks, 2 in one process; faults everywhere but inside the reclaim lock | the protocol implements the exclusive lock, and no orphan stays |
| `state_file`, part `recovery` | same tasks; deaths at any step once a pid is written, inside the reclaim lock as well | every call ends and the lock stays usable with orphaned reclaim files; **not** exclusion |
| `state_file`, part `requests` | 3 writers and a reader, 2 processes, both backends, errors and crashes | requests are serialised, durable, without a trace when failed; the lock is free again and again |
| `statelock_reclaim_race` | 4 tasks, 3 processes; one process dies holding both files | **violated**: two tasks inside the lock |
| `runtimestore_audit_export` | 1 writer, 1 export that is treated as read-only | **violated**: the audit event of an export is lost |
| `runtimestore_plugin` | sqlite backend | **violated**: the plugin is gone when the operation runs |
| `lifecycle_derived` | 2 candidates, 3 evaluations, streak limit 2, 3 timestamps, 1 feedback, 1 curated rule | rules mirror promotions; promotions are earned; streaks are right |
| `lifecycle_replay` | 1 candidate, 3 evaluations in any order | **violated**: a replayed evaluation changes its candidate |
| `background`, part `sync` | 1 tailed file of 2 lines, 1 plan to a read-only memory, daemon and CLI, crashes | nothing skipped, doubled, reordered or acknowledged early; all lines arrive |
| `background`, part `worker` | 2 stops, 1 signal, restart limit 2 | the properties of `WorkerSupervisor` |
| `platform` | nineteen parts, each in behaviours of its own (below) | the `...IsRight` property of every part, and its types |
| `snapshot_isolation` | the part `snapshot` alone | **violated**: the default profile has the events of a named one |
| `records_chronology` | the part `records` alone | **violated**: the note of a conflict is gone after the next operation |
| `identity_rebinding` | the part `identity` alone | **violated**: a subject that is bound is bound to another user |
| `identity_disabled` | the part `identity` alone | **violated**: a disabled user is allowed an action |

What is claimed of exclusion. With faults anywhere outside the reclaim lock two tasks are never inside the
lock, in the run and by theorem. With deaths inside the reclaim lock that is false of the code, and
`statelock_reclaim_race` shows it with four tasks of three processes: two contenders meet an orphaned reclaim
file beside a stale lock, and a third process left both. The part `recovery` has three tasks and two processes; that exclusion is not violated there would say nothing, and it is not checked there. What that
part does show, that calls end and the lock can be entered again, does not depend on exclusion.

Bounds and why they are enough. A race on the lock needs a holder and two contenders, of which two
share a process (a pid says nothing about them); the one that needs two orphaned files takes a fourth
task. Lost or mixed snapshots need two writers, a reader and a second process; the third writer lets a
failed request be followed by another that would persist its leftovers. A streak of two is the shortest
that a correction can break and restore, three evaluations allow one to be in the middle. A cycle can
fail between any two writes, so one file and two processes meet every cut; two lines are needed for an
order and for a second chunk, and the second process for a stale state written back. Three tails or two
limits give no new kind of step. Nothing else bounds the runs: ids, times and lengths are in the `.cfg`.

`platform` is one run because its components share no state: a behaviour is of one `part`, the
variables of the others stay as they are, and an invariant of the run is the conjunction of what each part
promises. `Parts = {"api"}` in the `.cfg` checks one alone. What its invariants say, by part:

| Invariant | Part | Instance | Shows |
|---|---|---|---|
| `PersistenceIsRight` | `schema` | 3 processes, 2 releases | the version names the schema; every row is indexed; nobody fails another's opening |
| | `backup` | 2 kept of 4 snapshots, clock of 3 | the latest backup is kept; sequences are fresh |
| | `postgres` | 4 requests, 4 sends | the ledger says what happened; a key acts once unless requests overlap or are cut |
| | `dualrun` | suites of 4 operations | a suite of what both promise agrees; one that passed with its state compared means equal |
| `LearningIsRight` | `weights` | 2 candidates, 2 rules, ledger of 1, trail of 2 | an adjustment counts once while the ledger or the trail remembers it; a stored outcome sent again changes nothing; rules follow candidates; nudges are earned |
| | `review` | 3 entries, 2 candidates, times 1, 3, 6 | the active set is the earliest; nothing overdue; each day decays once; a tick again moves nothing |
| | `curation` | 5 events, overlapping batches | a request stores no event twice; a batch without duplicates of its own is stored once; a conflict has one winner; rules have evidence |
| `EngineStateIsRight` | `snapshot` | 3 profiles, one of them the default | nothing ingested is lost; nothing passes between named profiles, though the default may share with one; the import is stable |
| | `recall` | 2 foreign stores, 2 sessions | with a state file the allowlist is what was acknowledged; sessions suggest the most urgent |
| | `records` | 3 updates, lists of 2 | newest wins; a signal counts once; strictness stays; without a state file each signal of a misconception is noted |
| | `trail` | trail of 3, 4 events ever | the trail keeps the newest; drift is real; exports repeat while nothing overtakes them; quarantine holds; the console tells the state |
| | `retrieval` | 4 memories, 5 scopes, pages | pages cover a plan once; nothing vanishes; no conflict; no other user's; the pack is honest |
| `DaemonControlIsRight` | `daemon` | 2 daemons, 2 terminals, 3 commands, `ums sync` | cycles do not overlap; nothing is registered unreachably; while commands do not overlap, one recorded daemon, and none runs unreachably |
| `ConfigIsRight` | `config` | 2 terminals, 3 commands, an expiring secret | the file is loadable; answers are true; acknowledged commands hold while none overlap |
| `SourcesAreRight` | `sources` | a tailed file, a JSON document, a JSON-lines file and a plan, 2 edits, 3 cycles | no cursor passes what is not journaled; nothing twice; refusals hold; collection settles |
| `ServicesAreRight` | `ledger` | 4 callers, 2 repositories | callers of one request get the one row of the ledger; one execution at a time in a repository |
| | `storage` | 2 tenants, 2 memories, keys, encryption or none | references stay in the tenant; links follow rows; a key acts once; every row is audited; a backfill heals |
| | `identity` | 2 tenants, 3 bindings, 2 users | feeds are linear; users, subjects and roles are what the last event about them says; sessions are of users not disabled; accesses are what the last groups grant |
| | `api` | 3 requests, 2 stops, 1 restart | a stop is final; readiness is true; restarts are bounded; answers match work; telemetry adds up |

`state_file` does not name `TypeOK` of the lock, which is a part of `IInv`.

Bounds of the parts. A bounded list (`MaxLedger`, `MaxTrail`, `MaxTrailKept`, `MaxItemsKept`, `CycleLimit`,
`RecordCap`) has the smallest length at which something is evicted and something stays. Requests may be
repeated without a bound unless a counter of the state grows (`MaxApplied`, `MaxSends`, `MaxEverWritten`,
`MaxTold`, `MaxCommands`, `MaxCommandsRun`, `MaxCycles`, `MaxEdits`): there the bound leaves room for a
request, another one and the first again. Two tenants, profiles, rules or terminals let one be disturbed
by the other; a third brings no new kind of step. A restart limit of one lets a service restart and fail.

Several promises are conditional, and each condition is a known way in which the code does lose or
repeat something (section 8): `calm` (commands that do not overlap), `pgOverlap` (requests that do),
`replaced` and `missed` (files that did not only grow, were read half written, whose entries were cut, or
plans beyond the limit: what they pass may be lost, and of a JSON-lines file read half written an event may come twice), `forgotten` (adjustments both lists evicted), `tampered` (a schema changed by hand). The identity directory is
checked against its feeds and not against the plan for it: the last event of a feed binds a subject to its
user, whoever it was bound to, and leaves a disabled user its roles; two runs show where the plan says otherwise.

Deadlock is checked in `lifecycle_derived` and `background`, where a worker service that ended for good
rests (`WorkerRests`) and a sync cycle that cannot go on would be an error. The others may stop: every
process may have died, every request been answered.

Every property has a faulty variant of an action, defined in the same module under "Faulty variants",
with which TLC finds it violated.

## 5. Fairness

Fairness is stated where the instances are composed, for the behaviours of each part.

`MCStateFile`. `LockFairness`, `RecoveryFairness`: a task in the middle of a call goes on (weak fairness of its
own steps, never of a fault or of a new call), a deadline passes, and time passes for a file: strong fairness of
`Age`, because its guard is off while a prompt task is inside a window. `AcquireEnds` and `NoPermanentOrphan` are
claimed only when failed pid writes end (`WritesRecover`). `StoreFairness`: a request that arrived goes on.
`Answered` asks more than that waiters give up after their timeout: again and again every request has its
answer and nobody is inside the lock, so that a request which ended and kept it is found.
`MCBackground`. `SyncFairness`: a cycle goes on; the daemon, which tries again every interval, gets the free lock
(strong fairness of `Enter`, for the daemon alone); crashes and refusals end (`Recovers`). `WorkerFairness`: the
fiber and the callers go on, since cycles return and timers fire. Nothing is assumed of `Start`, of stops or of
signals. The parts of `platform` are checked for safety alone and assume no fairness.

## 6. The proofs

`StateLockProofs`, for any tasks, processes and placement. `TypeCorrect` needs no assumption. The other
theorems assume `ReclaimersSurvive`: no crash or failed write strikes a task that may hold the reclaim
file, and no task stalls for `LOCK_STALE_MS` in a window. `statelock_reclaim_race` shows that the
first half is needed, and `SlowTasks` is there because the code has no guard but age in these windows. Mutual exclusion
is not inductive: that the lock file is removed safely depends on who may judge it stale. `IInv` adds
that a pid in a file is its creator's and that dead tasks are those of dead processes
(`PidsTellTheTruth`), that the reclaim file belongs to the one task between its creation and its
removal (`ReclaimIsExclusive`), that who enters owns the lock file (`LockIsOwned`), and that a lock
judged stale is nobody's until it is removed (`StaleIsOrphaned`); the last holds because only the holder
of the reclaim file can remove it. From `IInv`: exclusion, ownership, `RemovesOnlyOrphans`, and the
refinement of `ExclusiveLock`, where `WritePid` is `Enter`, `Release` and `Crash` are `Leave`, and every
other step is a stutter.

`WorkerSupervisorProofs`, for any callers and any limit: `WorkerInv` is `WorkerTypeOK`, `StopMeansStopped`,
`ReadyIsTruthful` and two facts they rest on: the reference to the fiber, its place and the phase agree
(`FiberAgrees`), and whoever is past the first await of `requestShutdown` has requested it
(`RequestsPrecede`). The two action properties follow from it step by step.

`RuntimeStoreProofs`, for any requests, processes and backends. A task works on a copy of the disk, so
durability rests on when that copy was taken: `StoreInv` says that whoever is inside the lock or on the
event loop is there alone, that what a writer hydrated is still the disk when it renames its file
(`WorksOnDisk`), and that the disk has the effects of requests that committed (`DiskIsCommitted`). The
hypotheses are read from the code: executors are synchronous (`WritersRunThrough`, `AllRunThrough`), and the
operations that skip the lock do not write (`ReadersOnlyRead`). The second is not true of one operation;
`runtimestore_audit_export` is the run of it, and `LockedDurabilityHolds` says what remains without it:
requests that take the lock lose nothing.

`EngineProofs` begins with the lifecycle, for any candidates, rules, evaluations and thresholds. Types need no hypothesis.
Rules mirror promotions, and streaks are right, where ids are derived by hashing (`RuleIdsAreDerived`,
`EvalIdsAreDerived`) and evaluations arrive in the order of their timestamps (`InOrder`); section 7 says what
happens elsewhere. The invariant of the streaks counts the trailing negative evaluations in the table
whole, since a replaced evaluation may be any of them. `SustainedNegativeIsDemoted` is of the default gate.

`DaemonSyncProofs`, for any files, memories, routes, processes and limits, needs no hypothesis but the
assumptions on the constants. A checkpoint has many copies: the state file, the checkpoint files, and
those a cycle or a pid update read and will write back. `IInv` calls every one of them sound: its cursors
name lines that the journal has, its delivery counts batches that the memory took (`Sound`,
`CycleIsSound`). Merging two sound copies by the higher value, and reconciling one with the journal, gives a
sound one; nothing is asked of their age. `NothingSkipped` is proved for at most one plan file: the digest of
a plan is recorded also when the cycle had no room for its snapshot (section 8).

`StorageProofs`. The ledger: a row once inserted stays, so a fiber that has its response, a deferred
that was completed and an answer that was given all name that row (`FibersPersist`, `AnswersPersist`), and
who waits is registered with a fiber of its own request (`WaitersMatch`, `Registrations`). No hypothesis.
The schema: `SchemaAssumption` says what `assertDeterministicMigrations` checks, that no migration creates
what another does, and that of two releases one continues the other. Then a version names the same objects
in every release that knows it (`ReleasesAgree`), and `SchemaInv` says that the database, unless changed by
hand, has just these, and the open transaction those of the version it has come to, with the migrations
left that lead to its target (`AtVersion`). The backups: `BackupInv` says that the list is that of the files,
each once, and that, until the clock is set back, the last snapshot taken is the newest file (`LatestIsNewest`); retention
drops the oldest, so it cannot drop that one. A sorted list is proved to hold its set, each record at the
place that the number of older ones gives it (`SortedIsListed`).

The sqlite repository: `Good(d)` is said of a set of tables, and of the database and the
exported snapshot alike, since an import replaces the one by the other: one row for an id, scopes and
references of the row's tenant, links that mirror the rows, times in order, every row audited, every key
with the one effect it had. Supersession has no cycle because an upsert is refused when it names one of its
own descendants; `Ancestors` is the least closed set, so that this can be argued without recursion. Each
operation is shown to keep `Good`, its cascades and its rolled-back audit entry included.
The Postgres repository has no transaction, so `PgInv` has two halves: what holds however calls interleave
(one row for a memory and for a key, answers and ledger rows of what was done), and `PgSerial`, which holds while
requests come one at a time and none is cut before its ledger row: who has looked a key up has found it
unused, and the effects of a content are no more than the keys it was recorded under (`KeysCover`).
The dual run: `Good` of the one store and the form of the other for any suite, and while the suite is portable both
stores are `Twins`: the same memories but for versions, and ledger rows of the same requests, so that a key
replays, conflicts or is new on both sides (`VerdictsAgree`). `DualRunAssumption` says that the layer is
part of what an upsert stores, as the payload of the code has it: the sqlite hash has no layer of its own.

`ServicesProofs` has the API service, the identity directory, the daemon's commands and the configuration. Of
the supervisor:
how many servers were launched and restarts counted for where it is, and that it ends for good. Of the
requests: what a handler has replied, and which counter has it, by the place it has come to; a load
that fails ends many handlers at once and counts each. Of the directory: its tables are what the last
event of a feed left (`StatusFollows`, `SubjectsFollow`, `GroupsFollow`), each feed is applied up to its
checkpoint (`Linear`, `Covers`), and `said` is judged by the tables of the same moment.

It also has the commands that start, stop and restart the daemon (`CommandInv`). The pid of the daemon is
kept in a file that cycles rewrite, so what is known of it is spread over that file, the copies cycles took
of it and the local variables of the command: while commands do not overlap, the one daemon alive is recorded
in all of them from the time it runs (`OneIsKnown`), and until then, or once it is told to die, the
command at work has its pid (`CommandKnows`). That cycles do not overlap needs only the lock. And the
configuration (`ConfigInv`): a command reads the file, works on its copy and writes it back without a lock, so
what it writes is well formed only because it was checked again at the write (`Loadable`), and what it
acknowledged holds only while no other command overlapped (`AloneKnows`). The order of the routes is proved
total, and the place of a route in it is the number of routes before it (`OrderedIs`), which is why the first
route that matches is the one `route explain` tells.

Last, the sources (`SourceInv`), for any files, contents, configurations and limits. A cursor is kept in the state
file, in a checkpoint and in entries of the journal, which a cycle that is cut leaves saying different things.
The invariant calls each of them sound, wherever it is kept (`CursorsSound`): written by an earlier cycle, no further
than a file that only grew, with a digest that tells whether a structured file was read to its end as it is now
(`InFile`), and passing only what the journal has (`PaidFor`). The next cycle starts from the furthest of sound cursors,
so from a sound one. For plans, whose cursors differ by their digest alone, what was seen later is no shorter
(`PlansGrow`). An entry lies before its own cursor (`EntriesSound`), and a cycle reads from past every cursor that
is written down: hence `NothingTwice`. `SourcesAtRest` says that a complete cycle leaves nothing to read. The loops over
the journal, over the files and over the lines of a file are each shown to keep an invariant of their own
(`CaughtUpIs`, `CollectedIs`, `StopIs`), and a cut of the append at any entry is one parameter of `CycleDoes`.

`EngineProofs`, the rest of the engine and retrieval. Bounded lists are everywhere in it, so it
starts from what the first n of a finite set in a strict order are (`FirstOf`), and what becomes of them when
members join the set before the next cut (`FirstOfMore`).

- `WeightsRight`: of two lists that forget, an adjustment is repeated only when both have forgotten it. That
  the trail keeps an event it has just written, or never had room for, is argued from the order of its
  times; that the marks an event leaves tell adjustments apart is `AuditNameAssumption` (an audit id is a hash of
  what was done).
- `ReviewsRight`: the tiers are rebuilt by each operation from the entries, so `ReviewInv` speaks of the
  entries alone, and of the number of ticks each candidate has decayed by.
- `CurationRight`: what validate answered is held by the caller while events arrive, so `HeldWell` says it was
  judged by no more than what is stored now; that one of two rules that conflict stays rests on the order of
  candidates and rules being strict.
- `RecallRight`, `SnapshotRight`: with a state file an allowlist is that of the last acknowledged change, a
  profile's state has what was sent to it, and the object that the default shares has one other owner.
- `TrailRight`: for each list, that it holds the newest of what was written (`TrailKept`, `DecisionsKept`,
  `IncidentsKept`); from that the export, the quarantine, and each query of the console, whose counts are proved by
  mapping the events that count onto the entities they are about. `AuditOrderAssumption`: events of one time are ordered.
- `RecordsRight`: each kind of record is a fold of the updates told so far, `told`, stated without a fold: which of
  them is the newest, the set of first signals, the strictest answer. `ScopeRecordsAssumption` types the
  requests, and no request is of two kinds.
- `RetrievalRight`: a scope that is allowed is reached through parents, and no scope is below a user's
  (a trigger of the schema refuses it, `enterprise-schema.ts:751`), so a user's selector reaches no other user.
  A component is the least set closed under conflicts; conflicts are symmetric, so components are equal or
  disjoint, each has one truest member, and what is planned has no two members that conflict. Ranks end with the id, so the
  list has each member once. A page is cut from the plan at the cursor, and the digest of the cursor names the
  request: `RetrievalInv` says that the last answer is that of the plan of *now*, or the reader knows that the
  store was changed. The pack's budgets are an invariant of its loop, which is a function of the number of
  hits looked at. `RetrievalAssumption` has the sizes of the warnings: stale, low and any one of the
  others fit the budget (`retrieval-service.ts:62-70`), without which a pack could be silent about what it left out.

`PlatformProofs`. `PlatformImplements` and `PlatformImplementsEngine` show that a behaviour of `MCPlatform` is one
of each component. The theorems beside them say that `PersistenceIsRight`, `LearningIsRight`, `EngineStateIsRight`,
`DaemonControlIsRight`, `ConfigIsRight`, `SourcesAreRight` and `ServicesAreRight` hold of it, and so do the types of
every variable (`PlatformTypeCorrect`): each invariant of the run `platform` is a theorem, with the conditions
and exceptions that its parts name (section 4).

A largest or first element of a set (`Max`, `Min`, `FirstRole`) is proved to exist by well-founded
induction on the naturals, cited as `WFMin`, which takes a relation and no operator. A loop over a list
(`Packed`, `Accepted`, `CollectedFrom`, `CaughtUp`) is a recursive function of the number of entries done; that it exists and stays within
its invariant is proved the same way, from the least number at which it would not.

Only model-checked: liveness (`Answered`, `EventuallyIngested`, `StopEnds`, `ReadyIsSettled`, `AcquireEnds`,
`NoPermanentOrphan`), which with the fairness it rests on is beyond the prover, like everything that needs
`ENABLED`. Every safety property of the passing runs has its theorem; some hold under the hypotheses named above.

## 7. Not modelled, and limits

- Formats, hashing, redaction, HTTP framing, SQL text, row-level policies, the text of OS units and
  guidance files, reports: I/O or data. A digest is an injective name of what it is taken of.
- `ncm-hybrid-service.ts`, `lifecycle-service.ts`, the context pack, the shadow evaluator and canary routing:
  pure functions over floating point numbers or lists, without a state. `account-sync.ts`: an earlier
  collector that no other file imports. Scripts and the argument parsing of the CLI.
- `RuntimeStore` keeps `Yielding` empty in its runs, since the executors in the code are synchronous;
  a memory-only store and the sqlite `:memory:` store take no lock at all and are left out.
- `lifecycle_derived` uses the ids the code derives. With ids given by the caller (a rule id shared by
  two candidates, an evaluation id used twice) `RulesMirrorPromotions` and `PromotionEarned` do not hold,
  and with evaluations out of order `StreakIsTrailing` does not; no document says what should happen.
- `DaemonSync` has sources that only grow, whole lines and atomic appends to the journal; `SourceCollection`
  lifts these, with a whole cycle as a step. Both, and `DaemonControl`, take the sync lock as exclusive: its
  protocol has no reclaim lock, and a slow contender may remove the fresh lock of a fast one.
- `DaemonControl` does not reuse pids. `WorkerSupervisor` has `stop` called after `start`, as
  `startSupervisedWorkerService` ensures; `ApiService` has a `stop()` before `start()` as well.
- The parts of `platform` meet only in `StorageDualRun`. An engine operation inside a request is
  `RuntimeStore`'s step; an API operation is one step of `ApiService`.
- The components marked `not_modelled` in `PROJECT.json`.

## 8. Findings, and other things the models show

Eight properties that a document or a test of the repository states do not hold of the code; each has a
run, and its quotation in `PROJECT.json`.

- Stale-lock recovery can let two callers in (`persistence.ts:193`).
- `policy_audit_export` loses its audit event (`persistence.ts:42`).
- With the sqlite backend the policy pack plugin is reset before each operation (`runtime-service.ts:420`).
- A replayed `replay_eval` is not idempotent (`core.ts:6012`).
- The default profile shares the state of a named one when a snapshot lacks it (`core.ts:13913`), though store
  and profile are the boundary of memory.
- With a state file the kept notes of conflicts are lost with each operation (`core.ts:13013`, `13168`).
- A subject that is bound to a user is bound to another by the next event that names it
  (`enterprise-identity-service.ts:789`), though the plan calls the binding immutable.
- A disabled user keeps the actions of its roles (`enterprise-identity-service.ts:1121`), though the plan revokes them.

More formulas that do not hold are stated in the modules and are not part of a run. To see one violated,
name it as the INVARIANT of `platform.cfg` and its part in `Parts`:

| Formula | Part | What happens |
|---|---|---|
| `PgReplayReturnsPrior` | `postgres` | two overlapping requests with one key both act, and are answered differently |
| `StartIsNotBlamed` | `daemon` | a healthy daemon is killed for an error another process left in the file |
| `PlanIsSnapshotted` | `sources` | a plan source without a root reads the working directory as a file, and the cycle fails (`daemon-sync.ts:2044`; `docs/runbooks/multi-store-source-ingestion.md:63` says it "snapshots local `PLAN.md`") |
| `ExactMatchesDoNotConflict` | `config` | two routes of one match may lead to different memories, which `docs/runbooks/daemon-jsonc-config-schema.md:212` says is rejected |
| `TiersStayReadable` | `review` | a tier longer than the list limit makes every later import fail |
| `ReplayedIngestStoresNothing` | `curation` | a batch with a duplicate of its own stores an event when it is sent again |

`DaemonSync` with two plans and room for one event in a cycle has a changed plan whose digest is recorded
although the cycle had no room for its snapshot (`daemon-sync.ts:2682-2688`), so that version is never
collected: `NothingSkipped` is run, and proved, for one plan.

Other behaviour the models make explicit, which nothing in the repository promises otherwise:

- Sources: a file truncated below its cursor is journaled whole in every cycle until it outgrows the
  cursor; the rest of a half-written last line is never read; a
  JSON-lines file that was read with a half-written line is journaled anew, whole, once the line is complete, since its
  cursor was put at the end with the digest of the half (`daemon-sync.ts:2557-2590`); a document beyond its 500 records is journaled
  anew at every change; a cut append passes the lines it cut off; a torn journal line fails all cycles.
- Configuration: commands that overlap lose each other's changes; a forced `account add` orphans the
  secret it replaces.
- Daemon: a cycle that began before a daemon writes back a state without its pid, after which a second
  daemon can be started; SIGTERM has no handler, so a cycle is cut where it is.
- Storage: deleting a memory deletes what supersedes it, unaudited; an upsert that reassigns evidence
  takes its links from another memory, until a backfill; Postgres keeps the last write, also a stale one.
- Backup: a clock set back across a restart may prune the newest snapshot.
- Dual run: a suite that compares answers only passes over stores that diverged.
- Engine: an outcome reported as A, B and A again counts A twice; an adjustment both lists forgot is
  applied again; a full misconception refuses its signals; an audit event older than a full trail is
  answered and dropped.
- API: a `stop()` before `start()` refuses readiness for good; counters begin anew with every server.
