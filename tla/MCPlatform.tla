----------------------------- MODULE MCPlatform -----------------------------
(***************************************************************************)
(* The components that share no state with one another, in one run: part   *)
(* says which of them this behaviour is of.  The others stay as they are,  *)
(* so the run checks every component on its own instance.                  *)
(***************************************************************************)
EXTENDS MCPersistence, MCEngine, MCDaemon

CONSTANTS Parts
VARIABLE part

PlatformInit ==
  /\ part \in Parts
  /\ PersistenceInit(part) /\ EngineInit(part) /\ DaemonsInit(part)

PlatformNext ==
  /\ UNCHANGED part
  /\ \/ PersistenceNext(part) /\ UNCHANGED <<engineVars, daemonsVars>>
     \/ EngineNext(part) /\ UNCHANGED <<persistenceVars, daemonsVars>>
     \/ DaemonsNext(part) /\ UNCHANGED <<persistenceVars, engineVars>>

PlatformSpec ==
  PlatformInit /\ [][PlatformNext]_<<part, persistenceVars, engineVars, daemonsVars>>

\* Every variable of every component has its type.
PlatformTypeOK ==
  part \in Parts /\ PersistenceTypeOK(part) /\ EngineTypeOK(part) /\ DaemonsTypeOK(part)

\* What is stored survives what opens, migrates, copies and closes the database,
\* and is there in its latest copy; and a second adapter that is asked the same
\* holds the same.  Each part's promise is stated in its module.
PersistenceIsRight == PersistenceRightIn(part)

\* What the engine learns (runAddWeight, runOutcome, the review clock, runIngest and
\* runCurateGuarded in apps/api/src/core.ts).  An adjustment counts once while the
\* ledger or the audit trail remembers it; a stored outcome sent again changes
\* nothing; a day of a candidate decays once; a batch without duplicates of its own
\* is stored once.  Not promised, and not so: of an adjustment both lists have
\* forgotten, of an outcome that another replaced before it came again, and of a
\* batch that holds an event twice.
LearningIsRight == LearningRightIn(part)

\* What the engine keeps and tells: nothing ingested is lost, and no named profile
\* holds what another named one got; a foreign store recalls only what was allowed,
\* other users' memories are not retrieved; a profile takes the newest value, a
\* misconception counts a signal once, a decision stays as strict as it ever was; and
\* the trail keeps its newest events.  The default profile may share its state with a named
\* one (ProfilesAreIsolated is false), and of the notes of changes only those of
\* misconceptions without a state file are counted (ChronologyIsKept is false).
EngineStateIsRight ==
  EngineStateRightIn(part) /\ (part = "retrieval" => RetrievalIsRight)

\* The services answer a request from its one row and from tables that refer to
\* what is there; the directory lets in and grants what the last events of its feeds
\* say, which binds a subject anew and leaves a disabled user its roles
\* (BindingIsImmutable and DisabledMayDoNothing are false); and what the API serves
\* is one database's, behind its guards, for as long as it says it runs.
ServicesAreRight == RepositoriesRightIn(part) /\ GuardsRightIn(part)
=============================================================================
