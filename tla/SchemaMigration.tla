--------------------------- MODULE SchemaMigration ---------------------------
(***************************************************************************)
(* The schema of the enterprise sqlite database                            *)
(* (libs/shared/src/effect/storage/sqlite/migrations.ts).  Processes of    *)
(* two releases open one file; each brings it to its own latest version,   *)
(* or to a target, in one immediate transaction, which a crash rolls back. *)
(* Somebody may also change the schema by hand.                            *)
(***************************************************************************)
EXTENDS Naturals, Sequences, FiniteSets, SequencesExt

CONSTANTS
  Opener,        \* processes; each opens the database once
  ReleaseOf,     \* Opener -> its migrations, a sequence of [version, creates]
  TargetOf,      \* Opener -> the version asked for, or Latest
  Latest,
  Item,          \* rows of memory_items
  SearchObject,  \* memory_items_fts and its triggers
  StrayObject,   \* an object of no release
  NoOpener

Versions(o) == {ReleaseOf[o][k].version : k \in DOMAIN ReleaseOf[o]}
GetLatestMigrationVersion(o) ==
  IF ReleaseOf[o] = <<>> THEN 0 ELSE Last(ReleaseOf[o]).version
Target(o) ==
  IF TargetOf[o] = Latest THEN GetLatestMigrationVersion(o) ELSE TargetOf[o]

\* Migrations in ascending order, none of which creates what another does
IsRelease(s) ==
  /\ s \in Seq({s[k] : k \in DOMAIN s})
  /\ \A k \in DOMAIN s : s[k].version \in Nat \ {0} /\ s[k].creates # {}
  /\ \A j, k \in DOMAIN s :
       j < k => s[j].version < s[k].version /\ s[j].creates \cap s[k].creates = {}

\* A release adds migrations to the one before it, and a process asks for a
\* version that its own release has.
ASSUME SchemaAssumption ==
  /\ Opener # {} /\ NoOpener \notin Opener
  /\ \A o \in Opener :
       /\ IsRelease(ReleaseOf[o])
       /\ Target(o) \in Versions(o) \cup {0}
       /\ \A p \in Opener : \A k \in DOMAIN ReleaseOf[o] \cap DOMAIN ReleaseOf[p] :
            ReleaseOf[o][k] = ReleaseOf[p][k]

VARIABLES
  schema,      \* committed: the objects of the database
  userVersion, \* committed: PRAGMA user_version
  items,       \* committed: rows of memory_items
  indexed,     \* committed: rows of memory_items_fts, as <<item, copy>>
  opening,     \* Opener -> "closed", "migrating", "open", "failed", "crashed"
  work,        \* the open transaction, or Nothing
  tampered     \* the schema was changed by hand

schemaVars == <<schema, userVersion, items, indexed, opening, work, tampered>>

Nothing == [by |-> NoOpener]

SchemaInit ==
  /\ schema = {} /\ userVersion = 0 /\ items = {} /\ indexed = {}
  /\ opening = [o \in Opener |-> "closed"]
  /\ work = Nothing /\ tampered = FALSE

------------------------------------------------------------------------------
\* Ascending from 1, and none is empty.
AssertDeterministicMigrations(o) ==
  \A k \in DOMAIN ReleaseOf[o] :
    /\ ReleaseOf[o][k].version >= 1 /\ ReleaseOf[o][k].creates # {}
    /\ k > 1 => ReleaseOf[o][k - 1].version < ReleaseOf[o][k].version

\* resolveMigrationBounds does not throw.
ResolveMigrationBounds(o, current) ==
  /\ AssertDeterministicMigrations(o)
  /\ current \in Versions(o) \cup {0}
  /\ Target(o) \in Versions(o) \cup {0}
  /\ current <= Target(o)

\* The places of those to apply, in their order
PendingMigrations(o, current) ==
  {k \in DOMAIN ReleaseOf[o] :
     ReleaseOf[o][k].version > current /\ ReleaseOf[o][k].version <= Target(o)}

ExpectedObjects(o) ==
  UNION {ReleaseOf[o][k].creates : k \in DOMAIN ReleaseOf[o]}

\* assertEnterpriseSqliteSchemaIntegrity: nothing is missing or unexpected.
AssertSchemaIntegrity(o, s) ==
  Target(o) = GetLatestMigrationVersion(o) => s = ExpectedObjects(o)

------------------------------------------------------------------------------
(* applySqliteMigrations                                                    *)

Begun(o, current) ==
  work' = [by |-> o, pending |-> PendingMigrations(o, current),
           schema |-> schema, version |-> userVersion, indexed |-> indexed]

FailOpening(o) ==
  /\ opening' = [opening EXCEPT ![o] = "failed"]
  /\ work' = Nothing
  /\ UNCHANGED <<schema, userVersion, items, indexed, tampered>>

\* Faulty: the version is read before the transaction, when the process starts.
BeginWithOldVersion(o) ==
  /\ opening[o] = "closed" /\ work = Nothing
  /\ IF ResolveMigrationBounds(o, 0)
     THEN /\ Begun(o, 0) /\ opening' = [opening EXCEPT ![o] = "migrating"]
          /\ UNCHANGED <<schema, userVersion, items, indexed, tampered>>
     ELSE FailOpening(o)

\* BEGIN IMMEDIATE, then the version: nobody else can move it any more.
BeginImmediate(o) ==
  /\ opening[o] = "closed" /\ work = Nothing
  /\ IF ResolveMigrationBounds(o, userVersion)
     THEN /\ Begun(o, userVersion)
          /\ opening' = [opening EXCEPT ![o] = "migrating"]
          /\ UNCHANGED <<schema, userVersion, items, indexed, tampered>>
     ELSE FailOpening(o)

\* The database stayed locked for longer than the busy timeout.
BeginBusy(o) ==
  /\ opening[o] = "closed" /\ work.by \in Opener
  /\ opening' = [opening EXCEPT ![o] = "crashed"]
  /\ UNCHANGED <<schema, userVersion, items, indexed, work, tampered>>

\* Version 2 also indexes the rows that no trigger has seen; faulty: it does not.
BackfillNothing(g, rows) == {}
BackfillIndex(g, rows) ==
  IF SearchObject \in g.creates THEN {<<i, 1>> : i \in items \ {r[1] : r \in rows}}
  ELSE {}

\* A migration's objects must be new: "if not exists" is cut from its DDL.
ApplyMigration(o) ==
  /\ work.by = o
  /\ \E k \in work.pending :
       /\ \A j \in work.pending : k <= j
       /\ LET g == ReleaseOf[o][k] IN
          IF g.creates \cap work.schema # {} THEN FailOpening(o)
          ELSE /\ work' = [work EXCEPT !.pending = @ \ {k},
                             !.schema = @ \cup g.creates, !.version = g.version,
                             !.indexed = @ \cup BackfillIndex(g, @)]
               /\ UNCHANGED <<schema, userVersion, items, indexed, opening, tampered>>

ValidateAndCommit(o) ==
  /\ work.by = o /\ work.pending = {}
  /\ IF work.version = Target(o) /\ AssertSchemaIntegrity(o, work.schema)
     THEN /\ schema' = work.schema /\ userVersion' = work.version
          /\ indexed' = work.indexed
          /\ opening' = [opening EXCEPT ![o] = "open"]
          /\ work' = Nothing
          /\ UNCHANGED <<items, tampered>>
     ELSE FailOpening(o)

CrashOpener(o) ==
  /\ opening[o] \in {"migrating", "open"}
  /\ opening' = [opening EXCEPT ![o] = "crashed"]
  /\ work' = IF work.by = o THEN Nothing ELSE work
  /\ UNCHANGED <<schema, userVersion, items, indexed, tampered>>

------------------------------------------------------------------------------
(* The database in use                                                      *)

\* The triggers of memory_items keep the index, once there are any.
WriteItem(o, i) ==
  /\ opening[o] = "open" /\ work = Nothing /\ userVersion > 0
  /\ \/ /\ items' = items \cup {i}
        /\ indexed' = IF SearchObject \notin schema THEN indexed
                      ELSE {r \in indexed : r[1] # i} \cup {<<i, 1>>}
     \/ /\ items' = items \ {i}
        /\ indexed' = IF SearchObject \notin schema THEN indexed
                      ELSE {r \in indexed : r[1] # i}
  /\ UNCHANGED <<schema, userVersion, opening, work, tampered>>

TamperSchema ==
  /\ work = Nothing /\ ~tampered
  /\ tampered' = TRUE
  /\ schema' \in {schema \cup {StrayObject}, schema \cup {SearchObject}} \cup
                {schema \ {x} : x \in schema \ {SearchObject}}
  /\ UNCHANGED <<userVersion, items, indexed, opening, work>>

SchemaNext ==
  \/ \E o \in Opener : \/ BeginImmediate(o) \/ BeginBusy(o) \/ ApplyMigration(o)
                       \/ ValidateAndCommit(o) \/ CrashOpener(o)
                       \/ \E i \in Item : WriteItem(o, i)
  \/ TamperSchema

SchemaSpec == SchemaInit /\ [][SchemaNext]_schemaVars

------------------------------------------------------------------------------
SchemaTypeOK ==
  /\ userVersion \in {0} \cup UNION {Versions(o) : o \in Opener}
  /\ items \subseteq Item
  /\ opening \in [Opener -> {"closed", "migrating", "open", "failed", "crashed"}]

\* Whoever crashes wherever, the version names what the schema holds: the
\* migrations up to it and no part of a later one.
VersionNamesSchema ==
  ~tampered =>
    \E o \in Opener : schema = UNION {ReleaseOf[o][k].creates : k \in
      {j \in DOMAIN ReleaseOf[o] : ReleaseOf[o][j].version <= userVersion}}

\* Rows written before the index existed are found like those written after.
EveryRowIsIndexed ==
  SearchObject \in schema /\ ~tampered =>
    {r[1] : r \in indexed} = items /\ Cardinality(indexed) = Cardinality(items)

\* Two processes that open at once do not fail each other: a schema nobody
\* touched opens for every release that knows its version, and does not else.
OpensUnlessAhead ==
  \A o \in Opener :
    /\ opening[o] = "failed" /\ ~tampered => userVersion > Target(o)
    /\ opening[o] = "open" /\ ~tampered => userVersion >= Target(o)

SchemaIsRight == VersionNamesSchema /\ EveryRowIsIndexed /\ OpensUnlessAhead
==============================================================================
