---------------------------- MODULE MCPersistence ----------------------------
(***************************************************************************)
(* Small instances of what stores and restores: the execution ledger, the  *)
(* storage repository, its schema, its backups, its Postgres adapter and   *)
(* the dual run of two adapters.  p says which of them takes a step.       *)
(***************************************************************************)
EXTENDS ExecutionLedger, StorageRepository, SchemaMigration, BackupReplicator,
  PostgresStorage, StorageDualRun, TLC

(* ExecutionLedger: three calls of one request and one of another, in two   *)
(* processes; the operation is spelled in two ways.                         *)
CONSTANTS c1, c2, c3, c4, h1, h2, scoped
LedgerRepoOf == (c1 :> h1) @@ (c2 :> h1) @@ (c3 :> h2) @@ (c4 :> h2)
LedgerRequest ==
  (c1 :> [operation |-> "run", scopeKey |-> NoScope, body |-> 1, valid |-> TRUE]) @@
  (c2 :> [operation |-> " run", scopeKey |-> Blank, body |-> 1, valid |-> TRUE]) @@
  (c3 :> [operation |-> "run", scopeKey |-> NoScope, body |-> 1, valid |-> TRUE]) @@
  (c4 :> [operation |-> " ", scopeKey |-> scoped, body |-> 1, valid |-> TRUE])
LedgerOperations == ("run" :> "run") @@ (" run" :> "run") @@ (" " :> Blank)

(* StorageRepository: a memory that is promoted and corrected, one that      *)
(* shares its evidence or supersedes it, and a second tenant that refers to  *)
(* the first one's rows.                                                     *)
CONSTANTS t1, t2, m1, m2, e1, p1, p2, k1, key1, key2, u1, j1
WrittenAt(u) == [created |-> None, updated |-> u, expires |-> None, status |-> None,
          tombstoned |-> None]
AnUpsert ==
  [tenant |-> t1, memory |-> m1, layer |-> "working", scopeId |-> None,
   project |-> None, role |-> None, user |-> None, prov |-> None,
   evidence |-> {}, supersedes |-> None, times |-> WrittenAt(0), key |-> None,
   auth |-> None, body |-> 0, raw |-> 0]
Promoting == [AnUpsert EXCEPT !.layer = "procedural", !.evidence = {e1}, !.prov = p1]
StorageAnchors == {<<t1, "user", u1>>, <<t2, "user", u1>>, <<t1, "project", j1>>}
StorageLineage == (p1 :> {}) @@ (p2 :> {<<"project", j1>>})
StorageUpserts == {
  [AnUpsert EXCEPT !.key = key1, !.body = 1],
  [Promoting EXCEPT !.times = WrittenAt(1), !.body = 2],
  [Promoting EXCEPT !.memory = m2, !.user = u1, !.project = j1, !.body = 3,
     !.auth = [tenant |-> None, anchors |-> {<<"user", u1>>, <<"project", j1>>}]],
  [AnUpsert EXCEPT !.memory = m2, !.supersedes = m1, !.prov = p1, !.times = WrittenAt(1),
     !.body = 4],
  [AnUpsert EXCEPT !.supersedes = m2, !.prov = p2, !.times = WrittenAt(2), !.body = 5],
  [AnUpsert EXCEPT !.prov = p1, !.times = WrittenAt(2), !.body = 6],
  [AnUpsert EXCEPT !.tenant = t2, !.memory = m2, !.project = j1, !.body = 7],
  [AnUpsert EXCEPT !.tenant = t2, !.scopeId = <<"project", t1, j1>>, !.body = 8],
  [AnUpsert EXCEPT !.tenant = t2, !.user = u1, !.body = 9, !.times =
     [created |-> 1, updated |-> 2, expires |-> 1, status |-> "tombstoned",
      tombstoned |-> None]]}
StorageDeletes ==
  {[tenant |-> t1, memory |-> m1, key |-> key2, auth |-> None],
   [tenant |-> t2, memory |-> m2, key |-> None, auth |-> None],
   [tenant |-> t1, memory |-> m2, key |-> None,
    auth |-> [tenant |-> t1, anchors |-> {}]]}
StorageKeyRings == {<<>>, <<k1, {k1}>>}


(* SchemaMigration: two processes of a release and one of the one before.    *)
CONSTANTS o1, o2, o3, i1, i2, core, fts, ids, stray
OldRelease == <<[version |-> 1, creates |-> {core}], [version |-> 2, creates |-> {fts}]>>
NewRelease == Append(OldRelease, [version |-> 3, creates |-> {ids}])
SchemaReleaseOf == (o1 :> NewRelease) @@ (o2 :> NewRelease) @@ (o3 :> OldRelease)
SchemaTargetOf == (o1 :> Latest) @@ (o2 :> Latest) @@ (o3 :> 1)

(* PostgresStorage: two senders of one keyed upsert, another that takes its   *)
(* key for another body, and a keyed delete.                                  *)
CONSTANTS v1, v2, v3, v4
PgUpsertOf(body, key) == [op |-> "upsert", space |-> 1, memory |-> 1,
                          layer |-> "working", body |-> body, key |-> key]
PostgresRequests == (v1 :> PgUpsertOf(1, 1)) @@ (v2 :> PgUpsertOf(1, 1)) @@
  (v3 :> PgUpsertOf(2, 1)) @@ (v4 :> [PgUpsertOf(0, 2) EXCEPT !.op = "delete"])

(* StorageDualRun: a suite over one tenant's two memories, with keys sent     *)
(* again, a stale write and one that supersedes.                              *)
DualRunUpserts == {r \in StorageUpserts : r.tenant = t1 /\ r.user = None}
DualRunDeletes == {r \in StorageDeletes : r.tenant = t1 /\ r.auth = None}
DualRunWaivers == {{}, {"version_field_divergence"}, {"snapshot_state_mismatch"}}

------------------------------------------------------------------------------
PersistenceParts == {"ledger", "storage", "schema", "backup", "postgres", "dualrun"}

PersistenceInit(p) ==
  /\ LedgerInit /\ StorageInit /\ SchemaInit /\ BackupInit /\ PostgresInit /\ DualRunInit
  /\ p # "storage" => keyRing = <<>>
  /\ p # "dualrun" => waivers = {}

persistenceVars == <<ledgerVars, storageVars, schemaVars, backupVars, postgresVars, dualVars>>

PersistenceNext(p) ==
  \/ p = "ledger" /\ LedgerNext /\ UNCHANGED <<storageVars, schemaVars, backupVars,
       postgresVars, dualVars>>
  \/ p = "storage" /\ StorageNext /\ UNCHANGED <<ledgerVars, schemaVars, backupVars,
       postgresVars, dualVars>>
  \/ p = "schema" /\ SchemaNext /\ UNCHANGED <<ledgerVars, storageVars, backupVars,
       postgresVars, dualVars>>
  \/ p = "backup" /\ BackupNext /\ UNCHANGED <<ledgerVars, storageVars, schemaVars,
       postgresVars, dualVars>>
  \/ p = "postgres" /\ PostgresNext /\ UNCHANGED <<ledgerVars, storageVars,
       schemaVars, backupVars, dualVars>>
  \/ p = "dualrun" /\ DualRunNext /\ UNCHANGED <<ledgerVars, storageVars, schemaVars,
       backupVars, postgresVars>>

PersistenceTypeOK(p) ==
  /\ p = "ledger" => LedgerTypeOK
  /\ p = "storage" => StorageTypeOK
  /\ p = "schema" => SchemaTypeOK
  /\ p = "backup" => BackupTypeOK
  /\ p = "postgres" => PostgresTypeOK
  /\ p = "dualrun" => DualRunTypeOK

RepositoriesRightIn(p) ==
  /\ p = "ledger" => LedgerIsRight
  /\ p = "storage" => StorageIsRight /\ BackfillHeals

PersistenceRightIn(p) ==
  /\ p = "schema" => SchemaIsRight
  /\ p = "backup" => BackupIsRight
  /\ p = "postgres" => PostgresIsRight
  /\ p = "dualrun" => DualRunIsRight
==============================================================================
