---------------------------- MODULE StorageDualRun ----------------------------
(***************************************************************************)
(* The dual run that judges a cutover (apps/api/src/storage-dualrun.ts):   *)
(* every operation of a suite runs on a fresh sqlite repository and on a   *)
(* fresh Postgres one, and what both answer, or hold, is compared without  *)
(* versions, times of persistence and request hashes.  The repositories    *)
(* are those of StorageRepository and PostgresStorage.                     *)
(***************************************************************************)
EXTENDS StorageRepository, PostgresStorage

CONSTANTS
  DualUpserts, DualDeletes,  \* the operations a suite may hold
  WaiverSets,                \* the waivers of a suite
  MaxOperations

\* The layer is part of the body, what an upsert stores.
ASSUME DualRunAssumption ==
  /\ DualUpserts \subseteq Upserts /\ DualDeletes \subseteq Deletes
  /\ \A r \in DualUpserts \cup DualDeletes : r.key # None => r.key # NoKey
  /\ \A r, q \in DualUpserts :
       r.tenant = q.tenant /\ r.memory = q.memory /\ r.body = q.body => r.layer = q.layer
  /\ MaxOperations \in Nat

VARIABLES
  dual,     \* the harness: [sqlite, postgres]
  waivers,  \* the reasons the suite waives
  report,   \* the operations so far: sequence of [kind, reason, waived]
  portable  \* history: every operation so far was one both repositories promise

dualVars == <<dual, waivers, report, portable>>

DualRunInit ==
  /\ dual = [sqlite |-> EmptyDb, postgres |-> EmptyPg]
  /\ waivers \in WaiverSets
  /\ report = <<>>
  /\ portable = TRUE

------------------------------------------------------------------------------
(* One request for both: its times, scopes and references are in the        *)
(* payload, which Postgres keeps unread.                                     *)

AsPgUpsert(r) == [op |-> "upsert", space |-> r.tenant, memory |-> r.memory,
  layer |-> r.layer, body |-> r.body, key |-> IF r.key = None THEN NoKey ELSE r.key]
AsPgDelete(r) == [op |-> "delete", space |-> r.tenant, memory |-> r.memory,
  layer |-> "", body |-> None, key |-> IF r.key = None THEN NoKey ELSE r.key]

\* Without what the adapters do differently by design.
StripAdapterSpecificFields(a) ==
  IF a.kind = "done" THEN [kind |-> "done", op |-> a.op, space |-> a.space,
                           memory |-> a.memory]
  ELSE a

\* normalizeStorageError: the contract that refused, or the memory that did.
Contract(name) == [kind |-> name]
IdempotencyConflict == Contract("conflict")
Done(op, r) == [kind |-> "done", op |-> op, space |-> r.tenant, memory |-> r.memory]

\* toOutcome of the sqlite service, mapUpsertFailure and mapDeleteFailure. A
\* stale or an equal write is accepted too.
SqliteUpsertOutcome(d, r) ==
  LET verdict == IdempotencyVerdict(d, r, "upsert", {UpsertHash(r), LegacyUpsertHash(r)})
      bad == FirstBad(References(d, r))
  IN IF ~ParsePayloadProjection(r) THEN Contract("payload")
     ELSE IF ~AssertScopeAuthorization(d, r) THEN Contract("authorization")
     ELSE IF verdict = "replay" THEN Done("upsert", r)
     ELSE IF verdict = "conflict" THEN IdempotencyConflict
     ELSE IF ~ProvenanceImmutable(d, r) \/ bad = "unknown" THEN Contract("payload")
     ELSE IF bad = "foreign" THEN Contract("isolation")
     ELSE IF ConstraintFails(d, r)
       THEN [kind |-> "constraint", space |-> r.tenant, memory |-> r.memory]
     ELSE Done("upsert", r)
SqliteDeleteOutcome(d, r) ==
  LET verdict == IdempotencyVerdict(d, r, "delete", {DeleteHash(r)})
      whose == MemoryStatus(d, r.tenant, r.memory)
  IN IF ~AssertDeleteAuthorization(d, r) THEN Contract("authorization")
     ELSE IF verdict = "replay" THEN Done("delete", r)
     ELSE IF verdict = "conflict" THEN IdempotencyConflict
     ELSE IF whose = "own" THEN Done("delete", r)
     ELSE IF whose = "foreign" THEN Contract("isolation")
     ELSE Contract("not_found")

------------------------------------------------------------------------------
(* What is compared of the states. A sqlite row has no version.             *)

NoVersion == 0
SqliteState(d) ==
  [memories |-> {[space |-> i.tenant, memory |-> i.memory, layer |-> i.layer,
                  body |-> i.body, version |-> NoVersion] : i \in d.items},
   ledger |-> {[space |-> l.tenant, op |-> l.operation, key |-> l.key,
                memory |-> l.hash[3]] : l \in d.ledger}]
PostgresState(s) ==
  [memories |-> s.memories,
   ledger |-> {[space |-> l.space, op |-> l.op, key |-> l.key,
                memory |-> l.response.memory] : l \in s.ledger}]
NormalizeComparable(s) ==
  [s EXCEPT !.memories = {[m EXCEPT !.version = NoVersion] : m \in @}]

\* Exported, imported into a fresh harness and exported again
RoundtripState(d) == ImportSnapshot(EmptyDb, d)
PgRoundtripState(s) == PgImport(EmptyPg, s)

\* classifyStorageDualRunMismatchReason
MismatchReason(x, y) ==
  IF x = y THEN "none"
  ELSE IF x.kind # "done" \/ y.kind # "done" THEN "operation_result_mismatch"
  ELSE "snapshot_state_mismatch"

\* Faulty: states are compared by how many rows their tables have.
StateMismatchByCounts(x, y) ==
  IF /\ Cardinality(x.memories) = Cardinality(y.memories)
     /\ Cardinality(x.ledger) = Cardinality(y.ledger)
  THEN "none" ELSE "snapshot_state_mismatch"

StateMismatchReason(x, y) ==
  IF x = y THEN "none"
  ELSE IF NormalizeComparable(x) = NormalizeComparable(y)
  THEN "version_field_divergence" ELSE "snapshot_state_mismatch"

------------------------------------------------------------------------------
Compared(kind, reason) ==
  /\ Len(report) < MaxOperations
  /\ report' = Append(report, [kind |-> kind, reason |-> reason,
                               waived |-> reason \in waivers])
  /\ UNCHANGED waivers

\* A write both repositories promise: it is not older than what it replaces,
\* refers to nothing and is refused by neither for its content.
PortableUpsert(d, r) ==
  /\ r.supersedes = None /\ r.prov = None /\ r.auth = None /\ r.raw = 0
  /\ r.scopeId = None /\ r.project = None /\ r.role = None /\ r.user = None
  /\ ParsePayloadProjection(r) /\ ~ConstraintFails(d, r) /\ ProvenanceImmutable(d, r)
  /\ \/ IdempotencyVerdict(d, r, "upsert", {UpsertHash(r), LegacyUpsertHash(r)}) # "new"
     \/ Reason(d, r) \in {"inserted", "updated"}
PortableDelete(d, r) ==
  /\ r.auth = None /\ MemoryStatus(d, r.tenant, r.memory) # "foreign"
  /\ CascadeClosure(d, r.tenant, r.memory) \subseteq {r.memory}

DualUpsert(r) ==
  /\ Compared("upsert", MismatchReason(SqliteUpsertOutcome(dual.sqlite, r),
       StripAdapterSpecificFields(PgOutcome(dual.postgres, AsPgUpsert(r)))))
  /\ dual' = [sqlite |-> UpsertMemory(dual.sqlite, r),
              postgres |-> PgApply(dual.postgres, AsPgUpsert(r))]
  /\ portable' = (portable /\ PortableUpsert(dual.sqlite, r))

DualDelete(r) ==
  /\ Compared("delete", MismatchReason(SqliteDeleteOutcome(dual.sqlite, r),
       StripAdapterSpecificFields(PgOutcome(dual.postgres, AsPgDelete(r)))))
  /\ dual' = [sqlite |-> DeleteMemory(dual.sqlite, r),
              postgres |-> PgApply(dual.postgres, AsPgDelete(r))]
  /\ portable' = (portable /\ PortableDelete(dual.sqlite, r))

CompareStates ==
  /\ Compared("snapshot_state", StateMismatchReason(SqliteState(dual.sqlite),
                                                    PostgresState(dual.postgres)))
  /\ UNCHANGED <<dual, portable>>

CompareRoundtrips ==
  /\ Compared("snapshot_roundtrip", StateMismatchReason(
       NormalizeComparable(SqliteState(RoundtripState(dual.sqlite))),
       NormalizeComparable(PostgresState(PgRoundtripState(dual.postgres)))))
  /\ UNCHANGED <<dual, portable>>

DualRunNext ==
  \/ \E r \in DualUpserts : DualUpsert(r)
  \/ \E r \in DualDeletes : DualDelete(r)
  \/ CompareStates \/ CompareRoundtrips

DualRunSpec == DualRunInit /\ [][DualRunNext]_dualVars

------------------------------------------------------------------------------
\* The verdict of the report: no mismatch but waived ones
ReportOk == \A k \in DOMAIN report : report[k].reason = "none" \/ report[k].waived

DualRunTypeOK ==
  /\ waivers \in WaiverSets /\ Len(report) <= MaxOperations
  /\ portable \in BOOLEAN

\* A suite of writes that both repositories promise, in any order, with keys
\* sent again and again and memories deleted and made anew, finds them equal
\* in all but the version, which only Postgres counts.
PortableSuiteAgrees ==
  portable =>
    /\ \A k \in DOMAIN report : report[k].reason \in {"none", "version_field_divergence"}
    /\ NormalizeComparable(SqliteState(dual.sqlite)) =
         NormalizeComparable(PostgresState(dual.postgres))

\* A suite that ends with a comparison of states it does not waive cannot pass
\* over stores that differ.
PassedMeansEqual ==
  /\ report # <<>> /\ ReportOk
  /\ report[Len(report)].kind \in {"snapshot_state", "snapshot_roundtrip"}
  /\ "snapshot_state_mismatch" \notin waivers
  => NormalizeComparable(SqliteState(dual.sqlite)) =
       NormalizeComparable(PostgresState(dual.postgres))

DualRunIsRight == PortableSuiteAgrees /\ PassedMeansEqual
==============================================================================
