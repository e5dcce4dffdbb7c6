-------------------------- MODULE StorageRepository --------------------------
(***************************************************************************)
(* The sqlite storage repository of libs/shared (storage-repository.ts,    *)
(* snapshot-codec.ts): memories of several tenants, the scopes they live   *)
(* in, their evidence and provenance, an idempotency ledger and an audit   *)
(* log.  Each request is one immediate transaction; an audit entry of a    *)
(* failed one is written after the rollback.                               *)
(*                                                                         *)
(* db is the database, a record of tables.  Foreign keys are enforced, the *)
(* default.  Rows that the identity services own (users, projects, roles)  *)
(* are the constant Anchors.                                               *)
(***************************************************************************)
EXTENDS Integers, FiniteSets, FiniteSetsExt, Sequences

CONSTANTS
  Tenant, Memory, Evidence, Provenance, IdemKey,
  Anchors,       \* <<tenant, kind, id>>: kind is "project", "role" or "user"
  LineageOf,     \* Provenance -> the <<kind, id>> an envelope refers to
  Upserts,       \* the upsert requests
  Deletes,       \* the delete requests
  KeyRings,      \* what a repository may be opened with: <<active key, keys>>,
                 \* or <<>> for no encryption
  MaxAudit,      \* bound on the entries of the audit log
  MaxExport,     \* bound on them when a snapshot is exported
  None

ASSUME StorageAssumption ==
  /\ LineageOf \in [Provenance -> SUBSET {<<a[2], a[3]>> : a \in Anchors}]
  /\ \A r \in KeyRings : r = <<>> \/ r[1] \in r[2]
  /\ \A a \in Anchors : <<a[2], a[3]>> # None
  /\ None \notin Nat
  /\ MaxAudit \in Nat /\ MaxExport \in Nat

MaybeTime == {None} \cup Nat

\* What a request has passed before it reaches the repository.
ASSUME RequestAssumption ==
  /\ \A r \in Upserts :
       /\ r.tenant \in Tenant /\ r.memory \in Memory /\ r.evidence \subseteq Evidence
       /\ r.prov \in Provenance \cup {None} /\ r.supersedes \in Memory \cup {None}
       /\ {r.times.created, r.times.updated, r.times.expires, r.times.tombstoned}
            \subseteq MaybeTime
       /\ r.times.status \in {None, "active", "superseded", "tombstoned"}
  /\ \A r \in Deletes : r.tenant \in Tenant /\ r.memory \in Memory

VARIABLES
  db,        \* the tables
  keyRing,   \* the open repository's <<active key, keys>>, or <<>>
  snapshot   \* the last exported snapshot, kept outside, or None

storageVars == <<db, keyRing, snapshot>>

EmptyDb == [scopes |-> {}, items |-> {}, evLinks |-> {}, provLinks |-> {},
            evProvLinks |-> {}, ledger |-> {}, audit |-> {}, effects |-> {}]

StorageInit == db = EmptyDb /\ keyRing \in KeyRings /\ snapshot = None

RowsAt(d, t, m) == {i \in d.items : i.tenant = t /\ i.memory = m}
RowAt(d, t, m) == CHOOSE i \in RowsAt(d, t, m) : TRUE
ScopesAt(d, t, id) == {s \in d.scopes : s.tenant = t /\ s.id = id}
ScopeAt(d, t, id) == CHOOSE s \in ScopesAt(d, t, id) : TRUE

------------------------------------------------------------------------------
(* The payload                                                              *)

\* The times of a payload, absent ones given by the others: what is stored,
\* or None if the payload is refused.
PayloadTimes(p) ==
  LET created == IF p.created # None THEN p.created
                 ELSE IF p.updated # None THEN p.updated ELSE 0
      updated == IF p.updated # None THEN p.updated ELSE created
      tombstoned == IF p.status = "tombstoned" /\ p.tombstoned = None
                    THEN updated ELSE p.tombstoned
      status == IF p.status # None THEN p.status
                ELSE IF p.tombstoned # None THEN "tombstoned" ELSE "active"
  IN IF \/ updated < created
        \/ tombstoned # None /\ ~(created <= tombstoned /\ tombstoned <= updated)
        \/ status # "tombstoned" /\ tombstoned # None
        \/ p.expires # None /\ p.expires < created
     THEN None
     ELSE [created |-> created, updated |-> updated, expires |-> p.expires,
           status |-> status, tombstoned |-> tombstoned]

\* A scope is named by its id or by anchors, never by both.
ParseScopeControlProjection(r) ==
  r.scopeId = None \/ (r.project = None /\ r.role = None /\ r.user = None)

ParsePayloadProjection(r) ==
  /\ PayloadTimes(r.times) # None
  /\ ParseScopeControlProjection(r)
  /\ r.layer = "procedural" => r.evidence # {}

\* A row is sealed with the active key; it is read with any key of the ring.
ToStoredMemoryPayload == IF keyRing = <<>> THEN None ELSE keyRing[1]
DecryptPersistedMemoryPayload(i) ==
  i.sealed = None \/ (keyRing # <<>> /\ i.sealed \in keyRing[2])

------------------------------------------------------------------------------
(* Authorization: the request's own list of anchors, if it has one.         *)

AnchorsOf(r) ==
  {a \in {<<"project", r.project>>, <<"role", r.role>>, <<"user", r.user>>} :
     a[2] # None}
  \cup (IF r.prov = None THEN {} ELSE LineageOf[r.prov])

IsScopeAuthorizationAllowed(auth, s) ==
  s.anchor = None \/ s.anchor \in auth.anchors

AssertScopeAuthorization(d, r) ==
  r.auth = None \/
  /\ r.auth.tenant \in {None, r.tenant}
  /\ AnchorsOf(r) \subseteq r.auth.anchors
  /\ \A s \in ScopesAt(d, r.tenant, r.scopeId) : IsScopeAuthorizationAllowed(r.auth, s)

------------------------------------------------------------------------------
(* Scopes: made on first use, under the common scope of the tenant.         *)

CommonId(t) == <<"common", t>>
AnchorScopeId(t, a) == <<a[1], t, a[2]>>
Scope(t, id, a, parent) == [tenant |-> t, id |-> id, anchor |-> a, parent |-> parent]

ResolveCommonScope(d, t) ==
  IF ScopesAt(d, t, CommonId(t)) # {} THEN d.scopes
  ELSE d.scopes \cup {Scope(t, CommonId(t), None, None)}

\* Who owns the anchor: the tenant, another tenant, or nobody.
AssertScopeAnchorExists(t, a) ==
  IF <<t, a[1], a[2]>> \in Anchors THEN "own"
  ELSE IF \E o \in Tenant : <<o, a[1], a[2]>> \in Anchors THEN "foreign"
  ELSE "unknown"

WithAnchorScope(ss, t, a, parent) ==
  IF \E s \in ss : s.tenant = t /\ s.anchor = a THEN ss
  ELSE ss \cup {Scope(t, AnchorScopeId(t, a), a, parent)}

\* The role or the project a user scope is made under, or common.
MiddleAnchor(r) == IF r.role # None THEN <<"role", r.role>>
                   ELSE IF r.project # None THEN <<"project", r.project>> ELSE None
MiddleId(r) == IF MiddleAnchor(r) = None THEN CommonId(r.tenant)
               ELSE AnchorScopeId(r.tenant, MiddleAnchor(r))

\* An existing user scope keeps its parent; naming another one is an error.
UserParentConflicts(d, r) ==
  /\ r.user # None /\ MiddleAnchor(r) # None
  /\ \E s \in d.scopes : /\ s.tenant = r.tenant /\ s.anchor = <<"user", r.user>>
                         /\ s.parent # MiddleId(r)

ResolveScopes(d, r) ==
  IF r.scopeId # None THEN d.scopes
  ELSE LET common == ResolveCommonScope(d, r.tenant)
           middle == IF MiddleAnchor(r) = None THEN common
                     ELSE WithAnchorScope(common, r.tenant, MiddleAnchor(r),
                                          CommonId(r.tenant))
       IN IF r.user = None THEN middle
          ELSE WithAnchorScope(middle, r.tenant, <<"user", r.user>>, MiddleId(r))

ResolvedScopeId(r) ==
  IF r.scopeId # None THEN r.scopeId
  ELSE IF r.user # None THEN AnchorScopeId(r.tenant, <<"user", r.user>>)
  ELSE MiddleId(r)

------------------------------------------------------------------------------
(* References of an upsert, in the order they are looked up.                *)

ScopeStatus(d, t, id) ==
  IF ScopesAt(d, t, id) # {} THEN "own"
  ELSE IF \E s \in d.scopes : s.id = id THEN "foreign" ELSE "dangling"
MemoryStatus(d, t, m) ==
  IF RowsAt(d, t, m) # {} THEN "own"
  ELSE IF \E i \in d.items : i.memory = m THEN "foreign" ELSE "dangling"

LineageStatus(t, p) ==
  LET bad == {a \in LineageOf[p] : AssertScopeAnchorExists(t, a) # "own"}
  IN IF bad = {} THEN "own" ELSE AssertScopeAnchorExists(t, CHOOSE a \in bad : TRUE)

References(d, r) ==
  <<IF r.scopeId = None /\ MiddleAnchor(r) # None
    THEN AssertScopeAnchorExists(r.tenant, MiddleAnchor(r)) ELSE "own",
    IF UserParentConflicts(d, r) THEN "unknown" ELSE "own",
    IF r.user # None
    THEN AssertScopeAnchorExists(r.tenant, <<"user", r.user>>) ELSE "own",
    IF r.scopeId # None THEN ScopeStatus(d, r.tenant, r.scopeId) ELSE "own",
    IF r.supersedes # None THEN MemoryStatus(d, r.tenant, r.supersedes) ELSE "own",
    IF r.prov # None THEN LineageStatus(r.tenant, r.prov) ELSE "own">>

\* The first reference that is not the tenant's own or left to the foreign
\* keys decides between a denial and a refusal.
FirstBad(refs) ==
  LET bad == {k \in DOMAIN refs : refs[k] \in {"foreign", "unknown"}}
  IN IF bad = {} THEN "none" ELSE refs[Min(bad)]

\* trg_memory_items_no_supersedes_cycle: the rows m's predecessor descends from.
HasPredecessors(d, t, S) ==
  \A i \in d.items : i.tenant = t /\ i.memory \in S /\ i.supersedes # None
                     => i.supersedes \in S
Ancestors(d, t, m) ==
  {x \in Memory : \A S \in SUBSET Memory : m \in S /\ HasPredecessors(d, t, S) => x \in S}

\* The checks and foreign keys of memory_items. An update keeps the created
\* time of the row, and gets the other times of the request.
ConstraintFails(d, r) ==
  LET times == PayloadTimes(r.times)
      created == IF RowsAt(d, r.tenant, r.memory) = {} THEN times.created
                 ELSE RowAt(d, r.tenant, r.memory).times.created
      newer == \A i \in RowsAt(d, r.tenant, r.memory) : times.updated > i.times.updated
  IN \/ "dangling" \in {References(d, r)[k] : k \in DOMAIN References(d, r)}
     \/ r.supersedes # None /\ r.memory \in Ancestors(d, r.tenant, r.supersedes)
     \/ /\ newer
        /\ \/ times.expires # None /\ times.expires < created
           \/ times.tombstoned # None /\ times.tombstoned < created

\* Promoted memory keeps its provenance.
ProvenanceImmutable(d, r) ==
  \A i \in RowsAt(d, r.tenant, r.memory) :
    i.layer = "procedural" => DecryptPersistedMemoryPayload(i)
                              /\ (i.prov # None => i.prov = r.prov)

------------------------------------------------------------------------------
(* The idempotency ledger. A request is named by its content: body is what   *)
(* is stored, raw what was sent. Old rows were hashed without the raw text.  *)

UpsertHash(r) == <<"upsert", r.tenant, r.memory, r.body, r.raw>>
LegacyUpsertHash(r) == <<"upsert", r.tenant, r.memory, r.body>>
DeleteHash(r) == <<"delete", r.tenant, r.memory>>

LedgerRow(d, t, op, k) == {l \in d.ledger : l.tenant = t /\ l.operation = op /\ l.key = k}

\* "new", "replay" or "conflict"
IdempotencyVerdict(d, r, op, hashes) ==
  IF r.key = None \/ LedgerRow(d, r.tenant, op, r.key) = {} THEN "new"
  ELSE IF \E l \in LedgerRow(d, r.tenant, op, r.key) : l.hash \in hashes
  THEN "replay" ELSE "conflict"

PersistIdempotency(d, r, op, hash) ==
  IF r.key = None THEN d.ledger
  ELSE d.ledger \cup {[tenant |-> r.tenant, operation |-> op, key |-> r.key,
                       hash |-> hash]}

------------------------------------------------------------------------------
(* upsertMemory                                                             *)

Event(r, op, reason, details, at) ==
  [tenant |-> r.tenant, memory |-> r.memory, operation |-> op,
   reason |-> reason, details |-> details, at |-> at]

\* A failure is counted by its recorded time: the last of its kind plus one.
FailureEvents(d, r, op, reason, details) ==
  {e \in d.audit : [e EXCEPT !.at = 0] = Event(r, op, reason, details, 0)}
PersistFailure(d, r, op, reason, details) ==
  [d EXCEPT !.audit = @ \cup
     {Event(r, op, reason, details, Cardinality(FailureEvents(d, r, op, reason, details)))}]

NewRow(d, r) ==
  [tenant |-> r.tenant, memory |-> r.memory, scope |-> ResolvedScopeId(r),
   layer |-> r.layer, prov |-> r.prov, supersedes |-> r.supersedes,
   evidence |-> r.evidence, body |-> r.body, sealed |-> ToStoredMemoryPayload,
   times |-> [PayloadTimes(r.times) EXCEPT !.created =
                IF RowsAt(d, r.tenant, r.memory) = {} THEN @
                ELSE RowAt(d, r.tenant, r.memory).times.created]]

LinkedTo(links, t, m) == {l[3] : l \in {k \in links : k[1] = t /\ k[2] = m}}
Unlinked(links, t, m) == {l \in links : ~(l[1] = t /\ l[2] = m)}

\* Evidence of a memory that is procedural, and the envelope of its payload.
EvidenceOf(i) == IF i.layer = "procedural" THEN i.evidence ELSE {}

\* The links of a row whose links are all made anew. A link of evidence and
\* provenance is of no memory: it goes even if another memory has both.
Relink(d, i) ==
  LET t == i.tenant  m == i.memory
      gone == {t} \X LinkedTo(d.evLinks, t, m) \X LinkedTo(d.provLinks, t, m)
      provs == IF i.prov = None THEN {} ELSE {i.prov}
  IN [d EXCEPT
       !.evLinks = Unlinked(@, t, m) \cup ({t} \X {m} \X EvidenceOf(i)),
       !.provLinks = Unlinked(@, t, m) \cup ({t} \X {m} \X provs),
       !.evProvLinks = (@ \ gone) \cup ({t} \X EvidenceOf(i) \X provs)]

PutRow(d, i) ==
  Relink([d EXCEPT !.items = (@ \ RowsAt(d, i.tenant, i.memory)) \cup {i}], i)

Reason(d, r) ==
  LET old == RowsAt(d, r.tenant, r.memory)
      at == PayloadTimes(r.times).updated
  IN IF old = {} THEN "inserted"
     ELSE IF \E i \in old : at > i.times.updated THEN "updated"
     ELSE IF \E i \in old : at < i.times.updated THEN "stale_replay"
     ELSE "equal_replay"

Upserted(d, r) ==
  LET placed == [d EXCEPT !.scopes = ResolveScopes(d, r)]
      written == IF Reason(d, r) \in {"inserted", "updated"}
                 THEN PutRow(placed, NewRow(d, r)) ELSE placed
      at == RowAt(written, r.tenant, r.memory).times.updated
  IN [written EXCEPT
       !.audit = @ \cup {Event(r, "upsert", Reason(d, r), <<r.layer, r.body, at>>, at)},
       !.ledger = PersistIdempotency(d, r, "upsert", UpsertHash(r)),
       !.effects = IF r.key = None \/ written.items = d.items THEN @
                   ELSE @ \cup {<<r.tenant, "upsert", r.key, Cardinality(@)>>}]

\* Faulty: the ledger is not consulted before the row is written.
UpsertUnchecked(d, r) ==
  IF \/ ~ParsePayloadProjection(r) \/ ~AssertScopeAuthorization(d, r)
     \/ ~ProvenanceImmutable(d, r) \/ FirstBad(References(d, r)) = "unknown"
     \/ ConstraintFails(d, r)
  THEN d
  ELSE IF FirstBad(References(d, r)) = "foreign"
  THEN PersistFailure(d, r, "upsert", "cross_tenant_reference", <<"denied", r.body>>)
  ELSE Upserted(d, r)

UpsertMemory(d, r) ==
  CASE \/ ~ParsePayloadProjection(r)
       \/ ~AssertScopeAuthorization(d, r) -> d
    [] OTHER ->
       IF IdempotencyVerdict(d, r, "upsert", {UpsertHash(r), LegacyUpsertHash(r)}) # "new"
       THEN d
       ELSE IF ~ProvenanceImmutable(d, r) THEN d
       ELSE CASE FirstBad(References(d, r)) = "foreign" ->
                   PersistFailure(d, r, "upsert", "cross_tenant_reference", <<"denied", r.body>>)
              [] FirstBad(References(d, r)) = "unknown" -> d
              [] OTHER -> IF ConstraintFails(d, r) THEN d ELSE Upserted(d, r)

------------------------------------------------------------------------------
(* deleteMemory                                                             *)

\* ON DELETE CASCADE: what supersedes a deleted memory goes with it.
CascadeClosure(d, t, m) ==
  {i.memory : i \in {j \in d.items : j.tenant = t /\ m \in Ancestors(d, t, j.memory)}}

RemoveRows(d, t, ms) ==
  [d EXCEPT !.items = {i \in @ : ~(i.tenant = t /\ i.memory \in ms)},
            !.evLinks = {l \in @ : ~(l[1] = t /\ l[2] \in ms)},
            !.provLinks = {l \in @ : ~(l[1] = t /\ l[2] \in ms)}]

AssertDeleteAuthorization(d, r) ==
  r.auth = None \/
  /\ r.auth.tenant \in {None, r.tenant}
  /\ \A i \in RowsAt(d, r.tenant, r.memory) :
       IsScopeAuthorizationAllowed(r.auth, ScopeAt(d, r.tenant, i.scope))

Deleted(d, r) ==
  LET at == RowAt(d, r.tenant, r.memory).times.updated
      left == RemoveRows(d, r.tenant, CascadeClosure(d, r.tenant, r.memory))
  IN [left EXCEPT
       !.audit = @ \cup {Event(r, "delete", "deleted", None, at)},
       !.ledger = PersistIdempotency(d, r, "delete", DeleteHash(r)),
       !.effects = IF r.key = None THEN @
                   ELSE @ \cup {<<r.tenant, "delete", r.key, Cardinality(@)>>}]

DeleteMemory(d, r) ==
  IF \/ ~AssertDeleteAuthorization(d, r)
     \/ IdempotencyVerdict(d, r, "delete", {DeleteHash(r)}) # "new"
  THEN d
  ELSE IF RowsAt(d, r.tenant, r.memory) # {} THEN Deleted(d, r)
  ELSE PersistFailure(d, r, "delete",
         IF MemoryStatus(d, r.tenant, r.memory) = "foreign"
         THEN "cross_tenant_delete_probe" ELSE "not_found", None)

------------------------------------------------------------------------------
(* Provenance backfill and health                                           *)

\* The envelope of the payload, or one of its own for the memory.
BackfillEnvelope(i) == IF i.prov # None THEN i.prov ELSE <<"backfill", i.memory>>

\* Faulty: evidence is linked only for memories that get a new envelope link.
BackfillOnlyNew(d) ==
  LET new == {i \in d.items :
                <<i.tenant, i.memory, BackfillEnvelope(i)>> \notin d.provLinks}
  IN [d EXCEPT
       !.provLinks = @ \cup {<<i.tenant, i.memory, BackfillEnvelope(i)>> : i \in new},
       !.evProvLinks = @ \cup UNION {
          {<<i.tenant, e, BackfillEnvelope(i)>> : e \in LinkedTo(d.evLinks, i.tenant, i.memory)}
          : i \in new}]

BackfillProvenance(d) ==
  [d EXCEPT
    !.provLinks = @ \cup {<<i.tenant, i.memory, BackfillEnvelope(i)>> : i \in d.items},
    !.evProvLinks = @ \cup UNION {
       {<<i.tenant, e, BackfillEnvelope(i)>> : e \in LinkedTo(d.evLinks, i.tenant, i.memory)}
       : i \in d.items},
    !.audit = @ \cup {[tenant |-> i.tenant, memory |-> i.memory,
       operation |-> "upsert", reason |-> "updated", at |-> i.times.updated,
       details |-> <<"backfill", IF i.prov # None THEN "normalized_envelope"
                                 ELSE "defaulted_envelope">>] : i \in d.items}]

\* evaluateSqliteProvenanceHealth
MissingProvenanceLinks(d) ==
  {i \in d.items : LinkedTo(d.provLinks, i.tenant, i.memory) = {}}
LineageBreaks(d) ==
  {b \in d.evLinks \X d.provLinks :
     /\ b[1][1] = b[2][1] /\ b[1][2] = b[2][2]
     /\ <<b[1][1], b[1][3], b[2][3]>> \notin d.evProvLinks}

------------------------------------------------------------------------------
(* Snapshots                                                                *)

\* Tables are emptied before rows are inserted; the audit log, if it has a
\* row, aborts that by its append-only trigger.
ImportSnapshot(d, s) == IF s = d THEN d ELSE IF d.audit # {} THEN d ELSE s

------------------------------------------------------------------------------
Commit(d) == db' = d /\ Cardinality(d.audit) <= MaxAudit

Upsert(r) == Commit(UpsertMemory(db, r)) /\ UNCHANGED <<keyRing, snapshot>>
Delete(r) == Commit(DeleteMemory(db, r)) /\ UNCHANGED <<keyRing, snapshot>>

\* A backfill reads every payload: one that cannot be decrypted fails it all.
Backfill ==
  /\ \A i \in db.items : DecryptPersistedMemoryPayload(i)
  /\ Commit(BackfillProvenance(db))
  /\ UNCHANGED <<keyRing, snapshot>>

ExportSnapshot ==
  /\ Cardinality(db.audit) <= MaxExport
  /\ snapshot' = db /\ UNCHANGED <<db, keyRing>>
Import ==
  /\ snapshot # None
  /\ db' = ImportSnapshot(db, snapshot)
  /\ UNCHANGED <<keyRing, snapshot>>

\* The repository is opened again, on the same file or on a new one.
Reopen(new) ==
  /\ keyRing' \in KeyRings
  /\ db' = IF new THEN EmptyDb ELSE db
  /\ UNCHANGED snapshot

StorageNext ==
  \/ \E r \in Upserts : Upsert(r)
  \/ \E r \in Deletes : Delete(r)
  \/ Backfill \/ ExportSnapshot \/ Import
  \/ \E new \in BOOLEAN : Reopen(new)

StorageSpec == StorageInit /\ [][StorageNext]_storageVars

------------------------------------------------------------------------------
StoredTimes ==
  [created : Nat, updated : Nat, expires : MaybeTime, tombstoned : MaybeTime,
   status : {"active", "superseded", "tombstoned"}]

StorageTypeOK ==
  /\ \A i \in db.items :
       i.tenant \in Tenant /\ i.memory \in Memory /\ i.times \in StoredTimes
  /\ db.evLinks \subseteq Tenant \X Memory \X Evidence
  /\ \A l \in db.provLinks \cup db.evProvLinks : l[1] \in Tenant
  /\ keyRing \in KeyRings

\* A memory is where its tenant's scopes are, descends from memories of its
\* tenant and not from itself, and a user scope is under one of its tenant's.
ReferencesStayInTenant ==
  /\ \A i \in db.items :
       /\ Cardinality(RowsAt(db, i.tenant, i.memory)) = 1
       /\ Cardinality(ScopesAt(db, i.tenant, i.scope)) = 1
       /\ i.supersedes # None =>
            /\ RowsAt(db, i.tenant, i.supersedes) # {}
            /\ i.memory \notin Ancestors(db, i.tenant, i.supersedes)
  /\ \A s \in db.scopes :
       /\ s.parent # None => ScopesAt(db, s.tenant, s.parent) # {}
       /\ s.anchor # None => <<s.tenant, s.anchor[1], s.anchor[2]>> \in Anchors

\* Links follow rows through updates, replays that change nothing, deletes and
\* cascades: evidence for procedural memories only, provenance of the payload
\* or of a backfill.
LinksMirrorRows ==
  /\ \A i \in db.items :
       /\ LinkedTo(db.evLinks, i.tenant, i.memory) = EvidenceOf(i)
       /\ LinkedTo(db.provLinks, i.tenant, i.memory)
            \in (IF i.prov = None THEN {{}, {BackfillEnvelope(i)}} ELSE {{i.prov}})
  /\ \A l \in db.evLinks \cup db.provLinks : RowsAt(db, l[1], l[2]) # {}

\* A request with an idempotency key acts once, however often it is retried
\* and whatever was written, deleted or restored in between.
KeyedRequestActsOnce ==
  \A x, y \in db.effects : x[1] = y[1] /\ x[2] = y[2] /\ x[3] = y[3] => x = y

\* Every row was announced: its last write is in the audit log.
RowsAreAudited ==
  \A i \in db.items :
    \E e \in db.audit : /\ e.tenant = i.tenant /\ e.memory = i.memory
                       /\ e.reason \in {"inserted", "updated"}
                       /\ e.at = i.times.updated

\* What the columns' checks ask of the times of a row, the created time of an
\* updated one being that of the row it replaces.
TimesInOrder ==
  \A i \in db.items :
    /\ i.times.created <= i.times.updated
    /\ i.times.expires # None => i.times.created <= i.times.expires
    /\ (i.times.status = "tombstoned") <=> (i.times.tombstoned # None)
    /\ i.times.tombstoned # None => /\ i.times.created <= i.times.tombstoned
                                    /\ i.times.tombstoned <= i.times.updated

StorageIsRight ==
  ReferencesStayInTenant /\ LinksMirrorRows /\ TimesInOrder /\ KeyedRequestActsOnce /\ RowsAreAudited

\* A backfill leaves no memory without provenance and no break in a lineage,
\* also the breaks that updates of other memories made.
BackfillHeals ==
  MissingProvenanceLinks(BackfillProvenance(db)) = {}
  /\ LineageBreaks(BackfillProvenance(db)) = {}
==============================================================================
