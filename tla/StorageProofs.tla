---------------------------- MODULE StorageProofs ----------------------------
(***************************************************************************)
(* Proofs about the storage repositories, for any tenants, memories, keys  *)
(* and requests.  The sqlite repository: however upserts, deletes,         *)
(* backfills, snapshots and reopenings follow one another; what a request  *)
(* asks is bounded by RequestAssumption only, so a request may be sent     *)
(* again, may arrive late and may refer to anything.  The Postgres one:    *)
(* however the driver calls of its requests interleave, fail and are cut   *)
(* short.  The dual run: whatever suite of operations runs on both.        *)
(***************************************************************************)
EXTENDS ExecutionLedger, SchemaMigration, BackupReplicator, StorageDualRun,
        FiniteSetTheorems, SequenceTheorems, WellFoundedInduction, TLAPS

-----------------------------------------------------------------------------
(* The inductive invariant: what holds of the tables holds of a snapshot   *)
(* too, which an import makes the tables again.                            *)

IsDb(d) ==
  d = [scopes |-> d.scopes, items |-> d.items, evLinks |-> d.evLinks,
       provLinks |-> d.provLinks, evProvLinks |-> d.evProvLinks,
       ledger |-> d.ledger, audit |-> d.audit, effects |-> d.effects]

RowTyped(i) ==
  /\ i.tenant \in Tenant /\ i.memory \in Memory /\ i.evidence \subseteq Evidence
  /\ i.supersedes \in Memory \cup {None} /\ i.times \in StoredTimes
RowsTyped(d) == \A i \in d.items : RowTyped(i)

LinksTyped(d) ==
  /\ d.evLinks \subseteq Tenant \X Memory \X Evidence
  /\ \A l \in d.provLinks : l = <<l[1], l[2], l[3]>> /\ l[1] \in Tenant
  /\ \A l \in d.evProvLinks : l[1] \in Tenant

OneRow(d) ==
  \A i, j \in d.items : i.tenant = j.tenant /\ i.memory = j.memory => i = j

\* A scope is named by its anchor, is the only one of its name, and is under one
\* of its tenant.
ScopesGood(ss) ==
  /\ \A s \in ss :
       /\ s.id = IF s.anchor = None THEN CommonId(s.tenant)
                 ELSE AnchorScopeId(s.tenant, s.anchor)
       /\ s.anchor # None => /\ s.anchor = <<s.anchor[1], s.anchor[2]>>
                             /\ <<s.tenant, s.anchor[1], s.anchor[2]>> \in Anchors
       /\ s.parent # None => \E p \in ss : p.tenant = s.tenant /\ p.id = s.parent
  /\ \A s, u \in ss : s.tenant = u.tenant /\ s.id = u.id => s = u
InScopes(ss, t, id) == \E s \in ss : s.tenant = t /\ s.id = id

RowsPlaced(d) == \A i \in d.items : InScopes(d.scopes, i.tenant, i.scope)
Descent(d) ==
  \A i \in d.items : i.supersedes # None =>
    /\ \E j \in d.items : j.tenant = i.tenant /\ j.memory = i.supersedes
    /\ i.memory \notin Ancestors(d, i.tenant, i.supersedes)

RowLinked(d, i) ==
  /\ LinkedTo(d.evLinks, i.tenant, i.memory) = EvidenceOf(i)
  /\ LinkedTo(d.provLinks, i.tenant, i.memory)
       \in (IF i.prov = None THEN {{}, {BackfillEnvelope(i)}} ELSE {{i.prov}})
LinksMirror(d) ==
  /\ \A i \in d.items : RowLinked(d, i)
  /\ \A l \in d.evLinks \cup d.provLinks :
       \E i \in d.items : i.tenant = l[1] /\ i.memory = l[2]

RowTimed(i) ==
  /\ i.times.created <= i.times.updated
  /\ i.times.expires # None => i.times.created <= i.times.expires
  /\ (i.times.status = "tombstoned") <=> (i.times.tombstoned # None)
  /\ i.times.tombstoned # None => /\ i.times.created <= i.times.tombstoned
                                  /\ i.times.tombstoned <= i.times.updated
Timed(d) == \A i \in d.items : RowTimed(i)

Announced(d, i) ==
  \E e \in d.audit : /\ e.tenant = i.tenant /\ e.memory = i.memory
                     /\ e.reason \in {"inserted", "updated"}
                     /\ e.at = i.times.updated
Audited(d) == \A i \in d.items : Announced(d, i)

\* What acted with a key is in the ledger, so it acts with it only once.
Keyed(d) ==
  /\ \A x \in d.effects : LedgerRow(d, x[1], x[2], x[3]) # {}
  /\ \A x, y \in d.effects : x[1] = y[1] /\ x[2] = y[2] /\ x[3] = y[3] => x = y

Good(d) ==
  /\ IsDb(d) /\ RowsTyped(d) /\ LinksTyped(d) /\ OneRow(d)
  /\ ScopesGood(d.scopes) /\ RowsPlaced(d) /\ Descent(d)
  /\ LinksMirror(d) /\ Timed(d) /\ Audited(d) /\ Keyed(d)

StorageInv ==
  /\ Good(db)
  /\ snapshot # None => Good(snapshot)
  /\ keyRing \in KeyRings

-----------------------------------------------------------------------------
(* Ancestors: the least set that has a memory and its rows' predecessors   *)

LEMMA OwnAncestor ==
  ASSUME NEW d, NEW t, NEW m \in Memory
  PROVE  m \in Ancestors(d, t, m)
BY DEF Ancestors

LEMMA AncestorsClosed ==
  ASSUME NEW d, NEW t, NEW m, RowsTyped(d)
  PROVE  /\ HasPredecessors(d, t, Ancestors(d, t, m))
         /\ Ancestors(d, t, m) \in SUBSET Memory
<1>1. SUFFICES ASSUME NEW i \in d.items, i.tenant = t, i.memory \in Ancestors(d, t, m),
                      i.supersedes # None
               PROVE  i.supersedes \in Ancestors(d, t, m)
  BY DEF HasPredecessors, Ancestors
<1>2. i.supersedes \in Memory
  BY <1>1 DEF RowsTyped, RowTyped
<1>3. ASSUME NEW S \in SUBSET Memory, m \in S, HasPredecessors(d, t, S)
      PROVE  i.supersedes \in S
  <2>1. i.memory \in S
    BY <1>1, <1>3 DEF Ancestors
  <2> QED
    BY <1>1, <1>3, <2>1 DEF HasPredecessors
<1> QED
  BY <1>2, <1>3 DEF Ancestors

LEMMA AncestorsLeast ==
  ASSUME NEW d, NEW t, NEW m, NEW S \in SUBSET Memory, m \in S, HasPredecessors(d, t, S)
  PROVE  Ancestors(d, t, m) \subseteq S
BY DEF Ancestors

\* A row that replaces the memory's and supersedes another keeps descents free
\* of cycles, if the memory is not an ancestor of the one it supersedes.
LEMMA PutKeepsDescent ==
  ASSUME NEW d, NEW e, NEW i, RowsTyped(d), Descent(d), RowTyped(i),
         e.items = (d.items \ RowsAt(d, i.tenant, i.memory)) \cup {i},
         i.supersedes # None =>
           /\ \E j \in d.items : j.tenant = i.tenant /\ j.memory = i.supersedes
           /\ i.memory \notin Ancestors(d, i.tenant, i.supersedes)
  PROVE  Descent(e)
<1> DEFINE t == i.tenant  m == i.memory
<1>1. RowsTyped(e)
  BY DEF RowsTyped
<1>2. \A j \in d.items : \E k \in e.items : k.tenant = j.tenant /\ k.memory = j.memory
  BY DEF RowsAt
<1>3. SUFFICES ASSUME NEW j \in e.items, j.supersedes # None
               PROVE  j.memory \notin Ancestors(e, j.tenant, j.supersedes)
  <2>1. ASSUME NEW j \in e.items, j.supersedes # None
        PROVE  \E k \in d.items : k.tenant = j.tenant /\ k.memory = j.supersedes
    BY <2>1 DEF Descent
  <2>2. ASSUME NEW j \in e.items, j.supersedes # None
        PROVE  \E k \in e.items : k.tenant = j.tenant /\ k.memory = j.supersedes
    BY <1>2, <2>1, <2>2
  <2> QED
    BY <2>2 DEF Descent
<1> DEFINE p == j.supersedes  u == j.tenant  A == Ancestors(d, u, p)
<1>4. p \in Memory /\ j.memory \in Memory
  BY <1>1, <1>3 DEF RowsTyped, RowTyped
<1>5. HasPredecessors(d, u, A) /\ A \in SUBSET Memory /\ p \in A
  BY <1>4, OwnAncestor, AncestorsClosed
<1>6. j.memory \notin A
  BY <1>3 DEF Descent
<1>7. CASE u # t \/ m \notin A
  <2>1. HasPredecessors(e, u, A)
    BY <1>5, <1>7 DEF HasPredecessors
  <2> QED
    BY <1>5, <1>6, <2>1, AncestorsLeast
<1>8. CASE u = t /\ m \in A /\ i.supersedes = None
  <2>1. HasPredecessors(e, u, A)
    BY <1>5, <1>8 DEF HasPredecessors
  <2> QED
    BY <1>5, <1>6, <2>1, AncestorsLeast
<1>9. CASE u = t /\ m \in A /\ i.supersedes # None
  <2> DEFINE B == Ancestors(d, t, i.supersedes)
  <2>1. i.supersedes \in Memory
    BY <1>9 DEF RowTyped
  <2>2. HasPredecessors(d, t, B) /\ B \in SUBSET Memory /\ i.supersedes \in B /\ m \notin B
    BY <1>9, <2>1, OwnAncestor, AncestorsClosed
  <2>3. HasPredecessors(e, t, A \cup B)
    BY <1>5, <1>9, <2>2 DEF HasPredecessors
  <2>4. Ancestors(e, t, p) \subseteq A \cup B
    <3> HIDE DEF A, B
    <3> QED
      BY <1>5, <2>2, <2>3, AncestorsLeast
  <2>5. j # i
    BY <1>6, <1>9
  <2>6. j.memory \notin B
    <3> SUFFICES ASSUME j.memory \in B PROVE FALSE
      OBVIOUS
    <3>1. p \in B
      BY <1>3, <1>9, <2>2, <2>5 DEF HasPredecessors
    <3>2. A \subseteq B
      BY <1>9, <2>2, <3>1, AncestorsLeast
    <3> QED
      BY <1>9, <2>2, <3>2
  <2> QED
    BY <1>6, <1>9, <2>4, <2>6
<1> QED
  BY <1>7, <1>8, <1>9

\* A memory goes with the one it supersedes, so none is left without it.
LEMMA CascadeKeepsDescent ==
  ASSUME NEW d, NEW e, NEW t, NEW m, RowsTyped(d), OneRow(d), Descent(d),
         e.items = {i \in d.items :
                      ~(i.tenant = t /\ i.memory \in CascadeClosure(d, t, m))}
  PROVE  Descent(e)
<1>1. SUFFICES ASSUME NEW j \in e.items, j.supersedes # None
               PROVE  /\ \E k \in e.items : k.tenant = j.tenant /\ k.memory = j.supersedes
                      /\ j.memory \notin Ancestors(e, j.tenant, j.supersedes)
  BY DEF Descent
<1> DEFINE p == j.supersedes  u == j.tenant  A == Ancestors(d, u, p)
<1>2. j \in d.items /\ p \in Memory /\ j.memory \in Memory
  BY <1>1 DEF RowsTyped, RowTyped
<1>3. HasPredecessors(d, u, A) /\ A \in SUBSET Memory /\ p \in A /\ j.memory \notin A
  BY <1>1, <1>2, OwnAncestor, AncestorsClosed DEF Descent
<1>4. HasPredecessors(e, u, A)
  BY <1>3 DEF HasPredecessors
<1>5. PICK k \in d.items : k.tenant = u /\ k.memory = p
  BY <1>1, <1>2 DEF Descent
<1>6. k \in e.items
  <2> SUFFICES ASSUME u = t, p \in CascadeClosure(d, t, m) PROVE FALSE
    BY <1>5
  <2>1. m \in Ancestors(d, t, p)
    BY DEF CascadeClosure
  <2> DEFINE B == Ancestors(d, t, j.memory)
  <2>2. HasPredecessors(d, t, B) /\ B \in SUBSET Memory /\ j.memory \in B
    BY <1>2, OwnAncestor, AncestorsClosed
  <2>3. p \in B
    BY <1>1, <1>2, <2>2 DEF HasPredecessors
  <2>4. m \in B
    BY <2>1, <2>2, <2>3, AncestorsLeast
  <2>5. j.memory \in CascadeClosure(d, t, m)
    BY <1>2, <2>4 DEF CascadeClosure
  <2> QED
    BY <1>1, <2>5
<1>7. Ancestors(e, u, p) \subseteq A
  BY <1>3, <1>4, AncestorsLeast
<1> QED
  BY <1>3, <1>5, <1>6, <1>7

-----------------------------------------------------------------------------
(* What an upsert has passed when its row is written                       *)

LEMMA MinOfNats ==
  ASSUME NEW S \in SUBSET Nat, S # {}
  PROVE  Min(S) \in S
<1> DEFINE R == OpToRel(<, Nat)
<1>1. IsWellFoundedOn(R, Nat)
  BY NatLessThanWellFounded
<1>2. PICK b \in S : \A c \in S : ~(<<c, b>> \in R)
  <2> HIDE DEF R
  <2> QED
    BY <1>1, WFMin
<1>3. \A c \in S : b <= c
  <2> SUFFICES ASSUME NEW c \in S, c < b PROVE FALSE
    OBVIOUS
  <2>1. <<c, b>> \in R
    BY DEF OpToRel
  <2> QED
    BY <1>2, <2>1
<1> QED
  BY <1>3 DEF Min

LEMMA NoneBad ==
  ASSUME NEW refs, NEW n \in Nat, DOMAIN refs = 1..n,
         FirstBad(refs) \notin {"foreign", "unknown"}
  PROVE  \A k \in 1..n : refs[k] \notin {"foreign", "unknown"}
<1> DEFINE bad == {k \in DOMAIN refs : refs[k] \in {"foreign", "unknown"}}
<1>1. SUFFICES ASSUME bad # {} PROVE FALSE
  OBVIOUS
<1>2. Min(bad) \in bad
  <2>1. bad \in SUBSET Nat
    OBVIOUS
  <2> QED
    BY <1>1, <2>1, MinOfNats
<1>3. FirstBad(refs) = refs[Min(bad)]
  BY <1>1 DEF FirstBad
<1> QED
  BY <1>2, <1>3

\* An upsert that nothing refuses refers to its tenant's own rows, and its
\* memory is not an ancestor of the one it supersedes.
LEMMA ReferencesAreOwn ==
  ASSUME NEW d, NEW r, FirstBad(References(d, r)) \notin {"foreign", "unknown"},
         ~ConstraintFails(d, r)
  PROVE  /\ r.scopeId = None /\ MiddleAnchor(r) # None
              => <<r.tenant, MiddleAnchor(r)[1], MiddleAnchor(r)[2]>> \in Anchors
         /\ ~UserParentConflicts(d, r)
         /\ r.user # None => <<r.tenant, "user", r.user>> \in Anchors
         /\ r.scopeId # None => InScopes(d.scopes, r.tenant, r.scopeId)
         /\ r.supersedes # None =>
              /\ \E j \in d.items : j.tenant = r.tenant /\ j.memory = r.supersedes
              /\ r.memory \notin Ancestors(d, r.tenant, r.supersedes)
<1> DEFINE refs == References(d, r)
<1>1. DOMAIN refs = 1..6
  BY DEF References
<1>2. \A k \in 1..6 : refs[k] \notin {"foreign", "unknown"}
  <2> HIDE DEF refs
  <2>1. 6 \in Nat
    OBVIOUS
  <2> QED
    BY <1>1, <2>1, NoneBad DEF refs
<1>3. \A k \in 1..6 : refs[k] # "dangling"
  BY <1>1 DEF ConstraintFails
<1>4. \A t, a : AssertScopeAnchorExists(t, a) \notin {"foreign", "unknown"}
                => <<t, a[1], a[2]>> \in Anchors
  BY DEF AssertScopeAnchorExists
<1>5. r.scopeId = None /\ MiddleAnchor(r) # None
        => <<r.tenant, MiddleAnchor(r)[1], MiddleAnchor(r)[2]>> \in Anchors
  <2>1. refs[1] = IF r.scopeId = None /\ MiddleAnchor(r) # None
                  THEN AssertScopeAnchorExists(r.tenant, MiddleAnchor(r)) ELSE "own"
    BY DEF References
  <2> HIDE DEF refs
  <2> QED
    BY <1>2, <1>4, <2>1
<1>6. ~UserParentConflicts(d, r)
  <2>1. refs[2] = IF UserParentConflicts(d, r) THEN "unknown" ELSE "own"
    BY DEF References
  <2> HIDE DEF refs
  <2> QED
    BY <1>2, <2>1
<1>7. r.user # None => <<r.tenant, "user", r.user>> \in Anchors
  <2>1. refs[3] = IF r.user # None
                  THEN AssertScopeAnchorExists(r.tenant, <<"user", r.user>>) ELSE "own"
    BY DEF References
  <2>2. r.user # None => <<r.tenant, <<"user", r.user>>[1], <<"user", r.user>>[2]>> \in Anchors
    <3> HIDE DEF refs
    <3> QED
      BY <1>2, <1>4, <2>1
  <2> QED
    BY <2>2
<1>8. r.scopeId # None => InScopes(d.scopes, r.tenant, r.scopeId)
  <2>1. refs[4] = IF r.scopeId # None THEN ScopeStatus(d, r.tenant, r.scopeId) ELSE "own"
    BY DEF References
  <2>2. r.scopeId # None => ScopeStatus(d, r.tenant, r.scopeId) = "own"
    <3>1. ScopeStatus(d, r.tenant, r.scopeId) \in {"own", "foreign", "dangling"}
      BY DEF ScopeStatus
    <3> HIDE DEF refs
    <3> QED
      BY <1>2, <1>3, <2>1, <3>1
  <2>3. ScopeStatus(d, r.tenant, r.scopeId) = "own" => ScopesAt(d, r.tenant, r.scopeId) # {}
    BY DEF ScopeStatus
  <2> QED
    BY <2>2, <2>3 DEF ScopesAt, InScopes
<1>9. r.supersedes # None =>
        \E j \in d.items : j.tenant = r.tenant /\ j.memory = r.supersedes
  <2>1. refs[5] = IF r.supersedes # None
                  THEN MemoryStatus(d, r.tenant, r.supersedes) ELSE "own"
    BY DEF References
  <2>2. r.supersedes # None => MemoryStatus(d, r.tenant, r.supersedes) = "own"
    <3>1. MemoryStatus(d, r.tenant, r.supersedes) \in {"own", "foreign", "dangling"}
      BY DEF MemoryStatus
    <3> HIDE DEF refs
    <3> QED
      BY <1>2, <1>3, <2>1, <3>1
  <2>3. MemoryStatus(d, r.tenant, r.supersedes) = "own" => RowsAt(d, r.tenant, r.supersedes) # {}
    BY DEF MemoryStatus
  <2> QED
    BY <2>2, <2>3 DEF RowsAt
<1>10. r.supersedes # None => r.memory \notin Ancestors(d, r.tenant, r.supersedes)
  BY DEF ConstraintFails
<1> QED
  BY <1>5, <1>6, <1>7, <1>8, <1>9, <1>10

\* The times of a payload that is not refused are what the columns ask for.
LEMMA TimesOfPayload ==
  ASSUME NEW r \in Upserts, PayloadTimes(r.times) # None
  PROVE  /\ PayloadTimes(r.times) \in StoredTimes
         /\ PayloadTimes(r.times).created <= PayloadTimes(r.times).updated
         /\ (PayloadTimes(r.times).status = "tombstoned")
              <=> (PayloadTimes(r.times).tombstoned # None)
         /\ PayloadTimes(r.times).tombstoned # None =>
              /\ PayloadTimes(r.times).created <= PayloadTimes(r.times).tombstoned
              /\ PayloadTimes(r.times).tombstoned <= PayloadTimes(r.times).updated
         /\ PayloadTimes(r.times).expires # None =>
              PayloadTimes(r.times).created <= PayloadTimes(r.times).expires
<1> DEFINE p == r.times
           created == IF p.created # None THEN p.created
                      ELSE IF p.updated # None THEN p.updated ELSE 0
           updated == IF p.updated # None THEN p.updated ELSE created
           tombstoned == IF p.status = "tombstoned" /\ p.tombstoned = None
                         THEN updated ELSE p.tombstoned
           status == IF p.status # None THEN p.status
                     ELSE IF p.tombstoned # None THEN "tombstoned" ELSE "active"
<1>1. /\ {p.created, p.updated, p.expires, p.tombstoned} \subseteq {None} \cup Nat
      /\ p.status \in {None, "active", "superseded", "tombstoned"} /\ None \notin Nat
  BY RequestAssumption, StorageAssumption DEF MaybeTime
<1>2. created \in Nat /\ updated \in Nat
  BY <1>1
<1>3. /\ p.expires \in {None} \cup Nat /\ tombstoned \in {None} \cup Nat
      /\ status \in {"active", "superseded", "tombstoned"}
      /\ status = "tombstoned" => tombstoned # None
  BY <1>1, <1>2
<1>4. /\ ~(updated < created)
      /\ ~(tombstoned # None /\ ~(created <= tombstoned /\ tombstoned <= updated))
      /\ ~(status # "tombstoned" /\ tombstoned # None)
      /\ ~(p.expires # None /\ p.expires < created)
      /\ PayloadTimes(p) = [created |-> created, updated |-> updated, expires |-> p.expires,
                            status |-> status, tombstoned |-> tombstoned]
  BY DEF PayloadTimes
<1> HIDE DEF created, updated, tombstoned, status
<1> DEFINE q == PayloadTimes(p)
<1>5. /\ q.created = created /\ q.updated = updated /\ q.expires = p.expires
      /\ q.status = status /\ q.tombstoned = tombstoned
  BY <1>4
<1>6. q \in StoredTimes
  BY <1>2, <1>3, <1>4 DEF StoredTimes, MaybeTime
<1>7. p.expires # None => created <= p.expires
  BY <1>2, <1>3, <1>4
<1>8. created <= updated
  BY <1>2, <1>4
<1> HIDE DEF q, p
<1> QED
  BY <1>3, <1>4, <1>5, <1>6, <1>7, <1>8 DEF q, p

-----------------------------------------------------------------------------
(* Scopes                                                                  *)

LEMMA CommonScopeMade ==
  ASSUME NEW d, NEW t, ScopesGood(d.scopes)
  PROVE  /\ ScopesGood(ResolveCommonScope(d, t))
         /\ d.scopes \subseteq ResolveCommonScope(d, t)
         /\ InScopes(ResolveCommonScope(d, t), t, CommonId(t))
<1> DEFINE ss == ResolveCommonScope(d, t)  new == Scope(t, CommonId(t), None, None)
<1>1. CASE ScopesAt(d, t, CommonId(t)) # {}
  BY <1>1 DEF ResolveCommonScope, ScopesAt, InScopes
<1>2. CASE ScopesAt(d, t, CommonId(t)) = {}
  <2>1. ss = d.scopes \cup {new}
    BY <1>2 DEF ResolveCommonScope
  <2>2. new.tenant = t /\ new.id = CommonId(t) /\ new.anchor = None /\ new.parent = None
    BY DEF Scope
  <2>3. \A s \in d.scopes : ~(s.tenant = t /\ s.id = CommonId(t))
    BY <1>2 DEF ScopesAt
  <2> HIDE DEF ss, new
  <2>4. ScopesGood(ss)
    BY <2>1, <2>2, <2>3 DEF ScopesGood
  <2> QED
    BY <2>1, <2>2, <2>4 DEF ss, InScopes
<1> QED
  BY <1>1, <1>2

LEMMA AnchorScopeMade ==
  ASSUME NEW ss, NEW t, NEW k, NEW x, NEW parent, ScopesGood(ss),
         <<t, k, x>> \in Anchors, InScopes(ss, t, parent)
  PROVE  /\ ScopesGood(WithAnchorScope(ss, t, <<k, x>>, parent))
         /\ ss \subseteq WithAnchorScope(ss, t, <<k, x>>, parent)
         /\ InScopes(WithAnchorScope(ss, t, <<k, x>>, parent), t, AnchorScopeId(t, <<k, x>>))
<1> DEFINE a == <<k, x>>
           new == Scope(t, AnchorScopeId(t, a), a, parent)
           made == WithAnchorScope(ss, t, a, parent)
<1>1. a # None
  <2>1. <<<<t, k, x>>[2], <<t, k, x>>[3]>> # None
    BY StorageAssumption
  <2> QED
    BY <2>1
<1>2. CASE \E s \in ss : s.tenant = t /\ s.anchor = a
  <2>1. PICK s \in ss : s.tenant = t /\ s.anchor = a
    BY <1>2
  <2>2. s.id = AnchorScopeId(t, a)
    BY <1>1, <2>1 DEF ScopesGood
  <2> QED
    BY <1>2, <2>1, <2>2 DEF WithAnchorScope, InScopes
<1>3. CASE ~\E s \in ss : s.tenant = t /\ s.anchor = a
  <2>1. made = ss \cup {new}
    BY <1>3 DEF WithAnchorScope
  <2>2. new.tenant = t /\ new.id = AnchorScopeId(t, a) /\ new.anchor = a /\ new.parent = parent
    BY DEF Scope
  <2>3. ASSUME NEW s \in ss, s.tenant = t, s.id = AnchorScopeId(t, a) PROVE FALSE
    <3>1. s.id = <<k, t, x>>
      BY <2>3 DEF AnchorScopeId
    <3>2. CASE s.anchor = None
      <4>1. <<"common", t>> = <<k, t, x>>
        BY <2>3, <3>1, <3>2 DEF ScopesGood, CommonId
      <4>2. Len(<<"common", t>>) = 2 /\ Len(<<k, t, x>>) = 3
        OBVIOUS
      <4> QED
        BY <4>1, <4>2
    <3>3. CASE s.anchor # None
      <4>1. s.anchor = <<s.anchor[1], s.anchor[2]>>
        BY <3>3 DEF ScopesGood
      <4>2. s.id = <<s.anchor[1], t, s.anchor[2]>>
        BY <2>3, <3>3 DEF ScopesGood, AnchorScopeId
      <4>3. s.anchor[1] = k /\ s.anchor[2] = x
        BY <3>1, <4>2
      <4> QED
        BY <1>3, <2>3, <4>1, <4>3
    <3> QED
      BY <3>2, <3>3
  <2>4. a = <<a[1], a[2]>> /\ <<t, a[1], a[2]>> \in Anchors
    OBVIOUS
  <2> HIDE DEF made, new, a
  <2>5. ScopesGood(made)
    BY <1>1, <2>1, <2>2, <2>3, <2>4 DEF ScopesGood, InScopes
  <2> QED
    BY <2>1, <2>2, <2>5 DEF made, a, InScopes
<1> QED
  BY <1>2, <1>3

LEMMA ScopesResolved ==
  ASSUME NEW d, NEW r, ScopesGood(d.scopes),
         FirstBad(References(d, r)) \notin {"foreign", "unknown"}, ~ConstraintFails(d, r)
  PROVE  /\ ScopesGood(ResolveScopes(d, r)) /\ d.scopes \subseteq ResolveScopes(d, r)
         /\ InScopes(ResolveScopes(d, r), r.tenant, ResolvedScopeId(r))
<1>1. CASE r.scopeId # None
  BY <1>1, ReferencesAreOwn DEF ResolveScopes, ResolvedScopeId
<1>2. CASE r.scopeId = None
  <2> DEFINE common == ResolveCommonScope(d, r.tenant)
             middle == IF MiddleAnchor(r) = None THEN common
                       ELSE WithAnchorScope(common, r.tenant, MiddleAnchor(r),
                                            CommonId(r.tenant))
  <2>1. /\ ScopesGood(common) /\ d.scopes \subseteq common
        /\ InScopes(common, r.tenant, CommonId(r.tenant))
    BY CommonScopeMade
  <2>2. /\ ScopesGood(middle) /\ d.scopes \subseteq middle
        /\ InScopes(middle, r.tenant, MiddleId(r))
    <3>1. CASE MiddleAnchor(r) = None
      BY <2>1, <3>1 DEF MiddleId
    <3>2. CASE MiddleAnchor(r) # None
      <4>1. PICK k, x : MiddleAnchor(r) = <<k, x>>
        BY <3>2 DEF MiddleAnchor
      <4>2. <<r.tenant, k, x>> \in Anchors
        <5>1. <<r.tenant, MiddleAnchor(r)[1], MiddleAnchor(r)[2]>> \in Anchors
          BY <1>2, <3>2, ReferencesAreOwn
        <5> QED
          BY <4>1, <5>1
      <4>3. middle = WithAnchorScope(common, r.tenant, <<k, x>>, CommonId(r.tenant))
        BY <3>2, <4>1
      <4>4. MiddleId(r) = AnchorScopeId(r.tenant, <<k, x>>)
        BY <3>2, <4>1 DEF MiddleId
      <4> HIDE DEF common, middle
      <4> QED
        BY <2>1, <4>2, <4>3, <4>4, AnchorScopeMade
    <3> QED
      BY <3>1, <3>2
  <2>3. CASE r.user = None
    BY <1>2, <2>2, <2>3 DEF ResolveScopes, ResolvedScopeId
  <2>4. CASE r.user # None
    <3>1. <<r.tenant, "user", r.user>> \in Anchors
      BY <2>4, ReferencesAreOwn
    <3>2. ResolveScopes(d, r) =
            WithAnchorScope(middle, r.tenant, <<"user", r.user>>, MiddleId(r))
      BY <1>2, <2>4 DEF ResolveScopes
    <3>3. ResolvedScopeId(r) = AnchorScopeId(r.tenant, <<"user", r.user>>)
      BY <1>2, <2>4 DEF ResolvedScopeId
    <3> HIDE DEF middle
    <3> QED
      BY <2>2, <3>1, <3>2, <3>3, AnchorScopeMade
  <2> QED
    BY <2>3, <2>4
<1> QED
  BY <1>1, <1>2

-----------------------------------------------------------------------------
(* An upsert                                                               *)

LEMMA RowPut ==
  ASSUME NEW d, NEW i, IsDb(d)
  PROVE  LET e == PutRow(d, i)
             provs == IF i.prov = None THEN {} ELSE {i.prov}
             gone == {i.tenant} \X LinkedTo(d.evLinks, i.tenant, i.memory)
                       \X LinkedTo(d.provLinks, i.tenant, i.memory)
         IN /\ IsDb(e) /\ e.scopes = d.scopes
            /\ e.items = (d.items \ RowsAt(d, i.tenant, i.memory)) \cup {i}
            /\ e.evLinks = Unlinked(d.evLinks, i.tenant, i.memory)
                             \cup ({i.tenant} \X {i.memory} \X EvidenceOf(i))
            /\ e.provLinks = Unlinked(d.provLinks, i.tenant, i.memory)
                               \cup ({i.tenant} \X {i.memory} \X provs)
            /\ e.evProvLinks = (d.evProvLinks \ gone)
                                 \cup ({i.tenant} \X EvidenceOf(i) \X provs)
            /\ e.audit = d.audit /\ e.ledger = d.ledger /\ e.effects = d.effects
<1> DEFINE rows == (d.items \ RowsAt(d, i.tenant, i.memory)) \cup {i}
           b == [d EXCEPT !.items = rows]
<1>1. /\ IsDb(b) /\ b.items = rows /\ b.scopes = d.scopes /\ b.evLinks = d.evLinks
      /\ b.provLinks = d.provLinks /\ b.evProvLinks = d.evProvLinks
      /\ b.audit = d.audit /\ b.ledger = d.ledger /\ b.effects = d.effects
  <2> HIDE DEF rows
  <2> QED
    BY DEF IsDb
<1>2. PutRow(d, i) = Relink(b, i)
  BY DEF PutRow
<1> HIDE DEF b
<1> DEFINE provs == IF i.prov = None THEN {} ELSE {i.prov}
           gone == {i.tenant} \X LinkedTo(b.evLinks, i.tenant, i.memory)
                     \X LinkedTo(b.provLinks, i.tenant, i.memory)
           ev == Unlinked(b.evLinks, i.tenant, i.memory)
                   \cup ({i.tenant} \X {i.memory} \X EvidenceOf(i))
           pv == Unlinked(b.provLinks, i.tenant, i.memory)
                   \cup ({i.tenant} \X {i.memory} \X provs)
           ep == (b.evProvLinks \ gone) \cup ({i.tenant} \X EvidenceOf(i) \X provs)
<1>3. Relink(b, i) = [b EXCEPT !.evLinks = ev, !.provLinks = pv, !.evProvLinks = ep]
  BY DEF Relink
<1> DEFINE e == Relink(b, i)
<1>4. /\ IsDb(e) /\ e.items = b.items /\ e.scopes = b.scopes /\ e.evLinks = ev
      /\ e.provLinks = pv /\ e.evProvLinks = ep
      /\ e.audit = b.audit /\ e.ledger = b.ledger /\ e.effects = b.effects
  <2> HIDE DEF ev, pv, ep
  <2> QED
    BY <1>1, <1>3 DEF IsDb
<1> HIDE DEF e
<1> QED
  BY <1>1, <1>2, <1>4 DEF e

\* The links of a row that is put are those of its payload.
LEMMA PutIsLinked ==
  ASSUME NEW d, NEW e, NEW i, LinksMirror(d), LinksTyped(d), RowTyped(i),
         e.items = (d.items \ RowsAt(d, i.tenant, i.memory)) \cup {i},
         e.evLinks = Unlinked(d.evLinks, i.tenant, i.memory)
                       \cup ({i.tenant} \X {i.memory} \X EvidenceOf(i)),
         e.provLinks = Unlinked(d.provLinks, i.tenant, i.memory)
                \cup ({i.tenant} \X {i.memory} \X (IF i.prov = None THEN {} ELSE {i.prov}))
  PROVE  LinksMirror(e)
<1> DEFINE t == i.tenant  m == i.memory
           provs == IF i.prov = None THEN {} ELSE {i.prov}
           newEv == {t} \X {m} \X EvidenceOf(i)
           newProv == {t} \X {m} \X provs
<1>1. /\ \A l \in newEv : l[1] = t /\ l[2] = m /\ l[3] \in EvidenceOf(i)
      /\ \A x \in EvidenceOf(i) : <<t, m, x>> \in newEv /\ <<t, m, x>>[3] = x
      /\ \A l \in newProv : l[1] = t /\ l[2] = m /\ l[3] \in provs
      /\ \A x \in provs : <<t, m, x>> \in newProv /\ <<t, m, x>>[3] = x
  OBVIOUS
<1>2. e.evLinks = Unlinked(d.evLinks, t, m) \cup newEv
  OBVIOUS
<1>3. e.provLinks = Unlinked(d.provLinks, t, m) \cup newProv
  OBVIOUS
<1>4. LinkedTo(e.evLinks, t, m) = EvidenceOf(i)
  <2>1. \A l \in e.evLinks : l[1] = t /\ l[2] = m => l[3] \in EvidenceOf(i)
    <3> HIDE DEF newEv
    <3> QED
      BY <1>1, <1>2 DEF Unlinked
  <2>2. \A x \in EvidenceOf(i) : \E l \in e.evLinks : l[1] = t /\ l[2] = m /\ l[3] = x
    <3> HIDE DEF newEv
    <3> QED
      BY <1>1, <1>2
  <2> QED
    BY <2>1, <2>2 DEF LinkedTo
<1>5. LinkedTo(e.provLinks, t, m) = provs
  <2>1. \A l \in e.provLinks : l[1] = t /\ l[2] = m => l[3] \in provs
    <3> HIDE DEF newProv, provs
    <3> QED
      BY <1>1, <1>3 DEF Unlinked
  <2>2. \A x \in provs : \E l \in e.provLinks : l[1] = t /\ l[2] = m /\ l[3] = x
    <3> HIDE DEF newProv, provs
    <3> QED
      BY <1>1, <1>3
  <2> HIDE DEF provs
  <2> QED
    BY <2>1, <2>2 DEF LinkedTo
<1>6. RowLinked(e, i)
  BY <1>4, <1>5 DEF RowLinked
<1>7. ASSUME NEW j \in e.items, j # i PROVE RowLinked(e, j)
  <2>1. j \in d.items /\ ~(j.tenant = t /\ j.memory = m)
    BY <1>7 DEF RowsAt
  <2>2. LinkedTo(e.evLinks, j.tenant, j.memory) = LinkedTo(d.evLinks, j.tenant, j.memory)
    <3> HIDE DEF newEv
    <3> QED
      BY <1>1, <1>2, <2>1 DEF LinkedTo, Unlinked
  <2>3. LinkedTo(e.provLinks, j.tenant, j.memory) = LinkedTo(d.provLinks, j.tenant, j.memory)
    <3> HIDE DEF newProv
    <3> QED
      BY <1>1, <1>3, <2>1 DEF LinkedTo, Unlinked
  <2> QED
    BY <2>1, <2>2, <2>3 DEF LinksMirror, RowLinked
<1>8. ASSUME NEW l \in e.evLinks \cup e.provLinks
      PROVE  \E j \in e.items : j.tenant = l[1] /\ j.memory = l[2]
  <2>1. CASE l \in newEv \cup newProv
    BY <1>1, <2>1
  <2>2. CASE l \notin newEv \cup newProv
    <3>1. l \in d.evLinks \cup d.provLinks /\ ~(l[1] = t /\ l[2] = m)
      <4> HIDE DEF newEv, newProv
      <4> QED
        BY <1>2, <1>3, <2>2 DEF Unlinked
    <3>2. PICK j \in d.items : j.tenant = l[1] /\ j.memory = l[2]
      BY <3>1 DEF LinksMirror
    <3> QED
      BY <3>1, <3>2 DEF RowsAt
  <2> QED
    BY <2>1, <2>2
<1> QED
  BY <1>6, <1>7, <1>8 DEF LinksMirror

LEMMA RowFound ==
  ASSUME NEW d, NEW i \in d.items, OneRow(d)
  PROVE  RowsAt(d, i.tenant, i.memory) = {i} /\ RowAt(d, i.tenant, i.memory) = i
<1>1. RowsAt(d, i.tenant, i.memory) = {i}
  BY DEF RowsAt, OneRow
<1> QED
  BY <1>1 DEF RowAt

\* The row of an upsert that is newer than what it replaces, if anything, has
\* times as the columns ask for, though its created time is the old row's.
LEMMA NewRowIsGood ==
  ASSUME NEW d, NEW r \in Upserts, RowsTyped(d), OneRow(d), Timed(d),
         PayloadTimes(r.times) # None, ~ConstraintFails(d, r),
         Reason(d, r) \in {"inserted", "updated"}
  PROVE  LET i == NewRow(d, r)
         IN /\ RowTyped(i) /\ RowTimed(i)
            /\ i.tenant = r.tenant /\ i.memory = r.memory
            /\ i.scope = ResolvedScopeId(r) /\ i.supersedes = r.supersedes
            /\ i.times.updated = PayloadTimes(r.times).updated
<1> DEFINE q == PayloadTimes(r.times)
           old == RowsAt(d, r.tenant, r.memory)
           created == IF old = {} THEN q.created
                      ELSE RowAt(d, r.tenant, r.memory).times.created
           times == [q EXCEPT !.created = created]
           i == NewRow(d, r)
<1>1. /\ i.tenant = r.tenant /\ i.memory = r.memory /\ i.scope = ResolvedScopeId(r)
      /\ i.supersedes = r.supersedes /\ i.evidence = r.evidence
      /\ i.times = [q EXCEPT !.created = IF old = {} THEN @
                                         ELSE RowAt(d, r.tenant, r.memory).times.created]
  BY DEF NewRow
<1>2. i.times = times
  BY <1>1
<1>3. /\ q \in StoredTimes /\ q.created <= q.updated
      /\ (q.status = "tombstoned") <=> (q.tombstoned # None)
      /\ q.tombstoned # None => q.created <= q.tombstoned /\ q.tombstoned <= q.updated
      /\ q.expires # None => q.created <= q.expires
  BY TimesOfPayload
<1>4. /\ created \in Nat /\ created <= q.updated
      /\ q.expires # None => created <= q.expires
      /\ q.tombstoned # None => created <= q.tombstoned
  <2>1. CASE old = {}
    <3> HIDE DEF q, old
    <3> QED
      BY <1>3, <2>1 DEF StoredTimes
  <2>2. CASE old # {}
    <3>1. PICK o \in old : q.updated > o.times.updated
      BY <2>2 DEF Reason
    <3>2. o \in d.items /\ o.tenant = r.tenant /\ o.memory = r.memory
      BY DEF RowsAt
    <3>3. old = {o} /\ RowAt(d, r.tenant, r.memory) = o
      BY <3>2, RowFound
    <3>4. created = o.times.created
      BY <2>2, <3>3
    <3>5. o.times \in StoredTimes /\ o.times.created <= o.times.updated
      BY <3>2 DEF RowsTyped, RowTyped, Timed, RowTimed
    <3>6. /\ ~(q.expires # None /\ q.expires < created)
          /\ ~(q.tombstoned # None /\ q.tombstoned < created)
      <4>1. \A j \in old : q.updated > j.times.updated
        BY <3>1, <3>3
      <4> QED
        BY <4>1 DEF ConstraintFails
    <3>7. /\ q.updated \in Nat /\ o.times.created \in Nat /\ o.times.updated \in Nat
          /\ q.expires # None => q.expires \in Nat
          /\ q.tombstoned # None => q.tombstoned \in Nat
      BY <1>3, <3>5 DEF StoredTimes, MaybeTime
    <3> HIDE DEF q, old, created
    <3> QED
      BY <3>1, <3>4, <3>5, <3>6, <3>7
  <2> QED
    BY <2>1, <2>2
<1> HIDE DEF created, q
<1>5. /\ times \in StoredTimes /\ times.created = created /\ times.updated = q.updated
      /\ times.expires = q.expires /\ times.status = q.status
      /\ times.tombstoned = q.tombstoned
  BY <1>3, <1>4 DEF StoredTimes
<1>6. RowTimed(i)
  <2> HIDE DEF times, i
  <2> QED
    BY <1>2, <1>3, <1>4, <1>5 DEF RowTimed
<1>7. RowTyped(i)
  <2> HIDE DEF times, i
  <2> QED
    BY <1>1, <1>2, <1>5, RequestAssumption DEF RowTyped
<1>8. i.times.updated = q.updated
  BY <1>2, <1>5
<1> QED
  BY <1>1, <1>6, <1>7, <1>8 DEF q

LEMMA UpsertedIsGood ==
  ASSUME NEW d, NEW r \in Upserts, Good(d), PayloadTimes(r.times) # None,
         FirstBad(References(d, r)) \notin {"foreign", "unknown"}, ~ConstraintFails(d, r),
         r.key = None \/ LedgerRow(d, r.tenant, "upsert", r.key) = {}
  PROVE  Good(Upserted(d, r))
<1> DEFINE ss == ResolveScopes(d, r)
           placed == [d EXCEPT !.scopes = ss]
           i == NewRow(d, r)
           written == IF Reason(d, r) \in {"inserted", "updated"}
                      THEN PutRow(placed, i) ELSE placed
           at == RowAt(written, r.tenant, r.memory).times.updated
           event == Event(r, "upsert", Reason(d, r), <<r.layer, r.body, at>>, at)
           logged == PersistIdempotency(d, r, "upsert", UpsertHash(r))
           effects == IF r.key = None \/ written.items = d.items THEN written.effects
                      ELSE written.effects \cup
                             {<<r.tenant, "upsert", r.key, Cardinality(written.effects)>>}
           u == Upserted(d, r)
<1>1. u = [written EXCEPT !.audit = @ \cup {event}, !.ledger = logged,
                          !.effects = IF r.key = None \/ written.items = d.items THEN @
                   ELSE @ \cup {<<r.tenant, "upsert", r.key, Cardinality(@)>>}]
  BY DEF Upserted
<1>2. u = [written EXCEPT !.audit = @ \cup {event}, !.ledger = logged, !.effects = effects]
  <2> HIDE DEF written, event, logged
  <2> QED
    BY <1>1
<1>3. ScopesGood(ss) /\ d.scopes \subseteq ss /\ InScopes(ss, r.tenant, ResolvedScopeId(r))
  BY ScopesResolved DEF Good
<1>4. /\ IsDb(placed) /\ placed.items = d.items /\ placed.scopes = ss
      /\ placed.evLinks = d.evLinks /\ placed.provLinks = d.provLinks
      /\ placed.evProvLinks = d.evProvLinks /\ placed.audit = d.audit
      /\ placed.ledger = d.ledger /\ placed.effects = d.effects
  <2> HIDE DEF ss
  <2> QED
    BY DEF Good, IsDb
<1> HIDE DEF ss, placed
<1>5. /\ IsDb(written) /\ written.scopes = ss /\ written.audit = d.audit
      /\ written.ledger = d.ledger /\ written.effects = d.effects
  <2> HIDE DEF i
  <2> QED
    BY <1>4, RowPut
<1>6. /\ RowsTyped(written) /\ LinksTyped(written) /\ OneRow(written) /\ RowsPlaced(written)
      /\ Descent(written) /\ LinksMirror(written) /\ Timed(written)
      /\ \A j \in written.items :
           \/ j \in d.items
           \/ /\ j.tenant = r.tenant /\ j.memory = r.memory /\ j.times.updated = at
              /\ Reason(d, r) \in {"inserted", "updated"}
  <2>1. CASE Reason(d, r) \notin {"inserted", "updated"}
    <3>1. /\ written.items = d.items /\ written.evLinks = d.evLinks
          /\ written.provLinks = d.provLinks /\ written.evProvLinks = d.evProvLinks
      BY <1>4, <2>1
    <3>2. RowsTyped(written) /\ OneRow(written) /\ Timed(written) /\ LinksTyped(written)
      BY <3>1 DEF Good, RowsTyped, OneRow, Timed, LinksTyped
    <3>3. RowsPlaced(written)
      BY <1>3, <1>5, <3>1 DEF Good, RowsPlaced, InScopes
    <3>4. Descent(written)
      BY <3>1 DEF Good, Descent, Ancestors, HasPredecessors
    <3>5. LinksMirror(written)
      BY <3>1 DEF Good, LinksMirror, RowLinked
    <3> QED
      BY <3>1, <3>2, <3>3, <3>4, <3>5
  <2>2. CASE Reason(d, r) \in {"inserted", "updated"}
    <3>1. /\ RowTyped(i) /\ RowTimed(i) /\ i.tenant = r.tenant /\ i.memory = r.memory
          /\ i.scope = ResolvedScopeId(r) /\ i.supersedes = r.supersedes
          /\ i.times.updated = PayloadTimes(r.times).updated
      BY <2>2, NewRowIsGood DEF Good
    <3>2. RowsAt(placed, i.tenant, i.memory) = RowsAt(d, i.tenant, i.memory)
      BY <1>4 DEF RowsAt
    <3> DEFINE provs == IF i.prov = None THEN {} ELSE {i.prov}
               gone == {i.tenant} \X LinkedTo(d.evLinks, i.tenant, i.memory)
                         \X LinkedTo(d.provLinks, i.tenant, i.memory)
    <3>3. /\ written.items = (d.items \ RowsAt(d, i.tenant, i.memory)) \cup {i}
          /\ written.evLinks = Unlinked(d.evLinks, i.tenant, i.memory)
                                 \cup ({i.tenant} \X {i.memory} \X EvidenceOf(i))
          /\ written.provLinks = Unlinked(d.provLinks, i.tenant, i.memory)
                                   \cup ({i.tenant} \X {i.memory} \X provs)
          /\ written.evProvLinks = (d.evProvLinks \ gone)
                                     \cup ({i.tenant} \X EvidenceOf(i) \X provs)
      <4> HIDE DEF i
      <4> QED
        BY <1>4, <2>2, <3>2, RowPut
    <3> HIDE DEF i, written
    <3>4. RowsTyped(written) /\ Timed(written) /\ OneRow(written)
      BY <3>1, <3>3 DEF Good, RowsTyped, Timed, OneRow, RowsAt
    <3>5. RowsPlaced(written)
      BY <1>3, <1>5, <3>1, <3>3 DEF Good, RowsPlaced, InScopes
    <3>6. Descent(written)
      <4>1. r.supersedes # None =>
              /\ \E j \in d.items : j.tenant = r.tenant /\ j.memory = r.supersedes
              /\ r.memory \notin Ancestors(d, r.tenant, r.supersedes)
        BY ReferencesAreOwn
      <4> QED
        BY <3>1, <3>3, <4>1, PutKeepsDescent DEF Good
    <3>7. LinksMirror(written)
      BY <3>1, <3>3, PutIsLinked DEF Good
    <3>8. LinksTyped(written)
      <4>1. {i.tenant} \X {i.memory} \X EvidenceOf(i) \subseteq Tenant \X Memory \X Evidence
        BY <3>1 DEF RowTyped, EvidenceOf
      <4>2. \A l \in {i.tenant} \X {i.memory} \X provs :
              l = <<l[1], l[2], l[3]>> /\ l[1] \in Tenant
        <5> HIDE DEF provs
        <5> QED
          BY <3>1 DEF RowTyped
      <4>3. \A l \in {i.tenant} \X EvidenceOf(i) \X provs : l[1] \in Tenant
        <5> HIDE DEF provs
        <5> QED
          BY <3>1 DEF RowTyped
      <4> HIDE DEF provs, gone
      <4> QED
        BY <3>3, <4>1, <4>2, <4>3 DEF Good, LinksTyped, Unlinked
    <3>9. at = i.times.updated
      <4>1. i \in written.items
        BY <3>3
      <4>2. RowAt(written, i.tenant, i.memory) = i
        BY <3>4, <4>1, RowFound
      <4> QED
        BY <3>1, <4>2
    <3> HIDE DEF at
    <3> QED
      BY <2>2, <3>1, <3>3, <3>4, <3>5, <3>6, <3>7, <3>8, <3>9
  <2> QED
    BY <2>1, <2>2
<1> HIDE DEF i, written, at
<1>7. /\ event.tenant = r.tenant /\ event.memory = r.memory /\ event.reason = Reason(d, r)
      /\ event.at = at
  BY DEF Event
<1> HIDE DEF event
<1>8. /\ IsDb(u) /\ u.scopes = written.scopes /\ u.items = written.items
      /\ u.evLinks = written.evLinks /\ u.provLinks = written.provLinks
      /\ u.evProvLinks = written.evProvLinks /\ u.audit = written.audit \cup {event}
      /\ u.ledger = logged /\ u.effects = effects
  <2> HIDE DEF logged, effects, u
  <2> QED
    BY <1>2, <1>5 DEF IsDb
<1>9. Audited(u)
  <2> SUFFICES ASSUME NEW j \in written.items PROVE Announced(u, j)
    BY <1>8 DEF Audited
  <2>1. CASE j \in d.items
    BY <1>5, <1>8, <2>1 DEF Good, Audited, Announced
  <2>2. CASE j \notin d.items
    BY <1>6, <1>7, <1>8, <2>2 DEF Announced
  <2> QED
    BY <2>1, <2>2
<1>10. Keyed(u)
  <2> DEFINE x0 == <<r.tenant, "upsert", r.key, Cardinality(written.effects)>>
  <2>1. d.ledger \subseteq logged
    BY DEF PersistIdempotency
  <2>2. CASE r.key = None \/ written.items = d.items
    <3>1. effects = d.effects
      BY <1>5, <2>2
    <3> HIDE DEF logged, effects
    <3> QED
      BY <1>8, <2>1, <3>1 DEF Good, Keyed, LedgerRow
  <2>3. CASE ~(r.key = None \/ written.items = d.items)
    <3>1. effects = d.effects \cup {x0}
      BY <1>5, <2>3
    <3>2. x0[1] = r.tenant /\ x0[2] = "upsert" /\ x0[3] = r.key
      OBVIOUS
    <3>3. logged = d.ledger \cup {[tenant |-> r.tenant, operation |-> "upsert",
                                   key |-> r.key, hash |-> UpsertHash(r)]}
      BY <2>3 DEF PersistIdempotency
    <3> DEFINE row == [tenant |-> r.tenant, operation |-> "upsert",
                       key |-> r.key, hash |-> UpsertHash(r)]
    <3>4. row.tenant = r.tenant /\ row.operation = "upsert" /\ row.key = r.key
      OBVIOUS
    <3>5. LedgerRow(d, r.tenant, "upsert", r.key) = {}
      BY <2>3
    <3> HIDE DEF logged, effects, x0, row
    <3>6. \A x \in d.effects : ~(x[1] = r.tenant /\ x[2] = "upsert" /\ x[3] = r.key)
      BY <3>5 DEF Good, Keyed
    <3>7. \A x \in u.effects : LedgerRow(u, x[1], x[2], x[3]) # {}
      <4>1. ASSUME NEW x \in d.effects PROVE LedgerRow(u, x[1], x[2], x[3]) # {}
        BY <1>8, <2>1 DEF Good, Keyed, LedgerRow
      <4>2. row \in LedgerRow(u, r.tenant, "upsert", r.key)
        BY <1>8, <3>3, <3>4 DEF LedgerRow, row
      <4> QED
        BY <1>8, <3>1, <3>2, <4>1, <4>2
    <3> QED
      BY <1>8, <3>1, <3>2, <3>6, <3>7 DEF Good, Keyed
  <2> QED
    BY <2>2, <2>3
<1> HIDE DEF u, logged, effects
<1>11. RowsTyped(u) /\ LinksTyped(u) /\ OneRow(u) /\ Timed(u)
  BY <1>6, <1>8 DEF RowsTyped, LinksTyped, OneRow, Timed
<1>12. ScopesGood(u.scopes) /\ RowsPlaced(u)
  BY <1>3, <1>5, <1>6, <1>8 DEF RowsPlaced
<1>13. Descent(u) /\ LinksMirror(u)
  BY <1>6, <1>8 DEF Descent, Ancestors, HasPredecessors, LinksMirror, RowLinked
<1> QED
  BY <1>8, <1>9, <1>10, <1>11, <1>12, <1>13 DEF Good, u

-----------------------------------------------------------------------------
(* Failures, deletes and backfills                                         *)

LEMMA FailureIsGood ==
  ASSUME NEW d, NEW r, NEW op, NEW reason, NEW details, Good(d)
  PROVE  Good(PersistFailure(d, r, op, reason, details))
<1> DEFINE events == {Event(r, op, reason, details,
                            Cardinality(FailureEvents(d, r, op, reason, details)))}
           e == PersistFailure(d, r, op, reason, details)
<1>1. e = [d EXCEPT !.audit = @ \cup events]
  BY DEF PersistFailure
<1> HIDE DEF events, e
<1>2. /\ IsDb(e) /\ e.scopes = d.scopes /\ e.items = d.items /\ e.evLinks = d.evLinks
      /\ e.provLinks = d.provLinks /\ e.evProvLinks = d.evProvLinks
      /\ e.ledger = d.ledger /\ e.effects = d.effects /\ d.audit \subseteq e.audit
  BY <1>1 DEF Good, IsDb
<1>3. RowsTyped(e) /\ LinksTyped(e) /\ OneRow(e) /\ Timed(e) /\ LinksMirror(e)
  BY <1>2 DEF Good, RowsTyped, LinksTyped, OneRow, Timed, LinksMirror, RowLinked
<1>4. ScopesGood(e.scopes) /\ RowsPlaced(e) /\ Descent(e)
  BY <1>2 DEF Good, RowsPlaced, Descent, Ancestors, HasPredecessors
<1>5. Audited(e) /\ Keyed(e)
  BY <1>2 DEF Good, Audited, Announced, Keyed, LedgerRow
<1> QED
  BY <1>2, <1>3, <1>4, <1>5 DEF Good, e

LEMMA DeletedIsGood ==
  ASSUME NEW d, NEW r, Good(d), r.key = None \/ LedgerRow(d, r.tenant, "delete", r.key) = {}
  PROVE  Good(Deleted(d, r))
<1> DEFINE t == r.tenant
           ms == CascadeClosure(d, t, r.memory)
           left == RemoveRows(d, t, ms)
           event == Event(r, "delete", "deleted", None,
                          RowAt(d, r.tenant, r.memory).times.updated)
           logged == PersistIdempotency(d, r, "delete", DeleteHash(r))
           x0 == <<r.tenant, "delete", r.key, Cardinality(left.effects)>>
           effects == IF r.key = None THEN left.effects ELSE left.effects \cup {x0}
           e == Deleted(d, r)
<1>1. e = [left EXCEPT !.audit = @ \cup {event}, !.ledger = logged, !.effects = effects]
  <2>1. e = [left EXCEPT !.audit = @ \cup {event}, !.ledger = logged,
               !.effects = IF r.key = None THEN @
                           ELSE @ \cup {<<r.tenant, "delete", r.key, Cardinality(@)>>}]
    BY DEF Deleted
  <2> HIDE DEF left, event, logged, e
  <2> QED
    BY <2>1
<1>2. /\ IsDb(left) /\ left.scopes = d.scopes /\ left.evProvLinks = d.evProvLinks
      /\ left.items = {i \in d.items : ~(i.tenant = t /\ i.memory \in ms)}
      /\ left.evLinks = {l \in d.evLinks : ~(l[1] = t /\ l[2] \in ms)}
      /\ left.provLinks = {l \in d.provLinks : ~(l[1] = t /\ l[2] \in ms)}
      /\ left.ledger = d.ledger /\ left.audit = d.audit /\ left.effects = d.effects
  <2> DEFINE remain == {i \in d.items : ~(i.tenant = t /\ i.memory \in ms)}
             evs == {l \in d.evLinks : ~(l[1] = t /\ l[2] \in ms)}
             provs == {l \in d.provLinks : ~(l[1] = t /\ l[2] \in ms)}
  <2>1. left = [d EXCEPT !.items = remain, !.evLinks = evs, !.provLinks = provs]
    BY DEF RemoveRows
  <2> HIDE DEF remain, evs, provs, left
  <2>2. /\ IsDb(left) /\ left.scopes = d.scopes /\ left.evProvLinks = d.evProvLinks
        /\ left.items = remain /\ left.evLinks = evs /\ left.provLinks = provs
        /\ left.ledger = d.ledger /\ left.audit = d.audit /\ left.effects = d.effects
    BY <2>1 DEF Good, IsDb
  <2> QED
    BY <2>2 DEF remain, evs, provs
<1> HIDE DEF left
<1>3. /\ IsDb(e) /\ e.scopes = d.scopes /\ e.evProvLinks = d.evProvLinks
      /\ e.items = left.items /\ e.evLinks = left.evLinks /\ e.provLinks = left.provLinks
      /\ e.ledger = logged /\ e.effects = effects /\ d.audit \subseteq e.audit
  <2> HIDE DEF event, logged, effects, e
  <2> QED
    BY <1>1, <1>2 DEF IsDb
<1>4. Keyed(e)
  <2>1. d.ledger \subseteq logged
    BY DEF PersistIdempotency
  <2>2. CASE r.key = None
    <3>1. effects = d.effects
      BY <1>2, <2>2
    <3> HIDE DEF logged, effects, e
    <3> QED
      BY <1>3, <2>1, <3>1 DEF Good, Keyed, LedgerRow
  <2>3. CASE r.key # None
    <3> DEFINE row == [tenant |-> r.tenant, operation |-> "delete",
                       key |-> r.key, hash |-> DeleteHash(r)]
    <3>1. effects = d.effects \cup {x0}
      BY <1>2, <2>3
    <3>2. x0[1] = r.tenant /\ x0[2] = "delete" /\ x0[3] = r.key
      OBVIOUS
    <3>3. logged = d.ledger \cup {row}
      BY <2>3 DEF PersistIdempotency
    <3>4. row.tenant = r.tenant /\ row.operation = "delete" /\ row.key = r.key
      OBVIOUS
    <3> HIDE DEF logged, effects, x0, row, e
    <3>5. \A x \in d.effects : ~(x[1] = r.tenant /\ x[2] = "delete" /\ x[3] = r.key)
      BY <2>3 DEF Good, Keyed
    <3>6. ASSUME NEW x \in d.effects PROVE LedgerRow(e, x[1], x[2], x[3]) # {}
      BY <1>3, <2>1 DEF Good, Keyed, LedgerRow
    <3>7. row \in LedgerRow(e, r.tenant, "delete", r.key)
      BY <1>3, <3>3, <3>4 DEF LedgerRow
    <3> QED
      BY <1>3, <3>1, <3>2, <3>5, <3>6, <3>7 DEF Good, Keyed
  <2> QED
    BY <2>2, <2>3
<1>5. Descent(e)
  <2> HIDE DEF e
  <2> QED
    BY <1>2, <1>3, CascadeKeepsDescent DEF Good
<1> HIDE DEF e, ms, logged, effects
<1>6. RowsTyped(e) /\ LinksTyped(e) /\ OneRow(e) /\ Timed(e)
  BY <1>2, <1>3 DEF Good, RowsTyped, LinksTyped, OneRow, Timed
<1>7. ScopesGood(e.scopes) /\ RowsPlaced(e) /\ Audited(e)
  BY <1>2, <1>3 DEF Good, RowsPlaced, Audited, Announced
<1>8. LinksMirror(e)
  <2>1. ASSUME NEW i \in e.items PROVE RowLinked(e, i)
    <3>1. i \in d.items /\ ~(i.tenant = t /\ i.memory \in ms)
      BY <1>2, <1>3
    <3>2. /\ LinkedTo(e.evLinks, i.tenant, i.memory) = LinkedTo(d.evLinks, i.tenant, i.memory)
          /\ LinkedTo(e.provLinks, i.tenant, i.memory)
               = LinkedTo(d.provLinks, i.tenant, i.memory)
      BY <1>2, <1>3, <3>1 DEF LinkedTo
    <3> QED
      BY <3>1, <3>2 DEF Good, LinksMirror, RowLinked
  <2>2. ASSUME NEW l \in e.evLinks \cup e.provLinks
        PROVE  \E i \in e.items : i.tenant = l[1] /\ i.memory = l[2]
    <3>1. l \in d.evLinks \cup d.provLinks /\ ~(l[1] = t /\ l[2] \in ms)
      BY <1>2, <1>3
    <3>2. PICK i \in d.items : i.tenant = l[1] /\ i.memory = l[2]
      BY <3>1 DEF Good, LinksMirror
    <3> QED
      BY <1>2, <1>3, <3>1, <3>2
  <2> QED
    BY <2>1, <2>2 DEF LinksMirror
<1> QED
  BY <1>3, <1>4, <1>5, <1>6, <1>7, <1>8 DEF Good, e

\* After a backfill the envelope of every row, and nothing else, is linked to it,
\* and to all of its evidence.
LEMMA BackfillLinks ==
  ASSUME NEW d, Good(d)
  PROVE  LET e == BackfillProvenance(d)
         IN /\ IsDb(e) /\ e.scopes = d.scopes /\ e.items = d.items
            /\ e.evLinks = d.evLinks /\ e.ledger = d.ledger /\ e.effects = d.effects
            /\ d.audit \subseteq e.audit
            /\ e.provLinks = d.provLinks
                 \cup {<<i.tenant, i.memory, BackfillEnvelope(i)>> : i \in d.items}
            /\ \A l \in e.evProvLinks : l[1] \in Tenant
            /\ \A i \in d.items : \A x \in LinkedTo(d.evLinks, i.tenant, i.memory) :
                 <<i.tenant, x, BackfillEnvelope(i)>> \in e.evProvLinks
            /\ \A i \in d.items :
                 LinkedTo(e.provLinks, i.tenant, i.memory) = {BackfillEnvelope(i)}
<1> DEFINE e == BackfillProvenance(d)
           pv == {<<i.tenant, i.memory, BackfillEnvelope(i)>> : i \in d.items}
           ep == UNION {{<<i.tenant, x, BackfillEnvelope(i)>> :
                          x \in LinkedTo(d.evLinks, i.tenant, i.memory)} : i \in d.items}
           ev == {[tenant |-> i.tenant, memory |-> i.memory,
                   operation |-> "upsert", reason |-> "updated", at |-> i.times.updated,
                   details |-> <<"backfill", IF i.prov # None THEN "normalized_envelope"
                                 ELSE "defaulted_envelope">>] : i \in d.items}
<1>1. e = [d EXCEPT !.provLinks = @ \cup pv, !.evProvLinks = @ \cup ep, !.audit = @ \cup ev]
  BY DEF BackfillProvenance
<1>2. \A l \in ep : \E i \in d.items : l[1] = i.tenant
  OBVIOUS
<1>3. \A i \in d.items : \A x \in LinkedTo(d.evLinks, i.tenant, i.memory) :
        <<i.tenant, x, BackfillEnvelope(i)>> \in ep
  OBVIOUS
<1>4. /\ IsDb(e) /\ e.scopes = d.scopes /\ e.items = d.items
      /\ e.evLinks = d.evLinks /\ e.ledger = d.ledger /\ e.effects = d.effects
      /\ d.audit \subseteq e.audit /\ e.provLinks = d.provLinks \cup pv
      /\ e.evProvLinks = d.evProvLinks \cup ep
  <2> HIDE DEF pv, ep, ev, e
  <2> QED
    BY <1>1 DEF Good, IsDb
<1>5. \A l \in e.evProvLinks : l[1] \in Tenant
  <2> HIDE DEF ep, e
  <2> QED
    BY <1>2, <1>4 DEF Good, LinksTyped, RowsTyped, RowTyped
<1>6. ASSUME NEW i \in d.items
      PROVE  LinkedTo(e.provLinks, i.tenant, i.memory) = {BackfillEnvelope(i)}
  <2>1. \A x \in LinkedTo(d.provLinks, i.tenant, i.memory) : x = BackfillEnvelope(i)
    BY DEF Good, LinksMirror, RowLinked, BackfillEnvelope
  <2>2. \A l \in pv : l[1] = i.tenant /\ l[2] = i.memory => l[3] = BackfillEnvelope(i)
    <3> SUFFICES ASSUME NEW j \in d.items, j.tenant = i.tenant, j.memory = i.memory
                 PROVE  BackfillEnvelope(j) = BackfillEnvelope(i)
      OBVIOUS
    <3> QED
      BY DEF Good, OneRow
  <2>3. \E l \in pv : l[1] = i.tenant /\ l[2] = i.memory /\ l[3] = BackfillEnvelope(i)
    <3> WITNESS <<i.tenant, i.memory, BackfillEnvelope(i)>> \in pv
    <3> QED
      OBVIOUS
  <2> HIDE DEF pv, e
  <2> QED
    BY <1>4, <2>1, <2>2, <2>3 DEF LinkedTo
<1> HIDE DEF e, ep
<1> QED
  BY <1>3, <1>4, <1>5, <1>6 DEF e

LEMMA BackfilledIsGood ==
  ASSUME NEW d, Good(d)
  PROVE  Good(BackfillProvenance(d))
<1> DEFINE e == BackfillProvenance(d)
           pv == {<<i.tenant, i.memory, BackfillEnvelope(i)>> : i \in d.items}
<1>1. /\ IsDb(e) /\ e.scopes = d.scopes /\ e.items = d.items
      /\ e.evLinks = d.evLinks /\ e.ledger = d.ledger /\ e.effects = d.effects
      /\ d.audit \subseteq e.audit /\ e.provLinks = d.provLinks \cup pv
      /\ \A l \in e.evProvLinks : l[1] \in Tenant
      /\ \A i \in d.items :
           LinkedTo(e.provLinks, i.tenant, i.memory) = {BackfillEnvelope(i)}
  BY BackfillLinks
<1>2. \A l \in pv : /\ l = <<l[1], l[2], l[3]>>
                    /\ \E i \in d.items : l[1] = i.tenant /\ l[2] = i.memory
  OBVIOUS
<1> HIDE DEF e, pv
<1>3. RowsTyped(e) /\ LinksTyped(e) /\ OneRow(e) /\ Timed(e)
  BY <1>1, <1>2 DEF Good, RowsTyped, RowTyped, LinksTyped, OneRow, Timed
<1>4. ScopesGood(e.scopes) /\ RowsPlaced(e) /\ Descent(e)
  BY <1>1 DEF Good, RowsPlaced, Descent, Ancestors, HasPredecessors
<1>5. Audited(e) /\ Keyed(e)
  BY <1>1 DEF Good, Audited, Announced, Keyed, LedgerRow
<1>6. LinksMirror(e)
  <2>1. ASSUME NEW i \in e.items PROVE RowLinked(e, i)
    <3>1. LinkedTo(e.evLinks, i.tenant, i.memory) = EvidenceOf(i)
      BY <1>1 DEF Good, LinksMirror, RowLinked
    <3>2. LinkedTo(e.provLinks, i.tenant, i.memory) = {BackfillEnvelope(i)}
      BY <1>1
    <3> QED
      BY <3>1, <3>2 DEF RowLinked, BackfillEnvelope
  <2>2. ASSUME NEW l \in e.evLinks \cup e.provLinks
        PROVE  \E i \in e.items : i.tenant = l[1] /\ i.memory = l[2]
    BY <1>1, <1>2 DEF Good, LinksMirror
  <2> QED
    BY <2>1, <2>2 DEF LinksMirror
<1> QED
  BY <1>1, <1>3, <1>4, <1>5, <1>6 DEF Good, e

-----------------------------------------------------------------------------
(* Every step                                                              *)

LEMMA UpsertIsGood ==
  ASSUME NEW d, NEW r \in Upserts, Good(d)
  PROVE  Good(UpsertMemory(d, r))
<1> DEFINE e == UpsertMemory(d, r)
           verdict == IdempotencyVerdict(d, r, "upsert", {UpsertHash(r), LegacyUpsertHash(r)})
           bad == FirstBad(References(d, r))
           denied == PersistFailure(d, r, "upsert", "cross_tenant_reference",
                                    <<"denied", r.body>>)
<1>1. \/ e = d
      \/ e = denied
      \/ /\ e = Upserted(d, r) /\ ParsePayloadProjection(r) /\ verdict = "new"
         /\ bad # "foreign" /\ bad # "unknown" /\ ~ConstraintFails(d, r)
  <2> HIDE DEF verdict, bad, denied
  <2> QED
    BY DEF UpsertMemory, verdict, bad, denied
<1>2. CASE e = d
  BY <1>2
<1>3. CASE e = denied
  BY <1>3, FailureIsGood
<1>4. CASE /\ e = Upserted(d, r) /\ ParsePayloadProjection(r) /\ verdict = "new"
           /\ bad # "foreign" /\ bad # "unknown" /\ ~ConstraintFails(d, r)
  <2>1. PayloadTimes(r.times) # None
    BY <1>4 DEF ParsePayloadProjection
  <2>2. r.key = None \/ LedgerRow(d, r.tenant, "upsert", r.key) = {}
    BY <1>4 DEF IdempotencyVerdict
  <2>3. bad \notin {"foreign", "unknown"}
    BY <1>4
  <2> QED
    BY <1>4, <2>1, <2>2, <2>3, UpsertedIsGood
<1> HIDE DEF e, denied, verdict, bad
<1> QED
  BY <1>1, <1>2, <1>3, <1>4 DEF e

LEMMA DeleteIsGood ==
  ASSUME NEW d, NEW r \in Deletes, Good(d)
  PROVE  Good(DeleteMemory(d, r))
<1> DEFINE e == DeleteMemory(d, r)
           reason == IF MemoryStatus(d, r.tenant, r.memory) = "foreign"
                     THEN "cross_tenant_delete_probe" ELSE "not_found"
<1>1. \/ e = d
      \/ e = PersistFailure(d, r, "delete", reason, None)
      \/ /\ e = Deleted(d, r)
         /\ IdempotencyVerdict(d, r, "delete", {DeleteHash(r)}) = "new"
  BY DEF DeleteMemory
<1>2. CASE e = PersistFailure(d, r, "delete", reason, None)
  BY <1>2, FailureIsGood
<1>3. CASE /\ e = Deleted(d, r)
           /\ IdempotencyVerdict(d, r, "delete", {DeleteHash(r)}) = "new"
  <2>1. r.key = None \/ LedgerRow(d, r.tenant, "delete", r.key) = {}
    BY <1>3 DEF IdempotencyVerdict
  <2> QED
    BY <1>3, <2>1, DeletedIsGood
<1> HIDE DEF e
<1> QED
  BY <1>1, <1>2, <1>3 DEF e

LEMMA EmptyIsGood == Good(EmptyDb)
BY DEF Good, EmptyDb, IsDb, RowsTyped, LinksTyped, OneRow, ScopesGood, RowsPlaced,
       Descent, LinksMirror, Timed, Audited, Keyed

\* The invariant: it holds of the tables and of every snapshot, so that importing
\* one into tables without an audit log is as good as what was exported.
THEOREM StorageInductive == StorageSpec => []StorageInv
<1>1. StorageInit => StorageInv
  <2> SUFFICES ASSUME StorageInit PROVE StorageInv
    OBVIOUS
  <2> QED
    BY EmptyIsGood DEF StorageInit, StorageInv
<1>2. StorageInv /\ [StorageNext]_storageVars => StorageInv'
  <2> SUFFICES ASSUME StorageInv, [StorageNext]_storageVars PROVE StorageInv'
    OBVIOUS
  <2> USE DEF StorageInv
  <2>1. ASSUME NEW r \in Upserts, Upsert(r) PROVE StorageInv'
    <3>1. Good(UpsertMemory(db, r))
      BY UpsertIsGood
    <3> QED
      BY <2>1, <3>1 DEF Upsert, Commit
  <2>2. ASSUME NEW r \in Deletes, Delete(r) PROVE StorageInv'
    <3>1. Good(DeleteMemory(db, r))
      BY DeleteIsGood
    <3> QED
      BY <2>2, <3>1 DEF Delete, Commit
  <2>3. ASSUME Backfill PROVE StorageInv'
    <3>1. Good(BackfillProvenance(db))
      BY BackfilledIsGood
    <3> QED
      BY <2>3, <3>1 DEF Backfill, Commit
  <2>4. ASSUME ExportSnapshot PROVE StorageInv'
    BY <2>4 DEF ExportSnapshot
  <2>5. ASSUME Import PROVE StorageInv'
    BY <2>5 DEF Import, ImportSnapshot
  <2>6. ASSUME NEW new \in BOOLEAN, Reopen(new) PROVE StorageInv'
    BY <2>6, EmptyIsGood DEF Reopen
  <2>7. CASE UNCHANGED storageVars
    BY <2>7 DEF storageVars
  <2> QED
    BY <2>1, <2>2, <2>3, <2>4, <2>5, <2>6, <2>7 DEF StorageNext
<1> QED
  BY <1>1, <1>2, PTL DEF StorageSpec

\* Rows, links and times have their types in every state.
THEOREM StorageTypeCorrect == StorageSpec => []StorageTypeOK
<1>1. StorageInv => StorageTypeOK
  BY DEF StorageInv, Good, StorageTypeOK, RowsTyped, RowTyped, LinksTyped
<1> QED
  BY <1>1, StorageInductive, PTL

\* A memory and its scope are their tenant's and the only ones of their name; it
\* descends from memories of its tenant and never from itself, whatever was put
\* in another order, deleted with its successors or imported.
THEOREM ReferencesHold == StorageSpec => []ReferencesStayInTenant
<1>1. StorageInv => ReferencesStayInTenant
  <2> SUFFICES ASSUME StorageInv PROVE ReferencesStayInTenant
    OBVIOUS
  <2>1. Good(db)
    BY DEF StorageInv
  <2>2. ASSUME NEW i \in db.items
        PROVE  /\ Cardinality(RowsAt(db, i.tenant, i.memory)) = 1
               /\ Cardinality(ScopesAt(db, i.tenant, i.scope)) = 1
    <3>1. RowsAt(db, i.tenant, i.memory) = {i}
      BY <2>1, RowFound DEF Good
    <3>2. PICK s \in db.scopes : s.tenant = i.tenant /\ s.id = i.scope
      BY <2>1 DEF Good, RowsPlaced, InScopes
    <3>3. ScopesAt(db, i.tenant, i.scope) = {s}
      BY <2>1, <3>2 DEF Good, ScopesGood, ScopesAt
    <3> QED
      BY <3>1, <3>3, FS_Singleton
  <2>3. ASSUME NEW i \in db.items, i.supersedes # None
        PROVE  /\ RowsAt(db, i.tenant, i.supersedes) # {}
               /\ i.memory \notin Ancestors(db, i.tenant, i.supersedes)
    BY <2>1, <2>3 DEF Good, Descent, RowsAt
  <2>4. ASSUME NEW s \in db.scopes
        PROVE  /\ s.parent # None => ScopesAt(db, s.tenant, s.parent) # {}
               /\ s.anchor # None => <<s.tenant, s.anchor[1], s.anchor[2]>> \in Anchors
    BY <2>1 DEF Good, ScopesGood, ScopesAt
  <2> QED
    BY <2>2, <2>3, <2>4 DEF ReferencesStayInTenant
<1> QED
  BY <1>1, StorageInductive, PTL

\* The links of a memory are those of its row, and no link outlives its row.
THEOREM LinksHold == StorageSpec => []LinksMirrorRows
<1>1. StorageInv => LinksMirrorRows
  <2> SUFFICES ASSUME StorageInv PROVE LinksMirrorRows
    OBVIOUS
  <2>1. LinksMirror(db)
    BY DEF StorageInv, Good
  <2>2. \A l \in db.evLinks \cup db.provLinks : RowsAt(db, l[1], l[2]) # {}
    BY <2>1 DEF LinksMirror, RowsAt
  <2> QED
    BY <2>1, <2>2 DEF LinksMirror, RowLinked, LinksMirrorRows
<1> QED
  BY <1>1, StorageInductive, PTL

\* A request with an idempotency key acts once.
THEOREM KeysActOnce == StorageSpec => []KeyedRequestActsOnce
<1>1. StorageInv => KeyedRequestActsOnce
  BY DEF StorageInv, Good, Keyed, KeyedRequestActsOnce
<1> QED
  BY <1>1, StorageInductive, PTL

\* All that a run checks of the tables: references, links, times, keys and the
\* audit log.
THEOREM StorageRight == StorageSpec => []StorageIsRight
<1>1. StorageInv => TimesInOrder /\ RowsAreAudited
  BY DEF StorageInv, Good, Timed, RowTimed, TimesInOrder, Audited, Announced, RowsAreAudited
<1> QED
  BY <1>1, StorageInductive, ReferencesHold, LinksHold, KeysActOnce, PTL DEF StorageIsRight

\* In every state a backfill would leave no memory without provenance and no
\* break between the evidence of a memory and its provenance.
THEOREM BackfillsHeal == StorageSpec => []BackfillHeals
<1>1. StorageInv => BackfillHeals
  <2> SUFFICES ASSUME StorageInv PROVE BackfillHeals
    OBVIOUS
  <2> DEFINE e == BackfillProvenance(db)
  <2>1. Good(db)
    BY DEF StorageInv
  <2>2. /\ e.items = db.items /\ e.evLinks = db.evLinks
        /\ \A i \in db.items : \A x \in LinkedTo(db.evLinks, i.tenant, i.memory) :
             <<i.tenant, x, BackfillEnvelope(i)>> \in e.evProvLinks
        /\ \A i \in db.items :
             LinkedTo(e.provLinks, i.tenant, i.memory) = {BackfillEnvelope(i)}
    BY <2>1, BackfillLinks
  <2> HIDE DEF e
  <2>3. MissingProvenanceLinks(e) = {}
    BY <2>2 DEF MissingProvenanceLinks
  <2>4. ASSUME NEW el \in e.evLinks, NEW pl \in e.provLinks, el[1] = pl[1], el[2] = pl[2]
        PROVE  <<el[1], el[3], pl[3]>> \in e.evProvLinks
    <3>1. PICK i \in db.items : i.tenant = el[1] /\ i.memory = el[2]
      BY <2>1, <2>2 DEF Good, LinksMirror
    <3>2. el[3] \in LinkedTo(db.evLinks, i.tenant, i.memory)
      BY <2>2, <3>1 DEF LinkedTo
    <3>3. pl[3] \in LinkedTo(e.provLinks, i.tenant, i.memory)
      BY <2>4, <3>1 DEF LinkedTo
    <3>4. pl[3] = BackfillEnvelope(i)
      BY <2>2, <3>3
    <3> QED
      BY <2>2, <3>1, <3>2, <3>4
  <2>5. LineageBreaks(e) = {}
    <3> SUFFICES ASSUME NEW b \in LineageBreaks(e) PROVE FALSE
      OBVIOUS
    <3>1. /\ b[1] \in e.evLinks /\ b[2] \in e.provLinks
          /\ b[1][1] = b[2][1] /\ b[1][2] = b[2][2]
          /\ <<b[1][1], b[1][3], b[2][3]>> \notin e.evProvLinks
      BY DEF LineageBreaks
    <3> QED
      BY <2>4, <3>1
  <2> QED
    BY <2>3, <2>5 DEF BackfillHeals, e
<1> QED
  BY <1>1, StorageInductive, PTL

-----------------------------------------------------------------------------
(* The Postgres repository: its inductive invariant                         *)

HashOf(c) == PgHash(PgRequestOf[c])
KeyOf(c) == PgRequestOf[c].key

\* l is a ledger row that c recorded.
RecordedBy(l, c) ==
  /\ l.space = PgRequestOf[c].space /\ l.op = PgRequestOf[c].op
  /\ l.key = KeyOf(c) /\ KeyOf(c) # NoKey /\ l.hash = HashOf(c)
  /\ \E v \in 0..MaxVersion : l.response = PgResponse(PgRequestOf[c], v)

RefusalsOf == {PgPending, PgFailed, PgConflict, PgNotFound}
\* A success is a response to a request of the same content.
AnswersItsOwn(c, a) ==
  a \in RefusalsOf \/
    \E d \in PgCall : HashOf(d) = HashOf(c) /\ \E v \in 0..MaxVersion : a = PgResponse(PgRequestOf[d], v)

Happened(done, h) == \E d \in done : d[1] = h

PgCallsTyped ==
  /\ pgStage \in [PgCall -> {"idle", "look", "read", "write", "record"}]
  /\ pgRead \in [PgCall -> 0..MaxVersion]
  /\ pgAnswer = [c \in PgCall |-> pgAnswer[c]]
  /\ pgSent \in 0..MaxSends /\ pgOverlap \in BOOLEAN
  /\ \A c \in PgCall : /\ pgStage[c] \in {"look", "record"} => KeyOf(c) # NoKey
                       /\ pgStage[c] = "write" => PgRequestOf[c].op = "upsert"
                       /\ pgStage[c] = "record" => Happened(pgDone, HashOf(c))
PgAnswersTrue ==
  \A c \in PgCall : AnswersItsOwn(c, pgAnswer[c]) /\
    (pgAnswer[c] \notin RefusalsOf => Happened(pgDone, HashOf(c)))
PgTablesTrue(s, done) ==
  /\ s = [memories |-> s.memories, ledger |-> s.ledger]
  /\ \A m \in s.memories : m.version \in 1..MaxVersion
  /\ \A m, n \in s.memories : m.space = n.space /\ m.memory = n.memory => m = n
  /\ \A l \in s.ledger : (\E c \in PgCall : RecordedBy(l, c)) /\ Happened(done, l.hash)
  /\ \A l, k \in s.ledger : l.space = k.space /\ l.op = k.op /\ l.key = k.key => l = k
PgDoneCounted(done) ==
  /\ IsFiniteSet(done)
  /\ \A d \in done : d = <<d[1], d[2]>> /\ d[2] \in Nat /\ d[2] < Cardinality(done)

\* The keys under which h was done, or is about to be recorded.
UsedKeys(logged, stage, h) ==
  {l.key : l \in {k \in logged : k.hash = h}} \cup
  {KeyOf(c) : c \in {b \in PgCall : stage[b] = "record" /\ HashOf(b) = h}}
DoneOf(done, h) == {d \in done : d[1] = h}
AlwaysKeyed(h) == \A c \in PgCall : HashOf(c) = h => KeyOf(c) # NoKey

\* One request at a time: who has looked has found no row of its key, and each
\* effect has a key of its own.
OneInHand == \A c, d \in PgCall : pgStage[c] # "idle" /\ pgStage[d] # "idle" => c = d
LookedUp(c) == pgStage[c] \in {"read", "write", "record"} /\ KeyOf(c) # NoKey
LookedInVain == \A c \in PgCall : LookedUp(c) => PgLedgerRow(pg, PgRequestOf[c]) = {}
KeysCover(h) ==
  AlwaysKeyed(h) =>
    Cardinality(DoneOf(pgDone, h)) <= Cardinality(UsedKeys(pg.ledger, pgStage, h))
PgSerial == OneInHand /\ LookedInVain /\ \A h : KeysCover(h)

PgInv ==
  /\ PgCallsTyped /\ PgAnswersTrue /\ PgTablesTrue(pg, pgDone) /\ PgDoneCounted(pgDone)
  /\ ~pgOverlap => PgSerial

\* A request asks one operation for one memory of one space.
LEMMA PgRequestsTyped ==
  ASSUME NEW c \in PgCall
  PROVE  /\ PgRequestOf[c].op \in {"upsert", "delete"}
         /\ PgRequestOf[c].space \in Nat /\ PgRequestOf[c].memory \in Nat
         /\ PgRequestOf[c].layer \in STRING /\ PgRequestOf[c].body \in Nat
BY PostgresAssumption

\* Requests of one content are for one memory of one space.
LEMMA HashNames ==
  ASSUME NEW c \in PgCall, NEW d \in PgCall, HashOf(c) = HashOf(d)
  PROVE  /\ PgRequestOf[c].op = PgRequestOf[d].op
         /\ PgRequestOf[c].space = PgRequestOf[d].space
         /\ PgRequestOf[c].memory = PgRequestOf[d].memory
BY PgRequestsTyped DEF HashOf, PgHash

\* The keys that were used are keys of requests, so there are finitely many.
LEMMA UsedKeysFinite ==
  ASSUME NEW logged, NEW stage, NEW h, \A l \in logged : \E c \in PgCall : RecordedBy(l, c)
  PROVE  IsFiniteSet(UsedKeys(logged, stage, h)) /\ Cardinality(UsedKeys(logged, stage, h)) \in Nat
<1> DEFINE f == [c \in PgCall |-> KeyOf(c)]
           all == {f[c] : c \in PgCall}
<1>1. IsFiniteSet(PgCall)
  BY PostgresAssumption
<1>2. f \in [PgCall -> all]
  OBVIOUS
<1>3. \A k \in all : \E c \in PgCall : f[c] = k
  OBVIOUS
<1>4. f \in Surjection(PgCall, all)
  BY <1>2, <1>3 DEF Surjection
<1>5. IsFiniteSet(all)
  BY <1>1, <1>4, FS_Surjection
<1>6. UsedKeys(logged, stage, h) \subseteq all
  BY DEF UsedKeys, RecordedBy
<1> QED
  BY <1>5, <1>6, FS_Subset, FS_CardinalityType

\* So are the effects of one request.
LEMMA DoneFinite ==
  ASSUME NEW done, NEW h, PgDoneCounted(done)
  PROVE  IsFiniteSet(DoneOf(done, h)) /\ Cardinality(DoneOf(done, h)) \in Nat
BY FS_Subset, FS_CardinalityType DEF PgDoneCounted, DoneOf

\* One more effect is counted once.
LEMMA DoneOnce ==
  ASSUME NEW done, NEW h, PgDoneCounted(done)
  PROVE  LET more == done \cup {<<h, Cardinality(done)>>} IN
         /\ PgDoneCounted(more) /\ Happened(more, h)
         /\ \A g : Happened(done, g) => Happened(more, g)
         /\ \A g : g # h => DoneOf(more, g) = DoneOf(done, g)
         /\ Cardinality(DoneOf(more, h)) = Cardinality(DoneOf(done, h)) + 1
<1> DEFINE x == <<h, Cardinality(done)>>
           more == done \cup {x}
<1>1. Cardinality(done) \in Nat /\ x \notin done
  BY FS_CardinalityType DEF PgDoneCounted
<1>2. IsFiniteSet(more) /\ Cardinality(more) = Cardinality(done) + 1
  BY <1>1, FS_AddElement DEF PgDoneCounted
<1>3. PgDoneCounted(more)
  BY <1>1, <1>2 DEF PgDoneCounted
<1>4. DoneOf(more, h) = DoneOf(done, h) \cup {x} /\ x \notin DoneOf(done, h)
  BY <1>1 DEF DoneOf
<1>5. Cardinality(DoneOf(more, h)) = Cardinality(DoneOf(done, h)) + 1
  BY <1>4, DoneFinite, FS_AddElement
<1>6. Happened(more, h) /\ \A g : Happened(done, g) => Happened(more, g)
  <2>1. x \in more /\ x[1] = h /\ done \subseteq more
    OBVIOUS
  <2> HIDE DEF x, more
  <2> QED
    BY <2>1 DEF Happened
<1>7. \A g : g # h => DoneOf(more, g) = DoneOf(done, g)
  BY DEF DoneOf
<1> QED
  BY <1>3, <1>5, <1>6, <1>7

-----------------------------------------------------------------------------
(* What a call of a request leaves                                           *)

\* A request that is answered is answered truly, and leaves the others alone.
LEMMA AnsweredTruly ==
  ASSUME PgCallsTyped, PgAnswersTrue, NEW c \in PgCall, NEW a, Answers(c, a),
         AnswersItsOwn(c, a), a \notin RefusalsOf => Happened(pgDone', HashOf(c)),
         \A g : Happened(pgDone, g) => Happened(pgDone', g),
         pgSent' \in 0..MaxSends, pgOverlap' \in BOOLEAN
  PROVE  PgCallsTyped' /\ PgAnswersTrue'
<1> USE DEF Answers
<1>1. /\ pgStage' \in [PgCall -> {"idle", "look", "read", "write", "record"}]
      /\ pgAnswer' = [d \in PgCall |-> pgAnswer'[d]]
      /\ pgStage'[c] = "idle" /\ pgAnswer'[c] = a
      /\ \A d \in PgCall \ {c} : pgStage'[d] = pgStage[d] /\ pgAnswer'[d] = pgAnswer[d]
  BY DEF PgCallsTyped
<1>2. pgRead' \in [PgCall -> 0..MaxVersion]
  BY PostgresAssumption DEF PgCallsTyped
<1>3. PgCallsTyped'
  BY <1>1, <1>2 DEF PgCallsTyped
<1>4. PgAnswersTrue'
  BY <1>1 DEF PgAnswersTrue
<1> QED
  BY <1>3, <1>4

\* A request that goes on keeps its answer, and leaves the others alone.
LEMMA GoneOn ==
  ASSUME PgCallsTyped, PgAnswersTrue, NEW c \in PgCall, NEW stage, NEW version \in 0..MaxVersion,
         PgGoes(c, stage, version), stage \in {"look", "read", "write", "record"},
         stage \in {"look", "record"} => KeyOf(c) # NoKey,
         stage = "write" => PgRequestOf[c].op = "upsert",
         stage = "record" => Happened(pgDone', HashOf(c)),
         \A g : Happened(pgDone, g) => Happened(pgDone', g),
         pgSent' \in 0..MaxSends, pgOverlap' \in BOOLEAN
  PROVE  PgCallsTyped' /\ PgAnswersTrue'
<1> USE DEF PgGoes
<1>1. /\ pgStage' \in [PgCall -> {"idle", "look", "read", "write", "record"}]
      /\ pgAnswer' = pgAnswer
      /\ pgStage'[c] = stage
      /\ \A d \in PgCall \ {c} : pgStage'[d] = pgStage[d]
  BY DEF PgCallsTyped
<1>2. pgRead' \in [PgCall -> 0..MaxVersion]
  BY DEF PgCallsTyped
<1>3. PgCallsTyped'
  BY <1>1, <1>2 DEF PgCallsTyped
<1>4. PgAnswersTrue'
  BY <1>1 DEF PgAnswersTrue
<1> QED
  BY <1>3, <1>4

\* A memory that is read has the version of its row, or none.
LEMMA VersionRead ==
  ASSUME NEW r, PgTablesTrue(pg, pgDone)
  PROVE  PgVersion(pg, r) \in 0..MaxVersion
<1>1. CASE PgRow(pg, r.space, r.memory) = {}
  BY <1>1, PostgresAssumption DEF PgVersion
<1>2. CASE PgRow(pg, r.space, r.memory) # {}
  <2>1. (CHOOSE m \in PgRow(pg, r.space, r.memory) : TRUE) \in pg.memories
    BY <1>2 DEF PgRow
  <2> QED
    BY <2>1, <1>2 DEF PgTablesTrue, PgVersion
<1> QED
  BY <1>1, <1>2

\* A stored key answers nothing when it has no row, and else a refusal or a
\* response that its request may have.
LEMMA ReplayedTruly ==
  ASSUME NEW c \in PgCall, PgTablesTrue(pg, pgDone), PgReplay(pg, PgRequestOf[c]) # PgPending
  PROVE  /\ AnswersItsOwn(c, PgReplay(pg, PgRequestOf[c]))
         /\ PgReplay(pg, PgRequestOf[c]) \notin RefusalsOf => Happened(pgDone, HashOf(c))
<1> DEFINE rows == PgLedgerRow(pg, PgRequestOf[c])
           l == CHOOSE x \in rows : TRUE
<1>1. l \in rows /\ l \in pg.ledger
  BY DEF PgReplay, PgLedgerRow
<1>2. PgReplay(pg, PgRequestOf[c]) = IF l.hash = HashOf(c) THEN l.response ELSE PgConflict
  BY DEF PgReplay, HashOf
<1> HIDE DEF l, rows
<1>3. CASE l.hash = HashOf(c)
  BY <1>1, <1>2, <1>3 DEF PgTablesTrue, RecordedBy, AnswersItsOwn
<1>4. CASE l.hash # HashOf(c)
  BY <1>2, <1>4 DEF AnswersItsOwn, RefusalsOf
<1> QED
  BY <1>3, <1>4

\* What is looked up in vain has no row.
LEMMA NotReplayed ==
  ASSUME NEW c \in PgCall, PgTablesTrue(pg, pgDone), PgReplay(pg, PgRequestOf[c]) = PgPending,
         KeyOf(c) # NoKey
  PROVE  PgLedgerRow(pg, PgRequestOf[c]) = {}
<1> SUFFICES ASSUME PgLedgerRow(pg, PgRequestOf[c]) # {} PROVE FALSE
  OBVIOUS
<1> DEFINE l == CHOOSE x \in PgLedgerRow(pg, PgRequestOf[c]) : TRUE
<1>1. l \in pg.ledger
  BY DEF PgLedgerRow
<1>2. PgPending = IF l.hash = PgHash(PgRequestOf[c]) THEN l.response ELSE PgConflict
  BY DEF PgReplay, KeyOf
<1> HIDE DEF l
<1>3. PICK d \in PgCall, v \in 0..MaxVersion : l.response = PgResponse(PgRequestOf[d], v)
  BY <1>1 DEF PgTablesTrue, RecordedBy
<1>4. l.response.kind = "done"
  BY <1>3 DEF PgResponse
<1> QED
  BY <1>2, <1>4 DEF PgPending, PgConflict

-----------------------------------------------------------------------------
(* Every driver call keeps the invariant                                     *)

\* As long as no effect is done or recorded the keys still count the effects.
LEMMA CountKept ==
  ASSUME NEW h, KeysCover(h), pg'.ledger = pg.ledger, pgDone' = pgDone,
         \A d \in PgCall : pgStage'[d] = "record" <=> pgStage[d] = "record"
  PROVE  KeysCover(h)'
<1>1. UsedKeys(pg.ledger, pgStage, h)' = UsedKeys(pg.ledger, pgStage, h)
  BY DEF UsedKeys
<1>2. DoneOf(pgDone, h)' = DoneOf(pgDone, h)
  BY DEF DoneOf
<1> QED
  BY <1>1, <1>2 DEF KeysCover

\* The others stay where they are, and in hand.
LEMMA OthersStay ==
  ASSUME PgCallsTyped, NEW c \in PgCall, NEW stage,
         pgStage' = [pgStage EXCEPT ![c] = stage]
  PROVE  /\ pgStage'[c] = stage
         /\ \A d \in PgCall \ {c} : pgStage'[d] = pgStage[d]
         /\ OneInHand /\ pgStage[c] # "idle" => OneInHand'
         /\ OneInHand /\ pgStage[c] # "idle" => \A d \in PgCall \ {c} : pgStage'[d] = "idle"
BY DEF PgCallsTyped, OneInHand

\* A request is sent while others are in hand, or alone.
LEMMA SendKeeps ==
  ASSUME PgInv, NEW c \in PgCall, Send(c)
  PROVE  PgInv'
<1> DEFINE stage == IF KeyOf(c) = NoKey THEN "read" ELSE "look"
<1> USE DEF PgInv
<1>1. /\ PgGoes(c, stage, 0) /\ UNCHANGED <<pg, pgDone>>
      /\ pgSent' \in 0..MaxSends /\ pgOverlap' \in BOOLEAN /\ 0 \in 0..MaxVersion
      /\ pgOverlap' = (pgOverlap \/ InHand # {})
  BY PostgresAssumption DEF Send, KeyOf, PgCallsTyped
<1>2. PgCallsTyped' /\ PgAnswersTrue'
  BY <1>1, GoneOn
<1>3. PgTablesTrue(pg, pgDone)' /\ PgDoneCounted(pgDone)'
  BY <1>1 DEF PgTablesTrue, PgDoneCounted
<1>4. ASSUME ~pgOverlap' PROVE PgSerial'
  <2>1. PgSerial /\ InHand = {}
    BY <1>1, <1>4
  <2>2. \A d \in PgCall : pgStage[d] = "idle"
    BY <2>1 DEF InHand
  <2>3. pgStage'[c] = stage /\ \A d \in PgCall \ {c} : pgStage'[d] = "idle"
    BY <1>1, <2>2, OthersStay DEF PgGoes
  <2>4. OneInHand'
    BY <2>3 DEF OneInHand
  <2>5. LookedInVain'
    BY <2>3 DEF LookedInVain, LookedUp
  <2>6. \A d \in PgCall : pgStage'[d] = "record" <=> pgStage[d] = "record"
    BY <2>2, <2>3
  <2>7. ASSUME NEW h PROVE KeysCover(h)'
    <3>1. KeysCover(h) /\ pg'.ledger = pg.ledger /\ pgDone' = pgDone
      BY <1>1, <2>1 DEF PgSerial
    <3> QED
      BY <2>6, <3>1, CountKept
  <2> QED
    BY <2>4, <2>5, <2>7 DEF PgSerial
<1> QED
  BY <1>2, <1>3, <1>4

\* A request that looks its key up is answered, or has looked in vain.
LEMMA GetIdempotencyKeeps ==
  ASSUME PgInv, NEW c \in PgCall, GetIdempotency(c)
  PROVE  PgInv'
<1> DEFINE a == PgReplay(pg, PgRequestOf[c])
<1> USE DEF PgInv
<1>1. /\ pgStage[c] = "look" /\ UNCHANGED <<pg, pgSent, pgDone, pgOverlap>>
      /\ a # PgPending => Answers(c, a)
      /\ a = PgPending => PgGoes(c, "read", 0)
      /\ 0 \in 0..MaxVersion
  BY PostgresAssumption DEF GetIdempotency
<1>2. KeyOf(c) # NoKey
  BY <1>1 DEF PgCallsTyped
<1>3. pgSent' \in 0..MaxSends /\ pgOverlap' \in BOOLEAN
  BY <1>1 DEF PgCallsTyped
<1>4. PgCallsTyped' /\ PgAnswersTrue'
  <2>1. CASE a # PgPending
    <3>1. AnswersItsOwn(c, a) /\ (a \notin RefusalsOf => Happened(pgDone', HashOf(c)))
      BY <1>1, <2>1, ReplayedTruly
    <3> QED
      BY <1>1, <1>3, <2>1, <3>1, AnsweredTruly
  <2>2. CASE a = PgPending
    BY <1>1, <1>3, <2>2, GoneOn
  <2> QED
    BY <2>1, <2>2
<1>5. PgTablesTrue(pg, pgDone)' /\ PgDoneCounted(pgDone)'
  BY <1>1 DEF PgTablesTrue, PgDoneCounted
<1>6. ASSUME ~pgOverlap' PROVE PgSerial'
  <2>1. PgSerial
    BY <1>1, <1>6
  <2>2. pgStage' = [pgStage EXCEPT ![c] = IF a = PgPending THEN "read" ELSE "idle"]
    BY <1>1 DEF Answers, PgGoes
  <2>3. /\ pgStage'[c] = IF a = PgPending THEN "read" ELSE "idle"
        /\ \A d \in PgCall \ {c} : pgStage'[d] = "idle"
        /\ OneInHand'
    BY <1>1, <2>1, <2>2, OthersStay DEF PgSerial
  <2>4. a = PgPending => PgLedgerRow(pg, PgRequestOf[c]) = {}
    BY <1>2, NotReplayed
  <2>5. LookedInVain'
    BY <1>1, <2>3, <2>4 DEF LookedInVain, LookedUp, PgLedgerRow
  <2>6. \A d \in PgCall : pgStage'[d] = "record" <=> pgStage[d] = "record"
    BY <1>1, <2>1, <2>3 DEF PgSerial, OneInHand
  <2>7. ASSUME NEW h PROVE KeysCover(h)'
    <3>1. KeysCover(h) /\ pg'.ledger = pg.ledger /\ pgDone' = pgDone
      BY <1>1, <2>1 DEF PgSerial
    <3> QED
      BY <2>6, <3>1, CountKept
  <2> QED
    BY <2>3, <2>5, <2>7 DEF PgSerial
<1> QED
  BY <1>4, <1>5, <1>6

\* A version is read that a row has, or none.
LEMMA GetMemoryKeeps ==
  ASSUME PgInv, NEW c \in PgCall, GetMemory(c)
  PROVE  PgInv'
<1> USE DEF PgInv
<1>1. /\ pgStage[c] = "read" /\ PgRequestOf[c].op = "upsert"
      /\ PgGoes(c, "write", PgVersion(pg, PgRequestOf[c]))
      /\ UNCHANGED <<pg, pgSent, pgDone, pgOverlap>>
  BY DEF GetMemory
<1>2. pgSent' \in 0..MaxSends /\ pgOverlap' \in BOOLEAN
  BY <1>1 DEF PgCallsTyped
<1>3. PgCallsTyped' /\ PgAnswersTrue'
  BY <1>1, <1>2, VersionRead, GoneOn
<1>4. PgTablesTrue(pg, pgDone)' /\ PgDoneCounted(pgDone)'
  BY <1>1 DEF PgTablesTrue, PgDoneCounted
<1>5. ASSUME ~pgOverlap' PROVE PgSerial'
  <2>1. PgSerial
    BY <1>1, <1>5
  <2>2. /\ pgStage'[c] = "write" /\ \A d \in PgCall \ {c} : pgStage'[d] = pgStage[d]
        /\ OneInHand'
    BY <1>1, <2>1, OthersStay DEF PgSerial, PgGoes
  <2>3. LookedInVain'
    BY <1>1, <2>1, <2>2 DEF PgSerial, LookedInVain, LookedUp, PgLedgerRow
  <2>4. \A d \in PgCall : pgStage'[d] = "record" <=> pgStage[d] = "record"
    BY <1>1, <2>2
  <2>5. ASSUME NEW h PROVE KeysCover(h)'
    <3>1. KeysCover(h) /\ pg'.ledger = pg.ledger /\ pgDone' = pgDone
      BY <1>1, <2>1 DEF PgSerial
    <3> QED
      BY <2>4, <3>1, CountKept
  <2> QED
    BY <2>2, <2>3, <2>5 DEF PgSerial
<1> QED
  BY <1>3, <1>4, <1>5

\* A request is cut short, before or after its effect.
LEMMA CutShortKeeps ==
  ASSUME PgInv, NEW c \in PgCall, CutShort(c)
  PROVE  PgInv'
<1> USE DEF PgInv
<1>1. /\ pgStage[c] # "idle" /\ Answers(c, PgFailed) /\ UNCHANGED <<pg, pgSent, pgDone>>
      /\ pgOverlap' = (pgOverlap \/ pgStage[c] = "record")
  BY DEF CutShort
<1>2. pgSent' \in 0..MaxSends /\ pgOverlap' \in BOOLEAN
  BY <1>1 DEF PgCallsTyped
<1>3. PgFailed \in RefusalsOf /\ AnswersItsOwn(c, PgFailed)
  BY DEF AnswersItsOwn, RefusalsOf
<1>4. PgCallsTyped' /\ PgAnswersTrue'
  BY <1>1, <1>2, <1>3, AnsweredTruly
<1>5. PgTablesTrue(pg, pgDone)' /\ PgDoneCounted(pgDone)'
  BY <1>1 DEF PgTablesTrue, PgDoneCounted
<1>6. ASSUME ~pgOverlap' PROVE PgSerial'
  <2>1. PgSerial /\ pgStage[c] # "record"
    BY <1>1, <1>6
  <2>2. /\ pgStage'[c] = "idle" /\ \A d \in PgCall \ {c} : pgStage'[d] = pgStage[d]
        /\ OneInHand'
    BY <1>1, <2>1, OthersStay DEF PgSerial, Answers
  <2>3. LookedInVain'
    BY <1>1, <2>1, <2>2 DEF PgSerial, LookedInVain, LookedUp, PgLedgerRow
  <2>4. \A d \in PgCall : pgStage'[d] = "record" <=> pgStage[d] = "record"
    BY <2>1, <2>2
  <2>5. ASSUME NEW h PROVE KeysCover(h)'
    <3>1. KeysCover(h) /\ pg'.ledger = pg.ledger /\ pgDone' = pgDone
      BY <1>1, <2>1 DEF PgSerial
    <3> QED
      BY <2>4, <3>1, CountKept
  <2> QED
    BY <2>2, <2>3, <2>5 DEF PgSerial
<1> QED
  BY <1>4, <1>5, <1>6

\* The key of a request that looked in vain has not been used for its content.
LEMMA KeyUnused ==
  ASSUME PgInv, PgSerial, NEW c \in PgCall, pgStage[c] \in {"read", "write"}, KeyOf(c) # NoKey
  PROVE  KeyOf(c) \notin UsedKeys(pg.ledger, pgStage, HashOf(c))
<1>1. PgLedgerRow(pg, PgRequestOf[c]) = {}
  BY DEF PgSerial, LookedInVain, LookedUp
<1>2. \A d \in PgCall : pgStage[d] # "record"
  BY DEF PgSerial, OneInHand
<1>3. ASSUME NEW l \in pg.ledger, l.hash = HashOf(c), l.key = KeyOf(c) PROVE FALSE
  <2>1. PICK d \in PgCall : RecordedBy(l, d)
    BY DEF PgInv, PgTablesTrue
  <2>2. HashOf(d) = HashOf(c)
    BY <1>3, <2>1 DEF RecordedBy
  <2>3. l.space = PgRequestOf[c].space /\ l.op = PgRequestOf[c].op
    BY <2>1, <2>2, HashNames DEF RecordedBy
  <2> QED
    BY <1>1, <1>3, <2>3 DEF PgLedgerRow, KeyOf
<1> QED
  BY <1>2, <1>3 DEF UsedKeys

\* An effect of a request that looked in vain takes a key not used before.
LEMMA EffectKeyed ==
  ASSUME PgInv, PgSerial, NEW c \in PgCall, pgStage[c] \in {"read", "write"},
         pg'.ledger = pg.ledger,
         pgDone' = pgDone \cup {<<HashOf(c), Cardinality(pgDone)>>},
         \A d \in PgCall \ {c} : pgStage'[d] = pgStage[d],
         pgStage'[c] = IF KeyOf(c) = NoKey THEN "idle" ELSE "record",
         NEW h
  PROVE  KeysCover(h)'
<1> SUFFICES ASSUME AlwaysKeyed(h)
             PROVE  Cardinality(DoneOf(pgDone', h)) <= Cardinality(UsedKeys(pg'.ledger, pgStage', h))
  BY DEF KeysCover, AlwaysKeyed, HashOf, KeyOf
<1>1. Cardinality(DoneOf(pgDone, h)) <= Cardinality(UsedKeys(pg.ledger, pgStage, h))
  BY DEF PgSerial, KeysCover
<1>2. PgDoneCounted(pgDone)
  BY DEF PgInv
<1>3. CASE h = HashOf(c)
  <2> DEFINE keys == UsedKeys(pg.ledger, pgStage, h)
  <2>1. KeyOf(c) # NoKey
    BY <1>3 DEF AlwaysKeyed
  <2>2. IsFiniteSet(keys) /\ Cardinality(keys) \in Nat
    BY UsedKeysFinite DEF PgInv, PgTablesTrue
  <2>3. KeyOf(c) \notin keys
    BY <1>3, <2>1, KeyUnused
  <2>4. UsedKeys(pg'.ledger, pgStage', h) = keys \cup {KeyOf(c)}
    BY <1>3, <2>1 DEF UsedKeys
  <2>5. Cardinality(UsedKeys(pg'.ledger, pgStage', h)) = Cardinality(keys) + 1
    BY <2>2, <2>3, <2>4, FS_AddElement
  <2>6. Cardinality(DoneOf(pgDone', h)) = Cardinality(DoneOf(pgDone, h)) + 1
    BY <1>2, <1>3, DoneOnce
  <2>7. Cardinality(DoneOf(pgDone, h)) \in Nat
    BY <1>2, DoneFinite
  <2> QED
    BY <1>1, <2>2, <2>5, <2>6, <2>7
<1>4. CASE h # HashOf(c)
  <2>1. DoneOf(pgDone', h) = DoneOf(pgDone, h)
    BY <1>2, <1>4, DoneOnce
  <2>2. UsedKeys(pg'.ledger, pgStage', h) = UsedKeys(pg.ledger, pgStage, h)
    BY <1>4 DEF UsedKeys
  <2> QED
    BY <1>1, <2>1, <2>2
<1> QED
  BY <1>3, <1>4

\* An effect keeps the invariant, and what the memories are beside.
LEMMA EffectKeeps ==
  ASSUME PgInv, NEW c \in PgCall, pgStage[c] \in {"read", "write"},
         NEW version \in 0..MaxVersion, PgWritten(c, version),
         PgTablesTrue(pg', pgDone), pg'.ledger = pg.ledger
  PROVE  PgInv'
<1> DEFINE stage == IF KeyOf(c) = NoKey THEN "idle" ELSE "record"
           a == PgResponse(PgRequestOf[c], version)
<1> USE DEF PgInv
<1>1. /\ pgDone' = pgDone \cup {<<HashOf(c), Cardinality(pgDone)>>}
      /\ KeyOf(c) = NoKey => Answers(c, a)
      /\ KeyOf(c) # NoKey => PgGoes(c, "record", version)
      /\ UNCHANGED <<pgSent, pgOverlap>>
  BY DEF PgWritten, KeyOf, HashOf
<1>2. /\ PgDoneCounted(pgDone') /\ Happened(pgDone', HashOf(c))
      /\ \A g : Happened(pgDone, g) => Happened(pgDone', g)
  BY <1>1, DoneOnce
<1>3. pgSent' \in 0..MaxSends /\ pgOverlap' \in BOOLEAN
  BY <1>1 DEF PgCallsTyped
<1>4. PgCallsTyped' /\ PgAnswersTrue'
  <2>1. CASE KeyOf(c) = NoKey
    <3>1. AnswersItsOwn(c, a)
      BY DEF AnswersItsOwn
    <3> QED
      BY <1>1, <1>2, <1>3, <2>1, <3>1, AnsweredTruly
  <2>2. CASE KeyOf(c) # NoKey
    BY <1>1, <1>2, <1>3, <2>2, GoneOn
  <2> QED
    BY <2>1, <2>2
<1>5. PgTablesTrue(pg', pgDone')
  BY <1>2 DEF PgTablesTrue
<1>6. ASSUME ~pgOverlap' PROVE PgSerial'
  <2>1. PgSerial
    BY <1>1, <1>6
  <2>2. pgStage' = [pgStage EXCEPT ![c] = stage]
    BY <1>1 DEF Answers, PgGoes
  <2>3. /\ pgStage'[c] = stage /\ OneInHand'
        /\ \A d \in PgCall \ {c} : pgStage'[d] = pgStage[d]
    BY <2>1, <2>2, OthersStay DEF PgSerial
  <2>4. LookedInVain'
    BY <2>1, <2>3 DEF PgSerial, LookedInVain, LookedUp, PgLedgerRow
  <2>5. ASSUME NEW h PROVE KeysCover(h)'
    BY <1>1, <2>1, <2>3, EffectKeyed
  <2> QED
    BY <2>3, <2>4, <2>5 DEF PgSerial
<1>7. PgTablesTrue(pg, pgDone)' /\ PgDoneCounted(pgDone)'
  BY <1>2, <1>5 DEF PgTablesTrue, PgDoneCounted
<1> QED
  BY <1>4, <1>6, <1>7

\* A row is overwritten with what follows the version that was read.
LEMMA WriteMemoryKeeps ==
  ASSUME PgInv, NEW c \in PgCall, WriteMemory(c)
  PROVE  PgInv'
<1> DEFINE r == PgRequestOf[c]
           version == pgRead[c] + 1
           row == [space |-> r.space, memory |-> r.memory, layer |-> r.layer, body |-> r.body,
                   version |-> version]
<1>1. /\ pgStage[c] = "write" /\ pgRead[c] < MaxVersion /\ PgWritten(c, version)
      /\ pg' = PgPutMemory(pg, r, version)
  BY DEF WriteMemory
<1>2. version \in 1..MaxVersion /\ version \in 0..MaxVersion
  BY <1>1, PostgresAssumption DEF PgInv, PgCallsTyped
<1>3. pg = [memories |-> pg.memories, ledger |-> pg.ledger] /\ PgTablesTrue(pg, pgDone)
  BY DEF PgInv, PgTablesTrue
<1>4. pg' = [memories |-> (pg.memories \ PgRow(pg, r.space, r.memory)) \cup {row},
             ledger |-> pg.ledger]
  BY <1>1, <1>3 DEF PgPutMemory
<1>5. row.space = r.space /\ row.memory = r.memory /\ row.version = version
  OBVIOUS
<1> HIDE DEF row, version, r
<1>6. PgTablesTrue(pg', pgDone)
  BY <1>2, <1>3, <1>4, <1>5 DEF PgTablesTrue, PgRow
<1> QED
  BY <1>1, <1>2, <1>4, <1>6, EffectKeeps

\* A delete has an effect only if there is a row.
LEMMA DropMemoryKeeps ==
  ASSUME PgInv, NEW c \in PgCall, DropMemory(c)
  PROVE  PgInv'
<1> DEFINE r == PgRequestOf[c]
<1> USE DEF PgInv
<1>1. pgStage[c] = "read" /\ 0 \in 0..MaxVersion
  BY PostgresAssumption DEF DropMemory
<1>2. CASE PgRow(pg, r.space, r.memory) = {}
  <2>1. Answers(c, PgNotFound) /\ UNCHANGED <<pg, pgSent, pgDone, pgOverlap>>
    BY <1>2 DEF DropMemory
  <2>2. pgSent' \in 0..MaxSends /\ pgOverlap' \in BOOLEAN
    BY <2>1 DEF PgCallsTyped
  <2>3. PgNotFound \in RefusalsOf /\ AnswersItsOwn(c, PgNotFound)
    BY DEF AnswersItsOwn, RefusalsOf
  <2>4. PgCallsTyped' /\ PgAnswersTrue'
    BY <2>1, <2>2, <2>3, AnsweredTruly
  <2>5. PgTablesTrue(pg, pgDone)' /\ PgDoneCounted(pgDone)'
    BY <2>1 DEF PgTablesTrue, PgDoneCounted
  <2>6. ASSUME ~pgOverlap' PROVE PgSerial'
    <3>1. PgSerial
      BY <2>1, <2>6
    <3>2. /\ pgStage'[c] = "idle" /\ \A d \in PgCall \ {c} : pgStage'[d] = pgStage[d]
          /\ OneInHand'
      BY <1>1, <2>1, <3>1, OthersStay DEF PgSerial, Answers
    <3>3. LookedInVain'
      BY <2>1, <3>1, <3>2 DEF PgSerial, LookedInVain, LookedUp, PgLedgerRow
    <3>4. \A d \in PgCall : pgStage'[d] = "record" <=> pgStage[d] = "record"
      BY <1>1, <3>2
    <3>5. ASSUME NEW h PROVE KeysCover(h)'
      <4>1. KeysCover(h) /\ pg'.ledger = pg.ledger /\ pgDone' = pgDone
        BY <2>1, <3>1 DEF PgSerial
      <4> QED
        BY <3>4, <4>1, CountKept
    <3> QED
      BY <3>2, <3>3, <3>5 DEF PgSerial
  <2> QED
    BY <2>4, <2>5, <2>6
<1>3. CASE PgRow(pg, r.space, r.memory) # {}
  <2>1. pg' = PgDropMemory(pg, r) /\ PgWritten(c, 0)
    BY <1>3 DEF DropMemory
  <2>2. pg = [memories |-> pg.memories, ledger |-> pg.ledger] /\ PgTablesTrue(pg, pgDone)
    BY DEF PgTablesTrue
  <2>3. pg' = [memories |-> pg.memories \ PgRow(pg, r.space, r.memory), ledger |-> pg.ledger]
    BY <2>1, <2>2 DEF PgDropMemory
  <2>4. PgTablesTrue(pg', pgDone)
    BY <2>2, <2>3 DEF PgTablesTrue
  <2> QED
    BY <1>1, <2>1, <2>3, <2>4, EffectKeeps
<1> QED
  BY <1>2, <1>3

\* The ledger row of a request that has had its effect
LEMMA PutIdempotencyKeeps ==
  ASSUME PgInv, NEW c \in PgCall, PutIdempotency(c)
  PROVE  PgInv'
<1> DEFINE r == PgRequestOf[c]
           a == PgResponse(r, pgRead[c])
           row == [space |-> r.space, op |-> r.op, key |-> r.key, hash |-> PgHash(r),
                   response |-> a]
           logged == (pg.ledger \ PgLedgerRow(pg, r)) \cup {row}
<1> USE DEF PgInv
<1>1. /\ pgStage[c] = "record" /\ pg' = PgPutIdempotency(pg, r, a) /\ Answers(c, a)
      /\ UNCHANGED <<pgSent, pgDone, pgOverlap>>
  BY DEF PutIdempotency
<1>2. KeyOf(c) # NoKey /\ Happened(pgDone, HashOf(c)) /\ pgRead[c] \in 0..MaxVersion
  BY <1>1 DEF PgCallsTyped
<1>3. pgSent' \in 0..MaxSends /\ pgOverlap' \in BOOLEAN
  BY <1>1 DEF PgCallsTyped
<1>4. AnswersItsOwn(c, a)
  BY <1>2 DEF AnswersItsOwn
<1>5. PgCallsTyped' /\ PgAnswersTrue'
  BY <1>1, <1>2, <1>3, <1>4, AnsweredTruly
<1>6. pg = [memories |-> pg.memories, ledger |-> pg.ledger] /\ PgTablesTrue(pg, pgDone)
  BY DEF PgTablesTrue
<1>7. pg' = [memories |-> pg.memories, ledger |-> logged]
  BY <1>1, <1>2, <1>6 DEF PgPutIdempotency, KeyOf
<1>8. RecordedBy(row, c) /\ row.hash = HashOf(c)
  BY <1>2 DEF RecordedBy, KeyOf, HashOf
<1>9. row.space = r.space /\ row.op = r.op /\ row.key = KeyOf(c)
  BY DEF KeyOf
<1> HIDE DEF row, a
<1>10. PgTablesTrue(pg', pgDone')
  BY <1>1, <1>2, <1>6, <1>7, <1>8, <1>9 DEF PgTablesTrue, PgLedgerRow, KeyOf
<1>11. PgDoneCounted(pgDone')
  BY <1>1
<1>12. ASSUME ~pgOverlap' PROVE PgSerial'
  <2>1. PgSerial
    BY <1>1, <1>12
  <2>2. /\ pgStage'[c] = "idle" /\ \A d \in PgCall \ {c} : pgStage'[d] = "idle"
        /\ OneInHand'
    BY <1>1, <2>1, OthersStay DEF PgSerial, Answers
  <2>3. LookedInVain'
    BY <2>2 DEF LookedInVain, LookedUp
  <2>4. PgLedgerRow(pg, r) = {}
    BY <1>1, <1>2, <2>1 DEF PgSerial, LookedInVain, LookedUp
  <2>5. pg'.ledger = pg.ledger \cup {row}
    BY <1>7, <2>4
  <2>6. \A d \in PgCall : pgStage[d] = "record" <=> d = c
    BY <1>1, <2>1 DEF PgSerial, OneInHand
  <2>7. ASSUME NEW h PROVE KeysCover(h)'
    <3>1. UsedKeys(pg'.ledger, pgStage', h) = UsedKeys(pg.ledger, pgStage, h)
      BY <1>8, <1>9, <2>2, <2>5, <2>6 DEF UsedKeys
    <3> QED
      BY <1>1, <2>1, <3>1 DEF PgSerial, KeysCover, AlwaysKeyed, HashOf, KeyOf
  <2> QED
    BY <2>2, <2>3, <2>7 DEF PgSerial
<1>13. PgTablesTrue(pg, pgDone)' /\ PgDoneCounted(pgDone)'
  BY <1>10, <1>11 DEF PgTablesTrue, PgDoneCounted
<1> QED
  BY <1>5, <1>12, <1>13

-----------------------------------------------------------------------------
(* The repository keeps its promises                                         *)

\* The invariant holds of empty tables and is kept by every driver call.
THEOREM PostgresInductive ==
  /\ PostgresInit => PgInv
  /\ PgInv /\ [PostgresNext]_postgresVars => PgInv'
<1>1. ASSUME PostgresInit PROVE PgInv
  <2> USE <1>1 DEF PostgresInit
  <2>1. PgCallsTyped /\ PgAnswersTrue
    <3>1. /\ pgRead \in [PgCall -> 0..MaxVersion] /\ pgSent \in 0..MaxSends
          /\ pgOverlap \in BOOLEAN
      <4>1. 0 \in 0..MaxVersion /\ 0 \in 0..MaxSends
        BY PostgresAssumption
      <4> QED
        BY <4>1
    <3>2. \A c \in PgCall : pgStage[c] = "idle" /\ pgAnswer[c] = PgPending
      OBVIOUS
    <3>4. /\ pgStage \in [PgCall -> {"idle", "look", "read", "write", "record"}]
          /\ pgAnswer = [c \in PgCall |-> pgAnswer[c]]
      OBVIOUS
    <3>5. PgCallsTyped
      BY <3>1, <3>2, <3>4 DEF PgCallsTyped
    <3>3. PgAnswersTrue
      BY <3>2 DEF PgAnswersTrue, AnswersItsOwn, RefusalsOf
    <3> QED
      BY <3>3, <3>5
  <2>2. PgTablesTrue(pg, pgDone)
    BY DEF PgTablesTrue, EmptyPg
  <2>3. PgDoneCounted(pgDone)
    BY FS_EmptySet DEF PgDoneCounted
  <2>4. OneInHand /\ LookedInVain
    BY DEF OneInHand, LookedInVain, LookedUp
  <2>5. ASSUME NEW h PROVE KeysCover(h)
    <3>1. DoneOf(pgDone, h) = {} /\ UsedKeys(pg.ledger, pgStage, h) = {}
      BY DEF DoneOf, UsedKeys, EmptyPg
    <3> QED
      BY <3>1, FS_EmptySet DEF KeysCover
  <2> QED
    BY <2>1, <2>2, <2>3, <2>4, <2>5 DEF PgInv, PgSerial
<1>2. ASSUME PgInv, PostgresNext PROVE PgInv'
  BY <1>2, SendKeeps, GetIdempotencyKeeps, GetMemoryKeeps, WriteMemoryKeeps, DropMemoryKeeps,
     PutIdempotencyKeeps, CutShortKeeps DEF PostgresNext
<1>3. ASSUME PgInv, UNCHANGED postgresVars PROVE PgInv'
  BY <1>3 DEF postgresVars, PgInv, PgCallsTyped, PgAnswersTrue, PgTablesTrue, PgDoneCounted,
              PgSerial, OneInHand, LookedInVain, LookedUp, KeysCover, PgLedgerRow, UsedKeys, DoneOf
<1> QED
  BY <1>1, <1>2, <1>3

\* A request that is always sent under a key acts at most once per key.
LEMMA KeysCountEffects ==
  ASSUME PgInv, ~pgOverlap, NEW c \in PgCall, NoKey \notin KeysOf(SameRequest(c))
  PROVE  Cardinality(DoneOf(pgDone, HashOf(c))) <= Cardinality(KeysOf(SameRequest(c)))
<1> DEFINE h == HashOf(c)
           used == UsedKeys(pg.ledger, pgStage, h)
           keys == KeysOf(SameRequest(c))
<1>1. AlwaysKeyed(h)
  BY DEF AlwaysKeyed, KeysOf, SameRequest, HashOf, KeyOf
<1>2. Cardinality(DoneOf(pgDone, h)) <= Cardinality(used)
  BY <1>1 DEF PgInv, PgSerial, KeysCover
<1>3. used \subseteq keys
  <2>1. ASSUME NEW d \in PgCall, HashOf(d) = h PROVE KeyOf(d) \in keys
    BY <2>1 DEF KeysOf, SameRequest, HashOf, KeyOf
  <2>2. \A l \in pg.ledger : \E d \in PgCall : RecordedBy(l, d)
    BY DEF PgInv, PgTablesTrue
  <2> HIDE DEF keys, h
  <2> QED
    BY <2>1, <2>2 DEF UsedKeys, RecordedBy
<1>4. IsFiniteSet(keys)
  <2> DEFINE all == {KeyOf(d) : d \in PgCall}
             f == [d \in PgCall |-> KeyOf(d)]
  <2>1. f \in [PgCall -> all] /\ \A k \in all : \E d \in PgCall : f[d] = k
    OBVIOUS
  <2>2. f \in Surjection(PgCall, all)
    BY <2>1 DEF Surjection
  <2>3. IsFiniteSet(all)
    BY <2>2, PostgresAssumption, FS_Surjection
  <2>4. keys \subseteq all
    BY DEF KeysOf, SameRequest, KeyOf
  <2> QED
    BY <2>3, <2>4, FS_Subset
<1>5. Cardinality(used) <= Cardinality(keys) /\ Cardinality(used) \in Nat /\ Cardinality(keys) \in Nat
  BY <1>3, <1>4, FS_Subset, FS_CardinalityType
<1>6. Cardinality(DoneOf(pgDone, h)) \in Nat
  BY DoneFinite DEF PgInv
<1> QED
  BY <1>2, <1>5, <1>6

\* The invariant says what is promised.
LEMMA PostgresPromises == PgInv => PostgresTypeOK /\ PostgresIsRight
<1> SUFFICES ASSUME PgInv PROVE PostgresTypeOK /\ PostgresIsRight
  OBVIOUS
<1> USE DEF PgInv
<1>1. PostgresTypeOK
  BY DEF PostgresTypeOK, PgTablesTrue, PgCallsTyped
<1>2. ASSUME NEW c \in PgCall, pgAnswer[c].kind = "done"
      PROVE  pgAnswer[c].memory = PgRequestOf[c].memory /\ Happened(pgDone, HashOf(c))
  <2>1. pgAnswer[c] \notin RefusalsOf
    BY <1>2 DEF RefusalsOf, PgPending, PgFailed, PgConflict, PgNotFound
  <2>2. Happened(pgDone, HashOf(c))
    BY <2>1 DEF PgAnswersTrue
  <2>3. PICK d \in PgCall, v \in 0..MaxVersion :
          HashOf(d) = HashOf(c) /\ pgAnswer[c] = PgResponse(PgRequestOf[d], v)
    BY <2>1 DEF PgAnswersTrue, AnswersItsOwn
  <2>4. pgAnswer[c].memory = PgRequestOf[d].memory
    BY <2>3 DEF PgResponse
  <2> QED
    BY <2>2, <2>3, <2>4, HashNames
<1>3. PgLedgerIsTrue
  BY <1>2 DEF PgLedgerIsTrue, PgTablesTrue, Happened, HashOf
<1>4. PgKeyActsOnce
  BY KeysCountEffects DEF PgKeyActsOnce, DoneOf, HashOf
<1> QED
  BY <1>1, <1>3, <1>4 DEF PostgresIsRight

\* A key of the Postgres repository has one row, which answers what happened to
\* the request that put it; and while requests come one at a time, none cut
\* between its write and its ledger row, a request acts at most once per key.
THEOREM PostgresRight == PostgresSpec => [](PostgresTypeOK /\ PostgresIsRight)
<1>1. PostgresSpec => []PgInv
  BY PostgresInductive, PTL DEF PostgresSpec
<1> QED
  BY <1>1, PostgresPromises, PTL

-----------------------------------------------------------------------------
(* The dual run: its inductive invariant.  After requests that both adapters *)
(* promise they hold the same memories and ledger rows of the same requests; *)
(* whatever the requests, the last entry of the report is true of them.      *)

Ops == {"upsert", "delete"}
Asked == DualUpserts \cup DualDeletes
Form(op, r) == IF op = "upsert" THEN AsPgUpsert(r) ELSE AsPgDelete(r)
SqliteHash(op, r) == IF op = "upsert" THEN UpsertHash(r) ELSE DeleteHash(r)
SqliteHashes(op, r) ==
  IF op = "upsert" THEN {UpsertHash(r), LegacyUpsertHash(r)} ELSE {DeleteHash(r)}
Askable(op, r) ==
  \/ op = "upsert" /\ r \in DualUpserts /\ r.raw = 0
  \/ op = "delete" /\ r \in DualDeletes

\* The ledger row that each adapter has for a request
IsSqliteRow(l, op, r) ==
  /\ l = [tenant |-> r.tenant, operation |-> op, key |-> r.key, hash |-> SqliteHash(op, r)]
  /\ r.key # None
IsPgRow(k, op, r) ==
  /\ k.space = r.tenant /\ k.op = op /\ k.key = r.key /\ r.key # None
  /\ k.hash = PgHash(Form(op, r)) /\ \E v \in Nat : k.response = PgResponse(Form(op, r), v)
RecordedByBoth(d, s, op, r) ==
  /\ Askable(op, r)
  /\ \E l \in d.ledger : IsSqliteRow(l, op, r)
  /\ \E k \in s.ledger : IsPgRow(k, op, r)

LedgerTwins(d, s) ==
  /\ \A l \in d.ledger : \E op \in Ops, r \in Asked : RecordedByBoth(d, s, op, r) /\ IsSqliteRow(l, op, r)
  /\ \A k \in s.ledger : \E op \in Ops, r \in Asked : RecordedByBoth(d, s, op, r) /\ IsPgRow(k, op, r)
  /\ \A l, m \in d.ledger :
       l.tenant = m.tenant /\ l.operation = m.operation /\ l.key = m.key => l = m
  /\ \A k, m \in s.ledger : k.space = m.space /\ k.op = m.op /\ k.key = m.key => k = m

SameMemory(i, m) ==
  m.space = i.tenant /\ m.memory = i.memory /\ m.layer = i.layer /\ m.body = i.body
MemoryTwins(d, s) ==
  /\ \A i \in d.items : \E m \in s.memories : SameMemory(i, m)
  /\ \A m \in s.memories : \E i \in d.items : SameMemory(i, m)

PgShaped(s) ==
  /\ s = [memories |-> s.memories, ledger |-> s.ledger]
  /\ \A m \in s.memories :
       /\ m = [space |-> m.space, memory |-> m.memory, layer |-> m.layer, body |-> m.body,
               version |-> m.version]
       /\ m.version \in Nat
Twins(d, s) == LedgerTwins(d, s) /\ MemoryTwins(d, s)

Equal(d, s) ==
  NormalizeComparable(SqliteState(d)) = NormalizeComparable(PostgresState(s))

Benign == {"none", "version_field_divergence"}
StateKinds == {"snapshot_state", "snapshot_roundtrip"}
Kinds == Ops \cup StateKinds
Reasons == Benign \cup {"operation_result_mismatch", "snapshot_state_mismatch"}
ReportEntry == [kind : Kinds, reason : Reasons, waived : BOOLEAN]
ReportTrue ==
  /\ report \in Seq(ReportEntry)
  /\ \A k \in DOMAIN report : report[k].waived = (report[k].reason \in waivers)
  /\ \A k \in DOMAIN report : report[k].kind \in StateKinds =>
       report[k].reason \in Benign \cup {"snapshot_state_mismatch"}
  /\ report # <<>> /\ report[Len(report)].kind \in StateKinds
       /\ report[Len(report)].reason \in Benign => Equal(dual.sqlite, dual.postgres)

DualInv ==
  /\ dual = [sqlite |-> dual.sqlite, postgres |-> dual.postgres]
  /\ Good(dual.sqlite) /\ PgShaped(dual.postgres) /\ ReportTrue /\ DualRunTypeOK
  /\ portable => /\ Twins(dual.sqlite, dual.postgres)
                 /\ \A k \in DOMAIN report : report[k].reason \in Benign

-----------------------------------------------------------------------------
(* What is compared                                                         *)

\* Without versions, twins are equal.
LEMMA Normalized ==
  ASSUME NEW d, NEW s, PgShaped(s)
  PROVE  /\ NormalizeComparable(SqliteState(d)) =
              [memories |-> {[space |-> i.tenant, memory |-> i.memory, layer |-> i.layer,
                              body |-> i.body, version |-> 0] : i \in d.items},
               ledger |-> SqliteState(d).ledger]
         /\ NormalizeComparable(PostgresState(s)) =
              [memories |-> {[space |-> m.space, memory |-> m.memory, layer |-> m.layer,
                              body |-> m.body, version |-> 0] : m \in s.memories},
               ledger |-> PostgresState(s).ledger]
<1> DEFINE x == {[space |-> i.tenant, memory |-> i.memory, layer |-> i.layer,
                  body |-> i.body, version |-> 0] : i \in d.items}
           y == {[space |-> m.space, memory |-> m.memory, layer |-> m.layer,
                  body |-> m.body, version |-> 0] : m \in s.memories}
<1>1. SqliteState(d) = [memories |-> x, ledger |-> SqliteState(d).ledger]
  BY DEF SqliteState, NoVersion
<1>2. PostgresState(s) = [memories |-> s.memories, ledger |-> PostgresState(s).ledger]
  BY DEF PostgresState
<1>3. {[m EXCEPT !.version = 0] : m \in x} = x
  <2>1. \A i \in d.items :
          [[space |-> i.tenant, memory |-> i.memory, layer |-> i.layer,
            body |-> i.body, version |-> 0] EXCEPT !.version = 0] =
          [space |-> i.tenant, memory |-> i.memory, layer |-> i.layer,
           body |-> i.body, version |-> 0]
    OBVIOUS
  <2>2. \A m \in x : [m EXCEPT !.version = 0] = m
    BY <2>1
  <2> HIDE DEF x
  <2> QED
    BY <2>2
<1>4. {[m EXCEPT !.version = 0] : m \in s.memories} = y
  <2>1. \A m \in s.memories :
          [m EXCEPT !.version = 0] = [space |-> m.space, memory |-> m.memory, layer |-> m.layer,
                                      body |-> m.body, version |-> 0]
    BY DEF PgShaped
  <2> DEFINE bare(m) == [m EXCEPT !.version = 0]
             plain(m) == [space |-> m.space, memory |-> m.memory, layer |-> m.layer,
                          body |-> m.body, version |-> 0]
  <2>2. \A m \in s.memories : bare(m) = plain(m)
    BY <2>1
  <2> HIDE DEF bare, plain
  <2>3. {bare(m) : m \in s.memories} = {plain(m) : m \in s.memories}
    BY <2>2
  <2> QED
    BY <2>3 DEF bare, plain
<1> HIDE DEF x, y
<1>5. NormalizeComparable(SqliteState(d)) = [memories |-> x, ledger |-> SqliteState(d).ledger]
  BY <1>1, <1>3 DEF NormalizeComparable, NoVersion
<1>6. NormalizeComparable(PostgresState(s)) = [memories |-> y, ledger |-> PostgresState(s).ledger]
  BY <1>2, <1>4 DEF NormalizeComparable, NoVersion
<1> QED
  BY <1>5, <1>6 DEF x, y

\* What is without versions stays as it is when they are left out again.
LEMMA NormalizedTwice ==
  ASSUME NEW d, NEW s, PgShaped(s)
  PROVE  /\ NormalizeComparable(NormalizeComparable(SqliteState(d))) = NormalizeComparable(SqliteState(d))
         /\ NormalizeComparable(NormalizeComparable(PostgresState(s))) = NormalizeComparable(PostgresState(s))
<1>1. ASSUME NEW z, NEW l, \A m \in z : [m EXCEPT !.version = 0] = m
      PROVE  NormalizeComparable([memories |-> z, ledger |-> l]) = [memories |-> z, ledger |-> l]
  <2>1. {[m EXCEPT !.version = 0] : m \in z} = z
    BY <1>1
  <2> QED
    BY <2>1 DEF NormalizeComparable, NoVersion
<1> DEFINE plain(a, b, c, e) == [space |-> a, memory |-> b, layer |-> c, body |-> e, version |-> 0]
           x == {plain(i.tenant, i.memory, i.layer, i.body) : i \in d.items}
           y == {plain(m.space, m.memory, m.layer, m.body) : m \in s.memories}
<1>2. \A a, b, c, e : [plain(a, b, c, e) EXCEPT !.version = 0] = plain(a, b, c, e)
  OBVIOUS
<1>3. /\ NormalizeComparable(SqliteState(d)) = [memories |-> x, ledger |-> SqliteState(d).ledger]
      /\ NormalizeComparable(PostgresState(s)) = [memories |-> y, ledger |-> PostgresState(s).ledger]
  BY Normalized
<1> HIDE DEF plain
<1>4. /\ \A m \in x : [m EXCEPT !.version = 0] = m
      /\ \A m \in y : [m EXCEPT !.version = 0] = m
  BY <1>2
<1> HIDE DEF x, y
<1> QED
  BY <1>1, <1>3, <1>4

LEMMA TwinsAreEqual ==
  ASSUME NEW d, NEW s, PgShaped(s), Twins(d, s)
  PROVE  Equal(d, s)
<1>1. {[space |-> i.tenant, memory |-> i.memory, layer |-> i.layer,
        body |-> i.body, version |-> 0] : i \in d.items} =
      {[space |-> m.space, memory |-> m.memory, layer |-> m.layer,
        body |-> m.body, version |-> 0] : m \in s.memories}
  BY DEF Twins, MemoryTwins, SameMemory
<1> DEFINE row(op, r) == [space |-> r.tenant, op |-> op, key |-> r.key, memory |-> r.memory]
<1>2. ASSUME NEW op \in Ops, NEW r \in Asked, NEW l, IsSqliteRow(l, op, r)
      PROVE  [space |-> l.tenant, op |-> l.operation, key |-> l.key, memory |-> l.hash[3]] = row(op, r)
  BY <1>2 DEF IsSqliteRow, SqliteHash, UpsertHash, DeleteHash
<1>3. ASSUME NEW op \in Ops, NEW r \in Asked, NEW k, IsPgRow(k, op, r)
      PROVE  [space |-> k.space, op |-> k.op, key |-> k.key, memory |-> k.response.memory] = row(op, r)
  <2>1. PICK v \in Nat : k.response = PgResponse(Form(op, r), v)
    BY <1>3 DEF IsPgRow
  <2>2. Form(op, r).memory = r.memory
    BY DEF Form, AsPgUpsert, AsPgDelete
  <2>3. k.response.memory = r.memory
    BY <2>1, <2>2 DEF PgResponse
  <2> QED
    BY <1>3, <2>3 DEF IsPgRow
<1> HIDE DEF row
<1>4. {[space |-> l.tenant, op |-> l.operation, key |-> l.key, memory |-> l.hash[3]] : l \in d.ledger} =
      {[space |-> k.space, op |-> k.op, key |-> k.key, memory |-> k.response.memory] : k \in s.ledger}
  <2> DEFINE f(l) == [space |-> l.tenant, op |-> l.operation, key |-> l.key, memory |-> l.hash[3]]
             g(k) == [space |-> k.space, op |-> k.op, key |-> k.key, memory |-> k.response.memory]
  <2>1. \A op \in Ops, r \in Asked : \A l \in d.ledger : IsSqliteRow(l, op, r) => f(l) = row(op, r)
    BY <1>2
  <2>2. \A op \in Ops, r \in Asked : \A k \in s.ledger : IsPgRow(k, op, r) => g(k) = row(op, r)
    BY <1>3
  <2> HIDE DEF f, g
  <2>3. \A l \in d.ledger : \E k \in s.ledger : f(l) = g(k)
    BY <2>1, <2>2 DEF Twins, LedgerTwins, RecordedByBoth
  <2>4. \A k \in s.ledger : \E l \in d.ledger : f(l) = g(k)
    BY <2>1, <2>2 DEF Twins, LedgerTwins, RecordedByBoth
  <2>5. {f(l) : l \in d.ledger} = {g(k) : k \in s.ledger}
    BY <2>3, <2>4
  <2> QED
    BY <2>5 DEF f, g
<1> QED
  BY <1>1, <1>4, Normalized DEF Equal, SqliteState, PostgresState

-----------------------------------------------------------------------------
(* What a stored key answers                                                *)

\* Both adapters tell the same requests of one key apart.
LEMMA HashesAgree ==
  ASSUME NEW op \in Ops, NEW r \in Asked, NEW q \in Asked, Askable(op, r), Askable(op, q),
         r.tenant = q.tenant
  PROVE  /\ SqliteHash(op, q) \in SqliteHashes(op, r) <=> PgHash(Form(op, q)) = PgHash(Form(op, r))
         /\ SqliteHash(op, q) \in SqliteHashes(op, r) => q.memory = r.memory
<1>1. CASE op = "delete"
  BY <1>1 DEF SqliteHash, SqliteHashes, Form, AsPgDelete, PgHash, DeleteHash
<1>2. CASE op = "upsert"
  <2>1. r \in DualUpserts /\ q \in DualUpserts /\ r.raw = 0 /\ q.raw = 0
    BY <1>2 DEF Askable
  <2>2. UpsertHash(q) # LegacyUpsertHash(r)
    <3>1. Len(UpsertHash(q)) = 5 /\ Len(LegacyUpsertHash(r)) = 4
      BY DEF UpsertHash, LegacyUpsertHash
    <3> QED
      BY <3>1
  <2>3. SqliteHash(op, q) \in SqliteHashes(op, r) <=> r.memory = q.memory /\ r.body = q.body
    BY <1>2, <2>1, <2>2 DEF SqliteHash, SqliteHashes, UpsertHash
  <2>4. PgHash(Form(op, q)) = PgHash(Form(op, r)) <=>
          r.memory = q.memory /\ r.layer = q.layer /\ r.body = q.body
    BY <1>2 DEF Form, AsPgUpsert, PgHash
  <2> QED
    BY <2>1, <2>3, <2>4, DualRunAssumption
<1> QED
  BY <1>1, <1>2 DEF Ops

\* Both adapters replay, refuse or do a request.
LEMMA VerdictsAgree ==
  ASSUME NEW d, NEW s, LedgerTwins(d, s), NEW op \in Ops, NEW r \in Asked, Askable(op, r)
  PROVE  LET v == IdempotencyVerdict(d, r, op, SqliteHashes(op, r))
             a == PgReplay(s, Form(op, r))
         IN /\ v \in {"new", "replay", "conflict"}
            /\ v = "new" => /\ a = PgPending
                            /\ r.key # None => /\ LedgerRow(d, r.tenant, op, r.key) = {}
                                               /\ PgLedgerRow(s, Form(op, r)) = {}
            /\ v = "replay" => \E n \in Nat : a = PgResponse(Form(op, r), n)
            /\ v = "conflict" => a = PgConflict
<1> DEFINE v == IdempotencyVerdict(d, r, op, SqliteHashes(op, r))
           f == Form(op, r)
           a == PgReplay(s, f)
           rows == LedgerRow(d, r.tenant, op, r.key)
           kept == PgLedgerRow(s, f)
<1>1. /\ f.space = r.tenant /\ f.op = op /\ f.memory = r.memory
      /\ f.key = IF r.key = None THEN NoKey ELSE r.key
  BY DEF Form, AsPgUpsert, AsPgDelete, Ops
<1>2. CASE r.key = None
  BY <1>1, <1>2 DEF IdempotencyVerdict, PgReplay
<1>3. CASE r.key # None /\ rows = {}
  <2>1. f.key = r.key
    BY <1>1, <1>3
  <2>2. kept = {}
    <3> SUFFICES ASSUME NEW k \in kept PROVE FALSE
      OBVIOUS
    <3>1. k \in s.ledger /\ k.space = r.tenant /\ k.op = op /\ k.key = r.key
      BY <1>1, <2>1 DEF PgLedgerRow
    <3>2. PICK o \in Ops, q \in Asked : RecordedByBoth(d, s, o, q) /\ IsPgRow(k, o, q)
      BY <3>1 DEF LedgerTwins
    <3>3. PICK l \in d.ledger : IsSqliteRow(l, o, q)
      BY <3>2 DEF RecordedByBoth
    <3>4. l \in rows
      BY <3>1, <3>2, <3>3 DEF IsPgRow, IsSqliteRow, LedgerRow
    <3> QED
      BY <1>3, <3>4
  <2> QED
    BY <1>3, <2>2 DEF IdempotencyVerdict, PgReplay
<1>4. CASE r.key # None /\ rows # {}
  <2>1. PICK l \in rows : TRUE
    BY <1>4
  <2>2. l \in d.ledger /\ l.tenant = r.tenant /\ l.operation = op /\ l.key = r.key
    BY DEF LedgerRow
  <2>3. PICK o \in Ops, q \in Asked : RecordedByBoth(d, s, o, q) /\ IsSqliteRow(l, o, q)
    BY <2>2 DEF LedgerTwins
  <2>4. o = op /\ q.tenant = r.tenant /\ q.key = r.key /\ l.hash = SqliteHash(op, q)
    BY <2>2, <2>3 DEF IsSqliteRow
  <2>5. PICK k \in s.ledger : IsPgRow(k, op, q)
    BY <2>3, <2>4 DEF RecordedByBoth
  <2>6. f.key = r.key /\ f.key # NoKey
    BY <1>1, <1>4, DualRunAssumption DEF Asked
  <2>7. kept = {k}
    <3>1. k \in kept
      BY <1>1, <2>4, <2>5, <2>6 DEF IsPgRow, PgLedgerRow
    <3>2. \A m \in kept : m = k
      BY <3>1 DEF PgLedgerRow, LedgerTwins
    <3> QED
      BY <3>1, <3>2
  <2>8. rows = {l}
    BY <2>2 DEF LedgerRow, LedgerTwins
  <2>9. Askable(op, q)
    BY <2>3, <2>4 DEF RecordedByBoth
  <2>10. /\ SqliteHash(op, q) \in SqliteHashes(op, r) <=> PgHash(Form(op, q)) = PgHash(f)
         /\ SqliteHash(op, q) \in SqliteHashes(op, r) => q.memory = r.memory
    BY <2>4, <2>9, HashesAgree
  <2>11. k.hash = PgHash(Form(op, q)) /\ \E n \in Nat : k.response = PgResponse(Form(op, q), n)
    BY <2>5 DEF IsPgRow
  <2>12. a = IF k.hash = PgHash(f) THEN k.response ELSE PgConflict
    <3>1. (CHOOSE x \in kept : TRUE) = k
      BY <2>7
    <3> QED
      BY <2>6, <2>7, <3>1 DEF PgReplay
  <2>13. v = IF SqliteHash(op, q) \in SqliteHashes(op, r) THEN "replay" ELSE "conflict"
    BY <1>4, <2>4, <2>8 DEF IdempotencyVerdict
  <2> HIDE DEF a, v, f
  <2>14. CASE SqliteHash(op, q) \in SqliteHashes(op, r)
    <3>1. PICK n \in Nat : k.response = PgResponse(Form(op, q), n)
      BY <2>11
    <3>2. PgResponse(Form(op, q), n) = PgResponse(f, n)
      BY <2>4, <2>10, <2>14 DEF PgResponse, f, Form, AsPgUpsert, AsPgDelete
    <3>3. a = PgResponse(f, n) /\ v = "replay"
      BY <2>10, <2>11, <2>12, <2>13, <2>14, <3>1, <3>2
    <3> QED
      BY <3>3 DEF a, v, f
  <2>15. CASE SqliteHash(op, q) \notin SqliteHashes(op, r)
    <3>1. a = PgConflict /\ v = "conflict"
      BY <2>10, <2>11, <2>12, <2>13, <2>15
    <3> QED
      BY <3>1 DEF a, v, f
  <2> QED
    BY <2>14, <2>15
<1> QED
  BY <1>2, <1>3, <1>4

-----------------------------------------------------------------------------
(* What a request does to both adapters                                     *)

\* A key that neither knows is recorded by both.
LEMMA BothRecord ==
  ASSUME NEW d, NEW s, NEW e, NEW z, NEW op \in Ops, NEW r \in Asked, NEW n \in Nat,
         LedgerTwins(d, s), Askable(op, r),
         r.key # None => /\ LedgerRow(d, r.tenant, op, r.key) = {}
                         /\ PgLedgerRow(s, Form(op, r)) = {},
         e.ledger = PersistIdempotency(d, r, op, SqliteHash(op, r)),
         z.ledger = IF Form(op, r).key = NoKey THEN s.ledger
                    ELSE (s.ledger \ PgLedgerRow(s, Form(op, r))) \cup
                      {[space |-> Form(op, r).space, op |-> Form(op, r).op,
                        key |-> Form(op, r).key, hash |-> PgHash(Form(op, r)),
                        response |-> PgResponse(Form(op, r), n)]}
  PROVE  LedgerTwins(e, z)
<1> DEFINE f == Form(op, r)
           l0 == [tenant |-> r.tenant, operation |-> op, key |-> r.key,
                  hash |-> SqliteHash(op, r)]
           k0 == [space |-> f.space, op |-> f.op, key |-> f.key, hash |-> PgHash(f),
                  response |-> PgResponse(f, n)]
<1>1. /\ f.space = r.tenant /\ f.op = op /\ f.memory = r.memory
      /\ f.key = IF r.key = None THEN NoKey ELSE r.key
  BY DEF Form, AsPgUpsert, AsPgDelete, Ops
<1>2. CASE r.key = None
  <2>1. e.ledger = d.ledger /\ z.ledger = s.ledger
    BY <1>1, <1>2 DEF PersistIdempotency
  <2> QED
    BY <2>1 DEF LedgerTwins, RecordedByBoth
<1>3. CASE r.key # None
  <2>1. f.key = r.key /\ f.key # NoKey
    BY <1>1, <1>3, DualRunAssumption DEF Asked
  <2>2. IsSqliteRow(l0, op, r)
    BY <1>3 DEF IsSqliteRow
  <2>3. IsPgRow(k0, op, r)
    BY <1>1, <1>3, <2>1 DEF IsPgRow
  <2>4. e.ledger = d.ledger \cup {l0}
    BY <1>3 DEF PersistIdempotency
  <2>5. z.ledger = s.ledger \cup {k0}
    BY <1>3, <2>1
  <2>6. \A l \in d.ledger : ~(l.tenant = r.tenant /\ l.operation = op /\ l.key = r.key)
    BY <1>3 DEF LedgerRow
  <2>7. \A k \in s.ledger : ~(k.space = r.tenant /\ k.op = op /\ k.key = r.key)
    BY <1>1, <1>3, <2>1 DEF PgLedgerRow
  <2>8. /\ l0.tenant = r.tenant /\ l0.operation = op /\ l0.key = r.key
        /\ k0.space = r.tenant /\ k0.op = op /\ k0.key = r.key
    BY <1>1, <2>1
  <2> HIDE DEF l0, k0, f
  <2>9. RecordedByBoth(e, z, op, r)
    BY <2>2, <2>3, <2>4, <2>5 DEF RecordedByBoth
  <2>10. \A o \in Ops, q \in Asked : RecordedByBoth(d, s, o, q) => RecordedByBoth(e, z, o, q)
    BY <2>4, <2>5 DEF RecordedByBoth
  <2>11. \A l \in e.ledger : \E o \in Ops, q \in Asked : RecordedByBoth(e, z, o, q) /\ IsSqliteRow(l, o, q)
    BY <2>2, <2>4, <2>9, <2>10 DEF LedgerTwins
  <2>12. \A k \in z.ledger : \E o \in Ops, q \in Asked : RecordedByBoth(e, z, o, q) /\ IsPgRow(k, o, q)
    BY <2>3, <2>5, <2>9, <2>10 DEF LedgerTwins
  <2>13. \A l, m \in e.ledger :
           l.tenant = m.tenant /\ l.operation = m.operation /\ l.key = m.key => l = m
    BY <2>4, <2>6, <2>8 DEF LedgerTwins
  <2>14. \A k, m \in z.ledger : k.space = m.space /\ k.op = m.op /\ k.key = m.key => k = m
    BY <2>5, <2>7, <2>8 DEF LedgerTwins
  <2> QED
    BY <2>11, <2>12, <2>13, <2>14 DEF LedgerTwins
<1> QED
  BY <1>2, <1>3

\* The row that a newer write puts, and the ledger row of its key
LEMMA RowUpserted ==
  ASSUME NEW d, NEW r, Good(d), Reason(d, r) \in {"inserted", "updated"}
  PROVE  LET e == Upserted(d, r)  i == NewRow(d, r)
         IN /\ e.items = (d.items \ RowsAt(d, r.tenant, r.memory)) \cup {i}
            /\ e.ledger = PersistIdempotency(d, r, "upsert", UpsertHash(r))
            /\ i.tenant = r.tenant /\ i.memory = r.memory
            /\ i.layer = r.layer /\ i.body = r.body
<1> DEFINE placed == [d EXCEPT !.scopes = ResolveScopes(d, r)]
           i == NewRow(d, r)
           written == PutRow(placed, i)
           at == RowAt(written, r.tenant, r.memory).times.updated
           event == Event(r, "upsert", Reason(d, r), <<r.layer, r.body, at>>, at)
           logged == PersistIdempotency(d, r, "upsert", UpsertHash(r))
           effects == IF r.key = None \/ written.items = d.items THEN written.effects
                      ELSE written.effects \cup
                             {<<r.tenant, "upsert", r.key, Cardinality(written.effects)>>}
           e == Upserted(d, r)
<1>1. /\ i.tenant = r.tenant /\ i.memory = r.memory /\ i.layer = r.layer /\ i.body = r.body
  BY DEF NewRow
<1>2. IsDb(placed) /\ placed.items = d.items
  BY DEF Good, IsDb
<1>3. e = [written EXCEPT !.audit = @ \cup {event}, !.ledger = logged, !.effects = effects]
  <2>1. (IF Reason(d, r) \in {"inserted", "updated"} THEN PutRow(placed, i) ELSE placed) = written
    OBVIOUS
  <2>2. e = [written EXCEPT !.audit = @ \cup {event}, !.ledger = logged,
                            !.effects = IF r.key = None \/ written.items = d.items THEN @
                     ELSE @ \cup {<<r.tenant, "upsert", r.key, Cardinality(@)>>}]
    BY <2>1 DEF Upserted
  <2> HIDE DEF written, event, logged
  <2> QED
    BY <2>2
<1> HIDE DEF i, placed
<1>4. /\ IsDb(written)
      /\ written.items = (placed.items \ RowsAt(placed, i.tenant, i.memory)) \cup {i}
  BY <1>2, RowPut
<1> HIDE DEF written, event, logged, effects, e
<1>5. e.items = written.items /\ e.ledger = logged
  BY <1>3, <1>4 DEF IsDb
<1>6. RowsAt(placed, i.tenant, i.memory) = RowsAt(d, r.tenant, r.memory)
  BY <1>1, <1>2 DEF RowsAt
<1> QED
  BY <1>1, <1>2, <1>4, <1>5, <1>6 DEF e, i, logged

\* The rows that a delete leaves, and the ledger row of its key
LEMMA RowDeleted ==
  ASSUME NEW d, NEW r, Good(d)
  PROVE  LET e == Deleted(d, r)
         IN /\ e.items = {i \in d.items : ~(i.tenant = r.tenant /\
                            i.memory \in CascadeClosure(d, r.tenant, r.memory))}
            /\ e.ledger = PersistIdempotency(d, r, "delete", DeleteHash(r))
<1> DEFINE t == r.tenant
           ms == CascadeClosure(d, t, r.memory)
           remain == {i \in d.items : ~(i.tenant = t /\ i.memory \in ms)}
           evs == {l \in d.evLinks : ~(l[1] = t /\ l[2] \in ms)}
           provs == {l \in d.provLinks : ~(l[1] = t /\ l[2] \in ms)}
           left == RemoveRows(d, t, ms)
           event == Event(r, "delete", "deleted", None,
                          RowAt(d, r.tenant, r.memory).times.updated)
           logged == PersistIdempotency(d, r, "delete", DeleteHash(r))
           effects == IF r.key = None THEN left.effects
                      ELSE left.effects \cup {<<r.tenant, "delete", r.key, Cardinality(left.effects)>>}
           e == Deleted(d, r)
<1>1. e = [left EXCEPT !.audit = @ \cup {event}, !.ledger = logged, !.effects = effects]
  <2>1. e = [left EXCEPT !.audit = @ \cup {event}, !.ledger = logged,
               !.effects = IF r.key = None THEN @
                           ELSE @ \cup {<<r.tenant, "delete", r.key, Cardinality(@)>>}]
    BY DEF Deleted
  <2> HIDE DEF left, event, logged, e
  <2> QED
    BY <2>1
<1>2. left = [d EXCEPT !.items = remain, !.evLinks = evs, !.provLinks = provs]
  BY DEF RemoveRows
<1> HIDE DEF remain, evs, provs, left, event, logged, effects, e
<1>3. IsDb(left) /\ left.items = remain
  BY <1>2 DEF Good, IsDb
<1>4. e.items = remain /\ e.ledger = logged
  BY <1>1, <1>3 DEF IsDb
<1> QED
  BY <1>4 DEF e, remain, logged

\* A portable upsert is answered alike and leaves twins.
LEMMA UpsertsAgree ==
  ASSUME NEW d, NEW s, NEW r \in DualUpserts, Good(d), PgShaped(s), Twins(d, s),
         PortableUpsert(d, r)
  PROVE  /\ SqliteUpsertOutcome(d, r) = StripAdapterSpecificFields(PgOutcome(s, AsPgUpsert(r)))
         /\ Twins(UpsertMemory(d, r), PgApply(s, AsPgUpsert(r)))
<1> DEFINE f == AsPgUpsert(r)
           v == IdempotencyVerdict(d, r, "upsert", {UpsertHash(r), LegacyUpsertHash(r)})
           a == PgReplay(s, f)
           e == UpsertMemory(d, r)
           z == PgApply(s, f)
           x == SqliteUpsertOutcome(d, r)
           y == PgOutcome(s, f)
           n == PgVersion(s, f) + 1
<1>1. /\ f.space = r.tenant /\ f.op = "upsert" /\ f.memory = r.memory
      /\ f.layer = r.layer /\ f.body = r.body
  BY DEF AsPgUpsert
<1>2. Askable("upsert", r) /\ r \in Asked /\ "upsert" \in Ops /\ f = Form("upsert", r)
  BY DEF PortableUpsert, Askable, Asked, Ops, Form
<1>3. /\ v \in {"new", "replay", "conflict"}
      /\ v = "new" => /\ a = PgPending
                      /\ r.key # None => /\ LedgerRow(d, r.tenant, "upsert", r.key) = {}
                                         /\ PgLedgerRow(s, f) = {}
      /\ v = "replay" => \E k \in Nat : a = PgResponse(f, k)
      /\ v = "conflict" => a = PgConflict
  <2>1. {UpsertHash(r), LegacyUpsertHash(r)} = SqliteHashes("upsert", r)
    BY DEF SqliteHashes
  <2> HIDE DEF f
  <2> QED
    BY <1>2, <2>1, VerdictsAgree DEF Twins
<1>4. \A k : /\ PgResponse(f, k) # PgPending
             /\ StripAdapterSpecificFields(PgResponse(f, k)) = Done("upsert", r)
  <2>1. \A k : /\ PgResponse(f, k).kind = "done" /\ PgResponse(f, k).op = "upsert"
               /\ PgResponse(f, k).space = r.tenant /\ PgResponse(f, k).memory = r.memory
    BY <1>1 DEF PgResponse
  <2> QED
    BY <2>1 DEF PgPending, StripAdapterSpecificFields, Done
<1>5. ParsePayloadProjection(r) /\ AssertScopeAuthorization(d, r)
  BY DEF PortableUpsert, AssertScopeAuthorization
<1>6. CASE v = "replay"
  <2>1. x = Done("upsert", r) /\ e = d
    <3> HIDE DEF v
    <3> QED
      BY <1>5, <1>6 DEF SqliteUpsertOutcome, UpsertMemory, v
  <2>2. PICK k \in Nat : a = PgResponse(f, k)
    BY <1>3, <1>6
  <2> HIDE DEF f, a
  <2>3. y = a /\ z = s
    BY <1>4, <2>2 DEF PgOutcome, PgApply, a
  <2> QED
    BY <1>4, <2>1, <2>2, <2>3 DEF f
<1>7. CASE v = "conflict"
  <2>1. x = [kind |-> "conflict"] /\ e = d
    <3> HIDE DEF v
    <3> QED
      BY <1>5, <1>7 DEF SqliteUpsertOutcome, UpsertMemory, v, IdempotencyConflict, Contract
  <2>2. a = [kind |-> "conflict"] /\ a # PgPending
    BY <1>3, <1>7 DEF PgConflict, PgPending
  <2> HIDE DEF f, a
  <2>3. y = a /\ z = s
    BY <2>2 DEF PgOutcome, PgApply, a
  <2>4. StripAdapterSpecificFields(y) = [kind |-> "conflict"]
    BY <2>2, <2>3 DEF StripAdapterSpecificFields
  <2> QED
    BY <2>1, <2>3, <2>4 DEF f
<1>8. CASE v = "new"
  <2>1. FirstBad(References(d, r)) = "none"
    <3>1. References(d, r) = <<"own", "own", "own", "own", "own", "own">>
      BY DEF PortableUpsert, References, MiddleAnchor, UserParentConflicts
    <3>2. {k \in DOMAIN References(d, r) :
             References(d, r)[k] \in {"foreign", "unknown"}} = {}
      BY <3>1
    <3> QED
      BY <3>2 DEF FirstBad
  <2>2. /\ ~ConstraintFails(d, r) /\ ProvenanceImmutable(d, r)
        /\ Reason(d, r) \in {"inserted", "updated"}
    BY <1>8 DEF PortableUpsert
  <2>3. x = Done("upsert", r) /\ e = Upserted(d, r)
    <3> HIDE DEF v
    <3> QED
      BY <1>5, <1>8, <2>1, <2>2 DEF SqliteUpsertOutcome, UpsertMemory, v
  <2>4. a = PgPending
    BY <1>3, <1>8
  <2>5. y = PgResponse(f, n) /\ z = PgUpsert(s, f)
    <3> HIDE DEF f, a, n
    <3> QED
      BY <1>1, <2>4 DEF PgOutcome, PgApply, a, n
  <2>6. n \in Nat
    <3>1. PgVersion(s, f) \in Nat
      <4>1. PgRow(s, f.space, f.memory) # {} =>
              (CHOOSE m \in PgRow(s, f.space, f.memory) : TRUE) \in s.memories
        BY DEF PgRow
      <4> QED
        BY <4>1 DEF PgVersion, PgShaped
    <3> QED
      BY <3>1
  <2> DEFINE i == NewRow(d, r)
             m0 == [space |-> f.space, memory |-> f.memory, layer |-> f.layer,
                    body |-> f.body, version |-> n]
             put == PgPutMemory(s, f, n)
             row == [space |-> f.space, op |-> f.op, key |-> f.key, hash |-> PgHash(f),
                     response |-> PgResponse(f, n)]
  <2>7. /\ e.items = (d.items \ RowsAt(d, r.tenant, r.memory)) \cup {i}
        /\ e.ledger = PersistIdempotency(d, r, "upsert", UpsertHash(r))
        /\ i.tenant = r.tenant /\ i.memory = r.memory /\ i.layer = r.layer /\ i.body = r.body
    BY <2>2, <2>3, RowUpserted
  <2>8. /\ put.memories = (s.memories \ PgRow(s, f.space, f.memory)) \cup {m0}
        /\ put.ledger = s.ledger /\ put = [memories |-> put.memories, ledger |-> put.ledger]
    BY DEF PgShaped, PgPutMemory
  <2>9. /\ z.memories = put.memories
        /\ z.ledger = IF f.key = NoKey THEN s.ledger
                      ELSE (s.ledger \ PgLedgerRow(s, f)) \cup {row}
    <3>1. z = PgPutIdempotency(put, f, PgResponse(f, n))
      BY <2>5 DEF PgUpsert
    <3>2. PgLedgerRow(put, f) = PgLedgerRow(s, f)
      BY <2>8 DEF PgLedgerRow
    <3> HIDE DEF put, f, z, n
    <3> QED
      BY <2>8, <3>1, <3>2 DEF PgPutIdempotency
  <2> HIDE DEF i, put, n, e, z
  <2>10. LedgerTwins(e, z)
    <3>1. UpsertHash(r) = SqliteHash("upsert", r)
      BY DEF SqliteHash
    <3>2. LedgerTwins(d, s)
      BY DEF Twins
    <3>3. r.key # None => /\ LedgerRow(d, r.tenant, "upsert", r.key) = {}
                          /\ PgLedgerRow(s, f) = {}
      BY <1>3, <1>8
    <3> HIDE DEF f
    <3> QED
      BY <1>2, <2>6, <2>7, <2>9, <3>1, <3>2, <3>3, BothRecord
  <2>11. MemoryTwins(e, z)
    <3>1. SameMemory(i, m0)
      BY <1>1, <2>7 DEF SameMemory
    <3>2. \A j, m : SameMemory(j, m) =>
            (j \in RowsAt(d, r.tenant, r.memory) <=> j \in d.items /\ m.space = f.space /\ m.memory = f.memory)
      BY <1>1 DEF SameMemory, RowsAt
    <3> HIDE DEF f, m0
    <3> QED
      BY <2>7, <2>8, <2>9, <3>1, <3>2 DEF Twins, MemoryTwins, PgRow
  <2> QED
    BY <1>4, <2>3, <2>5, <2>10, <2>11 DEF Twins, e, z
<1> QED
  BY <1>3, <1>6, <1>7, <1>8

\* So is a portable delete.
LEMMA DeletesAgree ==
  ASSUME NEW d, NEW s, NEW r \in DualDeletes, Good(d), PgShaped(s), Twins(d, s),
         PortableDelete(d, r)
  PROVE  /\ SqliteDeleteOutcome(d, r) = StripAdapterSpecificFields(PgOutcome(s, AsPgDelete(r)))
         /\ Twins(DeleteMemory(d, r), PgApply(s, AsPgDelete(r)))
<1> DEFINE f == AsPgDelete(r)
           v == IdempotencyVerdict(d, r, "delete", {DeleteHash(r)})
           a == PgReplay(s, f)
           e == DeleteMemory(d, r)
           z == PgApply(s, f)
           x == SqliteDeleteOutcome(d, r)
           y == PgOutcome(s, f)
<1>1. f.space = r.tenant /\ f.op = "delete" /\ f.memory = r.memory
  BY DEF AsPgDelete
<1>2. Askable("delete", r) /\ r \in Asked /\ "delete" \in Ops /\ f = Form("delete", r)
  BY DEF Askable, Asked, Ops, Form
<1>3. /\ v \in {"new", "replay", "conflict"}
      /\ v = "new" => /\ a = PgPending
                      /\ r.key # None => /\ LedgerRow(d, r.tenant, "delete", r.key) = {}
                                         /\ PgLedgerRow(s, f) = {}
      /\ v = "replay" => \E k \in Nat : a = PgResponse(f, k)
      /\ v = "conflict" => a = PgConflict
  <2>1. {DeleteHash(r)} = SqliteHashes("delete", r)
    BY DEF SqliteHashes
  <2> HIDE DEF f
  <2> QED
    BY <1>2, <2>1, VerdictsAgree DEF Twins
<1>4. \A k : /\ PgResponse(f, k) # PgPending
             /\ StripAdapterSpecificFields(PgResponse(f, k)) = Done("delete", r)
  <2>1. \A k : /\ PgResponse(f, k).kind = "done" /\ PgResponse(f, k).op = "delete"
               /\ PgResponse(f, k).space = r.tenant /\ PgResponse(f, k).memory = r.memory
    BY <1>1 DEF PgResponse
  <2> QED
    BY <2>1 DEF PgPending, StripAdapterSpecificFields, Done
<1>5. AssertDeleteAuthorization(d, r)
  BY DEF PortableDelete, AssertDeleteAuthorization
<1>6. RowsAt(d, r.tenant, r.memory) = {} <=> PgRow(s, f.space, f.memory) = {}
  BY <1>1 DEF Twins, MemoryTwins, SameMemory, RowsAt, PgRow
<1>7. CASE v = "replay"
  <2>1. x = Done("delete", r) /\ e = d
    <3> HIDE DEF v
    <3> QED
      BY <1>5, <1>7 DEF SqliteDeleteOutcome, DeleteMemory, v
  <2>2. PICK k \in Nat : a = PgResponse(f, k)
    BY <1>3, <1>7
  <2> HIDE DEF f, a
  <2>3. y = a /\ z = s
    BY <1>4, <2>2 DEF PgOutcome, PgApply, a
  <2> QED
    BY <1>4, <2>1, <2>2, <2>3 DEF f
<1>8. CASE v = "conflict"
  <2>1. x = [kind |-> "conflict"] /\ e = d
    <3> HIDE DEF v
    <3> QED
      BY <1>5, <1>8 DEF SqliteDeleteOutcome, DeleteMemory, v, IdempotencyConflict, Contract
  <2>2. a = [kind |-> "conflict"] /\ a # PgPending
    BY <1>3, <1>8 DEF PgConflict, PgPending
  <2> HIDE DEF f, a
  <2>3. y = a /\ z = s
    BY <2>2 DEF PgOutcome, PgApply, a
  <2>4. StripAdapterSpecificFields(y) = [kind |-> "conflict"]
    BY <2>2, <2>3 DEF StripAdapterSpecificFields
  <2> QED
    BY <2>1, <2>3, <2>4 DEF f
<1>9. CASE v = "new" /\ RowsAt(d, r.tenant, r.memory) = {}
  <2>1. MemoryStatus(d, r.tenant, r.memory) = "dangling"
    BY <1>9 DEF PortableDelete, MemoryStatus
  <2>2. x = [kind |-> "not_found"] /\ e.items = d.items /\ e.ledger = d.ledger
    <3>1. x = [kind |-> "not_found"]
      <4> HIDE DEF v
      <4> QED
        BY <1>5, <1>9, <2>1 DEF SqliteDeleteOutcome, v, Contract
    <3>2. e = PersistFailure(d, r, "delete", "not_found", None)
      <4> HIDE DEF v
      <4> QED
        BY <1>5, <1>9, <2>1 DEF DeleteMemory, v
    <3> DEFINE audit == d.audit \cup {Event(r, "delete", "not_found", None,
                          Cardinality(FailureEvents(d, r, "delete", "not_found", None)))}
    <3>3. e = [d EXCEPT !.audit = audit]
      BY <3>2 DEF PersistFailure
    <3> HIDE DEF audit, e
    <3>4. e.items = d.items /\ e.ledger = d.ledger
      BY <3>3 DEF Good, IsDb
    <3> QED
      BY <3>1, <3>4 DEF e
  <2>3. a = PgPending /\ PgRow(s, f.space, f.memory) = {}
    BY <1>3, <1>6, <1>9
  <2>4. y = [kind |-> "not_found"] /\ z = s
    <3> HIDE DEF f, a
    <3> QED
      BY <1>1, <2>3 DEF PgOutcome, PgApply, PgNotFound, a
  <2>5. StripAdapterSpecificFields(y) = [kind |-> "not_found"]
    BY <2>4 DEF StripAdapterSpecificFields
  <2>6. Twins(e, z)
    <3> HIDE DEF e, z
    <3> QED
      BY <2>2, <2>4 DEF Twins, LedgerTwins, RecordedByBoth, MemoryTwins
  <2> QED
    BY <2>2, <2>5, <2>6
<1>10. CASE v = "new" /\ RowsAt(d, r.tenant, r.memory) # {}
  <2>1. x = Done("delete", r) /\ e = Deleted(d, r)
    <3>1. MemoryStatus(d, r.tenant, r.memory) = "own"
      BY <1>10 DEF MemoryStatus
    <3> HIDE DEF v
    <3> QED
      BY <1>5, <1>10, <3>1 DEF SqliteDeleteOutcome, DeleteMemory, v
  <2>2. a = PgPending /\ PgRow(s, f.space, f.memory) # {}
    BY <1>3, <1>6, <1>10
  <2>3. y = PgResponse(f, 0) /\ z = PgDelete(s, f)
    <3> HIDE DEF f, a
    <3> QED
      BY <1>1, <2>2 DEF PgOutcome, PgApply, a
  <2> DEFINE drop == PgDropMemory(s, f)
             row == [space |-> f.space, op |-> f.op, key |-> f.key, hash |-> PgHash(f),
                     response |-> PgResponse(f, 0)]
             ms == CascadeClosure(d, r.tenant, r.memory)
  <2>4. ms = {r.memory}
    <3>1. r.memory \in Ancestors(d, r.tenant, r.memory)
      BY OwnAncestor, RequestAssumption, DualRunAssumption
    <3>2. r.memory \in ms
      BY <1>10, <3>1 DEF CascadeClosure, RowsAt
    <3> QED
      BY <3>2 DEF PortableDelete
  <2>5. /\ e.items = {i \in d.items : ~(i.tenant = r.tenant /\ i.memory = r.memory)}
        /\ e.ledger = PersistIdempotency(d, r, "delete", DeleteHash(r))
    BY <2>1, <2>4, RowDeleted
  <2>6. /\ drop.memories = s.memories \ PgRow(s, f.space, f.memory)
        /\ drop.ledger = s.ledger /\ drop = [memories |-> drop.memories, ledger |-> drop.ledger]
    <3>1. s = [memories |-> s.memories, ledger |-> s.ledger]
      BY DEF PgShaped
    <3>2. drop = [s EXCEPT !.memories = s.memories \ PgRow(s, f.space, f.memory)]
      BY DEF PgDropMemory
    <3> HIDE DEF drop, f
    <3> QED
      BY ONLY <3>1, <3>2
  <2>7. /\ z.memories = drop.memories
        /\ z.ledger = IF f.key = NoKey THEN s.ledger
                      ELSE (s.ledger \ PgLedgerRow(s, f)) \cup {row}
    <3>1. z = PgPutIdempotency(drop, f, PgResponse(f, 0))
      BY <2>3 DEF PgDelete
    <3>2. PgLedgerRow(drop, f) = PgLedgerRow(s, f)
      BY <2>6 DEF PgLedgerRow
    <3> HIDE DEF drop, f, z
    <3> QED
      BY <2>6, <3>1, <3>2 DEF PgPutIdempotency
  <2> HIDE DEF drop, e, z
  <2>8. LedgerTwins(e, z)
    <3>1. DeleteHash(r) = SqliteHash("delete", r) /\ 0 \in Nat
      BY DEF SqliteHash
    <3>2. /\ LedgerTwins(d, s)
          /\ e.ledger = PersistIdempotency(d, r, "delete", SqliteHash("delete", r))
      BY <2>5, <3>1 DEF Twins
    <3>3. r.key # None => /\ LedgerRow(d, r.tenant, "delete", r.key) = {}
                          /\ PgLedgerRow(s, f) = {}
      BY <1>3, <1>10
    <3> HIDE DEF f
    <3> QED
      BY ONLY <1>2, <2>7, <3>1, <3>2, <3>3, BothRecord
  <2>9. MemoryTwins(e, z)
    <3> HIDE DEF f
    <3> QED
      BY <1>1, <2>5, <2>6, <2>7 DEF Twins, MemoryTwins, SameMemory, PgRow
  <2> QED
    BY <1>4, <2>1, <2>3, <2>8, <2>9 DEF Twins, e, z
<1> QED
  BY <1>3, <1>7, <1>8, <1>9, <1>10

\* The tables of Postgres keep their form.
LEMMA PgStaysShaped ==
  ASSUME NEW s, NEW f, PgShaped(s)
  PROVE  PgShaped(PgApply(s, f))
<1> DEFINE n == PgVersion(s, f) + 1
           m0 == [space |-> f.space, memory |-> f.memory, layer |-> f.layer,
                  body |-> f.body, version |-> n]
           put == PgPutMemory(s, f, n)
           drop == PgDropMemory(s, f)
<1>1. ASSUME NEW t, NEW a, PgShaped(t) PROVE PgShaped(PgPutIdempotency(t, f, a))
  <2> DEFINE logged == (t.ledger \ PgLedgerRow(t, f)) \cup
                         {[space |-> f.space, op |-> f.op, key |-> f.key,
                           hash |-> PgHash(f), response |-> a]}
             w == [t EXCEPT !.ledger = logged]
  <2>1. w = [memories |-> w.memories, ledger |-> w.ledger] /\ w.memories = t.memories
    <3> HIDE DEF logged
    <3> QED
      BY <1>1 DEF PgShaped
  <2>2. PgShaped(w)
    <3> HIDE DEF w
    <3> QED
      BY <1>1, <2>1 DEF PgShaped
  <2>3. PgPutIdempotency(t, f, a) = IF f.key = NoKey THEN t ELSE w
    BY DEF PgPutIdempotency
  <2> HIDE DEF w
  <2> QED
    BY <1>1, <2>2, <2>3
<1>2. n \in Nat
  <2>1. PgRow(s, f.space, f.memory) # {} =>
          (CHOOSE m \in PgRow(s, f.space, f.memory) : TRUE) \in s.memories
    BY DEF PgRow
  <2>2. PgVersion(s, f) \in Nat
    BY <2>1 DEF PgVersion, PgShaped
  <2> QED
    BY <2>2
<1>3. PgShaped(put)
  <2>1. /\ put.memories = (s.memories \ PgRow(s, f.space, f.memory)) \cup {m0}
        /\ put = [memories |-> put.memories, ledger |-> put.ledger]
    <3> DEFINE memories == (s.memories \ PgRow(s, f.space, f.memory)) \cup {m0}
    <3>1. put = [s EXCEPT !.memories = memories]
      BY DEF PgPutMemory
    <3> HIDE DEF put, memories
    <3>2. put.memories = memories /\ put = [memories |-> put.memories, ledger |-> put.ledger]
      BY <3>1 DEF PgShaped
    <3> QED
      BY <3>2 DEF memories
  <2>2. /\ m0 = [space |-> m0.space, memory |-> m0.memory, layer |-> m0.layer,
                 body |-> m0.body, version |-> m0.version]
        /\ m0.version \in Nat
    BY <1>2
  <2> HIDE DEF put, m0
  <2> QED
    BY <2>1, <2>2 DEF PgShaped
<1>4. PgShaped(drop)
  <2>1. /\ drop.memories = s.memories \ PgRow(s, f.space, f.memory)
        /\ drop = [memories |-> drop.memories, ledger |-> drop.ledger]
    BY DEF PgDropMemory, PgShaped
  <2> HIDE DEF drop
  <2> QED
    BY <2>1 DEF PgShaped
<1>5. PgShaped(PgUpsert(s, f))
  BY <1>1, <1>3 DEF PgUpsert
<1>6. PgShaped(PgDelete(s, f))
  BY <1>1, <1>4 DEF PgDelete
<1> QED
  BY <1>5, <1>6 DEF PgApply

-----------------------------------------------------------------------------
(* The report                                                               *)

\* A comparison finds no more than versions apart just when there is no more.
LEMMA ComparisonIsExact ==
  ASSUME NEW d, NEW s, PgShaped(s)
  PROVE  LET a == StateMismatchReason(SqliteState(d), PostgresState(s))
             b == StateMismatchReason(NormalizeComparable(SqliteState(RoundtripState(d))),
                                      NormalizeComparable(PostgresState(PgRoundtripState(s))))
         IN /\ a \in Benign \cup {"snapshot_state_mismatch"}
            /\ b \in Benign \cup {"snapshot_state_mismatch"}
            /\ a \in Benign <=> Equal(d, s)
            /\ b \in Benign <=> Equal(d, s)
<1> DEFINE x == SqliteState(d)  y == PostgresState(s)
<1>1. RoundtripState(d) = d /\ PgRoundtripState(s) = s
  BY DEF RoundtripState, PgRoundtripState, ImportSnapshot, PgImport, EmptyDb
<1>2. /\ NormalizeComparable(NormalizeComparable(x)) = NormalizeComparable(x)
      /\ NormalizeComparable(NormalizeComparable(y)) = NormalizeComparable(y)
  BY NormalizedTwice
<1> HIDE DEF x, y
<1> QED
  BY <1>1, <1>2 DEF StateMismatchReason, Benign, Equal, x, y

\* An entry that says what the stores are keeps the report true.
LEMMA ReportGrows ==
  ASSUME ReportTrue, DualRunTypeOK, NEW kind \in Kinds, NEW reason \in Reasons,
         Compared(kind, reason),
         kind \in StateKinds =>
           /\ reason \in Benign \cup {"snapshot_state_mismatch"}
           /\ reason \in Benign => Equal(dual'.sqlite, dual'.postgres)
  PROVE  /\ ReportTrue' /\ waivers' \in WaiverSets /\ Len(report') <= MaxOperations
         /\ reason \in Benign /\ (\A k \in DOMAIN report : report[k].reason \in Benign)
              => \A k \in DOMAIN report' : report'[k].reason \in Benign
<1> DEFINE x == [kind |-> kind, reason |-> reason, waived |-> reason \in waivers]
<1>1. report \in Seq(ReportEntry) /\ x \in ReportEntry
  BY DEF ReportTrue, ReportEntry
<1>2. report' = Append(report, x) /\ waivers' = waivers /\ Len(report) < MaxOperations
  BY DEF Compared
<1>3. x.kind = kind /\ x.reason = reason /\ x.waived = (reason \in waivers)
  OBVIOUS
<1> HIDE DEF x, ReportEntry
<1>4. /\ report' \in Seq(ReportEntry) /\ Len(report') = Len(report) + 1 /\ Len(report) \in Nat
      /\ DOMAIN report = 1..Len(report) /\ DOMAIN report' = 1..(Len(report) + 1)
      /\ report'[Len(report) + 1] = x
      /\ \A k \in 1..Len(report) : report'[k] = report[k]
  BY <1>1, <1>2
<1>5. \A k \in DOMAIN report' : (k \in DOMAIN report /\ report'[k] = report[k]) \/ report'[k] = x
  BY <1>4
<1>6. report' # <<>> /\ report'[Len(report')] = x
  BY <1>4
<1>7. ReportTrue'
  <2>1. \A k \in DOMAIN report' : report'[k].waived = (report'[k].reason \in waivers)
    BY <1>3, <1>5 DEF ReportTrue
  <2>2. \A k \in DOMAIN report' : report'[k].kind \in StateKinds =>
          report'[k].reason \in Benign \cup {"snapshot_state_mismatch"}
    BY <1>3, <1>5 DEF ReportTrue
  <2>3. report'[Len(report')].kind \in StateKinds /\ report'[Len(report')].reason \in Benign
          => Equal(dual'.sqlite, dual'.postgres)
    BY <1>3, <1>6
  <2> QED
    BY <1>2, <1>4, <2>1, <2>2, <2>3 DEF ReportTrue, ReportEntry
<1>8. Len(report') <= MaxOperations
  BY <1>2, <1>4, DualRunAssumption
<1> QED
  BY <1>2, <1>3, <1>5, <1>7, <1>8 DEF DualRunTypeOK

\* Empty stores are twins.
LEMMA DualInitial ==
  ASSUME DualRunInit PROVE DualInv
<1>1. Good(dual.sqlite)
  BY EmptyIsGood DEF DualRunInit
<1>2. PgShaped(dual.postgres) /\ Twins(dual.sqlite, dual.postgres)
  BY DEF DualRunInit, EmptyPg, EmptyDb, PgShaped, Twins, LedgerTwins, MemoryTwins
<1>3. ReportTrue
  BY DEF DualRunInit, ReportTrue
<1>4. DualRunTypeOK
  BY DualRunAssumption DEF DualRunInit, DualRunTypeOK
<1> QED
  BY <1>1, <1>2, <1>3, <1>4 DEF DualInv, DualRunInit

\* A request, portable or not
LEMMA OperationKeeps ==
  ASSUME DualInv, NEW kind \in Ops, NEW reason \in Reasons, NEW d, NEW s,
         NEW p \in BOOLEAN,
         Compared(kind, reason), dual' = [sqlite |-> d, postgres |-> s],
         portable' = (portable /\ p), Good(d), PgShaped(s),
         portable /\ p => reason = "none" /\ Twins(d, s)
  PROVE  DualInv'
<1>1. kind \in Kinds /\ kind \notin StateKinds /\ portable \in BOOLEAN
  <2>1. kind \in Kinds
    BY DEF Kinds
  <2>2. kind \notin StateKinds
    BY DEF StateKinds, Ops
  <2>3. portable \in BOOLEAN
    BY DEF DualInv, DualRunTypeOK
  <2> QED
    BY <2>1, <2>2, <2>3
<1>2. /\ ReportTrue' /\ waivers' \in WaiverSets /\ Len(report') <= MaxOperations
      /\ reason \in Benign /\ (\A k \in DOMAIN report : report[k].reason \in Benign)
           => \A k \in DOMAIN report' : report'[k].reason \in Benign
  BY <1>1, ReportGrows DEF DualInv
<1>3. dual'.sqlite = d /\ dual'.postgres = s
  OBVIOUS
<1>4. DualRunTypeOK'
  BY <1>1, <1>2 DEF DualRunTypeOK
<1>5. portable' => /\ Twins(d, s) /\ \A k \in DOMAIN report' : report'[k].reason \in Benign
  BY <1>2 DEF DualInv, Benign
<1> QED
  BY <1>2, <1>3, <1>4, <1>5 DEF DualInv

\* A comparison of the stores as they are
LEMMA ComparisonKeeps ==
  ASSUME DualInv, NEW kind \in StateKinds, NEW reason,
         reason \in Benign \cup {"snapshot_state_mismatch"},
         reason \in Benign <=> Equal(dual.sqlite, dual.postgres),
         Compared(kind, reason), UNCHANGED <<dual, portable>>
  PROVE  DualInv'
<1>1. kind \in Kinds /\ reason \in Reasons
  BY DEF Kinds, Reasons
<1>2. /\ ReportTrue' /\ waivers' \in WaiverSets /\ Len(report') <= MaxOperations
      /\ reason \in Benign /\ (\A k \in DOMAIN report : report[k].reason \in Benign)
           => \A k \in DOMAIN report' : report'[k].reason \in Benign
  BY <1>1, ReportGrows DEF DualInv
<1>3. portable => reason \in Benign
  BY TwinsAreEqual DEF DualInv
<1>4. DualRunTypeOK'
  BY <1>2 DEF DualRunTypeOK, DualInv
<1> QED
  BY <1>2, <1>3, <1>4 DEF DualInv

\* The invariant of the dual run: while a suite is portable both adapters hold
\* twins, and a comparison that was just made tells whether they do.
THEOREM DualRunInductive == DualRunSpec => []DualInv
<1>1. DualRunInit => DualInv
  BY DualInitial
<1>2. DualInv /\ [DualRunNext]_dualVars => DualInv'
  <2> SUFFICES ASSUME DualInv, [DualRunNext]_dualVars PROVE DualInv'
    OBVIOUS
  <2>1. /\ \A x, y : MismatchReason(x, y) \in Reasons
        /\ \A x, y : x = y => MismatchReason(x, y) = "none"
        /\ "upsert" \in Ops /\ "delete" \in Ops
    BY DEF MismatchReason, Reasons, Benign, Ops
  <2>2. Good(dual.sqlite) /\ PgShaped(dual.postgres)
        /\ (portable => Twins(dual.sqlite, dual.postgres))
    BY DEF DualInv
  <2>3. ASSUME NEW r \in DualUpserts, DualUpsert(r) PROVE DualInv'
    <3> DEFINE d == UpsertMemory(dual.sqlite, r)
               s == PgApply(dual.postgres, AsPgUpsert(r))
               x == SqliteUpsertOutcome(dual.sqlite, r)
               y == StripAdapterSpecificFields(PgOutcome(dual.postgres, AsPgUpsert(r)))
               p == PortableUpsert(dual.sqlite, r)
    <3>1. Good(d) /\ PgShaped(s)
      BY <2>2, UpsertIsGood, PgStaysShaped, DualRunAssumption
    <3>2. portable /\ p => x = y /\ Twins(d, s)
      BY <2>2, UpsertsAgree
    <3>3. /\ Compared("upsert", MismatchReason(x, y))
          /\ dual' = [sqlite |-> d, postgres |-> s] /\ portable' = (portable /\ p)
      BY <2>3 DEF DualUpsert
    <3>4. p \in BOOLEAN
      BY DEF PortableUpsert
    <3> HIDE DEF d, s, x, y, p
    <3> QED
      BY <2>1, <3>1, <3>2, <3>3, <3>4, OperationKeeps
  <2>4. ASSUME NEW r \in DualDeletes, DualDelete(r) PROVE DualInv'
    <3> DEFINE d == DeleteMemory(dual.sqlite, r)
               s == PgApply(dual.postgres, AsPgDelete(r))
               x == SqliteDeleteOutcome(dual.sqlite, r)
               y == StripAdapterSpecificFields(PgOutcome(dual.postgres, AsPgDelete(r)))
               p == PortableDelete(dual.sqlite, r)
    <3>1. Good(d) /\ PgShaped(s)
      BY <2>2, DeleteIsGood, PgStaysShaped, DualRunAssumption
    <3>2. portable /\ p => x = y /\ Twins(d, s)
      BY <2>2, DeletesAgree
    <3>3. /\ Compared("delete", MismatchReason(x, y))
          /\ dual' = [sqlite |-> d, postgres |-> s] /\ portable' = (portable /\ p)
      BY <2>4 DEF DualDelete
    <3>4. p \in BOOLEAN
      BY DEF PortableDelete
    <3> HIDE DEF d, s, x, y, p
    <3> QED
      BY <2>1, <3>1, <3>2, <3>3, <3>4, OperationKeeps
  <2>5. ASSUME CompareStates PROVE DualInv'
    <3> DEFINE a == StateMismatchReason(SqliteState(dual.sqlite), PostgresState(dual.postgres))
    <3>1. /\ a \in Benign \cup {"snapshot_state_mismatch"}
          /\ a \in Benign <=> Equal(dual.sqlite, dual.postgres)
      BY <2>2, ComparisonIsExact
    <3>2. Compared("snapshot_state", a) /\ UNCHANGED <<dual, portable>>
      BY <2>5 DEF CompareStates
    <3>3. "snapshot_state" \in StateKinds
      BY DEF StateKinds
    <3> HIDE DEF a
    <3> QED
      BY <3>1, <3>2, <3>3, ComparisonKeeps
  <2>6. ASSUME CompareRoundtrips PROVE DualInv'
    <3> DEFINE a == StateMismatchReason(
                      NormalizeComparable(SqliteState(RoundtripState(dual.sqlite))),
                      NormalizeComparable(PostgresState(PgRoundtripState(dual.postgres))))
    <3>1. /\ a \in Benign \cup {"snapshot_state_mismatch"}
          /\ a \in Benign <=> Equal(dual.sqlite, dual.postgres)
      BY <2>2, ComparisonIsExact
    <3>2. Compared("snapshot_roundtrip", a) /\ UNCHANGED <<dual, portable>>
      BY <2>6 DEF CompareRoundtrips
    <3>3. "snapshot_roundtrip" \in StateKinds
      BY DEF StateKinds
    <3> HIDE DEF a
    <3> QED
      BY <3>1, <3>2, <3>3, ComparisonKeeps
  <2>7. CASE UNCHANGED dualVars
    BY <2>7 DEF dualVars, DualInv, ReportTrue, DualRunTypeOK
  <2> QED
    BY <2>3, <2>4, <2>5, <2>6, <2>7 DEF DualRunNext
<1> QED
  BY <1>1, <1>2, PTL DEF DualRunSpec

\* Twins agree in all that is compared, and a report that passes ends with a
\* comparison that found them equal.
LEMMA DualRunPromises == DualInv => DualRunTypeOK /\ DualRunIsRight
<1> SUFFICES ASSUME DualInv PROVE DualRunTypeOK /\ DualRunIsRight
  OBVIOUS
<1>1. PortableSuiteAgrees
  BY TwinsAreEqual DEF DualInv, PortableSuiteAgrees, Benign, Equal
<1>2. PassedMeansEqual
  <2> SUFFICES ASSUME report # <<>>, ReportOk, report[Len(report)].kind \in StateKinds,
                      "snapshot_state_mismatch" \notin waivers
               PROVE  Equal(dual.sqlite, dual.postgres)
    BY DEF PassedMeansEqual, StateKinds, Equal
  <2>1. report \in Seq(ReportEntry)
    BY DEF DualInv, ReportTrue, ReportEntry
  <2>2. Len(report) \in DOMAIN report
    <3> HIDE DEF ReportEntry
    <3> QED
      BY <2>1
  <2>3. /\ report[Len(report)].reason \in Benign \cup {"snapshot_state_mismatch"}
        /\ report[Len(report)].waived = (report[Len(report)].reason \in waivers)
    BY <2>2 DEF DualInv, ReportTrue
  <2>4. report[Len(report)].reason \in Benign
    BY <2>2, <2>3 DEF ReportOk, Benign
  <2> QED
    BY <2>4 DEF DualInv, ReportTrue
<1> QED
  BY <1>1, <1>2 DEF DualInv, DualRunIsRight

\* A dual run over writes both repositories promise finds them equal but for
\* versions, and one that passes after comparing states has compared equal ones.
THEOREM DualRunRight == DualRunSpec => [](DualRunTypeOK /\ DualRunIsRight)
BY DualRunInductive, DualRunPromises, PTL

-----------------------------------------------------------------------------
(* The execution ledger                                                     *)

Key(c) == ComputeExecutionCacheKey(c)

-----------------------------------------------------------------------------
(* The inductive invariant                                                 *)

\* The primary key of the table.
OneEach == \A d, e \in ledger : d.key = e.key => d = e

\* r is the response of the ledger's row for the request of c.
Persisted(c, r) ==
  \E row \in ledger : row.key = Key(c) /\ CanonicalizeJson(r) = row.response

\* An execution that has a response to complete with has it from its row, and one
\* that has none yet or has failed says so.
FibersPersist ==
  \A c \in Caller :
    /\ deferred[c].kind \in {"succeeding", "success"} => Persisted(c, deferred[c].response)
    /\ fiber[c] \in {"clearing", "completing"} => deferred[c].kind \in {"failing", "succeeding"}
    /\ fiber[c] \in {"none", "running", "executed"} => deferred[c] = Pending

\* Callers wait for an execution of their own request.
WaitersMatch ==
  \A c \in Caller : call[c] = "awaiting" => waitsFor[c] \in Caller /\ Key(waitsFor[c]) = Key(c)

AnswersPersist ==
  \A c \in Caller : answer[c].kind = "success" => Persisted(c, answer[c].response)

\* The registrations of a repository are its own, of one execution for each key;
\* an execution is registered until it has persisted or failed.
Registrations ==
  /\ \A p \in Repo : \A c, d \in inFlight[p] : Key(c) = Key(d) => c = d
  /\ \A c \in Caller :
       /\ fiber[c] \in {"running", "executed", "clearing"} => c \in inFlight[RepoOf[c]]
       /\ call[c] \in {"idle", "missed"} => fiber[c] = "none"

LedgerInv ==
  /\ LedgerTypeOK /\ OneEach /\ FibersPersist /\ WaitersMatch /\ AnswersPersist
  /\ Registrations

-----------------------------------------------------------------------------
(* Reading and writing the table                                           *)

\* A row that is found is the response that is read, in its JSON form.
LEMMA ReadIsPersisted ==
  ASSUME LedgerInv, NEW c \in Caller, RowsOf(c) # {}
  PROVE  ReadPersistedResponse(c) \in Response /\ Persisted(c, ReadPersistedResponse(c))
<1>1. PICK row \in RowsOf(c) : ReadPersistedResponse(c) = row.response
  BY DEF ReadPersistedResponse
<1>2. row \in ledger /\ row.key = Key(c)
  BY DEF RowsOf, Key
<1>3. row.response \in Response /\ row.response.extra = FALSE
  BY <1>2 DEF LedgerInv, LedgerTypeOK, Response
<1>4. CanonicalizeJson(row.response) = row.response
  BY <1>3 DEF CanonicalizeJson, Response
<1> QED
  BY <1>1, <1>2, <1>3, <1>4 DEF Persisted

\* INSERT OR IGNORE into a table without a row of that key.
LEMMA InsertIsPersisted ==
  ASSUME LedgerInv, NEW c \in Caller, RowsOf(c) = {}, NEW r \in Response, Insert(c, r)
  PROVE  /\ OneEach' /\ ledger \subseteq ledger' /\ Persisted(c, r)'
         /\ \A row \in ledger' : row.response \in Response /\ ~row.response.extra
<1> DEFINE new == [key |-> Key(c), response |-> CanonicalizeJson(r)]
<1>1. ledger' = ledger \cup {new}
  BY DEF Insert, Key
<1>2. new.key = Key(c) /\ new.response = CanonicalizeJson(r)
  OBVIOUS
<1>3. CanonicalizeJson(r) \in Response /\ CanonicalizeJson(r).extra = FALSE
  BY DEF CanonicalizeJson, Response
<1>4. \A row \in ledger : row.key # Key(c)
  BY DEF RowsOf, Key
<1> HIDE DEF new
<1>5. OneEach'
  BY <1>1, <1>2, <1>4 DEF LedgerInv, OneEach
<1>6. Persisted(c, r)'
  BY <1>1, <1>2 DEF Persisted
<1>7. \A row \in ledger' : row.response \in Response /\ ~row.response.extra
  BY <1>1, <1>2, <1>3 DEF LedgerInv, LedgerTypeOK
<1> QED
  BY <1>1, <1>5, <1>6, <1>7

\* No row is ever changed or deleted.
LEMMA PersistedStays ==
  ASSUME NEW c \in Caller, NEW r, ledger \subseteq ledger', Persisted(c, r)
  PROVE  Persisted(c, r)'
BY DEF Persisted

-----------------------------------------------------------------------------
(* The steps                                                               *)

LEMMA LookupStep ==
  ASSUME LedgerInv, NEW c \in Caller, LookupPersistedExecution(c) PROVE LedgerInv'
<1>1. /\ call[c] = "idle"
      /\ UNCHANGED <<ledger, inFlight, waitsFor, fiber, deferred>>
  BY DEF LookupPersistedExecution
<1>2. \/ answer' = [answer EXCEPT ![c] = Failure] /\ call' = [call EXCEPT ![c] = "answered"]
      \/ /\ RowsOf(c) # {} /\ call' = [call EXCEPT ![c] = "answered"]
         /\ answer' = [answer EXCEPT ![c] = Success(ReadPersistedResponse(c))]
      \/ call' = [call EXCEPT ![c] = "missed"] /\ UNCHANGED answer
  BY DEF LookupPersistedExecution, AnswerWith
<1>3. RowsOf(c) # {} =>
        ReadPersistedResponse(c) \in Response /\ Persisted(c, ReadPersistedResponse(c))
  BY ReadIsPersisted
<1>4. Failure \in AnswerKind /\ \A r \in Response : Success(r) \in AnswerKind
  BY DEF AnswerKind
<1>5. LedgerTypeOK'
  BY <1>1, <1>2, <1>3, <1>4 DEF LedgerInv, LedgerTypeOK
<1>6. AnswersPersist'
  BY <1>1, <1>2, <1>3
  DEF LedgerInv, LedgerTypeOK, AnswersPersist, Persisted, Success, Failure
<1>7. WaitersMatch' /\ Registrations' /\ OneEach' /\ FibersPersist'
  BY <1>1, <1>2
  DEF LedgerInv, LedgerTypeOK, WaitersMatch, Registrations, OneEach, FibersPersist, Persisted
<1> QED
  BY <1>5, <1>6, <1>7 DEF LedgerInv

LEMMA RegisterStep ==
  ASSUME LedgerInv, NEW c \in Caller, GetOrCreateInFlightExecution(c) PROVE LedgerInv'
<1>1. /\ call[c] = "missed" /\ call' = [call EXCEPT ![c] = "awaiting"]
      /\ fiber[c] = "none" /\ RepoOf[c] \in Repo
      /\ UNCHANGED <<ledger, deferred, answer>>
  BY LedgerAssumption DEF GetOrCreateInFlightExecution, LedgerInv, Registrations
<1>2. CASE Registered(c) # {}
  <2>1. PICK o \in Registered(c) : waitsFor' = [waitsFor EXCEPT ![c] = o]
    BY <1>2 DEF GetOrCreateInFlightExecution
  <2>2. o \in Caller /\ Key(o) = Key(c)
    BY <1>1, <2>1 DEF Registered, Key, LedgerInv, LedgerTypeOK
  <2>3. UNCHANGED <<inFlight, fiber>>
    BY <1>2 DEF GetOrCreateInFlightExecution
  <2>4. LedgerTypeOK'
    BY <1>1, <2>1, <2>2, <2>3 DEF LedgerInv, LedgerTypeOK
  <2>5. WaitersMatch'
    BY <1>1, <2>1, <2>2 DEF LedgerInv, LedgerTypeOK, WaitersMatch
  <2> QED
    BY <1>1, <2>3, <2>4, <2>5
    DEF LedgerInv, LedgerTypeOK, OneEach, FibersPersist, AnswersPersist, Persisted, Registrations
<1>3. CASE Registered(c) = {}
  <2>1. /\ inFlight' = [inFlight EXCEPT ![RepoOf[c]] = @ \cup {c}]
        /\ waitsFor' = [waitsFor EXCEPT ![c] = c]
        /\ fiber' = [fiber EXCEPT ![c] = "running"]
    BY <1>3 DEF GetOrCreateInFlightExecution
  <2>2. \A o \in inFlight[RepoOf[c]] : Key(o) # Key(c)
    BY <1>3 DEF Registered, Key
  <2>3. LedgerTypeOK'
    BY <1>1, <2>1 DEF LedgerInv, LedgerTypeOK
  <2>4. WaitersMatch'
    BY <1>1, <2>1 DEF LedgerInv, LedgerTypeOK, WaitersMatch
  <2>5. FibersPersist'
    BY <1>1, <2>1 DEF LedgerInv, LedgerTypeOK, FibersPersist, Persisted
  <2>6. Registrations'
    BY <1>1, <2>1, <2>2, LedgerAssumption DEF LedgerInv, LedgerTypeOK, Registrations
  <2> QED
    BY <1>1, <2>3, <2>4, <2>5, <2>6 DEF LedgerInv, OneEach, AnswersPersist, Persisted
<1> QED
  BY <1>2, <1>3

LEMMA AwaitStep ==
  ASSUME LedgerInv, NEW c \in Caller, AwaitDeferred(c) PROVE LedgerInv'
<1> DEFINE w == waitsFor[c]
<1>1. /\ call[c] = "awaiting" /\ deferred[w].kind \in {"success", "failure"}
      /\ answer' = [answer EXCEPT ![c] = deferred[w]]
      /\ call' = [call EXCEPT ![c] = "answered"]
      /\ UNCHANGED <<ledger, inFlight, waitsFor, fiber, deferred>>
  BY DEF AwaitDeferred, AnswerWith
<1>2. w \in Caller /\ Key(w) = Key(c)
  BY <1>1 DEF LedgerInv, WaitersMatch
<1>3. deferred[w] \in AnswerKind
  BY <1>1, <1>2 DEF LedgerInv, LedgerTypeOK, FiberResult
<1>4. deferred[w].kind = "success" => Persisted(c, deferred[w].response)
  BY <1>2 DEF LedgerInv, FibersPersist, Persisted
<1> HIDE DEF w
<1>5. LedgerTypeOK'
  BY <1>1, <1>3 DEF LedgerInv, LedgerTypeOK
<1>6. AnswersPersist'
  BY <1>1, <1>4 DEF LedgerInv, LedgerTypeOK, AnswersPersist, Persisted
<1> QED
  BY <1>1, <1>5, <1>6
  DEF LedgerInv, LedgerTypeOK, OneEach, FibersPersist, Persisted, WaitersMatch, Registrations

LEMMA InterruptStep ==
  ASSUME LedgerInv, NEW c \in Caller, InterruptAwait(c) PROVE LedgerInv'
BY DEF InterruptAwait, LedgerInv, LedgerTypeOK, OneEach, FibersPersist, Persisted,
   WaitersMatch, AnswersPersist, Registrations

\* A step of the detached fiber that leaves the table alone.
LEMMA FiberStep ==
  ASSUME LedgerInv, NEW c \in Caller, NEW to \in {"executed", "clearing", "completing", "ended"},
         fiber' = [fiber EXCEPT ![c] = to], fiber[c] # "none",
         ledger \subseteq ledger', OneEach',
         \A row \in ledger' : row.response \in Response /\ ~row.response.extra,
         NEW result \in AnswerKind \cup FiberResult,
         deferred' = [deferred EXCEPT ![c] = result],
         result.kind \in {"succeeding", "success"} => Persisted(c, result.response)',
         to \in {"clearing", "completing"} => result.kind \in {"failing", "succeeding"},
         to = "executed" => result = Pending,
         \/ UNCHANGED inFlight /\ (to \in {"executed", "clearing"} => fiber[c] \in {"running", "executed"})
         \/ inFlight' = [inFlight EXCEPT ![RepoOf[c]] = @ \ {c}] /\ to = "completing",
         UNCHANGED <<call, waitsFor, answer>>
  PROVE  LedgerInv'
<1>1. LedgerTypeOK'
  BY LedgerAssumption DEF LedgerInv, LedgerTypeOK
<1>2. FibersPersist'
  BY PersistedStays DEF LedgerInv, LedgerTypeOK, FibersPersist
<1>3. WaitersMatch' /\ AnswersPersist'
  BY PersistedStays DEF LedgerInv, WaitersMatch, AnswersPersist
<1>4. Registrations'
  <2>1. RepoOf \in [Caller -> Repo] /\ inFlight \in [Repo -> SUBSET Caller]
    BY LedgerAssumption DEF LedgerInv, LedgerTypeOK
  <2>2. fiber'[c] = to /\ \A d \in Caller \ {c} : fiber'[d] = fiber[d]
    BY DEF LedgerInv, LedgerTypeOK
  <2>3. \A p \in Repo : inFlight'[p] \subseteq inFlight[p]
    BY <2>1
  <2>4. \A d \in Caller \ {c} : d \in inFlight[RepoOf[d]] => d \in inFlight'[RepoOf[d]]
    BY <2>1
  <2>5. to \in {"executed", "clearing"} => c \in inFlight'[RepoOf[c]]
    BY DEF LedgerInv, Registrations
  <2> QED
    BY <2>2, <2>3, <2>4, <2>5 DEF LedgerInv, Registrations
<1> QED
  BY <1>1, <1>2, <1>3, <1>4 DEF LedgerInv

LEMMA FailStep ==
  ASSUME LedgerInv, NEW c \in Caller, ExecuteFails(c) PROVE LedgerInv'
<1> DEFINE result == [kind |-> "failing"]
<1>1. /\ fiber[c] \in {"running", "executed"} /\ fiber' = [fiber EXCEPT ![c] = "clearing"]
      /\ deferred' = [deferred EXCEPT ![c] = result]
      /\ UNCHANGED <<ledger, inFlight, call, waitsFor, answer>>
  BY DEF ExecuteFails, FiberTo
<1>2. result \in AnswerKind \cup FiberResult /\ result.kind = "failing"
  BY DEF FiberResult
<1>3. OneEach' /\ \A row \in ledger' : row.response \in Response /\ ~row.response.extra
  BY <1>1 DEF LedgerInv, LedgerTypeOK, OneEach
<1> HIDE DEF result
<1> QED
  BY <1>1, <1>2, <1>3, FiberStep

LEMMA ReturnStep ==
  ASSUME LedgerInv, NEW c \in Caller, ExecuteReturns(c) PROVE LedgerInv'
<1>1. /\ fiber[c] = "running" /\ fiber' = [fiber EXCEPT ![c] = "executed"]
      /\ UNCHANGED <<ledger, inFlight, call, waitsFor, deferred, answer>>
  BY DEF ExecuteReturns, FiberTo
<1>2. Pending \in AnswerKind \cup FiberResult /\ Pending.kind = "pending"
  BY DEF AnswerKind, Pending
<1>3. deferred[c] = Pending /\ deferred' = [deferred EXCEPT ![c] = Pending]
  BY <1>1 DEF LedgerInv, LedgerTypeOK, FibersPersist
<1>4. OneEach' /\ \A row \in ledger' : row.response \in Response /\ ~row.response.extra
  BY <1>1 DEF LedgerInv, LedgerTypeOK, OneEach
<1> QED
  BY <1>1, <1>2, <1>3, <1>4, FiberStep

LEMMA PersistStep ==
  ASSUME LedgerInv, NEW c \in Caller, PersistExecution(c) PROVE LedgerInv'
<1>1. PICK r \in Response :
        IF RowsOf(c) = {}
        THEN /\ Insert(c, r)
             /\ deferred' = [deferred EXCEPT ![c] = [kind |-> "succeeding", response |-> r]]
        ELSE /\ deferred' = [deferred EXCEPT ![c] =
                  [kind |-> "succeeding", response |-> ReadPersistedResponse(c)]]
             /\ UNCHANGED ledger
  BY DEF PersistExecution
<1>2. /\ fiber[c] = "executed" /\ fiber' = [fiber EXCEPT ![c] = "clearing"]
      /\ UNCHANGED <<inFlight, call, waitsFor, answer>>
  BY DEF PersistExecution, FiberTo
<1>3. PICK response \in Response :
        /\ deferred' = [deferred EXCEPT ![c] = [kind |-> "succeeding", response |-> response]]
        /\ OneEach' /\ ledger \subseteq ledger' /\ Persisted(c, response)'
        /\ \A row \in ledger' : row.response \in Response /\ ~row.response.extra
  <2>1. CASE RowsOf(c) = {}
    BY <1>1, <2>1, InsertIsPersisted
  <2>2. CASE RowsOf(c) # {}
    <3>1. /\ ReadPersistedResponse(c) \in Response
          /\ Persisted(c, ReadPersistedResponse(c))
      BY <2>2, ReadIsPersisted
    <3>2. Persisted(c, ReadPersistedResponse(c))'
      BY <1>1, <2>2, <3>1 DEF Persisted, ReadPersistedResponse, RowsOf
    <3> QED
      BY <1>1, <2>2, <3>1, <3>2 DEF LedgerInv, LedgerTypeOK, OneEach, Persisted
  <2> QED
    BY <2>1, <2>2
<1> DEFINE result == [kind |-> "succeeding", response |-> response]
<1>4. /\ result \in AnswerKind \cup FiberResult
      /\ result.kind = "succeeding" /\ result.response = response
  BY DEF FiberResult
<1>5. deferred' = [deferred EXCEPT ![c] = result]
  BY <1>3
<1> HIDE DEF result
<1> QED
  BY <1>2, <1>3, <1>4, <1>5, FiberStep

LEMMA ClearStep ==
  ASSUME LedgerInv, NEW c \in Caller, ClearInFlightExecution(c) PROVE LedgerInv'
<1>0. PICK result \in AnswerKind \cup FiberResult : result = deferred[c]
  BY DEF LedgerInv, LedgerTypeOK
<1>1. /\ fiber[c] = "clearing" /\ fiber' = [fiber EXCEPT ![c] = "completing"]
      /\ inFlight' = [inFlight EXCEPT ![RepoOf[c]] = @ \ {c}]
      /\ UNCHANGED <<ledger, call, waitsFor, deferred, answer>>
  BY DEF ClearInFlightExecution, FiberTo
<1>2. /\ result.kind \in {"failing", "succeeding"}
      /\ result.kind = "succeeding" => Persisted(c, result.response)'
      /\ deferred' = [deferred EXCEPT ![c] = result]
  BY <1>0, <1>1 DEF LedgerInv, LedgerTypeOK, FibersPersist, Persisted
<1>3. OneEach' /\ \A row \in ledger' : row.response \in Response /\ ~row.response.extra
  BY <1>1 DEF LedgerInv, LedgerTypeOK, OneEach
<1> QED
  BY <1>1, <1>2, <1>3, FiberStep

LEMMA CompleteStep ==
  ASSUME LedgerInv, NEW c \in Caller, CompleteDeferred(c) PROVE LedgerInv'
<1>0. PICK was \in AnswerKind \cup FiberResult : was = deferred[c]
  BY DEF LedgerInv, LedgerTypeOK
<1> DEFINE result == IF was.kind = "failing" THEN Failure ELSE Success(was.response)
<1>1. /\ fiber[c] = "completing" /\ fiber' = [fiber EXCEPT ![c] = "ended"]
      /\ deferred' = [deferred EXCEPT ![c] = result]
      /\ UNCHANGED <<ledger, inFlight, call, waitsFor, answer>>
  BY <1>0 DEF CompleteDeferred, FiberTo, LedgerInv, LedgerTypeOK
<1>2. /\ was.kind \in {"failing", "succeeding"}
      /\ was.kind = "succeeding" => Persisted(c, was.response)'
  BY <1>0, <1>1 DEF LedgerInv, LedgerTypeOK, FibersPersist, Persisted
<1>3. was.kind = "failing" \/ \E r \in Response : was = [kind |-> "succeeding", response |-> r]
  BY <1>2 DEF AnswerKind, FiberResult, Pending, Failure, Success
<1>4. /\ result \in AnswerKind \cup FiberResult
      /\ result.kind \in {"success", "failure"}
      /\ result.kind = "success" => Persisted(c, result.response)'
  <2>1. CASE was.kind = "failing"
    BY <2>1 DEF AnswerKind, Failure
  <2>2. ASSUME NEW r \in Response, was = [kind |-> "succeeding", response |-> r]
        PROVE  /\ result = Success(r) /\ Persisted(c, r)'
    BY <1>2, <2>2
  <2>3. \A r \in Response :
          Success(r) \in AnswerKind /\ Success(r).kind = "success" /\ Success(r).response = r
    BY DEF AnswerKind, Success
  <2> HIDE DEF result
  <2>4. CASE \E r \in Response : was = [kind |-> "succeeding", response |-> r]
    BY <2>2, <2>3, <2>4
  <2> QED
    BY <1>3, <2>1, <2>4
<1>5. OneEach' /\ \A row \in ledger' : row.response \in Response /\ ~row.response.extra
  BY <1>1 DEF LedgerInv, LedgerTypeOK, OneEach
<1> HIDE DEF result
<1> QED
  BY <1>1, <1>4, <1>5, FiberStep

\* A dead process leaves its rows; its registrations are gone with its executions.
LEMMA CrashStep ==
  ASSUME LedgerInv, NEW p \in Repo, CrashRepo(p) PROVE LedgerInv'
<1>1. /\ inFlight' = [inFlight EXCEPT ![p] = {}]
      /\ UNCHANGED <<ledger, waitsFor, deferred, answer>>
  BY DEF CrashRepo
<1>2. /\ call' \in [Caller -> {"idle", "missed", "awaiting", "answered", "interrupted", "gone"}]
      /\ \A c \in Caller : call'[c] = call[c] \/ call'[c] = "gone"
  BY DEF CrashRepo, LedgerInv, LedgerTypeOK
<1>3. /\ fiber' \in [Caller -> {"none", "running", "executed", "clearing", "completing",
                                "ended", "gone"}]
      /\ \A c \in Caller :
           \/ fiber'[c] = fiber[c] /\ (RepoOf[c] = p => fiber[c] = "none")
           \/ fiber'[c] = "gone" /\ fiber[c] # "none"
  BY DEF CrashRepo, LedgerInv, LedgerTypeOK, Registrations
<1>4. LedgerTypeOK'
  BY <1>1, <1>2, <1>3 DEF LedgerInv, LedgerTypeOK
<1>5. FibersPersist'
  BY <1>1, <1>3 DEF LedgerInv, FibersPersist, Persisted
<1>6. WaitersMatch' /\ AnswersPersist' /\ OneEach'
  BY <1>1, <1>2 DEF LedgerInv, WaitersMatch, AnswersPersist, Persisted, OneEach
<1>7. Registrations'
  <2>1. \A q \in Repo : inFlight'[q] \subseteq inFlight[q]
    BY <1>1 DEF LedgerInv, LedgerTypeOK
  <2>2. \A c \in Caller : RepoOf[c] # p => inFlight'[RepoOf[c]] = inFlight[RepoOf[c]]
    BY <1>1, LedgerAssumption DEF LedgerInv, LedgerTypeOK
  <2> QED
    BY <1>2, <1>3, <2>1, <2>2 DEF LedgerInv, Registrations
<1> QED
  BY <1>4, <1>5, <1>6, <1>7 DEF LedgerInv

-----------------------------------------------------------------------------
(* The theorems                                                            *)

THEOREM LedgerInductive == LedgerSpec => []LedgerInv
<1>1. LedgerInit => LedgerInv
  BY DEF LedgerInit, LedgerInv, LedgerTypeOK, OneEach, FibersPersist, WaitersMatch,
     AnswersPersist, Registrations, AnswerKind, Pending
<1>2. LedgerInv /\ [LedgerNext]_ledgerVars => LedgerInv'
  <2> SUFFICES ASSUME LedgerInv, [LedgerNext]_ledgerVars PROVE LedgerInv'
    OBVIOUS
  <2>1. CASE UNCHANGED ledgerVars
    BY <2>1 DEF ledgerVars, LedgerInv, LedgerTypeOK, OneEach, FibersPersist, Persisted,
       WaitersMatch, AnswersPersist, Registrations
  <2> QED
    BY <2>1, LookupStep, RegisterStep, AwaitStep, InterruptStep, FailStep, ReturnStep,
       PersistStep, ClearStep, CompleteStep, CrashStep DEF LedgerNext
<1> QED
  BY <1>1, <1>2, PTL DEF LedgerSpec

\* Every variable keeps its type, and no stored response has what JSON drops.
THEOREM LedgerTypeCorrect == LedgerSpec => []LedgerTypeOK
BY LedgerInductive, PTL DEF LedgerInv

\* Whoever is answered a response has that of the one row of its request, whichever
\* process executed it, and whatever failed or died meanwhile.
THEOREM AnswersAgree == LedgerSpec => []AnswersAreTheLedgers
<1>1. ASSUME LedgerInv PROVE AnswersAreTheLedgers
  <2> SUFFICES ASSUME NEW c \in Caller, answer[c].kind = "success"
               PROVE  \E row \in RowsOf(c) :
                        /\ RowsOf(c) = {row}
                        /\ CanonicalizeJson(answer[c].response) = row.response
    BY DEF AnswersAreTheLedgers
  <2>1. PICK row \in ledger :
          row.key = Key(c) /\ CanonicalizeJson(answer[c].response) = row.response
    BY <1>1 DEF LedgerInv, AnswersPersist, Persisted
  <2>2. RowsOf(c) = {row}
    BY <1>1, <2>1 DEF RowsOf, Key, LedgerInv, OneEach
  <2> QED
    BY <2>1, <2>2
<1> QED
  BY <1>1, LedgerInductive, PTL

\* One repository never runs one request twice at a time.
THEOREM SingleFlightHolds == LedgerSpec => []SingleFlight
<1>1. LedgerInv => SingleFlight
  BY LedgerAssumption DEF LedgerInv, Registrations, SingleFlight, Key
<1> QED
  BY <1>1, LedgerInductive, PTL

-----------------------------------------------------------------------------
(* The schema: its inductive invariant                                      *)

Knows(o, v) == v \in Versions(o) \cup {0}
PlacesUpTo(o, v) == {k \in DOMAIN ReleaseOf[o] : ReleaseOf[o][k].version <= v}
ObjectsUpTo(o, v) == UNION {ReleaseOf[o][k].creates : k \in PlacesUpTo(o, v)}
\* The index that the triggers and the backfill keep
IndexOf(objects, rows) == IF SearchObject \in objects THEN {<<i, 1>> : i \in rows} ELSE {}

SchemaTyped ==
  /\ opening \in [Opener -> {"closed", "migrating", "open", "failed", "crashed"}]
  /\ items \subseteq Item /\ IsFiniteSet(items)
  /\ \E o \in Opener : Knows(o, userVersion)
SchemaTrue ==
  ~tampered =>
    /\ \A o \in Opener : Knows(o, userVersion) => schema = ObjectsUpTo(o, userVersion)
    /\ indexed = IndexOf(schema, items)
\* The transaction is at a version of its release, with what that has.
AtVersion(o, w) ==
  /\ w = [by |-> o, pending |-> PendingMigrations(o, w.version), schema |-> w.schema,
          version |-> w.version, indexed |-> w.indexed]
  /\ Knows(o, w.version) /\ userVersion <= w.version /\ w.version <= Target(o)
  /\ ~tampered => w.schema = ObjectsUpTo(o, w.version) /\ w.indexed = IndexOf(w.schema, items)
WorkTrue ==
  work = Nothing \/ \E o \in Opener : opening[o] = "migrating" /\ AtVersion(o, work)

SchemaInv == SchemaTyped /\ SchemaTrue /\ WorkTrue /\ OpensUnlessAhead

\* A release is a list of migrations in the order of their versions.
LEMMA ReleasesTyped ==
  ASSUME NEW o \in Opener
  PROVE  /\ Len(ReleaseOf[o]) \in Nat /\ DOMAIN ReleaseOf[o] = 1..Len(ReleaseOf[o])
         /\ \A k \in DOMAIN ReleaseOf[o] :
              /\ ReleaseOf[o][k].version \in Nat /\ ReleaseOf[o][k].version > 0
              /\ ReleaseOf[o][k].creates # {}
         /\ \A j, k \in DOMAIN ReleaseOf[o] : j < k =>
              /\ ReleaseOf[o][j].version < ReleaseOf[o][k].version
              /\ ReleaseOf[o][j].creates \cap ReleaseOf[o][k].creates = {}
         /\ ReleaseOf[o] = <<>> <=> Len(ReleaseOf[o]) = 0
<1> DEFINE s == ReleaseOf[o]
<1>1. IsRelease(s)
  BY SchemaAssumption
<1>2. PICK S : s \in Seq(S)
  BY <1>1 DEF IsRelease
<1>3. Len(s) \in Nat /\ DOMAIN s = 1..Len(s) /\ (s = <<>> <=> Len(s) = 0)
  BY <1>2
<1>4. \A k \in DOMAIN s : s[k].version \in Nat /\ s[k].version > 0 /\ s[k].creates # {}
  BY <1>1 DEF IsRelease
<1>5. \A j, k \in DOMAIN s :
        j < k => s[j].version < s[k].version /\ s[j].creates \cap s[k].creates = {}
  BY <1>1 DEF IsRelease
<1> QED
  BY <1>3, <1>4, <1>5

\* The versions of a release are numbers from 1, the version of an empty schema 0.
LEMMA VersionsAreNats ==
  ASSUME NEW o \in Opener
  PROVE  /\ Target(o) \in Nat /\ Knows(o, Target(o))
         /\ \A v : Knows(o, v) => v \in Nat
BY ReleasesTyped, SchemaAssumption DEF Versions, Knows

\* Two releases have the same migration at a place that both have.
LEMMA SharedPrefix ==
  ASSUME NEW o \in Opener, NEW p \in Opener, NEW k \in DOMAIN ReleaseOf[o],
         k \in DOMAIN ReleaseOf[p]
  PROVE  ReleaseOf[o][k] = ReleaseOf[p][k]
BY SchemaAssumption

\* The migrations up to the version of place k are those up to place k.
LEMMA PlacesOf ==
  ASSUME NEW o \in Opener, NEW k \in DOMAIN ReleaseOf[o]
  PROVE  PlacesUpTo(o, ReleaseOf[o][k].version) = 1..k
<1>1. k \in Nat /\ 1 <= k /\ k <= Len(ReleaseOf[o]) /\ Len(ReleaseOf[o]) \in Nat
  BY ReleasesTyped
<1>2. ASSUME NEW j \in 1..k PROVE j \in PlacesUpTo(o, ReleaseOf[o][k].version)
  BY <1>1, <1>2, ReleasesTyped DEF PlacesUpTo
<1>3. ASSUME NEW j \in PlacesUpTo(o, ReleaseOf[o][k].version) PROVE j \in 1..k
  <2>1. j \in DOMAIN ReleaseOf[o] /\ ReleaseOf[o][j].version <= ReleaseOf[o][k].version
    BY DEF PlacesUpTo
  <2>2. ~(k < j)
    BY <2>1, ReleasesTyped
  <2> QED
    BY <1>1, <2>1, <2>2, ReleasesTyped
<1> QED
  BY <1>2, <1>3

\* Two releases that know a version have the same objects at it.
LEMMA ReleasesAgree ==
  ASSUME NEW o \in Opener, NEW p \in Opener, NEW v, Knows(o, v), Knows(p, v)
  PROVE  ObjectsUpTo(o, v) = ObjectsUpTo(p, v)
<1>1. CASE v = 0
  <2>1. PlacesUpTo(o, 0) = {} /\ PlacesUpTo(p, 0) = {}
    BY ReleasesTyped DEF PlacesUpTo
  <2> QED
    BY <1>1, <2>1 DEF ObjectsUpTo
<1>2. CASE v # 0
  <2>1. PICK k \in DOMAIN ReleaseOf[o] : ReleaseOf[o][k].version = v
    BY <1>2 DEF Knows, Versions
  <2>2. PICK l \in DOMAIN ReleaseOf[p] : ReleaseOf[p][l].version = v
    BY <1>2 DEF Knows, Versions
  <2>3. k \in Nat /\ l \in Nat /\ 1 <= k /\ 1 <= l
    BY ReleasesTyped
  <2>4. ~(k < l)
    <3>1. SUFFICES ASSUME k < l PROVE FALSE
      OBVIOUS
    <3>2. k \in DOMAIN ReleaseOf[p]
      BY <2>3, <3>1, ReleasesTyped
    <3>3. ReleaseOf[p][k].version = v
      BY <2>1, <3>2, SharedPrefix
    <3> QED
      BY <2>2, <3>1, <3>2, <3>3, ReleasesTyped
  <2>5. ~(l < k)
    <3>1. SUFFICES ASSUME l < k PROVE FALSE
      OBVIOUS
    <3>2. l \in DOMAIN ReleaseOf[o]
      BY <2>3, <3>1, ReleasesTyped
    <3>3. ReleaseOf[o][l].version = v
      BY <2>2, <3>2, SharedPrefix
    <3> QED
      BY <2>1, <3>1, <3>2, <3>3, ReleasesTyped
  <2>6. l = k
    BY <2>3, <2>4, <2>5
  <2>7. PlacesUpTo(o, v) = 1..k /\ PlacesUpTo(p, v) = 1..k
    BY <2>1, <2>2, <2>6, PlacesOf
  <2>8. \A j \in 1..k : ReleaseOf[o][j] = ReleaseOf[p][j]
    BY <2>7, SharedPrefix DEF PlacesUpTo
  <2> QED
    BY <2>7, <2>8 DEF ObjectsUpTo
<1> QED
  BY <1>1, <1>2

\* A version that a release does not know is ahead of all of its own.
LEMMA UnknownIsAhead ==
  ASSUME NEW o \in Opener, NEW p \in Opener, NEW v, Knows(p, v), ~Knows(o, v)
  PROVE  v > Target(o)
<1>1. PICK k \in DOMAIN ReleaseOf[p] : ReleaseOf[p][k].version = v
  BY DEF Knows, Versions
<1>2. k \notin DOMAIN ReleaseOf[o]
  BY <1>1, SharedPrefix DEF Knows, Versions
<1>3. v \in Nat /\ v > 0
  BY <1>1, ReleasesTyped
<1>4. ASSUME NEW j \in DOMAIN ReleaseOf[o] PROVE ReleaseOf[o][j].version < v
  <2>1. j < k /\ j \in DOMAIN ReleaseOf[p]
    BY <1>2, ReleasesTyped
  <2>2. ReleaseOf[o][j] = ReleaseOf[p][j]
    BY <2>1, SharedPrefix
  <2> QED
    BY <1>1, <2>1, <2>2, ReleasesTyped
<1>5. Knows(o, Target(o)) /\ Target(o) \in Nat
  BY VersionsAreNats
<1> QED
  BY <1>3, <1>4, <1>5 DEF Knows, Versions

\* The next migration brings the schema to its own version.
LEMMA NextMigration ==
  ASSUME NEW o \in Opener, NEW v, Knows(o, v), v <= Target(o),
         NEW k \in PendingMigrations(o, v), \A j \in PendingMigrations(o, v) : k <= j
  PROVE  LET g == ReleaseOf[o][k] IN
         /\ Knows(o, g.version) /\ v <= g.version /\ g.version <= Target(o)
         /\ PendingMigrations(o, g.version) = PendingMigrations(o, v) \ {k}
         /\ ObjectsUpTo(o, g.version) = ObjectsUpTo(o, v) \cup g.creates
         /\ g.creates \cap ObjectsUpTo(o, v) = {}
<1> DEFINE s == ReleaseOf[o]
<1>1. k \in DOMAIN s /\ s[k].version > v /\ s[k].version <= Target(o)
  BY DEF PendingMigrations
<1>2. v \in Nat /\ Target(o) \in Nat /\ Knows(o, s[k].version) /\ v <= s[k].version
  BY <1>1, VersionsAreNats, ReleasesTyped DEF Knows, Versions
<1>3. ASSUME NEW j \in DOMAIN s PROVE s[j].version <= v <=> j < k
  <2>1. /\ s[j].version \in Nat /\ s[k].version \in Nat /\ j \in Nat /\ k \in Nat
        /\ j < k => s[j].version < s[k].version
        /\ k < j => s[k].version < s[j].version
    BY <1>1, ReleasesTyped
  <2>2. j \in PendingMigrations(o, v) => k <= j
    OBVIOUS
  <2>3. j < k => s[j].version <= v
    BY <1>1, <1>2, <2>1, <2>2 DEF PendingMigrations
  <2> QED
    BY <1>1, <1>2, <2>1, <2>3
<1>4. ASSUME NEW j \in DOMAIN s PROVE s[j].version <= s[k].version <=> j <= k
  <2>1. /\ s[j].version \in Nat /\ s[k].version \in Nat /\ j \in Nat /\ k \in Nat
        /\ j < k => s[j].version < s[k].version
        /\ k < j => s[k].version < s[j].version
    BY <1>1, ReleasesTyped
  <2> QED
    BY <2>1
<1>5. \A j \in DOMAIN s : j \in Nat /\ s[j].version \in Nat
  BY ReleasesTyped
<1>6. PendingMigrations(o, s[k].version) = PendingMigrations(o, v) \ {k}
  BY <1>1, <1>2, <1>3, <1>4, <1>5 DEF PendingMigrations
<1>7. PlacesUpTo(o, s[k].version) = PlacesUpTo(o, v) \cup {k}
  BY <1>1, <1>3, <1>4, <1>5 DEF PlacesUpTo
<1>8. ObjectsUpTo(o, s[k].version) = ObjectsUpTo(o, v) \cup s[k].creates
  BY <1>7 DEF ObjectsUpTo
<1>9. \A j \in PlacesUpTo(o, v) : s[j].creates \cap s[k].creates = {}
  BY <1>1, <1>3, ReleasesTyped DEF PlacesUpTo
<1>10. s[k].creates \cap ObjectsUpTo(o, v) = {}
  BY <1>9 DEF ObjectsUpTo
<1> QED
  BY <1>1, <1>2, <1>6, <1>8, <1>10

\* Nothing is left to do only at the target, where a whole release has its objects.
LEMMA MigratedIsTarget ==
  ASSUME NEW o \in Opener, NEW v, Knows(o, v), v <= Target(o), PendingMigrations(o, v) = {}
  PROVE  v = Target(o) /\ AssertSchemaIntegrity(o, ObjectsUpTo(o, v))
<1>1. v \in Nat /\ Target(o) \in Nat /\ Knows(o, Target(o))
  BY VersionsAreNats
<1>2. v = Target(o)
  <2>1. SUFFICES ASSUME v < Target(o) PROVE FALSE
    BY <1>1
  <2>2. PICK k \in DOMAIN ReleaseOf[o] : ReleaseOf[o][k].version = Target(o)
    BY <1>1, <2>1 DEF Knows, Versions
  <2> QED
    BY <1>1, <2>1, <2>2 DEF PendingMigrations
<1>3. ASSUME Target(o) = GetLatestMigrationVersion(o)
      PROVE  PlacesUpTo(o, v) = DOMAIN ReleaseOf[o]
  <2>1. CASE ReleaseOf[o] = <<>>
    <3>1. DOMAIN ReleaseOf[o] = {}
      BY <2>1, ReleasesTyped
    <3> QED
      BY <3>1 DEF PlacesUpTo
  <2>2. CASE ReleaseOf[o] # <<>>
    <3> DEFINE n == Len(ReleaseOf[o])
    <3>1. n \in DOMAIN ReleaseOf[o]
      BY <2>2, ReleasesTyped
    <3>2. v = ReleaseOf[o][n].version
      BY <1>2, <1>3, <2>2 DEF GetLatestMigrationVersion, Last
    <3>3. PlacesUpTo(o, v) = 1..n
      BY <3>1, <3>2, PlacesOf
    <3> QED
      BY <3>3, ReleasesTyped
  <2> QED
    BY <2>1, <2>2
<1> QED
  BY <1>2, <1>3 DEF AssertSchemaIntegrity, ExpectedObjects, ObjectsUpTo

-----------------------------------------------------------------------------
(* Every step keeps the invariant                                            *)

\* What a bounds check refuses of a known version is a version ahead.
LEMMA RefusedIsAhead ==
  ASSUME SchemaInv, NEW o \in Opener
  PROVE  IF ResolveMigrationBounds(o, userVersion)
         THEN Knows(o, userVersion) /\ userVersion <= Target(o)
         ELSE userVersion > Target(o)
<1>1. PICK p \in Opener : Knows(p, userVersion)
  BY DEF SchemaInv, SchemaTyped
<1>2. userVersion \in Nat /\ Target(o) \in Nat /\ Knows(o, Target(o))
  BY <1>1, VersionsAreNats
<1>3. AssertDeterministicMigrations(o)
  BY ReleasesTyped DEF AssertDeterministicMigrations
<1>4. CASE Knows(o, userVersion)
  BY <1>2, <1>3, <1>4 DEF ResolveMigrationBounds, Knows
<1>5. CASE ~Knows(o, userVersion)
  BY <1>1, <1>5, UnknownIsAhead DEF ResolveMigrationBounds, Knows
<1> QED
  BY <1>4, <1>5

\* A process fails to open what it may only because the schema is ahead of it.
LEMMA FailingKeeps ==
  ASSUME SchemaInv, NEW o \in Opener, FailOpening(o), ~tampered => userVersion > Target(o)
  PROVE  SchemaInv'
<1> USE DEF SchemaInv, FailOpening
<1>1. SchemaTyped'
  BY DEF SchemaTyped, Knows
<1>2. SchemaTrue'
  BY DEF SchemaTrue, Knows, ObjectsUpTo, PlacesUpTo, IndexOf
<1>3. WorkTrue'
  BY DEF WorkTrue, Nothing
<1>4. OpensUnlessAhead'
  BY DEF OpensUnlessAhead, SchemaTyped, Target, GetLatestMigrationVersion
<1> QED
  BY <1>1, <1>2, <1>3, <1>4

\* A process that begins finds what is pending, or fails on a schema ahead of it.
LEMMA BeginKeeps ==
  ASSUME SchemaInv, NEW o \in Opener, BeginImmediate(o)
  PROVE  SchemaInv'
<1>1. CASE ~ResolveMigrationBounds(o, userVersion)
  <2>1. FailOpening(o) /\ userVersion > Target(o)
    BY <1>1, RefusedIsAhead DEF BeginImmediate
  <2> QED
    BY <2>1, FailingKeeps
<1>2. CASE ResolveMigrationBounds(o, userVersion)
  <2> USE DEF SchemaInv
  <2>1. /\ work' = [by |-> o, pending |-> PendingMigrations(o, userVersion),
                    schema |-> schema, version |-> userVersion, indexed |-> indexed]
        /\ opening' = [opening EXCEPT ![o] = "migrating"]
        /\ UNCHANGED <<schema, userVersion, items, indexed, tampered>>
    BY <1>2 DEF BeginImmediate, Begun
  <2>2. Knows(o, userVersion) /\ userVersion <= Target(o) /\ userVersion \in Nat
    BY <1>2, RefusedIsAhead, VersionsAreNats
  <2>3. SchemaTyped'
    BY <2>1 DEF SchemaTyped, Knows
  <2>4. SchemaTrue'
    BY <2>1 DEF SchemaTrue, Knows, ObjectsUpTo, PlacesUpTo, IndexOf
  <2>5. AtVersion(o, work')
    BY <2>1, <2>2 DEF AtVersion, SchemaTrue
  <2>6. WorkTrue'
    BY <2>1, <2>5 DEF WorkTrue, SchemaTyped, AtVersion, Knows, ObjectsUpTo, PlacesUpTo, IndexOf,
                      PendingMigrations, Target, GetLatestMigrationVersion
  <2>7. OpensUnlessAhead'
    BY <2>1 DEF OpensUnlessAhead, SchemaTyped, Target, GetLatestMigrationVersion
  <2> QED
    BY <2>3, <2>4, <2>6, <2>7
<1> QED
  BY <1>1, <1>2

\* A process that finds the database locked for too long is as one that crashed.
LEMMA BusyKeeps ==
  ASSUME SchemaInv, NEW o \in Opener, BeginBusy(o)
  PROVE  SchemaInv'
<1> USE DEF SchemaInv, BeginBusy
<1>1. SchemaTyped'
  BY DEF SchemaTyped, Knows
<1>2. SchemaTrue'
  BY DEF SchemaTrue, Knows, ObjectsUpTo, PlacesUpTo, IndexOf
<1>3. WorkTrue'
  <2>1. /\ UNCHANGED <<schema, userVersion, items, indexed, work, tampered>>
        /\ \A q \in Opener : opening[q] = "migrating" => opening'[q] = opening[q]
    BY DEF SchemaTyped
  <2>2. \A q \in Opener : AtVersion(q, work) => AtVersion(q, work)'
    BY ONLY <2>1 DEF AtVersion
  <2>3. CASE work = Nothing
    BY ONLY <2>1, <2>3 DEF WorkTrue, Nothing
  <2>4. CASE work # Nothing
    <3>1. PICK q \in Opener : opening[q] = "migrating" /\ AtVersion(q, work)
      BY <2>4 DEF WorkTrue
    <3> QED
      BY ONLY <2>1, <2>2, <3>1 DEF WorkTrue
  <2> QED
    BY <2>3, <2>4
<1>4. OpensUnlessAhead'
  BY DEF OpensUnlessAhead, SchemaTyped, Target, GetLatestMigrationVersion
<1> QED
  BY <1>1, <1>2, <1>3, <1>4

\* A crash takes the transaction of the process with it.
LEMMA CrashOpenerKeeps ==
  ASSUME SchemaInv, NEW o \in Opener, CrashOpener(o)
  PROVE  SchemaInv'
<1> USE DEF SchemaInv, CrashOpener
<1>1. SchemaTyped'
  BY DEF SchemaTyped, Knows
<1>2. SchemaTrue'
  BY DEF SchemaTrue, Knows, ObjectsUpTo, PlacesUpTo, IndexOf
<1>3. WorkTrue'
  <2>1. CASE work.by = o
    BY <2>1 DEF WorkTrue, Nothing
  <2>2. CASE work.by # o /\ work # Nothing
    <3>1. PICK p \in Opener : opening[p] = "migrating" /\ AtVersion(p, work)
      BY <2>2 DEF WorkTrue
    <3>2. p # o /\ work' = work
      BY <2>2, <3>1 DEF AtVersion
    <3>3. opening'[p] = "migrating"
      BY <3>1, <3>2 DEF SchemaTyped
    <3>4. AtVersion(p, work)'
      BY <3>1, <3>2 DEF AtVersion, Knows, ObjectsUpTo, PlacesUpTo, IndexOf, PendingMigrations,
                        Target, GetLatestMigrationVersion
    <3> QED
      BY <3>3, <3>4 DEF WorkTrue
  <2>3. CASE work.by # o /\ work = Nothing
    BY <2>3 DEF WorkTrue
  <2> QED
    BY <2>1, <2>2, <2>3
<1>4. OpensUnlessAhead'
  BY DEF OpensUnlessAhead, SchemaTyped, Target, GetLatestMigrationVersion
<1> QED
  BY <1>1, <1>2, <1>3, <1>4

\* The process whose transaction it is
LEMMA WorkOf ==
  ASSUME SchemaInv, NEW o \in Opener, work.by = o
  PROVE  opening[o] = "migrating" /\ AtVersion(o, work)
BY SchemaAssumption DEF SchemaInv, WorkTrue, Nothing, AtVersion

\* The index is made with the first object that needs it.
LEMMA BackfilledIndex ==
  ASSUME NEW g, NEW objects, g.creates \cap objects = {}
  PROVE  LET rows == IndexOf(objects, items) IN
         rows \cup BackfillIndex(g, rows) = IndexOf(objects \cup g.creates, items)
<1>1. CASE SearchObject \in g.creates
  <2>1. IndexOf(objects, items) = {}
    BY <1>1 DEF IndexOf
  <2>2. BackfillIndex(g, {}) = {<<i, 1>> : i \in items}
    BY <1>1 DEF BackfillIndex
  <2> QED
    BY <1>1, <2>1, <2>2 DEF IndexOf
<1>2. CASE SearchObject \notin g.creates
  BY <1>2 DEF BackfillIndex, IndexOf
<1> QED
  BY <1>1, <1>2

\* The next migration is applied in the transaction.
LEMMA ApplyKeeps ==
  ASSUME SchemaInv, NEW o \in Opener, ApplyMigration(o)
  PROVE  SchemaInv'
<1> USE DEF SchemaInv
<1>1. opening[o] = "migrating" /\ AtVersion(o, work)
  BY WorkOf DEF ApplyMigration
<1>2. PICK k \in work.pending :
        /\ \A j \in work.pending : k <= j
        /\ LET g == ReleaseOf[o][k] IN
           IF g.creates \cap work.schema # {} THEN FailOpening(o)
           ELSE /\ work' = [work EXCEPT !.pending = @ \ {k},
                              !.schema = @ \cup g.creates, !.version = g.version,
                              !.indexed = @ \cup BackfillIndex(g, @)]
                /\ UNCHANGED <<schema, userVersion, items, indexed, opening, tampered>>
  BY DEF ApplyMigration
<1> DEFINE g == ReleaseOf[o][k]
           v == work.version
<1>3. /\ work.pending = PendingMigrations(o, v) /\ Knows(o, v)
      /\ userVersion <= v /\ v <= Target(o)
  BY <1>1 DEF AtVersion
<1>4. /\ Knows(o, g.version) /\ v <= g.version /\ g.version <= Target(o)
      /\ PendingMigrations(o, g.version) = PendingMigrations(o, v) \ {k}
      /\ ObjectsUpTo(o, g.version) = ObjectsUpTo(o, v) \cup g.creates
      /\ g.creates \cap ObjectsUpTo(o, v) = {}
  BY <1>2, <1>3, NextMigration
<1>5. CASE g.creates \cap work.schema # {}
  <2>1. tampered /\ FailOpening(o)
    BY <1>1, <1>2, <1>4, <1>5 DEF AtVersion, SchemaTyped
  <2> QED
    BY <2>1, FailingKeeps
<1>6. CASE g.creates \cap work.schema = {}
  <2>1. /\ work' = [work EXCEPT !.pending = @ \ {k},
                      !.schema = @ \cup g.creates, !.version = g.version,
                      !.indexed = @ \cup BackfillIndex(g, @)]
        /\ UNCHANGED <<schema, userVersion, items, indexed, opening, tampered>>
    BY <1>2, <1>6
  <2>2. work' = [by |-> o, pending |-> work.pending \ {k}, schema |-> work.schema \cup g.creates,
                 version |-> g.version,
                 indexed |-> work.indexed \cup BackfillIndex(g, work.indexed)]
    <3> DEFINE a == work.pending  b == work.schema  x == work.indexed
               y == BackfillIndex(g, x)
    <3>1. work = [by |-> o, pending |-> a, schema |-> b, version |-> v, indexed |-> x]
      BY <1>1 DEF AtVersion
    <3>2. work' = [work EXCEPT !.pending = a \ {k}, !.schema = b \cup g.creates,
                     !.version = g.version, !.indexed = x \cup y]
      BY <2>1
    <3> HIDE DEF a, b, x, y, g, v
    <3>3. work' = [by |-> o, pending |-> a \ {k}, schema |-> b \cup g.creates,
                   version |-> g.version, indexed |-> x \cup y]
      BY <3>1, <3>2
    <3> QED
      BY <3>3 DEF a, b, x, y
  <2>3. \A u : Knows(o, u) => u \in Nat
    BY VersionsAreNats
  <2>4. userVersion \in Nat
    BY VersionsAreNats DEF SchemaTyped
  <2>5. userVersion <= g.version
    BY <1>3, <1>4, <2>3, <2>4
  <2>6. ASSUME ~tampered
        PROVE  work.indexed \cup BackfillIndex(g, work.indexed) = IndexOf(work.schema \cup g.creates, items)
    <3>1. work.schema = ObjectsUpTo(o, v) /\ work.indexed = IndexOf(work.schema, items)
      BY <1>1, <2>6 DEF AtVersion
    <3> QED
      BY <1>4, <3>1, BackfilledIndex
  <2>7. AtVersion(o, work')
    BY <1>1, <1>3, <1>4, <2>2, <2>5, <2>6 DEF AtVersion
  <2>8. AtVersion(o, work)'
    BY <2>1, <2>7 DEF AtVersion, Knows, ObjectsUpTo, PlacesUpTo, IndexOf,
                      PendingMigrations, Target, GetLatestMigrationVersion
  <2>9. WorkTrue'
    BY <1>1, <2>1, <2>8 DEF WorkTrue
  <2>10. SchemaTyped' /\ SchemaTrue'
    BY <2>1 DEF SchemaTyped, SchemaTrue, Knows, ObjectsUpTo, PlacesUpTo, IndexOf
  <2>11. OpensUnlessAhead'
    BY <2>1 DEF OpensUnlessAhead, Target, GetLatestMigrationVersion
  <2> QED
    BY <2>9, <2>10, <2>11
<1> QED
  BY <1>5, <1>6

\* The transaction is committed at the target, or rolled back.
LEMMA CommitKeeps ==
  ASSUME SchemaInv, NEW o \in Opener, ValidateAndCommit(o)
  PROVE  SchemaInv'
<1> DEFINE v == work.version
<1> USE DEF SchemaInv
<1>1. opening[o] = "migrating" /\ AtVersion(o, work) /\ work.pending = {}
  BY WorkOf DEF ValidateAndCommit
<1>2. /\ PendingMigrations(o, v) = {} /\ Knows(o, v) /\ userVersion <= v /\ v <= Target(o)
      /\ ~tampered => work.schema = ObjectsUpTo(o, v) /\ work.indexed = IndexOf(work.schema, items)
  BY <1>1 DEF AtVersion
<1>3. v = Target(o) /\ AssertSchemaIntegrity(o, ObjectsUpTo(o, v))
  BY <1>2, MigratedIsTarget
<1>4. CASE ~(v = Target(o) /\ AssertSchemaIntegrity(o, work.schema))
  <2>1. tampered /\ FailOpening(o)
    BY <1>2, <1>3, <1>4 DEF ValidateAndCommit, SchemaTyped
  <2> QED
    BY <2>1, FailingKeeps
<1>5. CASE v = Target(o) /\ AssertSchemaIntegrity(o, work.schema)
  <2>1. /\ schema' = work.schema /\ userVersion' = v /\ indexed' = work.indexed
        /\ opening' = [opening EXCEPT ![o] = "open"] /\ work' = Nothing
        /\ UNCHANGED <<items, tampered>>
    BY <1>5 DEF ValidateAndCommit
  <2>2. SchemaTyped'
    BY <1>2, <2>1 DEF SchemaTyped, Knows
  <2>3. ASSUME ~tampered, NEW p \in Opener, Knows(p, v) PROVE work.schema = ObjectsUpTo(p, v)
    BY <1>2, <2>3, ReleasesAgree
  <2>4. SchemaTrue'
    BY <1>2, <2>1, <2>3 DEF SchemaTrue, Knows, ObjectsUpTo, PlacesUpTo, IndexOf
  <2>5. WorkTrue'
    BY <2>1 DEF WorkTrue, Nothing
  <2>6. userVersion \in Nat /\ v \in Nat /\ \A p \in Opener : Target(p) \in Nat
    BY <1>2, VersionsAreNats DEF SchemaTyped
  <2>7. ASSUME NEW p \in Opener, ~tampered
        PROVE  /\ opening'[p] = "failed" => v > Target(p)
               /\ opening'[p] = "open" => v >= Target(p)
    <3>1. CASE p = o
      BY <1>3, <2>1, <2>6, <3>1 DEF SchemaTyped
    <3>2. CASE p # o
      <4>1. opening'[p] = opening[p]
        BY <2>1, <3>2 DEF SchemaTyped
      <4> QED
        BY <1>2, <2>6, <2>7, <4>1 DEF OpensUnlessAhead
    <3> QED
      BY <3>1, <3>2
  <2>8. OpensUnlessAhead'
    BY <2>1, <2>7 DEF OpensUnlessAhead, Target, GetLatestMigrationVersion
  <2> QED
    BY <2>2, <2>4, <2>5, <2>8
<1> QED
  BY <1>4, <1>5

\* A row is written through the triggers there are.
LEMMA WriteItemKeeps ==
  ASSUME SchemaInv, NEW o \in Opener, NEW i \in Item, WriteItem(o, i)
  PROVE  SchemaInv'
<1> USE DEF SchemaInv
<1>1. work = Nothing /\ UNCHANGED <<schema, userVersion, opening, work, tampered>>
  BY DEF WriteItem
<1>2. /\ items' = items \cup {i} \/ items' = items \ {i}
      /\ items' \subseteq Item /\ IsFiniteSet(items')
  <2>1. items' = items \cup {i} \/ items' = items \ {i}
    BY DEF WriteItem
  <2>2. items' \subseteq Item
    BY <2>1 DEF SchemaTyped
  <2>3. IsFiniteSet(items')
    BY <2>1, FS_AddElement, FS_RemoveElement DEF SchemaTyped
  <2> QED
    BY <2>1, <2>2, <2>3
<1>3. SchemaTyped'
  BY <1>1, <1>2 DEF SchemaTyped, Knows
<1>4. ASSUME ~tampered PROVE indexed' = IndexOf(schema, items')
  <2>1. indexed = IndexOf(schema, items)
    BY <1>4 DEF SchemaTrue
  <2>2. CASE SearchObject \notin schema
    BY <2>1, <2>2 DEF WriteItem, IndexOf
  <2>3. CASE SearchObject \in schema
    <3>1. indexed = {<<j, 1>> : j \in items}
      BY <2>1, <2>3 DEF IndexOf
    <3>2. {r \in indexed : r[1] # i} = {<<j, 1>> : j \in items \ {i}}
      BY <3>1
    <3>3. \/ /\ items' = items \cup {i} /\ indexed' = {r \in indexed : r[1] # i} \cup {<<i, 1>>}
          \/ /\ items' = items \ {i} /\ indexed' = {r \in indexed : r[1] # i}
      BY <2>3 DEF WriteItem
    <3>4. indexed' = {<<j, 1>> : j \in items'}
      BY <3>2, <3>3
    <3> QED
      BY <2>3, <3>4 DEF IndexOf
  <2> QED
    BY <2>2, <2>3
<1>5. SchemaTrue'
  BY <1>1, <1>4 DEF SchemaTrue, Knows, ObjectsUpTo, PlacesUpTo, IndexOf
<1>6. WorkTrue'
  BY <1>1 DEF WorkTrue
<1>7. OpensUnlessAhead'
  BY <1>1 DEF OpensUnlessAhead, Target, GetLatestMigrationVersion
<1> QED
  BY <1>3, <1>5, <1>6, <1>7

\* Somebody changes the schema by hand.
LEMMA TamperKeeps ==
  ASSUME SchemaInv, TamperSchema
  PROVE  SchemaInv'
BY DEF SchemaInv, TamperSchema, SchemaTyped, SchemaTrue, WorkTrue, OpensUnlessAhead, Knows

\* The invariant holds of an empty database and is kept by every step.
THEOREM SchemaInductive ==
  /\ SchemaInit => SchemaInv
  /\ SchemaInv /\ [SchemaNext]_schemaVars => SchemaInv'
<1>1. ASSUME SchemaInit PROVE SchemaInv
  <2> USE <1>1 DEF SchemaInit
  <2>1. SchemaTyped
    BY SchemaAssumption, FS_EmptySet DEF SchemaTyped, Knows
  <2>2. \A o \in Opener : PlacesUpTo(o, 0) = {}
    BY ReleasesTyped DEF PlacesUpTo
  <2>3. SchemaTrue
    BY <2>2 DEF SchemaTrue, ObjectsUpTo, IndexOf
  <2>4. WorkTrue /\ OpensUnlessAhead
    BY DEF WorkTrue, OpensUnlessAhead
  <2> QED
    BY <2>1, <2>3, <2>4 DEF SchemaInv
<1>2. ASSUME SchemaInv, SchemaNext PROVE SchemaInv'
  BY <1>2, BeginKeeps, BusyKeeps, ApplyKeeps, CommitKeeps, CrashOpenerKeeps, WriteItemKeeps,
     TamperKeeps DEF SchemaNext
<1>3. ASSUME SchemaInv, UNCHANGED schemaVars PROVE SchemaInv'
  <2> USE <1>3 DEF schemaVars, SchemaInv
  <2>1. SchemaTyped' /\ SchemaTrue'
    BY DEF SchemaTyped, SchemaTrue, Knows, ObjectsUpTo, PlacesUpTo, IndexOf
  <2>2. WorkTrue'
    BY DEF WorkTrue, AtVersion, Knows, ObjectsUpTo, PlacesUpTo, IndexOf, PendingMigrations,
           Target, GetLatestMigrationVersion
  <2>3. OpensUnlessAhead'
    BY DEF OpensUnlessAhead, Target, GetLatestMigrationVersion
  <2> QED
    BY <2>1, <2>2, <2>3
<1> QED
  BY <1>1, <1>2, <1>3

\* The invariant says what is promised.
LEMMA SchemaPromises == SchemaInv => SchemaTypeOK /\ SchemaIsRight
<1> SUFFICES ASSUME SchemaInv PROVE SchemaTypeOK /\ SchemaIsRight
  OBVIOUS
<1> USE DEF SchemaInv
<1>1. SchemaTypeOK
  BY DEF SchemaTypeOK, SchemaTyped, Knows
<1>2. VersionNamesSchema
  BY DEF VersionNamesSchema, SchemaTyped, SchemaTrue, ObjectsUpTo, PlacesUpTo
<1>3. EveryRowIsIndexed
  <2>1. SUFFICES ASSUME SearchObject \in schema, ~tampered
                 PROVE  {r[1] : r \in indexed} = items /\ Cardinality(indexed) = Cardinality(items)
    BY DEF EveryRowIsIndexed
  <2>2. indexed = {<<i, 1>> : i \in items}
    BY <2>1 DEF SchemaTrue, IndexOf
  <2> DEFINE f == [i \in items |-> <<i, 1>>]
  <2>3. f \in [items -> indexed] /\ \A i, j \in items : f[i] = f[j] => i = j
    BY <2>2
  <2>4. \A r \in indexed : \E i \in items : f[i] = r
    BY <2>2
  <2>5. f \in Bijection(items, indexed)
    BY <2>3, <2>4 DEF Bijection, Injection, Surjection, IsInjective
  <2>6. Cardinality(indexed) = Cardinality(items)
    <3>1. ExistsBijection(items, indexed) /\ IsFiniteSet(items)
      BY <2>5 DEF ExistsBijection, SchemaTyped
    <3> QED
      BY <3>1, FS_Bijection
  <2>7. \A i \in items : <<i, 1>> \in indexed /\ <<i, 1>>[1] = i
    BY <2>2
  <2>8. \A r \in indexed : r[1] \in items
    BY <2>2
  <2>9. {r[1] : r \in indexed} = items
    BY <2>7, <2>8
  <2> QED
    BY <2>6, <2>9
<1> QED
  BY <1>1, <1>2, <1>3 DEF SchemaIsRight

\* Whoever crashes wherever, the version of a schema that nobody has changed by
\* hand names what it holds, rows written before the index are found like those
\* written after, and processes that open at once do not fail each other.
THEOREM SchemaRight == SchemaSpec => [](SchemaTypeOK /\ SchemaIsRight)
<1>1. SchemaSpec => []SchemaInv
  BY SchemaInductive, PTL DEF SchemaSpec
<1> QED
  BY <1>1, SchemaPromises, PTL

-----------------------------------------------------------------------------
(* The backups: their inductive invariant                                   *)

Record == Nat \X Nat
NoRepeats(list) == \A i, j \in DOMAIN list : list[i] = list[j] => i = j
Newest(fs, f) == \A g \in fs : g = f \/ Older(g, f)

BackupTyped ==
  /\ files \subseteq (0..MaxClock) \X (1..MaxSnapshots)
  /\ nextSequence \in 0..MaxSnapshots /\ wallClock \in 0..MaxClock
  /\ timer \in BOOLEAN /\ wentBack \in BOOLEAN /\ latest \in Record
\* The list is that of the files, each once.
Listed(fs, list) ==
  list \in Seq(Record) /\ NoRepeats(list) /\ fs = ToSet(list)
\* While the clock goes forward, the last snapshot taken is the newest there is.
LatestIsNewest ==
  ~wentBack =>
    /\ latest[1] <= wallClock /\ latest[2] <= nextSequence
    /\ latest # <<0, 0>> => latest \in files
    /\ Newest(files, latest)

BackupInv ==
  /\ BackupTyped /\ Listed(files, managed) /\ Len(managed) <= RetentionMaxSnapshots
  /\ SequencesAreFresh /\ LatestIsNewest

\* Snapshots are in a total order.
LEMMA OlderIsOrder ==
  ASSUME NEW x \in Record, NEW y \in Record, NEW z \in Record
  PROVE  /\ ~Older(x, x) /\ ~(Older(x, y) /\ Older(y, x))
         /\ Older(x, y) /\ Older(y, z) => Older(x, z)
         /\ x # y => Older(x, y) \/ Older(y, x)
BY DEF Older, Record

\* A bounded set of numbers has a greatest one.
LEMMA MaxOfBounded ==
  ASSUME NEW n \in Nat, NEW S \in SUBSET (0..n), S # {}
  PROVE  Max(S) \in S /\ \A x \in S : x <= Max(S)
<1> DEFINE R == OpToRel(<, Nat)
           T == {n - x : x \in S}
<1>1. IsWellFoundedOn(R, Nat)
  BY NatLessThanWellFounded
<1>2. T \subseteq Nat /\ T # {}
  <2>1. \A x \in S : n - x \in Nat
    OBVIOUS
  <2>2. \E x \in S : n - x \in T
    OBVIOUS
  <2> QED
    BY <2>1, <2>2
<1>3. PICK b \in T : \A c \in T : ~(<<c, b>> \in R)
  <2> HIDE DEF R, T
  <2> QED
    BY <1>1, <1>2, WFMin
<1>4. \A c \in T : b <= c
  <2> SUFFICES ASSUME NEW c \in T, c < b PROVE FALSE
    BY <1>2
  <2>1. <<c, b>> \in R
    BY <1>2 DEF OpToRel
  <2> QED
    BY <1>3, <2>1
<1>5. PICK x \in S : b = n - x
  OBVIOUS
<1>6. \A y \in S : x >= y
  BY <1>4, <1>5
<1> QED
  BY <1>6 DEF Max

\* The place of a record among those of a set
Place(s, f) == Cardinality(OlderThan(s, f)) + 1

LEMMA PlacesDiffer ==
  ASSUME NEW s \in SUBSET Record, IsFiniteSet(s)
  PROVE  /\ \A f \in s : Place(s, f) \in 1..Cardinality(s)
         /\ \A f, g \in s : Place(s, f) = Place(s, g) => f = g
         /\ \A f \in s : Newest(s, f) => Place(s, f) = Cardinality(s)
<1>1. ASSUME NEW f \in s
      PROVE  /\ IsFiniteSet(OlderThan(s, f)) /\ Cardinality(OlderThan(s, f)) \in Nat
             /\ Cardinality(OlderThan(s, f) \cup {f}) = Cardinality(OlderThan(s, f)) + 1
             /\ OlderThan(s, f) \cup {f} \subseteq s /\ f \notin OlderThan(s, f)
  <2>1. OlderThan(s, f) \subseteq s /\ f \notin OlderThan(s, f)
    BY OlderIsOrder DEF OlderThan
  <2>2. IsFiniteSet(OlderThan(s, f))
    BY <2>1, FS_Subset
  <2> QED
    BY <2>1, <2>2, FS_AddElement, FS_CardinalityType
<1>2. Cardinality(s) \in Nat
  BY FS_CardinalityType
<1>3. ASSUME NEW f \in s PROVE Place(s, f) \in 1..Cardinality(s)
  <2>1. Cardinality(OlderThan(s, f) \cup {f}) <= Cardinality(s)
    BY <1>1, FS_Subset
  <2> QED
    BY <1>1, <1>2, <2>1 DEF Place
<1>4. ASSUME NEW f \in s, NEW g \in s, Older(f, g) PROVE Place(s, f) < Place(s, g)
  <2>1. OlderThan(s, f) \cup {f} \subseteq OlderThan(s, g)
    BY <1>4, OlderIsOrder DEF OlderThan
  <2>2. Cardinality(OlderThan(s, f) \cup {f}) <= Cardinality(OlderThan(s, g))
    BY <1>1, <2>1, FS_Subset
  <2>3. Cardinality(OlderThan(s, f)) \in Nat /\ Cardinality(OlderThan(s, g)) \in Nat
    BY <1>1
  <2>4. Cardinality(OlderThan(s, f) \cup {f}) = Cardinality(OlderThan(s, f)) + 1
    BY <1>1
  <2> QED
    BY <2>2, <2>3, <2>4 DEF Place
<1>5. ASSUME NEW f \in s, NEW g \in s, Place(s, f) = Place(s, g) PROVE f = g
  <2>1. Place(s, f) \in Nat /\ Place(s, g) \in Nat
    BY <1>3
  <2>2. ~Older(f, g) /\ ~Older(g, f)
    BY <1>4, <1>5, <2>1
  <2> QED
    BY <2>2, OlderIsOrder
<1>6. ASSUME NEW f \in s, Newest(s, f) PROVE Place(s, f) = Cardinality(s)
  <2>1. OlderThan(s, f) \cup {f} = s
    BY <1>6 DEF OlderThan, Newest
  <2> QED
    BY <1>1, <2>1 DEF Place
<1> QED
  BY <1>3, <1>5, <1>6

\* The records of a set are sorted into a list of them, the newest last.
LEMMA SortedIsListed ==
  ASSUME NEW s \in SUBSET Record, IsFiniteSet(s)
  PROVE  LET list == SortSnapshotRecords(s) IN
         /\ Listed(s, list)
         /\ \A f \in s : Newest(s, f) => Len(list) > 0 /\ list[Len(list)] = f
<1> DEFINE n == Cardinality(s)
           p == [f \in s |-> Place(s, f)]
           list == SortSnapshotRecords(s)
<1>1. n \in Nat
  BY FS_CardinalityType
<1>2. p \in [s -> 1..n] /\ \A f, g \in s : p[f] = p[g] => f = g
  BY PlacesDiffer
<1>3. p \in Injection(s, 1..n)
  BY <1>2 DEF Injection, IsInjective
<1>4. IsFiniteSet(1..n) /\ Cardinality(1..n) = n
  BY <1>1, FS_Interval
<1>5. p \in Surjection(s, 1..n)
  BY <1>3, <1>4, FS_Injection
<1>6. \A k \in 1..n : \E f \in s : Place(s, f) = k
  BY <1>5 DEF Surjection
<1>7. \A f \in s : Cardinality(OlderThan(s, f)) \in Nat
  BY FS_Subset, FS_CardinalityType DEF OlderThan
<1>8. \A k \in 1..n : list[k] \in s /\ Place(s, list[k]) = k
  <2> SUFFICES ASSUME NEW k \in 1..n PROVE list[k] \in s /\ Place(s, list[k]) = k
    OBVIOUS
  <2>1. list[k] = CHOOSE f \in s : Cardinality(OlderThan(s, f)) = k - 1
    BY DEF SortSnapshotRecords
  <2>2. \E f \in s : Cardinality(OlderThan(s, f)) = k - 1
    BY <1>6, <1>7 DEF Place
  <2>3. list[k] \in s /\ Cardinality(OlderThan(s, list[k])) = k - 1
    BY <2>1, <2>2
  <2> QED
    BY <1>1, <1>7, <2>3 DEF Place
<1>9. list = [k \in 1..n |-> list[k]]
  BY DEF SortSnapshotRecords
<1> HIDE DEF list, n, p
<1>10. list \in [1..n -> s]
  BY <1>8, <1>9
<1>11. list \in Seq(Record) /\ Len(list) = n /\ DOMAIN list = 1..n
  BY <1>1, <1>10
<1>12. NoRepeats(list)
  BY <1>8, <1>11 DEF NoRepeats
<1>13. \A f \in s : \E k \in 1..n : list[k] = f
  <2> SUFFICES ASSUME NEW f \in s PROVE \E k \in 1..n : list[k] = f
    OBVIOUS
  <2>1. Place(s, f) \in 1..n
    BY PlacesDiffer DEF n
  <2>2. list[Place(s, f)] = f
    BY <1>8, <2>1, PlacesDiffer
  <2> QED
    BY <2>1, <2>2
<1>14. s = ToSet(list)
  BY <1>8, <1>11, <1>13 DEF ToSet
<1>15. ASSUME NEW f \in s, Newest(s, f) PROVE Len(list) > 0 /\ list[Len(list)] = f
  <2>1. Place(s, f) \in 1..n /\ Place(s, f) = n
    BY <1>15, PlacesDiffer DEF n
  <2>2. n \in 1..n /\ list[n] \in s /\ Place(s, list[n]) = n
    BY <1>8, <2>1
  <2>3. list[n] = f
    BY <2>1, <2>2, PlacesDiffer
  <2> QED
    BY <1>1, <1>11, <2>2, <2>3
<1> QED
  BY <1>11, <1>12, <1>14, <1>15 DEF Listed, list

\* What retention keeps is listed, within the limit, and holds the last of the list.
LEMMA RetentionKeeps ==
  ASSUME NEW fs, NEW list, Listed(fs, list)
  PROVE  LET kept == ApplyRetention(fs, list) IN
         /\ Listed(kept.files, kept.managed) /\ kept.files \subseteq fs
         /\ Len(kept.managed) <= RetentionMaxSnapshots
         /\ Len(list) > 0 => list[Len(list)] \in kept.files
<1> DEFINE n == StaleCount(list)
           l == Len(list)
           old == SubSeq(list, 1, n)
           new == SubSeq(list, n + 1, l)
<1>1. l \in Nat /\ RetentionMaxSnapshots \in Nat /\ RetentionMaxSnapshots > 0
  BY BackupAssumption DEF Listed
<1>2. /\ n \in Nat /\ n <= l /\ l - n <= RetentionMaxSnapshots /\ l - n \in Nat
      /\ l > 0 => n < l
  BY <1>1 DEF StaleCount
<1> HIDE DEF n
<1>3. list \in Seq(Record) /\ DOMAIN list = 1..l
  BY DEF Listed
<1>4. old \in Seq(Record) /\ DOMAIN old = 1..n /\ \A i \in 1..n : old[i] = list[i]
  BY <1>1, <1>2, <1>3
<1>5. /\ new \in Seq(Record) /\ Len(new) = l - n /\ DOMAIN new = 1..(l - n)
      /\ \A i \in 1..(l - n) : new[i] = list[i + n]
  <2>1. n + 1 \in Int /\ l \in Int /\ \A i \in (n + 1)..l : list[i] \in Record
    BY <1>1, <1>2, <1>3
  <2>2. /\ new \in Seq(Record) /\ Len(new) = IF n + 1 <= l THEN l - (n + 1) + 1 ELSE 0
        /\ \A i \in 1..(l - (n + 1) + 1) : new[i] = list[(n + 1) + i - 1]
    BY <2>1, SubSeqProperties
  <2> HIDE DEF new, l
  <2>3. l - (n + 1) + 1 = l - n /\ \A i \in 1..(l - n) : (n + 1) + i - 1 = i + n
    BY <1>1, <1>2
  <2>4. Len(new) = l - n
    BY <1>1, <1>2, <2>2, <2>3
  <2>5. DOMAIN new = 1..(l - n)
    BY <2>2, <2>4
  <2> QED
    BY <2>2, <2>3, <2>4, <2>5
<1> HIDE DEF l, old, new
<1>6. ApplyRetention(fs, list) = [files |-> fs \ ToSet(old), managed |-> new]
  BY DEF ApplyRetention, old, new, n, l
<1>7. NoRepeats(new)
  <2> SUFFICES ASSUME NEW i \in 1..(l - n), NEW j \in 1..(l - n), new[i] = new[j] PROVE i = j
    BY <1>5 DEF NoRepeats
  <2>1. i + n \in 1..l /\ j + n \in 1..l /\ list[i + n] = list[j + n]
    BY <1>1, <1>2, <1>5
  <2>2. i + n = j + n
    BY <1>3, <2>1 DEF Listed, NoRepeats
  <2> QED
    BY <1>2, <2>2
<1>8. fs \ ToSet(old) = ToSet(new)
  <2>1. ASSUME NEW x \in ToSet(new) PROVE x \in fs \ ToSet(old)
    <3>1. PICK i \in 1..(l - n) : x = list[i + n] /\ i + n \in 1..l /\ i + n > n
      BY <1>1, <1>2, <1>5 DEF ToSet
    <3>2. x \in fs
      BY <1>3, <3>1 DEF Listed, ToSet
    <3>3. \A j \in 1..n : j \in 1..l /\ j # i + n
      BY <1>1, <1>2, <3>1
    <3>4. x \notin ToSet(old)
      BY <1>3, <1>4, <3>1, <3>3 DEF Listed, NoRepeats, ToSet
    <3> QED
      BY <3>2, <3>4
  <2>2. ASSUME NEW x \in fs, x \notin ToSet(old) PROVE x \in ToSet(new)
    <3>1. PICK i \in 1..l : x = list[i]
      BY <1>3 DEF Listed, ToSet
    <3>2. i \notin 1..n
      BY <1>4, <2>2, <3>1 DEF ToSet
    <3>3. i - n \in 1..(l - n) /\ (i - n) + n = i
      BY <1>1, <1>2, <3>1, <3>2
    <3>4. new[i - n] = x
      BY <1>5, <3>1, <3>3
    <3> QED
      BY <1>5, <3>3, <3>4 DEF ToSet
  <2> QED
    BY <2>1, <2>2
<1>9. l > 0 => list[l] \in ToSet(new)
  <2> SUFFICES ASSUME l > 0 PROVE list[l] \in ToSet(new)
    OBVIOUS
  <2>1. l - n \in 1..(l - n) /\ (l - n) + n = l
    BY <1>1, <1>2
  <2>2. new[l - n] = list[l]
    BY <1>5, <2>1
  <2> QED
    BY <1>5, <2>1, <2>2 DEF ToSet
<1> QED
  <2> DEFINE kept == ApplyRetention(fs, list)
  <2>1. kept.files = ToSet(new) /\ kept.managed = new
    BY <1>6, <1>8
  <2>2. kept.files \subseteq fs
    BY <1>6
  <2> HIDE DEF kept
  <2> QED
    BY <1>2, <1>5, <1>7, <1>9, <2>1, <2>2 DEF Listed, l, kept

-----------------------------------------------------------------------------
(* Every step keeps the invariant                                            *)

\* The name of the next snapshot is new, and while the clock goes forward newer
\* than that of every file.
LEMMA SnapshotIsNew ==
  ASSUME BackupInv, nextSequence < MaxSnapshots
  PROVE  /\ Snapshot \in (0..MaxClock) \X (1..MaxSnapshots) /\ Snapshot \in Record
         /\ Snapshot # <<0, 0>> /\ Snapshot[1] = wallClock /\ Snapshot[2] = nextSequence + 1
         /\ Snapshot \notin files
         /\ ~wentBack => Newest(files \cup {Snapshot}, Snapshot)
<1> USE DEF BackupInv
<1>1. /\ wallClock \in 0..MaxClock /\ nextSequence \in 0..MaxSnapshots /\ MaxSnapshots \in Nat
      /\ MaxClock \in Nat /\ latest \in Record
      /\ files \subseteq (0..MaxClock) \X (1..MaxSnapshots)
  BY BackupAssumption DEF BackupTyped
<1>2. nextSequence + 1 \in 1..MaxSnapshots /\ nextSequence \in Nat /\ wallClock \in Nat
  BY <1>1
<1>3. /\ Snapshot[1] = wallClock /\ Snapshot[2] = nextSequence + 1 /\ Snapshot # <<0, 0>>
      /\ Snapshot \in (0..MaxClock) \X (1..MaxSnapshots) /\ Snapshot \in Record
  BY <1>1, <1>2 DEF Snapshot, Record
<1>4. Snapshot \notin files
  BY <1>2, <1>3 DEF SequencesAreFresh
<1>5. ASSUME ~wentBack PROVE Newest(files \cup {Snapshot}, Snapshot)
  <2>1. latest[1] \in Nat /\ latest[2] \in Nat /\ latest[1] <= wallClock /\ latest[2] <= nextSequence
    BY <1>1, <1>5 DEF LatestIsNewest, Record
  <2>2. Older(latest, Snapshot)
    BY <1>2, <1>3, <2>1 DEF Older
  <2>3. \A f \in files : f \in Record
    BY <1>1 DEF Record
  <2>4. ASSUME NEW f \in files PROVE Older(f, Snapshot)
    <3>1. f = latest \/ Older(f, latest)
      BY <1>5 DEF LatestIsNewest, Newest
    <3> QED
      BY <1>1, <1>3, <2>2, <2>3, <3>1, OlderIsOrder
  <2> QED
    BY <2>4 DEF Newest
<1> QED
  BY <1>3, <1>4, <1>5

\* A snapshot that is taken is listed last and kept.
LEMMA TakingKeeps ==
  ASSUME BackupInv, Taken, timer' \in BOOLEAN, UNCHANGED <<wallClock, wentBack>>
  PROVE  BackupInv'
<1> DEFINE list == Append(managed, Snapshot)
           fs == files \cup {Snapshot}
           kept == ApplyRetention(fs, list)
           x == Snapshot
<1> USE DEF BackupInv
<1>1. /\ nextSequence < MaxSnapshots /\ nextSequence' = nextSequence + 1 /\ latest' = x
      /\ files' = kept.files /\ managed' = kept.managed
  BY DEF Taken
<1>2. /\ x \in (0..MaxClock) \X (1..MaxSnapshots) /\ x \in Record
      /\ x # <<0, 0>> /\ x[1] = wallClock /\ x[2] = nextSequence + 1
      /\ x \notin files /\ (~wentBack => Newest(fs, x))
  BY <1>1, SnapshotIsNew
<1> HIDE DEF x
<1>3. Listed(fs, list) /\ Len(list) > 0 /\ list[Len(list)] = x
  <2>1. managed \in Seq(Record) /\ NoRepeats(managed) /\ files = ToSet(managed)
    BY DEF Listed
  <2>2. list = Append(managed, x) /\ fs = files \cup {x}
    BY DEF x
  <2>3. /\ list \in Seq(Record) /\ Len(list) = Len(managed) + 1 /\ Len(managed) \in Nat
        /\ DOMAIN managed = 1..Len(managed) /\ DOMAIN list = 1..(Len(managed) + 1)
        /\ list[Len(managed) + 1] = x /\ \A i \in 1..Len(managed) : list[i] = managed[i]
    BY <1>2, <2>1, <2>2
  <2> HIDE DEF list, fs
  <2>4. \A i \in 1..Len(managed) : managed[i] # x
    BY <1>2, <2>1, <2>3 DEF ToSet
  <2>5. NoRepeats(list)
    BY <2>1, <2>3, <2>4 DEF NoRepeats
  <2>6. fs = ToSet(list)
    BY <2>1, <2>2, <2>3 DEF ToSet
  <2> QED
    BY <2>3, <2>5, <2>6 DEF Listed
<1> HIDE DEF list, fs
<1>4. /\ Listed(files', managed') /\ files' \subseteq fs /\ x \in files'
      /\ Len(managed') <= RetentionMaxSnapshots
  BY <1>1, <1>3, RetentionKeeps
<1>5. fs = files \cup {x}
  BY DEF fs, x
<1>6. BackupTyped'
  <2>1. nextSequence + 1 \in 0..MaxSnapshots
    BY <1>1, BackupAssumption DEF BackupTyped
  <2>2. files' \subseteq (0..MaxClock) \X (1..MaxSnapshots)
    BY <1>2, <1>4, <1>5 DEF BackupTyped
  <2> QED
    BY <1>1, <1>2, <2>1, <2>2 DEF BackupTyped
<1>7. nextSequence \in Nat /\ \A f \in files : f[2] \in Nat
  BY DEF BackupTyped
<1>8. SequencesAreFresh'
  <2>1. \A f \in files : f[2] <= nextSequence + 1
    BY <1>7 DEF SequencesAreFresh
  <2>2. \A f \in files' : f \in files \/ f = x
    BY <1>4, <1>5
  <2>3. x[2] <= nextSequence + 1
    BY <1>2, <1>7
  <2> QED
    BY <1>1, <2>1, <2>2, <2>3 DEF SequencesAreFresh
<1>9. LatestIsNewest'
  <2>1. wallClock \in Nat
    BY DEF BackupTyped
  <2> QED
    BY <1>1, <1>2, <1>4, <1>7, <2>1 DEF LatestIsNewest, Newest
<1> QED
  BY <1>4, <1>6, <1>8, <1>9 DEF Listed

\* A failure uses up a sequence, and the timer may stop.
LEMMA FailureKeeps ==
  ASSUME BackupInv, nextSequence < MaxSnapshots, nextSequence' = nextSequence + 1,
         files' = files, timer' \in BOOLEAN, UNCHANGED <<managed, latest, wallClock, wentBack>>
  PROVE  BackupInv'
<1> USE DEF BackupInv
<1>1. nextSequence \in Nat /\ nextSequence + 1 \in 0..MaxSnapshots
      /\ latest[2] \in Nat /\ \A f \in files : f[2] \in Nat
  BY BackupAssumption DEF BackupTyped, Record
<1>2. BackupTyped'
  <2>1. nextSequence' \in 0..MaxSnapshots
    BY <1>1
  <2> QED
    BY <2>1 DEF BackupTyped
<1>3. SequencesAreFresh'
  <2>1. \A f \in files : f[2] <= nextSequence + 1
    BY <1>1 DEF SequencesAreFresh
  <2> QED
    BY <2>1 DEF SequencesAreFresh
<1>4. LatestIsNewest'
  BY <1>1 DEF LatestIsNewest
<1> QED
  BY <1>2, <1>3, <1>4 DEF Listed

\* A replication takes a snapshot, or fails.
LEMMA ReplicateKeeps ==
  ASSUME BackupInv, ReplicateNow \/ IntervalFires
  PROVE  BackupInv'
<1>1. timer' \in BOOLEAN /\ UNCHANGED <<wallClock, wentBack>>
  BY DEF ReplicateNow, IntervalFires, BackupInv, BackupTyped
<1>2. \/ Taken
      \/ /\ nextSequence < MaxSnapshots /\ nextSequence' = nextSequence + 1
         /\ files' = files \ {Snapshot} \/ files' = files
         /\ UNCHANGED <<managed, latest>>
  BY DEF ReplicateNow, IntervalFires
<1>3. nextSequence < MaxSnapshots => files \ {Snapshot} = files
  BY SnapshotIsNew
<1> QED
  BY <1>1, <1>2, <1>3, TakingKeeps, FailureKeeps

\* A restart lists the files anew and counts on from their highest sequence.
LEMMA RestartKeeps ==
  ASSUME BackupInv, RestartReplicator
  PROVE  BackupInv'
<1> DEFINE list == SortSnapshotRecords(files)
           all == {0} \cup {f[2] : f \in files}
<1> USE DEF BackupInv
<1>1. /\ files' = ApplyRetention(files, list).files
      /\ managed' = ApplyRetention(files, list).managed
      /\ nextSequence' = Max(all) /\ timer' \in BOOLEAN
      /\ UNCHANGED <<wallClock, latest, wentBack>>
  BY BackupAssumption DEF RestartReplicator, Adopted, HighestSequence
<1>2. IsFiniteSet(files) /\ files \subseteq Record
  <2>1. IsFiniteSet((0..MaxClock) \X (1..MaxSnapshots))
    <3>1. IsFiniteSet(0..MaxClock) /\ IsFiniteSet(1..MaxSnapshots)
      BY BackupAssumption, FS_Interval
    <3> QED
      BY <3>1, FS_Product
  <2> QED
    BY <2>1, FS_Subset DEF BackupTyped, Record
<1>3. /\ Listed(files, list)
      /\ \A f \in files : Newest(files, f) => Len(list) > 0 /\ list[Len(list)] = f
  BY <1>2, SortedIsListed
<1> HIDE DEF list
<1>4. /\ Listed(files', managed') /\ files' \subseteq files
      /\ Len(managed') <= RetentionMaxSnapshots
      /\ Len(list) > 0 => list[Len(list)] \in files'
  BY <1>1, <1>3, RetentionKeeps
<1>5. all \subseteq 0..MaxSnapshots /\ all # {} /\ MaxSnapshots \in Nat
  BY BackupAssumption DEF BackupTyped
<1>6. nextSequence' \in 0..MaxSnapshots /\ \A f \in files : f[2] <= nextSequence'
  <2>1. Max(all) \in all /\ \A k \in all : k <= Max(all)
    BY <1>5, MaxOfBounded
  <2>2. \A f \in files : f[2] \in all
    OBVIOUS
  <2> HIDE DEF all
  <2> QED
    BY <1>1, <1>5, <2>1, <2>2
<1>7. BackupTyped'
  BY <1>1, <1>4, <1>6 DEF BackupTyped
<1>8. SequencesAreFresh'
  BY <1>4, <1>6 DEF SequencesAreFresh
<1>9. LatestIsNewest'
  <2> SUFFICES ASSUME ~wentBack PROVE LatestIsNewest'
    BY <1>1 DEF LatestIsNewest
  <2>1. latest[1] <= wallClock /\ Newest(files, latest) /\ (latest # <<0, 0>> => latest \in files)
    BY DEF LatestIsNewest
  <2>2. latest # <<0, 0>> => latest \in files'
    BY <1>3, <1>4, <2>1
  <2>3. latest[2] <= nextSequence'
    <3>1. CASE latest = <<0, 0>>
      BY <1>6, <3>1
    <3>2. CASE latest # <<0, 0>>
      BY <1>6, <2>1, <3>2
    <3> QED
      BY <3>1, <3>2
  <2> QED
    BY <1>1, <1>4, <2>1, <2>2, <2>3 DEF LatestIsNewest, Newest
<1> QED
  BY <1>4, <1>7, <1>8, <1>9 DEF Listed

\* The wall clock goes on, or is set back.
LEMMA ClockKeeps ==
  ASSUME BackupInv, SetClock
  PROVE  BackupInv'
<1> USE DEF BackupInv, SetClock
<1>1. BackupTyped'
  BY DEF BackupTyped
<1>2. SequencesAreFresh'
  BY DEF SequencesAreFresh
<1>3. LatestIsNewest'
  <2>1. wallClock \in Nat /\ wallClock' \in Nat /\ latest[1] \in Nat
    BY BackupAssumption DEF BackupTyped, Record
  <2>2. ~wentBack' => ~wentBack /\ ~(wallClock' < wallClock)
    OBVIOUS
  <2> QED
    BY <2>1, <2>2 DEF LatestIsNewest
<1> QED
  BY <1>1, <1>2, <1>3 DEF Listed

\* The database is closed, or the timer started.
LEMMA SwitchKeeps ==
  ASSUME BackupInv, timer' \in BOOLEAN,
         UNCHANGED <<files, managed, nextSequence, wallClock, latest, wentBack>>
  PROVE  BackupInv'
BY DEF BackupInv, BackupTyped, Listed, SequencesAreFresh, LatestIsNewest

\* The invariant holds of an empty directory and is kept by every step.
THEOREM BackupInductive ==
  /\ BackupInit => BackupInv
  /\ BackupInv /\ [BackupNext]_backupVars => BackupInv'
<1>1. ASSUME BackupInit PROVE BackupInv
  <2> USE <1>1, BackupAssumption DEF BackupInit
  <2>1. BackupTyped
    <3>1. 0 \in 0..MaxClock /\ 0 \in 0..MaxSnapshots /\ timer \in BOOLEAN
      OBVIOUS
    <3>2. latest \in Record
      BY DEF Record
    <3> QED
      BY <3>1, <3>2 DEF BackupTyped
  <2>2. Listed(files, managed) /\ Len(managed) <= RetentionMaxSnapshots
    BY DEF Listed, NoRepeats, ToSet
  <2>3. SequencesAreFresh /\ LatestIsNewest
    BY DEF SequencesAreFresh, LatestIsNewest, Newest
  <2> QED
    BY <2>1, <2>2, <2>3 DEF BackupInv
<1>2. ASSUME BackupInv, BackupNext PROVE BackupInv'
  <2>1. CASE StartReplication \/ StopReplication \/ CloseDatabase
    <3>1. /\ timer' \in BOOLEAN
          /\ UNCHANGED <<files, managed, nextSequence, wallClock, latest, wentBack>>
      BY <1>2, <2>1, BackupAssumption
         DEF StartReplication, StopReplication, CloseDatabase, BackupInv, BackupTyped
    <3> QED
      BY <1>2, <3>1, SwitchKeeps
  <2> QED
    BY <1>2, <2>1, ReplicateKeeps, RestartKeeps, ClockKeeps DEF BackupNext
<1>3. ASSUME BackupInv, UNCHANGED backupVars PROVE BackupInv'
  <2>1. timer' \in BOOLEAN
    BY <1>3 DEF backupVars, BackupInv, BackupTyped
  <2> QED
    BY <1>3, <2>1, SwitchKeeps DEF backupVars
<1> QED
  BY <1>1, <1>2, <1>3

\* The invariant says what is promised.
LEMMA BackupPromises == BackupInv => BackupTypeOK /\ BackupIsRight
BY DEF BackupInv, BackupTyped, Listed, LatestIsNewest, BackupTypeOK, BackupIsRight,
       LatestBackupIsKept

\* For any limit, through failures, restarts and a closed database: the directory
\* holds what is managed, at most the limit, with the last snapshot taken unless
\* the clock was set back; and no sequence is used while a file has it.
THEOREM BackupRight == BackupSpec => [](BackupTypeOK /\ BackupIsRight)
<1>1. BackupSpec => []BackupInv
  BY BackupInductive, PTL DEF BackupSpec
<1> QED
  BY <1>1, BackupPromises, PTL
=============================================================================
