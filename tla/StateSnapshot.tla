---------------------------- MODULE StateSnapshot ----------------------------
(***************************************************************************)
(* How the profiles of a store pass through the persisted snapshot         *)
(* (apps/api/src/core.ts, importStoreSnapshot and exportStoreSnapshot).    *)
(* Every operation imports the snapshot, works on the object of its        *)
(* profile, and exports all profiles again.  The import also gives the     *)
(* default profile a state, and normalizes what it reads.                  *)
(***************************************************************************)
EXTENDS Integers, FiniteSets, FiniteSetsExt

CONSTANTS
  Profile,          \* profile names, naturals: their order is theirs
  DefaultProfile,   \* INTERNAL_PROFILE_ID, one of them
  SnapEvent,        \* what a caller ingests
  SnapAdjustment,   \* adjustments, naturals: their order is their time
  LegacySnapshots,  \* what an older release may have left on disk
  MaxKept           \* MAX_WEIGHT_ADJUSTMENT_LEDGER_EVENTS

\* A candidate is [id, updated, decayed]; NoField is a field that is not there.
NoField == -1
IsProfileState(s) ==
  /\ s = [events |-> s.events, ledger |-> s.ledger, candidates |-> s.candidates,
          fatigue |-> s.fatigue, threshold |-> s.threshold, novelty |-> s.novelty]
  /\ s.ledger \subseteq SnapAdjustment /\ IsFiniteSet(s.ledger)
  /\ s.threshold \in Int
  /\ \A c \in s.candidates : /\ c = [id |-> c.id, updated |-> c.updated, decayed |-> c.decayed]
                            /\ c.updated \in Nat

ASSUME SnapshotAssumption ==
  /\ Profile \subseteq Nat /\ DefaultProfile \in Profile
  /\ SnapAdjustment \subseteq Nat /\ MaxKept \in Nat \ {0}
  /\ \A d \in LegacySnapshots : /\ DOMAIN d \subseteq Profile /\ IsFiniteSet(DOMAIN d)
                               /\ \A p \in DOMAIN d : IsProfileState(d[p])

VARIABLES
  disk,   \* the snapshot: profile -> its state, for the profiles there are
  sent,   \* profile -> what its callers had ingested
  given   \* profile -> what the snapshot held for it at the start

snapshotVars == <<disk, sent, given>>

EmptyState == [events |-> {}, ledger |-> {}, candidates |-> {}, fatigue |-> 0,
               threshold |-> 1, novelty |-> 0]

------------------------------------------------------------------------------
(* normalizeState                                                            *)

\* Faulty: the cursor of a candidate is not restored.
NormalizeCandidateAnew(c) == [c EXCEPT !.decayed = c.updated]
\* A candidate without a decay cursor has decayed up to its last update.
NormalizeCandidate(c) ==
  [c EXCEPT !.decayed = IF @ = NoField THEN c.updated ELSE @]

NormalizeCandidates(cs) == {NormalizeCandidate(c) : c \in cs}

KeepLatest(S, n) == {x \in S : Cardinality({y \in S : y > x}) < n}
NormalizeLedger(ledger) == KeepLatest(ledger, MaxKept)

NormalizeClocks(s) ==
  [s EXCEPT !.novelty = 0,      \* the novelty load is not among the fields read
            !.threshold = Max({@, 1})]

NormalizeState(s) ==
  NormalizeClocks(
    [s EXCEPT !.ledger = NormalizeLedger(@),
              !.candidates = NormalizeCandidates(@)])

------------------------------------------------------------------------------
(* importProfiles: the state of the last profile that is not the default is   *)
(* also the state of a default that is not there, the same object.            *)

Named(snapshot) == DOMAIN snapshot \ {DefaultProfile}
Fallback(snapshot) == IF Named(snapshot) = {} THEN {} ELSE {Max(Named(snapshot))}

\* [of: profile -> its object, obj: object -> state]; an object is named by the
\* profile it was made for.
\* Faulty: every profile that is not there gets the object of the last one.
ImportSharing(snapshot) ==
  [of |-> [p \in IF Named(snapshot) = {} THEN DOMAIN snapshot ELSE Profile |->
             IF p \in DOMAIN snapshot THEN p ELSE CHOOSE q \in Fallback(snapshot) : TRUE],
   obj |-> [p \in DOMAIN snapshot |-> NormalizeState(snapshot[p])]]
ImportStoreSnapshot(snapshot) ==
  LET missing == IF DefaultProfile \in DOMAIN snapshot \/ Named(snapshot) = {}
                 THEN {} ELSE {DefaultProfile}
  IN [of |-> [p \in DOMAIN snapshot \cup missing |->
                IF p \in missing THEN CHOOSE q \in Fallback(snapshot) : TRUE ELSE p],
      obj |-> [p \in DOMAIN snapshot |-> NormalizeState(snapshot[p])]]

\* getProfileState makes the state of a profile that has none.
GetProfileState(m, p) ==
  IF p \in DOMAIN m.of THEN m
  ELSE [of |-> [q \in DOMAIN m.of \cup {p} |-> IF q = p THEN p ELSE m.of[q]],
        obj |-> [q \in DOMAIN m.obj \cup {p} |-> IF q = p THEN EmptyState ELSE m.obj[q]]]

\* Each profile is written out by itself.
ExportStoreSnapshot(m) == [p \in DOMAIN m.of |-> m.obj[m.of[p]]]

\* An operation loads the snapshot, changes the state of its profile, and stores all.
StateOf(p) == LET m == GetProfileState(ImportStoreSnapshot(disk), p) IN m.obj[m.of[p]]
Operated(p, state) ==
  LET m == GetProfileState(ImportStoreSnapshot(disk), p)
  IN ExportStoreSnapshot([m EXCEPT !.obj[m.of[p]] = state])

------------------------------------------------------------------------------
SnapshotInit ==
  /\ disk \in LegacySnapshots \cup {<<>>}
  /\ given = [p \in Profile |-> IF p \in DOMAIN disk THEN disk[p].events ELSE {}]
  /\ sent = [p \in Profile |-> {}]

IngestInto(p, e) ==
  /\ disk' = Operated(p, [StateOf(p) EXCEPT !.events = @ \cup {e}])
  /\ sent' = [sent EXCEPT ![p] = @ \cup {e}]
  /\ UNCHANGED given

AdjustIn(p, a) ==
  /\ disk' = Operated(p, [StateOf(p) EXCEPT !.ledger = KeepLatest(@ \cup {a}, MaxKept)])
  /\ UNCHANGED <<sent, given>>

NoteNovelty(p) ==
  /\ disk' = Operated(p, [StateOf(p) EXCEPT !.novelty = 1, !.fatigue = 1])
  /\ UNCHANGED <<sent, given>>

SnapshotNext ==
  \E p \in Profile :
    \/ \E e \in SnapEvent : IngestInto(p, e)
    \/ \E a \in SnapAdjustment : AdjustIn(p, a)
    \/ NoteNovelty(p)

SnapshotSpec == SnapshotInit /\ [][SnapshotNext]_snapshotVars

------------------------------------------------------------------------------
SnapshotTypeOK ==
  /\ DOMAIN disk \subseteq Profile
  /\ \A p \in DOMAIN disk : disk[p].ledger \subseteq SnapAdjustment

\* What was ingested, or was there before, is in the snapshot of its profile.
NothingIngestedIsLost ==
  \A p \in Profile : sent[p] \cup given[p] # {} =>
    p \in DOMAIN disk /\ sent[p] \cup given[p] \subseteq disk[p].events

\* What one named profile holds reaches no other named profile; only the default
\* profile may share with one.
OnlyTheDefaultShares ==
  \A p \in DOMAIN disk :
    LET own == sent[p] \cup given[p]
        default == sent[DefaultProfile] \cup given[DefaultProfile]
    IN p # DefaultProfile => disk[p].events \subseteq own \cup default

\* What was imported and stored is imported as the same state again, the novelty
\* load apart, and the default profile keeps the state it once got.
StoredStateIsStable ==
  LET again == ExportStoreSnapshot(ImportStoreSnapshot(disk)) IN
  /\ ExportStoreSnapshot(ImportStoreSnapshot(again)) = again
  /\ \A p \in DOMAIN disk :
       {[id |-> c.id, decayed |-> c.decayed] : c \in again[p].candidates} =
       {[id |-> c.id, decayed |-> IF c.decayed = NoField THEN c.updated ELSE c.decayed] :
          c \in disk[p].candidates}
  /\ \A p \in DOMAIN disk : again[p].fatigue = disk[p].fatigue

SnapshotsAreRight == NothingIngestedIsLost /\ OnlyTheDefaultShares /\ StoredStateIsStable

\* A profile holds only what its own callers ingested: the pair of store and profile
\* is the memory boundary (docs/runbooks/runtime-operation-persistence-map.md), which
\* importProfiles crosses for a default profile that is not in the snapshot.
ProfilesAreIsolated ==
  \A p \in DOMAIN disk : disk[p].events \subseteq sent[p] \cup given[p]
==============================================================================
