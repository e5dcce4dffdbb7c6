---------------------------- MODULE ScopeRecords ----------------------------
(***************************************************************************)
(* What the engine keeps about a learner in one scope (core.ts): the       *)
(* profile, identity edges, misconceptions, curriculum plan, policy        *)
(* decisions, pain and failure signals, and recommendations made of them.  *)
(* Each update is merged with the record of its id.                        *)
(***************************************************************************)
EXTENDS Integers, Sequences, FiniteSets, FiniteSetsExt, SequencesExt

CONSTANTS
  Attribute, Overwritten,  \* profile attributes; status and profileConfidence
  ProfileUpdates,  \* [provided, value, at, evidence]
  EdgeUpdates,     \* [id, from, to, evidence]
  SignalUpdates,   \* [via, id, key, signal, suppress, severe, evidence]
  PlanUpdates,     \* [id, status, rank, evidence, links, at]
  DecisionUpdates, \* [id, outcome, reasons, plugin]
  Recommends,      \* [at, limit, blocked]
  MaxItemsKept,    \* MAX_LIST_ITEMS
  MaxTold          \* bound on the operations of a behaviour

RecordRequests == <<ProfileUpdates, EdgeUpdates, SignalUpdates, PlanUpdates,
                    DecisionUpdates, Recommends>>
ASSUME ScopeRecordsAssumption ==
  /\ \A i, j \in DOMAIN RecordRequests :
       i # j => RecordRequests[i] \cap RecordRequests[j] = {}
  /\ Overwritten \subseteq Attribute
  /\ \A r \in ProfileUpdates : /\ r.provided \subseteq Attribute /\ r.at \in Int
                                /\ r.value \in [Attribute -> Int]
  /\ \A r \in SignalUpdates : /\ r.signal \in {"harmful", "correction", "helpful"}
                               /\ r.suppress \in BOOLEAN /\ r.severe \in BOOLEAN
  /\ \A r \in DecisionUpdates :
       /\ r = [id |-> r.id, outcome |-> r.outcome, reasons |-> r.reasons, plugin |-> r.plugin]
       /\ r.outcome \in {"allow", "review", "deny"} /\ r.plugin \in {"pass", "deny", "broken"}
       /\ r.outcome = "deny" => r.reasons # {}
  /\ MaxItemsKept \in Nat \ {0} /\ MaxTold \in Nat

VARIABLES
  rec,        \* the scope's records
  notes,      \* chronology and conflict notes: [id, n], held in memory only
  recFiled,   \* whether there is a state file
  told        \* the updates that were answered without an error, in order

recordVars == <<rec, notes, recFiled, told>>

NoRecords == [profile |-> <<>>, edges |-> <<>>, beliefs |-> <<>>, signals |-> {},
              plans |-> <<>>, decisions |-> <<>>, snapshots |-> {}, audit |-> {}]
RecordsInit == rec = NoRecords /\ notes = {} /\ recFiled \in BOOLEAN /\ told = <<>>

Put(f, id, v) == [x \in DOMAIN f \cup {id} |-> IF x = id THEN v ELSE f[x]]
At(f, id, default) == IF id \in DOMAIN f THEN f[id] ELSE default

------------------------------------------------------------------------------
(* learner_profile_update: an attribute that is provided is the newer of the  *)
(* two, and its lineage keeps both.  What is not provided stays, but status   *)
(* and confidence take the request's default.                                 *)

NotOlder(x, y) == x.at > y.at \/ (x.at = y.at /\ x.value >= y.value)

\* Faulty: what arrives last wins.
LatestArrived(new, old) == new
NewerOf(new, old) == IF NotOlder(new, old) THEN new ELSE old

SeedProfile(r) == [version |-> 0, at |-> r.at, evidence |-> {},
                   value |-> [a \in Attribute |-> 0],
                   truth |-> [a \in Attribute |-> [at |-> r.at, value |-> 0]],
                   lineage |-> [a \in Attribute |-> {}]]

MergeLearnerProfile(p, r, created) ==
  LET old(a) == [at |-> p.truth[a].at, value |-> p.value[a]]
      new(a) == [at |-> r.at, value |-> r.value[a]]
      winner(a) == CASE created -> new(a)
                     [] ~created /\ a \in r.provided -> NewerOf(new(a), old(a))
                     [] OTHER -> old(a)
      revisions(a) == {<<old(a), p.evidence>>} \cup
        IF created \/ a \in r.provided THEN {<<new(a), r.evidence>>} ELSE {}
  IN [version |-> p.version, at |-> r.at, evidence |-> p.evidence \cup r.evidence,
      value |-> [a \in Attribute |->
        IF ~created /\ a \notin r.provided /\ a \in Overwritten THEN r.value[a]
        ELSE winner(a).value],
      truth |-> [a \in Attribute |-> winner(a)],
      lineage |-> [a \in Attribute |-> p.lineage[a] \cup revisions(a)]]

LearnerProfileUpdate(s, r) ==
  LET old == IF s.profile = <<>> THEN SeedProfile(r) ELSE s.profile[1]
      next == MergeLearnerProfile(old, r, s.profile = <<>>)
  IN [s EXCEPT !.profile =
        <<IF next = old THEN old ELSE [next EXCEPT !.version = @ + 1]>>]

------------------------------------------------------------------------------
\* identity_graph_update: the edge is what the last update says it is, with the
\* evidence of all of them.
IdentityGraphUpdate(s, r) ==
  LET old == At(s.edges, r.id, [evidence |-> {}])
  IN [s EXCEPT !.edges = Put(@, r.id, [from |-> r.from, to |-> r.to,
                                       evidence |-> old.evidence \cup r.evidence])]

------------------------------------------------------------------------------
(* misconception_update, pain_signal_ingest and failure_signal_ingest: a      *)
(* signal id is counted once, the confidence falls faster the more harmful    *)
(* signals there are.  Confidence is in hundredths.                           *)

MisconceptionDecayStage(n) == Cardinality({limit \in {1, 2, 3, 5} : n >= limit})
DecayByStage == <<18, 24, 32, 42>>
ConfidenceShift(r, harmful) ==
  IF r.signal # "harmful" THEN 11
  ELSE -(DecayByStage[MisconceptionDecayStage(harmful)] + IF r.severe THEN 8 ELSE 0)

AntiPatterns(harmful) == {t \in {2, 3, 5} : harmful >= t}

Percent(x) == Max({0, Min({100, x})})
NewBelief(r) ==
  [harmful |-> IF r.signal = "harmful" THEN 1 ELSE 0,
   corrected |-> IF r.signal = "correction" THEN 1 ELSE 0,
   status |-> IF r.suppress THEN "suppressed" ELSE "active",
   confidence |-> IF r.signal = "harmful" THEN 35 ELSE 65,
   signals |-> {r.id}, evidence |-> r.evidence, patterns |-> {}]

\* A signal that is new to the record.
CountSignal(b, r) ==
  LET harmful == b.harmful + IF r.signal = "harmful" THEN 1 ELSE 0
      corrected == b.corrected + IF r.signal = "correction" THEN 1 ELSE 0
      shifted == Percent(b.confidence + ConfidenceShift(r, harmful))
  IN [harmful |-> harmful, corrected |-> corrected,
      status |-> IF r.suppress \/ b.status = "suppressed" THEN "suppressed"
                 ELSE IF corrected >= harmful /\ harmful > 0 THEN "resolved"
                 ELSE "active",
      confidence |-> IF r.signal = "harmful" THEN Max({5, shifted}) ELSE shifted,
      signals |-> b.signals \cup {r.id}, evidence |-> b.evidence \cup r.evidence,
      patterns |-> AntiPatterns(harmful)]
\* Faulty: a redelivered signal is counted again.
CountAnyway(b, r) == CountSignal(b, r)
MergeMisconception(b, r) == IF r.id \in b.signals THEN b ELSE CountSignal(b, r)

NextBelief(s, r) ==
  IF r.key \in DOMAIN s.beliefs THEN MergeMisconception(s.beliefs[r.key], r)
  ELSE NewBelief(r)

\* buildMisconceptionAntiPatterns throws when the lists of the record are full.
BeliefOverflows(b) ==
  b.harmful > 0 /\ (Cardinality(b.signals) > MaxItemsKept
                    \/ Cardinality(b.evidence) > MaxItemsKept)

\* upsertDeterministicRecord: the record of that id is replaced.
UpsertSignal(s, r) ==
  IF r.via = "update" THEN s
  ELSE [s EXCEPT !.signals = {x \in @ : <<x.via, x.id>> # <<r.via, r.id>>} \cup {r}]

AuditedSignal(s, old, r) ==
  IF r.via = "update" THEN s
  ELSE [s EXCEPT !.audit = @ \cup
          {<<r.via, r.id, IF old = s THEN "noop" ELSE "recorded">>}]

MisconceptionSignal(s, r) ==
  LET counted == [UpsertSignal(s, r) EXCEPT !.beliefs = Put(@, r.key, NextBelief(s, r))]
  IN AuditedSignal(counted, s, r)

------------------------------------------------------------------------------
\* curriculum_plan_update: a blocked item stays blocked, the best rank is kept.
MergePlanItem(old, r) ==
  [status |-> IF old.status = "blocked" THEN "blocked" ELSE r.status,
   rank |-> Min({old.rank, r.rank}), evidence |-> old.evidence \cup r.evidence,
   links |-> old.links \cup r.links, at |-> r.at]
CurriculumPlanUpdate(s, r) ==
  LET new == [status |-> r.status, rank |-> r.rank, evidence |-> r.evidence,
              links |-> r.links, at |-> r.at]
  IN [s EXCEPT !.plans = Put(@, r.id,
        IF r.id \in DOMAIN @ THEN MergePlanItem(@[r.id], r) ELSE new)]

------------------------------------------------------------------------------
(* policy_decision_update: the plugin may only make it stricter, and fails    *)
(* closed; the strictest outcome so far stays, with all reasons.              *)

Severity == [allow |-> 1, review |-> 2, deny |-> 3]
PluginDecided(r) ==
  CASE r.plugin = "pass" -> r
    [] r.plugin = "deny" -> [r EXCEPT !.outcome = "deny", !.reasons = @ \cup {"plugin"}]
    [] r.plugin = "broken" ->
         [r EXCEPT !.outcome = "deny", !.reasons = @ \cup {"fail_closed"}]

\* Faulty: the last outcome stays.
LastOutcome(old, new) == new
StrictestOutcome(old, new) == IF Severity[old] >= Severity[new] THEN old ELSE new

PolicyDecisionUpdate(s, r) ==
  LET new == PluginDecided(r)
      old == At(s.decisions, r.id, [outcome |-> new.outcome, reasons |-> {}])
      next == [outcome |-> StrictestOutcome(old.outcome, new.outcome),
               reasons |-> old.reasons \cup new.reasons]
  IN [s EXCEPT !.decisions = Put(@, r.id, next),
               !.audit = @ \cup {<<"decision", r.id, next.outcome>>}]

------------------------------------------------------------------------------
(* curriculum_recommendation: plan items with evidence, by a score in which a  *)
(* misconception counts unless it was suppressed.                              *)

CanRecommend(s, r) ==
  {i \in DOMAIN s.plans : s.plans[i].evidence # {} /\ s.plans[i].status # "completed"
                          /\ (r.blocked \/ s.plans[i].status # "blocked")}

LinkedBeliefs(s, i) ==
  {k \in s.plans[i].links \cap DOMAIN s.beliefs : s.beliefs[k].status # "suppressed"}
Gap(b) == ((IF b.status = "resolved" THEN 45 ELSE 100) * (35 + b.confidence)
           * (100 + 12 * Min({b.harmful, 5}))) \div 10000
MasteryGap(s, i) ==
  LET linked == LinkedBeliefs(s, i)
  IN IF linked = {} THEN 40
     ELSE Percent(MapThenSumSet(LAMBDA k : Gap(s.beliefs[k]), linked)
                  \div Cardinality(linked))
RecommendationScore(s, i) ==
  45 * MasteryGap(s, i) + 5 * Min({Cardinality(s.plans[i].evidence), 10})
  - 10 * s.plans[i].rank - IF s.plans[i].status = "blocked" THEN 4000 ELSE 0

Recommended(s, r) ==
  LET can == CanRecommend(s, r)
      before(i, j) == RecommendationScore(s, i) > RecommendationScore(s, j)
        \/ (RecommendationScore(s, i) = RecommendationScore(s, j) /\ i < j)
  IN {i \in can : Cardinality({j \in can : before(j, i)}) < r.limit}

\* normalizeEvidencePointers throws on an item with too many pointers.
PointersOverflow(s, r) ==
  \E i \in CanRecommend(s, r) :
    Cardinality(s.plans[i].evidence) + Cardinality(s.plans[i].links) > MaxItemsKept

CurriculumRecommendation(s, r) ==
  [s EXCEPT !.snapshots = @ \cup {<<r, Recommended(s, r)>>},
            !.audit = @ \cup {<<"recommend", r.at,
                                IF Recommended(s, r) # {} THEN "allow" ELSE "review">>}]

------------------------------------------------------------------------------
\* The notes of the operations before are in memory only: an import has none.
NotesLeft == IF recFiled THEN {} ELSE notes
Noted(kind, id, old, new) ==
  IF id \in DOMAIN old /\ new[id] # old[id]
  THEN {<<kind, id, Cardinality({n \in NotesLeft : n[2] = id}) + 1>>} ELSE {}

Answer(r, s, new) ==
  /\ rec' = s /\ told' = Append(told, r)
  /\ notes' = NotesLeft \cup new
  /\ UNCHANGED recFiled

UpdateProfile(r) == Answer(r, LearnerProfileUpdate(rec, r), {})

UpdateEdge(r) == r.from # r.to /\ Answer(r, IdentityGraphUpdate(rec, r), {})

Signal(r) ==
  LET s == MisconceptionSignal(rec, r) IN
  /\ ~BeliefOverflows(s.beliefs[r.key])
  /\ Answer(r, s, Noted("belief", r.key, rec.beliefs, s.beliefs))

\* Faulty: the record of a signal that was refused reaches the file.
KeepRefused(r) == UpsertSignal(rec, r)
\* The record of a pain or failure signal is stored before the misconception
\* throws; with a state file nothing of the operation is persisted.
LeftByRefused(r) == IF recFiled THEN rec ELSE UpsertSignal(rec, r)
SignalRefused(r) ==
  /\ BeliefOverflows(NextBelief(rec, r))
  /\ rec' = LeftByRefused(r)
  /\ notes' = NotesLeft /\ UNCHANGED <<recFiled, told>>

UpdatePlan(r) ==
  LET s == CurriculumPlanUpdate(rec, r)
  IN Answer(r, s, Noted("plan", r.id, rec.plans, s.plans))

UpdateDecision(r) == Answer(r, PolicyDecisionUpdate(rec, r), {})

Recommend(r) == ~PointersOverflow(rec, r) /\ Answer(r, CurriculumRecommendation(rec, r), {})

RecordsNext ==
  /\ Len(told) < MaxTold
  /\ \/ \E r \in ProfileUpdates : UpdateProfile(r)
     \/ \E r \in EdgeUpdates : UpdateEdge(r)
     \/ \E r \in SignalUpdates : Signal(r) \/ SignalRefused(r)
     \/ \E r \in PlanUpdates : UpdatePlan(r)
     \/ \E r \in DecisionUpdates : UpdateDecision(r)
     \/ \E r \in Recommends : Recommend(r)

RecordsSpec == RecordsInit /\ [][RecordsNext]_recordVars

------------------------------------------------------------------------------
RecordsTypeOK ==
  /\ DOMAIN rec = DOMAIN NoRecords /\ recFiled \in BOOLEAN
  /\ Len(told) <= MaxTold
  /\ \A k \in DOMAIN rec.beliefs : rec.beliefs[k].confidence \in 0..100

ToldOf(requests) == {i \in DOMAIN told : told[i] \in requests}
WasTold(requests) == {told[i] : i \in ToldOf(requests)}

\* However updates of a profile are ordered on their way, an attribute has the
\* newest value among those that provided it and the one it was created with.
ProfileNewestWins ==
  LET sent == ToldOf(ProfileUpdates)
      given(a) == {i \in sent : a \in told[i].provided \/ \A j \in sent : i <= j}
      entry(i, a) == [at |-> told[i].at, value |-> told[i].value[a]]
  IN sent # {} => \A a \in Attribute \ Overwritten :
       \E i \in given(a) : /\ rec.profile[1].value[a] = told[i].value[a]
                           /\ \A j \in given(a) : NotOlder(entry(i, a), entry(j, a))

\* Each signal is counted once, however often and by whichever operation it came;
\* the state of a misconception does not depend on the order of its signals.
FirstSignals(k) ==
  LET sent == {i \in ToldOf(SignalUpdates) : told[i].key = k}
  IN {told[i] : i \in {n \in sent : \A j \in sent : told[j].id = told[n].id => n <= j}}
SignalsCountOnce ==
  \A k \in DOMAIN rec.beliefs :
    LET b == rec.beliefs[k]
        first == FirstSignals(k)
    IN /\ b.harmful = Cardinality({r \in first : r.signal = "harmful"})
       /\ b.corrected = Cardinality({r \in first : r.signal = "correction"})
       /\ b.evidence = UNION {r.evidence : r \in first}
       /\ b.status = "suppressed" <=> \E r \in first : r.suppress
       /\ b.status = "resolved" => b.corrected >= b.harmful /\ b.harmful > 0

\* With a state file a recorded pain or failure signal has been counted: one
\* whose misconception could not take it left nothing.
RecordedSignalsAreCounted ==
  recFiled => \A x \in rec.signals :
    x.key \in DOMAIN rec.beliefs /\ x.id \in rec.beliefs[x.key].signals

\* An item that was blocked once is never recommended unless asked for, and a
\* decision is as strict as the strictest answer it ever got, with a reason for
\* a denial.
StrictnessStays ==
  /\ \A i \in DOMAIN rec.plans :
       (\E r \in WasTold(PlanUpdates) : r.id = i /\ r.status = "blocked")
         => rec.plans[i].status = "blocked"
  /\ \A d \in DOMAIN rec.decisions :
       LET sent == {PluginDecided(r) : r \in {x \in WasTold(DecisionUpdates) : x.id = d}}
       IN /\ Severity[rec.decisions[d].outcome] = Max({Severity[r.outcome] : r \in sent})
          /\ rec.decisions[d].outcome = "deny" => rec.decisions[d].reasons # {}

\* Without a state file every signal of a misconception but the one that created
\* it has its note (appendMisconceptionChronologyNote).  With a state file this is
\* false, and so is the like of plan items: see ChronologyIsKept.
ChangesAreNoted ==
  ~recFiled => \A k \in DOMAIN rec.beliefs :
    Cardinality({n \in notes : n[1] = "belief" /\ n[2] = k})
      = Cardinality(rec.beliefs[k].signals) - 1

RecordsAreRight ==
  /\ ProfileNewestWins /\ SignalsCountOnce /\ RecordedSignalsAreCounted
  /\ StrictnessStays /\ ChangesAreNoted

\* curriculum_recommendation shows the notes of the items it recommends: a plan
\* item that got a better rank than it was created with has a note of it, after
\* whatever operations followed (appendCurriculumConflictNote).
ChronologyIsKept ==
  \A i, j \in ToldOf(PlanUpdates) :
    /\ i < j /\ told[j].id = told[i].id /\ told[j].rank < told[i].rank
    /\ \A k \in ToldOf(PlanUpdates) : told[k].id = told[i].id => i <= k
    => \E n \in notes : n[1] = "plan" /\ n[2] = told[i].id
=============================================================================
