---------------------------- MODULE MemoryWeights ----------------------------
(***************************************************************************)
(* How much a memory counts (apps/api/src/core.ts): confidence is adjusted *)
(* by addweight, utility is moved by the outcomes of tasks, and outcomes   *)
(* are attributed to rules.  Each runner is one step on the state w of a   *)
(* scope.  Requests are constants; any may be sent again at any time.      *)
(***************************************************************************)
EXTENDS Integers, FiniteSets, FiniteSetsExt

CONSTANTS
  WCand, WRule,     \* candidates and rules, both there from the start
  WRuleOf,          \* WCand -> its rule, or NoWRule; no two share one
  NoWRule,
  Adjustments,      \* addweight requests: [id, cand, delta, at, body]
  Outcomes,         \* outcome requests: [id, failed, rules, at, status, traced]
  RankingRequests,  \* attribution_ranking_policy requests: [mode, failClosed, at]
  Regressed,        \* rules whose candidate has a safety regression or a
                    \* failed evaluation among its replay evaluations
  MaxScore,         \* scores are 0 .. MaxScore, for 0 .. 1
  MinSupport,
  MaxLedger,        \* MAX_WEIGHT_ADJUSTMENT_LEDGER_EVENTS
  MaxTrail,         \* MAX_POLICY_AUDIT_EVENTS
  MaxApplied,       \* bound on how often an adjustment is applied
  AuditName(_)      \* the audit event id: hashed from all an event holds

ASSUME WeightsAssumption ==
  /\ WRuleOf \in [WCand -> WRule \cup {NoWRule}] /\ NoWRule \notin WRule
  /\ \A c, d \in WCand : WRuleOf[c] = WRuleOf[d] /\ WRuleOf[c] # NoWRule => c = d
  /\ MaxScore \in Nat /\ MinSupport \in Nat /\ MaxLedger \in Nat /\ MaxTrail \in Nat
  /\ \A r \in Adjustments : r.cand \in WCand /\ r.delta \in Int /\ r.at \in Nat /\ r.id \in Nat
  /\ \A r \in Outcomes : r.rules \subseteq WRule /\ r.failed \in BOOLEAN /\ r.at \in Nat
                          /\ r.status \in {"settled", "provisional"}
  /\ \A r \in RankingRequests : r.at \in Nat

VARIABLES
  w,         \* [cands, rules, outcomes, ledger, audit, ranking]
  applied,   \* adjustment id -> how often it changed a confidence
  forgotten  \* adjustments that left both the ledger and the audit trail

weightVars == <<w, applied, forgotten>>

AdjustmentIds == {r.id : r \in Adjustments}
Fresh == [confidence |-> MaxScore \div 2, utility |-> MaxScore \div 2, signal |-> 0]

WeightsInit ==
  /\ w = [cands |-> [c \in WCand |-> Fresh], rules |-> [r \in WRule |-> Fresh],
          outcomes |-> {}, ledger |-> {}, audit |-> {},
          ranking |-> [enabled |-> FALSE, failClosed |-> TRUE, at |-> 0]]
  /\ applied = [a \in AdjustmentIds |-> 0]
  /\ forgotten = {}

------------------------------------------------------------------------------
Clamp01(x) == Max({0, Min({x, MaxScore})})

\* sortByTimestampAndId, then the last n.
Sooner(x, y) == x.at < y.at \/ (x.at = y.at /\ x.id < y.id)
LastOf(S, n) == {x \in S : Cardinality({y \in S : Sooner(x, y)}) < n}

AuditedSooner(x, y) == x.at < y.at \/ (x.at = y.at /\ AuditName(x) < AuditName(y))
LastEvents(S, n) == {x \in S : Cardinality({y \in S : AuditedSooner(x, y)}) < n}
AppendPolicyAuditTrail(s, event) ==
  [s EXCEPT !.audit = LastEvents(@ \cup {event}, MaxTrail)]

------------------------------------------------------------------------------
(* addweight                                                                *)

IdempotencyDigest(r) == <<r.cand, r.delta, r.at, r.body>>
FindWeightAdjustmentLedgerEntry(s, id) == {e \in s.ledger : e.id = id}
FindExistingAddWeightAuditEvent(s, id) ==
  {e \in s.audit : e.operation = "addweight" /\ e.id = id}

AdjustmentEvent(r) == [operation |-> "addweight", id |-> r.id,
                       digest |-> IdempotencyDigest(r), at |-> r.at]
LedgerEntry(r) == [id |-> r.id, digest |-> IdempotencyDigest(r), at |-> r.at]
UpsertWeightAdjustmentLedgerEntry(s, r) ==
  [s EXCEPT !.ledger =
     IF FindWeightAdjustmentLedgerEntry(s, r.id) # {} THEN LastOf(@, MaxLedger)
     ELSE LastOf(@ \cup {LedgerEntry(r)}, MaxLedger)]

Collides(found, r) == \E e \in found : e.digest # IdempotencyDigest(r)

\* The confidence of the candidate, and of the rule it stands for.
WithConfidence(s, c, x) ==
  [s EXCEPT !.cands[c].confidence = x,
            !.rules = [r \in WRule |-> IF r = WRuleOf[c]
                                       THEN [@[r] EXCEPT !.confidence = x] ELSE @[r]]]

\* Faulty: what the ledger has forgotten is applied again.
RunAddWeightByLedger(s, r) ==
  LET x == Clamp01(s.cands[r.cand].confidence + r.delta) IN
  IF FindWeightAdjustmentLedgerEntry(s, r.id) # {} THEN s
  ELSE UpsertWeightAdjustmentLedgerEntry(
         AppendPolicyAuditTrail(WithConfidence(s, r.cand, x), AdjustmentEvent(r)), r)

\* The ledger, then the audit trail, know an adjustment: both are bounded.
RunAddWeight(s, r) ==
  LET inLedger == FindWeightAdjustmentLedgerEntry(s, r.id)
      inTrail == FindExistingAddWeightAuditEvent(s, r.id)
      x == Clamp01(s.cands[r.cand].confidence + r.delta)
  IN CASE inLedger # {} -> s     \* a noop, or refused if it collides
       [] inLedger = {} /\ inTrail # {} ->
            IF Collides(inTrail, r) THEN s ELSE UpsertWeightAdjustmentLedgerEntry(s, r)
       [] OTHER ->
            UpsertWeightAdjustmentLedgerEntry(
              AppendPolicyAuditTrail(WithConfidence(s, r.cand, x), AdjustmentEvent(r)), r)

AddWeightApplies(s, r) ==
  FindWeightAdjustmentLedgerEntry(s, r.id) = {}
  /\ FindExistingAddWeightAuditEvent(s, r.id) = {}

------------------------------------------------------------------------------
(* outcome                                                                  *)

\* Faulty: only the candidates of the rules get the signal.
ApplySignalToCandidates(s, ruleIds, id, delta) ==
  LET moved(e) == IF e.signal = id THEN e
                  ELSE [e EXCEPT !.utility = Clamp01(@ + delta), !.signal = id]
  IN [s EXCEPT !.cands = [c \in WCand |->
                 IF WRuleOf[c] \in ruleIds THEN moved(@[c]) ELSE @[c]]]

\* applyUtilitySignalToCandidatesAndRules: not twice in a row.
ApplyUtilitySignal(s, ruleIds, id, delta) ==
  LET moved(e) == IF e.signal = id THEN e
                  ELSE [e EXCEPT !.utility = Clamp01(@ + delta), !.signal = id]
  IN [s EXCEPT
       !.cands = [c \in WCand |-> IF WRuleOf[c] \in ruleIds THEN moved(@[c]) ELSE @[c]],
       !.rules = [r \in WRule |-> IF r \in ruleIds THEN moved(@[r]) ELSE @[r]]]

StoredOutcome(s, id) == {o \in s.outcomes : o.id = id}

OutcomeEvent(r) == [operation |-> "outcome", id |-> r.id, digest |-> r, at |-> r.at]
RunOutcome(s, r) ==
  IF r \in s.outcomes THEN s
  ELSE AppendPolicyAuditTrail(
         ApplyUtilitySignal(
           [s EXCEPT !.outcomes = (@ \ StoredOutcome(s, r.id)) \cup {r}],
           r.rules, r.id, IF r.failed THEN -1 ELSE 1),
         OutcomeEvent(r))

------------------------------------------------------------------------------
(* attribution_ranking_policy                                               *)

RankingSet(r) == [enabled |-> r.mode = "enable", failClosed |-> r.failClosed, at |-> r.at]
RankingEvent(r, next) == [operation |-> "ranking", id |-> IF next.enabled THEN 21 ELSE 20,
                          digest |-> <<r, next>>, at |-> r.at]
RunAttributionRankingPolicy(s, r) ==
  LET next == IF r.mode = "check" THEN s.ranking ELSE RankingSet(r)
  IN AppendPolicyAuditTrail([s EXCEPT !.ranking = next], RankingEvent(r, next))

\* What may be audited: no two events of one time have a name.
Rankings == {[enabled |-> FALSE, failClosed |-> TRUE, at |-> 0]} \cup
            {RankingSet(r) : r \in {q \in RankingRequests : q.mode # "check"}}
WeightEvents == {AdjustmentEvent(r) : r \in Adjustments} \cup {OutcomeEvent(r) : r \in Outcomes}
                \cup {RankingEvent(r, next) : r \in RankingRequests, next \in Rankings}
ASSUME AuditNameAssumption ==
  /\ \A x \in WeightEvents : AuditName(x) \in Int
  /\ \A x, y \in WeightEvents : AuditName(x) = AuditName(y) /\ x.at = y.at => x = y

------------------------------------------------------------------------------
(* buildShadowAttributionEntry                                              *)

Naming(s, r) == {o \in s.outcomes : r \in o.rules}
Relevant(s, r) == {o \in Naming(s, r) : o.traced}
Settled(s, r) == {o \in Relevant(s, r) : o.status # "provisional"}

\* Faulty: provisional outcomes are taken for settled.
CountsOfAll(s, r) ==
  [support |-> Cardinality(Relevant(s, r)),
   pending |-> Cardinality(Relevant(s, r) \ Settled(s, r)),
   harmful |-> Cardinality({o \in Relevant(s, r) : o.failed})]
AttributionCounts(s, r) ==
  [support |-> Cardinality(Settled(s, r)),
   pending |-> Cardinality(Relevant(s, r) \ Settled(s, r)),
   harmful |-> Cardinality({o \in Settled(s, r) : o.failed})]

\* Effect is helpful minus harmful, over support. The confidence is 0.6 or more:
\* (support + |effect|) / (2 * support), halved if there are both, and lowered by
\* the share of pending outcomes, but not below its half.
RankingNudge(s, r) ==
  LET n == AttributionCounts(s, r)
      helpful == n.support - n.harmful
      effect == helpful - n.harmful
      size == IF effect < 0 THEN -effect ELSE effect
      mixed == helpful > 0 /\ n.harmful > 0
      whole == Max({n.support + n.pending, 1})
      kept == Max({2 * n.support, whole})          \* over 2 * whole
      confident == 10 * (n.support + size) * kept * (IF mixed THEN 1 ELSE 2)
                     >= 6 * (2 * Max({n.support, 1})) * (2 * whole) * 2
      supported == n.support >= MinSupport
      eligible == /\ supported /\ r \notin Regressed /\ confident
                  /\ 100 * size >= 34 * n.support
      direction == CASE ~supported -> "neutral"
                     [] supported /\ 100 * effect >= 34 * n.support -> "helpful"
                     [] supported /\ 100 * effect <= -34 * n.support -> "harmful"
                     [] OTHER -> "neutral"
  IN CASE r \in Regressed -> "suppress"
       [] r \notin Regressed /\ (~eligible \/ direction = "neutral") -> "none"
       [] OTHER -> IF direction = "helpful" THEN "boost" ELSE "suppress"

\* shadow_attribution and attribution_report list every rule of the scope.
RunShadowAttribution(s) == [r \in WRule |-> RankingNudge(s, r)]

------------------------------------------------------------------------------
Remembered(s) == {e.id : e \in s.ledger} \cup
                 {e.id : e \in {x \in s.audit : x.operation = "addweight"}}

Moved(s) ==
  /\ w' = s
  /\ forgotten' = forgotten \cup
       {a \in AdjustmentIds : applied'[a] > 0 /\ a \notin Remembered(s)}

AddWeight(r) ==
  /\ applied' = IF RunAddWeight(w, r).cands = w.cands /\ ~AddWeightApplies(w, r)
                THEN applied ELSE [applied EXCEPT ![r.id] = @ + 1]
  /\ applied'[r.id] <= MaxApplied
  /\ Moved(RunAddWeight(w, r))
RecordOutcome(r) == UNCHANGED applied /\ Moved(RunOutcome(w, r))
SetRankingPolicy(r) == UNCHANGED applied /\ Moved(RunAttributionRankingPolicy(w, r))

WeightsNext ==
  \/ \E r \in Adjustments : AddWeight(r)
  \/ \E r \in Outcomes : RecordOutcome(r)
  \/ \E r \in RankingRequests : SetRankingPolicy(r)

WeightsSpec == WeightsInit /\ [][WeightsNext]_weightVars

------------------------------------------------------------------------------
WeightsTypeOK ==
  /\ \A c \in WCand : {w.cands[c].confidence, w.cands[c].utility} \subseteq 0..MaxScore
  /\ \A r \in WRule : {w.rules[r].confidence, w.rules[r].utility} \subseteq 0..MaxScore
  /\ Cardinality(w.ledger) <= MaxLedger /\ Cardinality(w.audit) <= MaxTrail

\* A weight adjustment that is sent again counts once, and another one under its
\* id never, as long as either of the bounded lists remembers it.
AdjustedOnceWhileRemembered ==
  \A a \in AdjustmentIds \ forgotten : applied[a] <= 1

\* Sending a stored outcome again changes nothing, and sending a remembered
\* adjustment again moves no confidence.
RepeatsMoveNothing ==
  /\ \A o \in w.outcomes : RunOutcome(w, o) = w
  /\ \A r \in {x \in Adjustments : x.id \in Remembered(w)} :
       /\ RunAddWeight(w, r).cands = w.cands
       /\ RunAddWeight(w, r).rules = w.rules

\* A rule counts as much as the candidate it was promoted from.
RulesFollowCandidates ==
  \A c \in WCand : WRuleOf[c] # NoWRule => w.rules[WRuleOf[c]] = w.cands[c]

\* A rule is ranked up only on settled and traced outcomes, at least MinSupport
\* and none of them a failure, and down only on such failures or a regression;
\* outcomes that disagree move nothing.
NudgesAreEarned ==
  \A r \in WRule :
    LET settled == {o \in w.outcomes : r \in o.rules /\ o.traced /\ o.status = "settled"}
        failures == {o \in settled : o.failed}
        nudge == RunShadowAttribution(w)[r]
    IN /\ nudge = "boost" => /\ r \notin Regressed /\ failures = {}
                             /\ Cardinality(settled) >= MinSupport
       /\ nudge = "suppress" => r \in Regressed \/ (failures = settled
                                  /\ Cardinality(settled) >= MinSupport)

WeightsAreRight ==
  /\ AdjustedOnceWhileRemembered /\ RepeatsMoveNothing
  /\ RulesFollowCandidates /\ NudgesAreEarned
==============================================================================
