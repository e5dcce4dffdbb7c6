------------------------------- MODULE MCEngine -------------------------------
(***************************************************************************)
(* Small instances of the memory engine's components (apps/api/src/core.ts *)
(* beside the candidate lifecycle).  p says which of them takes a step.    *)
(***************************************************************************)
EXTENDS MemoryWeights, ReviewScheduler, StateSnapshot, Curation, RecallTutor,
  ScopeRecords, PolicyTrail, TLC

(* MemoryWeights: a candidate with a rule and one without; lists so short    *)
(* that adjustments are forgotten.                                           *)
CONSTANTS wa, wb, ra, rb
EngineRuleOf == (wa :> ra) @@ (wb :> NoWRule)
AnAdjustment == [id |-> 1, cand |-> wa, delta |-> 1, at |-> 1, body |-> 0]
EngineAdjustments == {
  AnAdjustment, [AnAdjustment EXCEPT !.body = 1],
  [AnAdjustment EXCEPT !.id = 2, !.delta = -2, !.at = 2],
  [AnAdjustment EXCEPT !.id = 3, !.cand = wb, !.at = 2]}
AnOutcome == [id |-> 11, failed |-> FALSE, rules |-> {ra}, at |-> 1,
              status |-> "settled", traced |-> TRUE]
EngineOutcomes == {
  AnOutcome, [AnOutcome EXCEPT !.id = 12, !.rules = {ra, rb}, !.at = 2],
  [AnOutcome EXCEPT !.id = 12, !.at = 5, !.status = "provisional"],
  [AnOutcome EXCEPT !.id = 13, !.failed = TRUE, !.at = 3],
  [AnOutcome EXCEPT !.id = 13, !.failed = TRUE, !.at = 4, !.status = "provisional"],
  [AnOutcome EXCEPT !.id = 14, !.failed = TRUE, !.rules = {rb}, !.traced = FALSE]}
EngineRankings == {[mode |-> "enable", failClosed |-> FALSE, at |-> 3],
                   [mode |-> "check", failClosed |-> TRUE, at |-> 1]}

EngineNames(e) == 10 * e.id + (IF e.operation = "addweight" THEN e.digest[4] ELSE 0)

(* ReviewScheduler: three entries, one of them suspended at times; days of   *)
(* two units; a candidate that expires and one that starts below the floor.  *)
CONSTANTS sa, sb
ReviewConfidence == (sa :> 4) @@ (sb :> 0)
ReviewExpires == (sa :> 9) @@ (sb :> 4)
AnEntry(i, status, due) == [id |-> i, status |-> status, due |-> due, interval |-> 1]
ReviewUpdates == {AnEntry(1, "scheduled", 1), AnEntry(1, "completed", 1),
  AnEntry(2, "scheduled", 4), AnEntry(2, "suspended", 0), AnEntry(3, "due", 4),
  AnEntry(3, "completed", 0)}
ATick == [mode |-> "auto", interactions |-> 1, noveltyLoad |-> 0, noveltyWrites |-> 0,
          fatigueDelta |-> 0, threshold |-> 3, noveltyThreshold |-> 3,
          forceSleep |-> FALSE]
ReviewTicks == {ATick, [ATick EXCEPT !.noveltyLoad = 1, !.noveltyWrites = 2],
                [ATick EXCEPT !.mode = "sleep", !.interactions = 0]}

(* StateSnapshot: the default profile and two others; what an older release   *)
(* left has a candidate without a decay cursor, and no default profile.       *)
CONSTANTS x1, x2
LegacyState ==
  [EmptyState EXCEPT !.events = {x2}, !.ledger = {1, 2},
     !.candidates = {[id |-> 1, updated |-> 2, decayed |-> NoField],
                     [id |-> 2, updated |-> 4, decayed |-> 1]}]
SnapshotsLeft == {[p \in {2} |-> LegacyState], [p \in {1, 2} |-> LegacyState]}

(* Curation: batches that share events, one with an event twice, events with  *)
(* an id; candidates of one conflict, one contradicted, one incumbent.        *)
CONSTANTS ka, kb, y1, y2
AnEvent(kind, id, at) == [kind |-> kind, id |-> id, at |-> at]
CurationBatches == {
  <<AnEvent(ka, NoId, 1)>>, <<AnEvent(ka, NoId, 1), AnEvent(ka, NoId, 3)>>,
  <<AnEvent(kb, y1, 2), AnEvent(ka, NoId, 3)>>, <<AnEvent(ka, y1, 1)>>,
  <<AnEvent(kb, y2, 5)>>}
AConflict(cid, evidence, against, confidence) ==
  [cid |-> cid, rid |-> <<ka, cid>>, key |-> <<"global", ka>>, evidence |-> evidence,
   contradictions |-> against, confidence |-> confidence, empty |-> FALSE,
   injects |-> FALSE]
CurationCandidates == {
  <<AConflict(<<1>>, {<<y1>>}, {}, 6), AConflict(<<2>>, {<<y2>>}, {}, 6)>>,
  <<AConflict(<<2>>, {<<y2>>}, {<<y1>>}, 6), AConflict(<<3>>, {<<ka, 1>>, <<y2>>}, {}, 5),
    [AConflict(<<4>>, {<<y1>>}, {}, 6) EXCEPT !.injects = TRUE]>>}
CurationBands ==
  {[rules |-> <<1, 2, 3>>, topK |-> k, band |-> b] : k \in 1..4, b \in [1..3 -> 0..2]}

(* RecallTutor: two foreign stores; three things of each kind, some of which  *)
(* may not be suggested.                                                      *)
CONSTANTS q0, q1, q2
AnAuth(mode, requester, stores, failClosed) ==
  [mode |-> mode, requester |-> requester, stores |-> stores, failClosed |-> failClosed]
RecallAuths == {AnAuth("grant", q0, {q1}, TRUE), AnAuth("grant", q2, {q1}, TRUE),
  AnAuth("replace", q0, {q2}, TRUE), AnAuth("revoke", q0, {q0, q1}, TRUE),
  AnAuth("check", q1, {}, FALSE), AnAuth("check", q2, {}, TRUE)}
RecallTutors == {
  [requester |-> q0, degraded |-> TRUE, limit |-> 2, matches |-> {1, 2, 3}],
  [requester |-> q1, degraded |-> FALSE, limit |-> 3, matches |-> {2, 3}]}
RecallSuggestable ==
  {[kind |-> "review", order |-> 2, id |-> 1, status |-> "due", evidence |-> {}],
   [kind |-> "review", order |-> 1, id |-> 2, status |-> "completed", evidence |-> {}],
   [kind |-> "misconception", order |-> 1, id |-> 2, status |-> "active", evidence |-> {}],
   [kind |-> "misconception", order |-> 0, id |-> 3, status |-> "suppressed",
    evidence |-> {}],
   [kind |-> "plan", order |-> 1, id |-> 3, status |-> "open", evidence |-> {1}],
   [kind |-> "plan", order |-> 1, id |-> 2, status |-> "open", evidence |-> {}]}

(* ScopeRecords: updates that arrive out of order, a signal redelivered by     *)
(* another operation, lists that are full after two entries.                   *)
CONSTANTS ga, gb
AProfile(provided, v, at, ev) ==
  [provided |-> provided, value |-> [a \in {ga, gb} |-> IF a \in provided THEN v ELSE 0],
   at |-> at, evidence |-> {ev}]
RecordsProfiles == {AProfile({ga}, 1, 2, 1), AProfile({ga, gb}, 2, 3, 2),
                    AProfile({ga}, 3, 1, 1)}
AnEdge(id, from, to, ev) == [id |-> id, from |-> from, to |-> to, evidence |-> {ev}]
RecordsEdges == {AnEdge(1, 1, 2, 1), AnEdge(1, 2, 1, 2)}
ASignal(via, id, signal, ev) ==
  [via |-> via, id |-> id, key |-> 1, signal |-> signal, suppress |-> FALSE,
   severe |-> via = "pain", evidence |-> {ev}]
RecordsSignals ==
  {ASignal("update", 1, "harmful", 1), ASignal("pain", 1, "harmful", 2),
   ASignal("failure", 2, "harmful", 1), ASignal("update", 3, "correction", 1),
   [ASignal("update", 4, "helpful", 1) EXCEPT !.suppress = TRUE]}
APlan(id, status, rank, links, at) ==
  [id |-> id, status |-> status, rank |-> rank, evidence |-> {at}, links |-> links,
   at |-> at]
RecordsPlans == {APlan(1, "proposed", 2, {1}, 1), APlan(1, "blocked", 1, {1}, 2),
                 APlan(2, "proposed", 1, {}, 1)}
ADecision(outcome, reasons, plugin) ==
  [id |-> 1, outcome |-> outcome, reasons |-> reasons, plugin |-> plugin]
RecordsDecisions == {ADecision("allow", {}, "pass"), ADecision("deny", {"unsafe"}, "pass"),
                     ADecision("review", {}, "broken")}
RecordsRecommends == {[at |-> 3, limit |-> 1, blocked |-> FALSE]}

(* PolicyTrail: two candidates of one rule; a trail of three events; a key    *)
(* whose outcome changes, with timestamps out of order.                       *)
CONSTANTS ta, tb, rt
TrailRules == (ta :> rt) @@ (tb :> rt)
ATrailDecision(id, outcome, at) == [id |-> id, key |-> "k", outcome |-> outcome, at |-> at]
TrailDecisions == {ATrailDecision(1, "allow", 2), ATrailDecision(1, "deny", 1),
                   ATrailDecision(2, "review", 3)}
ATrailCheck(id, at) == [id |-> id, from |-> "s", granted |-> FALSE, at |-> at]
TrailChecks == {ATrailCheck(1, 2), ATrailCheck(2, 3)}
TrailIncidents == {
  [id |-> 1, severity |-> "critical", cands |-> {ta}, rules |-> {}, at |-> 2],
  [id |-> 2, severity |-> "severe", cands |-> {}, rules |-> {rt}, at |-> 4],
  [id |-> 3, severity |-> "high", cands |-> {tb}, rules |-> {}, at |-> 1]}
AHarm(id, kind, at) == [id |-> id, kind |-> kind, at |-> at]
TrailHarms == {AHarm(1, "pain_signal", 2), AHarm(2, "feedback", 3)}
TrailExports == {[limit |-> 2, at |-> 3]}
TrailPages == {[types |-> {}, since |-> 2, until |-> 0, limit |-> 2],
               [types |-> {"policy_audit_event"}, since |-> 0, until |-> 3, limit |-> 1]}
TrailAnomalies ==
  {[since |-> 0, until |-> 0, hours |-> 1], [since |-> 2, until |-> 3, hours |-> 1]}
\* A number of its own for each event.
TrailHash(e) ==
  LET op == [decision |-> 1, recall |-> 2, pain |-> 3, incident |-> 4, export |-> 5]
      outcome == [allow |-> 1, review |-> 2, deny |-> 3, recorded |-> 4]
      bit(x, n) == IF x \in e.detail THEN n ELSE 0
  IN 10000 * e.at + 1000 * (6 - op[e.op]) + 100 * e.entity + 20 * outcome[e.outcome]
       + (IF e.op = "decision" THEN bit("created", 1) + bit("noop", 2)
          ELSE IF e.op = "incident" THEN bit(ta, 1) + bit(tb, 2) + bit(rt, 4) ELSE 0)

------------------------------------------------------------------------------
EngineParts ==
  {"weights", "review", "snapshot", "curation", "recall", "records", "trail"}

EngineInit(p) ==
  /\ WeightsInit /\ ReviewInit /\ SnapshotInit /\ CurationInit /\ RecallInit
  /\ RecordsInit /\ TrailInit
  /\ p # "snapshot" => disk = <<>>
  /\ p # "recall" => filed
  /\ p # "records" => recFiled
engineVars == <<weightVars, reviewVars, snapshotVars, curationVars, recallVars, recordVars,
                trailVars>>
EngineNext(p) ==
  \/ p = "weights" /\ WeightsNext /\ UNCHANGED <<reviewVars, snapshotVars,
       curationVars, recallVars, recordVars, trailVars>>
  \/ p = "review" /\ ReviewNext /\ UNCHANGED <<weightVars, snapshotVars,
       curationVars, recallVars, recordVars, trailVars>>
  \/ p = "snapshot" /\ SnapshotNext /\ UNCHANGED <<weightVars, reviewVars,
       curationVars, recallVars, recordVars, trailVars>>
  \/ p = "curation" /\ CurationNext /\ UNCHANGED <<weightVars, reviewVars,
       snapshotVars, recallVars, recordVars, trailVars>>
  \/ p = "recall" /\ RecallNext /\ UNCHANGED <<weightVars, reviewVars, snapshotVars,
       curationVars, recordVars, trailVars>>
  \/ p = "records" /\ RecordsNext /\ UNCHANGED <<weightVars, reviewVars,
       snapshotVars, curationVars, recallVars, trailVars>>
  \/ p = "trail" /\ TrailNext /\ UNCHANGED <<weightVars, reviewVars, snapshotVars,
       curationVars, recallVars, recordVars>>

EngineTypeOK(p) ==
  /\ p = "weights" => WeightsTypeOK
  /\ p = "review" => ReviewTypeOK
  /\ p = "snapshot" => SnapshotTypeOK
  /\ p = "curation" => CurationTypeOK
  /\ p = "recall" => RecallTypeOK
  /\ p = "records" => RecordsTypeOK
  /\ p = "trail" => TrailTypeOK

LearningRightIn(p) ==
  /\ p = "weights" => WeightsAreRight
  /\ p = "review" => ReviewsAreRight
  /\ p = "curation" => CurationIsRight

EngineStateRightIn(p) ==
  /\ p = "snapshot" => SnapshotsAreRight
  /\ p = "recall" => RecallIsRight
  /\ p = "records" => RecordsAreRight
  /\ p = "trail" => TrailIsRight
==============================================================================
