-------------------------- MODULE MemoryLifecycle --------------------------
(***************************************************************************)
(* The candidate lifecycle of one (storeId, profile) scope of              *)
(* apps/api/src/core.ts: shadow candidates, their replay evaluations, and  *)
(* the active rules that promoted candidates stand for.                    *)
(*                                                                         *)
(* Every runner is synchronous, so one request is one step.  The code      *)
(* keeps arrays whose ids are unique; here they are functions from ids.    *)
(* Timestamps come from the requests, in any order.  What a request may    *)
(* choose freely is an input: the freshness window of a promotion and the  *)
(* gate threshold of an evaluation decide only whether it is accepted or   *)
(* passes.  Ids are either derived by hashing or given by the caller;      *)
(* RuleIds, EvalIds and CuratedRules say which ids a request may carry.    *)
(***************************************************************************)
EXTENDS Integers, FiniteSets

CONSTANTS
  Cand,            \* candidate ids
  Rule,            \* rule ids
  Eval,            \* replay evaluation ids, numbers, for the order of ids
  Feedback,        \* ids of harmful feedback
  RuleIds,         \* the rule ids a shadow_write of each candidate may carry
  EvalIds,         \* the evaluation ids a replay_eval of each candidate may carry
  CuratedRules,    \* the rule ids curate_guarded may write
  FeedbackTarget,  \* the candidates and rules each feedback names
  Time,            \* timestamps, numbers
  DemotionStreak,  \* DEFAULT_NEGATIVE_NET_VALUE_DEMOTION_STREAK
  DefaultGate,     \* every gateThreshold is 0: a pass has no negative value
  InOrder,         \* an evaluation is later than all others of its candidate:
                   \* new ones come in order, only the last is repeated
  NoCand, NoEval, NoRule, Curated

ASSUME IdAssumption ==
  /\ Eval \subseteq Nat /\ Time \subseteq Nat /\ Time # {}
  /\ RuleIds \in [Cand -> SUBSET Rule] /\ EvalIds \in [Cand -> SUBSET Eval]
  /\ CuratedRules \subseteq Rule
  /\ FeedbackTarget \in [Feedback -> [cands : SUBSET Cand, rules : SUBSET Rule]]
ASSUME NullAssumption ==
  NoCand \notin Cand /\ Curated \notin Cand /\ NoCand # Curated
  /\ NoEval \notin Eval /\ NoRule \notin Rule
ASSUME StreakAssumption ==
  DemotionStreak \in Nat \ {0} /\ DefaultGate \in BOOLEAN /\ InOrder \in BOOLEAN

VARIABLES
  cand,      \* state.shadowCandidates
  evals,     \* state.replayEvaluations
  rules,     \* state.rules: the candidate and evaluation each was promoted from
  feedback   \* state.feedback: the harmful feedback recorded

vars == <<cand, evals, rules, feedback>>

Value == {-1, 1}   \* the sign of a net value score; a score of 0 counts as 1

Candidate ==
  [status : {"absent", "shadow", "promoted", "demoted"},
   rule : Rule \cup {NoRule}, expires : Time,
   latest : Eval \cup {NoEval}, verdict : {"unevaluated", "pass", "fail"},
   value : Value, streak : Nat]
Evaluation == [of : Cand, value : Value, pass : BOOLEAN, at : Time]
NoEvaluation == [of |-> NoCand]
ActiveRule == [from : Cand \cup {Curated}, eval : Eval \cup {NoEval}]
NoActiveRule == [from |-> NoCand, eval |-> NoEval]

Known(c) == cand[c].status # "absent"
Live(c) == cand[c].status \in {"shadow", "promoted"}

Init ==
  /\ cand = [c \in Cand |->
               [status |-> "absent", rule |-> NoRule,
                expires |-> CHOOSE t \in Time : TRUE,
                latest |-> NoEval, verdict |-> "unevaluated",
                value |-> 1, streak |-> 0]]
  /\ evals = [e \in Eval |-> NoEvaluation]
  /\ rules = [r \in Rule |-> NoActiveRule]
  /\ feedback = {}

-----------------------------------------------------------------------------
(* Helpers of the runners                                                  *)

EvalsOf(es, c) == {e \in Eval : es[e].of = c}
\* sortByTimestampAndId(replayEvaluations, "evaluatedAt", "replayEvalId")
Before(es, d, e) ==
  es[d].at < es[e].at \/ (es[d].at = es[e].at /\ d < e)

\* computeTrailingNegativeNetValueStreak
TrailingNegatives(es, c) ==
  Cardinality({e \in EvalsOf(es, c) :
    \A d \in EvalsOf(es, c) : Before(es, d, e) \/ es[d].value < 0})

\* resolveDemotionTargetCandidateIds
Targets(cs, rs) == {c \in Cand : Known(c) /\ (c \in cs \/ cand[c].rule \in rs)}

\* applyCandidateDemotion, for each candidate of S that is not demoted yet
Demoted(cs, S) ==
  [c \in Cand |-> IF c \in S /\ Live(c) THEN [cs[c] EXCEPT !.status = "demoted"]
                  ELSE cs[c]]
RulesWithout(rs) == [r \in Rule |-> IF r \in rs THEN NoActiveRule ELSE rules[r]]
RulesOf(S) == {cand[c].rule : c \in {d \in S : Live(d)}}

-----------------------------------------------------------------------------
(* Candidates and their evaluations                                        *)

\* runShadowWrite: a known candidate takes over the rule id and the expiry of
\* the request, keeps what it knows of its evaluations, and becomes a shadow
\* again unless it is promoted.
ShadowWrite(c, r, expires) ==
  /\ cand' = [cand EXCEPT ![c].rule = r, ![c].expires = expires,
                          ![c].status = IF @ = "promoted" THEN @ ELSE "shadow"]
  /\ UNCHANGED <<evals, rules, feedback>>

\* Created, replaced by one with other content, or found identical.
Outcome(e, ev) == CASE evals[e] = NoEvaluation -> "created"
                    [] evals[e] = ev -> "noop"
                    [] OTHER -> "updated"

\* Faulty: a non-negative value takes one off; a replay counts again.
StreakDecaying(c, ev, outcome) ==
  IF ev.value < 0 THEN cand[c].streak + 1 ELSE cand[c].streak - 1
StreakCountingReplays(c, ev, outcome) ==
  CASE outcome = "updated" -> TrailingNegatives(evals', c)
    [] OTHER -> IF ev.value < 0 THEN cand[c].streak + 1 ELSE 0

Streak(c, ev, outcome) ==
  CASE outcome = "noop" -> cand[c].streak
    [] outcome = "created" -> IF ev.value < 0 THEN cand[c].streak + 1 ELSE 0
    [] outcome = "updated" -> TrailingNegatives(evals', c)

\* Faulty: a correction of the latest evaluation demotes nothing.
ReplayEvalCreatedOnly(c, e, ev) ==
  /\ Known(c)
  /\ evals' = [evals EXCEPT ![e] = ev]
  /\ LET outcome == Outcome(e, ev)
         streak == Streak(c, ev, outcome)
         demotes == outcome = "created" /\ streak >= DemotionStreak
         evaluated == [cand EXCEPT ![c].latest = e, ![c].value = ev.value,
                         ![c].verdict = IF ev.pass THEN "pass" ELSE "fail",
                         ![c].streak = streak]
     IN IF demotes
        THEN /\ cand' = Demoted(evaluated, {c})
             /\ rules' = RulesWithout(RulesOf({c}))
        ELSE cand' = evaluated /\ UNCHANGED rules
  /\ UNCHANGED feedback

\* runReplayEval: even a noop makes its evaluation the latest of the candidate;
\* only the demotion on a sustained negative value is left out.
ReplayEval(c, e, ev) ==
  /\ Known(c)
  /\ evals' = [evals EXCEPT ![e] = ev]
  /\ LET outcome == Outcome(e, ev)
         streak == Streak(c, ev, outcome)
         demotes == outcome # "noop" /\ streak >= DemotionStreak
         evaluated == [cand EXCEPT ![c].latest = e, ![c].value = ev.value,
                         ![c].verdict = IF ev.pass THEN "pass" ELSE "fail",
                         ![c].streak = streak]
     IN IF demotes
        THEN /\ cand' = Demoted(evaluated, {c})
             /\ rules' = RulesWithout(RulesOf({c}))
        ELSE cand' = evaluated /\ UNCHANGED rules
  /\ UNCHANGED feedback

\* Faulty: any evaluation that ever passed opens the gate.
GateOnce(c) == \E e \in EvalsOf(evals, c) : evals[e].pass

\* The evaluation the gate of a promotion looks at: the one named by the
\* candidate, which may since have been replaced by another's under the same id.
Gate(c) == cand[c].latest # NoEval /\ evals[cand[c].latest].pass

\* runPromote
Promote(c, at) ==
  /\ Known(c) /\ Gate(c)
  /\ at <= cand[c].expires
  /\ cand' = [cand EXCEPT ![c].status = "promoted", ![c].verdict = "pass",
                          ![c].value = evals[cand[c].latest].value]
  /\ rules' = [rules EXCEPT ![cand[c].rule] =
                 [from |-> c, eval |-> cand[c].latest]]
  /\ UNCHANGED <<evals, feedback>>

\* runDemote, with a threshold of 0 or above every score
Demote(c, force, threshold) ==
  /\ Known(c)
  /\ force \/ cand[c].verdict = "fail" \/ cand[c].value < threshold
  /\ cand' = Demoted(cand, {c})
  /\ rules' = RulesWithout(RulesOf({c}))
  /\ UNCHANGED <<evals, feedback>>

-----------------------------------------------------------------------------
(* Overrides, incidents, feedback, time and curation                       *)

\* applyManualPromotionOverride: no gate.  Of candidates that share a rule id,
\* the last in id order leaves its rule there; any may be it.
OverridePromote(cs, rs) ==
  LET S == Targets(cs, rs)
  IN /\ S # {}
     /\ cand' = [c \in Cand |->
                   IF c \in S THEN [cand[c] EXCEPT !.status = "promoted"]
                   ELSE cand[c]]
     /\ \E last \in [{cand[c].rule : c \in S} -> S] :
          /\ \A r \in DOMAIN last : cand[last[r]].rule = r
          /\ rules' = [r \in Rule |->
               IF r \in DOMAIN last
               THEN [from |-> last[r], eval |-> cand[last[r]].latest]
               ELSE rules[r]]
     /\ UNCHANGED <<evals, feedback>>

\* applyIncidentEscalationQuarantine, for incidents that require it and for the
\* suppress override: also the rules named directly go.
Quarantine(cs, rs) ==
  LET S == Targets(cs, rs)
  IN /\ cand' = Demoted(cand, S)
     /\ rules' = RulesWithout(RulesOf(S) \cup rs)
     /\ UNCHANGED <<evals, feedback>>

\* runFeedback with a harmful signal: demotes once, a replay is a noop.
HarmfulFeedback(f) ==
  LET S == Targets(FeedbackTarget[f].cands, FeedbackTarget[f].rules)
  IN /\ f \notin feedback
     /\ feedback' = feedback \cup {f}
     /\ cand' = Demoted(cand, S)
     /\ rules' = RulesWithout(RulesOf(S))
     /\ UNCHANGED evals

\* Faulty: promoted candidates expire as well, and their rules stay.
TemporalTickKeepingRules(at) ==
  LET S == {c \in Cand : Live(c) /\ cand[c].expires < at}
  IN cand' = Demoted(cand, S) /\ UNCHANGED <<rules, evals, feedback>>

\* runTemporalCandidateMaintenanceTick, at every review_schedule_clock: shadow
\* candidates that expired are demoted; promoted ones do not expire.
TemporalTick(at) ==
  LET S == {c \in Cand : cand[c].status = "shadow" /\ cand[c].expires < at}
  IN /\ cand' = Demoted(cand, S)
     /\ rules' = RulesWithout(RulesOf(S))
     /\ UNCHANGED <<evals, feedback>>

\* applyCurateMutations, by way of curate_guarded
Curate(r) ==
  /\ rules' = [rules EXCEPT ![r] = [from |-> Curated, eval |-> NoEval]]
  /\ UNCHANGED <<cand, evals, feedback>>

-----------------------------------------------------------------------------
\* The evaluations a request can ask for, as far as DefaultGate and InOrder say.
Evaluations(c, e) ==
  {ev \in Evaluation :
     /\ ev.of = c
     /\ DefaultGate => (ev.pass => ev.value > 0)
     /\ InOrder => \A d \in EvalsOf(evals, c) \ {e} : evals[d].at < ev.at}

EvaluationRequest ==
  \E c \in Cand : \E e \in EvalIds[c] : \E ev \in Evaluations(c, e) :
    ReplayEval(c, e, ev)

CandidateRequest ==
  \E c \in Cand :
    \/ \E r \in RuleIds[c], expires \in Time : ShadowWrite(c, r, expires)
    \/ \E at \in Time : Promote(c, at)
    \/ \E force \in BOOLEAN, threshold \in {0, 2} : Demote(c, force, threshold)

ControlRequest ==
  \E cs \in SUBSET Cand, rs \in SUBSET Rule :
    OverridePromote(cs, rs) \/ Quarantine(cs, rs)

Next ==
  \/ CandidateRequest
  \/ EvaluationRequest
  \/ ControlRequest
  \/ \E f \in Feedback : HarmfulFeedback(f)
  \/ \E at \in Time : TemporalTick(at)
  \/ \E r \in CuratedRules : Curate(r)

Spec == Init /\ [][Next]_vars

-----------------------------------------------------------------------------
TypeOK ==
  /\ cand \in [Cand -> Candidate]
  /\ evals \in [Eval -> Evaluation \cup {NoEvaluation}]
  /\ rules \in [Rule -> ActiveRule \cup {NoActiveRule}]
  /\ feedback \subseteq Feedback

\* Retrieval serves exactly the promoted candidates, each by the rule it now has,
\* whichever operation promoted or demoted it: no candidate loses its rule to an
\* operation on another, and no rule outlives the promotion it stems from.
RulesMirrorPromotions ==
  \A c \in Cand :
    {r \in Rule : rules[r].from = c} =
      IF cand[c].status = "promoted" THEN {cand[c].rule} ELSE {}

\* The streak that is kept incrementally counts the trailing negative
\* evaluations, as it would be computed from the evaluations themselves.
StreakIsTrailing ==
  \A c \in Cand : cand[c].streak = TrailingNegatives(evals, c)

\* A promotion, but for a manual override, was let through by an evaluation of
\* this very candidate, and never with a sustained negative value.
Overridden == \E cs \in SUBSET Cand, rs \in SUBSET Rule : OverridePromote(cs, rs)
PromotionEarned ==
  [][\A c \in Cand :
       cand'[c].status = "promoted" /\ cand[c].status # "promoted" =>
         \/ Overridden
         \/ \E e \in EvalsOf(evals, c) : e = cand[c].latest /\ evals[e].pass]_vars

\* A candidate whose latest evaluations were all negative, DemotionStreak of them
\* or more, is not promoted, and an evaluation that completes such a streak takes
\* a promoted one out of service; only an operator may decide otherwise.
SustainedNegativeNotActive ==
  [][\A c \in Cand :
       cand'[c].status = "promoted" /\ cand'[c].streak >= DemotionStreak =>
         \/ Overridden
         \/ cand[c].status = "promoted" /\ cand[c].streak >= DemotionStreak]_vars

\* Replaying a replay_eval request whose evaluation is stored changes nothing.
ReplayChangesNothing ==
  [][\A c \in Cand, e \in Eval :
       evals[e].of = c /\ ReplayEval(c, e, evals[e]) => UNCHANGED vars]_vars
=============================================================================
