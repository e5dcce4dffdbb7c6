----------------------------- MODULE EngineProofs -----------------------------
(***************************************************************************)
(* Proofs about the memory engine and the retrieval service: the candidate *)
(* lifecycle, the learned weights, the reviews, the snapshot, recalls and  *)
(* tutor sessions, the records of a scope, the audit trail, curation, and  *)
(* the retrieval planner.                                                  *)
(*                                                                         *)
(* The lifecycle comes first, for any sets of candidates, rules,           *)
(* evaluations and timestamps, finite or not.  Types need no hypothesis.   *)
(* That the active rules mirror the promotions needs rule ids to be        *)
(* derived; that the streaks are right, and what guards a promotion, needs *)
(* evaluation ids to be derived and to come in order.                      *)
(***************************************************************************)
EXTENDS MemoryLifecycle, MemoryWeights, ReviewScheduler, StateSnapshot, RecallTutor,
        Curation, ScopeRecords, PolicyTrail, RetrievalPlanner, FiniteSetsExt, FunctionTheorems,
        FiniteSetTheorems, SequenceTheorems, WellFoundedInduction, TLAPS

-----------------------------------------------------------------------------
(* The hypotheses.  Derived ids are hashed from what they identify: a      *)
(* candidate has one rule id, and no two candidates share an id.           *)

RuleIdsAreDerived ==
  /\ \A c \in Cand : \A r, s \in RuleIds[c] : r = s
  /\ \A c, d \in Cand : c # d => RuleIds[c] \cap RuleIds[d] = {}
  /\ \A c \in Cand : RuleIds[c] \cap CuratedRules = {}
EvalIdsAreDerived == \A c, d \in Cand : c # d => EvalIds[c] \cap EvalIds[d] = {}

-----------------------------------------------------------------------------
(* Type correctness                                                        *)

\* Evaluations are stored one by one and never removed; the latest of a candidate
\* is a stored one.
EvaluationsAreStored ==
  \A c \in Cand :
    /\ IsFiniteSet(EvalsOf(evals, c))
    /\ cand[c].latest # NoEval => evals[cand[c].latest] \in Evaluation
    /\ Known(c) => cand[c].rule \in Rule
TInv == TypeOK /\ EvaluationsAreStored

LEMMA TypeInit == Init => TInv
<1> SUFFICES ASSUME Init PROVE TInv
  OBVIOUS
<1>1. TypeOK
  BY IdAssumption
  DEF Init, TypeOK, Candidate, Value, Evaluation, NoEvaluation, ActiveRule, NoActiveRule
<1>2. ASSUME NEW c \in Cand PROVE EvalsOf(evals, c) = {}
  BY <1>2, NullAssumption DEF Init, EvalsOf, NoEvaluation
<1>3. EvaluationsAreStored
  BY <1>2, FS_EmptySet DEF Init, EvaluationsAreStored, Known
<1> QED
  BY <1>1, <1>3 DEF TInv

\* The streak of a candidate that is evaluated.
LEMMA TrailingIsNat ==
  ASSUME NEW c \in Cand, NEW es, IsFiniteSet(EvalsOf(es, c))
  PROVE  TrailingNegatives(es, c) \in Nat
<1> DEFINE T == {e \in EvalsOf(es, c) : \A d \in EvalsOf(es, c) : Before(es, d, e) \/ es[d].value < 0}
<1>1. IsFiniteSet(T)
  BY FS_Subset
<1> QED
  BY <1>1, FS_CardinalityType DEF TrailingNegatives

LEMMA EvaluationsStay ==
  ASSUME TInv, NEW c \in Cand, NEW e \in Eval, NEW ev \in Evaluation,
         evals' = [evals EXCEPT ![e] = ev]
  PROVE  IsFiniteSet(EvalsOf(evals', c))
<1>1. EvalsOf(evals', c) \subseteq EvalsOf(evals, c) \cup {e}
  BY DEF EvalsOf, TInv, TypeOK
<1>2. IsFiniteSet(EvalsOf(evals, c) \cup {e})
  BY FS_AddElement DEF TInv, EvaluationsAreStored
<1> QED
  BY <1>1, <1>2, FS_Subset

\* Demoting keeps the types of candidates and rules.
LEMMA DemotedType ==
  ASSUME TypeOK, NEW cs \in [Cand -> Candidate], NEW S, NEW R
  PROVE  /\ Demoted(cs, S) \in [Cand -> Candidate]
         /\ RulesWithout(R) \in [Rule -> ActiveRule \cup {NoActiveRule}]
         /\ \A c \in Cand : Demoted(cs, S)[c].latest = cs[c].latest
                            /\ Demoted(cs, S)[c].rule = cs[c].rule
BY DEF Demoted, RulesWithout, TypeOK, Candidate

LEMMA ReplayEvalType ==
  ASSUME TInv, NEW c \in Cand, NEW e \in EvalIds[c], NEW ev \in Evaluations(c, e),
         ReplayEval(c, e, ev)
  PROVE  TInv'
<1> DEFINE outcome == Outcome(e, ev)
           streak == Streak(c, ev, outcome)
           evaluated == [cand EXCEPT ![c].latest = e, ![c].value = ev.value,
                           ![c].verdict = IF ev.pass THEN "pass" ELSE "fail",
                           ![c].streak = streak]
<1>1. e \in Eval /\ ev \in Evaluation /\ ev.of = c
  BY IdAssumption DEF Evaluations
<1>2. evals' = [evals EXCEPT ![e] = ev]
  BY DEF ReplayEval
<1>3. evals' \in [Eval -> Evaluation \cup {NoEvaluation}]
  BY <1>1, <1>2 DEF TInv, TypeOK
<1>4. \A d \in Cand : IsFiniteSet(EvalsOf(evals', d))
  BY <1>1, <1>2, EvaluationsStay
<1>5. streak \in Nat
  <2>1. cand[c].streak \in Nat
    BY DEF TInv, TypeOK, Candidate
  <2>2. TrailingNegatives(evals', c) \in Nat
    BY <1>4, TrailingIsNat
  <2>3. outcome \in {"created", "noop", "updated"}
    BY DEF Outcome
  <2> HIDE DEF outcome
  <2> QED
    BY <2>1, <2>2, <2>3 DEF Streak
<1> HIDE DEF streak
<1>6. evaluated \in [Cand -> Candidate]
  <2> DEFINE now == [cand[c] EXCEPT !.latest = e, !.value = ev.value,
                       !.verdict = IF ev.pass THEN "pass" ELSE "fail", !.streak = streak]
  <2>1. cand[c] \in Candidate /\ cand \in [Cand -> Candidate]
    BY DEF TInv, TypeOK
  <2>2. now \in Candidate
    BY <1>1, <1>5, <2>1 DEF Candidate, Evaluation
  <2>3. evaluated = [cand EXCEPT ![c] = now]
    BY <2>1
  <2> QED
    BY <2>1, <2>2, <2>3
<1>7. /\ cand' \in [Cand -> Candidate]
      /\ rules' \in [Rule -> ActiveRule \cup {NoActiveRule}]
      /\ \A d \in Cand : cand'[d].latest = evaluated[d].latest
                         /\ cand'[d].rule = evaluated[d].rule
  <2>1. \/ cand' = Demoted(evaluated, {c}) /\ rules' = RulesWithout(RulesOf({c}))
        \/ cand' = evaluated /\ rules' = rules
    BY DEF ReplayEval, streak
  <2> HIDE DEF evaluated
  <2> QED
    BY <1>6, <2>1, DemotedType DEF TInv, TypeOK
<1>8. \A d \in Cand :
        /\ cand'[d].latest # NoEval => evals'[cand'[d].latest] \in Evaluation
        /\ Known(d)' => cand'[d].rule \in Rule
  <2> SUFFICES ASSUME NEW d \in Cand
               PROVE  /\ cand'[d].latest # NoEval => evals'[cand'[d].latest] \in Evaluation
                      /\ Known(d)' => cand'[d].rule \in Rule
    OBVIOUS
  <2>1. /\ evaluated[d].latest = IF d = c THEN e ELSE cand[d].latest
        /\ evaluated[d].rule = cand[d].rule
    BY DEF TInv, TypeOK, Candidate
  <2>2. cand[d].latest \in Eval \cup {NoEval}
    BY DEF TInv, TypeOK, Candidate
  <2>3. Known(d)' => Known(d)
    BY DEF ReplayEval, Known, Demoted, TInv, TypeOK, Candidate
  <2> QED
    BY <1>1, <1>2, <1>7, <2>1, <2>2, <2>3 DEF TInv, TypeOK, EvaluationsAreStored
<1> QED
  BY <1>3, <1>4, <1>7, <1>8 DEF TInv, TypeOK, EvaluationsAreStored, ReplayEval

\* The other requests leave the evaluations alone: what a step has to keep is this.
LEMMA KeptType ==
  ASSUME TInv, UNCHANGED evals, cand' \in [Cand -> Candidate],
         rules' \in [Rule -> ActiveRule \cup {NoActiveRule}], feedback' \subseteq Feedback,
         \A c \in Cand : cand'[c].latest = cand[c].latest /\ (Known(c)' => cand'[c].rule \in Rule)
  PROVE  TInv'
<1>1. \A c \in Cand : EvalsOf(evals, c)' = EvalsOf(evals, c)
  BY DEF EvalsOf
<1> QED
  BY <1>1 DEF TInv, TypeOK, EvaluationsAreStored

LEMMA ShadowWriteType ==
  ASSUME TInv, NEW c \in Cand, NEW r \in RuleIds[c], NEW expires \in Time,
         ShadowWrite(c, r, expires)
  PROVE  TInv'
<1> DEFINE now == [cand[c] EXCEPT !.rule = r, !.expires = expires,
                     !.status = IF @ = "promoted" THEN @ ELSE "shadow"]
<1>1. r \in Rule
  BY IdAssumption
<1>2. now \in Candidate /\ now.latest = cand[c].latest /\ now.rule = r
  BY <1>1 DEF TInv, TypeOK, Candidate
<1>3. cand' = [cand EXCEPT ![c] = now]
  BY DEF ShadowWrite, TInv, TypeOK
<1> HIDE DEF now
<1>4. cand' \in [Cand -> Candidate]
  BY <1>2, <1>3 DEF TInv, TypeOK
<1>5. \A d \in Cand : cand'[d].latest = cand[d].latest
                      /\ (Known(d)' => cand'[d].rule \in Rule)
  BY <1>1, <1>2, <1>3 DEF TInv, TypeOK, EvaluationsAreStored, Known
<1> QED
  BY <1>4, <1>5, KeptType DEF ShadowWrite, TInv, TypeOK

\* What a promotion stores.
LEMMA PromoteStores ==
  ASSUME TInv, NEW c \in Cand, NEW at \in Time, Promote(c, at)
  PROVE  /\ cand[c].latest \in Eval /\ evals[cand[c].latest] \in Evaluation
         /\ cand' \in [Cand -> Candidate]
         /\ cand'[c].status = "promoted" /\ cand'[c].streak = cand[c].streak
         /\ cand'[c].latest = cand[c].latest /\ cand'[c].rule = cand[c].rule
         /\ \A d \in Cand \ {c} : cand'[d] = cand[d]
<1> DEFINE value == evals[cand[c].latest].value
           now == [cand[c] EXCEPT !.status = "promoted", !.verdict = "pass", !.value = value]
<1>1. /\ cand[c] \in Candidate /\ cand \in [Cand -> Candidate]
      /\ cand[c].latest \in Eval /\ evals[cand[c].latest] \in Evaluation
  BY DEF TInv, TypeOK, EvaluationsAreStored, Candidate, Promote, Gate
<1>2. value \in Value
  BY <1>1 DEF Evaluation
<1>3. cand' = [cand EXCEPT ![c] = now]
  BY <1>1 DEF Promote
<1> HIDE DEF value
<1>4. /\ now \in Candidate /\ now.latest = cand[c].latest /\ now.rule = cand[c].rule
      /\ now.status = "promoted" /\ now.streak = cand[c].streak
  BY <1>1, <1>2 DEF Candidate
<1> HIDE DEF now
<1> QED
  BY <1>1, <1>3, <1>4

LEMMA PromoteType ==
  ASSUME TInv, NEW c \in Cand, NEW at \in Time, Promote(c, at)
  PROVE  TInv'
<1>1. rules' \in [Rule -> ActiveRule \cup {NoActiveRule}]
  BY PromoteStores DEF Promote, TInv, TypeOK, ActiveRule
<1>2. \A d \in Cand : cand'[d].latest = cand[d].latest /\ (Known(d)' => cand'[d].rule \in Rule)
  BY PromoteStores DEF TInv, EvaluationsAreStored, Promote, Known
<1> QED
  BY <1>1, <1>2, PromoteStores, KeptType DEF TInv, TypeOK, Promote

\* The requests that demote.
DemoteStep(S, R) ==
  cand' = Demoted(cand, S) /\ rules' = RulesWithout(R) /\ UNCHANGED evals
LEMMA DemoteType ==
  ASSUME TInv, NEW S, NEW R, DemoteStep(S, R), feedback' \subseteq Feedback
  PROVE  TInv'
<1>1. /\ cand' \in [Cand -> Candidate]
      /\ rules' \in [Rule -> ActiveRule \cup {NoActiveRule}]
      /\ \A c \in Cand : cand'[c].latest = cand[c].latest /\ cand'[c].rule = cand[c].rule
  BY DemotedType DEF DemoteStep, TInv, TypeOK
<1>2. \A c \in Cand : Known(c)' => Known(c)
  BY DEF DemoteStep, Known, Live, Demoted, TInv, TypeOK, Candidate
<1> QED
  BY <1>1, <1>2, KeptType DEF DemoteStep, TInv, EvaluationsAreStored

LEMMA OverrideType ==
  ASSUME TInv, NEW cs, NEW rs, OverridePromote(cs, rs)
  PROVE  TInv'
<1>1. /\ cand' \in [Cand -> Candidate]
      /\ \A c \in Cand : cand'[c].latest = cand[c].latest /\ cand'[c].rule = cand[c].rule
  <2>1. cand \in [Cand -> Candidate]
    BY DEF TInv, TypeOK
  <2>2. cand' = [c \in Cand |-> IF c \in Targets(cs, rs)
                             THEN [cand[c] EXCEPT !.status = "promoted"] ELSE cand[c]]
    BY DEF OverridePromote
  <2>3. ASSUME NEW c \in Cand
        PROVE  LET x == [cand[c] EXCEPT !.status = "promoted"]
               IN x \in Candidate /\ x.latest = cand[c].latest /\ x.rule = cand[c].rule
    BY ONLY <2>1, <2>3 DEF Candidate
  <2> QED
    BY ONLY <2>1, <2>2, <2>3
<1>2. \A c \in Cand : Known(c)' => Known(c)
  BY DEF OverridePromote, Targets, Known, TInv, TypeOK, Candidate
<1>3. rules' \in [Rule -> ActiveRule \cup {NoActiveRule}]
  <2> DEFINE S == Targets(cs, rs)
  <2>1. PICK last \in [{cand[c].rule : c \in S} -> S] :
          rules' = [r \in Rule |->
               IF r \in DOMAIN last
               THEN [from |-> last[r], eval |-> cand[last[r]].latest]
               ELSE rules[r]]
    BY DEF OverridePromote
  <2>2. S \subseteq Cand
    BY DEF Targets
  <2> HIDE DEF S
  <2> QED
    BY <2>1, <2>2 DEF TInv, TypeOK, Candidate, ActiveRule
<1> QED
  BY <1>1, <1>2, <1>3, KeptType DEF OverridePromote, TInv, TypeOK, EvaluationsAreStored

LEMMA TypeStep ==
  ASSUME TInv, [Next]_vars
  PROVE  TInv'
<1>1. CASE CandidateRequest
  <2>1. ASSUME NEW c \in Cand, NEW force, NEW threshold, Demote(c, force, threshold)
        PROVE  TInv'
    BY <2>1, DemoteType DEF Demote, DemoteStep, TInv, TypeOK
  <2> QED
    BY <1>1, <2>1, ShadowWriteType, PromoteType DEF CandidateRequest
<1>2. CASE EvaluationRequest
  BY <1>2, ReplayEvalType DEF EvaluationRequest
<1>3. CASE ControlRequest
  <2>1. ASSUME NEW cs, NEW rs, Quarantine(cs, rs) PROVE TInv'
    BY <2>1, DemoteType DEF Quarantine, DemoteStep, TInv, TypeOK
  <2> QED
    BY <1>3, <2>1, OverrideType DEF ControlRequest
<1>4. ASSUME NEW f \in Feedback, HarmfulFeedback(f) PROVE TInv'
  BY <1>4, DemoteType DEF HarmfulFeedback, DemoteStep, TInv, TypeOK
<1>5. ASSUME NEW at \in Time, TemporalTick(at) PROVE TInv'
  BY <1>5, DemoteType DEF TemporalTick, DemoteStep, TInv, TypeOK
<1>6. ASSUME NEW r \in CuratedRules, Curate(r) PROVE TInv'
  <2>1. rules' \in [Rule -> ActiveRule \cup {NoActiveRule}]
    BY <1>6 DEF Curate, TInv, TypeOK, ActiveRule
  <2> QED
    BY <1>6, <2>1, KeptType DEF Curate, TInv, TypeOK, EvaluationsAreStored, Known
<1>7. CASE UNCHANGED vars
  BY <1>7, KeptType DEF vars, TInv, TypeOK, EvaluationsAreStored, Known
<1> QED
  BY <1>1, <1>2, <1>3, <1>4, <1>5, <1>6, <1>7 DEF Next

LEMMA TypeInductive == Spec => []TInv
<1>1. TInv /\ [Next]_vars => TInv'
  BY TypeStep
<1> QED
  BY <1>1, TypeInit, PTL DEF Spec

\* Candidates, evaluations and rules keep their types, whatever is requested.
THEOREM LifecycleTypeCorrect == Spec => []TypeOK
<1>1. TInv => TypeOK
  BY DEF TInv
<1> QED
  BY <1>1, TypeInductive, PTL

-----------------------------------------------------------------------------
(* The active rules mirror the promotions                                  *)

\* A candidate has one of its own rule ids.
RulesAreOwn == \A c \in Cand : Known(c) => cand[c].rule \in RuleIds[c]
MirrorInv == TInv /\ RulesAreOwn /\ RulesMirrorPromotions

\* With derived ids, no other candidate has the rule of a known one.
LEMMA RulesAreApart ==
  ASSUME RulesAreOwn, RuleIdsAreDerived, NEW c \in Cand, NEW d \in Cand,
         Known(c), Known(d), cand[c].rule = cand[d].rule
  PROVE  c = d
BY DEF RulesAreOwn, RuleIdsAreDerived

\* The candidates of S are demoted if they are live, the rules of R taken away.
Retires(S, R) ==
  /\ \A c \in Cand :
       /\ cand'[c].rule = cand[c].rule
       /\ cand'[c].status = IF c \in S /\ Live(c) THEN "demoted" ELSE cand[c].status
  /\ rules' = RulesWithout(R)
LEMMA DemoteRetires == ASSUME TInv, NEW S, NEW R, DemoteStep(S, R) PROVE Retires(S, R)
BY DEF DemoteStep, Retires, Demoted, TInv, TypeOK, Candidate

\* A demotion of the candidates of S that takes the rules of R away keeps the
\* mirror if R holds the rules of S, and of no other promoted candidate.
LEMMA DemoteMirrors ==
  ASSUME MirrorInv, NEW S, S \subseteq Cand, NEW R, Retires(S, R), RulesOf(S) \subseteq R,
         \A c \in Cand : cand[c].status = "promoted" /\ cand[c].rule \in R => c \in S
  PROVE  RulesAreOwn' /\ RulesMirrorPromotions'
<1>1. \A c \in Cand :
        /\ cand'[c].rule = cand[c].rule
        /\ cand'[c].status = IF c \in S /\ Live(c) THEN "demoted" ELSE cand[c].status
  BY DEF Retires
<1>2. \A r \in Rule : rules'[r] = IF r \in R THEN NoActiveRule ELSE rules[r]
  BY DEF Retires, RulesWithout
<1>3. RulesAreOwn'
  BY <1>1 DEF MirrorInv, RulesAreOwn, Known, Live
<1>4. ASSUME NEW c \in Cand
      PROVE  {r \in Rule : rules'[r].from = c} =
               IF cand'[c].status = "promoted" THEN {cand'[c].rule} ELSE {}
  <2>1. {r \in Rule : rules'[r].from = c} = {r \in Rule : rules[r].from = c} \ R
    BY <1>2, NullAssumption DEF NoActiveRule
  <2>2. {r \in Rule : rules[r].from = c} =
               IF cand[c].status = "promoted" THEN {cand[c].rule} ELSE {}
    BY DEF MirrorInv, RulesMirrorPromotions
  <2>3. c \in S /\ Live(c) => cand[c].rule \in R
    BY DEF RulesOf
  <2> QED
    BY <1>1, <2>1, <2>2, <2>3 DEF Live
<1> QED
  BY <1>3, <1>4 DEF RulesMirrorPromotions

\* The demotion of candidates found by anything but a rule id.
LEMMA OwnDemoteMirrors ==
  ASSUME MirrorInv, RuleIdsAreDerived, NEW S, S \subseteq Cand, Retires(S, RulesOf(S))
  PROVE  RulesAreOwn' /\ RulesMirrorPromotions'
<1>1. ASSUME NEW c \in Cand, cand[c].status = "promoted", cand[c].rule \in RulesOf(S)
      PROVE  c \in S
  <2>1. PICK d \in S : Live(d) /\ cand[d].rule = cand[c].rule
    BY <1>1 DEF RulesOf
  <2> QED
    BY <1>1, <2>1, RulesAreApart DEF MirrorInv, Known, Live
<1> QED
  BY <1>1, DemoteMirrors

LEMMA ShadowWriteMirrors ==
  ASSUME MirrorInv, RuleIdsAreDerived, NEW c \in Cand, NEW r \in RuleIds[c],
         NEW expires \in Time, ShadowWrite(c, r, expires)
  PROVE  RulesAreOwn' /\ RulesMirrorPromotions'
<1>1. /\ cand'[c].rule = r
      /\ cand'[c].status = IF cand[c].status = "promoted" THEN "promoted" ELSE "shadow"
      /\ \A d \in Cand \ {c} : cand'[d] = cand[d]
  BY DEF ShadowWrite, MirrorInv, TInv, TypeOK, Candidate
<1>2. Known(c) => cand[c].rule = r
  BY DEF MirrorInv, RulesAreOwn, RuleIdsAreDerived
<1>3. RulesAreOwn'
  BY <1>1 DEF MirrorInv, RulesAreOwn, Known
<1>4. RulesMirrorPromotions'
  <2> SUFFICES ASSUME NEW d \in Cand
               PROVE  {s \in Rule : rules'[s].from = d} =
                        IF cand'[d].status = "promoted" THEN {cand'[d].rule} ELSE {}
    BY DEF RulesMirrorPromotions
  <2>1. {s \in Rule : rules[s].from = d} =
               IF cand[d].status = "promoted" THEN {cand[d].rule} ELSE {}
    BY DEF MirrorInv, RulesMirrorPromotions
  <2>2. rules' = rules
    BY DEF ShadowWrite
  <2> QED
    BY <1>1, <1>2, <2>1, <2>2 DEF Known
<1> QED
  BY <1>3, <1>4

LEMMA PromoteMirrors ==
  ASSUME MirrorInv, RuleIdsAreDerived, NEW c \in Cand, NEW at \in Time, Promote(c, at)
  PROVE  RulesAreOwn' /\ RulesMirrorPromotions'
<1>1. /\ cand'[c].rule = cand[c].rule /\ cand'[c].status = "promoted"
      /\ \A d \in Cand \ {c} : cand'[d] = cand[d]
  BY PromoteStores DEF MirrorInv
<1>2. Known(c) /\ cand[c].rule \in Rule
  BY DEF Promote, MirrorInv, TInv, EvaluationsAreStored
<1>3. \A r \in Rule : rules'[r].from = IF r = cand[c].rule THEN c ELSE rules[r].from
  BY <1>2 DEF Promote, MirrorInv, TInv, TypeOK
<1>4. RulesAreOwn'
  BY <1>1, <1>2 DEF MirrorInv, RulesAreOwn, Known
<1>5. ASSUME NEW d \in Cand
      PROVE  {r \in Rule : rules'[r].from = d} =
               IF cand'[d].status = "promoted" THEN {cand'[d].rule} ELSE {}
  <2>1. {r \in Rule : rules[r].from = d} =
               IF cand[d].status = "promoted" THEN {cand[d].rule} ELSE {}
    BY DEF MirrorInv, RulesMirrorPromotions
  <2>2. CASE d = c
    BY <1>1, <1>2, <1>3, <2>1, <2>2
  <2>3. CASE d # c
    <3>1. cand[d].status = "promoted" => cand[d].rule # cand[c].rule
      BY <1>2, <2>3, RulesAreApart DEF MirrorInv, Known
    <3> QED
      BY <1>1, <1>3, <2>1, <2>3, <3>1
  <2> QED
    BY <2>2, <2>3
<1> QED
  BY <1>4, <1>5 DEF RulesMirrorPromotions

\* An operator promotes any known candidates; of each rule id, one leaves its rule.
LEMMA OverrideMirrors ==
  ASSUME MirrorInv, RuleIdsAreDerived, NEW cs, NEW rs, OverridePromote(cs, rs)
  PROVE  RulesAreOwn' /\ RulesMirrorPromotions'
<1> DEFINE S == Targets(cs, rs)
<1>1. PICK last \in [{cand[c].rule : c \in S} -> S] :
        /\ \A r \in DOMAIN last : cand[last[r]].rule = r
        /\ rules' = [r \in Rule |->
             IF r \in DOMAIN last
             THEN [from |-> last[r], eval |-> cand[last[r]].latest]
             ELSE rules[r]]
  BY DEF OverridePromote
<1>2. S \subseteq Cand /\ \A c \in S : Known(c)
  BY DEF Targets
<1>3. \A c \in Cand :
        /\ cand'[c].rule = cand[c].rule
        /\ cand'[c].status = IF c \in S THEN "promoted" ELSE cand[c].status
  BY DEF OverridePromote, MirrorInv, TInv, TypeOK, Candidate
<1> HIDE DEF S
<1>4. \A c \in S : cand[c].rule \in Rule /\ last[cand[c].rule] = c
  BY <1>1, <1>2, RulesAreApart DEF MirrorInv, TInv, EvaluationsAreStored
<1>5. RulesAreOwn'
  BY <1>2, <1>3 DEF MirrorInv, RulesAreOwn, Known
<1>6. ASSUME NEW d \in Cand
      PROVE  {r \in Rule : rules'[r].from = d} =
               IF cand'[d].status = "promoted" THEN {cand'[d].rule} ELSE {}
  <2>1. {r \in Rule : rules[r].from = d} =
               IF cand[d].status = "promoted" THEN {cand[d].rule} ELSE {}
    BY DEF MirrorInv, RulesMirrorPromotions
  <2>2. \A r \in Rule :
          rules'[r].from = IF \E c \in S : cand[c].rule = r THEN last[r] ELSE rules[r].from
    BY <1>1
  <2>3. CASE d \in S
    <3>1. \A r \in Rule : rules'[r].from = d <=> r = cand[d].rule
      <4> SUFFICES ASSUME NEW r \in Rule PROVE rules'[r].from = d <=> r = cand[d].rule
        OBVIOUS
      <4>1. CASE \E c \in S : cand[c].rule = r
        BY <1>4, <2>2, <2>3, <4>1
      <4>2. CASE ~ \E c \in S : cand[c].rule = r
        BY <2>1, <2>2, <2>3, <4>2
      <4> QED
        BY <4>1, <4>2
    <3> QED
      BY <1>3, <1>4, <2>3, <3>1
  <2>4. CASE d \notin S
    <3>1. ASSUME NEW r \in Rule, NEW c \in S, cand[c].rule = r
          PROVE  rules'[r].from # d /\ (cand[d].status = "promoted" => cand[d].rule # r)
      BY <1>2, <1>4, <2>2, <2>4, <3>1, RulesAreApart DEF MirrorInv, Known
    <3>2. \A r \in Rule : rules'[r].from = d <=> rules[r].from = d
      BY <2>1, <2>2, <3>1
    <3> QED
      BY <1>3, <2>1, <2>4, <3>2
  <2> QED
    BY <2>3, <2>4
<1> QED
  BY <1>5, <1>6 DEF RulesMirrorPromotions

\* An evaluation demotes its candidate, or changes no status and no rule.
LEMMA ReplayEvalMirrors ==
  ASSUME MirrorInv, RuleIdsAreDerived, NEW c \in Cand, NEW e \in EvalIds[c],
         NEW ev \in Evaluations(c, e), ReplayEval(c, e, ev)
  PROVE  RulesAreOwn' /\ RulesMirrorPromotions'
<1> DEFINE evaluated == [cand EXCEPT ![c].latest = e, ![c].value = ev.value,
                           ![c].verdict = IF ev.pass THEN "pass" ELSE "fail",
                           ![c].streak = Streak(c, ev, Outcome(e, ev))]
<1>1. \/ cand' = Demoted(evaluated, {c}) /\ rules' = RulesWithout(RulesOf({c}))
      \/ cand' = evaluated /\ rules' = rules
  BY DEF ReplayEval
<1>2. \A d \in Cand : evaluated[d].rule = cand[d].rule /\ evaluated[d].status = cand[d].status
  BY DEF MirrorInv, TInv, TypeOK, Candidate
<1>3. DOMAIN evaluated = Cand
  BY DEF MirrorInv, TInv, TypeOK
<1> HIDE DEF evaluated
<1>4. CASE cand' = evaluated /\ rules' = rules
  BY <1>2, <1>4 DEF MirrorInv, RulesAreOwn, RulesMirrorPromotions, Known
<1>5. CASE cand' = Demoted(evaluated, {c}) /\ rules' = RulesWithout(RulesOf({c}))
  <2>1. \A d \in Cand :
          /\ cand'[d].rule = cand[d].rule
          /\ cand'[d].status = IF d = c /\ Live(d) THEN "demoted" ELSE cand[d].status
    BY <1>2, <1>5 DEF Demoted
  <2> QED
    BY <1>5, <2>1, OwnDemoteMirrors DEF Retires
<1> QED
  BY <1>1, <1>4, <1>5

LEMMA CurateMirrors ==
  ASSUME MirrorInv, RuleIdsAreDerived, NEW r \in CuratedRules, Curate(r)
  PROVE  RulesAreOwn' /\ RulesMirrorPromotions'
<1>1. \A c \in Cand : cand[c].status = "promoted" => cand[c].rule # r
  BY DEF MirrorInv, RulesAreOwn, RuleIdsAreDerived, Known
<1>2. cand' = cand /\ \A s \in Rule : rules'[s].from = IF s = r THEN Curated ELSE rules[s].from
  BY DEF Curate, MirrorInv, TInv, TypeOK
<1>3. RulesAreOwn'
  BY <1>2 DEF MirrorInv, RulesAreOwn, Known
<1>4. ASSUME NEW c \in Cand
      PROVE  {s \in Rule : rules'[s].from = c} =
               IF cand'[c].status = "promoted" THEN {cand'[c].rule} ELSE {}
  <2>1. {s \in Rule : rules[s].from = c} =
               IF cand[c].status = "promoted" THEN {cand[c].rule} ELSE {}
    BY DEF MirrorInv, RulesMirrorPromotions
  <2> QED
    BY <1>1, <1>2, <2>1, NullAssumption
<1> QED
  BY <1>3, <1>4 DEF RulesMirrorPromotions

LEMMA MirrorStep ==
  ASSUME MirrorInv, RuleIdsAreDerived, [Next]_vars
  PROVE  MirrorInv'
<1> DEFINE Goal == RulesAreOwn' /\ RulesMirrorPromotions'
<1>1. SUFFICES Goal
  BY TypeStep DEF MirrorInv
<1>2. CASE CandidateRequest
  <2>1. ASSUME NEW c \in Cand, NEW force, NEW threshold, Demote(c, force, threshold)
        PROVE  Goal
    BY <2>1, OwnDemoteMirrors, DemoteRetires DEF Demote, DemoteStep, MirrorInv
  <2> QED
    BY <1>2, <2>1, ShadowWriteMirrors, PromoteMirrors DEF CandidateRequest
<1>3. CASE EvaluationRequest
  BY <1>3, ReplayEvalMirrors DEF EvaluationRequest
<1>4. CASE ControlRequest
  <2>1. ASSUME NEW cs, NEW rs, Quarantine(cs, rs) PROVE Goal
    <3> DEFINE S == Targets(cs, rs)
    <3>1. S \subseteq Cand
      BY DEF Targets
    <3>2. DemoteStep(S, RulesOf(S) \cup rs)
      BY <2>1 DEF Quarantine, DemoteStep
    <3>3. \A c \in Cand : cand[c].status = "promoted" /\ cand[c].rule \in rs => c \in S
      BY DEF Targets, Known
    <3>4. \A c \in Cand : cand[c].status = "promoted" /\ cand[c].rule \in RulesOf(S) => c \in S
      BY <3>1, RulesAreApart DEF MirrorInv, RulesOf, Known, Live
    <3> HIDE DEF S
    <3> QED
      BY <3>1, <3>2, <3>3, <3>4, DemoteMirrors, DemoteRetires DEF MirrorInv
  <2> QED
    BY <1>4, <2>1, OverrideMirrors DEF ControlRequest
<1>5. ASSUME NEW f \in Feedback, HarmfulFeedback(f) PROVE Goal
  <2>1. PICK S : S \subseteq Cand /\ DemoteStep(S, RulesOf(S))
    BY <1>5 DEF HarmfulFeedback, DemoteStep, Targets
  <2> QED
    BY <2>1, OwnDemoteMirrors, DemoteRetires DEF MirrorInv
<1>6. ASSUME NEW at \in Time, TemporalTick(at) PROVE Goal
  <2>1. PICK S : S \subseteq Cand /\ DemoteStep(S, RulesOf(S))
    BY <1>6 DEF TemporalTick, DemoteStep
  <2> QED
    BY <2>1, OwnDemoteMirrors, DemoteRetires DEF MirrorInv
<1>7. CASE UNCHANGED vars
  BY <1>7 DEF vars, MirrorInv, RulesAreOwn, RulesMirrorPromotions, Known
<1> QED
  BY <1>2, <1>3, <1>4, <1>5, <1>6, <1>7, CurateMirrors DEF Next

\* With derived ids, retrieval serves exactly the promoted candidates, each by its
\* own rule, after any sequence of requests.
THEOREM RulesMirrorHolds == RuleIdsAreDerived => (Spec => []RulesMirrorPromotions)
<1> SUFFICES ASSUME RuleIdsAreDerived PROVE Spec => []RulesMirrorPromotions
  OBVIOUS
<1>1. Init => MirrorInv
  BY TypeInit, NullAssumption
  DEF Init, MirrorInv, RulesAreOwn, RulesMirrorPromotions, Known, NoActiveRule
<1>2. MirrorInv /\ [Next]_vars => MirrorInv'
  BY MirrorStep
<1>3. MirrorInv => RulesMirrorPromotions
  BY DEF MirrorInv
<1> QED
  BY <1>1, <1>2, <1>3, PTL DEF Spec

-----------------------------------------------------------------------------
(* The streaks are right                                                   *)

\* With derived ids an evaluation belongs to the candidate whose id it has, and so
\* does the latest of a candidate; in order, it is the last of its evaluations.
EvaluationsAreOwn ==
  \A c \in Cand : \A e \in EvalsOf(evals, c) :
    /\ e \in EvalIds[c]
    /\ DefaultGate /\ evals[e].pass => evals[e].value > 0
LatestIsOwn ==
  \A c \in Cand : cand[c].latest # NoEval => evals[cand[c].latest].of = c
LatestIsLast ==
  \A c \in Cand : \A d \in EvalsOf(evals, c) \ {cand[c].latest} :
    /\ cand[c].latest # NoEval
    /\ evals[d].at < evals[cand[c].latest].at
OwnInv == TInv /\ EvaluationsAreOwn /\ LatestIsOwn
StreakInv == OwnInv /\ LatestIsLast /\ StreakIsTrailing

\* What an evaluation stores.
LEMMA ReplayEvalStores ==
  ASSUME TInv, NEW c \in Cand, NEW e \in EvalIds[c], NEW ev \in Evaluations(c, e),
         ReplayEval(c, e, ev)
  PROVE  /\ e \in Eval /\ ev \in Evaluation /\ ev.of = c
         /\ evals' = [evals EXCEPT ![e] = ev]
         /\ cand'[c].latest = e /\ cand'[c].streak = Streak(c, ev, Outcome(e, ev))
         /\ cand'[c].status \in {cand[c].status, "demoted"}
         /\ cand'[c].status = "promoted" =>
              Outcome(e, ev) = "noop" \/ ~(cand'[c].streak >= DemotionStreak)
         /\ \A d \in Cand \ {c} : cand'[d] = cand[d]
<1> DEFINE streak == Streak(c, ev, Outcome(e, ev))
           verdict == IF ev.pass THEN "pass" ELSE "fail"
           now == [cand[c] EXCEPT !.latest = e, !.value = ev.value, !.verdict = verdict,
                                  !.streak = streak]
           evaluated == [cand EXCEPT ![c].latest = e, ![c].value = ev.value,
                                     ![c].verdict = verdict, ![c].streak = streak]
<1>1. e \in Eval /\ ev \in Evaluation /\ ev.of = c /\ evals' = [evals EXCEPT ![e] = ev]
  BY IdAssumption DEF Evaluations, ReplayEval
<1>2. IF Outcome(e, ev) # "noop" /\ streak >= DemotionStreak
      THEN cand' = Demoted(evaluated, {c}) ELSE cand' = evaluated
  BY DEF ReplayEval
<1>3. cand[c] \in Candidate /\ cand \in [Cand -> Candidate]
  BY DEF TInv, TypeOK
<1> HIDE DEF streak, verdict
<1>4. evaluated = [cand EXCEPT ![c] = now]
  BY <1>3
<1>5. now.latest = e /\ now.streak = streak /\ now.status = cand[c].status
  BY <1>3 DEF Candidate
<1>6. [now EXCEPT !.status = "demoted"].latest = e
      /\ [now EXCEPT !.status = "demoted"].streak = streak
      /\ [now EXCEPT !.status = "demoted"].status = "demoted"
  BY <1>3 DEF Candidate
<1> HIDE DEF now, evaluated
<1>7. CASE ~(Outcome(e, ev) # "noop" /\ streak >= DemotionStreak)
  BY <1>1, <1>2, <1>3, <1>4, <1>5, <1>7 DEF streak
<1>8. CASE Outcome(e, ev) # "noop" /\ streak >= DemotionStreak
  <2>1. cand' = [d \in Cand |-> IF d = c /\ Live(d) THEN [now EXCEPT !.status = "demoted"]
                                ELSE IF d = c THEN now ELSE cand[d]]
    BY <1>2, <1>3, <1>4, <1>8 DEF Demoted
  <2>2. ~Live(c) => cand[c].status # "promoted"
    BY DEF Live
  <2> QED
    BY <1>1, <1>5, <1>6, <2>1, <2>2 DEF streak
<1> QED
  BY <1>7, <1>8

\* An evaluation of one candidate is none of another's.
LEMMA OthersUntouched ==
  ASSUME OwnInv, EvalIdsAreDerived, NEW c \in Cand, NEW e \in EvalIds[c],
         NEW ev \in Evaluations(c, e), ReplayEval(c, e, ev), NEW d \in Cand, d # c
  PROVE  /\ EvalsOf(evals', d) = EvalsOf(evals, d)
         /\ e \notin EvalsOf(evals, d)
         /\ \A x \in EvalsOf(evals, d) : evals'[x] = evals[x]
         /\ TrailingNegatives(evals', d) = TrailingNegatives(evals, d)
<1>1. e \notin EvalsOf(evals, d)
  BY DEF OwnInv, EvaluationsAreOwn, EvalIdsAreDerived
<1>2. /\ \A x \in Eval : x # e => evals'[x] = evals[x]
      /\ evals'[e].of = c
  BY ReplayEvalStores DEF OwnInv, TInv, TypeOK
<1>3. EvalsOf(evals', d) = EvalsOf(evals, d)
  BY <1>1, <1>2 DEF EvalsOf
<1>4. \A x \in EvalsOf(evals, d) : evals'[x] = evals[x]
  BY <1>1, <1>2 DEF EvalsOf
<1>5. TrailingNegatives(evals', d) = TrailingNegatives(evals, d)
  <2>1. \A x, y \in EvalsOf(evals, d) : Before(evals', x, y) <=> Before(evals, x, y)
    BY <1>4 DEF Before
  <2>2. {x \in EvalsOf(evals', d) :
           \A y \in EvalsOf(evals', d) : Before(evals', y, x) \/ evals'[y].value < 0}
          = {x \in EvalsOf(evals, d) :
               \A y \in EvalsOf(evals, d) : Before(evals, y, x) \/ evals[y].value < 0}
    BY <1>3, <1>4, <2>1
  <2> QED
    BY <2>2 DEF TrailingNegatives
<1> QED
  BY <1>1, <1>3, <1>4, <1>5

\* An evaluation later than all others of its candidate extends the streak or ends
\* it.
LEMMA LaterEvaluation ==
  ASSUME NEW c \in Cand, NEW es \in [Eval -> Evaluation \cup {NoEvaluation}],
         IsFiniteSet(EvalsOf(es, c)),
         NEW e \in Eval, es[e] = NoEvaluation, NEW ev \in Evaluation, ev.of = c,
         \A d \in EvalsOf(es, c) : es[d].at < ev.at
  PROVE  TrailingNegatives([es EXCEPT ![e] = ev], c) =
           IF ev.value < 0 THEN TrailingNegatives(es, c) + 1 ELSE 0
<1> DEFINE fs == [es EXCEPT ![e] = ev]
           E == EvalsOf(es, c)
           T == {x \in E : \A d \in E : Before(es, d, x) \/ es[d].value < 0}
           F == EvalsOf(fs, c)
           U == {x \in F : \A d \in F : Before(fs, d, x) \/ fs[d].value < 0}
<1>1. e \notin E /\ F = E \cup {e} /\ fs[e] = ev /\ \A x \in E : fs[x] = es[x]
  BY NullAssumption DEF EvalsOf, NoEvaluation
<1> HIDE DEF fs
<1>2. \A x \in E : es[x].at \in Int /\ es[x].at < ev.at /\ ev.at \in Int
  <2>1. \A x \in E : es[x] \in Evaluation
    BY NullAssumption DEF EvalsOf, NoEvaluation
  <2>2. \A v \in Evaluation : v.at \in Int
    <3>1. \A t \in Time : t \in Int
      BY IdAssumption
    <3> QED
      BY <3>1 DEF Evaluation
  <2> QED
    BY <2>1, <2>2
<1>3. /\ \A x, d \in E : Before(fs, d, x) <=> Before(es, d, x)
      /\ \A x \in E : Before(fs, x, e) /\ ~Before(fs, e, x)
      /\ ~Before(fs, e, e)
  <2>1. \A x, d \in E : Before(fs, d, x) <=> Before(es, d, x)
    BY <1>1 DEF Before
  <2>2. \A x \in E : Before(fs, x, e)
    BY <1>1, <1>2 DEF Before
  <2>3. ASSUME NEW x \in E PROVE ~Before(fs, e, x)
    <3>1. es[x].at \in Int /\ es[x].at < ev.at /\ ev.at \in Int /\ fs[x].at = es[x].at /\ fs[e].at = ev.at
      BY <1>1, <1>2
    <3> QED
      BY <3>1 DEF Before
  <2>4. ~Before(fs, e, e)
    <3>1. ev.at \in Int /\ e \in Int
      <4>1. ev.at \in Time
        BY DEF Evaluation
      <4>2. (\A t \in Time : t \in Int) /\ (\A x \in Eval : x \in Int)
        BY IdAssumption
      <4> QED
        BY <4>1, <4>2
    <3> QED
      BY <1>1, <3>1 DEF Before
  <2> QED
    BY <2>1, <2>2, <2>3, <2>4
<1> HIDE DEF E, F
<1>4. CASE ev.value < 0
  <2>1. U = T \cup {e}
    BY <1>1, <1>3, <1>4
  <2>2. IsFiniteSet(T) /\ e \notin T
    BY <1>1, FS_Subset DEF E
  <2>3. Cardinality(U) = Cardinality(T) + 1
    <3> HIDE DEF T, U
    <3> QED
      BY <2>1, <2>2, FS_AddElement
  <2> QED
    BY <1>4, <2>3 DEF TrailingNegatives, E, F, fs
<1>5. CASE ~(ev.value < 0)
  <2>1. U = {}
    BY <1>1, <1>3, <1>5
  <2>2. Cardinality(U) = 0
    <3> HIDE DEF U
    <3> QED
      BY <2>1, FS_EmptySet
  <2> QED
    BY <1>5, <2>2 DEF TrailingNegatives, F, fs
<1> QED
  BY <1>4, <1>5

LEMMA ReplayEvalOwn ==
  ASSUME OwnInv, EvalIdsAreDerived, NEW c \in Cand, NEW e \in EvalIds[c],
         NEW ev \in Evaluations(c, e), ReplayEval(c, e, ev)
  PROVE  EvaluationsAreOwn' /\ LatestIsOwn'
<1> DEFINE old == EvalsOf(evals, c)
<1>1. /\ e \in Eval /\ ev \in Evaluation /\ ev.of = c
      /\ evals' = [evals EXCEPT ![e] = ev]
      /\ cand'[c].latest = e
      /\ \A d \in Cand \ {c} : cand'[d] = cand[d]
  BY ReplayEvalStores DEF OwnInv
<1>2. /\ \A x \in Eval : evals'[x] = IF x = e THEN ev ELSE evals[x]
      /\ evals \in [Eval -> Evaluation \cup {NoEvaluation}]
  BY <1>1 DEF OwnInv, TInv, TypeOK
<1>3. DefaultGate => (ev.pass => ev.value > 0)
  BY DEF Evaluations
<1>4. EvalsOf(evals', c) = old \cup {e}
  BY <1>1, <1>2 DEF EvalsOf
<1>5. ASSUME NEW d \in Cand, d # c
      PROVE  /\ EvalsOf(evals', d) = EvalsOf(evals, d)
             /\ \A x \in EvalsOf(evals, d) : evals'[x] = evals[x]
  BY <1>5, OthersUntouched
<1>6. EvaluationsAreOwn'
  <2> SUFFICES ASSUME NEW d \in Cand, NEW x \in EvalsOf(evals', d)
               PROVE  x \in EvalIds[d] /\ (DefaultGate /\ evals'[x].pass => evals'[x].value > 0)
    BY DEF EvaluationsAreOwn
  <2>1. CASE d = c
    BY <1>2, <1>3, <1>4, <2>1 DEF OwnInv, EvaluationsAreOwn, EvalsOf
  <2>2. CASE d # c
    BY <1>5, <2>2 DEF OwnInv, EvaluationsAreOwn
  <2> QED
    BY <2>1, <2>2
<1>7. LatestIsOwn'
  <2> SUFFICES ASSUME NEW d \in Cand, cand'[d].latest # NoEval
               PROVE  evals'[cand'[d].latest].of = d
    BY DEF LatestIsOwn
  <2>1. CASE d = c
    BY <1>1, <1>2, <2>1
  <2>2. CASE d # c
    <3>1. cand'[d].latest = cand[d].latest /\ cand[d].latest \in Eval \cup {NoEval}
      BY <1>1, <2>2 DEF OwnInv, TInv, TypeOK, Candidate
    <3>2. cand[d].latest \in EvalsOf(evals, d)
      BY <3>1 DEF OwnInv, LatestIsOwn, EvalsOf
    <3> QED
      BY <1>5, <2>2, <3>1, <3>2 DEF OwnInv, LatestIsOwn
  <2> QED
    BY <2>1, <2>2
<1> QED
  BY <1>6, <1>7

LEMMA ReplayEvalStreak ==
  ASSUME StreakInv, EvalIdsAreDerived, InOrder, NEW c \in Cand, NEW e \in EvalIds[c],
         NEW ev \in Evaluations(c, e), ReplayEval(c, e, ev)
  PROVE  LatestIsLast' /\ StreakIsTrailing'
<1> DEFINE old == EvalsOf(evals, c)
<1>1. /\ e \in Eval /\ ev \in Evaluation /\ ev.of = c
      /\ evals' = [evals EXCEPT ![e] = ev]
      /\ cand'[c].latest = e /\ cand'[c].streak = Streak(c, ev, Outcome(e, ev))
      /\ \A d \in Cand \ {c} : cand'[d] = cand[d]
  BY ReplayEvalStores DEF StreakInv, OwnInv
<1>2. /\ \A x \in Eval : evals'[x] = IF x = e THEN ev ELSE evals[x]
      /\ evals \in [Eval -> Evaluation \cup {NoEvaluation}]
  BY <1>1 DEF StreakInv, OwnInv, TInv, TypeOK
<1>3. \A d \in old \ {e} : evals[d].at < ev.at
  BY DEF Evaluations
<1>4. EvalsOf(evals', c) = old \cup {e}
  BY <1>1, <1>2 DEF EvalsOf
<1>5. ASSUME NEW d \in Cand, d # c
      PROVE  /\ EvalsOf(evals', d) = EvalsOf(evals, d)
             /\ \A x \in EvalsOf(evals, d) : evals'[x] = evals[x]
             /\ TrailingNegatives(evals', d) = TrailingNegatives(evals, d)
  BY <1>5, OthersUntouched DEF StreakInv
<1>6. e # NoEval
  BY <1>1, NullAssumption
<1>7. LatestIsLast'
  <2> SUFFICES ASSUME NEW d \in Cand, NEW x \in EvalsOf(evals', d), x # cand'[d].latest
               PROVE  /\ cand'[d].latest # NoEval
                      /\ evals'[x].at < evals'[cand'[d].latest].at
    BY DEF LatestIsLast
  <2>1. CASE d = c
    BY <1>1, <1>2, <1>3, <1>4, <1>6, <2>1 DEF EvalsOf
  <2>2. CASE d # c
    <3>1. cand'[d].latest = cand[d].latest /\ cand[d].latest \in Eval \cup {NoEval}
      BY <1>1, <2>2 DEF StreakInv, OwnInv, TInv, TypeOK, Candidate
    <3>2. cand[d].latest # NoEval => cand[d].latest \in EvalsOf(evals, d)
      BY <3>1 DEF StreakInv, OwnInv, LatestIsOwn, EvalsOf
    <3> QED
      BY <1>5, <2>2, <3>1, <3>2 DEF StreakInv, LatestIsLast
  <2> QED
    BY <2>1, <2>2
<1>8. StreakIsTrailing'
  <2> SUFFICES ASSUME NEW d \in Cand PROVE cand'[d].streak = TrailingNegatives(evals', d)
    BY DEF StreakIsTrailing
  <2>1. cand[d].streak = TrailingNegatives(evals, d)
    BY DEF StreakInv, StreakIsTrailing
  <2>2. CASE d # c
    BY <1>1, <1>5, <2>1, <2>2
  <2>3. CASE d = c /\ evals[e] = NoEvaluation
    <3>1. cand'[c].streak = IF ev.value < 0 THEN cand[c].streak + 1 ELSE 0
      <4>1. evals[e] # ev
        BY <1>1, <2>3, NullAssumption DEF NoEvaluation
      <4>2. Outcome(e, ev) = "created"
        BY <2>3, <4>1 DEF Outcome
      <4> QED
        BY <1>1, <4>2 DEF Streak
    <3>2. e \notin old
      BY <2>3, NullAssumption DEF EvalsOf, NoEvaluation
    <3>3. IsFiniteSet(EvalsOf(evals, c)) /\ \A x \in EvalsOf(evals, c) : evals[x].at < ev.at
      BY <1>3, <3>2 DEF StreakInv, OwnInv, TInv, EvaluationsAreStored
    <3>4. TrailingNegatives(evals', c) =
            IF ev.value < 0 THEN TrailingNegatives(evals, c) + 1 ELSE 0
      <4>1. /\ evals \in [Eval -> Evaluation \cup {NoEvaluation}]
            /\ IsFiniteSet(EvalsOf(evals, c)) /\ evals[e] = NoEvaluation
            /\ \A x \in EvalsOf(evals, c) : evals[x].at < ev.at
            /\ e \in Eval /\ ev \in Evaluation /\ ev.of = c
        BY <1>1, <1>2, <2>3, <3>3
      <4>2. TrailingNegatives([evals EXCEPT ![e] = ev], c) =
              IF ev.value < 0 THEN TrailingNegatives(evals, c) + 1 ELSE 0
        BY <4>1, LaterEvaluation
      <4> QED
        BY <1>1, <4>2
    <3> QED
      BY <2>1, <2>3, <3>1, <3>4
  <2>4. CASE d = c /\ evals[e] # NoEvaluation /\ evals[e] = ev
    <3>1. evals' = evals /\ cand'[c].streak = cand[c].streak
      BY <1>1, <1>2, <2>4 DEF Outcome, Streak
    <3> QED
      BY <2>1, <2>4, <3>1
  <2>5. CASE d = c /\ evals[e] # NoEvaluation /\ evals[e] # ev
    BY <1>1, <2>5 DEF Outcome, Streak
  <2> QED
    BY <2>2, <2>3, <2>4, <2>5
<1> QED
  BY <1>7, <1>8

\* No other request touches an evaluation, or what a candidate knows of its own.
SameEvaluations ==
  /\ evals' = evals
  /\ \A c \in Cand : cand'[c].latest = cand[c].latest /\ cand'[c].streak = cand[c].streak

LEMMA DemoteKeepsEvaluations ==
  ASSUME TInv, NEW S, NEW R, DemoteStep(S, R)
  PROVE  /\ SameEvaluations
         /\ \A c \in Cand : cand'[c].status = "promoted" => cand[c].status = "promoted"
BY DEF DemoteStep, SameEvaluations, Demoted, TInv, TypeOK, Candidate

LEMMA ShadowWriteKeepsEvaluations ==
  ASSUME TInv, NEW c \in Cand, NEW r \in RuleIds[c], NEW expires \in Time,
         ShadowWrite(c, r, expires)
  PROVE  /\ SameEvaluations
         /\ \A d \in Cand : cand'[d].status = "promoted" => cand[d].status = "promoted"
<1> DEFINE now == [cand[c] EXCEPT !.rule = r, !.expires = expires,
                     !.status = IF @ = "promoted" THEN @ ELSE "shadow"]
<1>1. /\ now.latest = cand[c].latest /\ now.streak = cand[c].streak
      /\ now.status = "promoted" => cand[c].status = "promoted"
  BY DEF TInv, TypeOK, Candidate
<1>2. cand' = [cand EXCEPT ![c] = now] /\ evals' = evals
  BY DEF ShadowWrite, TInv, TypeOK
<1> HIDE DEF now
<1> QED
  BY <1>1, <1>2 DEF SameEvaluations, TInv, TypeOK

\* Every step is an evaluation, a promotion, an operator's override, or promotes no
\* candidate and leaves the evaluations as they are.
LEMMA StepKinds ==
  ASSUME TInv, [Next]_vars
  PROVE  \/ EvaluationRequest
         \/ \E c \in Cand, at \in Time : Promote(c, at)
         \/ Overridden
         \/ /\ SameEvaluations
            /\ \A c \in Cand : cand'[c].status = "promoted" => cand[c].status = "promoted"
<1> DEFINE Quiet == /\ SameEvaluations
                    /\ \A c \in Cand : cand'[c].status = "promoted" => cand[c].status = "promoted"
<1>1. CASE CandidateRequest
  <2>1. ASSUME NEW c, NEW force, NEW threshold, Demote(c, force, threshold) PROVE Quiet
    BY <2>1, DemoteKeepsEvaluations DEF Demote, DemoteStep
  <2> QED
    BY <1>1, <2>1, ShadowWriteKeepsEvaluations DEF CandidateRequest
<1>2. CASE ControlRequest
  <2>1. ASSUME NEW cs, NEW rs, Quarantine(cs, rs) PROVE Quiet
    BY <2>1, DemoteKeepsEvaluations DEF Quarantine, DemoteStep
  <2> QED
    BY <1>2, <2>1 DEF ControlRequest, Overridden
<1>3. ASSUME NEW f \in Feedback, HarmfulFeedback(f) PROVE Quiet
  BY <1>3, DemoteKeepsEvaluations DEF HarmfulFeedback, DemoteStep
<1>4. ASSUME NEW at \in Time, TemporalTick(at) PROVE Quiet
  BY <1>4, DemoteKeepsEvaluations DEF TemporalTick, DemoteStep
<1>5. ASSUME NEW r \in CuratedRules, Curate(r) PROVE Quiet
  BY <1>5 DEF Curate, SameEvaluations
<1>6. CASE UNCHANGED vars
  BY <1>6 DEF vars, SameEvaluations
<1> QED
  BY <1>1, <1>2, <1>3, <1>4, <1>5, <1>6 DEF Next

LEMMA OverrideKeepsEvaluations == ASSUME TInv, Overridden PROVE SameEvaluations
BY DEF Overridden, OverridePromote, SameEvaluations, TInv, TypeOK, Candidate

LEMMA PromoteKeepsEvaluations ==
  ASSUME TInv, NEW c \in Cand, NEW at \in Time, Promote(c, at)
  PROVE  SameEvaluations
BY PromoteStores DEF Promote, SameEvaluations

LEMMA OwnStep ==
  ASSUME OwnInv, EvalIdsAreDerived, [Next]_vars
  PROVE  OwnInv'
<1>1. CASE EvaluationRequest
  BY <1>1, TypeStep, ReplayEvalOwn DEF EvaluationRequest, OwnInv
<1>2. CASE SameEvaluations
  BY <1>2, TypeStep DEF SameEvaluations, OwnInv, EvaluationsAreOwn, LatestIsOwn, EvalsOf
<1> QED
  BY <1>1, <1>2, StepKinds, OverrideKeepsEvaluations, PromoteKeepsEvaluations DEF OwnInv

LEMMA StreakStep ==
  ASSUME StreakInv, EvalIdsAreDerived, InOrder, [Next]_vars
  PROVE  StreakInv'
<1>1. OwnInv'
  BY OwnStep DEF StreakInv
<1>2. CASE EvaluationRequest
  BY <1>1, <1>2, ReplayEvalStreak DEF EvaluationRequest, StreakInv
<1>3. CASE SameEvaluations
  BY <1>1, <1>3 DEF SameEvaluations, StreakInv, LatestIsLast, StreakIsTrailing
<1> QED
  BY <1>2, <1>3, StepKinds, OverrideKeepsEvaluations, PromoteKeepsEvaluations
  DEF StreakInv, OwnInv

LEMMA StreakInit == Init => StreakInv
<1> SUFFICES ASSUME Init PROVE StreakInv
  OBVIOUS
<1>1. ASSUME NEW c \in Cand PROVE EvalsOf(evals, c) = {}
  BY <1>1, NullAssumption DEF Init, EvalsOf, NoEvaluation
<1>2. ASSUME NEW c \in Cand PROVE TrailingNegatives(evals, c) = 0
  BY <1>1, <1>2, FS_EmptySet DEF TrailingNegatives
<1>3. \A c \in Cand : cand[c].latest = NoEval /\ cand[c].streak = 0
  BY DEF Init
<1> QED
  BY <1>1, <1>2, <1>3, TypeInit
  DEF StreakInv, OwnInv, EvaluationsAreOwn, LatestIsOwn, LatestIsLast, StreakIsTrailing

\* With derived ids and evaluations in order, the streak kept step by step is the
\* number of trailing negative evaluations, however evaluations are repeated and
\* corrected.
THEOREM StreaksHold == EvalIdsAreDerived /\ InOrder => (Spec => []StreakIsTrailing)
<1> SUFFICES ASSUME EvalIdsAreDerived, InOrder PROVE Spec => []StreakIsTrailing
  OBVIOUS
<1>1. StreakInv /\ [Next]_vars => StreakInv'
  BY StreakStep
<1>2. StreakInv => StreakIsTrailing
  BY DEF StreakInv
<1> QED
  BY <1>1, <1>2, StreakInit, PTL DEF Spec

-----------------------------------------------------------------------------
(* What guards a promotion                                                 *)

\* With derived ids, only a passing evaluation of its own, the latest it knows,
\* lets a candidate be promoted without an operator's override.
THEOREM PromotionsAreEarned == EvalIdsAreDerived => (Spec => PromotionEarned)
<1> SUFFICES ASSUME EvalIdsAreDerived PROVE Spec => PromotionEarned
  OBVIOUS
<1> DEFINE Earned ==
      \A c \in Cand :
        cand'[c].status = "promoted" /\ cand[c].status # "promoted" =>
          \/ Overridden
          \/ \E e \in EvalsOf(evals, c) : e = cand[c].latest /\ evals[e].pass
<1>1. OwnInv /\ [Next]_vars => OwnInv'
  BY OwnStep
<1>2. OwnInv /\ [Next]_vars => Earned
  <2> SUFFICES ASSUME OwnInv, [Next]_vars, NEW c \in Cand,
                      cand'[c].status = "promoted", cand[c].status # "promoted", ~Overridden
               PROVE  \E e \in EvalsOf(evals, c) : e = cand[c].latest /\ evals[e].pass
    OBVIOUS
  <2>1. ~EvaluationRequest
    BY ReplayEvalStores DEF EvaluationRequest, OwnInv
  <2>2. PICK d \in Cand, at \in Time : Promote(d, at)
    BY <2>1, StepKinds DEF OwnInv
  <2>3. d = c /\ cand[d].latest \in Eval
    BY <2>2, PromoteStores DEF OwnInv
  <2> QED
    BY <2>2, <2>3 DEF Promote, Gate, OwnInv, LatestIsOwn, EvalsOf
<1>3. Init => OwnInv
  BY StreakInit DEF StreakInv
<1> QED
  BY <1>1, <1>2, <1>3, PTL DEF PromotionEarned, Spec

\* An evaluation that passes the gate with the default threshold, and is the last,
\* ends the streak.
LEMMA PassingEndsTheStreak ==
  ASSUME StreakInv, DefaultGate, NEW c \in Cand, cand[c].latest \in Eval,
         evals[cand[c].latest].pass
  PROVE  cand[c].streak = 0
<1> DEFINE l == cand[c].latest
           E == EvalsOf(evals, c)
<1>1. l \in E
  BY NullAssumption DEF StreakInv, OwnInv, LatestIsOwn, EvalsOf
<1>2. \A e \in E : evals[e].at \in Int /\ e \in Int /\ evals[e].value \in Int
  <2>1. \A e \in E : evals[e] \in Evaluation
    BY NullAssumption DEF EvalsOf, NoEvaluation, StreakInv, OwnInv, TInv, TypeOK
  <2>2. (\A t \in Time : t \in Int) /\ (\A x \in Eval : x \in Int)
    BY IdAssumption
  <2> QED
    BY <2>1, <2>2 DEF Evaluation, Value, EvalsOf
<1>3. evals[l].value > 0
  BY <1>1 DEF StreakInv, OwnInv, EvaluationsAreOwn
<1>4. \A e \in E : e # l => evals[e].at < evals[l].at
  BY DEF StreakInv, LatestIsLast
<1> HIDE DEF l, E
<1>5. \A e \in E : ~Before(evals, l, e)
  BY <1>1, <1>2, <1>4 DEF Before
<1>6. {e \in E : \A d \in E : Before(evals, d, e) \/ evals[d].value < 0} = {}
  BY <1>1, <1>2, <1>3, <1>5
<1>7. TrailingNegatives(evals, c) = 0
  BY <1>6, FS_EmptySet DEF TrailingNegatives, E
<1> QED
  BY <1>7 DEF StreakInv, StreakIsTrailing

\* With derived ids, evaluations in order and the default gate, a sustained negative
\* value keeps a candidate out of service, or takes it out.
THEOREM SustainedNegativeIsDemoted ==
  EvalIdsAreDerived /\ InOrder /\ DefaultGate => (Spec => SustainedNegativeNotActive)
<1> SUFFICES ASSUME EvalIdsAreDerived, InOrder, DefaultGate
             PROVE  Spec => SustainedNegativeNotActive
  OBVIOUS
<1> DEFINE NotActive ==
      \A c \in Cand :
        cand'[c].status = "promoted" /\ cand'[c].streak >= DemotionStreak =>
          \/ Overridden
          \/ cand[c].status = "promoted" /\ cand[c].streak >= DemotionStreak
<1>1. StreakInv /\ [Next]_vars => StreakInv'
  BY StreakStep
<1>2. StreakInv /\ [Next]_vars => NotActive
  <2> SUFFICES ASSUME StreakInv, [Next]_vars, NEW c \in Cand, cand'[c].status = "promoted",
                      cand'[c].streak >= DemotionStreak, ~Overridden
               PROVE  cand[c].status = "promoted" /\ cand[c].streak >= DemotionStreak
    OBVIOUS
  <2>1. TInv
    BY DEF StreakInv, OwnInv
  <2>2. CASE EvaluationRequest
    <3>1. PICK d \in Cand :
            \E e \in EvalIds[d] : \E ev \in Evaluations(d, e) : ReplayEval(d, e, ev)
      BY <2>2 DEF EvaluationRequest
    <3>2. PICK e \in EvalIds[d] : \E ev \in Evaluations(d, e) : ReplayEval(d, e, ev)
      BY <3>1
    <3>3. PICK ev \in Evaluations(d, e) : ReplayEval(d, e, ev)
      BY <3>2
    <3>4. CASE d # c
      BY <2>1, <3>3, <3>4, ReplayEvalStores
    <3>5. CASE d = c
      <4>1. /\ cand[c].status = "promoted" /\ Outcome(e, ev) = "noop"
            /\ cand'[c].streak = Streak(c, ev, Outcome(e, ev))
        BY <2>1, <3>3, <3>5, ReplayEvalStores
      <4> QED
        BY <4>1 DEF Streak
    <3> QED
      BY <3>4, <3>5
  <2>3. ASSUME NEW d \in Cand, NEW at \in Time, Promote(d, at)
        PROVE  cand[c].status = "promoted" /\ cand[c].streak >= DemotionStreak
    <3>1. /\ d # c => cand'[c] = cand[c]
          /\ cand'[d].streak = cand[d].streak /\ cand[d].latest \in Eval
      BY <2>1, <2>3, PromoteStores
    <3>2. cand[d].streak = 0
      BY <2>3, <3>1, PassingEndsTheStreak DEF Promote, Gate
    <3> QED
      BY <3>1, <3>2, StreakAssumption
  <2> QED
    BY <2>1, <2>2, <2>3, StepKinds DEF SameEvaluations
<1> QED
  BY <1>1, <1>2, StreakInit, PTL DEF SustainedNegativeNotActive, Spec

-----------------------------------------------------------------------------
(* The first n of a finite set in a strict order R: what the bounded lists,  *)
(* the reviews, the suggestions and the exports are cut to.                  *)

IsOrder(R, S) ==
  /\ \A x \in S : <<x, x>> \notin R
  /\ \A x, y, z \in S : <<x, y>> \in R /\ <<y, z>> \in R => <<x, z>> \in R
  /\ \A x, y \in S : x # y => <<x, y>> \in R \/ <<y, x>> \in R
Ahead(R, S, x) == {y \in S : <<y, x>> \in R}
With(S, e) == S \cup {e}
FirstOf(R, S, n) == {x \in S : Cardinality(Ahead(R, S, x)) < n}

\* Of two members, the one that comes first has fewer ahead of it.
LEMMA FewerAhead ==
  ASSUME NEW S, NEW R, IsFiniteSet(S), IsOrder(R, S), NEW x \in S, NEW y \in S, <<x, y>> \in R
  PROVE  /\ Cardinality(Ahead(R, S, x)) \in Nat /\ Cardinality(Ahead(R, S, y)) \in Nat
         /\ Cardinality(Ahead(R, S, x)) < Cardinality(Ahead(R, S, y))
<1>1. IsFiniteSet(Ahead(R, S, x)) /\ IsFiniteSet(Ahead(R, S, y))
  BY FS_Subset DEF Ahead
<1>2. /\ x \in Ahead(R, S, y) /\ x \notin Ahead(R, S, x)
      /\ Ahead(R, S, x) \subseteq Ahead(R, S, y)
  BY DEF Ahead, IsOrder
<1>3. /\ Cardinality(Ahead(R, S, x)) <= Cardinality(Ahead(R, S, y))
      /\ Cardinality(Ahead(R, S, y)) = Cardinality(Ahead(R, S, x)) =>
           Ahead(R, S, y) = Ahead(R, S, x)
  BY <1>1, <1>2, FS_Subset
<1>4. Cardinality(Ahead(R, S, x)) \in Nat /\ Cardinality(Ahead(R, S, y)) \in Nat
  BY <1>1, FS_CardinalityType
<1> QED
  BY <1>2, <1>3, <1>4

\* The numbers of members ahead are 0, 1 and so on.
LEMMA PlacesAre ==
  ASSUME NEW S, NEW R, IsFiniteSet(S), IsOrder(R, S)
  PROVE  [x \in S |-> Cardinality(Ahead(R, S, x))] \in Bijection(S, 0..Cardinality(S) - 1)
<1> DEFINE m == Cardinality(S)
           place == [x \in S |-> Cardinality(Ahead(R, S, x))]
<1>1. m \in Nat
  BY FS_CardinalityType
<1>2. ASSUME NEW x \in S PROVE place[x] \in 0..m - 1
  <2>1. Ahead(R, S, x) \subseteq S /\ x \in S /\ x \notin Ahead(R, S, x)
    BY DEF Ahead, IsOrder
  <2>2. /\ IsFiniteSet(Ahead(R, S, x)) /\ Cardinality(Ahead(R, S, x)) <= m
        /\ m = Cardinality(Ahead(R, S, x)) => S = Ahead(R, S, x)
    BY <2>1, FS_Subset
  <2>3. Cardinality(Ahead(R, S, x)) \in Nat
    BY <2>2, FS_CardinalityType
  <2> QED
    BY <1>1, <2>1, <2>2, <2>3
<1>3. ASSUME NEW x \in S, NEW y \in S, x # y PROVE place[x] # place[y]
  <2>1. CASE <<x, y>> \in R
    BY <2>1, FewerAhead
  <2>2. CASE <<y, x>> \in R
    BY <2>2, FewerAhead
  <2> QED
    BY <1>3, <2>1, <2>2 DEF IsOrder
<1> HIDE DEF place, m
<1>4. place \in [S -> 0..m - 1]
  BY <1>2 DEF place
<1>5. place \in Injection(S, 0..m - 1)
  BY <1>3, <1>4 DEF Injection, IsInjective
<1>6. IsFiniteSet(0..m - 1) /\ Cardinality(0..m - 1) = m
  BY <1>1, FS_Interval
<1>7. place \in Surjection(S, 0..m - 1)
  BY <1>5, <1>6, FS_Injection DEF m
<1> QED
  BY <1>5, <1>7 DEF Bijection, place, m

\* The first n are n of them, or all, and come before the others.
LEMMA FirstAre ==
  ASSUME NEW S, NEW R, IsFiniteSet(S), IsOrder(R, S), NEW n \in Nat
  PROVE  /\ FirstOf(R, S, n) \subseteq S /\ IsFiniteSet(FirstOf(R, S, n))
         /\ Cardinality(FirstOf(R, S, n)) = IF n < Cardinality(S) THEN n ELSE Cardinality(S)
         /\ \A x \in FirstOf(R, S, n), y \in S \ FirstOf(R, S, n) : <<x, y>> \in R
<1> DEFINE m == Cardinality(S)
           k == IF n < m THEN n ELSE m
           T == FirstOf(R, S, n)
           place == [x \in S |-> Cardinality(Ahead(R, S, x))]
           cut == [x \in T |-> place[x]]
<1>1. T \subseteq S /\ IsFiniteSet(T) /\ m \in Nat /\ k \in Nat
  BY FS_Subset, FS_CardinalityType DEF FirstOf
<1>2. place \in Bijection(S, 0..m - 1)
  BY PlacesAre
<1>3. T = {x \in S : place[x] < n}
  BY DEF FirstOf
<1> HIDE DEF place, T
<1>4. /\ place \in [S -> 0..m - 1]
      /\ \A x, y \in S : place[x] = place[y] => x = y
      /\ \A i \in 0..m - 1 : \E x \in S : place[x] = i
  BY <1>2 DEF Bijection, Injection, IsInjective, Surjection
<1>5. \A i \in 0..m - 1 : i < n <=> i \in 0..k - 1
  BY <1>1
<1>6. cut \in [T -> 0..k - 1]
  BY <1>1, <1>3, <1>4, <1>5
<1>7. \A x, y \in T : cut[x] = cut[y] => x = y
  BY <1>1, <1>4
<1>8. \A i \in 0..k - 1 : \E x \in T : cut[x] = i
  BY <1>1, <1>3, <1>4, <1>5
<1>9. cut \in Bijection(T, 0..k - 1)
  <2> HIDE DEF cut, k
  <2> QED
    BY <1>6, <1>7, <1>8 DEF Bijection, Injection, IsInjective, Surjection
<1>10. Cardinality(0..k - 1) = Cardinality(T)
  BY <1>1, <1>9, FS_Bijection DEF ExistsBijection
<1>11. Cardinality(0..k - 1) = k
  <2> HIDE DEF k
  <2> QED
    BY <1>1, FS_Interval
<1>12. ASSUME NEW x \in T, NEW y \in S \ T PROVE <<x, y>> \in R
  <2>1. x \in S /\ x # y
    BY <1>1
  <2>2. CASE <<y, x>> \in R
    <3>1. place[y] < place[x]
      BY <2>1, <2>2, FewerAhead DEF place
    <3> QED
      BY <1>3, <1>4, <2>1, <3>1
  <2> QED
    BY <2>1, <2>2 DEF IsOrder
<1> QED
  BY <1>1, <1>10, <1>11, <1>12 DEF T

\* What comes before one of the first n is one of them.
LEMMA FirstAreDown ==
  ASSUME NEW S, NEW R, IsFiniteSet(S), IsOrder(R, S), NEW n \in Nat,
         NEW x \in FirstOf(R, S, n), NEW y \in S, <<y, x>> \in R
  PROVE  y \in FirstOf(R, S, n)
<1>1. x \in S
  BY DEF FirstOf
<1>2. CASE y \notin FirstOf(R, S, n)
  <2>1. <<x, y>> \in R
    BY <1>2, FirstAre
  <2> QED
    BY <1>1, <2>1 DEF IsOrder
<1> QED
  BY <1>2

\* Cut to its first n after each new member, a set is cut to the first n of all.
LEMMA FirstOfMore ==
  ASSUME NEW A, NEW R, NEW e, NEW n \in Nat, IsFiniteSet(A), IsOrder(R, With(A, e))
  PROVE  FirstOf(R, With(FirstOf(R, A, n), e), n) = FirstOf(R, With(A, e), n)
<1> DEFINE B == A \cup {e}
           T == FirstOf(R, A, n)
           C == T \cup {e}
<1>1. IsFiniteSet(B) /\ IsOrder(R, B) /\ IsOrder(R, A)
  BY FS_AddElement DEF IsOrder, With
<1>2. /\ T \subseteq A /\ IsFiniteSet(T)
      /\ Cardinality(T) = IF n < Cardinality(A) THEN n ELSE Cardinality(A)
      /\ \A x \in T, y \in A \ T : <<x, y>> \in R
  BY <1>1, FirstAre
<1>3. IsFiniteSet(C) /\ C \subseteq B
  BY <1>2, FS_AddElement
<1>4. \A x : IsFiniteSet(Ahead(R, B, x)) /\ Cardinality(Ahead(R, B, x)) \in Nat
  BY <1>1, FS_Subset, FS_CardinalityType DEF Ahead
<1>5. \A x : Ahead(R, A, x) \subseteq Ahead(R, B, x) /\ Ahead(R, C, x) \subseteq Ahead(R, B, x)
  BY <1>3 DEF Ahead
<1>6. \A x : /\ IsFiniteSet(Ahead(R, C, x)) /\ Cardinality(Ahead(R, C, x)) \in Nat
             /\ Cardinality(Ahead(R, A, x)) \in Nat
             /\ Cardinality(Ahead(R, A, x)) <= Cardinality(Ahead(R, B, x))
             /\ Cardinality(Ahead(R, C, x)) <= Cardinality(Ahead(R, B, x))
  BY <1>4, <1>5, FS_Subset, FS_CardinalityType
<1>7. ASSUME NEW x \in FirstOf(R, B, n) PROVE x \in FirstOf(R, C, n)
  <2>1. x \in B /\ Cardinality(Ahead(R, B, x)) < n
    BY DEF FirstOf
  <2>2. Cardinality(Ahead(R, A, x)) < n /\ Cardinality(Ahead(R, C, x)) < n
    BY <1>4, <1>6, <2>1
  <2> QED
    BY <2>1, <2>2 DEF FirstOf
<1>8. ASSUME NEW x \in FirstOf(R, C, n) PROVE x \in FirstOf(R, B, n)
  <2>1. x \in C /\ x \in B /\ Cardinality(Ahead(R, C, x)) < n
    BY <1>3 DEF FirstOf
  <2>2. ASSUME NEW y \in B, <<y, x>> \in R, y \notin C PROVE FALSE
    <3>1. y \in A \ T
      BY <2>2
    <3>2. \A t \in T : <<t, y>> \in R /\ t \in B
      BY <1>2, <3>1
    <3>3. T \subseteq Ahead(R, C, x)
      BY <1>1, <2>1, <2>2, <3>2 DEF IsOrder, Ahead
    <3>4. T # A
      BY <3>1
    <3>5. Cardinality(T) = n
      BY <1>2, <3>4, FS_Subset
    <3>6. Cardinality(T) <= Cardinality(Ahead(R, C, x))
      BY <1>6, <3>3, FS_Subset
    <3>7. Cardinality(Ahead(R, C, x)) \in Nat
      BY <1>6
    <3>8. n <= Cardinality(Ahead(R, C, x))
      BY <3>5, <3>6
    <3> HIDE DEF T, C
    <3> QED
      BY <2>1, <3>7, <3>8
  <2>3. Ahead(R, B, x) = Ahead(R, C, x)
    BY <1>3, <2>2 DEF Ahead
  <2> QED
    BY <2>1, <2>3 DEF FirstOf
<1> QED
  BY <1>7, <1>8 DEF With

\* A set of at most n is not cut.
LEMMA FirstOfFew ==
  ASSUME NEW S, NEW R, IsFiniteSet(S), IsOrder(R, S), NEW n \in Nat, Cardinality(S) <= n
  PROVE  FirstOf(R, S, n) = S
<1>1. Cardinality(S) \in Nat
  BY FS_CardinalityType
<1>2. /\ FirstOf(R, S, n) \subseteq S
      /\ Cardinality(FirstOf(R, S, n)) = Cardinality(S)
  BY <1>1, FirstAre
<1> QED
  BY <1>2, FS_Subset

\* A finite set that is not empty has a member that comes first.
LEMMA FirstIsThere ==
  ASSUME NEW S, NEW R, IsFiniteSet(S), IsOrder(R, S), S # {}
  PROVE  \E one \in S : \A y \in S \ {one} : <<one, y>> \in R
<1> DEFINE place == [x \in S |-> Cardinality(Ahead(R, S, x))]
<1>1. place \in Bijection(S, 0..Cardinality(S) - 1)
  BY PlacesAre
<1>2. Cardinality(S) \in Nat /\ Cardinality(S) # 0
  BY FS_CardinalityType, FS_EmptySet
<1>3. 0 \in 0..Cardinality(S) - 1
  BY <1>2
<1>4. PICK one \in S : place[one] = 0
  BY <1>1, <1>3 DEF Bijection, Surjection
<1>5. IsFiniteSet(Ahead(R, S, one)) /\ Cardinality(Ahead(R, S, one)) = 0
  BY <1>4, FS_Subset DEF Ahead
<1>6. Ahead(R, S, one) = {}
  BY <1>5, FS_EmptySet
<1> QED
  BY <1>6 DEF Ahead, IsOrder

LEMMA MinOfTwo ==
  ASSUME NEW a \in Int, NEW b \in Int
  PROVE  Min({a, b}) = IF a < b THEN a ELSE b
<1> DEFINE m == IF a < b THEN a ELSE b
<1>1. m \in {a, b} /\ \A y \in {a, b} : m <= y
  OBVIOUS
<1>2. \A x \in {a, b} : (\A y \in {a, b} : x <= y) => x = m
  OBVIOUS
<1> QED
  BY <1>1, <1>2 DEF Min

LEMMA MaxOfTwo ==
  ASSUME NEW a \in Int, NEW b \in Int
  PROVE  Max({a, b}) = IF a > b THEN a ELSE b
<1> DEFINE m == IF a > b THEN a ELSE b
<1>1. m \in {a, b} /\ \A y \in {a, b} : m >= y
  OBVIOUS
<1>2. \A x \in {a, b} : (\A y \in {a, b} : x >= y) => x = m
  OBVIOUS
<1> QED
  BY <1>1, <1>2 DEF Max

\* A page holds the first members of a set, in their order.
PageOf(R, S, m) == [k \in 1..m |-> CHOOSE x \in S : Cardinality(Ahead(R, S, x)) = k - 1]

\* A page of m, with room for n: in order, before what it leaves out, and full
\* when it leaves something out.
IsPage(R, S, m, n, shown) ==
  /\ shown \in Seq(S) /\ Len(shown) = m /\ DOMAIN shown = 1..m
  /\ \A i, j \in 1..m : i < j => <<shown[i], shown[j]>> \in R
  /\ \A i \in 1..m, x \in S : (\A k \in 1..m : x # shown[k]) => <<shown[i], x>> \in R
  /\ (\E x \in S : \A k \in 1..m : x # shown[k]) => m = n

LEMMA PageIs ==
  ASSUME NEW S, NEW R, IsFiniteSet(S), IsOrder(R, S), NEW n \in Nat, NEW m \in Nat,
         m = IF n < Cardinality(S) THEN n ELSE Cardinality(S),
         NEW shown, shown = PageOf(R, S, m)
  PROVE  IsPage(R, S, m, n, shown)
<1> DEFINE place == [x \in S |-> Cardinality(Ahead(R, S, x))]
<1>1. place \in Bijection(S, 0..Cardinality(S) - 1) /\ Cardinality(S) \in Nat
  BY PlacesAre, FS_CardinalityType
<1>2. \A k \in 1..m : shown[k] \in S /\ place[shown[k]] = k - 1
  <2> SUFFICES ASSUME NEW k \in 1..m PROVE shown[k] \in S /\ place[shown[k]] = k - 1
    OBVIOUS
  <2>1. k - 1 \in 0..Cardinality(S) - 1
    BY <1>1
  <2>2. PICK x \in S : place[x] = k - 1
    BY <1>1, <2>1 DEF Bijection, Surjection
  <2>3. shown[k] = CHOOSE y \in S : Cardinality(Ahead(R, S, y)) = k - 1
    BY DEF PageOf
  <2>4. x \in S /\ Cardinality(Ahead(R, S, x)) = k - 1
    BY <2>2
  <2>5. shown[k] \in S /\ Cardinality(Ahead(R, S, shown[k])) = k - 1
    BY <2>3, <2>4
  <2> QED
    BY <2>5
<1>3. \A x, y \in S : place[x] < place[y] => <<x, y>> \in R
  <2> SUFFICES ASSUME NEW x \in S, NEW y \in S, place[x] < place[y], <<x, y>> \notin R PROVE FALSE
    OBVIOUS
  <2>1. place[x] \in Nat /\ place[y] \in Nat
    BY <1>1 DEF Bijection, Surjection
  <2>2. x # y
    BY <2>1
  <2>3. <<y, x>> \in R
    BY <2>2 DEF IsOrder
  <2>4. Cardinality(Ahead(R, S, y)) < Cardinality(Ahead(R, S, x))
    BY <2>3, FewerAhead
  <2> QED
    BY <2>1, <2>4
<1>4. \A x \in S : place[x] \in 0..Cardinality(S) - 1
  BY <1>1 DEF Bijection, Surjection
<1>5. \A x, y \in S : place[x] = place[y] => x = y
  <2>1. place \in Injection(S, 0..Cardinality(S) - 1)
    BY <1>1 DEF Bijection
  <2> HIDE DEF place
  <2> QED
    BY <2>1 DEF Injection, IsInjective
<1>6. shown \in [1..m -> S] /\ DOMAIN shown = 1..m
  BY <1>2 DEF PageOf
<1>7. shown \in Seq(S) /\ Len(shown) = m
  BY <1>6
<1> HIDE DEF place
<1>8. \A i, j \in 1..m : i < j => <<shown[i], shown[j]>> \in R
  BY <1>2, <1>3
<1>9. ASSUME NEW x \in S, \A k \in 1..m : x # shown[k]
      PROVE  m <= place[x] /\ place[x] < Cardinality(S)
  <2>1. place[x] + 1 \notin 1..m
    <3> SUFFICES ASSUME place[x] + 1 \in 1..m PROVE FALSE
      OBVIOUS
    <3>1. place[shown[place[x] + 1]] = place[x] /\ shown[place[x] + 1] \in S
      BY <1>2, <1>4
    <3> QED
      BY <1>5, <1>9, <3>1
  <2> QED
    BY <1>1, <1>4, <2>1
<1>10. \A i \in 1..m, x \in S : (\A k \in 1..m : x # shown[k]) => <<shown[i], x>> \in R
  <2> SUFFICES ASSUME NEW i \in 1..m, NEW x \in S, \A k \in 1..m : x # shown[k]
               PROVE  <<shown[i], x>> \in R
    OBVIOUS
  <2>1. m <= place[x]
    BY <1>9
  <2>2. place[x] \in Nat /\ place[shown[i]] = i - 1
    BY <1>1, <1>2, <1>4
  <2>3. place[shown[i]] < place[x]
    BY <2>1, <2>2
  <2> QED
    BY <1>2, <1>3, <2>3
<1>11. (\E x \in S : \A k \in 1..m : x # shown[k]) => m = n
  <2> SUFFICES ASSUME NEW x \in S, \A k \in 1..m : x # shown[k] PROVE m = n
    OBVIOUS
  <2>1. m <= place[x] /\ place[x] < Cardinality(S) /\ place[x] \in Int
    BY <1>1, <1>4, <1>9
  <2> QED
    BY <1>1, <2>1
<1> QED
  BY <1>6, <1>7, <1>8, <1>10, <1>11 DEF IsPage

\* A page as long as its set holds each member, once and in order.
LEMMA WholePageIs ==
  ASSUME NEW S, NEW R, IsFiniteSet(S), IsOrder(R, S), NEW shown,
         shown = PageOf(R, S, Cardinality(S))
  PROVE  /\ Cardinality(S) \in Nat
         /\ \A i \in 1..Cardinality(S) : shown[i] \in S
         /\ \A i, j \in 1..Cardinality(S) : i < j => <<shown[i], shown[j]>> \in R
         /\ \A x \in S : \E i \in 1..Cardinality(S) : x = shown[i]
<1> DEFINE m == Cardinality(S)
           n == m + 1
<1>1. m \in Nat /\ n \in Nat /\ n # m /\ m = IF n < m THEN n ELSE m
  BY FS_CardinalityType
<1>2. shown = PageOf(R, S, m)
  OBVIOUS
<1>3. m = IF n < Cardinality(S) THEN n ELSE Cardinality(S)
  BY <1>1
<1>4. m = Cardinality(S)
  OBVIOUS
<1> HIDE DEF m, n
\* With room for one more, none is left out.
<1>5. IsPage(R, S, m, n, shown)
  <2>1. m \in Nat /\ n \in Nat
    BY <1>1
  <2> QED
    BY <1>2, <1>3, <2>1, PageIs
<1>6. \A i \in 1..m : shown[i] \in S
  BY <1>5 DEF IsPage
<1>7. \A x \in S : \E i \in 1..m : x = shown[i]
  BY <1>1, <1>5 DEF IsPage
<1>8. \A i, j \in 1..m : i < j => <<shown[i], shown[j]>> \in R
  BY <1>5 DEF IsPage
<1> QED
  BY <1>1, <1>4, <1>6, <1>7, <1>8

LEMMA ImageIsFinite ==
  ASSUME NEW S, IsFiniteSet(S), NEW f
  PROVE  IsFiniteSet({f[x] : x \in S}) /\ Cardinality({f[x] : x \in S}) <= Cardinality(S)
<1> DEFINE T == {f[x] : x \in S}
           g == [x \in S |-> f[x]]
<1>1. g \in [S -> T] /\ \A t \in T : \E s \in S : g[s] = t
  OBVIOUS
<1>2. g \in Surjection(S, T)
  BY <1>1 DEF Surjection
<1> HIDE DEF T, g
<1> QED
  BY <1>2, FS_Surjection DEF T

\* A union has at most as many members as its parts together.
LEMMA UnionIsFinite ==
  ASSUME NEW S, NEW T, IsFiniteSet(S), IsFiniteSet(T)
  PROVE  /\ IsFiniteSet(S \cup T) /\ Cardinality(S \cup T) \in Nat
         /\ Cardinality(S \cup T) <= Cardinality(S) + Cardinality(T)
<1>1. IsFiniteSet(S \cap T)
  BY FS_Subset
<1>2. /\ Cardinality(S) \in Nat /\ Cardinality(T) \in Nat /\ Cardinality(S \cap T) \in Nat
      /\ IsFiniteSet(S \cup T) /\ Cardinality(S \cup T) \in Nat
      /\ Cardinality(S \cup T) = Cardinality(S) + Cardinality(T) - Cardinality(S \cap T)
  BY <1>1, FS_Union, FS_CardinalityType
<1> QED
  BY <1>2

MoreOf(S) == {e \in S \X S : e[1] > e[2]}

LEMMA MoreIsOrder ==
  ASSUME NEW S \in SUBSET Nat
  PROVE  IsOrder(MoreOf(S), S) /\ \A x \in S : Ahead(MoreOf(S), S, x) = {y \in S : y > x}
<1>1. \A x, y \in S : <<x, y>> \in MoreOf(S) <=> x > y
  BY DEF MoreOf
<1>2. \A x \in S : x \in Nat
  OBVIOUS
<1>3. \A x \in S : Ahead(MoreOf(S), S, x) = {y \in S : y > x}
  BY <1>1 DEF Ahead
<1>4. \A x, y, z \in S : x > y /\ y > z => x > z
  BY <1>2
<1>5. \A x, y \in S : ~(x > x) /\ (x # y => x > y \/ y > x)
  BY <1>2
<1> QED
  BY <1>1, <1>3, <1>4, <1>5 DEF IsOrder

\* A finite set of numbers that is not empty has a largest one.
LEMMA MaxIsThere ==
  ASSUME NEW S \in SUBSET Nat, IsFiniteSet(S), S # {}
  PROVE  Max(S) \in S /\ \A y \in S : y <= Max(S)
<1> DEFINE R == MoreOf(S)
<1>1. PICK x \in S : Cardinality(Ahead(R, S, x)) = 0
  <2>1. [x \in S |-> Cardinality(Ahead(R, S, x))] \in Bijection(S, 0..Cardinality(S) - 1)
    BY MoreIsOrder, PlacesAre
  <2>2. Cardinality(S) \in Nat /\ Cardinality(S) # 0
    BY FS_CardinalityType, FS_EmptySet
  <2>3. 0 \in 0..Cardinality(S) - 1
    BY <2>2
  <2> QED
    BY <2>1, <2>3 DEF Bijection, Surjection
<1>2. IsFiniteSet(Ahead(R, S, x)) /\ Ahead(R, S, x) = {y \in S : y > x}
  BY MoreIsOrder, FS_Subset
<1>3. {y \in S : y > x} = {}
  BY <1>1, <1>2, FS_EmptySet
<1>4. \A y \in S : x >= y
  BY <1>3
<1> QED
  BY <1>4 DEF Max

\* So has any set of numbers a least one.
LEMMA MinIsThere ==
  ASSUME NEW S \in SUBSET Nat, S # {}
  PROVE  Min(S) \in S /\ \A y \in S : Min(S) <= y
<1> DEFINE L == OpToRel(<, Nat)
<1>1. PICK b \in S : \A c \in S : ~(<<c, b>> \in L)
  <2>1. IsWellFoundedOn(L, Nat)
    BY NatLessThanWellFounded
  <2> HIDE DEF L
  <2> QED
    BY <2>1, WFMin
<1>2. \A c \in S : b <= c
  <2> SUFFICES ASSUME NEW c \in S, c < b PROVE FALSE
    OBVIOUS
  <2>1. <<c, b>> \in L
    BY DEF OpToRel
  <2> QED
    BY <1>1, <2>1
<1> QED
  BY <1>2 DEF Min

\* What holds of 0 and passes from each number to the next holds up to N.
LEMMA StepsReach ==
  ASSUME NEW N \in Nat, NEW T, 0 \in T, \A n \in 1..N : n - 1 \in T => n \in T
  PROVE  0..N \subseteq T
<1> DEFINE Bad == (0..N) \ T
           L == OpToRel(<, Nat)
<1> SUFFICES ASSUME Bad # {} PROVE FALSE
  OBVIOUS
<1>1. PICK b \in Bad : \A m \in Bad : ~(<<m, b>> \in L)
  <2>1. IsWellFoundedOn(L, Nat)
    BY NatLessThanWellFounded
  <2>2. Bad \subseteq Nat
    OBVIOUS
  <2> HIDE DEF L, Bad
  <2> QED
    BY <2>1, <2>2, WFMin
<1>2. b \in 1..N
  OBVIOUS
<1>3. b - 1 \notin Bad
  <2>1. <<b - 1, b>> \in L
    BY <1>2 DEF OpToRel
  <2> QED
    BY <1>1, <2>1
<1> QED
  BY <1>2, <1>3

\* A recursion over 0..N that stays in D has a function that follows it.
StaysIn(g, N, D) == \A n \in 1..N, d \in D : g[<<n, d>>] \in D
Follows(f, a, N, g) == f[0] = a /\ \A n \in 1..N : f[n] = g[<<n, f[n - 1]>>]
LEMMA RecursionExists ==
  ASSUME NEW D, NEW a \in D, NEW N \in Nat, NEW g, StaysIn(g, N, D)
  PROVE  \E f \in [0..N -> D] : Follows(f, a, N, g)
<1> USE DEF StaysIn
<1> DEFINE Obeys(f, m) == f[0] = a /\ \A n \in 1..m : f[n] = g[<<n, f[n - 1]>>]
           T == {m \in 0..N : \E f \in [0..m -> D] : Obeys(f, m)}
<1>1. 0 \in T
  <2> DEFINE h == [n \in 0..0 |-> a]
  <2>1. h \in [0..0 -> D] /\ Obeys(h, 0)
    OBVIOUS
  <2> HIDE DEF Obeys, h
  <2> QED
    BY <2>1
<1>2. ASSUME NEW m \in 1..N, m - 1 \in T PROVE m \in T
  <2>1. PICK f \in [0..m - 1 -> D] : Obeys(f, m - 1)
    BY <1>2
  <2> DEFINE v == g[<<m, f[m - 1]>>]
             h == [n \in 0..m |-> IF n = m THEN v ELSE f[n]]
  <2>2. v \in D
    OBVIOUS
  <2> HIDE DEF v
  <2>3. h \in [0..m -> D]
    BY <2>2
  <2>4. \A n \in 0..m - 1 : h[n] = f[n]
    OBVIOUS
  <2>5. h[m] = v
    OBVIOUS
  <2> HIDE DEF h
  <2>6. h[0] = a
    BY <2>1, <2>4
  <2>7. ASSUME NEW n \in 1..m PROVE h[n] = g[<<n, h[n - 1]>>]
    <3>1. CASE n = m
      <4>1. h[n - 1] = f[m - 1]
        BY <2>4, <3>1
      <4> QED
        BY <2>5, <3>1, <4>1 DEF v
    <3>2. CASE n # m
      <4>1. n \in 1..m - 1 /\ h[n] = f[n] /\ h[n - 1] = f[n - 1]
        BY <2>4, <3>2
      <4> QED
        BY <2>1, <4>1
    <3> QED
      BY <3>1, <3>2
  <2>8. Obeys(h, m)
    BY <2>6, <2>7
  <2> HIDE DEF Obeys
  <2> QED
    BY <2>3, <2>8
<1>3. 0..N \subseteq T
  <2> HIDE DEF T
  <2> QED
    BY <1>1, <1>2, StepsReach
<1>4. N \in T
  BY <1>3
<1> QED
  BY <1>4 DEF Follows

-----------------------------------------------------------------------------
(* RecallTutor                                                              *)

\* Suggestions are ordered by kind, order and id, and are the first of those that match.
LEMMA SuggestionsAreFirst ==
  ASSUME NEW r \in TutorRequests
  PROVE  LET matching == {x \in Suggestable : Eligible(x) /\ x.id \in r.matches}
         IN /\ Cardinality(Suggestions(r)) = Min({r.limit, Cardinality(matching)})
            /\ Suggestions(r) \subseteq matching
            /\ \A x \in Suggestions(r), y \in matching \ Suggestions(r) : ~SuggestionLess(y, x)
<1> DEFINE M == {x \in Suggestable : Eligible(x) /\ x.id \in r.matches}
           R == {e \in M \X M : SuggestionLess(e[1], e[2])}
<1>1. IsFiniteSet(M) /\ Cardinality(M) \in Nat /\ M \subseteq Suggestable
  BY RecallAssumption, FS_Subset, FS_CardinalityType
<1>2. \A x, y \in M : <<x, y>> \in R <=> SuggestionLess(x, y)
  OBVIOUS
<1>3. \A x \in M : /\ x.kind \in {"review", "misconception", "plan"}
                   /\ KindRank[x.kind] \in {1, 2, 3} /\ x.order \in Nat /\ x.id \in Nat
  BY <1>1, RecallAssumption DEF KindRank
<1>4. \A x, y \in M : KindRank[x.kind] = KindRank[y.kind] => x.kind = y.kind
  BY <1>3 DEF KindRank
<1>5. \A x \in M : ~SuggestionLess(x, x)
  BY <1>3 DEF SuggestionLess
<1>6. \A x, y, z \in M : SuggestionLess(x, y) /\ SuggestionLess(y, z) => SuggestionLess(x, z)
  BY <1>3 DEF SuggestionLess
<1>7. \A x, y \in M : x # y => SuggestionLess(x, y) \/ SuggestionLess(y, x)
  <2> SUFFICES ASSUME NEW x \in M, NEW y \in M, x # y
               PROVE  SuggestionLess(x, y) \/ SuggestionLess(y, x)
    OBVIOUS
  <2>1. x.kind # y.kind \/ x.id # y.id
    BY <1>1, RecallAssumption
  <2> QED
    BY <1>3, <1>4, <2>1 DEF SuggestionLess
<1> HIDE DEF M
<1>8. IsOrder(R, M)
  BY <1>2, <1>5, <1>6, <1>7 DEF IsOrder
<1>9. Suggestions(r) = FirstOf(R, M, r.limit)
  <2>1. \A x \in M : Ahead(R, M, x) = {y \in M : SuggestionLess(y, x)}
    BY <1>2 DEF Ahead
  <2> QED
    BY <2>1 DEF Suggestions, FirstOf, M
<1>10. r.limit \in Nat
  BY RecallAssumption
<1> HIDE DEF R
<1>11. /\ Suggestions(r) \subseteq M
       /\ Cardinality(Suggestions(r)) = IF r.limit < Cardinality(M) THEN r.limit ELSE Cardinality(M)
       /\ \A x \in Suggestions(r), y \in M \ Suggestions(r) : <<x, y>> \in R
  BY <1>1, <1>8, <1>9, <1>10, FirstAre
<1>12. Cardinality(Suggestions(r)) = Min({r.limit, Cardinality(M)})
  BY <1>1, <1>10, <1>11, MinOfTwo
<1>13. \A x \in Suggestions(r), y \in M \ Suggestions(r) : ~SuggestionLess(y, x)
  BY <1>2, <1>5, <1>6, <1>11
<1> QED
  BY <1>11, <1>12, <1>13 DEF M

RecallInv ==
  /\ recall = [allow |-> recall.allow, audit |-> recall.audit, sessions |-> recall.sessions]
  /\ RecallTypeOK
  /\ AllowlistIsAcknowledged /\ OwnStoreStays /\ AllowedRecallsWereListed
  /\ \A s \in recall.sessions : \E r \in TutorRequests : s = TutorSession(r)

LEMMA RecallInvIsRight == RecallInv => RecallTypeOK /\ RecallIsRight
<1> SUFFICES ASSUME RecallInv PROVE SessionsSuggestTheMostUrgent
  BY DEF RecallInv, RecallIsRight
<1>1. ASSUME NEW s \in recall.sessions
      PROVE  LET matching == {x \in Suggestable : Eligible(x) /\ x.id \in s.matches} IN
             /\ Cardinality(s.suggested) = Min({s.limit, Cardinality(matching)})
             /\ s.suggested \subseteq matching
             /\ \A x \in s.suggested, y \in matching \ s.suggested : ~SuggestionLess(y, x)
  <2>1. PICK r \in TutorRequests : s = TutorSession(r)
    BY DEF RecallInv
  <2>2. s.matches = r.matches /\ s.limit = r.limit /\ s.suggested = Suggestions(r)
    BY <2>1 DEF TutorSession
  <2> QED
    BY <2>2, SuggestionsAreFirst
<1> QED
  BY <1>1 DEF SessionsSuggestTheMostUrgent

\* Asking for a recall is written to the audit and changes nothing else.
LEMMA AskedRecall ==
  ASSUME NEW s, s = [allow |-> s.allow, audit |-> s.audit, sessions |-> s.sessions],
         NEW operation, NEW q
  PROVE  AuditedRecall(s, operation, q) =
           [allow |-> s.allow, sessions |-> s.sessions,
            audit |-> s.audit \cup {[operation |-> operation, requester |-> q,
                                     allowed |-> Authorized(s, q)]}]
BY DEF AuditedRecall

LEMMA AuthorizeRecallStep ==
  ASSUME RecallInv, NEW r \in AuthRequests, AuthorizeRecall(r)
  PROVE  RecallInv'
<1> DEFINE n == RunRecallAuthorization(recall, r)
           a == NextAllowed(recall.allow, r)
           e == [operation |-> "recall_authorization", requester |-> r.requester,
                 allowed |-> Authorized(n, r.requester)]
<1>1. /\ r.mode \in {"grant", "replace", "revoke", "check"}
      /\ r.stores \subseteq OtherStore \cup {OwnStore}
  BY RecallAssumption
<1>2. a \subseteq OtherStore \cup {OwnStore} /\ OwnStore \in a
  BY <1>1 DEF NextAllowed, RecallInv, RecallTypeOK, OwnStoreStays
<1>3. n = [allow |-> a, audit |-> recall.audit \cup {e}, sessions |-> recall.sessions]
  <2> DEFINE s == [recall EXCEPT !.allow = a]
  <2>1. s = [allow |-> a, audit |-> recall.audit, sessions |-> recall.sessions]
    BY DEF RecallInv
  <2>2. n = AuditedRecall(s, "recall_authorization", r.requester)
    BY <2>1 DEF RunRecallAuthorization, RecallInv
  <2>3. Authorized(s, r.requester) = Authorized(n, r.requester)
    BY <2>1, <2>2, AskedRecall DEF Authorized
  <2> QED
    BY <2>1, <2>2, <2>3, AskedRecall
<1> HIDE DEF n, a
<1>4. /\ UNCHANGED filed
      /\ \/ /\ recall' = (IF filed THEN recall ELSE n) /\ UNCHANGED <<acked, answers>>
         \/ /\ recall' = n /\ acked' = n.allow
            /\ answers' = answers \cup {<<r.requester, Authorized(n, r.requester)>>}
  BY DEF AuthorizeRecall, n, Failed
<1>5. /\ recall' = [allow |-> recall'.allow, audit |-> recall'.audit, sessions |-> recall'.sessions]
      /\ recall'.allow \subseteq OtherStore \cup {OwnStore} /\ OwnStore \in recall'.allow
      /\ recall'.sessions = recall.sessions
      /\ filed \/ recall.audit \subseteq recall'.audit
  BY <1>2, <1>3, <1>4 DEF RecallInv, RecallTypeOK, OwnStoreStays
<1>6. filed' \in BOOLEAN /\ acked' \subseteq OtherStore \cup {OwnStore}
  BY <1>2, <1>3, <1>4 DEF RecallInv, RecallTypeOK
<1>7. filed' => recall'.allow = acked'
  BY <1>3, <1>4 DEF RecallInv, AllowlistIsAcknowledged
<1>8. ASSUME NEW q \in OtherStore, <<q, TRUE>> \in answers', ~filed'
      PROVE  \E x \in recall'.audit : x.requester = q /\ x.allowed
  <2>1. CASE <<q, TRUE>> \in answers
    BY <1>4, <1>5, <1>8, <2>1 DEF RecallInv, AllowedRecallsWereListed
  <2>2. CASE <<q, TRUE>> \notin answers
    <3> DEFINE g == Authorized(n, r.requester)
    <3>1. recall' = n /\ <<q, TRUE>> \in answers \cup {<<r.requester, g>>}
      BY <1>4, <1>8, <2>2
    <3> HIDE DEF g
    <3>2. q = r.requester /\ g = TRUE
      BY <2>2, <3>1
    <3>3. e \in recall'.audit /\ e.requester = q /\ e.allowed
      BY <1>3, <3>1, <3>2 DEF g
    <3> QED
      BY <3>3
  <2> QED
    BY <2>1, <2>2
<1> QED
  BY <1>5, <1>6, <1>7, <1>8
  DEF RecallInv, RecallTypeOK, AllowlistIsAcknowledged, OwnStoreStays, AllowedRecallsWereListed

LEMMA DegradedTutorStep ==
  ASSUME RecallInv, NEW r \in TutorRequests, DegradedTutor(r)
  PROVE  RecallInv'
<1> DEFINE asked == EnsureRecallAuthorization(recall, "tutor_degraded", r.requester)
           n == RunTutorDegraded(asked, r)
<1>1. /\ asked = [allow |-> recall.allow, audit |-> asked.audit, sessions |-> recall.sessions]
      /\ recall.audit \subseteq asked.audit
  BY AskedRecall DEF EnsureRecallAuthorization, RecallInv
<1> HIDE DEF asked
<1>2. /\ n = [allow |-> recall.allow, audit |-> n.audit,
              sessions |-> recall.sessions \cup {TutorSession(r)}]
      /\ asked.audit \subseteq n.audit
  <2> DEFINE b == AuditedRecall(asked, "tutor_degraded", OwnStore)
  <2>1. /\ b = [allow |-> recall.allow, sessions |-> recall.sessions, audit |-> b.audit]
        /\ asked.audit \subseteq b.audit
    BY <1>1, AskedRecall
  <2>2. n = [b EXCEPT !.sessions = @ \cup {TutorSession(r)}]
    BY DEF RunTutorDegraded
  <2> HIDE DEF b, n
  <2> QED
    BY <2>1, <2>2
<1> HIDE DEF n
<1>3. /\ UNCHANGED <<filed, acked, answers>>
      /\ \/ recall' = IF filed THEN recall ELSE asked
         \/ recall' = n
  BY DEF DegradedTutor, Failed, asked, n
<1>4. /\ recall' = [allow |-> recall'.allow, audit |-> recall'.audit, sessions |-> recall'.sessions]
      /\ recall'.allow = recall.allow /\ recall.audit \subseteq recall'.audit
      /\ recall'.sessions \subseteq recall.sessions \cup {TutorSession(r)}
  BY <1>1, <1>2, <1>3 DEF RecallInv
<1> QED
  BY <1>3, <1>4
  DEF RecallInv, RecallTypeOK, AllowlistIsAcknowledged, OwnStoreStays, AllowedRecallsWereListed

LEMMA RecallContextStep ==
  ASSUME RecallInv, NEW q \in OtherStore \cup {OwnStore}, RecallContext(q)
  PROVE  RecallInv'
<1> DEFINE asked == EnsureRecallAuthorization(recall, "context", q)
           e == [operation |-> "context", requester |-> q, allowed |-> Authorized(recall, q)]
<1>1. asked = [allow |-> recall.allow, audit |-> recall.audit \cup {e}, sessions |-> recall.sessions]
  BY AskedRecall DEF EnsureRecallAuthorization, RecallInv
<1> HIDE DEF asked
<1>2. /\ UNCHANGED <<filed, acked>> /\ recall' = IF filed THEN recall ELSE asked
      /\ answers' = IF Authorized(recall, q) THEN answers \cup {<<q, TRUE>>} ELSE answers
  BY DEF RecallContext, asked
<1>3. /\ recall' = [allow |-> recall'.allow, audit |-> recall'.audit, sessions |-> recall'.sessions]
      /\ recall'.allow = recall.allow /\ recall.audit \subseteq recall'.audit
      /\ recall'.sessions = recall.sessions
  BY <1>1, <1>2 DEF RecallInv
<1>4. ASSUME NEW p \in OtherStore, <<p, TRUE>> \in answers', ~filed'
      PROVE  \E x \in recall'.audit : x.requester = p /\ x.allowed
  <2>1. CASE <<p, TRUE>> \in answers
    BY <1>2, <1>3, <1>4, <2>1 DEF RecallInv, AllowedRecallsWereListed
  <2>2. CASE <<p, TRUE>> \notin answers
    <3>1. p = q /\ Authorized(recall, q)
      BY <1>2, <1>4, <2>2
    <3>2. e \in recall'.audit /\ e.requester = p /\ e.allowed
      BY <1>1, <1>2, <1>4, <3>1
    <3> QED
      BY <3>2
  <2> QED
    BY <2>1, <2>2
<1> QED
  BY <1>2, <1>3, <1>4
  DEF RecallInv, RecallTypeOK, AllowlistIsAcknowledged, OwnStoreStays, AllowedRecallsWereListed

LEMMA RecallInvInit == RecallInit => RecallInv
BY DEF RecallInit, RecallInv, RecallTypeOK, AllowlistIsAcknowledged, OwnStoreStays,
       AllowedRecallsWereListed

LEMMA RecallInductive == RecallSpec => []RecallInv
<1>1. RecallInv /\ [RecallNext]_recallVars => RecallInv'
  <2> SUFFICES ASSUME RecallInv, [RecallNext]_recallVars PROVE RecallInv'
    OBVIOUS
  <2>1. CASE UNCHANGED recallVars
    BY <2>1 DEF recallVars, RecallInv, RecallTypeOK, AllowlistIsAcknowledged, OwnStoreStays,
                AllowedRecallsWereListed
  <2> QED
    BY <2>1, AuthorizeRecallStep, DegradedTutorStep, RecallContextStep DEF RecallNext
<1> QED
  BY <1>1, RecallInvInit, PTL DEF RecallSpec

\* With a state file the allowlist is what answered operations made it, without one
\* no foreign store is answered that no audited decision allowed, and tutor sessions
\* suggest the most urgent.
THEOREM RecallRight == RecallSpec => [](RecallTypeOK /\ RecallIsRight)
BY RecallInductive, RecallInvIsRight, PTL

-----------------------------------------------------------------------------
(* StateSnapshot                                                            *)

LEMMA KeptAre ==
  ASSUME NEW S \in SUBSET Nat, IsFiniteSet(S), NEW n \in Nat
  PROVE  /\ KeepLatest(S, n) \subseteq S /\ IsFiniteSet(KeepLatest(S, n))
         /\ KeepLatest(KeepLatest(S, n), n) = KeepLatest(S, n)
<1>1. \A T \in SUBSET Nat : KeepLatest(T, n) = FirstOf(MoreOf(T), T, n)
  <2> SUFFICES ASSUME NEW T \in SUBSET Nat PROVE KeepLatest(T, n) = FirstOf(MoreOf(T), T, n)
    OBVIOUS
  <2> QED
    BY MoreIsOrder DEF KeepLatest, FirstOf
<1> DEFINE K == KeepLatest(S, n)
<1>2. /\ K \subseteq S /\ IsFiniteSet(K)
      /\ Cardinality(K) = IF n < Cardinality(S) THEN n ELSE Cardinality(S)
  <2>1. K = FirstOf(MoreOf(S), S, n) /\ IsOrder(MoreOf(S), S)
    BY <1>1, MoreIsOrder
  <2> HIDE DEF K
  <2> QED
    BY <2>1, FirstAre
<1> HIDE DEF K
<1>3. Cardinality(S) \in Nat
  BY FS_CardinalityType
<1>4. Cardinality(K) <= n /\ K \in SUBSET Nat
  BY <1>2, <1>3
<1>5. FirstOf(MoreOf(K), K, n) = K
  BY <1>2, <1>4, MoreIsOrder, FirstOfFew
<1> QED
  BY <1>1, <1>2, <1>4, <1>5 DEF K

\* Normalizing keeps the types, the events, the fatigue, and what it has normalized.
LEMMA NormalizeIs ==
  ASSUME NEW s, IsProfileState(s)
  PROVE  NormalizeState(s) =
           [events |-> s.events, ledger |-> KeepLatest(s.ledger, MaxKept),
            candidates |-> NormalizeCandidates(s.candidates),
            fatigue |-> s.fatigue, threshold |-> IF s.threshold >= 1 THEN s.threshold ELSE 1,
            novelty |-> 0]
<1> DEFINE t == [s EXCEPT !.ledger = NormalizeLedger(@),
                          !.candidates = NormalizeCandidates(@)]
<1>1. t = [events |-> s.events, ledger |-> KeepLatest(s.ledger, MaxKept),
           candidates |-> NormalizeCandidates(s.candidates),
           fatigue |-> s.fatigue, threshold |-> s.threshold, novelty |-> s.novelty]
  <2> DEFINE L == NormalizeLedger(s.ledger)
             C == NormalizeCandidates(s.candidates)
             u == [s EXCEPT !.ledger = L]
  <2>1. t = [u EXCEPT !.candidates = C]
    OBVIOUS
  <2>2. s = [events |-> s.events, ledger |-> s.ledger, candidates |-> s.candidates,
             fatigue |-> s.fatigue, threshold |-> s.threshold, novelty |-> s.novelty]
    BY DEF IsProfileState
  <2> HIDE DEF t, L, C
  <2>3. u = [events |-> s.events, ledger |-> L, candidates |-> s.candidates,
             fatigue |-> s.fatigue, threshold |-> s.threshold, novelty |-> s.novelty]
    BY <2>2
  <2> HIDE DEF u
  <2>4. [u EXCEPT !.candidates = C] =
          [events |-> s.events, ledger |-> L, candidates |-> C,
           fatigue |-> s.fatigue, threshold |-> s.threshold, novelty |-> s.novelty]
    BY <2>3
  <2> QED
    BY ONLY <2>1, <2>4 DEF L, C, NormalizeLedger
<1>2. NormalizeState(s) = NormalizeClocks(t)
  BY DEF NormalizeState
<1>3. s.threshold \in Int
  BY DEF IsProfileState
<1> HIDE DEF t
<1>4. Max({t.threshold, 1}) = IF s.threshold >= 1 THEN s.threshold ELSE 1
  BY <1>1, <1>3, MaxOfTwo
<1> QED
  BY <1>1, <1>2, <1>4 DEF NormalizeClocks

LEMMA CandidateNormalized ==
  ASSUME NEW c, c = [id |-> c.id, updated |-> c.updated, decayed |-> c.decayed], c.updated \in Nat
  PROVE  /\ NormalizeCandidate(c) =
              [id |-> c.id, updated |-> c.updated,
               decayed |-> IF c.decayed = NoField THEN c.updated ELSE c.decayed]
         /\ NormalizeCandidate(NormalizeCandidate(c)) = NormalizeCandidate(c)
<1>1. NormalizeCandidate(c) = [id |-> c.id, updated |-> c.updated,
                               decayed |-> IF c.decayed = NoField THEN c.updated ELSE c.decayed]
  BY DEF NormalizeCandidate
<1> DEFINE d == [id |-> c.id, updated |-> c.updated,
                 decayed |-> IF c.decayed = NoField THEN c.updated ELSE c.decayed]
<1>2. d.decayed # NoField
  BY DEF NoField
<1>3. d = [id |-> d.id, updated |-> d.updated, decayed |-> d.decayed]
  OBVIOUS
<1> HIDE DEF d
<1>4. NormalizeCandidate(d) = d
  BY <1>2, <1>3 DEF NormalizeCandidate
<1> QED
  BY <1>1, <1>4 DEF d

LEMMA NormalizedState ==
  ASSUME NEW s, IsProfileState(s)
  PROVE  /\ IsProfileState(NormalizeState(s))
         /\ NormalizeState(NormalizeState(s)) = NormalizeState(s)
         /\ NormalizeState(s).events = s.events /\ NormalizeState(s).fatigue = s.fatigue
         /\ {[id |-> c.id, decayed |-> c.decayed] : c \in NormalizeState(s).candidates} =
            {[id |-> c.id, decayed |-> IF c.decayed = NoField THEN c.updated ELSE c.decayed] :
               c \in s.candidates}
<1> DEFINE n == NormalizeState(s)
<1>1. n = [events |-> s.events, ledger |-> KeepLatest(s.ledger, MaxKept),
           candidates |-> NormalizeCandidates(s.candidates),
           fatigue |-> s.fatigue, threshold |-> IF s.threshold >= 1 THEN s.threshold ELSE 1,
           novelty |-> 0]
  BY NormalizeIs
<1> HIDE DEF n
<1>2. s.ledger \in SUBSET Nat /\ IsFiniteSet(s.ledger) /\ MaxKept \in Nat
  BY SnapshotAssumption DEF IsProfileState
<1>3. /\ n.ledger \subseteq s.ledger /\ IsFiniteSet(n.ledger)
      /\ KeepLatest(n.ledger, MaxKept) = n.ledger
  BY <1>1, <1>2, KeptAre
<1>4. \A c \in s.candidates :
        /\ NormalizeCandidate(c) =
             [id |-> c.id, updated |-> c.updated,
              decayed |-> IF c.decayed = NoField THEN c.updated ELSE c.decayed]
        /\ NormalizeCandidate(NormalizeCandidate(c)) = NormalizeCandidate(c)
        /\ c.updated \in Nat
  BY CandidateNormalized DEF IsProfileState
<1>5. ASSUME NEW d \in n.candidates
      PROVE  /\ d = [id |-> d.id, updated |-> d.updated, decayed |-> d.decayed]
             /\ d.updated \in Nat /\ NormalizeCandidate(d) = d
  <2>1. PICK c \in s.candidates : d = NormalizeCandidate(c)
    BY <1>1 DEF NormalizeCandidates
  <2> QED
    BY <1>4, <2>1
<1>6. s.threshold \in Int /\ n.threshold \in Int /\ n.threshold >= 1
  BY <1>1 DEF IsProfileState
<1>7. IsProfileState(n)
  BY <1>1, <1>3, <1>5, <1>6 DEF IsProfileState
<1>8. NormalizeState(n) = n
  <2>1. NormalizeCandidates(n.candidates) = n.candidates
    BY <1>5 DEF NormalizeCandidates
  <2>2. NormalizeState(n) =
          [events |-> n.events, ledger |-> KeepLatest(n.ledger, MaxKept),
           candidates |-> NormalizeCandidates(n.candidates),
           fatigue |-> n.fatigue, threshold |-> IF n.threshold >= 1 THEN n.threshold ELSE 1,
           novelty |-> 0]
    BY <1>7, NormalizeIs
  <2>3. n.novelty = 0
    BY <1>1
  <2>4. n = [events |-> n.events, ledger |-> n.ledger, candidates |-> n.candidates,
             fatigue |-> n.fatigue, threshold |-> n.threshold, novelty |-> n.novelty]
    BY <1>7 DEF IsProfileState
  <2> QED
    BY <1>3, <1>6, <2>1, <2>2, <2>3, <2>4
<1>9. {[id |-> c.id, decayed |-> c.decayed] : c \in n.candidates} =
      {[id |-> c.id, decayed |-> IF c.decayed = NoField THEN c.updated ELSE c.decayed] :
         c \in s.candidates}
  <2>1. n.candidates = NormalizeCandidates(s.candidates)
    BY <1>1
  <2>2. {[id |-> c.id, decayed |-> c.decayed] : c \in n.candidates} =
        {[id |-> NormalizeCandidate(c).id, decayed |-> NormalizeCandidate(c).decayed] :
           c \in s.candidates}
    BY <2>1 DEF NormalizeCandidates
  <2>3. \A c \in s.candidates :
          /\ NormalizeCandidate(c).id = c.id
          /\ NormalizeCandidate(c).decayed =
               IF c.decayed = NoField THEN c.updated ELSE c.decayed
    BY <1>4
  <2> QED
    BY <2>2, <2>3
<1> QED
  BY <1>1, <1>7, <1>8, <1>9 DEF n

SnapInv ==
  /\ DOMAIN disk \subseteq Profile /\ IsFiniteSet(DOMAIN disk)
  /\ \A p \in DOMAIN disk : IsProfileState(disk[p])
  /\ sent = [p \in Profile |-> sent[p]] /\ given = [p \in Profile |-> given[p]]
  /\ NothingIngestedIsLost /\ OnlyTheDefaultShares

\* The default profile that is not there gets the object of one that is.
LEMMA ImportIs ==
  ASSUME NEW d, DOMAIN d \subseteq Profile, IsFiniteSet(DOMAIN d)
  PROVE  LET m == ImportStoreSnapshot(d) IN
         /\ DOMAIN m.of = IF DOMAIN d = {} THEN {} ELSE DOMAIN d \cup {DefaultProfile}
         /\ \A q \in DOMAIN d : m.of[q] = q
         /\ \A q \in DOMAIN m.of : m.of[q] \in DOMAIN d
         /\ m.obj = [q \in DOMAIN d |-> NormalizeState(d[q])]
<1> DEFINE m == ImportStoreSnapshot(d)
           missing == IF DefaultProfile \in DOMAIN d \/ Named(d) = {} THEN {} ELSE {DefaultProfile}
           of == [p \in DOMAIN d \cup missing |->
                    IF p \in missing THEN CHOOSE q \in Fallback(d) : TRUE ELSE p]
<1>1. m = [of |-> of, obj |-> [q \in DOMAIN d |-> NormalizeState(d[q])]]
  BY DEF ImportStoreSnapshot
<1>2. DOMAIN d \cup missing = IF DOMAIN d = {} THEN {} ELSE DOMAIN d \cup {DefaultProfile}
  BY DEF Named
<1>3. \A q \in DOMAIN d : of[q] = q
  OBVIOUS
<1>4. ASSUME NEW q \in missing PROVE of[q] \in DOMAIN d
  <2>1. Named(d) # {} /\ Named(d) \subseteq DOMAIN d /\ Named(d) \in SUBSET Nat
        /\ IsFiniteSet(Named(d))
    BY <1>4, FS_Subset, SnapshotAssumption DEF Named
  <2>2. Fallback(d) = {Max(Named(d))} /\ Max(Named(d)) \in DOMAIN d
    BY <2>1, MaxIsThere DEF Fallback
  <2>3. (CHOOSE x \in Fallback(d) : TRUE) \in DOMAIN d
    BY <2>2
  <2> QED
    BY <1>4, <2>3
<1> HIDE DEF m, of, missing
<1>5. DOMAIN of = DOMAIN d \cup missing
  BY DEF of
<1> QED
  BY <1>1, <1>2, <1>3, <1>4, <1>5 DEF m

LoadedState(p) == GetProfileState(ImportStoreSnapshot(disk), p)

\* What an operation of a profile finds: each stored profile has an object of its
\* own, the normalized state, and a new one an empty one.
LEMMA LoadedIs ==
  ASSUME SnapInv, NEW p \in Profile
  PROVE  LET m == LoadedState(p) IN
         /\ m = [of |-> m.of, obj |-> m.obj] /\ p \in DOMAIN m.of
         /\ DOMAIN disk \subseteq DOMAIN m.of /\ DOMAIN m.of \subseteq Profile
         /\ IsFiniteSet(DOMAIN m.of)
         /\ m.obj = [q \in DOMAIN m.obj |-> m.obj[q]]
         /\ \A q \in DOMAIN m.of : m.of[q] \in DOMAIN m.obj
         /\ \A q \in DOMAIN m.of : q \in DOMAIN disk \/ q # DefaultProfile => m.of[q] = q
         /\ \A q \in DOMAIN m.obj :
              /\ IsProfileState(m.obj[q])
              /\ q \in DOMAIN disk => m.obj[q].events = disk[q].events
              /\ q \notin DOMAIN disk => m.obj[q].events = {}
<1> DEFINE i == ImportStoreSnapshot(disk)
           m == LoadedState(p)
<1>1. /\ DOMAIN i.of = IF DOMAIN disk = {} THEN {} ELSE DOMAIN disk \cup {DefaultProfile}
      /\ \A q \in DOMAIN disk : i.of[q] = q
      /\ \A q \in DOMAIN i.of : i.of[q] \in DOMAIN disk
      /\ i.obj = [q \in DOMAIN disk |-> NormalizeState(disk[q])]
  BY ImportIs DEF SnapInv
<1>2. i = [of |-> i.of, obj |-> i.obj]
  BY DEF ImportStoreSnapshot
<1>3. m = IF p \in DOMAIN i.of THEN i
          ELSE [of |-> [q \in DOMAIN i.of \cup {p} |-> IF q = p THEN p ELSE i.of[q]],
                obj |-> [q \in DOMAIN i.obj \cup {p} |-> IF q = p THEN EmptyState ELSE i.obj[q]]]
  BY DEF LoadedState, GetProfileState
<1> HIDE DEF i, m
<1>4. /\ DOMAIN i.of \subseteq Profile /\ IsFiniteSet(DOMAIN i.of) /\ DOMAIN disk \subseteq DOMAIN i.of
      /\ DOMAIN i.obj = DOMAIN disk
  <2>1. DOMAIN disk \subseteq Profile /\ IsFiniteSet(DOMAIN disk) /\ DefaultProfile \in Profile
    BY SnapshotAssumption DEF SnapInv
  <2>2. IsFiniteSet(DOMAIN disk \cup {DefaultProfile})
    BY <2>1, FS_AddElement
  <2> QED
    BY <1>1, <2>1, <2>2
<1>5. \A q \in DOMAIN i.obj : IsProfileState(i.obj[q]) /\ i.obj[q].events = disk[q].events
  BY <1>1, NormalizedState DEF SnapInv
<1>6. IsProfileState(EmptyState) /\ EmptyState.events = {}
  BY FS_EmptySet DEF EmptyState, IsProfileState
<1>7. CASE p \in DOMAIN i.of
  <2>1. m = i
    BY <1>3, <1>7
  <2>2. \A q \in DOMAIN i.of : q \in DOMAIN disk \/ q # DefaultProfile => i.of[q] = q
    BY <1>1
  <2>3. i.obj = [q \in DOMAIN i.obj |-> i.obj[q]]
    BY <1>1
  <2> QED
    BY <1>1, <1>2, <1>4, <1>5, <1>7, <2>1, <2>2, <2>3 DEF m
<1>8. CASE p \notin DOMAIN i.of
  <2>1. /\ m = [of |-> m.of, obj |-> m.obj]
        /\ m.of = [q \in DOMAIN i.of \cup {p} |-> IF q = p THEN p ELSE i.of[q]]
        /\ m.obj = [q \in DOMAIN i.obj \cup {p} |-> IF q = p THEN EmptyState ELSE i.obj[q]]
    BY <1>3, <1>8
  <2>2. IsFiniteSet(DOMAIN m.of) /\ DOMAIN m.of = DOMAIN i.of \cup {p}
    BY <1>4, <2>1, FS_AddElement
  <2>3. \A q \in DOMAIN m.of :
          /\ m.of[q] \in DOMAIN m.obj
          /\ q \in DOMAIN disk \/ q # DefaultProfile => m.of[q] = q
    BY <1>1, <1>4, <2>1
  <2>4. \A q \in DOMAIN m.obj :
          /\ IsProfileState(m.obj[q])
          /\ q \in DOMAIN disk => m.obj[q].events = disk[q].events
          /\ q \notin DOMAIN disk => m.obj[q].events = {}
    BY <1>4, <1>5, <1>6, <1>8, <2>1
  <2> QED
    BY <1>4, <2>1, <2>2, <2>3, <2>4 DEF m
<1> QED
  BY <1>7, <1>8

\* An operation that adds xs to the events of its profile.
LEMMA OperatedKeeps ==
  ASSUME SnapInv, NEW p \in Profile, NEW xs, NEW state, IsProfileState(state),
         state.events = StateOf(p).events \cup xs, disk' = Operated(p, state),
         sent' = [sent EXCEPT ![p] = @ \cup xs], UNCHANGED given
  PROVE  SnapInv'
<1> DEFINE m == LoadedState(p)
<1>1. /\ m = [of |-> m.of, obj |-> m.obj] /\ p \in DOMAIN m.of
      /\ DOMAIN disk \subseteq DOMAIN m.of /\ DOMAIN m.of \subseteq Profile
      /\ IsFiniteSet(DOMAIN m.of)
      /\ m.obj = [q \in DOMAIN m.obj |-> m.obj[q]]
      /\ \A q \in DOMAIN m.of : m.of[q] \in DOMAIN m.obj
      /\ \A q \in DOMAIN m.of : q \in DOMAIN disk \/ q # DefaultProfile => m.of[q] = q
      /\ \A q \in DOMAIN m.obj :
           /\ IsProfileState(m.obj[q])
           /\ q \in DOMAIN disk => m.obj[q].events = disk[q].events
           /\ q \notin DOMAIN disk => m.obj[q].events = {}
  BY LoadedIs
<1>2. StateOf(p) = m.obj[m.of[p]]
  BY DEF StateOf, LoadedState
<1>3. disk' = ExportStoreSnapshot([m EXCEPT !.obj[m.of[p]] = state])
  BY DEF Operated, LoadedState
<1> HIDE DEF m
<1> DEFINE obj == [m.obj EXCEPT ![m.of[p]] = state]
<1>4. [m EXCEPT !.obj[m.of[p]] = state] = [of |-> m.of, obj |-> obj]
  BY <1>1
<1>5. disk' = [q \in DOMAIN m.of |-> obj[m.of[q]]]
  BY <1>3, <1>4 DEF ExportStoreSnapshot
<1>6. \A q \in DOMAIN m.of : disk'[q] = IF m.of[q] = m.of[p] THEN state ELSE m.obj[m.of[q]]
  BY <1>1, <1>5
<1>7. DOMAIN disk' = DOMAIN m.of
  BY <1>5
<1> HIDE DEF obj
<1>8. /\ sent' = [q \in Profile |-> sent'[q]] /\ given' = [q \in Profile |-> given'[q]]
      /\ sent'[p] = sent[p] \cup xs /\ \A q \in Profile : q # p => sent'[q] = sent[q]
  BY DEF SnapInv
<1>9. \A q \in DOMAIN disk' : IsProfileState(disk'[q])
  BY <1>1, <1>6, <1>7
<1>10. NothingIngestedIsLost'
  <2> SUFFICES ASSUME NEW q \in Profile, sent'[q] \cup given[q] # {}
               PROVE  q \in DOMAIN disk' /\ sent'[q] \cup given[q] \subseteq disk'[q].events
    BY DEF NothingIngestedIsLost
  <2>1. CASE q = p
    <3>1. p \in DOMAIN disk' /\ disk'[p].events = m.obj[m.of[p]].events \cup xs
      BY <1>1, <1>2, <1>6, <1>7
    <3>2. sent[p] \cup given[p] \subseteq m.obj[m.of[p]].events
      <4>1. CASE sent[p] \cup given[p] = {}
        BY <4>1
      <4>2. CASE sent[p] \cup given[p] # {}
        <5>1. p \in DOMAIN disk /\ sent[p] \cup given[p] \subseteq disk[p].events
          BY <4>2 DEF SnapInv, NothingIngestedIsLost
        <5> QED
          BY <1>1, <5>1
      <4> QED
        BY <4>1, <4>2
    <3> QED
      BY <1>8, <2>1, <3>1, <3>2
  <2>2. CASE q # p
    <3>1. q \in DOMAIN disk /\ sent[q] \cup given[q] \subseteq disk[q].events
      BY <1>8, <2>2 DEF SnapInv, NothingIngestedIsLost
    <3>2. q \in DOMAIN m.of /\ m.of[q] = q /\ m.obj[q].events = disk[q].events
      BY <1>1, <3>1
    <3>3. disk[q].events \subseteq disk'[q].events
      BY <1>2, <1>6, <3>2
    <3> QED
      BY <1>7, <1>8, <2>2, <3>1, <3>2, <3>3
  <2> QED
    BY <2>1, <2>2
<1>11. OnlyTheDefaultShares'
  <2> SUFFICES ASSUME NEW q \in DOMAIN disk', q # DefaultProfile
               PROVE  disk'[q].events \subseteq
                        (sent'[q] \cup given[q]) \cup
                        (sent'[DefaultProfile] \cup given[DefaultProfile])
    BY DEF OnlyTheDefaultShares
  <2>1. q \in DOMAIN m.of /\ q \in Profile /\ m.of[q] = q /\ q \in DOMAIN m.obj
    BY <1>1, <1>7
  <2>2. DefaultProfile \in Profile
    BY SnapshotAssumption
  <2>3. m.obj[q].events \subseteq
          (sent[q] \cup given[q]) \cup (sent[DefaultProfile] \cup given[DefaultProfile])
    BY <1>1, <2>1 DEF SnapInv, OnlyTheDefaultShares
  <2>4. CASE m.of[p] = q
    <3>1. p = q \/ p = DefaultProfile
      BY <1>1, <2>4
    <3>2. disk'[q].events = m.obj[q].events \cup xs
      BY <1>2, <1>6, <2>1, <2>4
    <3> QED
      BY <1>8, <2>1, <2>2, <2>3, <3>1, <3>2
  <2>5. CASE m.of[p] # q
    <3>1. disk'[q] = m.obj[q]
      BY <1>6, <2>1, <2>5
    <3> QED
      BY <1>8, <2>1, <2>2, <2>3, <3>1
  <2> QED
    BY <2>4, <2>5
<1> QED
  BY <1>1, <1>7, <1>8, <1>9, <1>10, <1>11 DEF SnapInv

LEMMA StateOfIs == ASSUME SnapInv, NEW p \in Profile PROVE IsProfileState(StateOf(p))
BY LoadedIs DEF StateOf, LoadedState

LEMMA SnapStep == SnapInv /\ [SnapshotNext]_snapshotVars => SnapInv'
<1> SUFFICES ASSUME SnapInv, [SnapshotNext]_snapshotVars PROVE SnapInv'
  OBVIOUS
<1>1. CASE UNCHANGED snapshotVars
  BY <1>1 DEF snapshotVars, SnapInv, NothingIngestedIsLost, OnlyTheDefaultShares
<1>2. ASSUME NEW p \in Profile, NEW e \in SnapEvent, IngestInto(p, e) PROVE SnapInv'
  <2> DEFINE s == StateOf(p)
             E == s.events \cup {e}
             state == [s EXCEPT !.events = E]
  <2>1. IsProfileState(s)
    BY StateOfIs
  <2>2. disk' = Operated(p, state) /\ sent' = [sent EXCEPT ![p] = @ \cup {e}] /\ UNCHANGED given
    BY <1>2 DEF IngestInto
  <2> HIDE DEF s
  <2> HIDE DEF E
  <2>3. state = [events |-> E, ledger |-> s.ledger, candidates |-> s.candidates,
                 fatigue |-> s.fatigue, threshold |-> s.threshold, novelty |-> s.novelty]
    BY <2>1 DEF IsProfileState
  <2> HIDE DEF state
  <2>4. IsProfileState(state) /\ state.events = s.events \cup {e}
    BY <2>1, <2>3 DEF IsProfileState, E
  <2> QED
    BY <2>2, <2>4, OperatedKeeps DEF s
<1>3. ASSUME NEW p \in Profile, NEW a \in SnapAdjustment, AdjustIn(p, a) PROVE SnapInv'
  <2> DEFINE s == StateOf(p)
             L == KeepLatest(s.ledger \cup {a}, MaxKept)
             state == [s EXCEPT !.ledger = L]
  <2>1. IsProfileState(s)
    BY StateOfIs
  <2>2. disk' = Operated(p, state) /\ UNCHANGED <<sent, given>>
    BY <1>3 DEF AdjustIn
  <2> HIDE DEF s
  <2>3. s.ledger \cup {a} \in SUBSET Nat /\ IsFiniteSet(s.ledger \cup {a}) /\ MaxKept \in Nat
    BY <2>1, FS_AddElement, SnapshotAssumption DEF IsProfileState
  <2>4. L \subseteq s.ledger \cup {a} /\ IsFiniteSet(L)
    BY <2>3, KeptAre
  <2> HIDE DEF L
  <2>5. state = [events |-> s.events, ledger |-> L, candidates |-> s.candidates,
                 fatigue |-> s.fatigue, threshold |-> s.threshold, novelty |-> s.novelty]
    BY <2>1 DEF IsProfileState
  <2> HIDE DEF state
  <2>6. IsProfileState(state) /\ state.events = s.events \cup {}
    BY <2>1, <2>4, <2>5 DEF IsProfileState
  <2>7. sent' = [sent EXCEPT ![p] = @ \cup {}]
    BY <2>2 DEF SnapInv
  <2> QED
    BY <2>2, <2>6, <2>7, OperatedKeeps DEF s
<1>4. ASSUME NEW p \in Profile, NoteNovelty(p) PROVE SnapInv'
  <2> DEFINE s == StateOf(p)
             u == [s EXCEPT !.novelty = 1]
             state == [u EXCEPT !.fatigue = 1]
  <2>1. IsProfileState(s)
    BY StateOfIs
  <2>2. disk' = Operated(p, state) /\ UNCHANGED <<sent, given>>
    BY <1>4 DEF NoteNovelty
  <2> HIDE DEF s
  <2>3. u = [events |-> s.events, ledger |-> s.ledger, candidates |-> s.candidates,
             fatigue |-> s.fatigue, threshold |-> s.threshold, novelty |-> 1]
    BY <2>1 DEF IsProfileState
  <2> HIDE DEF u
  <2>4. state = [events |-> s.events, ledger |-> s.ledger, candidates |-> s.candidates,
                 fatigue |-> 1, threshold |-> s.threshold, novelty |-> 1]
    BY <2>3
  <2> HIDE DEF state
  <2>5. IsProfileState(state) /\ state.events = s.events \cup {}
    BY <2>1, <2>4 DEF IsProfileState
  <2>6. sent' = [sent EXCEPT ![p] = @ \cup {}]
    BY <2>2 DEF SnapInv
  <2> QED
    BY <2>2, <2>5, <2>6, OperatedKeeps DEF s
<1> QED
  BY <1>1, <1>2, <1>3, <1>4 DEF SnapshotNext

LEMMA SnapInit == SnapshotInit => SnapInv
<1> SUFFICES ASSUME SnapshotInit PROVE SnapInv
  OBVIOUS
<1>1. /\ DOMAIN disk \subseteq Profile /\ IsFiniteSet(DOMAIN disk)
      /\ \A p \in DOMAIN disk : IsProfileState(disk[p])
  <2>1. CASE disk \in LegacySnapshots
    BY <2>1, SnapshotAssumption
  <2>2. CASE disk = <<>>
    BY <2>2, FS_EmptySet
  <2> QED
    BY <2>1, <2>2 DEF SnapshotInit
<1>2. /\ given = [p \in Profile |-> IF p \in DOMAIN disk THEN disk[p].events ELSE {}]
      /\ sent = [p \in Profile |-> {}]
  BY DEF SnapshotInit
<1>3. given = [p \in Profile |-> given[p]] /\ sent = [p \in Profile |-> sent[p]]
  BY <1>2
<1>4. NothingIngestedIsLost
  BY <1>2 DEF NothingIngestedIsLost
<1>5. OnlyTheDefaultShares
  BY <1>1, <1>2, SnapshotAssumption DEF OnlyTheDefaultShares
<1> QED
  BY <1>1, <1>3, <1>4, <1>5 DEF SnapInv

LEMMA SnapInductive == SnapshotSpec => []SnapInv
BY SnapInit, SnapStep, PTL DEF SnapshotSpec

\* What is imported and stored again is stored the same the next time.
LEMMA StoredIsStable == SnapInv => StoredStateIsStable
<1> SUFFICES ASSUME SnapInv PROVE StoredStateIsStable
  OBVIOUS
<1> DEFINE i == ImportStoreSnapshot(disk)
           again == ExportStoreSnapshot(i)
           j == ImportStoreSnapshot(again)
<1>1. /\ DOMAIN i.of = IF DOMAIN disk = {} THEN {} ELSE DOMAIN disk \cup {DefaultProfile}
      /\ \A q \in DOMAIN disk : i.of[q] = q
      /\ \A q \in DOMAIN i.of : i.of[q] \in DOMAIN disk
      /\ i.obj = [q \in DOMAIN disk |-> NormalizeState(disk[q])]
  BY ImportIs DEF SnapInv
<1>2. again = [q \in DOMAIN i.of |-> i.obj[i.of[q]]]
  BY DEF ExportStoreSnapshot
<1> HIDE DEF i
<1>3. /\ DOMAIN again = DOMAIN i.of /\ DOMAIN again \subseteq Profile /\ IsFiniteSet(DOMAIN again)
      /\ \A q \in DOMAIN again : i.of[q] \in DOMAIN disk
                                /\ again[q] = NormalizeState(disk[i.of[q]])
  BY <1>1, <1>2, FS_AddElement, FS_EmptySet, SnapshotAssumption DEF SnapInv
<1> HIDE DEF again
<1>4. /\ DOMAIN j.of = IF DOMAIN again = {} THEN {} ELSE DOMAIN again \cup {DefaultProfile}
      /\ \A q \in DOMAIN again : j.of[q] = q
      /\ j.obj = [q \in DOMAIN again |-> NormalizeState(again[q])]
  BY <1>3, ImportIs
<1> HIDE DEF j
<1>5. DOMAIN j.of = DOMAIN again
  BY <1>1, <1>3, <1>4
<1>6. \A q \in DOMAIN again : NormalizeState(again[q]) = again[q]
  BY <1>3, NormalizedState DEF SnapInv
<1>7. ExportStoreSnapshot(j) = again
  <2>1. ExportStoreSnapshot(j) = [q \in DOMAIN again |-> again[q]]
    BY <1>4, <1>5, <1>6 DEF ExportStoreSnapshot
  <2>2. again = [q \in DOMAIN again |-> again[q]]
    BY <1>2
  <2> QED
    BY <2>1, <2>2
<1>8. \A p \in DOMAIN disk : p \in DOMAIN again /\ again[p] = NormalizeState(disk[p])
  BY <1>1, <1>3
<1>9. \A p \in DOMAIN disk : again[p].fatigue = disk[p].fatigue
  BY <1>8, NormalizedState DEF SnapInv
<1>10. \A p \in DOMAIN disk :
         {[id |-> c.id, decayed |-> c.decayed] : c \in again[p].candidates} =
         {[id |-> c.id, decayed |-> IF c.decayed = NoField THEN c.updated ELSE c.decayed] :
            c \in disk[p].candidates}
  BY <1>8, NormalizedState DEF SnapInv
<1> QED
  BY <1>7, <1>9, <1>10 DEF StoredStateIsStable, again, i, j

LEMMA SnapInvIsRight == SnapInv => SnapshotTypeOK /\ SnapshotsAreRight
BY StoredIsStable DEF SnapInv, SnapshotTypeOK, SnapshotsAreRight, IsProfileState

\* The snapshot keeps what was ingested, no named profile's with another named one
\* (the default may share with one), and is imported and stored as the same again.
THEOREM SnapshotRight == SnapshotSpec => [](SnapshotTypeOK /\ SnapshotsAreRight)
BY SnapInductive, SnapInvIsRight, PTL

-----------------------------------------------------------------------------
(* MemoryWeights                                                            *)

EntryOrder(S) == {e \in S \X S : Sooner(e[2], e[1])}
EventOrder(S) == {e \in S \X S : AuditedSooner(e[2], e[1])}

\* The ledger is cut to its latest entries, which have ids of their own.
LEMMA LastOfIs ==
  ASSUME NEW S, IsFiniteSet(S), NEW n \in Nat, \A x \in S : x.at \in Nat /\ x.id \in Nat,
         \A x, y \in S : x.id = y.id => x = y
  PROVE  LastOf(S, n) \subseteq S /\ IsFiniteSet(LastOf(S, n)) /\ Cardinality(LastOf(S, n)) <= n
<1>1. \A x, y \in S : <<x, y>> \in EntryOrder(S) <=> Sooner(y, x)
  BY DEF EntryOrder
<1>2. IsOrder(EntryOrder(S), S)
  <2>1. \A x \in S : ~Sooner(x, x)
    BY DEF Sooner
  <2>2. \A x, y, z \in S : Sooner(y, x) /\ Sooner(z, y) => Sooner(z, x)
    BY DEF Sooner
  <2>3. \A x, y \in S : x # y => Sooner(y, x) \/ Sooner(x, y)
    <3> SUFFICES ASSUME NEW x \in S, NEW y \in S, x # y PROVE Sooner(y, x) \/ Sooner(x, y)
      OBVIOUS
    <3>1. x.id # y.id
      OBVIOUS
    <3> QED
      BY <3>1 DEF Sooner
  <2> QED
    BY <1>1, <2>1, <2>2, <2>3 DEF IsOrder
<1>3. \A x \in S : Ahead(EntryOrder(S), S, x) = {y \in S : Sooner(x, y)}
  BY <1>1 DEF Ahead
<1>4. LastOf(S, n) = FirstOf(EntryOrder(S), S, n)
  BY <1>3 DEF LastOf, FirstOf
<1>5. Cardinality(S) \in Nat
  BY FS_CardinalityType
<1> QED
  BY <1>2, <1>4, <1>5, FirstAre

LEMMA LastEventsAre ==
  ASSUME NEW S \in SUBSET WeightEvents, IsFiniteSet(S), NEW n \in Nat
  PROVE  /\ LastEvents(S, n) \subseteq S /\ IsFiniteSet(LastEvents(S, n))
         /\ Cardinality(LastEvents(S, n)) <= n
<1>1. \A x, y \in S : <<x, y>> \in EventOrder(S) <=> AuditedSooner(y, x)
  BY DEF EventOrder
<1>2. \A x \in S : x.at \in Nat /\ AuditName(x) \in Int
  BY WeightsAssumption, AuditNameAssumption
  DEF WeightEvents, AdjustmentEvent, OutcomeEvent, RankingEvent
<1>3. IsOrder(EventOrder(S), S)
  <2>1. \A x \in S : ~AuditedSooner(x, x)
    BY <1>2 DEF AuditedSooner
  <2>2. \A x, y, z \in S : AuditedSooner(y, x) /\ AuditedSooner(z, y) => AuditedSooner(z, x)
    BY <1>2 DEF AuditedSooner
  <2>3. \A x, y \in S : x # y => AuditedSooner(y, x) \/ AuditedSooner(x, y)
    <3> SUFFICES ASSUME NEW x \in S, NEW y \in S, x # y
                 PROVE  AuditedSooner(y, x) \/ AuditedSooner(x, y)
      OBVIOUS
    <3>1. AuditName(x) # AuditName(y) \/ x.at # y.at
      BY AuditNameAssumption
    <3> QED
      BY <1>2, <3>1 DEF AuditedSooner
  <2> QED
    BY <1>1, <2>1, <2>2, <2>3 DEF IsOrder
<1>4. \A x \in S : Ahead(EventOrder(S), S, x) = {y \in S : AuditedSooner(x, y)}
  BY <1>1 DEF Ahead
<1>5. LastEvents(S, n) = FirstOf(EventOrder(S), S, n)
  BY <1>4 DEF LastEvents, FirstOf
<1>6. Cardinality(S) \in Nat
  BY FS_CardinalityType
<1> QED
  BY <1>3, <1>5, <1>6, FirstAre

LEMMA ClampedIs == ASSUME NEW x \in Int PROVE Clamp01(x) \in 0..MaxScore
<1>1. MaxScore \in Nat
  BY WeightsAssumption
<1> DEFINE m == IF x < MaxScore THEN x ELSE MaxScore
<1>2. Min({x, MaxScore}) = m /\ m \in Int /\ m <= MaxScore
  BY <1>1, MinOfTwo
<1> HIDE DEF m
<1>3. Max({0, m}) = IF 0 > m THEN 0 ELSE m
  BY <1>2, MaxOfTwo
<1> QED
  BY <1>1, <1>2, <1>3 DEF Clamp01

-----------------------------------------------------------------------------
Weight == [confidence : 0..MaxScore, utility : 0..MaxScore,
           signal : {0} \cup {r.id : r \in Outcomes}]
WeightState ==
  [cands : [WCand -> Weight], rules : [WRule -> Weight], outcomes : SUBSET Outcomes,
   ledger : SUBSET {LedgerEntry(r) : r \in Adjustments}, audit : SUBSET WeightEvents,
   ranking : Rankings]

\* The lists keep to their bounds, the ledger has an entry for an id, and a rule
\* weighs what its candidate does.
WeightsKept(s) ==
  /\ s \in WeightState
  /\ IsFiniteSet(s.outcomes) /\ IsFiniteSet(s.ledger) /\ IsFiniteSet(s.audit)
  /\ Cardinality(s.ledger) <= MaxLedger /\ Cardinality(s.audit) <= MaxTrail
  /\ \A x, y \in s.ledger : x.id = y.id => x = y
  /\ \A c \in WCand : WRuleOf[c] # NoWRule => s.rules[WRuleOf[c]] = s.cands[c]

LEMMA AuditedKept ==
  ASSUME NEW s, WeightsKept(s), NEW e \in WeightEvents
  PROVE  /\ WeightsKept(AppendPolicyAuditTrail(s, e))
         /\ AppendPolicyAuditTrail(s, e) =
              [s EXCEPT !.audit = LastEvents(s.audit \cup {e}, MaxTrail)]
<1> DEFINE A == LastEvents(s.audit \cup {e}, MaxTrail)
           t == [s EXCEPT !.audit = A]
<1>1. t = AppendPolicyAuditTrail(s, e)
  BY DEF AppendPolicyAuditTrail
<1>2. s.audit \cup {e} \in SUBSET WeightEvents /\ IsFiniteSet(s.audit \cup {e}) /\ MaxTrail \in Nat
  BY FS_AddElement, WeightsAssumption DEF WeightsKept, WeightState
<1>3. A \in SUBSET WeightEvents /\ IsFiniteSet(A) /\ Cardinality(A) <= MaxTrail
  BY <1>2, LastEventsAre
<1> HIDE DEF A
<1>4. /\ t \in WeightState /\ t.audit = A /\ t.cands = s.cands /\ t.rules = s.rules
      /\ t.outcomes = s.outcomes /\ t.ledger = s.ledger
  BY <1>3 DEF WeightsKept, WeightState
<1> HIDE DEF t
<1>5. WeightsKept(t)
  BY <1>3, <1>4 DEF WeightsKept
<1> QED
  BY <1>1, <1>5 DEF t, A

LEMMA LedgerKept ==
  ASSUME NEW s, WeightsKept(s), NEW r \in Adjustments
  PROVE  LET t == UpsertWeightAdjustmentLedgerEntry(s, r)
         IN WeightsKept(t) /\ t.cands = s.cands /\ t.rules = s.rules
<1> DEFINE found == FindWeightAdjustmentLedgerEntry(s, r.id)
           S == IF found # {} THEN s.ledger ELSE s.ledger \cup {LedgerEntry(r)}
           L == LastOf(S, MaxLedger)
           t == [s EXCEPT !.ledger = L]
<1>1. t = UpsertWeightAdjustmentLedgerEntry(s, r)
  BY DEF UpsertWeightAdjustmentLedgerEntry
<1>2. S \in SUBSET {LedgerEntry(q) : q \in Adjustments} /\ IsFiniteSet(S) /\ MaxLedger \in Nat
  BY FS_AddElement, WeightsAssumption DEF WeightsKept, WeightState
<1>3. \A x \in S : x.at \in Nat /\ x.id \in Nat
  BY <1>2, WeightsAssumption DEF LedgerEntry
<1>4. \A x, y \in S : x.id = y.id => x = y
  BY DEF WeightsKept, FindWeightAdjustmentLedgerEntry, LedgerEntry
<1> HIDE DEF S
<1>5. L \subseteq S /\ IsFiniteSet(L) /\ Cardinality(L) <= MaxLedger
  BY <1>2, <1>3, <1>4, LastOfIs
<1> HIDE DEF L
<1>6. /\ t \in WeightState /\ t.ledger = L /\ t.cands = s.cands /\ t.rules = s.rules
      /\ t.outcomes = s.outcomes /\ t.audit = s.audit
  BY <1>2, <1>5 DEF WeightsKept, WeightState
<1> HIDE DEF t
<1>7. WeightsKept(t)
  BY <1>4, <1>5, <1>6 DEF WeightsKept
<1> QED
  BY <1>1, <1>6, <1>7

LEMMA ConfidenceKept ==
  ASSUME NEW s, WeightsKept(s), NEW c \in WCand, NEW x \in 0..MaxScore
  PROVE  WeightsKept(WithConfidence(s, c, x))
<1> DEFINE C == [s.cands EXCEPT ![c].confidence = x]
           R == [r \in WRule |-> IF r = WRuleOf[c]
                                 THEN [s.rules[r] EXCEPT !.confidence = x] ELSE s.rules[r]]
           u == [s EXCEPT !.cands = C]
           t == [u EXCEPT !.rules = R]
<1>1. t = WithConfidence(s, c, x)
  BY DEF WithConfidence
<1>2. s.cands \in [WCand -> Weight] /\ s.rules \in [WRule -> Weight]
  BY DEF WeightsKept, WeightState
<1>3. C \in [WCand -> Weight] /\ R \in [WRule -> Weight]
  BY <1>2 DEF Weight
<1>4. \A d \in WCand : WRuleOf[d] # NoWRule => R[WRuleOf[d]] = C[d]
  <2> SUFFICES ASSUME NEW d \in WCand, WRuleOf[d] # NoWRule PROVE R[WRuleOf[d]] = C[d]
    OBVIOUS
  <2>1. WRuleOf[d] \in WRule /\ s.rules[WRuleOf[d]] = s.cands[d]
    BY WeightsAssumption DEF WeightsKept
  <2>2. CASE d = c
    BY <1>2, <2>1, <2>2
  <2>3. CASE d # c
    <3>1. WRuleOf[d] # WRuleOf[c]
      BY <2>3, WeightsAssumption
    <3> QED
      BY <1>2, <2>1, <2>3, <3>1
  <2> QED
    BY <2>2, <2>3
<1> HIDE DEF C, R
<1>5. u \in WeightState /\ u.cands = C
      /\ u.outcomes = s.outcomes /\ u.ledger = s.ledger /\ u.audit = s.audit
  BY <1>3 DEF WeightsKept, WeightState
<1> HIDE DEF u
<1>6. /\ t \in WeightState /\ t.cands = C /\ t.rules = R
      /\ t.outcomes = s.outcomes /\ t.ledger = s.ledger /\ t.audit = s.audit
  BY <1>3, <1>5 DEF WeightState
<1> HIDE DEF t
<1>7. WeightsKept(t)
  BY <1>4, <1>6 DEF WeightsKept
<1> QED
  BY <1>1, <1>7

LEMMA AddWeightKept ==
  ASSUME NEW s, WeightsKept(s), NEW r \in Adjustments
  PROVE  /\ WeightsKept(RunAddWeight(s, r))
         /\ ~AddWeightApplies(s, r) => /\ RunAddWeight(s, r).cands = s.cands
                                       /\ RunAddWeight(s, r).rules = s.rules
<1> DEFINE x == Clamp01(s.cands[r.cand].confidence + r.delta)
           u == WithConfidence(s, r.cand, x)
           v == AppendPolicyAuditTrail(u, AdjustmentEvent(r))
           inLedger == FindWeightAdjustmentLedgerEntry(s, r.id)
           inTrail == FindExistingAddWeightAuditEvent(s, r.id)
           t == RunAddWeight(s, r)
<1>1. r.cand \in WCand /\ AdjustmentEvent(r) \in WeightEvents
  BY WeightsAssumption DEF WeightEvents
<1>2. x \in 0..MaxScore
  <2>1. s.cands[r.cand].confidence + r.delta \in Int
    BY <1>1, WeightsAssumption DEF WeightsKept, WeightState, Weight
  <2> QED
    BY <2>1, ClampedIs
<1> HIDE DEF x
<1>3. WeightsKept(u)
  BY <1>1, <1>2, ConfidenceKept
<1> HIDE DEF u
<1>4. WeightsKept(v)
  BY <1>1, <1>3, AuditedKept
<1> HIDE DEF v
<1>5. CASE inLedger # {}
  BY <1>5 DEF RunAddWeight, AddWeightApplies
<1>6. CASE inLedger = {} /\ inTrail # {}
  <2>1. t = s \/ t = UpsertWeightAdjustmentLedgerEntry(s, r)
    BY <1>6 DEF RunAddWeight
  <2> QED
    BY <1>6, <2>1, LedgerKept
<1>7. CASE inLedger = {} /\ inTrail = {}
  <2>1. t = UpsertWeightAdjustmentLedgerEntry(v, r)
    BY <1>7 DEF RunAddWeight, v, u, x
  <2> QED
    BY <1>4, <1>7, <2>1, LedgerKept DEF AddWeightApplies
<1> QED
  BY <1>5, <1>6, <1>7

LEMMA WeightSignalKept ==
  ASSUME NEW s, WeightsKept(s), NEW r \in Outcomes, NEW delta \in Int
  PROVE  WeightsKept(ApplyUtilitySignal(s, r.rules, r.id, delta))
<1> DEFINE moved(e) == IF e.signal = r.id THEN e
                       ELSE [e EXCEPT !.utility = Clamp01(@ + delta), !.signal = r.id]
           C == [c \in WCand |-> IF WRuleOf[c] \in r.rules THEN moved(s.cands[c]) ELSE s.cands[c]]
           R == [q \in WRule |-> IF q \in r.rules THEN moved(s.rules[q]) ELSE s.rules[q]]
           u == [s EXCEPT !.cands = C]
           t == [u EXCEPT !.rules = R]
<1>1. t = ApplyUtilitySignal(s, r.rules, r.id, delta)
  BY DEF ApplyUtilitySignal
<1>2. s.cands \in [WCand -> Weight] /\ s.rules \in [WRule -> Weight]
  BY DEF WeightsKept, WeightState
<1>3. ASSUME NEW e \in Weight PROVE moved(e) \in Weight
  <2>1. Clamp01(e.utility + delta) \in 0..MaxScore
    BY ClampedIs DEF Weight
  <2> QED
    BY <2>1 DEF Weight
<1> HIDE DEF moved
<1>4. C \in [WCand -> Weight] /\ R \in [WRule -> Weight]
  BY <1>2, <1>3
<1>5. \A d \in WCand : WRuleOf[d] # NoWRule => R[WRuleOf[d]] = C[d]
  <2> SUFFICES ASSUME NEW d \in WCand, WRuleOf[d] # NoWRule PROVE R[WRuleOf[d]] = C[d]
    OBVIOUS
  <2>1. WRuleOf[d] \in WRule /\ s.rules[WRuleOf[d]] = s.cands[d]
    BY WeightsAssumption DEF WeightsKept
  <2> QED
    BY <2>1
<1> HIDE DEF C, R
<1>6. u \in WeightState /\ u.cands = C
      /\ u.outcomes = s.outcomes /\ u.ledger = s.ledger /\ u.audit = s.audit
  BY <1>4 DEF WeightsKept, WeightState
<1> HIDE DEF u
<1>7. /\ t \in WeightState /\ t.cands = C /\ t.rules = R
      /\ t.outcomes = s.outcomes /\ t.ledger = s.ledger /\ t.audit = s.audit
  BY <1>4, <1>6 DEF WeightState
<1> HIDE DEF t
<1>8. WeightsKept(t)
  BY <1>5, <1>7 DEF WeightsKept
<1> QED
  BY <1>1, <1>8

LEMMA OutcomeKept ==
  ASSUME NEW s, WeightsKept(s), NEW r \in Outcomes
  PROVE  WeightsKept(RunOutcome(s, r))
<1> DEFINE O == (s.outcomes \ StoredOutcome(s, r.id)) \cup {r}
           u == [s EXCEPT !.outcomes = O]
           delta == IF r.failed THEN -1 ELSE 1
           v == ApplyUtilitySignal(u, r.rules, r.id, delta)
<1>1. O \in SUBSET Outcomes /\ IsFiniteSet(O)
  BY FS_AddElement, FS_Difference, FS_Subset DEF WeightsKept, WeightState
<1>2. RunOutcome(s, r) = IF r \in s.outcomes THEN s ELSE AppendPolicyAuditTrail(v, OutcomeEvent(r))
  BY DEF RunOutcome
<1>3. delta \in Int /\ OutcomeEvent(r) \in WeightEvents
  BY DEF WeightEvents
<1> HIDE DEF O, delta
<1>4. /\ u \in WeightState /\ u.outcomes = O /\ u.cands = s.cands /\ u.rules = s.rules
      /\ u.ledger = s.ledger /\ u.audit = s.audit
  BY <1>1 DEF WeightsKept, WeightState
<1> HIDE DEF u
<1>5. WeightsKept(u)
  BY <1>1, <1>4 DEF WeightsKept
<1>6. WeightsKept(v)
  BY <1>3, <1>5, WeightSignalKept
<1> HIDE DEF v
<1> QED
  BY <1>2, <1>3, <1>6, AuditedKept

LEMMA RankingKept ==
  ASSUME NEW s, WeightsKept(s), NEW r \in RankingRequests
  PROVE  WeightsKept(RunAttributionRankingPolicy(s, r))
<1> DEFINE next == IF r.mode = "check" THEN s.ranking ELSE RankingSet(r)
           u == [s EXCEPT !.ranking = next]
<1>1. RunAttributionRankingPolicy(s, r) = AppendPolicyAuditTrail(u, RankingEvent(r, next))
  BY DEF RunAttributionRankingPolicy
<1>2. next \in Rankings /\ RankingEvent(r, next) \in WeightEvents
  <2>1. s.ranking \in Rankings
    BY DEF WeightsKept, WeightState
  <2>2. next \in Rankings
    BY <2>1 DEF Rankings
  <2> QED
    BY <2>2 DEF WeightEvents
<1> HIDE DEF next
<1>3. /\ u \in WeightState /\ u.outcomes = s.outcomes /\ u.cands = s.cands /\ u.rules = s.rules
      /\ u.ledger = s.ledger /\ u.audit = s.audit
  BY <1>2 DEF WeightsKept, WeightState
<1> HIDE DEF u
<1>4. WeightsKept(u)
  BY <1>3 DEF WeightsKept
<1> QED
  BY <1>1, <1>2, <1>4, AuditedKept

-----------------------------------------------------------------------------
\* An adjustment that neither list has forgotten was applied once.
WeightsInv ==
  /\ WeightsKept(w) /\ applied \in [AdjustmentIds -> Nat]
  /\ \A a \in AdjustmentIds \ forgotten :
       applied[a] > 0 => applied[a] = 1 /\ a \in Remembered(w)

LEMMA WeightsInvInit == WeightsInit => WeightsInv
<1> SUFFICES ASSUME WeightsInit PROVE WeightsInv
  OBVIOUS
<1>1. MaxScore \in Nat /\ MaxLedger \in Nat /\ MaxTrail \in Nat
  BY WeightsAssumption
<1>2. MaxScore \div 2 \in 0..MaxScore
  BY <1>1
<1>3. Fresh \in Weight
  BY <1>2 DEF Fresh, Weight
<1>4. [enabled |-> FALSE, failClosed |-> TRUE, at |-> 0] \in Rankings
  BY DEF Rankings
<1>5. /\ w.cands = [c \in WCand |-> Fresh] /\ w.rules = [r \in WRule |-> Fresh]
      /\ w.outcomes = {} /\ w.ledger = {} /\ w.audit = {} /\ w \in WeightState
  BY <1>3, <1>4 DEF WeightsInit, WeightState
<1>6. WeightsKept(w)
  BY <1>1, <1>5, FS_EmptySet, WeightsAssumption DEF WeightsKept
<1> QED
  BY <1>6 DEF WeightsInit, WeightsInv

LEMMA WeightsStep == WeightsInv /\ [WeightsNext]_weightVars => WeightsInv'
<1> SUFFICES ASSUME WeightsInv, [WeightsNext]_weightVars PROVE WeightsInv'
  OBVIOUS
<1>1. CASE UNCHANGED weightVars
  BY <1>1 DEF weightVars, WeightsInv, WeightsKept, Remembered
<1>2. ASSUME NEW s, WeightsKept(s), Moved(s), applied' \in [AdjustmentIds -> Nat],
             \A a \in AdjustmentIds \ forgotten : applied'[a] > 0 => applied'[a] = 1
      PROVE  WeightsInv'
  <2>1. w' = s /\ forgotten' = forgotten \cup
          {a \in AdjustmentIds : applied'[a] > 0 /\ a \notin Remembered(s)}
    BY <1>2 DEF Moved
  <2>2. WeightsKept(w') /\ Remembered(w)' = Remembered(s)
    BY <1>2, <2>1 DEF Remembered
  <2> QED
    BY <1>2, <2>1, <2>2 DEF WeightsInv, WeightsKept
<1>3. ASSUME NEW r \in Adjustments, AddWeight(r) PROVE WeightsInv'
  <2> DEFINE s == RunAddWeight(w, r)
  <2>1. /\ WeightsKept(s) /\ r.id \in AdjustmentIds
        /\ ~AddWeightApplies(w, r) => s.cands = w.cands
    BY AddWeightKept DEF WeightsInv, AdjustmentIds
  <2>2. /\ applied' = IF s.cands = w.cands /\ ~AddWeightApplies(w, r)
                      THEN applied ELSE [applied EXCEPT ![r.id] = @ + 1]
        /\ Moved(s)
    BY <1>3 DEF AddWeight
  <2> HIDE DEF s
  <2>3. applied' \in [AdjustmentIds -> Nat]
    BY <2>1, <2>2 DEF WeightsInv
  <2>4. AddWeightApplies(w, r) => r.id \notin Remembered(w)
    BY DEF AddWeightApplies, Remembered, FindWeightAdjustmentLedgerEntry,
           FindExistingAddWeightAuditEvent
  <2>5. ASSUME NEW a \in AdjustmentIds \ forgotten, applied'[a] > 0 PROVE applied'[a] = 1
    BY <2>1, <2>2, <2>4, <2>5 DEF WeightsInv
  <2> QED
    BY <1>2, <2>1, <2>2, <2>3, <2>5
<1>4. ASSUME NEW r \in Outcomes, RecordOutcome(r) PROVE WeightsInv'
  BY <1>2, <1>4, OutcomeKept DEF RecordOutcome, WeightsInv
<1>5. ASSUME NEW r \in RankingRequests, SetRankingPolicy(r) PROVE WeightsInv'
  BY <1>2, <1>5, RankingKept DEF SetRankingPolicy, WeightsInv
<1> QED
  BY <1>1, <1>3, <1>4, <1>5 DEF WeightsNext

LEMMA WeightsInductive == WeightsSpec => []WeightsInv
BY WeightsInvInit, WeightsStep, PTL DEF WeightsSpec

LEMMA ProductsGrow ==
  ASSUME NEW a \in Nat, NEW b \in Nat, NEW c \in Nat, NEW d \in Nat, a <= c, b <= d
  PROVE  a * b <= c * d
<1>1. a * b <= a * d
  BY SMT
<1>2. a * d <= c * d
  BY SMT
<1> QED
  BY <1>1, <1>2

\* Outcomes that disagree are never confident enough: their confidence is halved.
LEMMA MixedIsNotConfident ==
  ASSUME NEW support \in Nat, NEW pending \in Nat, NEW size \in Nat, size <= support, support > 0
  PROVE  LET whole == Max({support + pending, 1})
             kept == Max({2 * support, whole})
         IN ~(10 * (support + size) * kept * 1 >= 6 * (2 * Max({support, 1})) * (2 * whole) * 2)
<1> DEFINE n == support + pending
           kept == Max({2 * support, n})
<1>1. n \in Nat /\ n >= support /\ n > 0
  OBVIOUS
<1>2. Max({n, 1}) = n /\ Max({support, 1}) = support
  BY <1>1, MaxOfTwo
<1>3. kept \in Nat /\ kept <= 2 * n
  BY <1>1, MaxOfTwo
<1> HIDE DEF n, kept
<1>4. (support + size) * kept <= (2 * support) * (2 * n)
  <2>1. support + size \in Nat /\ support + size <= 2 * support /\ 2 * support \in Nat /\ 2 * n \in Nat
    BY <1>1
  <2> QED
    BY <1>3, <2>1, ProductsGrow
<1> DEFINE p == support * n
<1>5. p \in Nat /\ p > 0
  BY <1>1
<1>6. (2 * support) * (2 * n) = 4 * p /\ 6 * (2 * support) * (2 * n) * 2 = 48 * p
  BY <1>1
<1> DEFINE q == (support + size) * kept
<1>7. 10 * (support + size) * kept * 1 = 10 * q /\ q \in Nat
  BY <1>3
<1> HIDE DEF p, q
<1>8. 10 * q < 48 * p
  BY <1>4, <1>5, <1>6, <1>7 DEF q
<1> QED
  BY <1>1, <1>2, <1>6, <1>7, <1>8 DEF n, kept

LEMMA NudgesEarned == WeightsInv => NudgesAreEarned
<1> SUFFICES ASSUME WeightsInv, NEW r \in WRule
             PROVE  LET settled == {o \in w.outcomes : r \in o.rules /\ o.traced /\ o.status = "settled"}
                        failures == {o \in settled : o.failed}
                        nudge == RunShadowAttribution(w)[r]
                    IN /\ nudge = "boost" => /\ r \notin Regressed /\ failures = {}
                                             /\ Cardinality(settled) >= MinSupport
                       /\ nudge = "suppress" => r \in Regressed \/ (failures = settled
                                                  /\ Cardinality(settled) >= MinSupport)
  BY DEF NudgesAreEarned
<1> DEFINE settled == {o \in w.outcomes : r \in o.rules /\ o.traced /\ o.status = "settled"}
           failures == {o \in settled : o.failed}
           n == AttributionCounts(w, r)
           helpful == n.support - n.harmful
           effect == helpful - n.harmful
           size == IF effect < 0 THEN -effect ELSE effect
           mixed == helpful > 0 /\ n.harmful > 0
           whole == Max({n.support + n.pending, 1})
           kept == Max({2 * n.support, whole})
           confident == 10 * (n.support + size) * kept * (IF mixed THEN 1 ELSE 2)
                          >= 6 * (2 * Max({n.support, 1})) * (2 * whole) * 2
           supported == n.support >= MinSupport
           eligible == /\ supported /\ r \notin Regressed /\ confident
                       /\ 100 * size >= 34 * n.support
           direction == CASE ~supported -> "neutral"
                          [] supported /\ 100 * effect >= 34 * n.support -> "helpful"
                          [] supported /\ 100 * effect <= -34 * n.support -> "harmful"
                          [] OTHER -> "neutral"
           nudge == RankingNudge(w, r)
<1>1. nudge = CASE r \in Regressed -> "suppress"
                [] r \notin Regressed /\ (~eligible \/ direction = "neutral") -> "none"
                [] OTHER -> IF direction = "helpful" THEN "boost" ELSE "suppress"
  BY DEF RankingNudge
<1>2. RunShadowAttribution(w)[r] = nudge
  BY DEF RunShadowAttribution
<1>3. w.outcomes \subseteq Outcomes /\ IsFiniteSet(w.outcomes)
  BY DEF WeightsInv, WeightsKept, WeightState
<1>4. Settled(w, r) = settled
  BY <1>3, WeightsAssumption DEF Settled, Relevant, Naming
<1>5. IsFiniteSet(settled) /\ IsFiniteSet(failures)
  BY <1>3, FS_Subset
<1>6. n.support = Cardinality(settled) /\ n.harmful = Cardinality(failures)
  BY <1>4 DEF AttributionCounts
<1>7. n.pending \in Nat
  <2>1. n.pending = Cardinality(Relevant(w, r) \ Settled(w, r))
    BY DEF AttributionCounts
  <2>2. Relevant(w, r) \ Settled(w, r) \subseteq w.outcomes
    BY DEF Relevant, Naming
  <2> QED
    BY <1>3, <2>1, <2>2, FS_Subset, FS_CardinalityType
<1>8. /\ n.support \in Nat /\ n.harmful \in Nat /\ n.harmful <= n.support
      /\ n.harmful = n.support => failures = settled
      /\ n.harmful = 0 => failures = {}
  BY <1>5, <1>6, FS_Subset, FS_CardinalityType, FS_EmptySet
<1> HIDE DEF n, settled, failures, nudge
<1>9. MinSupport \in Nat
  BY WeightsAssumption
<1>10. ASSUME mixed PROVE ~confident
  <2>1. size \in Nat /\ size <= n.support /\ n.support > 0
    BY <1>8, <1>10
  <2>2. confident <=> 10 * (n.support + size) * kept * 1
                        >= 6 * (2 * Max({n.support, 1})) * (2 * whole) * 2
    BY <1>10
  <2> HIDE DEF size
  <2> QED
    BY <1>7, <1>8, <2>1, <2>2, MixedIsNotConfident
<1>11. ASSUME eligible, n.support = 0 PROVE FALSE
  <2>1. n.harmful = 0 /\ helpful = 0 /\ effect = 0 /\ size = 0
    BY <1>8, <1>11
  <2>2. whole \in Nat /\ whole >= 1 /\ Max({n.support, 1}) = 1
    BY <1>7, <1>8, <1>11, MaxOfTwo
  <2>3. kept \in Nat
    BY <1>8, <2>2, MaxOfTwo
  <2> HIDE DEF kept, whole
  <2>4. 10 * (n.support + size) * kept * (IF mixed THEN 1 ELSE 2) = 0
    BY <1>11, <2>1, <2>3
  <2>5. 6 * (2 * Max({n.support, 1})) * (2 * whole) * 2 = 48 * whole
    BY <2>2
  <2> QED
    BY <1>11, <2>2, <2>4, <2>5
<1> HIDE DEF whole, kept
<1>12. nudge = "boost" => r \notin Regressed /\ eligible /\ supported /\ 100 * effect >= 34 * n.support
  BY <1>1
<1>13. nudge = "suppress" =>
         r \in Regressed \/ (eligible /\ supported /\ 100 * effect <= -34 * n.support)
  BY <1>1
<1>14. ASSUME nudge = "boost" PROVE r \notin Regressed /\ failures = {} /\ n.support >= MinSupport
  <2>1. n.support > 0 /\ ~mixed
    BY <1>8, <1>10, <1>11, <1>12, <1>14
  <2>2. effect > 0
    BY <1>8, <1>12, <1>14, <2>1
  <2>3. n.harmful = 0
    BY <1>8, <2>1, <2>2
  <2> QED
    BY <1>8, <1>12, <1>14, <2>3
<1>15. ASSUME nudge = "suppress", r \notin Regressed PROVE failures = settled /\ n.support >= MinSupport
  <2>1. n.support > 0 /\ ~mixed
    BY <1>8, <1>10, <1>11, <1>13, <1>15
  <2>2. effect < 0
    BY <1>8, <1>13, <1>15, <2>1
  <2>3. n.harmful = n.support
    BY <1>8, <2>1, <2>2
  <2> QED
    BY <1>8, <1>13, <1>15, <2>3
<1> QED
  BY <1>2, <1>6, <1>14, <1>15 DEF settled, failures

LEMMA WeightsInvIsRight == WeightsInv => WeightsTypeOK /\ WeightsAreRight
<1> SUFFICES ASSUME WeightsInv PROVE WeightsTypeOK /\ WeightsAreRight
  OBVIOUS
<1>1. WeightsTypeOK
  BY DEF WeightsInv, WeightsKept, WeightState, Weight, WeightsTypeOK
<1>2. AdjustedOnceWhileRemembered
  BY DEF WeightsInv, AdjustedOnceWhileRemembered
<1>3. RepeatsMoveNothing
  <2>1. \A o \in w.outcomes : RunOutcome(w, o) = w
    BY DEF RunOutcome
  <2>2. ASSUME NEW x \in Adjustments, x.id \in Remembered(w)
        PROVE  RunAddWeight(w, x).cands = w.cands /\ RunAddWeight(w, x).rules = w.rules
    <3>1. ~AddWeightApplies(w, x)
      BY <2>2 DEF AddWeightApplies, Remembered, FindWeightAdjustmentLedgerEntry,
                  FindExistingAddWeightAuditEvent
    <3> QED
      BY <3>1, AddWeightKept DEF WeightsInv
  <2> QED
    BY <2>1, <2>2 DEF RepeatsMoveNothing
<1>4. RulesFollowCandidates
  BY DEF WeightsInv, WeightsKept, RulesFollowCandidates
<1> QED
  BY <1>1, <1>2, <1>3, <1>4, NudgesEarned DEF WeightsAreRight

\* Adjustments are counted once while they are remembered, repeats move nothing,
\* rules weigh what their candidates do, and nudges are earned by settled outcomes.
THEOREM WeightsRight == WeightsSpec => [](WeightsTypeOK /\ WeightsAreRight)
BY WeightsInductive, WeightsInvIsRight, PTL

-----------------------------------------------------------------------------
(* ReviewScheduler                                                          *)

ReviewEntry == [status : {"due", "scheduled", "completed", "suspended"}, due : Nat,
                interval : Nat \ {0}]
ReviewCand == [confidence : Nat, cursor : Nat, days : Nat, demoted : BOOLEAN]
ReviewTiers == [limit : Nat, active : SUBSET Entry, warm : SUBSET Entry, cold : SUBSET Entry,
                frozen : SUBSET Entry]

\* What is stored of a profile: finitely many entries, clocks, tiers and candidates.
IsReviewState(s) ==
  /\ s = [entries |-> s.entries, clocks |-> s.clocks, tiers |-> s.tiers, cands |-> s.cands]
  /\ DOMAIN s.entries \subseteq Entry /\ IsFiniteSet(DOMAIN s.entries)
  /\ \A i \in DOMAIN s.entries : s.entries[i] \in ReviewEntry
  /\ s.clocks \in [fatigue : Nat, novelty : Nat] /\ s.tiers \in ReviewTiers
  /\ s.cands \in [ShadowCand -> ReviewCand]

\* A candidate has decayed once for each whole day up to its cursor.
DecayedOnce(c, k) ==
  /\ 2 * k.days <= k.cursor
  /\ k.days > 0 => k.confidence = Decayed(CandConfidence[c], k.days)
  /\ k.days = 0 => k.confidence = CandConfidence[c]
CandsDecayedOnce(s) == \A c \in ShadowCand : DecayedOnce(c, s.cands[c])

DueOrder(s) == {e \in Reviewable(s) \X Reviewable(s) : SoonerDue(s, e[1], e[2])}

LEMMA ActiveAreEarliest ==
  ASSUME NEW s, IsReviewState(s), NEW limit \in Nat
  PROVE  LET active == ActiveReviewIds(s, limit) IN
         /\ active \subseteq Reviewable(s) /\ active \subseteq Entry
         /\ Cardinality(active) = Min({limit, Cardinality(Reviewable(s))})
         /\ \A i \in active, j \in Reviewable(s) \ active : s.entries[i].due <= s.entries[j].due
<1> DEFINE M == Reviewable(s)
           R == DueOrder(s)
<1>1. /\ M \subseteq DOMAIN s.entries /\ M \subseteq Entry
      /\ IsFiniteSet(M) /\ Cardinality(M) \in Nat
  BY FS_Subset, FS_CardinalityType DEF IsReviewState, Reviewable
<1>2. \A x, y \in M : <<x, y>> \in R <=> SoonerDue(s, x, y)
  BY DEF DueOrder
<1>3. \A i \in M : /\ i \in Nat /\ s.entries[i].due \in Nat
                   /\ s.entries[i].status \in {"due", "scheduled"}
                   /\ StatusRank[s.entries[i].status] \in {2, 3}
  BY <1>1, ReviewAssumption DEF IsReviewState, ReviewEntry, Reviewable, StatusRank
<1>4. \A i, j \in M : StatusRank[s.entries[i].status] = StatusRank[s.entries[j].status] =>
                        s.entries[i].status = s.entries[j].status
  BY <1>3 DEF StatusRank
<1>5. \A i \in M : ~SoonerDue(s, i, i)
  BY <1>3 DEF SoonerDue
<1>6. \A i, j, k \in M : SoonerDue(s, i, j) /\ SoonerDue(s, j, k) => SoonerDue(s, i, k)
  BY <1>3 DEF SoonerDue
<1>7. \A i, j \in M : i # j => SoonerDue(s, i, j) \/ SoonerDue(s, j, i)
  BY <1>3, <1>4 DEF SoonerDue
<1> HIDE DEF M, R
<1>8. IsOrder(R, M)
  BY <1>2, <1>5, <1>6, <1>7 DEF IsOrder
<1> DEFINE active == ActiveReviewIds(s, limit)
<1>9. active = FirstOf(R, M, limit)
  <2>1. \A x \in M : Ahead(R, M, x) = {y \in M : SoonerDue(s, y, x)}
    BY <1>2 DEF Ahead
  <2> QED
    BY <2>1 DEF ActiveReviewIds, FirstOf, M
<1> HIDE DEF active
<1>10. /\ active \subseteq M
       /\ Cardinality(active) = IF limit < Cardinality(M) THEN limit ELSE Cardinality(M)
       /\ \A x \in active, y \in M \ active : <<x, y>> \in R
  BY <1>1, <1>8, <1>9, FirstAre
<1>11. Cardinality(active) = Min({limit, Cardinality(M)})
  BY <1>1, <1>10, MinOfTwo
<1>12. \A x \in active, y \in M \ active : s.entries[x].due <= s.entries[y].due
  <2> SUFFICES ASSUME NEW x \in active, NEW y \in M \ active
               PROVE  s.entries[x].due <= s.entries[y].due
    OBVIOUS
  <2>1. x \in M /\ y \in M /\ SoonerDue(s, x, y)
    BY <1>2, <1>10
  <2>2. s.entries[x].due \in Nat /\ s.entries[y].due \in Nat
    BY <1>3, <2>1
  <2>3. s.entries[x].due < s.entries[y].due \/ s.entries[x].due = s.entries[y].due
    BY <2>1 DEF SoonerDue
  <2> QED
    BY <2>2, <2>3
<1> QED
  BY <1>1, <1>10, <1>11, <1>12 DEF active, M

InTierOf(s, active, at, t) == {i \in DOMAIN s.entries \ active : TierOf(s.entries[i], at) = t}

LEMMA RebalanceIs ==
  ASSUME NEW s, IsReviewState(s), NEW limit \in Nat, NEW at
  PROVE  LET n == RebalanceReviewSet(s, limit, at)
             active == ActiveReviewIds(s, limit)
         IN /\ n = [entries |-> s.entries, clocks |-> s.clocks, cands |-> s.cands,
                    tiers |-> [limit |-> limit, active |-> active,
                               warm |-> InTierOf(s, active, at, "warm"),
                               cold |-> InTierOf(s, active, at, "cold"),
                               frozen |-> InTierOf(s, active, at, "frozen")]]
            /\ IsReviewState(n)
<1> DEFINE active == ActiveReviewIds(s, limit)
           tiers == [limit |-> limit, active |-> active,
                     warm |-> InTierOf(s, active, at, "warm"),
                     cold |-> InTierOf(s, active, at, "cold"),
                     frozen |-> InTierOf(s, active, at, "frozen")]
           n == RebalanceReviewSet(s, limit, at)
<1>1. n = [s EXCEPT !.tiers = tiers]
  BY DEF RebalanceReviewSet, InTierOf
<1>2. active \subseteq Entry
  BY ActiveAreEarliest
<1> HIDE DEF active
<1>3. tiers \in ReviewTiers
  BY <1>2 DEF ReviewTiers, InTierOf, IsReviewState
<1> HIDE DEF tiers, n
<1>4. n = [entries |-> s.entries, clocks |-> s.clocks, tiers |-> tiers, cands |-> s.cands]
  BY <1>1 DEF IsReviewState
<1>5. IsReviewState(n)
  BY <1>3, <1>4 DEF IsReviewState
<1> QED
  BY <1>4, <1>5 DEF n, tiers, active

LEMMA ActiveSetEarliest ==
  ASSUME NEW s, IsReviewState(s), NEW limit \in Nat, NEW at \in Nat
  PROVE  LET n == RebalanceReviewSet(s, limit, at)
             rest == DOMAIN n.entries \ n.tiers.active
         IN /\ n.tiers.active \subseteq Reviewable(n)
            /\ Cardinality(n.tiers.active) = Min({limit, Cardinality(Reviewable(n))})
            /\ \A i \in n.tiers.active, j \in Reviewable(n) \cap rest :
                 n.entries[i].due <= n.entries[j].due
            /\ \A i \in rest : Cardinality({t \in {"warm", "cold", "frozen"} :
                                              i \in n.tiers[t]}) = 1
            /\ RebalanceReviewSet(n, limit, at) = n
<1> DEFINE n == RebalanceReviewSet(s, limit, at)
           active == ActiveReviewIds(s, limit)
           rest == DOMAIN n.entries \ n.tiers.active
           m == RebalanceReviewSet(n, limit, at)
<1>1. /\ n = [entries |-> s.entries, clocks |-> s.clocks, cands |-> s.cands,
              tiers |-> [limit |-> limit, active |-> active,
                         warm |-> InTierOf(s, active, at, "warm"),
                         cold |-> InTierOf(s, active, at, "cold"),
                         frozen |-> InTierOf(s, active, at, "frozen")]]
      /\ IsReviewState(n)
  BY RebalanceIs
<1>2. m = [entries |-> n.entries, clocks |-> n.clocks, cands |-> n.cands,
           tiers |-> [limit |-> limit, active |-> ActiveReviewIds(n, limit),
                      warm |-> InTierOf(n, ActiveReviewIds(n, limit), at, "warm"),
                      cold |-> InTierOf(n, ActiveReviewIds(n, limit), at, "cold"),
                      frozen |-> InTierOf(n, ActiveReviewIds(n, limit), at, "frozen")]]
  BY <1>1, RebalanceIs
<1> HIDE DEF n, m
<1>3. n.entries = s.entries /\ n.tiers.active = active
  BY <1>1
<1>4. Reviewable(n) = Reviewable(s) /\ ActiveReviewIds(n, limit) = active
  BY <1>3 DEF Reviewable, ActiveReviewIds, SoonerDue
<1>5. \A t : InTierOf(n, active, at, t) = InTierOf(s, active, at, t)
  BY <1>3 DEF InTierOf
<1>6. m = n
  BY <1>1, <1>2, <1>4, <1>5
<1>7. /\ active \subseteq Reviewable(s)
      /\ Cardinality(active) = Min({limit, Cardinality(Reviewable(s))})
      /\ \A i \in active, j \in Reviewable(s) \ active : s.entries[i].due <= s.entries[j].due
  BY ActiveAreEarliest
<1> HIDE DEF active
<1>8. \A i \in n.tiers.active, j \in Reviewable(n) \cap rest : n.entries[i].due <= n.entries[j].due
  BY <1>3, <1>4, <1>7
<1>9. ASSUME NEW i \in rest
      PROVE  Cardinality({t \in {"warm", "cold", "frozen"} : i \in n.tiers[t]}) = 1
  <2> DEFINE tier == TierOf(s.entries[i], at)
  <2>1. i \in DOMAIN s.entries \ active
    BY <1>3
  <2>2. tier \in {"warm", "cold", "frozen"}
    BY DEF TierOf
  <2>3. /\ i \in n.tiers["warm"] <=> tier = "warm"
        /\ i \in n.tiers["cold"] <=> tier = "cold"
        /\ i \in n.tiers["frozen"] <=> tier = "frozen"
    BY <1>1, <2>1 DEF InTierOf
  <2> HIDE DEF tier
  <2>4. {t \in {"warm", "cold", "frozen"} : i \in n.tiers[t]} = {tier}
    BY <2>2, <2>3
  <2> QED
    BY <2>4, FS_Singleton
<1> QED
  BY <1>3, <1>4, <1>6, <1>7, <1>8, <1>9 DEF n, m

-----------------------------------------------------------------------------
\* What a tick makes of the clocks, the entries and the candidates.
Consolidates(s, r) == ShouldSleep(LoadedClocks(s.clocks, r), r)
CandTicked(c, k, at) ==
  IF CandExpires[c] < at THEN [k EXCEPT !.demoted = TRUE] ELSE DecayCandidate(k, at)

LEMMA MaintenanceIs ==
  ASSUME NEW s, s = [entries |-> s.entries, clocks |-> s.clocks, tiers |-> s.tiers, cands |-> s.cands],
         NEW at
  PROVE  TemporalMaintenance(s, at) =
           [entries |-> s.entries, clocks |-> s.clocks, tiers |-> s.tiers,
            cands |-> [c \in ShadowCand |-> CandTicked(c, s.cands[c], at)]]
<1> DEFINE C == [c \in ShadowCand |-> CandTicked(c, s.cands[c], at)]
<1>1. TemporalMaintenance(s, at) = [s EXCEPT !.cands = C]
  BY DEF TemporalMaintenance, CandTicked
<1> HIDE DEF C
<1>2. [s EXCEPT !.cands = C] = [entries |-> s.entries, clocks |-> s.clocks, tiers |-> s.tiers, cands |-> C]
  OBVIOUS
<1> QED
  BY <1>1, <1>2 DEF C

LEMMA ElapsedIs ==
  ASSUME NEW from \in Nat, NEW at \in Nat
  PROVE  /\ ElapsedDays(from, at) \in Nat /\ ElapsedDays(at, at) = 0
         /\ ElapsedDays(from, at) > 0 => from + 2 * ElapsedDays(from, at) <= at
<1> DEFINE d == (at - from) \div 2
<1>1. d \in Int /\ 2 * d <= at - from
  OBVIOUS
<1>2. ElapsedDays(from, at) = IF 0 > d THEN 0 ELSE d
  BY <1>1, MaxOfTwo DEF ElapsedDays
<1>3. ElapsedDays(at, at) = 0
  <2>1. (at - at) \div 2 = 0
    OBVIOUS
  <2> QED
    BY <2>1, MaxOfTwo DEF ElapsedDays
<1> QED
  BY <1>1, <1>2, <1>3

LEMMA DecayedIs ==
  ASSUME NEW confidence \in Nat, NEW days \in Nat
  PROVE  Decayed(confidence, days) =
           IF ConfidenceFloor > confidence - days THEN ConfidenceFloor ELSE confidence - days
<1>1. ConfidenceFloor \in Int /\ confidence - days \in Int
  BY ReviewAssumption
<1> QED
  BY <1>1, MaxOfTwo DEF Decayed

\* A tick decays a candidate by the days since its cursor, and a second one at the
\* same time not at all.
LEMMA CandTickedIs ==
  ASSUME NEW c \in ShadowCand, NEW k \in ReviewCand, DecayedOnce(c, k), NEW at \in Nat
  PROVE  /\ CandTicked(c, k, at) \in ReviewCand /\ DecayedOnce(c, CandTicked(c, k, at))
         /\ CandTicked(c, CandTicked(c, k, at), at) = CandTicked(c, k, at)
<1> DEFINE days == ElapsedDays(k.cursor, at)
           n == CandTicked(c, k, at)
           conf == Decayed(k.confidence, days)
<1>1. k.cursor \in Nat /\ k.days \in Nat /\ k.confidence \in Nat /\ k.demoted \in BOOLEAN
  BY DEF ReviewCand
<1>2. days \in Nat /\ (days > 0 => k.cursor + 2 * days <= at) /\ ElapsedDays(at, at) = 0
  BY <1>1, ElapsedIs
<1>3. CandConfidence[c] \in Nat /\ ConfidenceFloor \in Nat
  BY ReviewAssumption
<1>4. /\ CandTicked(c, k, at) = IF CandExpires[c] < at THEN [k EXCEPT !.demoted = TRUE]
                                ELSE IF k.demoted \/ days = 0 THEN k
                                ELSE [k EXCEPT !.confidence = conf, !.days = @ + days, !.cursor = at]
  BY DEF CandTicked, DecayCandidate
<1> HIDE DEF days, n
<1>5. CASE CandExpires[c] < at
  <2>1. n = [confidence |-> k.confidence, cursor |-> k.cursor, days |-> k.days, demoted |-> TRUE]
    BY <1>4, <1>5 DEF ReviewCand, n
  <2>2. n \in ReviewCand /\ DecayedOnce(c, n)
    BY <1>1, <2>1 DEF ReviewCand, DecayedOnce
  <2>3. CandTicked(c, n, at) = [n EXCEPT !.demoted = TRUE]
    BY <1>5 DEF CandTicked
  <2>4. [n EXCEPT !.demoted = TRUE] = n
    <3>1. n.demoted = TRUE /\ n \in [DOMAIN n -> {n[f] : f \in DOMAIN n}]
      BY <2>1
    <3> QED
      BY <3>1
  <2> QED
    BY <2>2, <2>3, <2>4 DEF n
<1>6. CASE ~(CandExpires[c] < at) /\ (k.demoted \/ days = 0)
  <2>1. n = k
    BY <1>4, <1>6 DEF n
  <2>2. n \in ReviewCand /\ DecayedOnce(c, n) /\ CandTicked(c, n, at) = n
    BY <2>1 DEF n
  <2> QED
    BY <2>2 DEF n
<1>7. CASE ~(CandExpires[c] < at) /\ ~k.demoted /\ days # 0
  <2> DEFINE d == k.days + days
  <2>1. n = [confidence |-> conf, cursor |-> at, days |-> d, demoted |-> k.demoted]
    <3> DEFINE u == [k EXCEPT !.confidence = conf]
               v == [u EXCEPT !.days = d]
    <3>1. n = [v EXCEPT !.cursor = at]
      BY <1>4, <1>7 DEF n
    <3> HIDE DEF conf, d
    <3>2. u = [confidence |-> conf, cursor |-> k.cursor, days |-> k.days, demoted |-> k.demoted]
      BY DEF ReviewCand
    <3> HIDE DEF u
    <3>3. v = [confidence |-> conf, cursor |-> k.cursor, days |-> d, demoted |-> k.demoted]
      BY <3>2
    <3> HIDE DEF v
    <3> QED
      BY <3>1, <3>3
  <2>2. d \in Nat /\ d > 0 /\ days > 0
    BY <1>1, <1>2, <1>7
  <2>3. conf \in Nat /\ conf = Decayed(CandConfidence[c], d)
    <3>1. conf = IF ConfidenceFloor > k.confidence - days THEN ConfidenceFloor ELSE k.confidence - days
      BY <1>1, <1>2, DecayedIs
    <3>2. Decayed(CandConfidence[c], d) =
            IF ConfidenceFloor > CandConfidence[c] - d THEN ConfidenceFloor ELSE CandConfidence[c] - d
      BY <1>3, <2>2, DecayedIs
    <3>3. CASE k.days = 0
      <4>1. k.confidence = CandConfidence[c] /\ d = days
        BY <1>2, <3>3 DEF DecayedOnce
      <4> QED
        BY <1>1, <1>2, <1>3, <3>1, <3>2, <4>1
    <3>4. CASE k.days > 0
      <4>1. k.confidence = IF ConfidenceFloor > CandConfidence[c] - k.days THEN ConfidenceFloor
                           ELSE CandConfidence[c] - k.days
        BY <1>1, <1>3, <3>4, DecayedIs DEF DecayedOnce
      <4> HIDE DEF conf
      <4> QED
        BY <1>1, <1>2, <1>3, <3>1, <3>2, <4>1
    <3> QED
      BY <1>1, <3>3, <3>4
  <2>4. 2 * d <= at
    BY <1>1, <1>2, <2>2 DEF DecayedOnce
  <2> HIDE DEF conf, d
  <2>5. n \in ReviewCand /\ DecayedOnce(c, n)
    BY <1>1, <2>1, <2>2, <2>3, <2>4 DEF ReviewCand, DecayedOnce
  <2>6. CandTicked(c, n, at) = n
    BY <1>2, <1>7, <2>1 DEF CandTicked, DecayCandidate
  <2> QED
    BY <2>5, <2>6 DEF n
<1> QED
  BY <1>5, <1>6, <1>7

TickedEntries(s, r, at) == [i \in DOMAIN s.entries |-> TickEntry(s.entries[i], Consolidates(s, r), at)]

LEMMA TickEntryIs ==
  ASSUME NEW e \in ReviewEntry, NEW sleeps \in BOOLEAN, NEW at \in Nat
  PROVE  LET t == TickEntry(e, sleeps, at) IN
         /\ t \in ReviewEntry
         /\ t.status = "scheduled" => t.due > at
         /\ t.status = "completed" => ~sleeps
         /\ e.status = "suspended" => t = e
<1>1. /\ e.status \in {"due", "scheduled", "completed", "suspended"}
      /\ e.due \in Nat /\ e.interval \in Nat \ {0}
      /\ e = [status |-> e.status, due |-> e.due, interval |-> e.interval]
  BY DEF ReviewEntry
<1> DEFINE t == TickEntry(e, sleeps, at)
<1>2. CASE e.status = "scheduled" /\ e.due <= at
  <2>1. t = [e EXCEPT !.status = "due"]
    BY <1>2 DEF TickEntry
  <2> HIDE DEF t
  <2>2. t = [status |-> "due", due |-> e.due, interval |-> e.interval]
    BY <1>1, <2>1
  <2>3. t \in ReviewEntry /\ t.status = "due"
    BY <1>1, <2>2 DEF ReviewEntry
  <2> QED
    BY <1>2, <2>3 DEF t
<1>3. CASE e.status = "completed" /\ sleeps
  <2> DEFINE d == at + 2 * e.interval
             u == [e EXCEPT !.status = "scheduled"]
  <2>1. t = [u EXCEPT !.due = d]
    BY <1>3 DEF TickEntry
  <2>2. d \in Nat /\ d > at
    BY <1>1
  <2> HIDE DEF t, d
  <2>3. u = [status |-> "scheduled", due |-> e.due, interval |-> e.interval]
    BY <1>1
  <2> HIDE DEF u
  <2>4. t = [status |-> "scheduled", due |-> d, interval |-> e.interval]
    BY <2>1, <2>3
  <2>5. t \in ReviewEntry /\ t.status = "scheduled" /\ t.due > at
    BY <1>1, <2>2, <2>4 DEF ReviewEntry
  <2> QED
    BY <1>3, <2>5 DEF t
<1>4. CASE ~(e.status = "scheduled" /\ e.due <= at) /\ ~(e.status = "completed" /\ sleeps)
  <2>1. t = e
    BY <1>4 DEF TickEntry
  <2> HIDE DEF t
  <2> QED
    BY <1>1, <1>4, <2>1 DEF t
<1> QED
  BY <1>2, <1>3, <1>4

LEMMA ClocksTicked ==
  ASSUME NEW k \in [fatigue : Nat, novelty : Nat], NEW r \in ClockTicks
  PROVE  /\ LoadedClocks(k, r) \in [fatigue : Nat, novelty : Nat]
         /\ Recovered(LoadedClocks(k, r), r) \in [fatigue : Nat, novelty : Nat]
<1>1. /\ r.mode \in {"interaction", "auto", "sleep"} /\ r.interactions \in Nat
      /\ r.noveltyLoad \in Nat /\ r.noveltyWrites \in Nat /\ r.fatigueDelta \in Nat
      /\ r.threshold \in Nat \ {0}
  BY ReviewAssumption
<1>2. LoadedClocks(k, r) \in [fatigue : Nat, novelty : Nat]
  <2>1. CASE r.mode \in {"interaction", "auto"}
    BY <1>1, <2>1 DEF LoadedClocks
  <2>2. CASE r.mode = "sleep"
    <3>1. LoadedClocks(k, r) = [k EXCEPT !.novelty = @ + r.noveltyWrites]
      BY <2>2 DEF LoadedClocks
    <3> QED
      BY <1>1, <3>1
  <2> QED
    BY <1>1, <2>1, <2>2
<1> DEFINE f == LoadedClocks(k, r).fatigue
           h == (r.threshold + 1) \div 2
<1>3. f \in Nat /\ h \in Nat
  BY <1>1, <1>2
<1> HIDE DEF f, h
<1> DEFINE less == f - Max({1, h})
<1>4. less \in Int
  BY <1>3, MaxOfTwo
<1> HIDE DEF less
<1>5. Max({0, less}) \in Nat
  BY <1>4, MaxOfTwo
<1>6. Recovered(LoadedClocks(k, r), r) = [fatigue |-> Max({0, less}), novelty |-> 0]
  BY DEF Recovered, less, f, h
<1> QED
  BY <1>2, <1>5, <1>6

LEMMA TickIs ==
  ASSUME NEW s, IsReviewState(s), CandsDecayedOnce(s), NEW r \in ClockTicks, NEW at \in Nat
  PROVE  LET n == RunReviewScheduleClock(s, r, at) IN
         /\ IsReviewState(n) /\ CandsDecayedOnce(n)
         /\ n.entries = TickedEntries(s, r, at)
         /\ n.cands = [c \in ShadowCand |-> CandTicked(c, s.cands[c], at)]
<1> DEFINE sleeps == Consolidates(s, r)
           loaded == LoadedClocks(s.clocks, r)
           clocks == IF sleeps THEN Recovered(loaded, r) ELSE loaded
           E == TickedEntries(s, r, at)
           C == [c \in ShadowCand |-> CandTicked(c, s.cands[c], at)]
           u == [s EXCEPT !.clocks = clocks]
           v == [u EXCEPT !.entries = E]
           t == TemporalMaintenance(v, at)
           n == RunReviewScheduleClock(s, r, at)
<1>1. n = RebalanceReviewSet(t, s.tiers.limit, at)
  BY DEF RunReviewScheduleClock, Consolidates, TickedEntries
<1>2. s = [entries |-> s.entries, clocks |-> s.clocks, tiers |-> s.tiers, cands |-> s.cands]
  BY DEF IsReviewState
<1>3. sleeps \in BOOLEAN
  BY DEF Consolidates, ShouldSleep
<1>4. clocks \in [fatigue : Nat, novelty : Nat]
  <2>1. s.clocks \in [fatigue : Nat, novelty : Nat]
    BY DEF IsReviewState
  <2> QED
    BY <2>1, ClocksTicked
<1>5. /\ DOMAIN E = DOMAIN s.entries
      /\ \A i \in DOMAIN E : E[i] = TickEntry(s.entries[i], sleeps, at)
  BY DEF TickedEntries
<1> HIDE DEF sleeps, clocks, E
<1>6. \A i \in DOMAIN E : E[i] \in ReviewEntry
  BY <1>3, <1>5, TickEntryIs DEF IsReviewState
<1>7. /\ C \in [ShadowCand -> ReviewCand] /\ \A c \in ShadowCand : DecayedOnce(c, C[c])
  <2>1. ASSUME NEW c \in ShadowCand
        PROVE  CandTicked(c, s.cands[c], at) \in ReviewCand /\ DecayedOnce(c, CandTicked(c, s.cands[c], at))
    <3>1. s.cands[c] \in ReviewCand /\ DecayedOnce(c, s.cands[c])
      BY DEF IsReviewState, CandsDecayedOnce
    <3> QED
      BY <3>1, CandTickedIs
  <2> QED
    BY <2>1
<1>8. u = [entries |-> s.entries, clocks |-> clocks, tiers |-> s.tiers, cands |-> s.cands]
  BY <1>2
<1> HIDE DEF u
<1>9. v = [entries |-> E, clocks |-> clocks, tiers |-> s.tiers, cands |-> s.cands]
  BY <1>8
<1> HIDE DEF v
<1>10. t = [entries |-> E, clocks |-> clocks, tiers |-> s.tiers, cands |-> C]
  <2>1. v.entries = E /\ v.clocks = clocks /\ v.tiers = s.tiers /\ v.cands = s.cands
    BY <1>9
  <2>2. v = [entries |-> v.entries, clocks |-> v.clocks, tiers |-> v.tiers, cands |-> v.cands]
    BY <1>9, <2>1
  <2> QED
    BY <2>1, <2>2, MaintenanceIs
<1> HIDE DEF t, C
<1>11. IsReviewState(t)
  BY <1>4, <1>5, <1>6, <1>7, <1>10 DEF IsReviewState
<1>12. s.tiers.limit \in Nat
  BY DEF IsReviewState, ReviewTiers
<1>13. IsReviewState(n) /\ n.entries = t.entries /\ n.cands = t.cands
  BY <1>1, <1>11, <1>12, RebalanceIs
<1>14. n.entries = E /\ n.cands = C
  BY <1>10, <1>13
<1>15. CandsDecayedOnce(n)
  BY <1>7, <1>14 DEF CandsDecayedOnce
<1> QED
  BY <1>13, <1>14, <1>15 DEF E, C

LEMMA ImportedIs ==
  ASSUME NEW s, IsReviewState(s)
  PROVE  LET t == ImportClocks(s) IN
         /\ t = [entries |-> s.entries, clocks |-> t.clocks, tiers |-> s.tiers, cands |-> s.cands]
         /\ IsReviewState(t) /\ t.clocks.fatigue = s.clocks.fatigue
<1> DEFINE k == [s.clocks EXCEPT !.novelty = 0]
           t == [s EXCEPT !.clocks = k]
<1>1. ImportClocks(s) = t
  BY DEF ImportClocks
<1>2. k \in [fatigue : Nat, novelty : Nat] /\ k.fatigue = s.clocks.fatigue
  BY DEF IsReviewState
<1> HIDE DEF k
<1>3. t = [entries |-> s.entries, clocks |-> k, tiers |-> s.tiers, cands |-> s.cands]
  BY DEF IsReviewState
<1> HIDE DEF t
<1>4. IsReviewState(t)
  BY <1>2, <1>3 DEF IsReviewState
<1> QED
  BY <1>1, <1>2, <1>3, <1>4

-----------------------------------------------------------------------------
ReviewInv ==
  IsReviewState(rev) /\ CandsDecayedOnce(rev) /\ rev.clocks.fatigue <= MaxLoad

LEMMA ReviewInvInit == ReviewInit => ReviewInv
<1> SUFFICES ASSUME ReviewInit PROVE ReviewInv
  OBVIOUS
<1>1. rev = [entries |-> rev.entries, clocks |-> rev.clocks, tiers |-> rev.tiers, cands |-> rev.cands]
  BY DEF ReviewInit
<1>2. DOMAIN rev.entries = {} /\ IsFiniteSet(DOMAIN rev.entries)
  BY FS_EmptySet DEF ReviewInit
<1>3. rev.clocks \in [fatigue : Nat, novelty : Nat] /\ rev.clocks.fatigue <= MaxLoad
  <2>1. MaxLoad \in Nat
    BY ReviewAssumption
  <2> QED
    BY <2>1 DEF ReviewInit
<1>4. rev.tiers \in ReviewTiers
  BY ReviewAssumption DEF ReviewInit, ReviewTiers
<1>5. /\ rev.cands \in [ShadowCand -> ReviewCand]
      /\ \A c \in ShadowCand : rev.cands[c].days = 0 /\ rev.cands[c].cursor = 0
                               /\ rev.cands[c].confidence = CandConfidence[c]
  BY ReviewAssumption DEF ReviewInit, ReviewCand
<1>6. CandsDecayedOnce(rev)
  BY <1>5 DEF CandsDecayedOnce, DecayedOnce
<1> QED
  BY <1>1, <1>2, <1>3, <1>4, <1>5, <1>6 DEF ReviewInv, IsReviewState

LEMMA StoredIs ==
  ASSUME ReviewInv
  PROVE  /\ IsReviewState(Stored) /\ CandsDecayedOnce(Stored)
         /\ Stored.entries = rev.entries /\ Stored.clocks.fatigue <= MaxLoad
         /\ Stored.tiers = rev.tiers
<1>1. /\ Stored = [entries |-> rev.entries, clocks |-> Stored.clocks, tiers |-> rev.tiers,
                   cands |-> rev.cands]
      /\ IsReviewState(Stored) /\ Stored.clocks.fatigue = rev.clocks.fatigue
  BY ImportedIs DEF Stored, ReviewInv
<1>2. Stored.entries = rev.entries /\ Stored.cands = rev.cands /\ Stored.tiers = rev.tiers
  BY <1>1
<1> QED
  BY <1>1, <1>2 DEF ReviewInv, CandsDecayedOnce

LEMMA ReviewStep == ReviewInv /\ [ReviewNext]_reviewVars => ReviewInv'
<1> SUFFICES ASSUME ReviewInv, [ReviewNext]_reviewVars PROVE ReviewInv'
  OBVIOUS
<1>1. CASE UNCHANGED reviewVars
  BY <1>1 DEF reviewVars, ReviewInv, IsReviewState, CandsDecayedOnce
<1> DEFINE s == Stored
<1>2. /\ IsReviewState(s) /\ CandsDecayedOnce(s) /\ s.clocks.fatigue <= MaxLoad
  BY StoredIs
<1> HIDE DEF s
<1>3. ASSUME NEW r \in EntryUpdates, UpdateReviewSchedule(r) PROVE ReviewInv'
  <2> DEFINE incoming == [status |-> r.status, due |-> r.due, interval |-> r.interval]
             E == [i \in DOMAIN s.entries \cup {r.id} |-> IF i = r.id THEN incoming ELSE s.entries[i]]
  <2>1. rev' = [s EXCEPT !.entries = E]
    BY <1>3 DEF UpdateReviewSchedule, RunReviewScheduleUpdate, s
  <2>2. incoming \in ReviewEntry /\ r.id \in Entry
    BY ReviewAssumption DEF ReviewEntry
  <2> HIDE DEF incoming
  <2>3. /\ DOMAIN E \subseteq Entry /\ IsFiniteSet(DOMAIN E)
        /\ \A i \in DOMAIN E : E[i] \in ReviewEntry
    BY <1>2, <2>2, FS_AddElement DEF IsReviewState
  <2> HIDE DEF E
  <2>4. rev' = [entries |-> E, clocks |-> s.clocks, tiers |-> s.tiers, cands |-> s.cands]
    BY <1>2, <2>1 DEF IsReviewState
  <2>5. IsReviewState(rev')
    BY <1>2, <2>3, <2>4 DEF IsReviewState
  <2>6. CandsDecayedOnce(rev') /\ rev'.clocks.fatigue <= MaxLoad
    BY <1>2, <2>4 DEF CandsDecayedOnce
  <2> QED
    BY <2>5, <2>6 DEF ReviewInv, IsReviewState, CandsDecayedOnce
<1>4. ASSUME NEW limit \in ActiveLimits, NEW at \in ReviewTime, RebalanceReviews(limit, at)
      PROVE  ReviewInv'
  <2>1. rev' = RebalanceReviewSet(s, limit, at) /\ limit \in Nat
    BY <1>4, ReviewAssumption DEF RebalanceReviews, s
  <2>2. IsReviewState(rev') /\ rev'.clocks = s.clocks /\ rev'.cands = s.cands
    BY <1>2, <2>1, RebalanceIs
  <2>3. CandsDecayedOnce(rev') /\ rev'.clocks.fatigue <= MaxLoad
    BY <1>2, <2>2 DEF CandsDecayedOnce
  <2> QED
    BY <2>2, <2>3 DEF ReviewInv, IsReviewState, CandsDecayedOnce
<1>5. ASSUME NEW r \in ClockTicks, NEW at \in ReviewTime, TickReviewClock(r, at) PROVE ReviewInv'
  <2>1. rev' = RunReviewScheduleClock(s, r, at) /\ rev'.clocks.fatigue <= MaxLoad /\ at \in Nat
    BY <1>5, ReviewAssumption DEF TickReviewClock, s
  <2>2. IsReviewState(rev') /\ CandsDecayedOnce(rev')
    BY <1>2, <2>1, TickIs
  <2> QED
    BY <2>1, <2>2 DEF ReviewInv, IsReviewState, CandsDecayedOnce
<1> QED
  BY <1>1, <1>3, <1>4, <1>5 DEF ReviewNext

LEMMA ReviewInductive == ReviewSpec => []ReviewInv
BY ReviewInvInit, ReviewStep, PTL DEF ReviewSpec

LEMMA NothingOverdueHolds == ReviewInv => NothingOverdue
<1> SUFFICES ASSUME ReviewInv, NEW r \in ClockTicks, NEW at \in ReviewTime
             PROVE  LET n == RunReviewScheduleClock(Stored, r, at)
                        sleeps == ShouldSleep(LoadedClocks(Stored.clocks, r), r)
                    IN \A i \in DOMAIN n.entries :
                         /\ n.entries[i].status = "scheduled" => n.entries[i].due > at
                         /\ n.entries[i].status = "completed" => ~sleeps
                         /\ rev.entries[i].status = "suspended" => n.entries[i] = rev.entries[i]
  BY DEF NothingOverdue
<1> DEFINE n == RunReviewScheduleClock(Stored, r, at)
           sleeps == Consolidates(Stored, r)
<1>1. /\ IsReviewState(Stored) /\ CandsDecayedOnce(Stored) /\ at \in Nat
      /\ Stored.entries = rev.entries
  BY StoredIs, ReviewAssumption
<1>2. n.entries = TickedEntries(Stored, r, at)
  BY <1>1, TickIs
<1>3. sleeps \in BOOLEAN
  BY DEF Consolidates, ShouldSleep
<1> HIDE DEF n
<1>4. /\ DOMAIN n.entries = DOMAIN rev.entries
      /\ \A i \in DOMAIN n.entries : /\ n.entries[i] = TickEntry(rev.entries[i], sleeps, at)
                                     /\ rev.entries[i] \in ReviewEntry
  BY <1>1, <1>2 DEF TickedEntries, IsReviewState
<1> HIDE DEF sleeps
<1>5. \A i \in DOMAIN n.entries :
        /\ n.entries[i].status = "scheduled" => n.entries[i].due > at
        /\ n.entries[i].status = "completed" => ~sleeps
        /\ rev.entries[i].status = "suspended" => n.entries[i] = rev.entries[i]
  BY <1>1, <1>3, <1>4, TickEntryIs
<1> QED
  BY <1>5 DEF n, sleeps, Consolidates

LEMMA TicksMoveNothing == ReviewInv => TicksAgainMoveNothing
<1> SUFFICES ASSUME ReviewInv, NEW r \in ClockTicks, NEW at \in ReviewTime
             PROVE  LET n == RunReviewScheduleClock(Stored, r, at)
                    IN RunReviewScheduleClock(ImportClocks(n), r, at).cands = n.cands
  BY DEF TicksAgainMoveNothing
<1> DEFINE s == Stored
           n == RunReviewScheduleClock(s, r, at)
           i == ImportClocks(n)
           m == RunReviewScheduleClock(i, r, at)
<1>1. IsReviewState(s) /\ CandsDecayedOnce(s) /\ at \in Nat
  BY StoredIs, ReviewAssumption
<1> HIDE DEF s
<1>2. /\ IsReviewState(n) /\ CandsDecayedOnce(n)
      /\ n.cands = [c \in ShadowCand |-> CandTicked(c, s.cands[c], at)]
  BY <1>1, TickIs
<1> HIDE DEF n
<1>3. IsReviewState(i) /\ i.cands = n.cands
  BY <1>2, ImportedIs
<1>4. CandsDecayedOnce(i)
  BY <1>2, <1>3 DEF CandsDecayedOnce
<1> HIDE DEF i
<1>5. m.cands = [c \in ShadowCand |-> CandTicked(c, i.cands[c], at)]
  BY <1>1, <1>3, <1>4, TickIs
<1> HIDE DEF m
<1>6. \A c \in ShadowCand : CandTicked(c, n.cands[c], at) = n.cands[c]
  <2> SUFFICES ASSUME NEW c \in ShadowCand PROVE CandTicked(c, n.cands[c], at) = n.cands[c]
    OBVIOUS
  <2>1. s.cands[c] \in ReviewCand /\ DecayedOnce(c, s.cands[c])
    BY <1>1 DEF IsReviewState, CandsDecayedOnce
  <2>2. n.cands[c] = CandTicked(c, s.cands[c], at)
    BY <1>2
  <2> QED
    BY <1>1, <2>1, <2>2, CandTickedIs
<1>7. m.cands = n.cands
  <2>1. n.cands \in [ShadowCand -> ReviewCand]
    BY <1>2 DEF IsReviewState
  <2> QED
    BY <1>3, <1>5, <1>6, <2>1
<1> QED
  BY <1>7 DEF m, i, n, s

LEMMA ReviewInvIsRight == ReviewInv => ReviewTypeOK /\ ReviewsAreRight
<1> SUFFICES ASSUME ReviewInv PROVE ReviewTypeOK /\ ReviewsAreRight
  OBVIOUS
<1>1. ReviewTypeOK
  <2>1. DOMAIN rev.entries \subseteq Entry /\ rev.tiers \in ReviewTiers
    BY DEF ReviewInv, IsReviewState
  <2>2. \A t \in {"active", "warm", "cold", "frozen"} : rev.tiers[t] \subseteq Entry
    BY <2>1 DEF ReviewTiers
  <2>3. rev.clocks.fatigue \in 0..MaxLoad /\ rev.clocks.novelty \in Nat
    <3>1. MaxLoad \in Nat
      BY ReviewAssumption
    <3> QED
      BY <3>1 DEF ReviewInv, IsReviewState
  <2>4. \A c \in ShadowCand : rev.cands[c].confidence \in Nat /\ rev.cands[c].days \in Nat
    BY DEF ReviewInv, IsReviewState, ReviewCand
  <2> QED
    BY <2>1, <2>2, <2>3, <2>4 DEF ReviewTypeOK
<1>2. ActiveSetIsEarliest
  <2>1. IsReviewState(rev) /\ \A limit \in ActiveLimits : limit \in Nat
    BY ReviewAssumption DEF ReviewInv
  <2>2. \A at \in ReviewTime : at \in Nat
    BY ReviewAssumption
  <2> QED
    BY <2>1, <2>2, ActiveSetEarliest DEF ActiveSetIsEarliest
<1>3. DecaysOncePerDay
  BY DEF ReviewInv, CandsDecayedOnce, DecayedOnce, DecaysOncePerDay
<1> QED
  BY <1>1, <1>2, <1>3, NothingOverdueHolds, TicksMoveNothing DEF ReviewsAreRight

\* The active reviews are the earliest, a tick leaves nothing overdue, and
\* candidates decay once a day, however the ticks come.
THEOREM ReviewsRight == ReviewSpec => [](ReviewTypeOK /\ ReviewsAreRight)
BY ReviewInductive, ReviewInvIsRight, PTL

-----------------------------------------------------------------------------
(* PolicyTrail                                                              *)

EventsOrder == {e \in TrailEvents \X TrailEvents : Earlier(e[2], e[1])}

LEMMA TrailEventsAre ==
  ASSUME NEW x \in TrailEvents
  PROVE  x.at \in Nat /\ AuditOrder(x) \in Int
<1>1. x.at \in Nat
  BY TrailAssumption DEF TrailEvents, AuditEvent, DecisionsWritten, RecallsWritten, RecallEvent, PainWritten,
                         IncidentsWritten, ExportsOf
<1> QED
  BY <1>1, AuditOrderAssumption

LEMMA EarlierIsOrder ==
  ASSUME NEW S \in SUBSET TrailEvents
  PROVE  /\ IsOrder(EventsOrder, S)
         /\ \A n : NewestOf(S, n) = FirstOf(EventsOrder, S, n)
         /\ \A x, y, z \in S : Earlier(x, y) /\ Earlier(y, z) => Earlier(x, z)
         /\ \A x, y \in S : ~(Earlier(x, y) /\ Earlier(y, x))
         /\ \A x, y \in S : <<x, y>> \in EventsOrder <=> Earlier(y, x)
<1>1. \A x, y \in S : <<x, y>> \in EventsOrder <=> Earlier(y, x)
  BY DEF EventsOrder
<1>2. \A x \in S : x.at \in Nat /\ AuditOrder(x) \in Int
  BY TrailEventsAre
<1>3. \A x, y, z \in S : Earlier(x, y) /\ Earlier(y, z) => Earlier(x, z)
  BY <1>2 DEF Earlier
<1>4. \A x, y \in S : ~(Earlier(x, y) /\ Earlier(y, x))
  BY <1>2 DEF Earlier
<1>5. \A x, y \in S : x # y => Earlier(x, y) \/ Earlier(y, x)
  <2> SUFFICES ASSUME NEW x \in S, NEW y \in S, x # y PROVE Earlier(x, y) \/ Earlier(y, x)
    OBVIOUS
  <2>1. AuditOrder(x) # AuditOrder(y)
    BY AuditOrderAssumption
  <2> QED
    BY <1>2, <2>1 DEF Earlier
<1>6. IsOrder(EventsOrder, S)
  BY <1>1, <1>3, <1>4, <1>5 DEF IsOrder
<1>7. ASSUME NEW n PROVE NewestOf(S, n) = FirstOf(EventsOrder, S, n)
  <2>1. \A x \in S : Ahead(EventsOrder, S, x) = {y \in S : Earlier(x, y)}
    BY <1>1 DEF Ahead
  <2> QED
    BY <2>1 DEF NewestOf, FirstOf
<1> QED
  BY <1>1, <1>3, <1>4, <1>6, <1>7

LEMMA NewestAre ==
  ASSUME NEW S \in SUBSET TrailEvents, IsFiniteSet(S), NEW n \in Nat
  PROVE  /\ NewestOf(S, n) \subseteq S /\ IsFiniteSet(NewestOf(S, n))
         /\ Cardinality(NewestOf(S, n)) = Min({n, Cardinality(S)})
         /\ Cardinality(NewestOf(S, n)) <= n
         /\ Cardinality(NewestOf(S, n)) < n => NewestOf(S, n) = S
         /\ \A e \in NewestOf(S, n), lost \in S \ NewestOf(S, n) : Earlier(lost, e)
<1> DEFINE K == NewestOf(S, n)
<1>1. IsOrder(EventsOrder, S) /\ K = FirstOf(EventsOrder, S, n)
  BY EarlierIsOrder
<1> HIDE DEF K
<1>2. /\ K \subseteq S /\ IsFiniteSet(K)
      /\ Cardinality(K) = IF n < Cardinality(S) THEN n ELSE Cardinality(S)
      /\ \A x \in K, y \in S \ K : <<x, y>> \in EventsOrder
  BY <1>1, FirstAre
<1>3. Cardinality(S) \in Nat
  BY FS_CardinalityType
<1>4. Cardinality(K) = Min({n, Cardinality(S)})
  BY <1>2, <1>3, MinOfTwo
<1>5. Cardinality(K) < n => K = S
  BY <1>2, <1>3, FS_Subset
<1>6. \A e \in K, lost \in S \ K : Earlier(lost, e)
  BY <1>2, EarlierIsOrder
<1> QED
  BY <1>2, <1>3, <1>4, <1>5, <1>6 DEF K

\* The trail is the newest of all that was ever written.
TrailKept ==
  /\ everWritten \subseteq TrailEvents /\ IsFiniteSet(everWritten)
  /\ trail = NewestOf(everWritten, MaxTrailKept)

LEMMA AppendedKept ==
  ASSUME TrailKept, NEW e \in TrailEvents, AuditAppended(e)
  PROVE  TrailKept' /\ everWritten' = everWritten \cup {e}
<1> DEFINE W == everWritten \cup {e}
<1>1. /\ everWritten' = W /\ trail' = NewestOf(trail \cup {e}, MaxTrailKept)
      /\ W \in SUBSET TrailEvents /\ IsFiniteSet(W) /\ MaxTrailKept \in Nat
  BY FS_AddElement, TrailAssumption DEF AuditAppended, TrailKept
<1>2. trail = FirstOf(EventsOrder, everWritten, MaxTrailKept)
  BY EarlierIsOrder DEF TrailKept
<1>3. trail \subseteq everWritten
  BY NewestAre, <1>1 DEF TrailKept
<1> DEFINE C == trail \cup {e}
<1>4. C \in SUBSET TrailEvents
  BY <1>1, <1>3
<1>5. trail' = FirstOf(EventsOrder, C, MaxTrailKept)
  BY <1>1, <1>4, EarlierIsOrder
<1>6. IsOrder(EventsOrder, W) /\ NewestOf(W, MaxTrailKept) = FirstOf(EventsOrder, W, MaxTrailKept)
  BY <1>1, EarlierIsOrder
<1>7. C = With(FirstOf(EventsOrder, everWritten, MaxTrailKept), e) /\ W = With(everWritten, e)
  BY <1>2 DEF With
<1> HIDE DEF W, C
<1>8. FirstOf(EventsOrder, C, MaxTrailKept) = FirstOf(EventsOrder, W, MaxTrailKept)
  BY <1>1, <1>6, <1>7, FirstOfMore DEF TrailKept
<1> QED
  BY <1>1, <1>5, <1>6, <1>8 DEF TrailKept, W

LEMMA TrailIs ==
  ASSUME TrailKept
  PROVE  /\ trail \subseteq everWritten /\ IsFiniteSet(trail) /\ trail \subseteq TrailEvents
         /\ Cardinality(trail) <= MaxTrailKept
         /\ Cardinality(trail) < MaxTrailKept => trail = everWritten
         /\ TrailKeepsTheNewest
BY NewestAre, TrailAssumption DEF TrailKept, TrailKeepsTheNewest

DecisionKinds ==
  {[id |-> d.id, key |-> d.key, outcome |-> o, at |-> d.at] :
     d \in DecisionWrites, o \in DecisionOutcome}
DecisionDone == {"created", "noop", "updated"}
\* Every decision has the event that wrote it.
DecisionsKept ==
  /\ IsFiniteSet(decisions) /\ decisions \subseteq DecisionKinds
  /\ \A x, y \in decisions : x.id = y.id => x = y
  /\ \A x \in decisions : \E done \in DecisionDone :
       AuditEvent("decision", x.id, x.key, x.outcome, {done}, x.at) \in everWritten

\* Every incident that quarantines has an event that says so.
DeniedBy(i, e) == e.op = "incident" /\ e.entity = i.id /\ e.outcome = "deny"
Escalations == {EscalationOf(r) : r \in Incidents}
IncidentsKept ==
  /\ IsFiniteSet(incidents) /\ incidents \subseteq Escalations
  /\ \A i \in incidents : i.quarantines => \E e \in everWritten : DeniedBy(i, e)

LifecycleTyped ==
  /\ harms \subseteq Harms /\ IsFiniteSet(harms)
  /\ standing \in [TrailCand -> {"shadow", "promoted", "demoted"}] /\ ruled \subseteq TrailRule
  /\ raised \in Escalations \cup {NoIncident}
  /\ exported = [of |-> exported.of, content |-> exported.content,
                 overtaken |-> exported.overtaken]
  /\ ~exported.overtaken => exported.content = {} \/ exported.of \in ExportRequests

TrailInv ==
  /\ TrailKept /\ DecisionsKept /\ IncidentsKept /\ LifecycleTyped
  /\ QuarantineHolds /\ ExportsRepeat

LEMMA DecisionKindIs ==
  ASSUME NEW x \in DecisionKinds
  PROVE  /\ x.id \in Nat /\ x.at \in Nat /\ x.outcome \in DecisionOutcome
         /\ x = [id |-> x.id, key |-> x.key, outcome |-> x.outcome, at |-> x.at]
         /\ \A done \in DecisionDone :
              AuditEvent("decision", x.id, x.key, x.outcome, {done}, x.at) \in TrailEvents
<1>1. PICK d \in DecisionWrites, o \in DecisionOutcome :
        x = [id |-> d.id, key |-> d.key, outcome |-> o, at |-> d.at]
  BY DEF DecisionKinds
<1>2. d.id \in Nat /\ d.at \in Nat
  BY TrailAssumption
<1>3. x.id = d.id /\ x.key = d.key /\ x.outcome = o /\ x.at = d.at
  BY <1>1
<1>4. \A done \in DecisionDone : AuditEvent("decision", d.id, d.key, o, {done}, d.at) \in TrailEvents
  <2>1. \A done \in DecisionDone :
          AuditEvent("decision", d.id, d.key, o, {done}, d.at) \in DecisionsWritten
    BY DEF DecisionsWritten, DecisionDone
  <2> QED
    BY <2>1 DEF TrailEvents
<1> QED
  BY <1>1, <1>2, <1>3, <1>4

LEMMA UpdateKeeps ==
  ASSUME TrailInv, NEW d \in DecisionWrites, UpdateTrailDecision(d)
  PROVE  TrailKept' /\ DecisionsKept' /\ IncidentsKept'
<1> DEFINE old == {x \in decisions : x.id = d.id}
           next == IF old = {} THEN d ELSE DecisionMerged(CHOOSE x \in old : TRUE, d)
           done == IF old = {} THEN "created" ELSE IF next \in old THEN "noop" ELSE "updated"
           e == AuditEvent("decision", d.id, next.key, next.outcome, {done}, next.at)
<1>1. /\ decisions' = (decisions \ old) \cup {next} /\ AuditAppended(e)
      /\ incidents' = incidents
  BY DEF UpdateTrailDecision, Overtakes, lifecycleVars
<1>2. d = [id |-> d.id, key |-> d.key, outcome |-> d.outcome, at |-> d.at]
      /\ d.outcome \in DecisionOutcome
  BY TrailAssumption
<1>3. next \in DecisionKinds /\ next.id = d.id
  <2>1. CASE old = {}
    BY <1>2, <2>1 DEF DecisionKinds
  <2>2. CASE old # {}
    <3>1. PICK x \in old : next = DecisionMerged(x, d)
      BY <2>2
    <3>2. x.outcome \in DecisionOutcome
      BY DecisionKindIs DEF TrailInv, DecisionsKept
    <3> DEFINE o == IF OutcomeRank[x.outcome] >= OutcomeRank[d.outcome] THEN x.outcome ELSE d.outcome
    <3>3. next = [d EXCEPT !.outcome = o]
      BY <3>1 DEF DecisionMerged
    <3>4. o \in DecisionOutcome
      BY <1>2, <3>2
    <3> HIDE DEF o, next
    <3>5. next = [id |-> d.id, key |-> d.key, outcome |-> o, at |-> d.at]
      BY <1>2, <3>3
    <3> QED
      BY <3>4, <3>5 DEF DecisionKinds
  <2> QED
    BY <2>1, <2>2
<1>4. done \in DecisionDone
  BY DEF DecisionDone
<1> HIDE DEF next, done
<1>5. e \in TrailEvents
  BY <1>3, <1>4, DecisionKindIs
<1> HIDE DEF e
<1>6. TrailKept' /\ everWritten' = everWritten \cup {e}
  BY <1>1, <1>5, AppendedKept DEF TrailInv
<1>7. IsFiniteSet(decisions')
  BY <1>1, FS_Subset, FS_AddElement DEF TrailInv, DecisionsKept
<1>8. decisions' \subseteq DecisionKinds
  BY <1>1, <1>3 DEF TrailInv, DecisionsKept
<1>9. \A x, y \in decisions' : x.id = y.id => x = y
  BY <1>1, <1>3 DEF TrailInv, DecisionsKept
<1>10. \A x \in decisions' : \E o \in DecisionDone :
         AuditEvent("decision", x.id, x.key, x.outcome, {o}, x.at) \in everWritten'
  BY <1>1, <1>3, <1>4, <1>6 DEF TrailInv, DecisionsKept, e
<1>11. IncidentsKept'
  BY <1>1, <1>6 DEF TrailInv, IncidentsKept
<1> QED
  BY <1>6, <1>7, <1>8, <1>9, <1>10, <1>11 DEF DecisionsKept

\* An event more, or none, takes nothing from what rests on the events.
LEMMA WrittenMore ==
  ASSUME TrailInv, NEW e \in TrailEvents, AuditAppended(e) \/ NoAudit
  PROVE  /\ TrailKept' /\ everWritten \subseteq everWritten'
         /\ decisions' = decisions => DecisionsKept'
         /\ incidents' = incidents => IncidentsKept'
<1>1. TrailKept' /\ everWritten \subseteq everWritten'
  <2>1. CASE AuditAppended(e)
    BY <2>1, AppendedKept DEF TrailInv
  <2>2. CASE NoAudit
    BY <2>2 DEF TrailInv, TrailKept, NoAudit
  <2> QED
    BY <2>1, <2>2
<1>2. decisions' = decisions => DecisionsKept'
  BY <1>1 DEF TrailInv, DecisionsKept
<1>3. incidents' = incidents => IncidentsKept'
  BY <1>1 DEF TrailInv, IncidentsKept
<1> QED
  BY <1>1, <1>2, <1>3

LEMMA NothingWritten ==
  ASSUME TrailInv, NoAudit
  PROVE  /\ TrailKept' /\ everWritten' = everWritten
         /\ decisions' = decisions => DecisionsKept'
         /\ incidents' = incidents => IncidentsKept'
BY DEF TrailInv, TrailKept, DecisionsKept, IncidentsKept, NoAudit

LEMMA EscalationIs ==
  ASSUME NEW i \in Escalations
  PROVE  /\ i = [id |-> i.id, quarantines |-> i.quarantines, cands |-> i.cands,
                 rules |-> i.rules, at |-> i.at]
         /\ i.id \in Nat /\ i.at \in Nat /\ i.quarantines \in BOOLEAN
         /\ i.cands \subseteq TrailCand /\ i.rules \subseteq TrailRule
         /\ \A o \in {"deny", "review"}, gone \in SUBSET (TrailCand \cup TrailRule) :
              AuditEvent("incident", i.id, "none", o, gone, i.at) \in TrailEvents
<1>1. PICK r \in Incidents : i = EscalationOf(r)
  BY DEF Escalations
<1>2. /\ r.id \in Nat /\ r.at \in Nat /\ r.cands \subseteq TrailCand /\ r.rules \subseteq TrailRule
  BY TrailAssumption
<1>3. /\ i.id = r.id /\ i.quarantines = (r.severity \in ImmediateSeverity) /\ i.cands = r.cands
      /\ i.rules = r.rules /\ i.at = r.at
  BY <1>1 DEF EscalationOf
<1>4. i = [id |-> i.id, quarantines |-> i.quarantines, cands |-> i.cands, rules |-> i.rules,
           at |-> i.at]
  BY <1>1 DEF EscalationOf
<1>5. \A o \in {"deny", "review"}, gone \in SUBSET (TrailCand \cup TrailRule) :
        AuditEvent("incident", r.id, "none", o, gone, r.at) \in TrailEvents
  <2>1. \A o \in {"deny", "review"}, gone \in SUBSET (TrailCand \cup TrailRule) :
          AuditEvent("incident", r.id, "none", o, gone, r.at) \in IncidentsWritten
    BY DEF IncidentsWritten
  <2> QED
    BY <2>1 DEF TrailEvents
<1> QED
  BY <1>2, <1>3, <1>4, <1>5

LEMMA RaiseKeeps ==
  ASSUME TrailInv, NEW r \in Incidents, RaiseIncident(r)
  PROVE  TrailInv'
<1> DEFINE i == EscalationOf(r)
           q == Quarantined(i)
           out == IF i.quarantines THEN "deny" ELSE "review"
           e == AuditEvent("incident", i.id, "none", out, q.demoted \cup q.rules, i.at)
<1>1. /\ incidents' = {x \in incidents : x.id # i.id} \cup {i}
      /\ standing' = [c \in TrailCand |-> IF c \in q.demoted THEN "demoted" ELSE standing[c]]
      /\ ruled' = ruled \ q.rules
      /\ raised' = IF i.quarantines THEN i ELSE raised
      /\ IF i \in incidents /\ ~q.changed THEN NoAudit ELSE AuditAppended(e)
      /\ exported' = [exported EXCEPT !.overtaken = TRUE]
      /\ decisions' = decisions /\ harms' = harms
  BY DEF RaiseIncident, Overtakes
<1>2. i \in Escalations
  BY DEF Escalations
<1> HIDE DEF i
<1>3. q.demoted \subseteq TrailCand /\ q.rules \subseteq TrailRule
  BY <1>2, EscalationIs DEF Quarantined, NotYetDemoted, ResolvedTargets, TrailInv, LifecycleTyped
<1>4. i.quarantines => /\ {c \in ResolvedTargets(i) : standing[c] # "demoted"} \subseteq q.demoted
                       /\ ruled \cap i.rules \subseteq q.rules
  BY DEF Quarantined, NotYetDemoted, ResolvedTargets
<1>5. ~i.quarantines => q.demoted = {} /\ q.rules = {}
  BY DEF Quarantined
<1> HIDE DEF q
<1>6. e \in TrailEvents
  BY <1>2, <1>3, EscalationIs
<1>7. e.op = "incident" /\ e.entity = i.id /\ e.outcome = out
  BY DEF AuditEvent
<1> HIDE DEF e
<1>8. TrailKept' /\ everWritten \subseteq everWritten' /\ DecisionsKept'
  BY <1>1, <1>6, WrittenMore
<1>9. i.quarantines => \E x \in everWritten' : DeniedBy(i, x)
  <2>1. CASE i \in incidents
    BY <1>8, <2>1 DEF TrailInv, IncidentsKept
  <2>2. CASE i \notin incidents
    <3>1. e \in everWritten'
      BY <1>1, <2>2 DEF AuditAppended
    <3> QED
      BY <1>7, <3>1 DEF DeniedBy
  <2> QED
    BY <2>1, <2>2
<1>10. IncidentsKept'
  <2>1. IsFiniteSet(incidents')
    BY <1>1, FS_Subset, FS_AddElement DEF TrailInv, IncidentsKept
  <2>2. incidents' \subseteq Escalations
    BY <1>1, <1>2 DEF TrailInv, IncidentsKept
  <2>3. \A x \in incidents' : x.quarantines => \E y \in everWritten' : DeniedBy(x, y)
    BY <1>1, <1>8, <1>9 DEF TrailInv, IncidentsKept
  <2> QED
    BY <2>1, <2>2, <2>3 DEF IncidentsKept
<1>11. exported' = [of |-> exported.of, content |-> exported.content, overtaken |-> TRUE]
  BY <1>1 DEF TrailInv, LifecycleTyped
<1>12. LifecycleTyped'
  <2>1. standing' \in [TrailCand -> {"shadow", "promoted", "demoted"}]
    BY <1>1 DEF TrailInv, LifecycleTyped
  <2>2. ruled' \subseteq TrailRule /\ raised' \in Escalations \cup {NoIncident}
        /\ harms' \subseteq Harms /\ IsFiniteSet(harms')
    BY <1>1, <1>2 DEF TrailInv, LifecycleTyped
  <2> QED
    BY <1>11, <2>1, <2>2 DEF LifecycleTyped
<1>13. QuarantineHolds'
  <2>1. CASE i.quarantines
    <3>1. raised' = i
      BY <1>1, <2>1
    <3>2. ruled' \cap i.rules = {}
      BY <1>1, <1>4, <2>1
    <3>3. \A c \in TrailCand : c \in i.cands \/ TrailRuleOf[c] \in i.rules => standing'[c] = "demoted"
      BY <1>1, <1>4, <2>1 DEF ResolvedTargets
    <3>4. \E x \in everWritten' : x.op = "incident" /\ x.entity = i.id /\ x.outcome = "deny"
      BY <1>9, <2>1 DEF DeniedBy
    <3> QED
      BY <3>1, <3>2, <3>3, <3>4 DEF QuarantineHolds
  <2>2. CASE ~i.quarantines
    <3>1. raised' = raised /\ ruled' = ruled
      BY <1>1, <1>5, <2>2
    <3>2. standing' = standing
      BY <1>1, <1>5, <2>2 DEF TrailInv, LifecycleTyped
    <3> QED
      BY <1>8, <3>1, <3>2 DEF TrailInv, QuarantineHolds
  <2> QED
    BY <2>1, <2>2
<1>14. ExportsRepeat'
  BY <1>11 DEF ExportsRepeat
<1> QED
  BY <1>8, <1>10, <1>12, <1>13, <1>14 DEF TrailInv

\* The later decisions come first.
DecisionsOrder ==
  {p \in DecisionKinds \X DecisionKinds :
     p[1].at > p[2].at \/ (p[1].at = p[2].at /\ p[1].id > p[2].id)}

LEMMA LatestAre ==
  ASSUME DecisionsKept, NEW n \in Nat
  PROVE  /\ IsFiniteSet(LatestDecisions(n)) /\ Cardinality(LatestDecisions(n)) <= n
         /\ Cardinality(LatestDecisions(n)) \in Nat
<1>1. \A x \in DecisionKinds : x.at \in Nat /\ x.id \in Nat
  BY DecisionKindIs
<1>2. \A x, y \in decisions : <<x, y>> \in DecisionsOrder
        <=> x.at > y.at \/ (x.at = y.at /\ x.id > y.id)
  BY DEF DecisionsOrder, DecisionsKept
<1>3. IsOrder(DecisionsOrder, decisions)
  BY <1>1, <1>2 DEF IsOrder, DecisionsKept
<1>4. LatestDecisions(n) = FirstOf(DecisionsOrder, decisions, n)
  <2>1. \A d \in decisions : Ahead(DecisionsOrder, decisions, d)
          = {x \in decisions : x.at > d.at \/ (x.at = d.at /\ x.id > d.id)}
    BY <1>2 DEF Ahead
  <2> QED
    BY <2>1 DEF LatestDecisions, FirstOf
<1>5. Cardinality(decisions) \in Nat
  BY FS_CardinalityType DEF DecisionsKept
<1>6. /\ IsFiniteSet(LatestDecisions(n))
      /\ Cardinality(LatestDecisions(n)) = IF n < Cardinality(decisions) THEN n ELSE Cardinality(decisions)
  BY <1>3, <1>4, FirstAre DEF DecisionsKept
<1> QED
  BY <1>5, <1>6

LEMMA ExportSize ==
  ASSUME TrailKept, DecisionsKept, NEW r \in ExportRequests
  PROVE  AuditEvent("export", Cardinality(ExportOf(r)), "none", "recorded", {}, r.at) \in TrailEvents
<1> DEFINE ds == LatestDecisions(r.limit)
           es == NewestOf(TrailWithoutExports, r.limit)
           head == {[type |-> "manifest", of |-> <<Cardinality(ds), Cardinality(es)>>]}
           decided == {[type |-> "policy_decision", of |-> d] : d \in ds}
           audited == {[type |-> "policy_audit_event", of |-> e] : e \in es}
           checked == {[type |-> "incident_check", of |-> c] : c \in ExportChecks(ds, es)}
<1>1. r.limit \in Nat
  BY TrailAssumption
<1>2. IsFiniteSet(ds) /\ Cardinality(ds) <= r.limit /\ Cardinality(ds) \in Nat
  BY <1>1, LatestAre
<1>3. TrailWithoutExports \in SUBSET TrailEvents /\ IsFiniteSet(TrailWithoutExports)
  BY TrailIs, FS_Subset DEF TrailWithoutExports
<1>4. IsFiniteSet(es) /\ Cardinality(es) <= r.limit /\ Cardinality(es) \in Nat
  BY <1>1, <1>3, NewestAre, FS_CardinalityType
<1>5. ExportOf(r) = head \cup decided \cup audited \cup checked
  BY DEF ExportOf, ExportRecords
<1>6. IsFiniteSet(ExportChecks(ds, es)) /\ Cardinality(ExportChecks(ds, es)) <= 2
      /\ Cardinality(ExportChecks(ds, es)) \in Nat
  <2> DEFINE a == <<"decision_traceability", ds # {}>>
             b == <<"rollback_readiness", es # {}>>
  <2>1. ExportChecks(ds, es) = {a} \cup {b}
    BY DEF ExportChecks
  <2> HIDE DEF a, b
  <2>2. IsFiniteSet({a}) /\ Cardinality({a}) = 1 /\ IsFiniteSet({b}) /\ Cardinality({b}) = 1
    BY FS_Singleton
  <2> QED
    BY <2>1, <2>2, UnionIsFinite
<1> HIDE DEF ds, es
<1>7. IsFiniteSet(head) /\ Cardinality(head) = 1
  BY FS_Singleton
<1>8. IsFiniteSet(decided) /\ Cardinality(decided) <= r.limit
  <2> DEFINE f == [d \in ds |-> [type |-> "policy_decision", of |-> d]]
  <2>1. decided = {f[d] : d \in ds}
    OBVIOUS
  <2> HIDE DEF f, decided
  <2>2. IsFiniteSet(decided) /\ Cardinality(decided) <= Cardinality(ds)
    BY <1>2, <2>1, ImageIsFinite
  <2>3. Cardinality(decided) \in Nat
    BY <2>2, FS_CardinalityType
  <2> QED
    BY <1>1, <1>2, <2>2, <2>3
<1>9. IsFiniteSet(audited) /\ Cardinality(audited) <= r.limit
  <2> DEFINE f == [e \in es |-> [type |-> "policy_audit_event", of |-> e]]
  <2>1. audited = {f[e] : e \in es}
    OBVIOUS
  <2> HIDE DEF f, audited
  <2>2. IsFiniteSet(audited) /\ Cardinality(audited) <= Cardinality(es)
    BY <1>4, <2>1, ImageIsFinite
  <2>3. Cardinality(audited) \in Nat
    BY <2>2, FS_CardinalityType
  <2> QED
    BY <1>1, <1>4, <2>2, <2>3
<1>10. IsFiniteSet(checked) /\ Cardinality(checked) <= 2
  <2> DEFINE cs == ExportChecks(ds, es)
             f == [c \in cs |-> [type |-> "incident_check", of |-> c]]
  <2>1. checked = {f[c] : c \in cs}
    OBVIOUS
  <2>2. IsFiniteSet(cs) /\ Cardinality(cs) <= 2 /\ Cardinality(cs) \in Nat
    BY <1>6
  <2> HIDE DEF f, checked, cs
  <2>3. IsFiniteSet(checked) /\ Cardinality(checked) <= Cardinality(cs)
    BY <2>1, <2>2, ImageIsFinite
  <2>4. Cardinality(checked) \in Nat
    BY <2>3, FS_CardinalityType
  <2> QED
    BY <2>2, <2>3, <2>4
<1>11. /\ Cardinality(decided) \in Nat /\ Cardinality(audited) \in Nat /\ Cardinality(checked) \in Nat
  BY <1>8, <1>9, <1>10, FS_CardinalityType
<1> HIDE DEF head, decided, audited, checked
<1>12. IsFiniteSet(head \cup decided) /\ Cardinality(head \cup decided) <= 1 + r.limit
       /\ Cardinality(head \cup decided) \in Nat
  BY <1>1, <1>7, <1>8, <1>11, UnionIsFinite
<1>13. /\ IsFiniteSet(head \cup decided \cup audited)
       /\ Cardinality(head \cup decided \cup audited) <= 1 + 2 * r.limit
       /\ Cardinality(head \cup decided \cup audited) \in Nat
  BY <1>1, <1>9, <1>11, <1>12, UnionIsFinite
<1>14. Cardinality(ExportOf(r)) \in 0..(2 * r.limit + 3)
  BY <1>1, <1>5, <1>10, <1>11, <1>13, UnionIsFinite
<1>15. AuditEvent("export", Cardinality(ExportOf(r)), "none", "recorded", {}, r.at) \in ExportsOf(r)
  BY <1>14 DEF ExportsOf
<1> QED
  BY <1>15 DEF TrailEvents

LEMMA ExportKeeps ==
  ASSUME TrailInv, NEW r \in ExportRequests, ExportAudit(r)
  PROVE  TrailInv'
<1> DEFINE content == ExportOf(r)
           e == AuditEvent("export", Cardinality(content), "none", "recorded", {}, r.at)
<1>1. /\ AuditAppended(e)
      /\ exported' = [of |-> r, content |-> {content}, overtaken |-> FALSE]
      /\ decisions' = decisions /\ incidents' = incidents /\ harms' = harms
      /\ standing' = standing /\ ruled' = ruled /\ raised' = raised
  BY DEF ExportAudit, lifecycleVars
<1>2. e \in TrailEvents
  BY ExportSize DEF TrailInv
<1>3. e.op = "export"
  BY DEF AuditEvent
<1> HIDE DEF e
<1>4. TrailKept' /\ everWritten' = everWritten \cup {e}
  BY <1>1, <1>2, AppendedKept DEF TrailInv
<1>5. DecisionsKept' /\ IncidentsKept'
  BY <1>1, <1>2, WrittenMore
<1>6. LifecycleTyped'
  <2>1. exported' = [of |-> exported'.of, content |-> exported'.content,
                     overtaken |-> exported'.overtaken]
        /\ exported'.of \in ExportRequests
    BY <1>1
  <2> QED
    BY <1>1, <2>1 DEF TrailInv, LifecycleTyped
<1>7. QuarantineHolds'
  BY <1>1, <1>4 DEF TrailInv, QuarantineHolds
<1>8. ExportsRepeat'
  <2> SUFFICES ASSUME Cardinality(trail') < MaxTrailKept PROVE ExportOf(r)' = content
    BY <1>1 DEF ExportsRepeat
  <2>1. trail' = everWritten'
    BY <1>4, NewestAre, TrailAssumption DEF TrailKept
  <2>2. Cardinality(everWritten) < MaxTrailKept
    <3>1. everWritten \subseteq everWritten' /\ IsFiniteSet(everWritten')
      BY <1>4 DEF TrailKept
    <3>2. Cardinality(everWritten) <= Cardinality(everWritten')
          /\ Cardinality(everWritten) \in Nat /\ Cardinality(everWritten') \in Nat
      BY <3>1, FS_Subset, FS_CardinalityType
    <3> QED
      BY <2>1, <3>2, TrailAssumption
  <2>3. trail = everWritten
    <3>1. trail \subseteq everWritten /\ IsFiniteSet(everWritten)
      BY TrailIs DEF TrailInv, TrailKept
    <3>2. Cardinality(trail) <= Cardinality(everWritten) /\ Cardinality(trail) \in Nat
          /\ Cardinality(everWritten) \in Nat
      BY <3>1, FS_Subset, FS_CardinalityType
    <3>3. Cardinality(trail) < MaxTrailKept
      BY <2>2, <3>2, TrailAssumption
    <3> QED
      BY <3>3, TrailIs DEF TrailInv
  <2>4. TrailWithoutExports' = TrailWithoutExports
    BY <1>3, <1>4, <2>1, <2>3 DEF TrailWithoutExports
  <2>5. LatestDecisions(r.limit)' = LatestDecisions(r.limit)
    BY <1>1 DEF LatestDecisions
  <2> QED
    BY <2>4, <2>5 DEF ExportOf
<1> QED
  BY <1>4, <1>5, <1>6, <1>7, <1>8 DEF TrailInv

LEMMA OthersKeep ==
  ASSUME TrailInv,
         \/ \E r \in RecallChecks : AuthorizeTrailRecall(r)
         \/ \E h \in Harms : HarmSignalled(h)
         \/ \E c \in TrailCand : PromoteCandidate(c)
  PROVE  TrailInv'
<1>1. ASSUME Overtakes
      PROVE  /\ exported' = [of |-> exported.of, content |-> exported.content, overtaken |-> TRUE]
             /\ ExportsRepeat'
  <2>1. exported' = [exported EXCEPT !.overtaken = TRUE]
    BY <1>1 DEF Overtakes
  <2>2. exported' = [of |-> exported.of, content |-> exported.content, overtaken |-> TRUE]
    BY <2>1 DEF TrailInv, LifecycleTyped
  <2> QED
    BY <2>2 DEF ExportsRepeat
<1>2. ASSUME NEW r \in RecallChecks, AuthorizeTrailRecall(r) PROVE TrailInv'
  <2> DEFINE o == IF r.granted THEN "allow" ELSE "deny"
             e == RecallEvent(r, o)
  <2>1. /\ AuditAppended(e) /\ Overtakes
        /\ decisions' = decisions /\ incidents' = incidents /\ harms' = harms
        /\ standing' = standing /\ ruled' = ruled /\ raised' = raised
    BY <1>2 DEF AuthorizeTrailRecall, lifecycleVars
  <2>2. e \in TrailEvents
    <3>1. o \in {"allow", "deny"}
      OBVIOUS
    <3> HIDE DEF o
    <3>2. e \in RecallsWritten
      BY <3>1 DEF RecallsWritten
    <3> QED
      BY <3>2 DEF TrailEvents
  <2> HIDE DEF e
  <2>3. TrailKept' /\ everWritten \subseteq everWritten' /\ DecisionsKept' /\ IncidentsKept'
    BY <2>1, <2>2, WrittenMore
  <2>4. LifecycleTyped'
    BY <1>1, <2>1 DEF TrailInv, LifecycleTyped
  <2>5. QuarantineHolds'
    BY <2>1, <2>3 DEF TrailInv, QuarantineHolds
  <2> QED
    BY <1>1, <2>1, <2>3, <2>4, <2>5 DEF TrailInv
<1>3. ASSUME NEW h \in Harms, HarmSignalled(h) PROVE TrailInv'
  <2> DEFINE e == AuditEvent("pain", h.id, "none", "recorded", {}, h.at)
  <2>1. /\ AuditAppended(e) \/ NoAudit
        /\ Overtakes /\ harms' = harms \cup {h}
        /\ decisions' = decisions /\ incidents' = incidents
        /\ standing' = standing /\ ruled' = ruled /\ raised' = raised
    BY <1>3 DEF HarmSignalled, lifecycleVars
  <2>2. e \in TrailEvents
    <3>1. e \in PainWritten
      BY DEF PainWritten
    <3> QED
      BY <3>1 DEF TrailEvents
  <2> HIDE DEF e
  <2>3. TrailKept' /\ everWritten \subseteq everWritten' /\ DecisionsKept' /\ IncidentsKept'
    BY <2>1, <2>2, WrittenMore
  <2>4. IsFiniteSet(harms') /\ harms' \subseteq Harms
    BY <2>1, FS_AddElement DEF TrailInv, LifecycleTyped
  <2>5. LifecycleTyped'
    BY <1>1, <2>1, <2>4 DEF TrailInv, LifecycleTyped
  <2>6. QuarantineHolds'
    BY <2>1, <2>3 DEF TrailInv, QuarantineHolds
  <2> QED
    BY <1>1, <2>1, <2>3, <2>5, <2>6 DEF TrailInv
<1>4. ASSUME NEW c \in TrailCand, PromoteCandidate(c) PROVE TrailInv'
  <2>1. /\ NoAudit /\ Overtakes /\ raised' = NoIncident
        /\ standing' = [standing EXCEPT ![c] = "promoted"]
        /\ ruled' = ruled \cup {TrailRuleOf[c]}
        /\ decisions' = decisions /\ incidents' = incidents /\ harms' = harms
    BY <1>4 DEF PromoteCandidate
  <2>2. TrailKept' /\ DecisionsKept' /\ IncidentsKept'
    BY <2>1, NothingWritten
  <2>3. standing' \in [TrailCand -> {"shadow", "promoted", "demoted"}]
    <3>1. standing \in [TrailCand -> {"shadow", "promoted", "demoted"}]
      BY DEF TrailInv, LifecycleTyped
    <3> QED
      BY <2>1, <3>1
  <2>6. ruled' \subseteq TrailRule
    <3>1. ruled \subseteq TrailRule /\ TrailRuleOf[c] \in TrailRule
      BY TrailAssumption DEF TrailInv, LifecycleTyped
    <3> QED
      BY <2>1, <3>1
  <2>4. LifecycleTyped'
    BY <1>1, <2>1, <2>3, <2>6 DEF TrailInv, LifecycleTyped
  <2>5. QuarantineHolds'
    BY <2>1 DEF QuarantineHolds, NoIncident
  <2> QED
    BY <1>1, <2>1, <2>2, <2>4, <2>5 DEF TrailInv
<1> QED
  BY <1>2, <1>3, <1>4

LEMMA TrailStep == TrailInv /\ [TrailNext]_trailVars => TrailInv'
<1> SUFFICES ASSUME TrailInv, [TrailNext]_trailVars PROVE TrailInv'
  OBVIOUS
<1>1. ASSUME NEW d \in DecisionWrites, UpdateTrailDecision(d) PROVE TrailInv'
  <2>1. /\ exported' = [exported EXCEPT !.overtaken = TRUE]
        /\ harms' = harms /\ standing' = standing /\ ruled' = ruled /\ raised' = raised
    BY <1>1 DEF UpdateTrailDecision, Overtakes, lifecycleVars
  <2>2. exported' = [of |-> exported.of, content |-> exported.content, overtaken |-> TRUE]
    BY <2>1 DEF TrailInv, LifecycleTyped
  <2>3. LifecycleTyped'
    BY <2>1, <2>2 DEF TrailInv, LifecycleTyped
  <2>4. TrailKept' /\ DecisionsKept' /\ IncidentsKept'
    BY <1>1, UpdateKeeps
  <2>5. everWritten \subseteq everWritten'
    BY <1>1 DEF UpdateTrailDecision, AuditAppended
  <2>6. QuarantineHolds'
    BY <2>1, <2>5 DEF TrailInv, QuarantineHolds
  <2>7. ExportsRepeat'
    BY <2>2 DEF ExportsRepeat
  <2> QED
    BY <2>3, <2>4, <2>6, <2>7 DEF TrailInv
<1>2. ASSUME NEW i \in Incidents, RaiseIncident(i) PROVE TrailInv'
  BY <1>2, RaiseKeeps
<1>3. ASSUME NEW r \in ExportRequests, ExportAudit(r) PROVE TrailInv'
  BY <1>3, ExportKeeps
<1>4. CASE UNCHANGED trailVars
  <2>1. /\ trail' = trail /\ decisions' = decisions /\ incidents' = incidents /\ harms' = harms
        /\ standing' = standing /\ ruled' = ruled /\ everWritten' = everWritten
        /\ exported' = exported /\ raised' = raised
    BY <1>4 DEF trailVars
  <2>2. TrailKept' /\ DecisionsKept' /\ IncidentsKept' /\ LifecycleTyped' /\ QuarantineHolds'
    BY <2>1 DEF TrailInv, TrailKept, DecisionsKept, IncidentsKept, LifecycleTyped, QuarantineHolds
  <2>3. LatestDecisions(exported.of.limit)' = LatestDecisions(exported.of.limit)
        /\ TrailWithoutExports' = TrailWithoutExports
    BY <2>1 DEF LatestDecisions, TrailWithoutExports
  <2>4. ExportsRepeat'
    BY <2>1, <2>3 DEF TrailInv, ExportsRepeat, ExportOf
  <2> QED
    BY <2>2, <2>4 DEF TrailInv
<1> QED
  BY <1>1, <1>2, <1>3, <1>4, OthersKeep DEF TrailNext

LEMMA TrailStarts == TrailInit => TrailInv
<1> SUFFICES ASSUME TrailInit PROVE TrailInv
  OBVIOUS
<1>1. IsFiniteSet({})
  BY FS_EmptySet
<1>2. TrailKept
  <2>1. NewestOf({}, MaxTrailKept) = {}
    BY DEF NewestOf
  <2> QED
    BY <1>1, <2>1 DEF TrailInit, TrailKept
<1>3. DecisionsKept /\ IncidentsKept
  BY <1>1 DEF TrailInit, DecisionsKept, IncidentsKept
<1>4. LifecycleTyped /\ ExportsRepeat
  BY <1>1 DEF TrailInit, LifecycleTyped, ExportsRepeat
<1>5. QuarantineHolds
  BY DEF TrailInit, QuarantineHolds, NoIncident
<1> QED
  BY <1>2, <1>3, <1>4, <1>5 DEF TrailInv

LEMMA TrailInductive == TrailSpec => []TrailInv
  BY TrailStarts, TrailStep, PTL DEF TrailSpec

LEMMA DriftReal == TrailKept => DriftIsReal
<1> SUFFICES ASSUME TrailKept, NEW e \in PolicyDrift(trail) PROVE e \in PolicyDrift(everWritten)
  BY DEF DriftIsReal
<1>1. trail \subseteq everWritten /\ everWritten \in SUBSET TrailEvents
      /\ \A x \in trail, lost \in everWritten \ trail : Earlier(lost, x)
  BY TrailIs DEF TrailKept, TrailKeepsTheNewest
<1>2. PICK p \in DecisionEvents(trail) :
        /\ p.key = e.key /\ Earlier(p, e) /\ p.outcome # e.outcome
        /\ ~\E q \in DecisionEvents(trail) : q.key = e.key /\ Earlier(p, q) /\ Earlier(q, e)
  BY DEF PolicyDrift
<1>3. e \in DecisionEvents(everWritten) /\ p \in DecisionEvents(everWritten) /\ p \in trail
  BY <1>1 DEF PolicyDrift, DecisionEvents
<1>4. ASSUME NEW q \in DecisionEvents(everWritten), q.key = e.key, Earlier(p, q), Earlier(q, e)
      PROVE  FALSE
  <2>1. q \in trail
    <3> SUFFICES ASSUME q \notin trail PROVE FALSE
      OBVIOUS
    <3>1. q \in everWritten \ trail
      BY DEF DecisionEvents
    <3>2. Earlier(q, p)
      BY <1>1, <1>3, <3>1
    <3>3. p \in everWritten /\ q \in everWritten
      BY <1>1, <1>3, <3>1
    <3> QED
      BY <1>1, <1>4, <3>2, <3>3, EarlierIsOrder
  <2>2. q \in DecisionEvents(trail)
    BY <2>1 DEF DecisionEvents
  <2> QED
    BY <1>2, <1>4, <2>2
<1> QED
  BY <1>2, <1>3, <1>4 DEF PolicyDrift

-----------------------------------------------------------------------------
(* The console.                                                             *)

RowTypes == {"feedback", "incident_escalation", "pain_signal", "policy_audit_event", "policy_decision"}
RowIsTyped(x) == x.type \in RowTypes /\ x.id \in Int /\ x.at \in Nat

LEMMA RowsAre ==
  ASSUME TrailInv
  PROVE  /\ IsFiniteSet(ConsoleRows)
         /\ \A x \in ConsoleRows : RowIsTyped(x)
         /\ \A x, y \in ConsoleRows : x.type = y.type /\ x.id = y.id /\ x.at = y.at => x = y
         /\ \A x \in ConsoleRows : x.type = "incident_escalation" <=> x \in IncidentRows
         /\ trail \in SUBSET TrailEvents
<1>1. /\ IsFiniteSet(decisions) /\ decisions \subseteq DecisionKinds
      /\ IsFiniteSet(incidents) /\ incidents \subseteq Escalations
      /\ IsFiniteSet(harms) /\ harms \subseteq Harms
      /\ IsFiniteSet(trail) /\ trail \subseteq TrailEvents
  BY TrailIs DEF TrailInv, DecisionsKept, IncidentsKept, LifecycleTyped
<1>2. IsFiniteSet(DecisionRows)
  <2> DEFINE f == [d \in decisions |-> ConsoleRow("policy_decision", d.id, d.at)]
  <2>1. DecisionRows = {f[d] : d \in decisions}
    BY DEF DecisionRows
  <2> HIDE DEF f
  <2> QED
    BY <1>1, <2>1, ImageIsFinite
<1>3. IsFiniteSet(AuditRows)
  <2> DEFINE f == [e \in trail |-> [ConsoleRow("policy_audit_event", AuditOrder(e), e.at)
                                      EXCEPT !.mentions = {e.entity}]]
  <2>1. AuditRows = {f[e] : e \in trail}
    BY DEF AuditRows
  <2> HIDE DEF f
  <2> QED
    BY <1>1, <2>1, ImageIsFinite
<1>4. IsFiniteSet(IncidentRows)
  <2> DEFINE f == [i \in incidents |-> ConsoleRow("incident_escalation", i.id, i.at)]
  <2>1. IncidentRows = {f[i] : i \in incidents}
    BY DEF IncidentRows
  <2> HIDE DEF f
  <2> QED
    BY <1>1, <2>1, ImageIsFinite
<1>5. IsFiniteSet(HarmRows)
  <2> DEFINE f == [h \in harms |-> ConsoleRow(h.kind, h.id, h.at)]
  <2>1. HarmRows = {f[h] : h \in harms}
    BY DEF HarmRows
  <2> HIDE DEF f
  <2> QED
    BY <1>1, <2>1, ImageIsFinite
<1>6. IsFiniteSet(ConsoleRows)
  BY <1>2, <1>3, <1>4, <1>5, UnionIsFinite DEF ConsoleRows
<1>7. ASSUME NEW x \in DecisionRows
      PROVE  RowIsTyped(x) /\ x.type = "policy_decision" /\ x = ConsoleRow(x.type, x.id, x.at)
  <2>1. PICK d \in decisions : x = ConsoleRow("policy_decision", d.id, d.at)
    BY DEF DecisionRows
  <2>2. d.id \in Nat /\ d.at \in Nat
    BY <1>1, DecisionKindIs
  <2> QED
    BY <2>1, <2>2 DEF ConsoleRow, RowIsTyped, RowTypes
<1>8. ASSUME NEW x \in AuditRows
      PROVE  /\ RowIsTyped(x) /\ x.type = "policy_audit_event"
             /\ \E e \in trail : x.id = AuditOrder(e)
                  /\ x = [ConsoleRow("policy_audit_event", AuditOrder(e), e.at)
                            EXCEPT !.mentions = {e.entity}]
  <2>1. PICK e \in trail : x = [ConsoleRow("policy_audit_event", AuditOrder(e), e.at)
                                  EXCEPT !.mentions = {e.entity}]
    BY DEF AuditRows
  <2>2. AuditOrder(e) \in Int /\ e.at \in Nat
    BY <1>1, TrailEventsAre
  <2>3. x = [type |-> "policy_audit_event", id |-> AuditOrder(e), at |-> e.at, mentions |-> {e.entity}]
    BY <2>1 DEF ConsoleRow
  <2>4. x.type = "policy_audit_event" /\ x.id = AuditOrder(e) /\ x.at = e.at
    BY <2>3
  <2>5. RowIsTyped(x)
    BY <2>2, <2>4 DEF RowIsTyped, RowTypes
  <2> QED
    BY <2>1, <2>4, <2>5
<1>9. ASSUME NEW x \in IncidentRows
      PROVE  RowIsTyped(x) /\ x.type = "incident_escalation" /\ x = ConsoleRow(x.type, x.id, x.at)
  <2>1. PICK i \in incidents : x = ConsoleRow("incident_escalation", i.id, i.at)
    BY DEF IncidentRows
  <2>2. i.id \in Nat /\ i.at \in Nat
    BY <1>1, EscalationIs
  <2> QED
    BY <2>1, <2>2 DEF ConsoleRow, RowIsTyped, RowTypes
<1>10. ASSUME NEW x \in HarmRows
       PROVE  /\ RowIsTyped(x) /\ x.type \in {"pain_signal", "feedback"}
              /\ x = ConsoleRow(x.type, x.id, x.at)
  <2>1. PICK h \in harms : x = ConsoleRow(h.kind, h.id, h.at)
    BY DEF HarmRows
  <2>2. h.id \in Nat /\ h.at \in Nat /\ h.kind \in {"pain_signal", "feedback"}
    BY <1>1, TrailAssumption
  <2> QED
    BY <2>1, <2>2 DEF ConsoleRow, RowIsTyped, RowTypes
<1>11. \A x \in ConsoleRows : x \in DecisionRows \/ x \in AuditRows \/ x \in IncidentRows \/ x \in HarmRows
  BY DEF ConsoleRows
<1>12. \A x \in ConsoleRows : RowIsTyped(x)
  BY <1>7, <1>8, <1>9, <1>10, <1>11
<1>13. \A x \in ConsoleRows : x.type = "incident_escalation" <=> x \in IncidentRows
  BY <1>7, <1>8, <1>9, <1>10, <1>11
<1>14. ASSUME NEW x \in ConsoleRows, NEW y \in ConsoleRows,
              x.type = y.type, x.id = y.id, x.at = y.at
       PROVE  x = y
  <2>1. CASE x.type = "policy_audit_event"
    <3>1. x \in AuditRows /\ y \in AuditRows
      BY <1>7, <1>9, <1>10, <1>11, <1>14, <2>1
    <3>2. PICK e \in trail : x.id = AuditOrder(e)
            /\ x = [ConsoleRow("policy_audit_event", AuditOrder(e), e.at) EXCEPT !.mentions = {e.entity}]
      BY <1>8, <3>1
    <3>3. PICK f \in trail : y.id = AuditOrder(f)
            /\ y = [ConsoleRow("policy_audit_event", AuditOrder(f), f.at) EXCEPT !.mentions = {f.entity}]
      BY <1>8, <3>1
    <3>4. e = f
      BY <1>1, <1>14, <3>2, <3>3, AuditOrderAssumption
    <3> QED
      BY <3>2, <3>3, <3>4
  <2>2. CASE x.type # "policy_audit_event"
    <3>1. x = ConsoleRow(x.type, x.id, x.at) /\ y = ConsoleRow(y.type, y.id, y.at)
      BY <1>7, <1>8, <1>9, <1>10, <1>11, <1>14, <2>2
    <3> QED
      BY <1>14, <3>1
  <2> QED
    BY <2>1, <2>2
<1> QED
  BY <1>1, <1>6, <1>12, <1>13, <1>14

RowsOrder(S) == {p \in S \X S : RowBefore(p[1], p[2])}
LEMMA RowsOrdered ==
  ASSUME TrailInv, NEW S \in SUBSET ConsoleRows
  PROVE  /\ IsOrder(RowsOrder(S), S) /\ IsFiniteSet(S)
         /\ \A x, y \in S : <<x, y>> \in RowsOrder(S) <=> RowBefore(x, y)
         /\ \A x, y \in S : RowBefore(x, y) => x.at >= y.at
         /\ \A x \in S : ~RowBefore(x, x)
<1>1. \A x \in S : x.type \in RowTypes /\ x.id \in Int /\ x.at \in Nat
  BY RowsAre DEF RowIsTyped
<1>2. \A t \in RowTypes : TypeRank[t] \in Nat
  BY DEF RowTypes, TypeRank
<1>3. \A t, u \in RowTypes : TypeRank[t] = TypeRank[u] => t = u
  BY DEF RowTypes, TypeRank
<1>4. \A x, y \in S : <<x, y>> \in RowsOrder(S) <=> RowBefore(x, y)
  BY DEF RowsOrder
<1>5. \A x \in S : TypeRank[x.type] \in Nat
  BY <1>1, <1>2
<1>6. \A x \in S : ~RowBefore(x, x)
  BY <1>1, <1>5 DEF RowBefore
<1>7. \A x, y, z \in S : RowBefore(x, y) /\ RowBefore(y, z) => RowBefore(x, z)
  BY <1>1, <1>5 DEF RowBefore
<1>8. ASSUME NEW x \in S, NEW y \in S, x # y PROVE RowBefore(x, y) \/ RowBefore(y, x)
  <2>1. x.type # y.type \/ x.id # y.id \/ x.at # y.at
    BY <1>8, RowsAre
  <2>2. x.type # y.type => TypeRank[x.type] # TypeRank[y.type]
    BY <1>1, <1>3
  <2> QED
    BY <1>1, <1>5, <2>1, <2>2 DEF RowBefore
<1>9. IsOrder(RowsOrder(S), S)
  BY <1>4, <1>6, <1>7, <1>8 DEF IsOrder
<1>10. \A x, y \in S : RowBefore(x, y) => x.at >= y.at
  BY <1>1 DEF RowBefore
<1>11. IsFiniteSet(S)
  BY RowsAre, FS_Subset
<1> QED
  BY <1>4, <1>6, <1>9, <1>10, <1>11

TimelineIsNewest(q) ==
  LET t == Timeline(q)
      rest == {x \in ConsoleRows : InRange(x.at, q.since, q.until)
                 /\ (q.types # {} => x.type \in q.types)} \ ToSet(t.page)
  IN /\ \A i, j \in DOMAIN t.page : i < j => t.page[i].at >= t.page[j].at
     /\ \A x \in rest, i \in DOMAIN t.page : t.page[i].at >= x.at
     /\ rest # {} => Len(t.page) = q.limit

LEMMA TimelineIs ==
  ASSUME TrailInv, NEW q \in PageRequests
  PROVE  TimelineIsNewest(q)
<1> DEFINE listed == {x \in ConsoleRows : InRange(x.at, q.since, q.until)
                      /\ (q.types # {} => x.type \in q.types)}
           R == RowsOrder(listed)
           m == IF q.limit < Cardinality(listed) THEN q.limit ELSE Cardinality(listed)
           shown == Timeline(q).page
<1>1. listed \in SUBSET ConsoleRows
  OBVIOUS
<1>2. shown = [k \in 1..Min({q.limit, Cardinality(listed)}) |->
                CHOOSE x \in listed : Cardinality({y \in listed : RowBefore(y, x)}) = k - 1]
  BY DEF Timeline
<1>3. TimelineIsNewest(q) <=>
        /\ \A i, j \in DOMAIN shown : i < j => shown[i].at >= shown[j].at
        /\ \A x \in listed \ ToSet(shown), i \in DOMAIN shown : shown[i].at >= x.at
        /\ listed \ ToSet(shown) # {} => Len(shown) = q.limit
  BY DEF TimelineIsNewest
<1> HIDE DEF listed, shown
<1>4. /\ IsOrder(R, listed) /\ IsFiniteSet(listed)
      /\ \A x, y \in listed : <<x, y>> \in R <=> RowBefore(x, y)
      /\ \A x, y \in listed : RowBefore(x, y) => x.at >= y.at
  BY <1>1, RowsOrdered
<1> HIDE DEF R
<1>5. q.limit \in Nat /\ Cardinality(listed) \in Nat
  BY <1>4, TrailAssumption, FS_CardinalityType
<1>6. m \in Nat /\ m = IF q.limit < Cardinality(listed) THEN q.limit ELSE Cardinality(listed)
  BY <1>5
<1> HIDE DEF m
<1>7. Min({q.limit, Cardinality(listed)}) = m
  BY <1>5, <1>6, MinOfTwo
<1> DEFINE Nearest(k) == CHOOSE x \in listed : Cardinality({y \in listed : RowBefore(y, x)}) = k - 1
           Placed(k) == CHOOSE x \in listed : Cardinality(Ahead(R, listed, x)) = k - 1
<1>8. \A x \in listed : Ahead(R, listed, x) = {y \in listed : RowBefore(y, x)}
  BY <1>4 DEF Ahead
<1>9. shown = PageOf(R, listed, m)
  <2>1. \A k \in 1..m : Nearest(k) = Placed(k)
    BY <1>8
  <2>2. shown = [k \in 1..m |-> Nearest(k)]
    BY <1>2, <1>7
  <2>3. PageOf(R, listed, m) = [k \in 1..m |-> Placed(k)]
    BY DEF PageOf
  <2> HIDE DEF Nearest, Placed
  <2> QED
    BY <2>1, <2>2, <2>3
<1> HIDE DEF Nearest, Placed
<1>10. /\ shown \in Seq(listed) /\ Len(shown) = m /\ DOMAIN shown = 1..m
       /\ \A i, j \in 1..m : i < j => <<shown[i], shown[j]>> \in R
       /\ \A i \in 1..m, x \in listed : (\A k \in 1..m : x # shown[k]) => <<shown[i], x>> \in R
       /\ (\E x \in listed : \A k \in 1..m : x # shown[k]) => m = q.limit
  <2> DEFINE n == q.limit
  <2>1. /\ n \in Nat /\ m \in Nat /\ IsFiniteSet(listed) /\ IsOrder(R, listed)
        /\ m = IF n < Cardinality(listed) THEN n ELSE Cardinality(listed)
        /\ shown = PageOf(R, listed, m)
    BY <1>4, <1>5, <1>6, <1>9
  <2> HIDE DEF n
  <2>2. IsPage(R, listed, m, n, shown)
    BY <2>1, PageIs
  <2> QED
    BY <2>2 DEF n, IsPage
<1>11. \A i \in 1..m : shown[i] \in listed
  BY <1>10
<1>12. \A x \in listed \ ToSet(shown) : x \in listed /\ \A k \in 1..m : x # shown[k]
  BY <1>10 DEF ToSet
<1>13. \A i, j \in DOMAIN shown : i < j => shown[i].at >= shown[j].at
  BY <1>4, <1>10, <1>11
<1>14. \A x \in listed \ ToSet(shown), i \in DOMAIN shown : shown[i].at >= x.at
  BY <1>4, <1>10, <1>11, <1>12
<1>15. listed \ ToSet(shown) # {} => Len(shown) = q.limit
  BY <1>10, <1>12
<1> QED
  BY <1>3, <1>13, <1>14, <1>15

LEMMA SearchIs ==
  ASSUME TrailInv, NEW r \in ConsoleRows
  PROVE  LET same == {y \in ConsoleRows : y.id = r.id}
         IN Search(r.id, Cardinality(same)) = same
<1> DEFINE same == {y \in ConsoleRows : y.id = r.id}
           matches == {x \in ConsoleRows : SearchScore(r.id, x) > 0}
           Closer(x) == {y \in matches : FoundBefore(r.id, y, x)}
<1>1. IsFiniteSet(same) /\ IsFiniteSet(matches)
  BY RowsAre, FS_Subset
<1>2. \A x \in ConsoleRows : SearchScore(r.id, x) \in {0, 1, 2} /\ (SearchScore(r.id, x) = 2 <=> x \in same)
  BY DEF SearchScore
<1>3. same \subseteq matches
  BY <1>2
<1>4. \A x : IsFiniteSet(Closer(x)) /\ Cardinality(Closer(x)) \in Nat
  BY <1>1, FS_Subset, FS_CardinalityType
<1>5. Cardinality(same) \in Nat
  BY <1>1, FS_CardinalityType
<1>6. ASSUME NEW x \in same PROVE Cardinality(Closer(x)) < Cardinality(same)
  <2>1. x \notin Closer(x)
    <3>1. ~RowBefore(x, x)
      BY RowsOrdered
    <3>2. SearchScore(r.id, x) = 2
      BY <1>2
    <3> QED
      BY <3>1, <3>2 DEF FoundBefore
  <2>2. Closer(x) \subseteq same
    <3> SUFFICES ASSUME NEW y \in Closer(x) PROVE y \in same
      OBVIOUS
    <3>1. SearchScore(r.id, y) >= SearchScore(r.id, x) /\ y \in ConsoleRows
      BY <1>2 DEF FoundBefore
    <3> QED
      BY <1>2, <3>1
  <2>3. Closer(x) # same
    BY <2>1
  <2> HIDE DEF Closer, same
  <2> QED
    BY <1>1, <1>4, <1>5, <2>2, <2>3, FS_Subset
<1>7. ASSUME NEW x \in matches \ same PROVE Cardinality(same) <= Cardinality(Closer(x))
  <2>1. same \subseteq Closer(x)
    <3> SUFFICES ASSUME NEW y \in same PROVE y \in Closer(x)
      OBVIOUS
    <3>1. SearchScore(r.id, y) > SearchScore(r.id, x)
      BY <1>2
    <3> QED
      BY <1>3, <3>1 DEF FoundBefore
  <2> HIDE DEF Closer, same
  <2> QED
    BY <1>4, <2>1, FS_Subset
<1>8. Search(r.id, Cardinality(same)) = {x \in matches : Cardinality(Closer(x)) < Cardinality(same)}
  BY DEF Search
<1> HIDE DEF Closer, matches
<1>9. {x \in matches : Cardinality(Closer(x)) < Cardinality(same)} = same
  <2> HIDE DEF same
  <2> QED
    BY <1>3, <1>4, <1>5, <1>6, <1>7
<1> QED
  BY <1>8, <1>9

LEMMA ConsoleTells == TrailInv => ConsoleTellsTheState
<1> SUFFICES ASSUME TrailInv PROVE ConsoleTellsTheState
  OBVIOUS
<1>1. \A q \in PageRequests : TimelineIsNewest(q)
  BY TimelineIs
<1> DEFINE refs == {[type |-> "incident_escalation", id |-> i.id] : i \in Incidents}
<1>2. ASSUME NEW r \in refs
      PROVE  ProvenanceOf(refs)[r] <=> \E i \in incidents : i.id = r.id
  <2>1. ProvenanceOf(refs)[r] <=> \E x \in ConsoleRows : x.type = r.type /\ x.id = r.id
    BY DEF ProvenanceOf
  <2>2. r.type = "incident_escalation"
    OBVIOUS
  <2>3. \A i \in incidents : LET x == ConsoleRow("incident_escalation", i.id, i.at)
          IN x \in IncidentRows /\ x.type = "incident_escalation" /\ x.id = i.id
    BY DEF IncidentRows, ConsoleRow
  <2>4. \A x \in IncidentRows : \E i \in incidents : x.id = i.id
    BY DEF IncidentRows, ConsoleRow
  <2>5. IncidentRows \subseteq ConsoleRows
    BY DEF ConsoleRows
  <2> QED
    BY <2>1, <2>2, <2>3, <2>4, <2>5, RowsAre
<1>3. ASSUME NEW d \in PolicyAuditOf({"deny"}, "none").decisions, Cardinality(trail) < MaxTrailKept
      PROVE  \E e \in PolicyAuditOf({"deny"}, d.key).audits : e.entity = d.id /\ e.at = d.at
  <2>1. d \in decisions /\ d.outcome = "deny"
    BY DEF PolicyAuditOf
  <2>2. trail = everWritten
    BY <1>3, TrailIs DEF TrailInv
  <2>3. PICK done \in DecisionDone :
          AuditEvent("decision", d.id, d.key, d.outcome, {done}, d.at) \in everWritten
    BY <2>1 DEF TrailInv, DecisionsKept
  <2> DEFINE e == AuditEvent("decision", d.id, d.key, d.outcome, {done}, d.at)
  <2>4. e.entity = d.id /\ e.at = d.at /\ e.key = d.key /\ e.outcome = d.outcome
    BY DEF AuditEvent
  <2>5. e \in trail
    BY <2>2, <2>3
  <2> HIDE DEF e
  <2>6. e \in PolicyAuditOf({"deny"}, d.key).audits
    BY <2>1, <2>4, <2>5 DEF PolicyAuditOf
  <2> QED
    BY <2>4, <2>6
<1>4. \A x \in ConsoleRows : LET same == {y \in ConsoleRows : y.id = x.id}
                             IN Search(x.id, Cardinality(same)) = same
  BY SearchIs
<1> HIDE DEF refs
<1>5. \A r \in refs : ProvenanceOf(refs)[r] <=> \E i \in incidents : i.id = r.id
  BY <1>2
<1>6. \A d \in PolicyAuditOf({"deny"}, "none").decisions : Cardinality(trail) < MaxTrailKept =>
        \E e \in PolicyAuditOf({"deny"}, d.key).audits : e.entity = d.id /\ e.at = d.at
  BY <1>3
<1>7. ConsoleTellsTheState <=>
        /\ \A q \in PageRequests : TimelineIsNewest(q)
        /\ \A r \in refs : ProvenanceOf(refs)[r] <=> \E i \in incidents : i.id = r.id
        /\ \A d \in PolicyAuditOf({"deny"}, "none").decisions : Cardinality(trail) < MaxTrailKept =>
             \E e \in PolicyAuditOf({"deny"}, d.key).audits : e.entity = d.id /\ e.at = d.at
        /\ \A x \in ConsoleRows : LET same == {y \in ConsoleRows : y.id = x.id}
                                  IN Search(x.id, Cardinality(same)) = same
  BY Zenon DEF ConsoleTellsTheState, TimelineIsNewest, refs
<1> QED
  BY <1>1, <1>4, <1>5, <1>6, <1>7

-----------------------------------------------------------------------------
(* Anomaly alerts.                                                          *)

LEMMA LatestIs ==
  ASSUME TrailInv
  PROVE  /\ LatestAnomaly \in Nat
         /\ \A t \in AlertType : /\ IsFiniteSet(AnomalyEvents(t))
                                 /\ \A e \in AnomalyEvents(t) : e.at \in Nat
<1>1. /\ IsFiniteSet(harms) /\ harms \subseteq Harms
      /\ IsFiniteSet(trail) /\ trail \subseteq TrailEvents
  BY TrailIs DEF TrailInv, LifecycleTyped
<1>2. /\ AnomalyEvents("harmful_signal_spike") = harms
      /\ AnomalyEvents("unauthorized_access_spike") = Unauthorized(trail)
      /\ AnomalyEvents("policy_drift_indicator") = PolicyDrift(trail)
  BY DEF AnomalyEvents
<1>3. /\ Unauthorized(trail) \subseteq trail /\ PolicyDrift(trail) \subseteq trail
  BY DEF Unauthorized, PolicyDrift, DecisionEvents
<1>4. AlertType = {"harmful_signal_spike", "unauthorized_access_spike", "policy_drift_indicator"}
  BY DEF AlertType
<1>5. \A t \in AlertType : /\ IsFiniteSet(AnomalyEvents(t))
                           /\ \A e \in AnomalyEvents(t) : e.at \in Nat
  BY <1>1, <1>2, <1>3, <1>4, FS_Subset, TrailEventsAre, TrailAssumption
<1> DEFINE all == harms \cup Unauthorized(trail) \cup PolicyDrift(trail)
           times == {e.at : e \in all}
<1>6. UNION {AnomalyEvents(t) : t \in AlertType} = all
  BY <1>2, <1>4
<1>7. IsFiniteSet(all) /\ \A e \in all : e.at \in Nat
  BY <1>1, <1>3, FS_Subset, UnionIsFinite, TrailEventsAre, TrailAssumption
<1> HIDE DEF all
<1>8. IsFiniteSet(times) /\ times \subseteq Nat
  <2> DEFINE f == [e \in all |-> e.at]
  <2>1. times = {f[e] : e \in all}
    OBVIOUS
  <2> HIDE DEF f
  <2>2. IsFiniteSet(times)
    BY <1>7, <2>1, ImageIsFinite
  <2> QED
    BY <1>7, <2>2
<1> DEFINE one == {1}
<1>9. LatestAnomaly = Max(one \cup times)
  <2>1. {AnyTime + 1} = one
    BY DEF AnyTime
  <2> HIDE DEF one
  <2> QED
    BY <1>6, <2>1 DEF LatestAnomaly
<1> HIDE DEF times
<1> DEFINE T == one \cup times
<1>10. IsFiniteSet(T) /\ T \in SUBSET Nat /\ T # {}
  <2>1. IsFiniteSet(one) /\ one \subseteq Nat /\ one # {}
    BY FS_Singleton
  <2> HIDE DEF one
  <2> QED
    BY <1>8, <2>1, UnionIsFinite
<1> HIDE DEF T
<1>11. Max(T) \in T
  BY <1>10, MaxIsThere
<1> QED
  BY <1>5, <1>9, <1>10, <1>11 DEF T

LEMMA AnomaliesOnce == TrailInv => AnomaliesCountOnce
<1> SUFFICES ASSUME TrailInv, NEW r \in AnomalyRequests, NEW t \in AlertType, AnomalyAnswered(r)
    PROVE  LET a == AnomalyAlert(t, r)
               v == AnomalyWindow(r)
           IN /\ a.base \cap a.seen = {}
              /\ a.base \cup a.seen = {e \in AnomalyEvents(t) : v.before <= e.at /\ e.at <= v.until}
              /\ a.severity # "none" => Cardinality(a.seen) > Cardinality(a.base)
  BY DEF AnomaliesCountOnce
<1> DEFINE a == AnomalyAlert(t, r)
           v == AnomalyWindow(r)
           E == AnomalyEvents(t)
<1>1. /\ v.since \in Int /\ v.until \in Int /\ v.before \in Int
      /\ v.before <= v.since /\ v.since <= v.until
  <2> DEFINE until == IF r.until # AnyTime THEN r.until ELSE LatestAnomaly
             since == IF r.since # AnyTime THEN r.since ELSE until - r.hours
  <2>1. until \in Int /\ since \in Int /\ r.hours \in Nat
    BY LatestIs, TrailAssumption
  <2>2. v.since = since /\ v.until = until /\ v.before = since - r.hours
    BY DEF AnomalyWindow
  <2>3. v.since <= v.until
    BY DEF AnomalyAnswered
  <2> HIDE DEF v, until, since
  <2> QED
    BY <2>1, <2>2, <2>3
<1>2. IsFiniteSet(E) /\ \A e \in E : e.at \in Nat
  BY LatestIs
<1>3. /\ a.base = {e \in E : v.before <= e.at /\ e.at < v.since}
      /\ a.seen = {e \in E : v.since <= e.at /\ e.at <= v.until}
      /\ a.severity = AlertSeverity(AlertRules[t], Cardinality(a.base), Cardinality(a.seen))
  BY DEF AnomalyAlert, Baseline, Observed
<1> HIDE DEF E, v, a
<1>4. a.base \cap a.seen = {}
  BY <1>1, <1>2, <1>3
<1>5. a.base \cup a.seen = {e \in E : v.before <= e.at /\ e.at <= v.until}
  BY <1>1, <1>2, <1>3
<1>6. Cardinality(a.base) \in Nat /\ Cardinality(a.seen) \in Nat
  BY <1>2, <1>3, FS_Subset, FS_CardinalityType
<1>7. AlertRules[t].floor \in Nat \ {0} /\ AlertRules[t].delta \in Nat \ {0}
  BY DEF AlertType, AlertRules
<1>8. ASSUME a.severity # "none" PROVE Cardinality(a.seen) > Cardinality(a.base)
  <2> DEFINE rule == AlertRules[t]
             base == Cardinality(a.base)
             seen == Cardinality(a.seen)
  <2>1. Triggered(rule, base, seen)
    BY <1>3, <1>8 DEF AlertSeverity
  <2>2. seen >= rule.floor /\ (base # 0 => seen - base >= rule.delta)
    BY <2>1 DEF Triggered
  <2> QED
    BY <1>6, <1>7, <2>2
<1> QED
  BY <1>4, <1>5, <1>8 DEF a, v, E

LEMMA TrailInvIsRight == TrailInv => TrailTypeOK /\ TrailIsRight
<1> SUFFICES ASSUME TrailInv PROVE TrailTypeOK /\ TrailIsRight
  OBVIOUS
<1>1. /\ trail \subseteq everWritten /\ Cardinality(trail) <= MaxTrailKept
      /\ TrailKeepsTheNewest /\ everWritten \subseteq TrailEvents /\ IsFiniteSet(everWritten)
  BY TrailIs DEF TrailInv, TrailKept
<1>2. Cardinality({AuditOrder(e) : e \in everWritten}) = Cardinality(everWritten)
  <2> DEFINE T == {AuditOrder(e) : e \in everWritten}
             f == [e \in everWritten |-> AuditOrder(e)]
  <2>1. f \in [everWritten -> T] /\ \A t \in T : \E e \in everWritten : f[e] = t
    OBVIOUS
  <2>2. \A x, y \in everWritten : f[x] = f[y] => x = y
    BY <1>1, AuditOrderAssumption
  <2> HIDE DEF T, f
  <2>3. f \in Bijection(everWritten, T)
    BY <2>1, <2>2 DEF Bijection, Injection, IsInjective, Surjection
  <2>4. Cardinality(T) = Cardinality(everWritten)
    BY <1>1, <2>3, FS_Bijection DEF ExistsBijection
  <2> QED
    BY <2>4 DEF T
<1>3. TrailTypeOK
  BY <1>1, <1>2 DEF TrailTypeOK, TrailInv, IncidentsKept, LifecycleTyped, Escalations
<1>4. DriftIsReal /\ ExportsRepeat /\ QuarantineHolds /\ ConsoleTellsTheState /\ AnomaliesCountOnce
  BY DriftReal, ConsoleTells, AnomaliesOnce DEF TrailInv
<1> QED
  BY <1>1, <1>3, <1>4 DEF TrailIsRight

\* Whatever is written and in whichever order of time, the audit trail keeps its
\* newest events, an export repeats while nothing else is written and the trail is
\* not full, a quarantine holds, and what the memory console tells is so: timeline,
\* search, provenance, drift and alerts.
THEOREM TrailRight == TrailSpec => [](TrailTypeOK /\ TrailIsRight)
  BY TrailInductive, TrailInvIsRight, PTL

-----------------------------------------------------------------------------
(* Curation                                                                 *)

EventKinds == UNION {{NormalizeEvent(b[i], i) : i \in 1..Len(b)} : b \in Batches}
Dedupes == {e.dedupe : e \in EventKinds}
Accumulated == [events : Seq(EventKinds), seen : SUBSET Dedupes]

LEMMA EventKindIs ==
  /\ \A b \in Batches : /\ DOMAIN b = 1..Len(b) /\ Len(b) \in Nat
                        /\ \A i \in 1..Len(b) : NormalizeEvent(b[i], i) \in EventKinds
  /\ \A e \in EventKinds : e.at \in Int /\ e.dedupe \in Dedupes
<1>1. \A b \in Batches : b = [i \in 1..Len(b) |-> b[i]] /\ Len(b) \in Nat
  BY CurationAssumption
<1>2. \A b \in Batches : DOMAIN b = 1..Len(b)
  BY <1>1
<1>3. ASSUME NEW e \in EventKinds PROVE e.at \in Int
  <2>1. PICK b \in Batches : \E i \in 1..Len(b) : e = NormalizeEvent(b[i], i)
    BY DEF EventKinds
  <2>2. PICK i \in 1..Len(b) : e = NormalizeEvent(b[i], i)
    BY <2>1
  <2>3. e.at = b[i].at
    BY <2>2 DEF NormalizeEvent
  <2> QED
    BY <2>3, CurationAssumption
<1> QED
  BY <1>1, <1>2, <1>3 DEF EventKinds, Dedupes

LEMMA AcceptIs ==
  ASSUME NEW acc \in Accumulated, NEW e \in EventKinds
  PROVE  /\ AcceptEvent(acc, e) \in Accumulated
         /\ (e.dedupe \in acc.seen \/ Stores(acc.events, e.digest)) => AcceptEvent(acc, e) = acc
         /\ ~(e.dedupe \in acc.seen \/ Stores(acc.events, e.digest)) =>
              /\ AcceptEvent(acc, e).events = Append(acc.events, e)
              /\ AcceptEvent(acc, e).seen = acc.seen \cup {e.dedupe}
<1>1. acc.events \in Seq(EventKinds) /\ acc.seen \subseteq Dedupes
  BY DEF Accumulated
<1> DEFINE more == Append(acc.events, e)
           known == acc.seen \cup {e.dedupe}
<1>2. more \in Seq(EventKinds) /\ known \subseteq Dedupes
  BY <1>1, EventKindIs
<1> HIDE DEF more, known
<1>3. [events |-> more, seen |-> known] \in Accumulated
  BY <1>2 DEF Accumulated
<1> QED
  BY <1>3 DEF AcceptEvent, more, known

LEMMA AcceptedIs ==
  ASSUME NEW events \in Seq(EventKinds), NEW b \in Batches
  PROVE  LET A == Accepted(events, b)
         IN /\ A \in [0..Len(b) -> Accumulated]
            /\ A[0] = [events |-> events, seen |-> {}]
            /\ \A n \in 1..Len(b) : A[n] = AcceptEvent(A[n - 1], NormalizeEvent(b[n], n))
<1> DEFINE N == Len(b)
           a == [events |-> events, seen |-> {}]
           g == [p \in (1..N) \X Accumulated |-> AcceptEvent(p[2], NormalizeEvent(b[p[1]], p[1]))]
           Obeys(h) == h = [n \in 0..N |-> IF n = 0 THEN a
                              ELSE AcceptEvent(h[n - 1], NormalizeEvent(b[n], n))]
<1>1. N \in Nat /\ \A n \in 1..N : NormalizeEvent(b[n], n) \in EventKinds
  BY EventKindIs
<1>2. a \in Accumulated
  BY DEF Accumulated
<1>3. \A n \in 1..N, d \in Accumulated : g[<<n, d>>] = AcceptEvent(d, NormalizeEvent(b[n], n))
  OBVIOUS
<1>4. StaysIn(g, N, Accumulated)
  BY <1>1, <1>3, AcceptIs DEF StaysIn
<1> HIDE DEF g, a
<1>5. PICK f \in [0..N -> Accumulated] : Follows(f, a, N, g)
  <2> HIDE DEF N
  <2> QED
    BY <1>1, <1>2, <1>4, RecursionExists
<1>6. \A n \in 1..N : f[n] = AcceptEvent(f[n - 1], NormalizeEvent(b[n], n))
  <2> SUFFICES ASSUME NEW n \in 1..N PROVE f[n] = AcceptEvent(f[n - 1], NormalizeEvent(b[n], n))
    OBVIOUS
  <2>1. n - 1 \in 0..N
    BY <1>1
  <2>2. f[n - 1] \in Accumulated
    BY <1>5, <2>1
  <2> QED
    BY <1>3, <1>5, <2>2 DEF Follows
<1>7. Obeys(f)
  <2>1. f[0] = a /\ f = [n \in 0..N |-> f[n]]
    BY <1>5 DEF Follows
  <2> DEFINE After(n) == IF n = 0 THEN a ELSE AcceptEvent(f[n - 1], NormalizeEvent(b[n], n))
  <2>2. \A n \in 0..N : f[n] = After(n)
    <3>1. \A n \in 0..N : n = 0 \/ n \in 1..N
      BY <1>1
    <3>2. \A n \in 1..N : n # 0
      OBVIOUS
    <3> HIDE DEF N
    <3> QED
      BY <1>6, <2>1, <3>1, <3>2
  <2>3. Obeys(f) <=> f = [n \in 0..N |-> After(n)]
    OBVIOUS
  <2> HIDE DEF After, Obeys
  <2> QED
    BY <2>1, <2>2, <2>3
<1> DEFINE A == Accepted(events, b)
<1>8. A = CHOOSE h : Obeys(h)
  BY DEF Accepted, a
<1> HIDE DEF A
<1>9. Obeys(A)
  <2> HIDE DEF Obeys
  <2> QED
    BY <1>7, <1>8
<1>10. A[0] = a /\ \A n \in 1..N : A[n] = AcceptEvent(A[n - 1], NormalizeEvent(b[n], n))
  BY <1>1, <1>9
<1>11. \A n \in 0..N : A[n] \in Accumulated
  <2> DEFINE T == {n \in 0..N : A[n] \in Accumulated}
  <2>1. 0 \in T
    BY <1>1, <1>2, <1>10
  <2>2. \A n \in 1..N : n - 1 \in T => n \in T
    BY <1>1, <1>10, AcceptIs
  <2> HIDE DEF T
  <2>3. 0..N \subseteq T
    BY <1>1, <2>1, <2>2, StepsReach
  <2> QED
    BY <2>3 DEF T
<1>12. A \in [0..N -> Accumulated]
  BY <1>9, <1>11
<1> QED
  BY <1>10, <1>12 DEF A, a

DigestsDistinct(events) ==
  \A i, j \in 1..Len(events) : i # j => events[i].digest # events[j].digest
Extends(more, events) ==
  Len(events) <= Len(more) /\ \A i \in 1..Len(events) : more[i] = events[i]
NewOf(events, more) == {i \in 1..Len(more) : i > Len(events)}
NewDistinct(events, more) ==
  \A i, j \in NewOf(events, more) : i # j => more[i].dedupe # more[j].dedupe
NoDuplicates(b) == \A i, j \in DOMAIN b : i # j => DedupeDigest(b[i]) # DedupeDigest(b[j])

\* What holds of the first n of a batch.
StoredWell(events, b, n, acc) ==
  /\ Extends(acc.events, events) /\ DigestsDistinct(acc.events)
  /\ NewDistinct(events, acc.events)
  /\ \A i \in NewOf(events, acc.events) : acc.events[i].dedupe \in acc.seen
  /\ acc.seen \subseteq {DedupeDigest(b[i]) : i \in 1..n}
  /\ NoDuplicates(b) => \A i \in 1..n : Stores(acc.events, EventDigest(b[i], i))

LEMMA StoresNext ==
  ASSUME NEW events \in Seq(EventKinds), NEW b \in Batches, NEW n \in 1..Len(b),
         NEW acc \in Accumulated, StoredWell(events, b, n - 1, acc)
  PROVE  StoredWell(events, b, n, AcceptEvent(acc, NormalizeEvent(b[n], n)))
<1> DEFINE e == NormalizeEvent(b[n], n)
           next == AcceptEvent(acc, e)
<1>1. /\ e \in EventKinds /\ e.dedupe = DedupeDigest(b[n]) /\ e.digest = EventDigest(b[n], n)
      /\ n \in Nat /\ DOMAIN b = 1..Len(b) /\ Len(b) \in Nat
  BY EventKindIs DEF NormalizeEvent
<1> HIDE DEF e
<1>2. /\ next \in Accumulated
      /\ (e.dedupe \in acc.seen \/ Stores(acc.events, e.digest)) => next = acc
      /\ ~(e.dedupe \in acc.seen \/ Stores(acc.events, e.digest)) =>
              /\ next.events = Append(acc.events, e)
              /\ next.seen = acc.seen \cup {e.dedupe}
  BY <1>1, AcceptIs
<1>3. /\ Len(events) \in Nat /\ acc.events \in Seq(EventKinds) /\ Len(acc.events) \in Nat
      /\ DOMAIN acc.events = 1..Len(acc.events)
  BY DEF Accumulated
<1> HIDE DEF next
<1>4. \A i \in 1..n : i \in 1..n - 1 \/ i = n
  BY <1>1
<1>5. NoDuplicates(b) => e.dedupe \notin {DedupeDigest(b[i]) : i \in 1..n - 1}
  BY <1>1 DEF NoDuplicates
<1>6. {DedupeDigest(b[i]) : i \in 1..n - 1} \subseteq {DedupeDigest(b[i]) : i \in 1..n}
      /\ e.dedupe \in {DedupeDigest(b[i]) : i \in 1..n}
  BY <1>1
<1>7. CASE e.dedupe \in acc.seen \/ Stores(acc.events, e.digest)
  <2>1. next = acc
    BY <1>2, <1>7
  <2>2. NoDuplicates(b) => \A i \in 1..n : Stores(acc.events, EventDigest(b[i], i))
    BY <1>1, <1>4, <1>5, <1>7 DEF StoredWell
  <2> QED
    BY <1>6, <2>1, <2>2 DEF StoredWell, next, e
<1>8. CASE ~(e.dedupe \in acc.seen \/ Stores(acc.events, e.digest))
  <2> DEFINE m == Len(acc.events)
  <2>1. next.events = Append(acc.events, e) /\ next.seen = acc.seen \cup {e.dedupe}
    BY <1>2, <1>8
  <2>2. /\ Len(next.events) = m + 1 /\ next.events[m + 1] = e /\ DOMAIN next.events = 1..m + 1
        /\ \A i \in 1..m : next.events[i] = acc.events[i]
    BY <1>1, <1>3, <2>1
  <2> HIDE DEF m
  <2>3. \A i \in 1..m + 1 : i \in 1..m \/ i = m + 1
    BY <1>3 DEF m
  <2>4. m = Len(acc.events) /\ m \in Nat
    BY <1>3 DEF m
  <2>5. Extends(next.events, events)
    BY <1>3, <2>2, <2>4 DEF StoredWell, Extends
  <2>6. DigestsDistinct(next.events)
    <3>1. \A i \in 1..m : acc.events[i].digest # e.digest
      BY <1>3, <1>8, <2>4 DEF Stores
    <3>2. \A i, j \in 1..m : i # j => acc.events[i].digest # acc.events[j].digest
      BY <2>4 DEF StoredWell, DigestsDistinct
    <3>3. \A i \in 1..m : /\ next.events[i].digest = acc.events[i].digest
                          /\ next.events[i].digest # e.digest
      BY <2>2, <3>1
    <3>4. ASSUME NEW i \in 1..m + 1, NEW j \in 1..m + 1, i # j
          PROVE  next.events[i].digest # next.events[j].digest
      <4>1. CASE i = m + 1
        BY <2>2, <2>3, <3>3, <3>4, <4>1
      <4>2. CASE j = m + 1
        BY <2>2, <2>3, <3>3, <3>4, <4>2
      <4>3. CASE i \in 1..m /\ j \in 1..m
        BY <3>2, <3>3, <3>4, <4>3
      <4> QED
        BY <2>3, <4>1, <4>2, <4>3
    <3> QED
      BY <2>2, <3>4 DEF DigestsDistinct
  <2>7. \A i \in NewOf(events, next.events) : i = m + 1 \/ i \in NewOf(events, acc.events)
    BY <2>2, <2>3, <2>4 DEF NewOf
  <2>8. \A i \in NewOf(events, acc.events) : next.events[i] = acc.events[i]
    BY <2>2, <2>4 DEF NewOf
  <2>9. NewDistinct(events, next.events)
    BY <1>8, <2>2, <2>7, <2>8 DEF StoredWell, NewDistinct
  <2>10. \A i \in NewOf(events, next.events) : next.events[i].dedupe \in next.seen
    BY <2>1, <2>2, <2>7, <2>8 DEF StoredWell
  <2>11. next.seen \subseteq {DedupeDigest(b[i]) : i \in 1..n}
    BY <1>6, <2>1 DEF StoredWell
  <2>12. ASSUME NEW d, Stores(acc.events, d) PROVE Stores(next.events, d)
    <3>1. PICK i \in 1..m : acc.events[i].digest = d
      BY <1>3, <2>4, <2>12 DEF Stores
    <3>2. i \in 1..m + 1 /\ next.events[i].digest = d
      BY <2>2, <2>4, <3>1
    <3> QED
      BY <2>2, <3>2 DEF Stores
  <2>13. Stores(next.events, EventDigest(b[n], n))
    BY <1>1, <2>2, <2>4 DEF Stores
  <2>14. NoDuplicates(b) => \A i \in 1..n : Stores(next.events, EventDigest(b[i], i))
    BY <1>4, <2>12, <2>13 DEF StoredWell
  <2>15. StoredWell(events, b, n, next)
    BY <2>5, <2>6, <2>9, <2>10, <2>11, <2>14 DEF StoredWell
  <2> QED
    BY <2>15 DEF next, e
<1> QED
  BY <1>7, <1>8

\* What an ingest stores.
LEMMA IngestIs ==
  ASSUME NEW events \in Seq(EventKinds), NEW b \in Batches, DigestsDistinct(events)
  PROVE  LET more == RunIngest(events, b)
         IN /\ more \in Seq(EventKinds) /\ Extends(more, events) /\ DigestsDistinct(more)
            /\ NewDistinct(events, more)
            /\ NoDuplicates(b) => \A i \in 1..Len(b) : Stores(more, EventDigest(b[i], i))
<1> DEFINE A == Accepted(events, b)
           N == Len(b)
           T == {n \in 0..N : StoredWell(events, b, n, A[n])}
<1>1. /\ A \in [0..N -> Accumulated] /\ A[0] = [events |-> events, seen |-> {}]
      /\ \A n \in 1..N : A[n] = AcceptEvent(A[n - 1], NormalizeEvent(b[n], n))
      /\ N \in Nat
  BY AcceptedIs, EventKindIs
<1> HIDE DEF A
<1>2. 0 \in T
  <2>1. A[0].events = events /\ A[0].seen = {} /\ Len(events) \in Nat /\ 1..0 = {}
    BY <1>1
  <2>2. Extends(events, events) /\ NewOf(events, events) = {}
    BY <2>1 DEF Extends, NewOf
  <2>3. StoredWell(events, b, 0, A[0])
    BY <2>1, <2>2 DEF StoredWell, NewDistinct
  <2>4. 0 \in 0..N
    <3> HIDE DEF N
    <3> QED
      BY <1>1
  <2> HIDE DEF N
  <2> QED
    BY <2>3, <2>4
<1>3. ASSUME NEW n \in 1..N, n - 1 \in T PROVE n \in T
  <2>1. A[n - 1] \in Accumulated /\ StoredWell(events, b, n - 1, A[n - 1])
    BY <1>1, <1>3
  <2>2. StoredWell(events, b, n, A[n])
    BY <1>1, <2>1, StoresNext
  <2> QED
    BY <1>1, <2>2
<1>4. 0..N \subseteq T
  <2> HIDE DEF T, N
  <2> QED
    BY <1>1, <1>2, <1>3, StepsReach
<1>5. StoredWell(events, b, N, A[N]) /\ A[N] \in Accumulated
  BY <1>1, <1>4
<1>6. RunIngest(events, b) = A[N].events /\ A[N].events \in Seq(EventKinds)
  BY <1>5 DEF RunIngest, A, Accumulated
<1> QED
  BY <1>5, <1>6 DEF StoredWell

\* A batch all of which is stored adds nothing.
LEMMA StoredAlready ==
  ASSUME NEW events \in Seq(EventKinds), NEW b \in Batches,
         \A i \in 1..Len(b) : Stores(events, EventDigest(b[i], i))
  PROVE  RunIngest(events, b) = events
<1> DEFINE A == Accepted(events, b)
           N == Len(b)
           T == {n \in 0..N : A[n] = A[0]}
<1>1. /\ A \in [0..N -> Accumulated] /\ A[0] = [events |-> events, seen |-> {}]
      /\ \A n \in 1..N : A[n] = AcceptEvent(A[n - 1], NormalizeEvent(b[n], n))
      /\ N \in Nat
  BY AcceptedIs, EventKindIs
<1> HIDE DEF A
<1>2. 0 \in T
  BY <1>1
<1>3. ASSUME NEW n \in 1..N, n - 1 \in T PROVE n \in T
  <2> DEFINE e == NormalizeEvent(b[n], n)
  <2>1. e \in EventKinds /\ e.digest = EventDigest(b[n], n)
    BY EventKindIs DEF NormalizeEvent
  <2> HIDE DEF e
  <2>2. A[n - 1] \in Accumulated /\ A[n - 1].events = events /\ A[n - 1] = A[0]
    BY <1>1, <1>3
  <2>3. AcceptEvent(A[n - 1], e) = A[n - 1]
    BY <2>1, <2>2, AcceptIs
  <2>4. A[n] = A[0]
    BY <1>1, <2>2, <2>3 DEF e
  <2> QED
    BY <1>1, <2>4
<1>4. 0..N \subseteq T
  <2> HIDE DEF T, N
  <2> QED
    BY <1>1, <1>2, <1>3, StepsReach
<1>5. A[N] = A[0]
  BY <1>1, <1>4
<1> QED
  BY <1>1, <1>5 DEF RunIngest, A

IdsOf(events) == {events[i].eventId : i \in 1..Len(events)}

\* The ids found are those of the stored events.
LEMMA FoundAre ==
  ASSUME NEW events \in Seq(EventKinds), NEW ids
  PROVE  /\ Found(events, ids) \subseteq 1..Len(events) /\ IsFiniteSet(Found(events, ids))
         /\ FoundIds(events, ids) = ids \cap IdsOf(events)
         /\ IsFiniteSet(FoundIds(events, ids)) /\ Cardinality(FoundIds(events, ids)) \in Nat
<1> DEFINE n == Len(events)
<1>1. n \in Nat /\ DOMAIN events = 1..n
  OBVIOUS
<1> HIDE DEF n
<1>2. IsFiniteSet(1..n)
  BY <1>1, FS_Interval
<1>3. Found(events, ids) \subseteq 1..n
  BY <1>1 DEF Found
<1>4. IsFiniteSet(Found(events, ids))
  BY <1>2, <1>3, FS_Subset
<1>5. ASSUME NEW i \in 1..n, events[i].eventId \in ids
      PROVE  events[i].eventId \in FoundIds(events, ids)
  <2> DEFINE S == {j \in 1..n : events[j].eventId = events[i].eventId}
  <2>1. S \in SUBSET Nat /\ S # {} /\ IsFiniteSet(S)
    BY <1>1, <1>2, FS_Subset
  <2>2. Max(S) \in S /\ \A y \in S : y <= Max(S)
    <3> HIDE DEF S
    <3> QED
      BY <2>1, MaxIsThere
  <2>3. PICK m \in S : \A y \in S : y <= m
    BY <2>2
  <2>4. m \in 1..n /\ events[m].eventId = events[i].eventId
    BY <2>3
  <2>5. \A j \in 1..n : j > m => events[j].eventId # events[m].eventId
    BY <1>1, <2>3
  <2>6. m \in Found(events, ids)
    BY <1>1, <1>5, <2>4, <2>5 DEF Found
  <2> QED
    BY <2>4, <2>6 DEF FoundIds
<1>6. FoundIds(events, ids) = ids \cap IdsOf(events)
  <2>1. FoundIds(events, ids) \subseteq ids \cap IdsOf(events)
    BY <1>1 DEF FoundIds, Found, IdsOf, n
  <2>2. ids \cap IdsOf(events) \subseteq FoundIds(events, ids)
    BY <1>5 DEF IdsOf, n
  <2> QED
    BY <2>1, <2>2
<1>7. IsFiniteSet(FoundIds(events, ids))
  <2> DEFINE f == [i \in 1..n |-> events[i].eventId]
             F == Found(events, ids)
             I == {f[i] : i \in F}
  <2>1. IsFiniteSet(I)
    <3> HIDE DEF f, F
    <3>1. IsFiniteSet(F)
      BY <1>4 DEF F
    <3> QED
      BY <3>1, ImageIsFinite
  <2>2. I = FoundIds(events, ids)
    BY <1>3 DEF FoundIds
  <2> QED
    BY <2>1, <2>2
<1> QED
  BY <1>3, <1>4, <1>6, <1>7, FS_CardinalityType DEF n

\* What is found of more events is no less.
LEMMA FoundGrows ==
  ASSUME NEW events \in Seq(EventKinds), NEW more \in Seq(EventKinds), Extends(more, events),
         NEW ids
  PROVE  Cardinality(FoundIds(events, ids)) <= Cardinality(FoundIds(more, ids))
<1>1. \A i \in 1..Len(events) : i \in 1..Len(more) /\ more[i] = events[i]
  BY DEF Extends
<1>2. IdsOf(events) \subseteq IdsOf(more)
  BY <1>1 DEF IdsOf
<1>3. FoundIds(events, ids) \subseteq FoundIds(more, ids)
  BY <1>2, FoundAre
<1> QED
  BY <1>3, FoundAre, FS_Subset

\* What a validation says of a candidate.
ValuedWell(v, c, events) ==
  /\ v.depth \in Nat /\ v.against \in Nat /\ v.age \in Int
  /\ v.valid => v.depth >= MinDepth
  /\ v.depth <= Cardinality(FoundIds(events, c.evidence))

LEMMA ValidationIs ==
  ASSUME NEW events \in Seq(EventKinds), NEW c
  PROVE  ValuedWell(Validation(events, c), c, events)
<1> DEFINE A == Ages(events, c)
           depth == Cardinality(FoundIds(events, c.evidence))
           against == Cardinality(FoundIds(events, c.contradictions))
           age == IF A = {} THEN 99 ELSE Min(A)
           valid == /\ ~c.empty /\ depth >= MinDepth /\ against = 0
                    /\ (age # 99 => age <= FreshnessDays)
<1>1. depth \in Nat /\ against \in Nat
  BY FoundAre
<1>2. A \subseteq Nat
  <2>1. ASSUME NEW i \in Found(events, c.evidence)
        PROVE  Max({0, EvaluatedAt - events[i].at}) \in Nat
    <3>1. i \in 1..Len(events)
      BY FoundAre
    <3>2. events[i] \in EventKinds
      BY <3>1
    <3>3. events[i].at \in Int /\ EvaluatedAt \in Int
      BY <3>2, EventKindIs, CurationAssumption
    <3> DEFINE d == EvaluatedAt - events[i].at
    <3>4. d \in Int
      BY <3>3
    <3> HIDE DEF d
    <3>5. Max({0, d}) \in Nat
      BY <3>4, MaxOfTwo
    <3> QED
      BY <3>5 DEF d
  <2> QED
    BY <2>1 DEF Ages
<1> HIDE DEF A
<1>3. age \in Int
  <2>1. CASE A = {}
    BY <2>1
  <2>2. CASE A # {}
    <3>1. Min(A) \in A
      BY <1>2, <2>2, MinIsThere
    <3>2. PICK least \in A : least = Min(A)
      BY <3>1
    <3>3. age = least /\ least \in Int
      BY <1>2, <2>2, <3>2
    <3> QED
      BY <3>3
  <2> QED
    BY <2>1, <2>2
<1> DEFINE v == [valid |-> valid, depth |-> depth, against |-> against, age |-> age]
<1>4. Validation(events, c) = v
  BY DEF Validation, A
<1>5. valid => depth >= MinDepth
  OBVIOUS
<1> HIDE DEF valid, depth, against, age
<1>6. v.valid = valid /\ v.depth = depth /\ v.against = against /\ v.age = age
  OBVIOUS
<1>7. depth <= Cardinality(FoundIds(events, c.evidence))
  BY <1>1 DEF depth
<1> HIDE DEF v
<1> QED
  BY <1>1, <1>3, <1>4, <1>5, <1>6, <1>7 DEF ValuedWell

\* What the caller holds: each candidate with the validation of its own, and named once.
HeldWell(h, events) ==
  /\ DOMAIN h.vals = DOMAIN h.cands
  /\ DOMAIN h.cands \subseteq Nat /\ IsFiniteSet(DOMAIN h.cands)
  /\ \A k \in DOMAIN h.cands :
       /\ h.cands[k].confidence \in Int
       /\ ValuedWell(h.vals[k], h.cands[k], events)
  /\ \A j, k \in DOMAIN h.cands : h.cands[j].cid = h.cands[k].cid => j = k

\* The candidates of one list.
ListedWell(cands) ==
  \E n \in Nat :
    /\ DOMAIN cands = 1..n
    /\ \A k \in 1..n : cands[k].confidence \in Int
    /\ \A j, k \in 1..n : cands[j].cid = cands[k].cid => j = k

LEMMA ValidatedWell ==
  ASSUME NEW events \in Seq(EventKinds), NEW cands, ListedWell(cands), NEW found
  PROVE  HeldWell([cands |-> cands, vals |-> BuildCandidateValidations(events, cands),
                   found |-> found], events)
<1> DEFINE vals == BuildCandidateValidations(events, cands)
           h == [cands |-> cands, vals |-> vals, found |-> found]
<1>1. PICK n \in Nat : /\ DOMAIN cands = 1..n
                       /\ \A k \in 1..n : cands[k].confidence \in Int
                       /\ \A j, k \in 1..n : cands[j].cid = cands[k].cid => j = k
  BY DEF ListedWell
<1>2. IsFiniteSet(1..n)
  BY FS_Interval
<1>3. DOMAIN vals = 1..n /\ \A k \in 1..n : vals[k] = Validation(events, cands[k])
  BY <1>1 DEF BuildCandidateValidations
<1> HIDE DEF vals
<1>4. \A k \in 1..n : ValuedWell(vals[k], cands[k], events)
  BY <1>3, ValidationIs
<1>5. h.cands = cands /\ h.vals = vals
  OBVIOUS
<1> HIDE DEF h
<1>6. HeldWell(h, events)
  BY <1>1, <1>2, <1>3, <1>4, <1>5 DEF HeldWell
<1> QED
  BY <1>6 DEF h, vals

Less(S) == {e \in S \X S : e[1] < e[2]}

LEMMA LessIsOrder ==
  ASSUME NEW S \in SUBSET Nat
  PROVE  IsOrder(Less(S), S) /\ \A x \in S : Ahead(Less(S), S, x) = {y \in S : y < x}
<1>1. \A x, y \in S : <<x, y>> \in Less(S) <=> x < y
  BY DEF Less
<1>2. \A x \in S : x \in Nat
  OBVIOUS
<1>3. \A x \in S : Ahead(Less(S), S, x) = {y \in S : y < x}
  BY <1>1 DEF Ahead
<1>4. \A x, y, z \in S : x < y /\ y < z => x < z
  BY <1>2
<1>5. \A x, y \in S : ~(x < x) /\ (x # y => x < y \/ y < x)
  BY <1>2
<1> QED
  BY <1>1, <1>3, <1>4, <1>5 DEF IsOrder

\* The members of a set of numbers by their place are all there, each once.
LEMMA NthIs ==
  ASSUME NEW S \in SUBSET Nat, IsFiniteSet(S)
  PROVE  /\ Cardinality(S) \in Nat
         /\ \A k \in 1..Cardinality(S) : Nth(S, k) \in S
         /\ \A j, k \in 1..Cardinality(S) : Nth(S, j) = Nth(S, k) => j = k
<1> DEFINE R == Less(S)
           m == Cardinality(S)
           shown == PageOf(R, S, m)
<1>1. IsOrder(R, S) /\ m \in Nat
  BY LessIsOrder, FS_CardinalityType
<1>2. \A k \in 1..m : shown[k] = Nth(S, k)
  <2> SUFFICES ASSUME NEW k \in 1..m PROVE shown[k] = Nth(S, k)
    OBVIOUS
  <2>1. shown[k] = CHOOSE x \in S : Cardinality(Ahead(R, S, x)) = k - 1
    BY DEF PageOf
  <2>2. \A x \in S : Ahead(R, S, x) = {y \in S : y < x}
    BY LessIsOrder
  <2> DEFINE U(x) == Cardinality(Ahead(R, S, x)) = k - 1
             V(x) == Cardinality({y \in S : y < x}) = k - 1
  <2>3. \A x \in S : U(x) <=> V(x)
    BY <2>2
  <2> HIDE DEF U, V
  <2>4. (CHOOSE x \in S : U(x)) = CHOOSE x \in S : V(x)
    BY <2>3
  <2> QED
    BY <2>1, <2>4 DEF U, V, Nth
<1> HIDE DEF R, m
<1>3. /\ \A k \in 1..m : shown[k] \in S
      /\ \A i, j \in 1..m : i < j => <<shown[i], shown[j]>> \in R
  <2>1. shown = PageOf(R, S, Cardinality(S)) /\ m = Cardinality(S)
    BY DEF shown, m
  <2> HIDE DEF shown
  <2> QED
    BY <1>1, <2>1, WholePageIs
<1> HIDE DEF shown
<1>4. \A k \in 1..m : shown[k] \in S
  BY <1>3
<1>5. \A i, j \in 1..m : i < j => shown[i] # shown[j]
  BY <1>1, <1>3, <1>4 DEF IsOrder
<1>6. \A i, j \in 1..m : shown[i] = shown[j] => i = j
  BY <1>1, <1>5
<1> QED
  BY <1>1, <1>2, <1>4, <1>6 DEF m

\* Reflected candidates are of different kinds, and so have different names.
LEMMA ReflectedWell ==
  ASSUME NEW events \in Seq(EventKinds)
  PROVE  ListedWell(BuildReflectedCandidates(events))
<1> DEFINE S == ReflectedIndices(events)
           m == Cardinality(S)
           cands == BuildReflectedCandidates(events)
<1>1. Len(events) \in Nat /\ DOMAIN events = 1..Len(events) /\ IsFiniteSet(1..Len(events))
  BY FS_Interval
<1>2. S \subseteq 1..Len(events)
  BY <1>1 DEF ReflectedIndices
<1>3. \A i, j \in S : events[i].kind = events[j].kind => i = j
  <2>1. \A i \in S, j \in S : events[i].kind = events[j].kind => j <= i
    BY <1>1, <1>2 DEF ReflectedIndices
  <2> HIDE DEF S
  <2> QED
    BY <1>1, <1>2, <2>1
<1>4. IsFiniteSet(S) /\ S \subseteq Nat
  BY <1>1, <1>2, FS_Subset
<1>5. DOMAIN cands = 1..m /\ \A k \in 1..m : cands[k] = CandidateOf(events[Nth(S, k)])
  BY DEF BuildReflectedCandidates
<1> HIDE DEF cands, m
<1>6. /\ m \in Nat /\ \A k \in 1..m : Nth(S, k) \in S
      /\ \A j, k \in 1..m : Nth(S, j) = Nth(S, k) => j = k
  <2> HIDE DEF S
  <2> QED
    BY <1>4, NthIs DEF m
<1> HIDE DEF S
<1>7. \A e : (CandidateOf(e)).confidence = 6 /\ (CandidateOf(e)).cid = <<e.kind, e.eventId>>
  BY DEF CandidateOf
<1>8. \A k \in 1..m : cands[k].confidence \in Int
  BY <1>5, <1>7
<1>9. ASSUME NEW j \in 1..m, NEW k \in 1..m, cands[j].cid = cands[k].cid PROVE j = k
  <2>1. events[Nth(S, j)].kind = events[Nth(S, k)].kind
    BY <1>5, <1>7, <1>9
  <2>2. Nth(S, j) = Nth(S, k)
    BY <1>3, <1>6, <2>1
  <2> QED
    BY <1>6, <2>2
<1> QED
  BY <1>5, <1>6, <1>8, <1>9 DEF ListedWell, cands

\* A caller's own candidates.
LEMMA RawWell ==
  ASSUME NEW cands \in RawCandidates
  PROVE  ListedWell(cands)
<1> DEFINE n == Len(cands)
<1>1. /\ cands = [k \in 1..n |-> cands[k]] /\ n \in Nat
      /\ \A k \in 1..n : cands[k].confidence \in Int
      /\ \A j, k \in 1..n : cands[j].cid = cands[k].cid => j = k
  BY CurationAssumption
<1> HIDE DEF n
<1>2. DOMAIN cands = 1..n
  BY <1>1
<1> QED
  BY <1>1, <1>2 DEF ListedWell

-----------------------------------------------------------------------------
(* The order of the candidates of one conflict                              *)

Differ(a, b) == {i \in 1..5 : a[i] # b[i]}
\* a differs from b first at m.
FirstAt(a, b, m) == m \in 1..5 /\ a[m] # b[m] /\ \A i \in 1..5 : i < m => a[i] = b[i]
Outranks(a, b, j, k) == IF Differ(a, b) = {} THEN j < k
                        ELSE a[Min(Differ(a, b))] < b[Min(Differ(a, b))]

LEMMA OutranksIs ==
  ASSUME NEW a \in [1..5 -> Int], NEW b \in [1..5 -> Int], NEW j \in Nat, NEW k \in Nat
  PROVE  /\ (\A i \in 1..5 : a[i] = b[i]) => (Outranks(a, b, j, k) <=> j < k)
         /\ \A m \in 1..5 : FirstAt(a, b, m) => (Outranks(a, b, j, k) <=> a[m] < b[m])
         /\ (\E i \in 1..5 : a[i] # b[i]) => \E m \in 1..5 : FirstAt(a, b, m)
<1> DEFINE D == Differ(a, b)
<1>1. D \in SUBSET Nat
  BY DEF Differ
<1>2. D # {} => Min(D) \in D /\ \A y \in D : Min(D) <= y
  <2> HIDE DEF D
  <2> QED
    BY <1>1, MinIsThere
<1>3. (\A i \in 1..5 : a[i] = b[i]) => D = {}
  BY DEF Differ
<1>4. ASSUME NEW m \in 1..5, FirstAt(a, b, m) PROVE D # {} /\ Min(D) = m
  <2>1. m \in D
    BY <1>4 DEF Differ, FirstAt
  <2>2. \A y \in D : m <= y
    BY <1>4 DEF Differ, FirstAt
  <2> HIDE DEF D
  <2>3. PICK least \in D : least = Min(D) /\ least <= m
    BY <1>2, <2>1
  <2>4. least = m
    BY <1>1, <2>1, <2>2, <2>3
  <2> QED
    BY <2>1, <2>3, <2>4
<1>5. ASSUME NEW i \in 1..5, a[i] # b[i] PROVE \E m \in 1..5 : FirstAt(a, b, m)
  <2>1. i \in D
    BY <1>5 DEF Differ
  <2>2. PICK m \in D : \A y \in D : m <= y
    BY <1>2, <2>1
  <2>3. \A l \in 1..5 : l < m => l \notin D
    BY <1>1, <2>2
  <2> QED
    BY <2>2, <2>3 DEF Differ, FirstAt
<1> QED
  BY <1>3, <1>4, <1>5 DEF Outranks

LEMMA OutranksOrders ==
  ASSUME NEW a \in [1..5 -> Int], NEW b \in [1..5 -> Int], NEW c \in [1..5 -> Int],
         NEW i \in Nat, NEW j \in Nat, NEW k \in Nat
  PROVE  /\ ~Outranks(a, a, i, i)
         /\ i # j => Outranks(a, b, i, j) \/ Outranks(b, a, j, i)
         /\ Outranks(a, b, i, j) /\ Outranks(b, c, j, k) => Outranks(a, c, i, k)
         /\ Outranks(a, b, i, j) => a[1] <= b[1]
<1>1. ~Outranks(a, a, i, i)
  BY OutranksIs
<1>2. i # j => Outranks(a, b, i, j) \/ Outranks(b, a, j, i)
  <2>1. CASE \A l \in 1..5 : a[l] = b[l]
    BY <2>1, OutranksIs
  <2>2. CASE \E l \in 1..5 : a[l] # b[l]
    <3>1. PICK m \in 1..5 : FirstAt(a, b, m)
      BY <2>2, OutranksIs
    <3>2. FirstAt(b, a, m)
      BY <3>1 DEF FirstAt
    <3>3. a[m] < b[m] \/ b[m] < a[m]
      BY <3>1 DEF FirstAt
    <3> QED
      BY <3>1, <3>2, <3>3, OutranksIs
  <2> QED
    BY <2>1, <2>2
<1>3. ASSUME Outranks(a, b, i, j) PROVE a[1] <= b[1]
  <2>1. CASE \A l \in 1..5 : a[l] = b[l]
    BY <2>1
  <2>2. CASE \E l \in 1..5 : a[l] # b[l]
    <3>1. PICK m \in 1..5 : FirstAt(a, b, m)
      BY <2>2, OutranksIs
    <3>2. a[m] < b[m]
      BY <1>3, <3>1, OutranksIs
    <3> QED
      BY <3>1, <3>2 DEF FirstAt
  <2> QED
    BY <2>1, <2>2
<1>4. ASSUME Outranks(a, b, i, j), Outranks(b, c, j, k) PROVE Outranks(a, c, i, k)
  <2>1. CASE (\A l \in 1..5 : a[l] = b[l]) /\ (\A l \in 1..5 : b[l] = c[l])
    <3>1. \A l \in 1..5 : a[l] = c[l]
      BY <2>1
    <3>2. i < j /\ j < k
      BY <1>4, <2>1, OutranksIs
    <3> QED
      BY <3>1, <3>2, OutranksIs
  <2>2. CASE (\A l \in 1..5 : a[l] = b[l]) /\ (\E l \in 1..5 : b[l] # c[l])
    <3>1. PICK m \in 1..5 : FirstAt(b, c, m)
      BY <2>2, OutranksIs
    <3>2. b[m] < c[m]
      BY <1>4, <3>1, OutranksIs
    <3>3. FirstAt(a, c, m) /\ a[m] < c[m]
      BY <2>2, <3>1, <3>2 DEF FirstAt
    <3> QED
      BY <3>3, OutranksIs
  <2>3. CASE (\E l \in 1..5 : a[l] # b[l]) /\ (\A l \in 1..5 : b[l] = c[l])
    <3>1. PICK m \in 1..5 : FirstAt(a, b, m)
      BY <2>3, OutranksIs
    <3>2. a[m] < b[m]
      BY <1>4, <3>1, OutranksIs
    <3>3. FirstAt(a, c, m) /\ a[m] < c[m]
      BY <2>3, <3>1, <3>2 DEF FirstAt
    <3> QED
      BY <3>3, OutranksIs
  <2>4. CASE (\E l \in 1..5 : a[l] # b[l]) /\ (\E l \in 1..5 : b[l] # c[l])
    <3>1. PICK m \in 1..5 : FirstAt(a, b, m)
      BY <2>4, OutranksIs
    <3>2. PICK n \in 1..5 : FirstAt(b, c, n)
      BY <2>4, OutranksIs
    <3>3. a[m] < b[m] /\ b[n] < c[n]
      BY <1>4, <3>1, <3>2, OutranksIs
    <3>4. CASE m <= n
      <4>1. a[m] < c[m]
        BY <3>1, <3>2, <3>3, <3>4 DEF FirstAt
      <4>2. FirstAt(a, c, m)
        BY <3>1, <3>2, <3>4, <4>1 DEF FirstAt
      <4> QED
        BY <4>1, <4>2, OutranksIs
    <3>5. CASE n < m
      <4>1. a[n] < c[n]
        BY <3>1, <3>2, <3>3, <3>5 DEF FirstAt
      <4>2. FirstAt(a, c, n)
        BY <3>1, <3>2, <3>5, <4>1 DEF FirstAt
      <4> QED
        BY <4>1, <4>2, OutranksIs
    <3> QED
      BY <3>4, <3>5
  <2> QED
    BY <2>1, <2>2, <2>3, <2>4
<1> QED
  BY <1>1, <1>2, <1>3, <1>4

LEMMA OutranksAtLast ==
  ASSUME NEW a \in [1..5 -> Int], NEW b \in [1..5 -> Int], NEW j \in Nat, NEW k \in Nat,
         FirstAt(b, a, 5), b[5] < a[5]
  PROVE  Outranks(b, a, k, j)
<1>1. \A m \in 1..5 : FirstAt(b, a, m) => (Outranks(b, a, k, j) <=> b[m] < a[m])
  BY OutranksIs
<1> QED
  BY <1>1

RankOf(z, incumbent) == <<-z.v.depth, z.v.against, z.v.age, -z.c.confidence,
                          IF z.c.cid = incumbent THEN 0 ELSE 1>>

LEMMA BetterIs ==
  ASSUME NEW x, NEW y, NEW incumbent
  PROVE  Better(x, y, incumbent) <=> Outranks(RankOf(x, incumbent), RankOf(y, incumbent), x.k, y.k)
BY DEF Better, Outranks, Differ, RankOf

LEMMA PoolIs ==
  ASSUME NEW events \in Seq(EventKinds), NEW h, HeldWell(h, events)
  PROVE  /\ IsFiniteSet(Safe(Pool(h)))
         /\ \A x \in Safe(Pool(h)) :
              /\ x.k \in Nat /\ x.c.confidence \in Int /\ x.v.valid
              /\ ValuedWell(x.v, x.c, events)
              /\ \A incumbent : RankOf(x, incumbent) \in [1..5 -> Int]
         /\ \A x, y \in Safe(Pool(h)) : (x.k = y.k \/ x.c.cid = y.c.cid) => x = y
<1> DEFINE D == DOMAIN h.cands
           f == [k \in D |-> [c |-> h.cands[k], v |-> h.vals[k], k |-> k]]
<1>1. /\ D \subseteq Nat /\ IsFiniteSet(D)
      /\ \A k \in D : h.cands[k].confidence \in Int /\ ValuedWell(h.vals[k], h.cands[k], events)
      /\ \A j, k \in D : h.cands[j].cid = h.cands[k].cid => j = k
  BY DEF HeldWell
<1>2. \A k \in D : f[k].c = h.cands[k] /\ f[k].v = h.vals[k] /\ f[k].k = k
  OBVIOUS
<1>3. Pool(h) = {f[k] : k \in D}
  BY DEF Pool
<1> HIDE DEF f, D
<1>4. IsFiniteSet(Pool(h))
  BY <1>1, <1>3, ImageIsFinite
<1>5. Safe(Pool(h)) \subseteq Pool(h) /\ \A x \in Safe(Pool(h)) : x.v.valid
  BY DEF Safe
<1>6. IsFiniteSet(Safe(Pool(h)))
  BY <1>4, <1>5, FS_Subset
<1>7. \A x \in Safe(Pool(h)) : \E k \in D : x = f[k]
  BY <1>3, <1>5
<1>8. \A x \in Safe(Pool(h)) : /\ x.k \in Nat /\ x.c.confidence \in Int
                               /\ ValuedWell(x.v, x.c, events)
  BY <1>1, <1>2, <1>7
<1>9. \A x, y \in Safe(Pool(h)) : (x.k = y.k \/ x.c.cid = y.c.cid) => x = y
  BY <1>1, <1>2, <1>7
<1>10. ASSUME NEW x \in Safe(Pool(h)), NEW incumbent
       PROVE  RankOf(x, incumbent) \in [1..5 -> Int]
  <2>1. x.v.depth \in Int /\ x.v.against \in Int /\ x.v.age \in Int /\ x.c.confidence \in Int
    BY <1>8 DEF ValuedWell
  <2>2. -x.v.depth \in Int /\ -x.c.confidence \in Int
    BY <2>1
  <2>3. (IF x.c.cid = incumbent THEN 0 ELSE 1) \in Int
    OBVIOUS
  <2>4. \A p, q, r, s, t \in Int : <<p, q, r, s, t>> \in [1..5 -> Int]
    OBVIOUS
  <2> QED
    BY <2>1, <2>2, <2>3, <2>4 DEF RankOf
<1> QED
  BY <1>5, <1>6, <1>8, <1>9, <1>10

\* The candidates of a conflict are in a strict order, better ones with no less evidence.
LEMMA BetterOrders ==
  ASSUME NEW events \in Seq(EventKinds), NEW h, HeldWell(h, events), NEW incumbent,
         NEW x \in Safe(Pool(h)), NEW y \in Safe(Pool(h))
  PROVE  /\ ~Better(x, x, incumbent)
         /\ x # y => Better(x, y, incumbent) \/ Better(y, x, incumbent)
         /\ \A z \in Safe(Pool(h)) :
              Better(x, y, incumbent) /\ Better(y, z, incumbent) => Better(x, z, incumbent)
         /\ Better(x, y, incumbent) => x.v.depth >= y.v.depth
         /\ (x.v = y.v /\ x.c.confidence = y.c.confidence /\ x.c.cid # incumbent
             /\ y.c.cid = incumbent) => Better(y, x, incumbent)
<1> DEFINE r(z) == RankOf(z, incumbent)
<1>1. \A z \in Safe(Pool(h)) : r(z) \in [1..5 -> Int] /\ z.k \in Nat
  BY PoolIs
<1>2. \A p, q : Better(p, q, incumbent) <=> Outranks(r(p), r(q), p.k, q.k)
  BY BetterIs
<1>3. x # y => x.k # y.k
  BY PoolIs
<1>4. r(x)[1] = -x.v.depth /\ r(y)[1] = -y.v.depth /\ x.v.depth \in Nat /\ y.v.depth \in Nat
  BY PoolIs DEF RankOf, ValuedWell
<1>5. ASSUME x.v = y.v, x.c.confidence = y.c.confidence, x.c.cid # incumbent,
             y.c.cid = incumbent
      PROVE  FirstAt(r(y), r(x), 5) /\ r(y)[5] < r(x)[5]
  <2>1. /\ r(x)[1] = r(y)[1] /\ r(x)[2] = r(y)[2] /\ r(x)[3] = r(y)[3] /\ r(x)[4] = r(y)[4]
        /\ r(x)[5] = 1 /\ r(y)[5] = 0
    BY <1>5 DEF RankOf
  <2>2. \A i \in 1..5 : i < 5 => i = 1 \/ i = 2 \/ i = 3 \/ i = 4
    OBVIOUS
  <2> HIDE DEF r
  <2> QED
    BY <2>1, <2>2 DEF FirstAt
<1> HIDE DEF r
<1>6. ~Better(x, x, incumbent)
  BY <1>1, <1>2, OutranksOrders
<1>7. x # y => Better(x, y, incumbent) \/ Better(y, x, incumbent)
  BY <1>1, <1>2, <1>3, OutranksOrders
<1> DEFINE a == r(x)
           b == r(y)
<1>11. a \in [1..5 -> Int] /\ b \in [1..5 -> Int] /\ x.k \in Nat /\ y.k \in Nat
  BY <1>1
<1>12. /\ Better(x, y, incumbent) <=> Outranks(a, b, x.k, y.k)
       /\ Better(y, x, incumbent) <=> Outranks(b, a, y.k, x.k)
  BY <1>2
<1>8. ASSUME NEW z \in Safe(Pool(h)), Better(x, y, incumbent), Better(y, z, incumbent)
      PROVE  Better(x, z, incumbent)
  <2> DEFINE c == r(z)
  <2>1. c \in [1..5 -> Int] /\ z.k \in Nat
    BY <1>1
  <2>2. /\ Better(y, z, incumbent) <=> Outranks(b, c, y.k, z.k)
        /\ Better(x, z, incumbent) <=> Outranks(a, c, x.k, z.k)
    BY <1>2
  <2>3. Outranks(a, b, x.k, y.k) /\ Outranks(b, c, y.k, z.k)
    BY <1>8, <1>12, <2>2
  <2> HIDE DEF a, b, c
  <2>4. Outranks(a, c, x.k, z.k)
    BY <1>11, <2>1, <2>3, OutranksOrders
  <2> QED
    BY <2>2, <2>4
<1>9. ASSUME Better(x, y, incumbent) PROVE x.v.depth >= y.v.depth
  <2>1. Outranks(a, b, x.k, y.k)
    BY <1>9, <1>12
  <2>2. a[1] <= b[1]
    <3> HIDE DEF a, b
    <3> QED
      BY <1>11, <2>1, OutranksOrders
  <2> QED
    BY <1>4, <2>2
<1>10. ASSUME x.v = y.v, x.c.confidence = y.c.confidence, x.c.cid # incumbent,
              y.c.cid = incumbent
       PROVE  Better(y, x, incumbent)
  <2>1. FirstAt(b, a, 5) /\ b[5] < a[5]
    BY <1>5, <1>10
  <2>2. Outranks(b, a, y.k, x.k)
    <3> HIDE DEF a, b
    <3> QED
      BY <1>11, <2>1, OutranksAtLast
  <2> QED
    BY <1>12, <2>2
<1> QED
  BY <1>6, <1>7, <1>8, <1>9, <1>10

\* Among the candidates of one conflict one is better than every other.
LEMMA WinnerIsThere ==
  ASSUME NEW events \in Seq(EventKinds), NEW h, HeldWell(h, events), NEW curated,
         NEW x \in Safe(Pool(h))
  PROVE  \E y \in SelectCurationCandidates(Safe(Pool(h)), curated) : y.c.key = x.c.key
<1> DEFINE inc == IncumbentOf(curated, x.c.key)
           P == {y \in Safe(Pool(h)) : y.c.key = x.c.key}
           R == {p \in P \X P : Better(p[1], p[2], inc)}
<1>1. P \subseteq Safe(Pool(h)) /\ x \in P /\ IsFiniteSet(P)
  BY PoolIs, FS_Subset
<1>2. \A p, q \in P : <<p, q>> \in R <=> Better(p, q, inc)
  OBVIOUS
<1>3. \A y \in P : y.c.key = x.c.key
  OBVIOUS
<1>4. \A y \in Safe(Pool(h)) : y.c.key = x.c.key => y \in P
  OBVIOUS
<1> HIDE DEF R, P, inc
<1>8. \A p, q \in Safe(Pool(h)) :
        /\ ~Better(p, p, inc)
        /\ p # q => Better(p, q, inc) \/ Better(q, p, inc)
        /\ \A z \in Safe(Pool(h)) : Better(p, q, inc) /\ Better(q, z, inc) => Better(p, z, inc)
  BY BetterOrders
<1>9. \A p \in P : p \in Safe(Pool(h))
  BY <1>1
<1>5. IsOrder(R, P)
  <2>1. \A p \in P : <<p, p>> \notin R
    BY <1>2, <1>8, <1>9
  <2>2. \A p, q \in P : p # q => <<p, q>> \in R \/ <<q, p>> \in R
    BY <1>2, <1>8, <1>9
  <2>3. ASSUME NEW p \in P, NEW q \in P, NEW z \in P, <<p, q>> \in R, <<q, z>> \in R
        PROVE  <<p, z>> \in R
    <3>1. Better(p, q, inc) /\ Better(q, z, inc)
      BY <1>2, <2>3
    <3>2. Better(p, z, inc)
      BY <1>8, <1>9, <3>1
    <3> QED
      BY <1>2, <3>2
  <2> QED
    BY <2>1, <2>2, <2>3 DEF IsOrder
<1>6. PICK best \in P : \A y \in P \ {best} : <<best, y>> \in R
  BY <1>1, <1>5, FirstIsThere
<1>7. \A y \in Safe(Pool(h)) \ {best} : y.c.key = best.c.key => Better(best, y, IncumbentOf(curated, best.c.key))
  BY <1>2, <1>3, <1>4, <1>6 DEF inc
<1> QED
  BY <1>1, <1>3, <1>7 DEF SelectCurationCandidates

LEMMA SettledIs ==
  ASSUME NEW events \in Seq(EventKinds), NEW h, HeldWell(h, events), NEW curated
  PROVE  LET pool == Safe(Pool(h))
             winners == SelectCurationCandidates(pool, curated)
             strictly(x, y) == <<x.v, x.c.confidence>> # <<y.v, y.c.confidence>>
         IN /\ \A x \in pool : \E y \in winners : y.c.key = x.c.key
            /\ \A x, y \in winners : x.c.key = y.c.key => x = y
            /\ \A x \in pool \ winners, y \in winners :
                 x.c.key = y.c.key /\ x.c.cid = IncumbentOf(curated, x.c.key)
                   => strictly(x, y) /\ y.v.depth >= x.v.depth
            /\ \A y \in winners : \A x \in pool : x.c.key = y.c.key =>
                 y.v.depth >= x.v.depth
<1> DEFINE pool == Safe(Pool(h))
           winners == SelectCurationCandidates(pool, curated)
<1>1. \A x \in pool : \E y \in winners : y.c.key = x.c.key
  BY WinnerIsThere
<1>2. winners \subseteq pool
  BY DEF SelectCurationCandidates
<1>3. \A y \in winners : \A x \in pool \ {y} :
        x.c.key = y.c.key => Better(y, x, IncumbentOf(curated, y.c.key))
  BY DEF SelectCurationCandidates
<1>4. \A x \in pool : x.v.depth \in Nat
  BY PoolIs DEF ValuedWell
<1>5. \A x, y \in pool : x.c.cid = y.c.cid => x = y
  BY PoolIs
<1>6. \A inc : \A x, y \in pool :
        /\ ~Better(x, x, inc)
        /\ \A z \in pool : Better(x, y, inc) /\ Better(y, z, inc) => Better(x, z, inc)
        /\ Better(x, y, inc) => x.v.depth >= y.v.depth
        /\ (x.v = y.v /\ x.c.confidence = y.c.confidence /\ x.c.cid # inc
            /\ y.c.cid = inc) => Better(y, x, inc)
  BY BetterOrders
<1> HIDE DEF pool, winners
<1>7. ASSUME NEW x \in winners, NEW y \in winners, x.c.key = y.c.key, x # y PROVE FALSE
  <2> DEFINE inc == IncumbentOf(curated, x.c.key)
  <2>1. Better(x, y, inc) /\ Better(y, x, inc)
    BY <1>2, <1>3, <1>7
  <2> QED
    BY <1>2, <1>6, <2>1
<1>8. ASSUME NEW y \in winners, NEW x \in pool, x.c.key = y.c.key PROVE y.v.depth >= x.v.depth
  <2>1. CASE x = y
    BY <1>4, <2>1
  <2>2. CASE x # y
    BY <1>2, <1>3, <1>6, <1>8, <2>2
  <2> QED
    BY <2>1, <2>2
<1>9. ASSUME NEW x \in pool \ winners, NEW y \in winners, x.c.key = y.c.key,
             x.c.cid = IncumbentOf(curated, x.c.key), x.v = y.v, x.c.confidence = y.c.confidence
      PROVE  FALSE
  <2> DEFINE inc == IncumbentOf(curated, x.c.key)
  <2>1. x # y /\ x \in pool /\ y \in pool
    BY <1>2
  <2>2. Better(y, x, inc)
    BY <1>3, <1>9, <2>1
  <2>3. y.c.cid # inc
    BY <1>5, <1>9, <2>1
  <2>4. Better(x, y, inc)
    BY <1>6, <1>9, <2>1, <2>3
  <2> QED
    BY <1>6, <2>1, <2>2, <2>4
<1> QED
  BY <1>1, <1>7, <1>8, <1>9 DEF pool, winners

-----------------------------------------------------------------------------
(* The order of the rules of a context                                      *)

\* The first k rules by their bands, and by their places within a band.
ByBand(curated, band, k) ==
  {e \in (1..k) \X (1..k) : \/ band[curated[e[1]]] > band[curated[e[2]]]
                            \/ band[curated[e[1]]] = band[curated[e[2]]] /\ e[1] < e[2]}

LEMMA ByBandIsOrder ==
  ASSUME NEW k \in Nat, NEW curated, NEW band, \A i \in 1..k : band[curated[i]] \in Int
  PROVE  /\ IsOrder(ByBand(curated, band, k), 1..k)
         /\ \A i, j \in 1..k : <<i, j>> \in ByBand(curated, band, k) <=>
              \/ band[curated[i]] > band[curated[j]]
              \/ band[curated[i]] = band[curated[j]] /\ i < j
<1> DEFINE R == ByBand(curated, band, k)
           g == [i \in 1..k |-> band[curated[i]]]
           S == 1..k
<1>1. \A i, j \in S : <<i, j>> \in R <=> g[i] > g[j] \/ (g[i] = g[j] /\ i < j)
  BY DEF ByBand
<1>2. \A i \in S : g[i] \in Int /\ i \in Int /\ g[i] = band[curated[i]]
  OBVIOUS
<1> HIDE DEF R, g, S
<1>3. \A x \in S : <<x, x>> \notin R
  BY <1>1, <1>2
<1>4. \A x, y \in S : x # y => <<x, y>> \in R \/ <<y, x>> \in R
  BY <1>1, <1>2
<1>5. ASSUME NEW x \in S, NEW y \in S, NEW z \in S, <<x, y>> \in R, <<y, z>> \in R
      PROVE  <<x, z>> \in R
  BY <1>1, <1>2, <1>5
<1>6. IsOrder(R, S)
  BY <1>3, <1>4, <1>5 DEF IsOrder
<1> QED
  BY <1>1, <1>2, <1>6 DEF R, S

LEMMA RankedIs ==
  ASSUME NEW b \in Bands
  PROVE  LET ranked == RankedRules(b.rules, b.topK, b.band)
             place(s, x) == CHOOSE i \in DOMAIN s : s[i] = x
         IN /\ {ranked[i] : i \in DOMAIN ranked} = {b.rules[i] : i \in DOMAIN b.rules}
            /\ \A i \in DOMAIN ranked : i > b.topK => ranked[i] = b.rules[i]
            /\ \A i, j \in 1..Min({b.topK, Len(ranked)}) : i < j =>
                 \/ b.band[ranked[i]] > b.band[ranked[j]]
                 \/ /\ b.band[ranked[i]] = b.band[ranked[j]]
                    /\ place(b.rules, ranked[i]) < place(b.rules, ranked[j])
<1> DEFINE curated == b.rules
           band == b.band
           topK == b.topK
           n == Len(curated)
           k == Min({topK, n})
           R == ByBand(curated, band, k)
           at == PageOf(R, 1..k, k)
           ranked == RankedRules(curated, topK, band)
           place(x) == CHOOSE i \in DOMAIN curated : curated[i] = x
<1>1. /\ curated = [i \in 1..n |-> curated[i]] /\ n \in Nat /\ topK \in Nat
      /\ \A i, j \in 1..n : curated[i] = curated[j] => i = j
      /\ \A i \in 1..n : band[curated[i]] \in Int
  BY CurationAssumption
<1> HIDE DEF n, curated, band, topK
<1>2. DOMAIN curated = 1..n
  BY <1>1
<1>3. k = IF topK < n THEN topK ELSE n
  BY <1>1, MinOfTwo
<1> HIDE DEF k
<1>4. k \in Nat /\ k <= n /\ k <= topK
  BY <1>1, <1>3
<1>17. \A i \in 1..k : i \in 1..n /\ i <= k
  BY <1>1, <1>4
<1>5. /\ IsOrder(R, 1..k)
      /\ \A i, j \in 1..k : <<i, j>> \in R <=>
              \/ band[curated[i]] > band[curated[j]]
              \/ band[curated[i]] = band[curated[j]] /\ i < j
  <2>1. \A i \in 1..k : band[curated[i]] \in Int
    BY <1>1, <1>17
  <2> QED
    BY <1>4, <2>1, ByBandIsOrder
<1> HIDE DEF R
<1>6. /\ \A i \in 1..k : at[i] \in 1..k
      /\ \A i, j \in 1..k : i < j => <<at[i], at[j]>> \in R
      /\ \A x \in 1..k : \E i \in 1..k : x = at[i]
  <2> DEFINE S == 1..k
             shown == at
  <2>1. IsOrder(R, S) /\ IsFiniteSet(S) /\ Cardinality(S) = k
    BY <1>4, <1>5, FS_Interval
  <2>2. shown = PageOf(R, S, Cardinality(S))
    BY <2>1
  <2> HIDE DEF S, shown
  <2>3. /\ \A i \in 1..k : shown[i] \in S
        /\ \A i, j \in 1..k : i < j => <<shown[i], shown[j]>> \in R
        /\ \A x \in S : \E i \in 1..k : x = shown[i]
    BY <2>1, <2>2, WholePageIs
  <2> QED
    BY <2>3 DEF S, shown
<1>7. ranked = [i \in 1..n |-> ranked[i]] /\ DOMAIN ranked = 1..n
      /\ \A i \in 1..n : ranked[i] = IF i <= k THEN curated[at[i]] ELSE curated[i]
  <2> DEFINE before(i, j) == band[curated[i]] > band[curated[j]] \/
                             (band[curated[i]] = band[curated[j]] /\ i < j)
             U(m, i) == Cardinality({j \in 1..k : before(j, i)}) = m - 1
             V(m, i) == Cardinality(Ahead(R, 1..k, i)) = m - 1
  <2>1. \A i \in 1..k : Ahead(R, 1..k, i) = {j \in 1..k : before(j, i)}
    BY <1>5 DEF Ahead
  <2>2. \A m \in 1..k : \A i \in 1..k : U(m, i) <=> V(m, i)
    BY <2>1
  <2>3. \A m \in 1..k : at[m] = CHOOSE i \in 1..k : V(m, i)
    BY DEF PageOf
  <2> DEFINE other == [m \in 1..k |-> CHOOSE i \in 1..k : U(m, i)]
  <2>4. ranked = [i \in 1..n |-> IF i <= k THEN curated[other[i]] ELSE curated[i]]
    BY <1>2 DEF RankedRules, k, n
  <2>5. \A m \in 1..k : other[m] = at[m]
    <3> SUFFICES ASSUME NEW m \in 1..k PROVE other[m] = at[m]
      OBVIOUS
    <3>1. other[m] = CHOOSE i \in 1..k : U(m, i)
      OBVIOUS
    <3> HIDE DEF U, V, at, other
    <3>2. (CHOOSE i \in 1..k : U(m, i)) = CHOOSE i \in 1..k : V(m, i)
      BY <2>2
    <3> QED
      BY <2>3, <3>1, <3>2
  <2>6. \A i \in 1..n : i <= k => i \in 1..k
    BY <1>4
  <2> HIDE DEF other, at, ranked
  <2> QED
    BY <2>4, <2>5, <2>6
<1> HIDE DEF at, ranked
<1>9. Len(ranked) = n
  BY <1>1, <1>7
<1>10. \A i \in 1..k : ranked[i] = curated[at[i]] /\ at[i] \in 1..n
  BY <1>6, <1>7, <1>17
<1>11. \A i \in 1..n : i > k => ranked[i] = curated[i]
  BY <1>4, <1>7
<1>12. {ranked[i] : i \in 1..n} = {curated[i] : i \in 1..n}
  <2>1. ASSUME NEW i \in 1..n PROVE \E j \in 1..n : ranked[i] = curated[j]
    <3>1. CASE i <= k
      <4>1. i \in 1..k
        BY <1>4, <3>1
      <4> QED
        BY <1>10, <4>1
    <3>2. CASE i > k
      BY <1>11, <3>2
    <3> QED
      BY <1>4, <3>1, <3>2
  <2>2. ASSUME NEW j \in 1..n PROVE \E i \in 1..n : ranked[i] = curated[j]
    <3>1. CASE j <= k
      <4>1. j \in 1..k
        BY <1>4, <3>1
      <4>2. PICK i \in 1..k : j = at[i]
        BY <1>6, <4>1
      <4>3. i \in 1..n /\ ranked[i] = curated[j]
        BY <1>10, <1>17, <4>2
      <4> QED
        BY <4>3
    <3>2. CASE j > k
      BY <1>11, <3>2
    <3> QED
      BY <1>4, <3>1, <3>2
  <2> DEFINE T == 1..n
             f == [i \in T |-> ranked[i]]
             g == [i \in T |-> curated[i]]
  <2>3. \A i \in T : (\E j \in T : f[i] = g[j]) /\ (\E j \in T : f[j] = g[i])
    BY <2>1, <2>2
  <2>4. {f[i] : i \in T} = {g[i] : i \in T}
    <3> HIDE DEF T, f, g
    <3> QED
      BY <2>3
  <2>5. {f[i] : i \in T} = {ranked[i] : i \in T} /\ {g[i] : i \in T} = {curated[i] : i \in T}
    OBVIOUS
  <2> QED
    BY <2>4, <2>5
<1>13. \A i \in 1..n : i > topK => ranked[i] = curated[i]
  BY <1>1, <1>4, <1>11
<1>14. \A i \in 1..n : place(curated[i]) = i
  BY <1>1, <1>2
<1>15. ASSUME NEW i \in 1..k, NEW j \in 1..k, i < j
       PROVE  \/ band[ranked[i]] > band[ranked[j]]
              \/ band[ranked[i]] = band[ranked[j]] /\ place(ranked[i]) < place(ranked[j])
  <2>1. <<at[i], at[j]>> \in R /\ at[i] \in 1..k /\ at[j] \in 1..k
    BY <1>6, <1>15
  <2>2. place(ranked[i]) = at[i] /\ place(ranked[j]) = at[j]
    BY <1>10, <1>14
  <2>3. ranked[i] = curated[at[i]] /\ ranked[j] = curated[at[j]]
    BY <1>10
  <2> HIDE DEF place
  <2> QED
    BY <1>5, <2>1, <2>2, <2>3
<1>16. Min({topK, Len(ranked)}) = k
  BY <1>9 DEF k
<1> QED
  BY <1>2, <1>7, <1>12, <1>13, <1>15, <1>16 DEF curated, band, topK, ranked

-----------------------------------------------------------------------------
(* Events, candidates and rules                                             *)

CurWell(c) ==
  /\ c = [events |-> c.events, rules |-> c.rules]
  /\ c.events \in Seq(EventKinds) /\ Len(c.events) <= MaxEvents
  /\ DigestsDistinct(c.events)
  /\ \A r \in c.rules : Cardinality(FoundIds(c.events, r.evidence)) >= MinDepth

\* Beside the property, what is held was validated against no more than what is
\* stored: a candidate keeps the evidence it was judged by.
CurationInv == CurWell(cur) /\ HeldWell(held, cur.events)

LEMMA HeldGrows ==
  ASSUME NEW events \in Seq(EventKinds), NEW more \in Seq(EventKinds), Extends(more, events),
         NEW h, HeldWell(h, events)
  PROVE  HeldWell(h, more)
<1>1. ASSUME NEW v, NEW c, ValuedWell(v, c, events) PROVE ValuedWell(v, c, more)
  <2> DEFINE p == Cardinality(FoundIds(events, c.evidence))
             q == Cardinality(FoundIds(more, c.evidence))
  <2>1. p \in Nat /\ q \in Nat /\ p <= q
    BY FoundAre, FoundGrows
  <2>2. v.depth \in Nat /\ v.depth <= p
    BY <1>1 DEF ValuedWell
  <2> HIDE DEF p, q
  <2>3. v.depth <= q
    BY <2>1, <2>2
  <2> QED
    BY <1>1, <2>3 DEF ValuedWell, q
<1> QED
  BY <1>1 DEF HeldWell

LEMMA CurateIs ==
  ASSUME NEW c, CurWell(c), NEW h, HeldWell(h, c.events), NEW at
  PROVE  LET next == RunCurateGuarded(c, h, at)
         IN CurWell(next) /\ next.events = c.events
<1> DEFINE winners == SelectCurationCandidates(Safe(Pool(h)), c.rules)
           curated == ApplyCurateMutations(c.rules, winners, at)
           next == [events |-> c.events, rules |-> curated]
<1>1. ASSUME NEW r \in curated PROVE Cardinality(FoundIds(c.events, r.evidence)) >= MinDepth
  <2>1. CASE r \in c.rules
    BY <2>1 DEF CurWell
  <2>2. CASE r \notin c.rules
    <3>1. PICK x \in winners : r = RuleOf(x.c, at)
      BY <2>2 DEF ApplyCurateMutations
    <3>2. x \in Safe(Pool(h)) /\ r.evidence = x.c.evidence
      BY <3>1 DEF SelectCurationCandidates, RuleOf
    <3>3. x.v.valid /\ ValuedWell(x.v, x.c, c.events)
      BY <3>2, PoolIs DEF CurWell
    <3> DEFINE p == Cardinality(FoundIds(c.events, x.c.evidence))
    <3>4. p \in Nat /\ x.v.depth \in Nat /\ x.v.depth >= MinDepth /\ x.v.depth <= p
      BY <3>3, FoundAre DEF ValuedWell, CurWell
    <3> HIDE DEF p
    <3>5. p >= MinDepth
      BY <3>4, CurationAssumption
    <3> QED
      BY <3>2, <3>5 DEF p
  <2> QED
    BY <2>1, <2>2
<1> HIDE DEF curated
<1>2. RunCurateGuarded(c, h, at) = next
  BY DEF RunCurateGuarded, CurWell, curated
<1>3. next.events = c.events /\ next.rules = curated
  OBVIOUS
<1> HIDE DEF next
<1>4. next = [events |-> next.events, rules |-> next.rules]
  BY <1>3 DEF next
<1> QED
  BY <1>1, <1>2, <1>3, <1>4 DEF CurWell

LEMMA CurationInits == CurationInit => CurationInv
<1> SUFFICES ASSUME CurationInit PROVE CurationInv
  OBVIOUS
<1>1. cur.events = <<>> /\ cur.rules = {} /\ cur = [events |-> <<>>, rules |-> {}]
  BY DEF CurationInit
<1>2. CurWell(cur)
  BY <1>1, CurationAssumption DEF CurWell, DigestsDistinct
<1>3. DOMAIN held.cands = {} /\ DOMAIN held.vals = {}
  BY DEF CurationInit, NothingHeld
<1>4. HeldWell(held, cur.events)
  BY <1>3, FS_EmptySet DEF HeldWell
<1> QED
  BY <1>2, <1>4 DEF CurationInv

LEMMA ValidateSteps ==
  ASSUME CurationInv, NEW cands, ListedWell(cands), ValidateAll(cands)
  PROVE  CurationInv'
<1> DEFINE found == {cur.events[i].eventId : i \in DOMAIN cur.events}
           vals == BuildCandidateValidations(cur.events, cands)
<1>1. held' = [cands |-> cands, vals |-> vals, found |-> found] /\ cur' = cur
  BY DEF ValidateAll
<1> HIDE DEF found
<1>2. cur.events \in Seq(EventKinds) /\ CurWell(cur)
  BY DEF CurationInv, CurWell
<1>3. HeldWell([cands |-> cands, vals |-> vals, found |-> found], cur.events)
  BY <1>2, ValidatedWell
<1> HIDE DEF vals
<1> QED
  BY <1>1, <1>2, <1>3 DEF CurationInv

LEMMA CurationSteps == CurationInv /\ [CurationNext]_curationVars => CurationInv'
<1> SUFFICES ASSUME CurationInv, [CurationNext]_curationVars PROVE CurationInv'
  OBVIOUS
<1>1. CurWell(cur) /\ HeldWell(held, cur.events) /\ cur.events \in Seq(EventKinds)
  BY DEF CurationInv, CurWell
<1>2. CASE UNCHANGED curationVars
  BY <1>1, <1>2 DEF CurationInv, curationVars
<1>3. ASSUME NEW b \in Batches, Ingest(b) PROVE CurationInv'
  <2> DEFINE more == RunIngest(cur.events, b)
  <2>1. /\ cur' = [cur EXCEPT !.events = more] /\ Len(cur'.events) <= MaxEvents
        /\ held' = held
    BY <1>3 DEF Ingest
  <2>2. /\ more \in Seq(EventKinds) /\ Extends(more, cur.events) /\ DigestsDistinct(more)
    BY <1>1, IngestIs DEF CurWell
  <2> HIDE DEF more
  <2>3. cur' = [events |-> more, rules |-> cur.rules]
    BY <1>1, <2>1 DEF CurWell
  <2>4. cur'.events = more /\ cur'.rules = cur.rules
    BY <2>3
  <2>5. ASSUME NEW r \in cur.rules PROVE Cardinality(FoundIds(more, r.evidence)) >= MinDepth
    <3> DEFINE p == Cardinality(FoundIds(cur.events, r.evidence))
               q == Cardinality(FoundIds(more, r.evidence))
    <3>1. p \in Nat /\ q \in Nat /\ p <= q
      BY <1>1, <2>2, FoundAre, FoundGrows
    <3>2. p >= MinDepth
      BY <1>1 DEF CurWell
    <3> HIDE DEF p, q
    <3>3. q >= MinDepth
      BY <3>1, <3>2, CurationAssumption
    <3> QED
      BY <3>3 DEF q
  <2>6. CurWell([events |-> more, rules |-> cur.rules])
    BY <2>1, <2>2, <2>4, <2>5 DEF CurWell
  <2>7. HeldWell(held, more)
    BY <1>1, <2>2, HeldGrows
  <2> QED
    BY <2>1, <2>3, <2>4, <2>6, <2>7 DEF CurationInv
<1>4. CASE Reflect
  BY <1>1, <1>4, ReflectedWell, ValidateSteps DEF Reflect
<1>5. ASSUME NEW cands \in RawCandidates, ValidateOwn(cands) PROVE CurationInv'
  BY <1>5, RawWell, ValidateSteps DEF ValidateOwn
<1>6. ASSUME NEW at \in 1..2, CurateGuarded(at) PROVE CurationInv'
  <2> DEFINE next == RunCurateGuarded(cur, held, at)
  <2>1. cur' = next /\ held' = held
    BY <1>6 DEF CurateGuarded
  <2>2. CurWell(next) /\ next.events = cur.events
    BY <1>1, CurateIs
  <2> HIDE DEF next
  <2> QED
    BY <1>1, <2>1, <2>2 DEF CurationInv
<1> QED
  BY <1>2, <1>3, <1>4, <1>5, <1>6 DEF CurationNext

LEMMA CurationFollows == CurationInv => CurationTypeOK /\ CurationIsRight
<1> SUFFICES ASSUME CurationInv PROVE CurationTypeOK /\ CurationIsRight
  OBVIOUS
<1>1. /\ CurWell(cur) /\ HeldWell(held, cur.events) /\ cur.events \in Seq(EventKinds)
      /\ DigestsDistinct(cur.events) /\ Len(cur.events) \in Nat
      /\ DOMAIN cur.events = 1..Len(cur.events)
  BY DEF CurationInv, CurWell
<1>2. CurationTypeOK
  BY <1>1 DEF CurWell, HeldWell, CurationTypeOK
<1>3. BatchesAreStoredOnce
  <2> SUFFICES ASSUME NEW b \in Batches, NoDuplicates(b)
               PROVE  RunIngest(RunIngest(cur.events, b), b) = RunIngest(cur.events, b)
    BY DEF BatchesAreStoredOnce, NoDuplicates
  <2> DEFINE more == RunIngest(cur.events, b)
  <2>1. /\ more \in Seq(EventKinds)
        /\ \A i \in 1..Len(b) : Stores(more, EventDigest(b[i], i))
    BY <1>1, IngestIs
  <2> HIDE DEF more
  <2>2. RunIngest(more, b) = more
    BY <2>1, StoredAlready
  <2> QED
    BY <2>2 DEF more
<1>4. EventsAreDistinct
  <2>1. ASSUME NEW b \in Batches
        PROVE  LET new == {i \in DOMAIN RunIngest(cur.events, b) : i > Len(cur.events)}
                   at(i) == RunIngest(cur.events, b)[i]
               IN \A i, j \in new : i # j => at(i).dedupe # at(j).dedupe
    <3> DEFINE more == RunIngest(cur.events, b)
    <3>1. more \in Seq(EventKinds) /\ NewDistinct(cur.events, more)
      BY <1>1, IngestIs
    <3>2. DOMAIN more = 1..Len(more)
      BY <3>1
    <3> HIDE DEF more
    <3>3. \A i, j \in {m \in DOMAIN more : m > Len(cur.events)} :
            i # j => more[i].dedupe # more[j].dedupe
      BY <3>1, <3>2 DEF NewDistinct, NewOf
    <3> QED
      BY <3>3 DEF more
  <2> QED
    BY <1>1, <2>1 DEF EventsAreDistinct, DigestsDistinct
<1>5. SelectionIsSettled
  BY <1>1, SettledIs DEF SelectionIsSettled
<1>6. RulesHaveEvidence
  BY <1>1 DEF RulesHaveEvidence, CurWell
<1>7. RankingOnlyReorders
  BY RankedIs DEF RankingOnlyReorders
<1> QED
  BY <1>2, <1>3, <1>4, <1>5, <1>6, <1>7 DEF CurationIsRight

\* Whatever is ingested, reflected, validated and curated, in whatever order and
\* however late what was validated is applied: no request stores an event twice nor
\* any batch without duplicates of its own when it is sent again, a conflict
\* has one winner and it has the most evidence, every rule rests on stored evidence,
\* and ranking a context only reorders its first rules.
THEOREM CurationRight == CurationSpec => [](CurationTypeOK /\ CurationIsRight)
<1>1. CurationInv => CurationTypeOK /\ CurationIsRight
  BY CurationFollows
<1> QED
  BY <1>1, CurationInits, CurationSteps, PTL DEF CurationSpec

-----------------------------------------------------------------------------
(* ScopeRecords                                                             *)

RecordFields ==
  {"profile", "edges", "beliefs", "signals", "plans", "decisions", "snapshots", "audit"}
HasFields(s) == s = [x \in RecordFields |-> s[x]]
SameFields(s, t, F) == HasFields(t) /\ \A x \in RecordFields \ F : t[x] = s[x]

\* What a change of one field leaves.
LEMMA FieldSet ==
  ASSUME NEW s, HasFields(s), NEW f \in RecordFields, NEW v
  PROVE  SameFields(s, [s EXCEPT ![f] = v], {f}) /\ [s EXCEPT ![f] = v][f] = v
BY DEF HasFields, SameFields

\* What each operation changes of the records.
LEMMA ProfileIsSet ==
  ASSUME NEW s, HasFields(s), NEW r
  PROVE  SameFields(s, LearnerProfileUpdate(s, r), {"profile"})
<1> QED
  BY FieldSet DEF LearnerProfileUpdate, RecordFields

LEMMA EdgesAreSet ==
  ASSUME NEW s, HasFields(s), NEW r
  PROVE  SameFields(s, IdentityGraphUpdate(s, r), {"edges"})
<1> QED
  BY FieldSet DEF IdentityGraphUpdate, RecordFields

LEMMA PlansAreSet ==
  ASSUME NEW s, HasFields(s), NEW r
  PROVE  SameFields(s, CurriculumPlanUpdate(s, r), {"plans"})
<1> QED
  BY FieldSet DEF CurriculumPlanUpdate, RecordFields

LEMMA DecisionsAreSet ==
  ASSUME NEW s, HasFields(s), NEW r
  PROVE  SameFields(s, PolicyDecisionUpdate(s, r), {"decisions", "audit"})
<1> DEFINE n == PluginDecided(r)
           o == At(s.decisions, r.id, [outcome |-> n.outcome, reasons |-> {}])
           d == [outcome |-> StrictestOutcome(o.outcome, n.outcome),
                 reasons |-> o.reasons \cup n.reasons]
           v == Put(s.decisions, r.id, d)
           u == s.audit \cup {<<"decision", r.id, d.outcome>>}
<1>1. PolicyDecisionUpdate(s, r) = [s EXCEPT !["decisions"] = v, !["audit"] = u]
  BY DEF PolicyDecisionUpdate
<1> HIDE DEF v, u
<1> QED
  BY <1>1 DEF HasFields, SameFields, RecordFields

LEMMA SnapshotsAreSet ==
  ASSUME NEW s, HasFields(s), NEW r
  PROVE  SameFields(s, CurriculumRecommendation(s, r), {"snapshots", "audit"})
<1> DEFINE v == s.snapshots \cup {<<r, Recommended(s, r)>>}
           u == s.audit \cup {<<"recommend", r.at,
                                IF Recommended(s, r) # {} THEN "allow" ELSE "review">>}
<1>1. CurriculumRecommendation(s, r) = [s EXCEPT !["snapshots"] = v, !["audit"] = u]
  BY DEF CurriculumRecommendation
<1> HIDE DEF v, u
<1> QED
  BY <1>1 DEF HasFields, SameFields, RecordFields

LEMMA SignalsAreSet ==
  ASSUME NEW s, HasFields(s), NEW r
  PROVE  /\ SameFields(s, UpsertSignal(s, r), {"signals"})
         /\ UpsertSignal(s, r).signals \subseteq s.signals \cup {r}
<1> DEFINE v == {x \in s.signals : <<x.via, x.id>> # <<r.via, r.id>>} \cup {r}
<1>1. CASE r.via = "update"
  BY <1>1 DEF UpsertSignal, SameFields
<1>2. CASE r.via # "update"
  <2>1. UpsertSignal(s, r) = [s EXCEPT !["signals"] = v]
    BY <1>2 DEF UpsertSignal
  <2>2. v \subseteq s.signals \cup {r}
    OBVIOUS
  <2> HIDE DEF v
  <2>3. /\ SameFields(s, [s EXCEPT !["signals"] = v], {"signals"})
        /\ [s EXCEPT !["signals"] = v]["signals"] = v
    BY FieldSet DEF RecordFields
  <2> QED
    BY <2>1, <2>2, <2>3
<1> QED
  BY <1>1, <1>2

LEMMA BeliefsAreSet ==
  ASSUME NEW s, HasFields(s), NEW r
  PROVE  LET t == MisconceptionSignal(s, r)
         IN /\ SameFields(s, t, {"signals", "beliefs", "audit"})
            /\ t.signals \subseteq s.signals \cup {r}
            /\ t.beliefs = Put(s.beliefs, r.key, NextBelief(s, r))
<1> DEFINE a == UpsertSignal(s, r)
           b == Put(s.beliefs, r.key, NextBelief(s, r))
           c == [a EXCEPT !["beliefs"] = b]
<1>1. SameFields(s, a, {"signals"}) /\ a.signals \subseteq s.signals \cup {r}
  BY SignalsAreSet
<1>2. a.beliefs = s.beliefs
  BY <1>1 DEF SameFields, RecordFields
<1>3. MisconceptionSignal(s, r) = AuditedSignal(c, s, r)
  BY <1>2 DEF MisconceptionSignal
<1> HIDE DEF a, b
<1>4. SameFields(a, c, {"beliefs"}) /\ c["beliefs"] = b
  BY <1>1, FieldSet DEF SameFields, RecordFields
<1>5. c.beliefs = b /\ c.signals = a.signals
  BY <1>4 DEF SameFields, RecordFields
<1>6. SameFields(s, c, {"signals", "beliefs"})
  BY <1>1, <1>4 DEF SameFields
<1> HIDE DEF c
<1>7. SameFields(c, AuditedSignal(c, s, r), {"audit"})
  <2>1. \A v : SameFields(c, [c EXCEPT !["audit"] = v], {"audit"})
    BY <1>6, FieldSet DEF SameFields, RecordFields
  <2>2. SameFields(c, c, {"audit"})
    BY <1>6 DEF SameFields
  <2> QED
    BY <2>1, <2>2 DEF AuditedSignal
<1>8. /\ AuditedSignal(c, s, r).beliefs = b
      /\ AuditedSignal(c, s, r).signals \subseteq s.signals \cup {r}
  BY <1>1, <1>5, <1>7 DEF SameFields, RecordFields
<1>9. SameFields(s, AuditedSignal(c, s, r), {"signals", "beliefs", "audit"})
  BY <1>6, <1>7 DEF SameFields
<1> QED
  BY <1>3, <1>8, <1>9 DEF b

-----------------------------------------------------------------------------
\* A request that is answered is the last of those that were.
AnyRequest == UNION {RecordRequests[i] : i \in DOMAIN RecordRequests}
ToldNext(t, u, r) ==
  LET n == Len(t) + 1
  IN /\ n \in Nat /\ n \notin DOMAIN t /\ DOMAIN u = DOMAIN t \cup {n} /\ u[n] = r
     /\ \A i \in DOMAIN t : i \in Nat /\ i < n /\ u[i] = t[i]
LEMMA ToldFollows ==
  ASSUME NEW t \in Seq(AnyRequest), NEW r \in AnyRequest
  PROVE  ToldNext(t, Append(t, r), r)
BY DEF ToldNext

LEMMA RequestsAreApart ==
  /\ \A r \in ProfileUpdates :
       r \in AnyRequest /\ r \notin SignalUpdates /\ r \notin PlanUpdates /\ r \notin DecisionUpdates
  /\ \A r \in SignalUpdates :
       r \in AnyRequest /\ r \notin ProfileUpdates /\ r \notin PlanUpdates /\ r \notin DecisionUpdates
  /\ \A r \in PlanUpdates :
       r \in AnyRequest /\ r \notin SignalUpdates /\ r \notin ProfileUpdates /\ r \notin DecisionUpdates
  /\ \A r \in DecisionUpdates :
       r \in AnyRequest /\ r \notin SignalUpdates /\ r \notin ProfileUpdates /\ r \notin PlanUpdates
  /\ \A r \in EdgeUpdates \cup Recommends :
       /\ r \in AnyRequest /\ r \notin ProfileUpdates /\ r \notin SignalUpdates
       /\ r \notin PlanUpdates /\ r \notin DecisionUpdates
<1>1. /\ DOMAIN RecordRequests = 1..6
      /\ RecordRequests[1] = ProfileUpdates /\ RecordRequests[2] = EdgeUpdates
      /\ RecordRequests[3] = SignalUpdates /\ RecordRequests[4] = PlanUpdates
      /\ RecordRequests[5] = DecisionUpdates /\ RecordRequests[6] = Recommends
  BY DEF RecordRequests
<1>2. \A i \in 1..6 : RecordRequests[i] \subseteq AnyRequest
  BY <1>1 DEF AnyRequest
<1>3. \A i, j \in 1..6 : i # j => RecordRequests[i] \cap RecordRequests[j] = {}
  BY <1>1, ScopeRecordsAssumption
<1>4. /\ ProfileUpdates \cap SignalUpdates = {} /\ ProfileUpdates \cap PlanUpdates = {}
      /\ ProfileUpdates \cap DecisionUpdates = {} /\ SignalUpdates \cap PlanUpdates = {}
      /\ SignalUpdates \cap DecisionUpdates = {} /\ PlanUpdates \cap DecisionUpdates = {}
  BY <1>1, <1>3
<1>5. /\ EdgeUpdates \cap ProfileUpdates = {} /\ EdgeUpdates \cap SignalUpdates = {}
      /\ EdgeUpdates \cap PlanUpdates = {} /\ EdgeUpdates \cap DecisionUpdates = {}
  BY <1>1, <1>3
<1>6. /\ Recommends \cap ProfileUpdates = {} /\ Recommends \cap SignalUpdates = {}
      /\ Recommends \cap PlanUpdates = {} /\ Recommends \cap DecisionUpdates = {}
  BY <1>1, <1>3
<1>7. /\ ProfileUpdates \subseteq AnyRequest /\ EdgeUpdates \subseteq AnyRequest
      /\ SignalUpdates \subseteq AnyRequest /\ PlanUpdates \subseteq AnyRequest
      /\ DecisionUpdates \subseteq AnyRequest /\ Recommends \subseteq AnyRequest
  BY <1>1, <1>2
<1> QED
  BY <1>4, <1>5, <1>6, <1>7

\* The requests of a kind that were told, after one more.
LEMMA ToldMore ==
  ASSUME NEW r, ToldNext(told, told', r), NEW S
  PROVE  ToldOf(S)' = IF r \in S THEN ToldOf(S) \cup {Len(told) + 1} ELSE ToldOf(S)
BY DEF ToldNext, ToldOf

-----------------------------------------------------------------------------
\* What the profile has of an attribute is the newest of what it was given.
EntryAt(t, i, a) == [at |-> t[i].at, value |-> t[i].value[a]]
NotOlderAt(t, i, j, a) == NotOlder(EntryAt(t, i, a), EntryAt(t, j, a))
GivenAt(a) ==
  {i \in ToldOf(ProfileUpdates) :
     a \in told[i].provided \/ \A j \in ToldOf(ProfileUpdates) : i <= j}
ProfileInv ==
  IF ToldOf(ProfileUpdates) = {} THEN rec.profile = <<>>
  ELSE /\ rec.profile # <<>>
       /\ \A a \in Attribute \ Overwritten : \E i \in GivenAt(a) :
            /\ rec.profile[1].value[a] = told[i].value[a]
            /\ rec.profile[1].truth[a].at = told[i].at
            /\ \A j \in GivenAt(a) : NotOlderAt(told, i, j, a)

LEMMA ProfileInvIs == ProfileInv => ProfileNewestWins
BY DEF ProfileInv, ProfileNewestWins, GivenAt, EntryAt, NotOlderAt

LEMMA ProfileUpdated ==
  ASSUME NEW s, HasFields(s), NEW r
  PROVE  LET p == IF s.profile = <<>> THEN SeedProfile(r) ELSE s.profile[1]
             m == MergeLearnerProfile(p, r, s.profile = <<>>)
             t == LearnerProfileUpdate(s, r)
         IN t.profile # <<>> /\ t.profile[1].value = m.value /\ t.profile[1].truth = m.truth
<1> DEFINE p == IF s.profile = <<>> THEN SeedProfile(r) ELSE s.profile[1]
           m == MergeLearnerProfile(p, r, s.profile = <<>>)
           n == IF m = p THEN p ELSE [m EXCEPT !.version = @ + 1]
<1>1. n.value = m.value /\ n.truth = m.truth
  <2>1. m = [version |-> m.version, at |-> m.at, evidence |-> m.evidence, value |-> m.value,
             truth |-> m.truth, lineage |-> m.lineage]
    BY DEF MergeLearnerProfile
  <2> HIDE DEF m, p
  <2> QED
    BY <2>1
<1>2. LearnerProfileUpdate(s, r) = [s EXCEPT !["profile"] = <<n>>]
  BY DEF LearnerProfileUpdate
<1> HIDE DEF n
<1>3. [s EXCEPT !["profile"] = <<n>>]["profile"] = <<n>>
  <2>1. \A v : [s EXCEPT !["profile"] = v]["profile"] = v
    BY DEF HasFields, RecordFields
  <2> QED
    BY <2>1
<1> QED
  BY <1>1, <1>2, <1>3

\* Of two entries one is not older; what is not older than a second is not older
\* than a third that the second is not older than.
LEMMA NotOlderIs ==
  ASSUME NEW t, NEW D, NEW a, \A i \in D : t[i].at \in Int /\ t[i].value[a] \in Int
  PROVE  /\ \A i \in D : NotOlderAt(t, i, i, a)
         /\ \A i, j \in D : NotOlderAt(t, i, j, a) \/ NotOlderAt(t, j, i, a)
         /\ \A i, j, k \in D :
              NotOlderAt(t, i, j, a) /\ NotOlderAt(t, j, k, a) => NotOlderAt(t, i, k, a)
BY DEF NotOlder, NotOlderAt, EntryAt

LEMMA ProfileGiven ==
  ASSUME HasFields(rec), ProfileInv, NEW r \in ProfileUpdates, ToldNext(told, told', r),
         rec'.profile = LearnerProfileUpdate(rec, r).profile
  PROVE  ProfileInv'
<1> DEFINE T == ToldOf(ProfileUpdates)
           n == Len(told) + 1
           p == IF rec.profile = <<>> THEN SeedProfile(r) ELSE rec.profile[1]
           m == MergeLearnerProfile(p, r, rec.profile = <<>>)
<1>1. /\ T' = T \cup {n} /\ n \in Nat /\ told'[n] = r /\ n \notin T
      /\ \A i \in T : told'[i] = told[i] /\ i \in Nat /\ i < n /\ told[i] \in ProfileUpdates
  BY ToldMore DEF ToldNext, ToldOf
<1>2. rec'.profile # <<>> /\ rec'.profile[1].value = m.value /\ rec'.profile[1].truth = m.truth
  BY ProfileUpdated
<1>5. SUFFICES ASSUME NEW a \in Attribute \ Overwritten
               PROVE  \E i \in GivenAt(a)' :
                        /\ rec'.profile[1].value[a] = told'[i].value[a]
                        /\ rec'.profile[1].truth[a].at = told'[i].at
                        /\ \A j \in GivenAt(a)' : NotOlderAt(told', i, j, a)
  BY <1>1, <1>2 DEF ProfileInv
<1> DEFINE old == [at |-> p.truth[a].at, value |-> p.value[a]]
           new == [at |-> r.at, value |-> r.value[a]]
<1>3. \A i \in T \cup {n} : told'[i].at \in Int /\ told'[i].value[a] \in Int
  BY <1>1, ScopeRecordsAssumption
<1>4. /\ \A i \in T \cup {n} : NotOlderAt(told', i, i, a)
      /\ \A i, j \in T \cup {n} : NotOlderAt(told', i, j, a) \/ NotOlderAt(told', j, i, a)
      /\ \A i, j, k \in T \cup {n} : NotOlderAt(told', i, j, a) /\ NotOlderAt(told', j, k, a)
           => NotOlderAt(told', i, k, a)
  BY <1>3, NotOlderIs
<1>6. /\ m.value[a] = m.truth[a].value
      /\ rec.profile = <<>> => m.truth[a] = new
      /\ rec.profile # <<>> /\ a \in r.provided => m.truth[a] = NewerOf(new, old)
      /\ rec.profile # <<>> /\ a \notin r.provided => m.truth[a] = old
  <2> HIDE DEF p
  <2> QED
    BY DEF MergeLearnerProfile
<1>7. EntryAt(told', n, a) = new
  BY <1>1 DEF EntryAt
<1> HIDE DEF m
<1>8. CASE T = {}
  <2>1. rec.profile = <<>>
    BY <1>8 DEF ProfileInv
  <2>2. GivenAt(a)' = {n}
    BY <1>1, <1>8 DEF GivenAt
  <2>3. m.value[a] = r.value[a] /\ m.truth[a].at = r.at
    BY <1>6, <2>1
  <2> QED
    BY <1>1, <1>2, <1>4, <2>2, <2>3
<1>9. CASE T # {}
  <2>1. rec.profile # <<>> /\ p = rec.profile[1]
    BY <1>9 DEF ProfileInv
  <2>2. PICK k \in GivenAt(a) :
          /\ rec.profile[1].value[a] = told[k].value[a]
          /\ rec.profile[1].truth[a].at = told[k].at
          /\ \A j \in GivenAt(a) : NotOlderAt(told, k, j, a)
    BY <1>9 DEF ProfileInv
  <2>3. GivenAt(a) \subseteq T /\ k \in T
    BY DEF GivenAt
  <2>4. old = EntryAt(told', k, a)
    BY <1>1, <2>1, <2>2, <2>3 DEF EntryAt
  <2>5. /\ \A i \in T : i \in GivenAt(a)' <=> i \in GivenAt(a)
        /\ n \in GivenAt(a)' <=> a \in r.provided
    <3>1. \A i \in T : (\A j \in T \cup {n} : i <= j) <=> (\A j \in T : i <= j)
      BY <1>1
    <3>2. ~(\A j \in T \cup {n} : n <= j)
      BY <1>1, <1>9
    <3> QED
      BY <1>1, <3>1, <3>2 DEF GivenAt
  <2>6. GivenAt(a)' \subseteq T \cup {n}
    BY <1>1 DEF GivenAt
  <2>7. \A j \in GivenAt(a)' \ {n} : NotOlderAt(told', k, j, a)
    <3>1. \A j \in T : EntryAt(told', j, a) = EntryAt(told, j, a)
      BY <1>1 DEF EntryAt
    <3> QED
      BY <2>2, <2>3, <2>5, <2>6, <3>1 DEF NotOlderAt
  <2>8. NotOlder(new, old) <=> NotOlderAt(told', n, k, a)
    BY <1>7, <2>4 DEF NotOlderAt
  <2> HIDE DEF T, n, old
  <2>9. CASE a \in r.provided /\ NotOlder(new, old)
    <3>1. m.value[a] = r.value[a] /\ m.truth[a].at = r.at
      BY <1>6, <2>1, <2>9 DEF NewerOf
    <3>2. \A j \in GivenAt(a)' : NotOlderAt(told', n, j, a)
      BY <1>4, <2>3, <2>6, <2>7, <2>8, <2>9
    <3>3. n \in GivenAt(a)'
      BY <2>5, <2>9
    <3> QED
      BY <1>1, <1>2, <3>1, <3>2, <3>3
  <2>10. CASE ~(a \in r.provided /\ NotOlder(new, old))
    <3>1. m.truth[a] = old
      BY <1>6, <2>1, <2>10 DEF NewerOf
    <3>2. m.value[a] = told'[k].value[a] /\ m.truth[a].at = told'[k].at
      BY <1>6, <2>4, <3>1 DEF EntryAt
    <3>3. \A j \in GivenAt(a)' : NotOlderAt(told', k, j, a)
      BY <1>4, <2>3, <2>5, <2>7, <2>8, <2>10
    <3>4. k \in GivenAt(a)'
      BY <2>3, <2>5
    <3> QED
      BY <1>2, <3>2, <3>3, <3>4
  <2> QED
    BY <2>9, <2>10
<1> QED
  BY <1>8, <1>9

LEMMA ProfileKept ==
  ASSUME ProfileInv, rec'.profile = rec.profile,
         UNCHANGED told \/ \E r : r \notin ProfileUpdates /\ ToldNext(told, told', r)
  PROVE  ProfileInv'
<1>1. ToldOf(ProfileUpdates)' = ToldOf(ProfileUpdates)
  BY ToldMore DEF ToldOf
<1>2. \A i \in ToldOf(ProfileUpdates) : told'[i] = told[i]
  BY DEF ToldNext, ToldOf
<1>3. \A a : GivenAt(a)' = GivenAt(a) /\ GivenAt(a) \subseteq ToldOf(ProfileUpdates)
  BY <1>1, <1>2 DEF GivenAt
<1>4. \A i, j \in ToldOf(ProfileUpdates) : \A a : NotOlderAt(told', i, j, a) <=> NotOlderAt(told, i, j, a)
  BY <1>2 DEF EntryAt, NotOlderAt
<1> QED
  BY <1>1, <1>2, <1>3, <1>4 DEF ProfileInv

-----------------------------------------------------------------------------
\* A misconception has counted the first of the signals of each id.
SentFor(k) == {i \in ToldOf(SignalUpdates) : told[i].key = k}
BeliefFields ==
  {"harmful", "corrected", "status", "confidence", "signals", "evidence", "patterns"}
BeliefIs(b, F) ==
  /\ b = [x \in BeliefFields |-> b[x]] /\ IsFiniteSet(F)
  /\ b.harmful = Cardinality({r \in F : r.signal = "harmful"})
  /\ b.corrected = Cardinality({r \in F : r.signal = "correction"})
  /\ b.evidence = UNION {r.evidence : r \in F}
  /\ b.status = "suppressed" <=> \E r \in F : r.suppress
  /\ b.status = "resolved" => b.corrected >= b.harmful /\ b.harmful > 0
  /\ IsFiniteSet(b.signals) /\ b.confidence \in 0..100
BeliefInv ==
  /\ \A k : SentFor(k) # {} => k \in DOMAIN rec.beliefs
  /\ \A k \in DOMAIN rec.beliefs :
       /\ BeliefIs(rec.beliefs[k], FirstSignals(k))
       /\ rec.beliefs[k].signals = {told[i].id : i \in SentFor(k)}

LEMMA BeliefInvIs == BeliefInv => SignalsCountOnce
BY DEF BeliefInv, BeliefIs, SignalsCountOnce

\* The signals of a misconception after one more answer.
LEMMA SentMore ==
  ASSUME NEW r, ToldNext(told, told', r), NEW k
  PROVE  LET n == Len(told) + 1
         IN /\ SentFor(k)' = IF r \in SignalUpdates /\ r.key = k THEN SentFor(k) \cup {n}
                             ELSE SentFor(k)
            /\ n \in Nat /\ n \notin SentFor(k) /\ told'[n] = r
            /\ \A i \in SentFor(k) : told'[i] = told[i] /\ i \in Nat /\ i < n
<1> DEFINE n == Len(told) + 1
<1>1. ToldOf(SignalUpdates)' = IF r \in SignalUpdates THEN ToldOf(SignalUpdates) \cup {n}
                               ELSE ToldOf(SignalUpdates)
  BY ToldMore
<1>2. /\ n \in Nat /\ n \notin ToldOf(SignalUpdates) /\ told'[n] = r
      /\ \A i \in ToldOf(SignalUpdates) : told'[i] = told[i] /\ i \in Nat /\ i < n
  BY DEF ToldNext, ToldOf
<1> HIDE DEF n
<1> QED
  BY <1>1, <1>2 DEF SentFor, n

LEMMA FirstMore ==
  ASSUME NEW r, ToldNext(told, told', r), NEW k
  PROVE  FirstSignals(k)' =
           IF r \in SignalUpdates /\ r.key = k /\ \A i \in SentFor(k) : told[i].id # r.id
           THEN With(FirstSignals(k), r) ELSE FirstSignals(k)
<1> DEFINE n == Len(told) + 1
           First(t, S) == {i \in S : \A j \in S : t[j].id = t[i].id => i <= j}
<1>1. \A x : FirstSignals(x) = {told[i] : i \in First(told, SentFor(x))}
  BY DEF FirstSignals, SentFor
<1>2. FirstSignals(k)' = {told'[i] : i \in First(told', SentFor(k)')}
  BY DEF FirstSignals, SentFor
<1>3. /\ n \in Nat /\ n \notin SentFor(k) /\ told'[n] = r
      /\ \A i \in SentFor(k) : told'[i] = told[i] /\ i \in Nat /\ i < n
  BY SentMore
<1>4. SentFor(k)' = IF r \in SignalUpdates /\ r.key = k THEN SentFor(k) \cup {n} ELSE SentFor(k)
  BY SentMore
<1> HIDE DEF n
<1>5. CASE ~(r \in SignalUpdates /\ r.key = k)
  <2>1. First(told', SentFor(k)) = First(told, SentFor(k))
    BY <1>3
  <2> HIDE DEF First
  <2>2. \A i \in First(told, SentFor(k)) : told'[i] = told[i]
    BY <1>3 DEF First
  <2> QED
    BY <1>1, <1>2, <1>4, <1>5, <2>1, <2>2
<1>6. CASE r \in SignalUpdates /\ r.key = k /\ \A i \in SentFor(k) : told[i].id # r.id
  <2>1. First(told', SentFor(k) \cup {n}) = First(told, SentFor(k)) \cup {n}
    BY <1>3, <1>6
  <2>2. \A i \in First(told, SentFor(k)) : told'[i] = told[i]
    BY <1>3
  <2> HIDE DEF First
  <2> DEFINE A == First(told, SentFor(k))
  <2>3. FirstSignals(k)' = {told'[i] : i \in A \cup {n}} /\ FirstSignals(k) = {told[i] : i \in A}
    BY <1>1, <1>2, <1>4, <1>6, <2>1
  <2> HIDE DEF A
  <2>4. {told'[i] : i \in A \cup {n}} = {told[i] : i \in A} \cup {r}
    BY <1>3, <2>2 DEF A
  <2> QED
    BY <1>6, <2>3, <2>4 DEF With
<1>7. CASE r \in SignalUpdates /\ r.key = k /\ \E i \in SentFor(k) : told[i].id = r.id
  <2>1. First(told', SentFor(k) \cup {n}) = First(told, SentFor(k))
    BY <1>3, <1>7
  <2>2. \A i \in First(told, SentFor(k)) : told'[i] = told[i]
    BY <1>3
  <2> HIDE DEF First
  <2> QED
    BY <1>1, <1>2, <1>4, <1>7, <2>1, <2>2
<1>8. (\A i \in SentFor(k) : told[i].id # r.id) \/ (\E i \in SentFor(k) : told[i].id = r.id)
  OBVIOUS
<1> HIDE DEF First
<1> QED
  BY <1>5, <1>6, <1>7, <1>8, Zenon

-----------------------------------------------------------------------------
\* Percentages, and the shift of a confidence.
LEMMA PercentIs == ASSUME NEW x \in Int PROVE Percent(x) \in 0..100
<1> DEFINE y == IF 100 < x THEN 100 ELSE x
<1>1. Min({100, x}) = y /\ y \in Int /\ y <= 100
  BY MinOfTwo
<1> HIDE DEF y
<1>2. Max({0, y}) = IF 0 > y THEN 0 ELSE y
  BY <1>1, MaxOfTwo
<1> QED
  BY <1>1, <1>2 DEF Percent

LEMMA ShiftIs ==
  ASSUME NEW r \in SignalUpdates, NEW n \in Nat, r.signal = "harmful" => n > 0
  PROVE  ConfidenceShift(r, n) \in Int
<1> DEFINE S == {limit \in {1, 2, 3, 5} : n >= limit}
<1>1. CASE r.signal # "harmful"
  BY <1>1 DEF ConfidenceShift
<1>2. CASE r.signal = "harmful"
  <2>1. S = {1} \/ S = {1, 2} \/ S = {1, 2, 3} \/ S = {1, 2, 3, 5}
    BY <1>2
  <2> HIDE DEF S
  <2>2. IsFiniteSet({1}) /\ Cardinality({1}) = 1
    BY FS_Singleton
  <2>3. IsFiniteSet({1, 2}) /\ Cardinality({1, 2}) = 2
    <3>1. {1, 2} = {1} \cup {2} /\ 2 \notin {1}
      OBVIOUS
    <3>2. IsFiniteSet({1} \cup {2}) /\ Cardinality({1} \cup {2}) = Cardinality({1}) + 1
      BY <2>2, <3>1, FS_AddElement
    <3> QED
      BY <2>2, <3>1, <3>2
  <2>4. IsFiniteSet({1, 2, 3}) /\ Cardinality({1, 2, 3}) = 3
    <3>1. {1, 2, 3} = {1, 2} \cup {3} /\ 3 \notin {1, 2}
      OBVIOUS
    <3>2. IsFiniteSet({1, 2} \cup {3})
          /\ Cardinality({1, 2} \cup {3}) = Cardinality({1, 2}) + 1
      BY <2>3, <3>1, FS_AddElement
    <3> QED
      BY <2>3, <3>1, <3>2
  <2>5. Cardinality({1, 2, 3, 5}) = 4
    <3>1. {1, 2, 3, 5} = {1, 2, 3} \cup {5} /\ 5 \notin {1, 2, 3}
      OBVIOUS
    <3>2. Cardinality({1, 2, 3} \cup {5}) = Cardinality({1, 2, 3}) + 1
      BY <2>4, <3>1, FS_AddElement
    <3> QED
      BY <2>4, <3>1, <3>2
  <2>6. MisconceptionDecayStage(n) = Cardinality(S)
    BY DEF MisconceptionDecayStage, S
  <2>7. MisconceptionDecayStage(n) \in 1..4
    BY <2>1, <2>2, <2>3, <2>4, <2>5, <2>6
  <2>8. \A i \in 1..4 : DecayByStage[i] \in Int
    BY DEF DecayByStage
  <2> QED
    BY <1>2, <2>7, <2>8 DEF ConfidenceShift
<1> QED
  BY <1>1, <1>2

LEMMA NewBeliefIs ==
  ASSUME NEW r \in SignalUpdates
  PROVE  BeliefIs(NewBelief(r), {r}) /\ NewBelief(r).signals = {r.id}
<1> DEFINE b == NewBelief(r)
<1>0. /\ r.signal \in {"harmful", "correction", "helpful"} /\ r.suppress \in BOOLEAN
  BY ScopeRecordsAssumption
<1>1. /\ b = [x \in BeliefFields |-> b[x]]
      /\ b.harmful = (IF r.signal = "harmful" THEN 1 ELSE 0)
      /\ b.corrected = (IF r.signal = "correction" THEN 1 ELSE 0)
      /\ b.status = (IF r.suppress THEN "suppressed" ELSE "active")
      /\ b.confidence = (IF r.signal = "harmful" THEN 35 ELSE 65)
      /\ b.signals = {r.id} /\ b.evidence = r.evidence
  BY DEF NewBelief, BeliefFields
<1> HIDE DEF b
<1>2. /\ IsFiniteSet({r}) /\ Cardinality({r}) = 1 /\ IsFiniteSet({r.id}) /\ Cardinality({}) = 0
  BY FS_Singleton, FS_EmptySet
<1>3. \A t : {x \in {r} : x.signal = t} = IF r.signal = t THEN {r} ELSE {}
  OBVIOUS
<1>4. /\ Cardinality({x \in {r} : x.signal = "harmful"}) = IF r.signal = "harmful" THEN 1 ELSE 0
      /\ Cardinality({x \in {r} : x.signal = "correction"}) = IF r.signal = "correction" THEN 1 ELSE 0
  BY <1>2, <1>3
<1>5. UNION {x.evidence : x \in {r}} = r.evidence
  OBVIOUS
<1>6. b.status = "suppressed" <=> \E x \in {r} : x.suppress
  BY <1>0, <1>1
<1>7. b.status # "resolved" /\ b.confidence \in 0..100
  BY <1>1
<1>8. /\ b.harmful = Cardinality({x \in {r} : x.signal = "harmful"})
      /\ b.corrected = Cardinality({x \in {r} : x.signal = "correction"})
      /\ b.evidence = UNION {x.evidence : x \in {r}}
      /\ IsFiniteSet(b.signals) /\ IsFiniteSet({r})
  BY <1>1, <1>2, <1>4, <1>5
<1>9. BeliefIs(b, {r})
  BY <1>1, <1>6, <1>7, <1>8 DEF BeliefIs
<1> QED
  BY <1>1, <1>9 DEF b

\* The belief of which a signal new to it is counted.
LEMMA CountSignalIs ==
  ASSUME NEW b, NEW F, NEW r \in SignalUpdates, BeliefIs(b, F), r \notin F
  PROVE  BeliefIs(CountSignal(b, r), With(F, r)) /\ CountSignal(b, r).signals = b.signals \cup {r.id}
<1> DEFINE c == CountSignal(b, r)
           h == b.harmful + IF r.signal = "harmful" THEN 1 ELSE 0
           d == b.corrected + IF r.signal = "correction" THEN 1 ELSE 0
           v == Percent(b.confidence + ConfidenceShift(r, h))
           N(t, G) == Cardinality({x \in G : x.signal = t})
           G == F \cup {r}
<1>0. /\ r.signal \in {"harmful", "correction", "helpful"} /\ r.suppress \in BOOLEAN
  BY ScopeRecordsAssumption
<1>1. /\ c = [x \in BeliefFields |-> c[x]]
      /\ c.harmful = h /\ c.corrected = d
      /\ c.status = (IF r.suppress \/ b.status = "suppressed" THEN "suppressed"
                     ELSE IF d >= h /\ h > 0 THEN "resolved" ELSE "active")
      /\ c.confidence = (IF r.signal = "harmful" THEN Max({5, v}) ELSE v)
      /\ c.signals = b.signals \cup {r.id} /\ c.evidence = b.evidence \cup r.evidence
  BY DEF CountSignal, BeliefFields
<1> HIDE DEF c
<1>2. \A t : /\ IsFiniteSet({x \in F : x.signal = t})
             /\ N(t, G) = N(t, F) + (IF r.signal = t THEN 1 ELSE 0) /\ N(t, F) \in Nat
  <2> SUFFICES ASSUME NEW t
               PROVE  /\ IsFiniteSet({x \in F : x.signal = t})
                      /\ N(t, G) = N(t, F) + (IF r.signal = t THEN 1 ELSE 0) /\ N(t, F) \in Nat
    OBVIOUS
  <2> DEFINE P == {x \in F : x.signal = t}
  <2>1. IsFiniteSet(P) /\ Cardinality(P) \in Nat /\ r \notin P
    BY FS_Subset, FS_CardinalityType DEF BeliefIs
  <2>2. {x \in G : x.signal = t} = IF r.signal = t THEN P \cup {r} ELSE P
    OBVIOUS
  <2>3. Cardinality(P \cup {r}) = Cardinality(P) + 1
    <3> HIDE DEF P
    <3> QED
      BY <2>1, FS_AddElement
  <2>4. N(t, F) = Cardinality(P) /\ N(t, G) = IF r.signal = t THEN Cardinality(P \cup {r}) ELSE Cardinality(P)
    BY <2>2
  <2> HIDE DEF N
  <2> QED
    BY <2>1, <2>3, <2>4
<1>3. h \in Nat /\ d \in Nat /\ h = N("harmful", G) /\ d = N("correction", G)
      /\ (r.signal = "harmful" => h > 0)
  <2>1. b.harmful = N("harmful", F) /\ b.corrected = N("correction", F)
    BY DEF BeliefIs
  <2> HIDE DEF N, G
  <2>2. N("harmful", F) \in Nat /\ N("correction", F) \in Nat
    BY <1>2
  <2>3. /\ N("harmful", G) = N("harmful", F) + (IF r.signal = "harmful" THEN 1 ELSE 0)
        /\ N("correction", G) = N("correction", F) + (IF r.signal = "correction" THEN 1 ELSE 0)
    BY <1>2
  <2> QED
    BY <2>1, <2>2, <2>3
<1> HIDE DEF h, d
<1>4. v \in 0..100
  BY <1>3, ShiftIs, PercentIs DEF BeliefIs
<1>5. c.confidence \in 0..100
  <2> HIDE DEF v
  <2>1. Max({5, v}) = IF 5 > v THEN 5 ELSE v
    BY <1>4, MaxOfTwo
  <2> QED
    BY <1>1, <1>4, <2>1
<1>6. IsFiniteSet(G) /\ IsFiniteSet(c.signals)
  <2>1. IsFiniteSet(F) /\ IsFiniteSet(b.signals)
    BY DEF BeliefIs
  <2>2. IsFiniteSet(F \cup {r}) /\ IsFiniteSet(b.signals \cup {r.id})
    BY <2>1, FS_AddElement
  <2> QED
    BY <1>1, <2>2
<1>7. c.evidence = UNION {x.evidence : x \in G}
  BY <1>1 DEF BeliefIs
<1>8. c.status = "suppressed" <=> \E x \in G : x.suppress
  BY <1>0, <1>1 DEF BeliefIs
<1>9. c.status = "resolved" => c.corrected >= c.harmful /\ c.harmful > 0
  BY <1>1
<1>10. c.harmful = N("harmful", G) /\ c.corrected = N("correction", G)
  BY <1>1, <1>3
<1> QED
  BY <1>1, <1>5, <1>6, <1>7, <1>8, <1>9, <1>10 DEF BeliefIs, With, c

LEMMA BeliefsCounted ==
  ASSUME BeliefInv, NEW r \in SignalUpdates, ToldNext(told, told', r),
         rec'.beliefs = Put(rec.beliefs, r.key, NextBelief(rec, r))
  PROVE  BeliefInv'
<1> DEFINE n == Len(told) + 1
           B == rec.beliefs
           C == rec'.beliefs
<1>1. /\ DOMAIN C = DOMAIN B \cup {r.key} /\ C[r.key] = NextBelief(rec, r)
      /\ \A k \in DOMAIN B : k # r.key => C[k] = B[k]
  <2>1. \A v : /\ DOMAIN Put(B, r.key, v) = DOMAIN B \cup {r.key} /\ Put(B, r.key, v)[r.key] = v
               /\ \A k \in DOMAIN B : k # r.key => Put(B, r.key, v)[k] = B[k]
    BY DEF Put
  <2> QED
    BY <2>1
<1>2. \A k : /\ SentFor(k)' = IF r.key = k THEN SentFor(k) \cup {n} ELSE SentFor(k)
             /\ told'[n] = r /\ \A i \in SentFor(k) : told'[i] = told[i]
  BY SentMore
<1>3. \A k : FirstSignals(k)' =
               IF r.key = k /\ \A i \in SentFor(k) : told[i].id # r.id
               THEN With(FirstSignals(k), r) ELSE FirstSignals(k)
  BY FirstMore
<1>4. \A k : FirstSignals(k) \subseteq {told[i] : i \in SentFor(k)}
  BY DEF FirstSignals, SentFor
<1> HIDE DEF B, C, n
<1>5. \A k \in DOMAIN B : /\ BeliefIs(B[k], FirstSignals(k))
                          /\ B[k].signals = {told[i].id : i \in SentFor(k)}
  BY DEF BeliefInv, B
<1>6. \A k : SentFor(k) # {} => k \in DOMAIN B
  BY DEF BeliefInv, B
<1>7. \A k : SentFor(k)' # {} => k \in DOMAIN C
  BY <1>1, <1>2, <1>6
<1>8. ASSUME NEW k \in DOMAIN C, k # r.key
      PROVE  BeliefIs(C[k], FirstSignals(k)') /\ C[k].signals = {told'[i].id : i \in SentFor(k)'}
  <2>1. k \in DOMAIN B /\ C[k] = B[k] /\ SentFor(k)' = SentFor(k) /\ FirstSignals(k)' = FirstSignals(k)
    BY <1>1, <1>2, <1>3, <1>8
  <2>2. {told'[i].id : i \in SentFor(k)} = {told[i].id : i \in SentFor(k)}
    BY <1>2
  <2> QED
    BY <1>5, <2>1, <2>2
<1>9. {told'[i].id : i \in SentFor(r.key)'} = {told[i].id : i \in SentFor(r.key)} \cup {r.id}
  <2>1. SentFor(r.key)' = SentFor(r.key) \cup {n}
    BY <1>2
  <2>2. \A i \in SentFor(r.key) : told'[i] = told[i]
    BY <1>2
  <2>3. told'[n] = r
    BY <1>2
  <2> QED
    BY <2>1, <2>2, <2>3
<1>10. BeliefIs(C[r.key], FirstSignals(r.key)') /\ C[r.key].signals = {told'[i].id : i \in SentFor(r.key)'}
  <2>1. CASE r.key \notin DOMAIN B
    <3>1. C[r.key] = NewBelief(r)
      BY <1>1, <2>1 DEF NextBelief, B
    <3>2. SentFor(r.key) = {} /\ FirstSignals(r.key) = {}
      BY <1>4, <1>6, <2>1
    <3>3. FirstSignals(r.key)' = {r}
      BY <1>3, <3>2 DEF With
    <3> QED
      BY <1>9, <3>1, <3>2, <3>3, NewBeliefIs
  <2>2. CASE r.key \in DOMAIN B /\ r.id \in B[r.key].signals
    <3>1. C[r.key] = B[r.key]
      BY <1>1, <2>2 DEF NextBelief, MergeMisconception, B
    <3>2. FirstSignals(r.key)' = FirstSignals(r.key)
      BY <1>3, <1>5, <2>2
    <3> QED
      BY <1>5, <1>9, <2>2, <3>1, <3>2
  <2>3. CASE r.key \in DOMAIN B /\ r.id \notin B[r.key].signals
    <3>1. C[r.key] = CountSignal(B[r.key], r)
      BY <1>1, <2>3 DEF NextBelief, MergeMisconception, B
    <3>2. \A i \in SentFor(r.key) : told[i].id # r.id
      BY <1>5, <2>3
    <3>3. FirstSignals(r.key)' = With(FirstSignals(r.key), r) /\ r \notin FirstSignals(r.key)
      BY <1>3, <1>4, <3>2
    <3>4. BeliefIs(B[r.key], FirstSignals(r.key))
      BY <1>5, <2>3
    <3>5. /\ BeliefIs(CountSignal(B[r.key], r), With(FirstSignals(r.key), r))
          /\ CountSignal(B[r.key], r).signals = B[r.key].signals \cup {r.id}
      BY <3>3, <3>4, CountSignalIs
    <3> QED
      BY <1>5, <1>9, <2>3, <3>1, <3>3, <3>5
  <2> QED
    BY <2>1, <2>2, <2>3
<1>11. \A k \in DOMAIN C : BeliefIs(C[k], FirstSignals(k)') /\ C[k].signals = {told'[i].id : i \in SentFor(k)'}
  BY <1>8, <1>10
<1> QED
  BY <1>7, <1>11 DEF BeliefInv, BeliefIs, C

LEMMA BeliefsKept ==
  ASSUME BeliefInv, rec'.beliefs = rec.beliefs,
         UNCHANGED told \/ \E r : r \notin SignalUpdates /\ ToldNext(told, told', r)
  PROVE  BeliefInv'
<1>1. \A k : SentFor(k)' = SentFor(k) /\ \A i \in SentFor(k) : told'[i] = told[i]
  <2>1. CASE UNCHANGED told
    BY <2>1 DEF SentFor, ToldOf
  <2>2. CASE ~UNCHANGED told
    BY <2>2, SentMore
  <2> QED
    BY <2>1, <2>2
<1>2. \A k : FirstSignals(k)' = FirstSignals(k)
  <2>1. CASE UNCHANGED told
    BY <2>1 DEF FirstSignals, ToldOf
  <2>2. CASE ~UNCHANGED told
    BY <2>2, FirstMore
  <2> QED
    BY <2>1, <2>2
<1>3. \A k : {told'[i].id : i \in SentFor(k)} = {told[i].id : i \in SentFor(k)}
  BY <1>1
<1>4. \A k : SentFor(k)' # {} => k \in DOMAIN rec'.beliefs
  BY <1>1 DEF BeliefInv
<1>5. \A k \in DOMAIN rec'.beliefs :
        /\ BeliefIs(rec'.beliefs[k], FirstSignals(k)')
        /\ rec'.beliefs[k].signals = {told'[i].id : i \in SentFor(k)'}
  BY <1>1, <1>2, <1>3 DEF BeliefInv
<1> QED
  BY <1>4, <1>5 DEF BeliefInv, BeliefIs

-----------------------------------------------------------------------------
\* A plan item that was blocked is blocked, and a decision is as strict as the
\* strictest answer it got.
PlansInv ==
  \A n \in ToldOf(PlanUpdates) : told[n].status = "blocked" =>
    told[n].id \in DOMAIN rec.plans /\ rec.plans[told[n].id].status = "blocked"
DecisionsInv ==
  /\ \A n \in ToldOf(DecisionUpdates) :
       /\ told[n].id \in DOMAIN rec.decisions
       /\ Severity[PluginDecided(told[n]).outcome] <= Severity[rec.decisions[told[n].id].outcome]
  /\ \A d \in DOMAIN rec.decisions :
       /\ rec.decisions[d].outcome \in {"allow", "review", "deny"}
       /\ rec.decisions[d].outcome = "deny" => rec.decisions[d].reasons # {}
       /\ \E n \in ToldOf(DecisionUpdates) :
            told[n].id = d /\ PluginDecided(told[n]).outcome = rec.decisions[d].outcome

LEMMA SeverityIs ==
  /\ \A o \in {"allow", "review", "deny"} : Severity[o] \in 1..3
  /\ \A o, u \in {"allow", "review", "deny"} : Severity[o] = Severity[u] => o = u
BY DEF Severity

LEMMA PluginDecidedIs ==
  ASSUME NEW r \in DecisionUpdates
  PROVE  /\ PluginDecided(r).outcome \in {"allow", "review", "deny"}
         /\ PluginDecided(r).outcome = "deny" => PluginDecided(r).reasons # {}
<1>1. /\ r = [id |-> r.id, outcome |-> r.outcome, reasons |-> r.reasons, plugin |-> r.plugin]
      /\ r.outcome \in {"allow", "review", "deny"} /\ r.plugin \in {"pass", "deny", "broken"}
      /\ r.outcome = "deny" => r.reasons # {}
  BY ScopeRecordsAssumption
<1>2. \A t : LET x == [r EXCEPT !.outcome = "deny", !.reasons = r.reasons \cup {t}]
             IN x.outcome = "deny" /\ x.reasons = r.reasons \cup {t}
  BY <1>1
<1> QED
  BY <1>1, <1>2 DEF PluginDecided

LEMMA StrictnessInvIs == PlansInv /\ DecisionsInv => StrictnessStays
<1> SUFFICES ASSUME PlansInv, DecisionsInv PROVE StrictnessStays
  OBVIOUS
<1>1. \A i \in DOMAIN rec.plans :
        (\E r \in WasTold(PlanUpdates) : r.id = i /\ r.status = "blocked")
          => rec.plans[i].status = "blocked"
  BY DEF PlansInv, WasTold
<1>2. ASSUME NEW d \in DOMAIN rec.decisions
      PROVE  LET verdicts == {PluginDecided(r) : r \in {x \in WasTold(DecisionUpdates) : x.id = d}}
             IN Severity[rec.decisions[d].outcome] = Max({Severity[r.outcome] : r \in verdicts})
  <2> DEFINE asked == {x \in WasTold(DecisionUpdates) : x.id = d}
             verdicts == {PluginDecided(r) : r \in asked}
             S == {Severity[r.outcome] : r \in verdicts}
             v == Severity[rec.decisions[d].outcome]
  <2>1. \A r \in asked : r \in DecisionUpdates /\ Severity[PluginDecided(r).outcome] <= v
    BY DEF DecisionsInv, WasTold, ToldOf
  <2>2. S \subseteq 1..3
    BY <2>1, PluginDecidedIs, SeverityIs
  <2>3. \A y \in S : y <= v
    BY <2>1
  <2>4. v \in S
    <3>1. PICK n \in ToldOf(DecisionUpdates) :
            told[n].id = d /\ PluginDecided(told[n]).outcome = rec.decisions[d].outcome
      BY DEF DecisionsInv
    <3>2. told[n] \in asked
      BY <3>1 DEF WasTold
    <3>3. PluginDecided(told[n]) \in verdicts
      BY <3>2
    <3> HIDE DEF verdicts
    <3> QED
      BY <3>1, <3>3
  <2> HIDE DEF S, v
  <2>5. IsFiniteSet(S) /\ S \in SUBSET Nat /\ S # {}
    <3>0. PICK m \in Nat : m = 3
      OBVIOUS
    <3>1. IsFiniteSet(1..m)
      BY FS_Interval
    <3>2. IsFiniteSet(S)
      BY <2>2, <3>0, <3>1, FS_Subset
    <3> QED
      BY <2>2, <2>4, <3>2
  <2>6. Max(S) \in S /\ \A y \in S : y <= Max(S)
    BY <2>5, MaxIsThere
  <2>7. v = Max(S)
    <3>1. \A m \in S : m \in Int
      BY <2>2
    <3>2. Max(S) <= v /\ v <= Max(S) /\ Max(S) \in Int /\ v \in Int
      BY <2>3, <2>4, <2>6, <3>1
    <3> QED
      BY <3>2
  <2> QED
    BY <2>7 DEF S, v
<1>3. \A d \in DOMAIN rec.decisions :
        rec.decisions[d].outcome = "deny" => rec.decisions[d].reasons # {}
  BY DEF DecisionsInv
<1> QED
  BY <1>1, <1>2, <1>3 DEF StrictnessStays

LEMMA PlansUpdated ==
  ASSUME PlansInv, NEW r \in PlanUpdates, ToldNext(told, told', r), HasFields(rec),
         rec'.plans = CurriculumPlanUpdate(rec, r).plans
  PROVE  PlansInv'
<1> DEFINE n == Len(told) + 1
           T == ToldOf(PlanUpdates)
           new == [status |-> r.status, rank |-> r.rank, evidence |-> r.evidence,
                   links |-> r.links, at |-> r.at]
           v == IF r.id \in DOMAIN rec.plans THEN MergePlanItem(rec.plans[r.id], r) ELSE new
<1>1. T' = T \cup {n} /\ told'[n] = r /\ \A i \in T : told'[i] = told[i]
  BY ToldMore DEF ToldNext, ToldOf
<1>2. rec'.plans = Put(rec.plans, r.id, v)
  <2>1. CurriculumPlanUpdate(rec, r) = [rec EXCEPT !["plans"] = Put(rec.plans, r.id, v)]
    BY DEF CurriculumPlanUpdate
  <2>2. \A u : [rec EXCEPT !["plans"] = u]["plans"] = u
    BY DEF HasFields, RecordFields
  <2> HIDE DEF v
  <2> QED
    BY <2>1, <2>2
<1>3. /\ r.status = "blocked" => v.status = "blocked"
      /\ r.id \in DOMAIN rec.plans /\ rec.plans[r.id].status = "blocked" => v.status = "blocked"
  BY DEF MergePlanItem
<1> HIDE DEF v, n, T
<1>4. /\ DOMAIN rec'.plans = DOMAIN rec.plans \cup {r.id} /\ rec'.plans[r.id] = v
      /\ \A x \in DOMAIN rec.plans : x # r.id => rec'.plans[x] = rec.plans[x]
  BY <1>2 DEF Put
<1> QED
  BY <1>1, <1>3, <1>4 DEF PlansInv, T

LEMMA PlansKept ==
  ASSUME PlansInv, rec'.plans = rec.plans,
         UNCHANGED told \/ \E r : r \notin PlanUpdates /\ ToldNext(told, told', r)
  PROVE  PlansInv'
<1>1. ToldOf(PlanUpdates)' = ToldOf(PlanUpdates)
  BY ToldMore DEF ToldOf
<1>2. \A i \in ToldOf(PlanUpdates) : told'[i] = told[i]
  BY DEF ToldNext, ToldOf
<1> QED
  BY <1>1, <1>2 DEF PlansInv

LEMMA DecisionsUpdated ==
  ASSUME DecisionsInv, NEW r \in DecisionUpdates, ToldNext(told, told', r), HasFields(rec),
         rec'.decisions = PolicyDecisionUpdate(rec, r).decisions
  PROVE  DecisionsInv'
<1> DEFINE n == Len(told) + 1
           T == ToldOf(DecisionUpdates)
           D == rec.decisions
           x == PluginDecided(r)
           o == At(D, r.id, [outcome |-> x.outcome, reasons |-> {}])
           v == [outcome |-> StrictestOutcome(o.outcome, x.outcome),
                 reasons |-> o.reasons \cup x.reasons]
<1>1. /\ T' = T \cup {n} /\ told'[n] = r /\ r \in DecisionUpdates
      /\ \A i \in T : told'[i] = told[i] /\ told[i] \in DecisionUpdates
  BY ToldMore DEF ToldNext, ToldOf
<1>2. rec'.decisions = Put(D, r.id, v)
  <2>1. \A u, z : [rec EXCEPT !["decisions"] = u, !["audit"] = z]["decisions"] = u
    BY DEF HasFields, RecordFields
  <2>2. PolicyDecisionUpdate(rec, r) =
          [rec EXCEPT !["decisions"] = Put(D, r.id, v),
                      !["audit"] = rec.audit \cup {<<"decision", r.id, v.outcome>>}]
    BY DEF PolicyDecisionUpdate
  <2> HIDE DEF v, D
  <2> QED
    BY <2>1, <2>2
<1>3. /\ x.outcome \in {"allow", "review", "deny"}
      /\ x.outcome = "deny" => x.reasons # {}
  BY PluginDecidedIs
<1> HIDE DEF x, D
<1>4. CASE r.id \notin DOMAIN D
  <2>1. v = [outcome |-> x.outcome, reasons |-> x.reasons]
    BY <1>4 DEF At, StrictestOutcome
  <2>2. v.outcome = x.outcome /\ v.reasons = x.reasons
    BY <2>1
  <2> HIDE DEF v, n, T
  <2>3. /\ DOMAIN rec'.decisions = DOMAIN D \cup {r.id} /\ rec'.decisions[r.id] = v
        /\ \A d \in DOMAIN D : rec'.decisions[d] = D[d]
    BY <1>2, <1>4 DEF Put
  <2>4. \A i \in T : told[i].id \in DOMAIN D
    BY DEF DecisionsInv, T, D
  <2> QED
    BY <1>1, <1>3, <2>2, <2>3, <2>4, SeverityIs DEF DecisionsInv, T, D, x
<1>5. CASE r.id \in DOMAIN D
  <2>1. v = [outcome |-> StrictestOutcome(D[r.id].outcome, x.outcome),
             reasons |-> D[r.id].reasons \cup x.reasons]
    BY <1>5 DEF At
  <2>2. /\ v.outcome = StrictestOutcome(D[r.id].outcome, x.outcome)
        /\ v.reasons = D[r.id].reasons \cup x.reasons
    BY <2>1
  <2> HIDE DEF v, n, T
  <2>3. /\ DOMAIN rec'.decisions = DOMAIN D /\ rec'.decisions[r.id] = v
        /\ \A d \in DOMAIN D : d # r.id => rec'.decisions[d] = D[d]
    BY <1>2, <1>5 DEF Put
  <2>4. \A d \in DOMAIN D :
          /\ D[d].outcome \in {"allow", "review", "deny"}
          /\ D[d].outcome = "deny" => D[d].reasons # {}
          /\ \E i \in T : told[i].id = d /\ PluginDecided(told[i]).outcome = D[d].outcome
    BY DEF DecisionsInv, T, D
  <2>5. \A i \in T : /\ told[i].id \in DOMAIN D
                     /\ Severity[PluginDecided(told[i]).outcome] <= Severity[D[told[i].id].outcome]
    BY DEF DecisionsInv, T, D
  <2>6. /\ v.outcome \in {D[r.id].outcome, x.outcome}
        /\ Severity[D[r.id].outcome] <= Severity[v.outcome]
        /\ Severity[x.outcome] <= Severity[v.outcome]
    BY <1>3, <1>5, <2>2, <2>4, SeverityIs DEF StrictestOutcome
  <2>7. v.outcome = "deny" => v.reasons # {}
    BY <1>3, <1>5, <2>2, <2>4, <2>6
  <2>8. \A i \in T : Severity[PluginDecided(told[i]).outcome] \in Int
    BY <1>1, PluginDecidedIs, SeverityIs
  <2>9. \A i \in T' : /\ told'[i].id \in DOMAIN rec'.decisions
                      /\ Severity[PluginDecided(told'[i]).outcome]
                           <= Severity[rec'.decisions[told'[i].id].outcome]
    <3> SUFFICES ASSUME NEW i \in T'
                 PROVE  /\ told'[i].id \in DOMAIN rec'.decisions
                        /\ Severity[PluginDecided(told'[i]).outcome]
                             <= Severity[rec'.decisions[told'[i].id].outcome]
      OBVIOUS
    <3>1. CASE i = n
      BY <1>1, <1>5, <2>3, <2>6, <3>1 DEF x
    <3>2. CASE i \in T /\ told[i].id = r.id
      BY <1>1, <1>3, <1>5, <2>2, <2>3, <2>4, <2>5, <2>6, <2>8, <3>2, SeverityIs
    <3>3. CASE i \in T /\ told[i].id # r.id
      BY <1>1, <2>3, <2>5, <3>3
    <3> QED
      BY <1>1, <3>1, <3>2, <3>3
  <2>10. \A d \in DOMAIN rec'.decisions :
           /\ rec'.decisions[d].outcome \in {"allow", "review", "deny"}
           /\ rec'.decisions[d].outcome = "deny" => rec'.decisions[d].reasons # {}
           /\ \E i \in T' : told'[i].id = d /\ PluginDecided(told'[i]).outcome = rec'.decisions[d].outcome
    <3> SUFFICES ASSUME NEW d \in DOMAIN D
                 PROVE  /\ rec'.decisions[d].outcome \in {"allow", "review", "deny"}
                        /\ rec'.decisions[d].outcome = "deny" => rec'.decisions[d].reasons # {}
                        /\ \E i \in T' : told'[i].id = d
                             /\ PluginDecided(told'[i]).outcome = rec'.decisions[d].outcome
      BY <2>3
    <3>1. CASE d # r.id
      BY <1>1, <2>3, <2>4, <3>1
    <3>2. CASE d = r.id
      <4>1. rec'.decisions[d] = v /\ v.outcome \in {"allow", "review", "deny"}
        BY <1>3, <2>3, <2>4, <2>6, <3>2
      <4>2. \E i \in T' : told'[i].id = d /\ PluginDecided(told'[i]).outcome = v.outcome
        BY <1>1, <2>4, <2>6, <3>2 DEF x
      <4> QED
        BY <2>7, <4>1, <4>2
    <3> QED
      BY <3>1, <3>2
  <2> QED
    BY <2>9, <2>10 DEF DecisionsInv, T
<1> QED
  BY <1>4, <1>5

LEMMA DecisionsStay ==
  ASSUME DecisionsInv, rec'.decisions = rec.decisions,
         UNCHANGED told \/ \E r : r \notin DecisionUpdates /\ ToldNext(told, told', r)
  PROVE  DecisionsInv'
<1>1. ToldOf(DecisionUpdates)' = ToldOf(DecisionUpdates)
  BY ToldMore DEF ToldOf
<1>2. \A i \in ToldOf(DecisionUpdates) : told'[i] = told[i]
  BY DEF ToldNext, ToldOf
<1> QED
  BY <1>1, <1>2 DEF DecisionsInv

-----------------------------------------------------------------------------
\* Without a state file each further signal of a misconception has its note; a
\* note's number is that of the notes of its record when it was made.
NotesOf(N, k) == {n \in N : n[2] = k}
BeliefNotes(N, k) == {n \in N : n[1] = "belief" /\ n[2] = k}
NotesAre(N, B) ==
  /\ IsFiniteSet(N)
  /\ \A n \in N : /\ n[3] \in Nat /\ n[3] <= Cardinality(NotesOf(N, n[2]))
                  /\ n[1] = "belief" => n[2] \in DOMAIN B
  /\ \A k \in DOMAIN B : Cardinality(BeliefNotes(N, k)) = Cardinality(B[k].signals) - 1
NotesInv == ~recFiled => NotesAre(notes, rec.beliefs)

LEMMA NoteIsNew ==
  ASSUME NEW N, NEW B, NotesAre(N, B), NEW kind, NEW id
  PROVE  LET n == <<kind, id, Cardinality(NotesOf(N, id)) + 1>>
             M == With(N, n)
         IN /\ n \notin N /\ IsFiniteSet(M)
            /\ \A m \in M : m[3] \in Nat /\ m[3] <= Cardinality(NotesOf(M, m[2]))
            /\ \A k : BeliefNotes(M, k) = IF kind = "belief" /\ k = id THEN With(BeliefNotes(N, k), n)
                                          ELSE BeliefNotes(N, k)
<1> DEFINE c == Cardinality(NotesOf(N, id))
           n == <<kind, id, c + 1>>
           M == N \cup {n}
<1>1. \A k : NotesOf(N, k) \subseteq N /\ IsFiniteSet(NotesOf(N, k)) /\ Cardinality(NotesOf(N, k)) \in Nat
  BY FS_Subset, FS_CardinalityType DEF NotesOf, NotesAre
<1>2. n[1] = kind /\ n[2] = id /\ n[3] = c + 1 /\ c \in Nat
  BY <1>1
<1>3. \A m \in N : m[3] \in Nat /\ m[3] <= Cardinality(NotesOf(N, m[2]))
  BY DEF NotesAre
<1> HIDE DEF n, c
<1>4. n \notin N
  BY <1>2, <1>3 DEF c
<1>5. IsFiniteSet(M)
  BY FS_AddElement DEF NotesAre
<1>6. \A k : NotesOf(M, k) = IF k = id THEN NotesOf(N, k) \cup {n} ELSE NotesOf(N, k)
  BY <1>2 DEF NotesOf
<1>7. Cardinality(NotesOf(M, id)) = c + 1
  <2>1. NotesOf(M, id) = NotesOf(N, id) \cup {n} /\ n \notin NotesOf(N, id)
    BY <1>4, <1>6 DEF NotesOf
  <2> HIDE DEF M
  <2> QED
    BY <1>1, <2>1, FS_AddElement DEF c
<1>8. \A m \in M : m[3] \in Nat /\ m[3] <= Cardinality(NotesOf(M, m[2]))
  <2> SUFFICES ASSUME NEW m \in M PROVE m[3] \in Nat /\ m[3] <= Cardinality(NotesOf(M, m[2]))
    OBVIOUS
  <2>1. CASE m = n
    BY <1>2, <1>7, <2>1
  <2>2. CASE m \in N /\ m[2] = id
    BY <1>2, <1>3, <1>7, <2>2 DEF c
  <2>3. CASE m \in N /\ m[2] # id
    BY <1>3, <1>6, <2>3
  <2> QED
    BY <2>1, <2>2, <2>3
<1>9. \A k : BeliefNotes(M, k) = IF kind = "belief" /\ k = id THEN BeliefNotes(N, k) \cup {n}
                                 ELSE BeliefNotes(N, k)
  BY <1>2 DEF BeliefNotes
<1> QED
  BY <1>4, <1>5, <1>8, <1>9 DEF With, n, c

\* A signal: its belief is new, or has it already, or counts it and is noted.
LEMMA SignalNoted ==
  ASSUME NotesInv, BeliefInv, NEW r \in SignalUpdates, UNCHANGED recFiled,
         rec'.beliefs = Put(rec.beliefs, r.key, NextBelief(rec, r)),
         notes' = NotesLeft \cup Noted("belief", r.key, rec.beliefs, rec'.beliefs)
  PROVE  NotesInv'
<1> SUFFICES ASSUME ~recFiled PROVE NotesAre(notes', rec'.beliefs)
  BY DEF NotesInv, NotesAre
<1> DEFINE B == rec.beliefs
           C == rec'.beliefs
           k == r.key
<1>1. NotesAre(notes, B) /\ NotesLeft = notes
  BY DEF NotesInv, NotesLeft
<1>2. /\ DOMAIN C = DOMAIN B \cup {k} /\ C[k] = NextBelief(rec, r)
      /\ \A x \in DOMAIN B : x # k => C[x] = B[x]
  BY DEF Put
<1>3. \A x \in DOMAIN B : IsFiniteSet(B[x].signals)
  BY DEF BeliefInv, BeliefIs
<1>4. CASE k \notin DOMAIN B
  <2>1. notes' = notes
    BY <1>1, <1>4 DEF Noted
  <2>2. C[k].signals = {r.id} /\ Cardinality({r.id}) = 1
    BY <1>2, <1>4, NewBeliefIs, FS_Singleton DEF NextBelief
  <2>3. BeliefNotes(notes, k) = {} /\ Cardinality({}) = 0
    BY <1>1, <1>4, FS_EmptySet DEF NotesAre, BeliefNotes
  <2> HIDE DEF B, C, k
  <2>4. NotesAre(notes, C)
    <3>1. Cardinality(BeliefNotes(notes, k)) = Cardinality(C[k].signals) - 1
      BY <2>2, <2>3
    <3>2. \A x \in DOMAIN C : Cardinality(BeliefNotes(notes, x)) = Cardinality(C[x].signals) - 1
      BY <1>1, <1>2, <3>1 DEF NotesAre
    <3> QED
      BY <1>1, <1>2, <3>2 DEF NotesAre
  <2> QED
    BY <2>1, <2>4 DEF C
<1>5. CASE k \in DOMAIN B /\ r.id \in B[k].signals
  <2>1. C[k] = B[k]
    BY <1>2, <1>5 DEF NextBelief, MergeMisconception
  <2>2. notes' = notes
    BY <1>1, <2>1 DEF Noted
  <2> HIDE DEF B, C, k
  <2>3. NotesAre(notes, C)
    BY <1>1, <1>2, <1>5, <2>1 DEF NotesAre
  <2> QED
    BY <2>2, <2>3 DEF C
<1>6. CASE k \in DOMAIN B /\ r.id \notin B[k].signals
  <2> DEFINE n == <<"belief", k, Cardinality(NotesOf(notes, k)) + 1>>
             F == FirstSignals(k)
  <2>1. C[k] = CountSignal(B[k], r)
    BY <1>2, <1>6 DEF NextBelief, MergeMisconception
  <2>2. C[k].signals = B[k].signals \cup {r.id}
    BY <2>1 DEF CountSignal
  <2>3. C[k] # B[k]
    BY <1>6, <2>2
  <2>4. notes' = With(notes, n)
    BY <1>1, <1>6, <2>3 DEF Noted, NotesOf, With
  <2>5. Cardinality(C[k].signals) = Cardinality(B[k].signals) + 1 /\ Cardinality(B[k].signals) \in Nat
    <3> DEFINE S == B[k].signals
    <3>1. IsFiniteSet(S) /\ r.id \notin S
      BY <1>3, <1>6
    <3> HIDE DEF S
    <3>2. Cardinality(S \cup {r.id}) = Cardinality(S) + 1 /\ Cardinality(S) \in Nat
      BY <3>1, FS_AddElement, FS_CardinalityType
    <3> QED
      BY <2>2, <3>2 DEF S
  <2>6. /\ n \notin notes /\ IsFiniteSet(notes')
        /\ \A m \in notes' : m[3] \in Nat /\ m[3] <= Cardinality(NotesOf(notes', m[2]))
        /\ \A x : BeliefNotes(notes', x) = IF x = k THEN With(BeliefNotes(notes, x), n)
                                           ELSE BeliefNotes(notes, x)
    <3> DEFINE M == With(notes, n)
    <3>1. /\ n \notin notes /\ IsFiniteSet(M)
          /\ \A m \in M : m[3] \in Nat /\ m[3] <= Cardinality(NotesOf(M, m[2]))
          /\ \A x : BeliefNotes(M, x) = IF "belief" = "belief" /\ x = k THEN With(BeliefNotes(notes, x), n)
                                        ELSE BeliefNotes(notes, x)
      BY <1>1, NoteIsNew
    <3> HIDE DEF n, M
    <3>2. notes' = M
      BY <2>4 DEF M
    <3> QED
      BY <3>1, <3>2
  <2> HIDE DEF C, k, n
  <2>7. \A m \in notes' : m[1] = "belief" => m[2] \in DOMAIN C
    BY <1>1, <1>2, <2>4 DEF NotesAre, With, n
  <2>8. ASSUME NEW x \in DOMAIN C
        PROVE  Cardinality(BeliefNotes(notes', x)) = Cardinality(C[x].signals) - 1
    <3>1. CASE x # k
      <4>1. x \in DOMAIN B /\ C[x] = B[x] /\ BeliefNotes(notes', x) = BeliefNotes(notes, x)
        BY <1>2, <2>6, <3>1
      <4> QED
        BY <1>1, <4>1 DEF NotesAre
    <3>2. CASE x = k
      <4> DEFINE Q == BeliefNotes(notes, k)
      <4>1. IsFiniteSet(Q) /\ n \notin Q
        BY <1>1, <2>6, FS_Subset DEF NotesAre, BeliefNotes
      <4>2. Cardinality(Q) = Cardinality(B[k].signals) - 1
        BY <1>1, <1>6 DEF NotesAre
      <4> HIDE DEF Q
      <4>3. Cardinality(Q \cup {n}) = Cardinality(Q) + 1
        BY <4>1, FS_AddElement
      <4>4. BeliefNotes(notes', k) = Q \cup {n}
        BY <2>6 DEF With, Q
      <4>5. Cardinality(BeliefNotes(notes', k)) = Cardinality(C[k].signals) - 1
        <5>1. Cardinality(Q) \in Nat
          BY <4>1, FS_CardinalityType
        <5>2. Cardinality(BeliefNotes(notes', k)) = Cardinality(Q) + 1
          BY <4>3, <4>4
        <5>3. Cardinality(Q) + 1 = Cardinality(B[k].signals)
          BY <2>5, <4>2, <5>1
        <5>4. Cardinality(C[k].signals) - 1 = Cardinality(B[k].signals)
          BY <2>5
        <5> QED
          BY <5>2, <5>3, <5>4
      <4> QED
        BY <3>2, <4>5
    <3> QED
      BY <3>1, <3>2
  <2> QED
    BY <2>6, <2>7, <2>8 DEF NotesAre, C
<1> QED
  BY <1>4, <1>5, <1>6

\* What is no signal leaves the beliefs, and may note a change of a plan item.
LEMMA OthersNoted ==
  ASSUME NotesInv, NEW id, NEW old, NEW new, UNCHANGED recFiled, rec'.beliefs = rec.beliefs,
         notes' = NotesLeft \/ notes' = NotesLeft \cup Noted("plan", id, old, new)
  PROVE  NotesInv'
<1> SUFFICES ASSUME ~recFiled PROVE NotesAre(notes', rec.beliefs)
  BY DEF NotesInv, NotesAre
<1> DEFINE n == <<"plan", id, Cardinality(NotesOf(notes, id)) + 1>>
<1>1. NotesAre(notes, rec.beliefs) /\ NotesLeft = notes
  BY DEF NotesInv, NotesLeft
<1>2. notes' = notes \/ notes' = With(notes, n)
  BY <1>1 DEF Noted, NotesOf, With
<1>3. NotesAre(With(notes, n), rec.beliefs)
  <2> DEFINE M == With(notes, n)
  <2>1. /\ IsFiniteSet(M)
        /\ \A m \in M : m[3] \in Nat /\ m[3] <= Cardinality(NotesOf(M, m[2]))
        /\ \A x : BeliefNotes(M, x) = IF "plan" = "belief" /\ x = id THEN With(BeliefNotes(notes, x), n)
                                      ELSE BeliefNotes(notes, x)
    BY <1>1, NoteIsNew
  <2>2. n[1] # "belief"
    OBVIOUS
  <2> HIDE DEF n
  <2>3. \A m \in M : m[1] = "belief" => m[2] \in DOMAIN rec.beliefs
    BY <1>1, <2>2 DEF NotesAre, With
  <2> HIDE DEF M
  <2> QED
    BY <1>1, <2>1, <2>3 DEF NotesAre, M
<1> QED
  BY <1>1, <1>2, <1>3

-----------------------------------------------------------------------------
RecordsInv ==
  /\ HasFields(rec) /\ recFiled \in BOOLEAN
  /\ told \in Seq(AnyRequest) /\ Len(told) <= MaxTold
  /\ ProfileInv /\ BeliefInv /\ RecordedSignalsAreCounted
  /\ PlansInv /\ DecisionsInv /\ NotesInv

LEMMA RecordsInits == RecordsInit => RecordsInv
<1> SUFFICES ASSUME RecordsInit PROVE RecordsInv
  OBVIOUS
<1>1. /\ rec = NoRecords /\ told = <<>> /\ recFiled \in BOOLEAN /\ notes = {}
  BY DEF RecordsInit
<1>2. HasFields(rec)
  BY <1>1 DEF HasFields, NoRecords, RecordFields
<1>3. /\ rec.profile = <<>> /\ rec.beliefs = <<>> /\ rec.decisions = <<>> /\ rec.signals = {}
      /\ DOMAIN rec.beliefs = {} /\ DOMAIN rec.decisions = {}
  BY <1>1 DEF NoRecords
<1>4. \A S : ToldOf(S) = {}
  BY <1>1 DEF ToldOf
<1>5. \A k : SentFor(k) = {}
  BY <1>4 DEF SentFor
<1>6. NotesAre(notes, rec.beliefs)
  BY <1>1, <1>3, FS_EmptySet DEF NotesAre
<1> QED
  BY <1>1, <1>2, <1>3, <1>4, <1>5, <1>6, ScopeRecordsAssumption
  DEF RecordsInv, ProfileInv, BeliefInv, RecordedSignalsAreCounted, PlansInv, DecisionsInv, NotesInv

\* An answer is told; the parts of the records that are no part of it stay.
LEMMA AnswerIs ==
  ASSUME RecordsInv, NEW r \in AnyRequest, NEW s, NEW m, Answer(r, s, m), Len(told) < MaxTold
  PROVE  /\ ToldNext(told, told', r) /\ told' \in Seq(AnyRequest) /\ Len(told') <= MaxTold
         /\ rec' = s /\ notes' = NotesLeft \cup m /\ UNCHANGED recFiled
<1>1. told \in Seq(AnyRequest) /\ told' = Append(told, r)
  BY DEF RecordsInv, Answer
<1>2. ToldNext(told, told', r)
  BY <1>1, ToldFollows
<1>3. told' \in Seq(AnyRequest) /\ Len(told') = Len(told) + 1 /\ Len(told) \in Nat
  BY <1>1
<1>4. MaxTold \in Nat
  BY ScopeRecordsAssumption
<1> QED
  BY <1>2, <1>3, <1>4 DEF Answer

LEMMA CountedKept ==
  ASSUME RecordedSignalsAreCounted, UNCHANGED recFiled, rec'.beliefs = rec.beliefs,
         rec'.signals = rec.signals
  PROVE  RecordedSignalsAreCounted'
BY DEF RecordedSignalsAreCounted

LEMMA ProfileUpdateSteps ==
  ASSUME RecordsInv, Len(told) < MaxTold, NEW r \in ProfileUpdates, UpdateProfile(r)
  PROVE  RecordsInv'
<1>1. /\ r \in AnyRequest /\ r \notin SignalUpdates /\ r \notin PlanUpdates /\ r \notin DecisionUpdates
  BY RequestsAreApart
<1>2. /\ ToldNext(told, told', r) /\ told' \in Seq(AnyRequest) /\ Len(told') <= MaxTold
      /\ rec' = LearnerProfileUpdate(rec, r) /\ notes' = NotesLeft /\ UNCHANGED recFiled
  <2>1. Answer(r, LearnerProfileUpdate(rec, r), {})
    BY DEF UpdateProfile
  <2>2. notes' = NotesLeft \cup {}
    BY <2>1 DEF Answer
  <2> QED
    BY <1>1, <2>1, <2>2, AnswerIs
<1>3. HasFields(rec)
  BY DEF RecordsInv
<1>4. SameFields(rec, rec', {"profile"})
  BY <1>2, <1>3, ProfileIsSet
<1>5. /\ HasFields(rec') /\ rec'.beliefs = rec.beliefs /\ rec'.signals = rec.signals
      /\ rec'.plans = rec.plans /\ rec'.decisions = rec.decisions
  BY <1>4 DEF SameFields, RecordFields
<1>6. ProfileInv'
  BY <1>2, <1>3, ProfileGiven DEF RecordsInv
<1>7. BeliefInv' /\ PlansInv' /\ DecisionsInv' /\ RecordedSignalsAreCounted'
  BY <1>1, <1>2, <1>5, BeliefsKept, PlansKept, DecisionsStay, CountedKept DEF RecordsInv
<1>8. NotesInv'
  BY <1>2, <1>5, OthersNoted DEF RecordsInv
<1> QED
  BY <1>2, <1>5, <1>6, <1>7, <1>8 DEF RecordsInv, HasFields

LEMMA EdgeUpdateSteps ==
  ASSUME RecordsInv, Len(told) < MaxTold, NEW r \in EdgeUpdates, UpdateEdge(r)
  PROVE  RecordsInv'
<1>1. /\ r \in AnyRequest /\ r \notin SignalUpdates /\ r \notin PlanUpdates /\ r \notin DecisionUpdates
      /\ r \notin ProfileUpdates
  BY RequestsAreApart
<1>2. /\ ToldNext(told, told', r) /\ told' \in Seq(AnyRequest) /\ Len(told') <= MaxTold
      /\ rec' = IdentityGraphUpdate(rec, r) /\ notes' = NotesLeft /\ UNCHANGED recFiled
  <2>1. Answer(r, IdentityGraphUpdate(rec, r), {})
    BY DEF UpdateEdge
  <2>2. notes' = NotesLeft \cup {}
    BY <2>1 DEF Answer
  <2> QED
    BY <1>1, <2>1, <2>2, AnswerIs
<1>4. SameFields(rec, rec', {"edges"})
  BY <1>2, EdgesAreSet DEF RecordsInv
<1>5. /\ HasFields(rec') /\ rec'.beliefs = rec.beliefs /\ rec'.signals = rec.signals
      /\ rec'.plans = rec.plans /\ rec'.decisions = rec.decisions /\ rec'.profile = rec.profile
  BY <1>4 DEF SameFields, RecordFields
<1>7. BeliefInv' /\ PlansInv' /\ DecisionsInv' /\ RecordedSignalsAreCounted' /\ ProfileInv'
  BY <1>1, <1>2, <1>5, BeliefsKept, PlansKept, DecisionsStay, CountedKept, ProfileKept DEF RecordsInv
<1>8. NotesInv'
  BY <1>2, <1>5, OthersNoted DEF RecordsInv
<1> QED
  BY <1>2, <1>5, <1>7, <1>8 DEF RecordsInv, HasFields

LEMMA PlanUpdateSteps ==
  ASSUME RecordsInv, Len(told) < MaxTold, NEW r \in PlanUpdates, UpdatePlan(r)
  PROVE  RecordsInv'
<1> DEFINE s == CurriculumPlanUpdate(rec, r)
<1>1. /\ r \in AnyRequest /\ r \notin SignalUpdates /\ r \notin DecisionUpdates
      /\ r \notin ProfileUpdates
  BY RequestsAreApart
<1>2. /\ ToldNext(told, told', r) /\ told' \in Seq(AnyRequest) /\ Len(told') <= MaxTold
      /\ rec' = s /\ notes' = NotesLeft \cup Noted("plan", r.id, rec.plans, s.plans)
      /\ UNCHANGED recFiled
  BY <1>1, AnswerIs DEF UpdatePlan
<1>3. HasFields(rec)
  BY DEF RecordsInv
<1>4. SameFields(rec, rec', {"plans"})
  BY <1>2, <1>3, PlansAreSet
<1>5. /\ HasFields(rec') /\ rec'.beliefs = rec.beliefs /\ rec'.signals = rec.signals
      /\ rec'.decisions = rec.decisions /\ rec'.profile = rec.profile
  BY <1>4 DEF SameFields, RecordFields
<1>6. PlansInv'
  BY <1>2, <1>3, PlansUpdated DEF RecordsInv
<1> HIDE DEF s
<1>7. BeliefInv' /\ DecisionsInv' /\ RecordedSignalsAreCounted' /\ ProfileInv'
  BY <1>1, <1>2, <1>5, BeliefsKept, DecisionsStay, CountedKept, ProfileKept DEF RecordsInv
<1>8. NotesInv'
  BY <1>2, <1>5, OthersNoted DEF RecordsInv
<1> QED
  BY <1>2, <1>5, <1>6, <1>7, <1>8 DEF RecordsInv, HasFields

LEMMA DecisionUpdateSteps ==
  ASSUME RecordsInv, Len(told) < MaxTold, NEW r \in DecisionUpdates, UpdateDecision(r)
  PROVE  RecordsInv'
<1>1. /\ r \in AnyRequest /\ r \notin SignalUpdates /\ r \notin PlanUpdates
      /\ r \notin ProfileUpdates
  BY RequestsAreApart
<1>2. /\ ToldNext(told, told', r) /\ told' \in Seq(AnyRequest) /\ Len(told') <= MaxTold
      /\ rec' = PolicyDecisionUpdate(rec, r) /\ notes' = NotesLeft /\ UNCHANGED recFiled
  <2>1. Answer(r, PolicyDecisionUpdate(rec, r), {})
    BY DEF UpdateDecision
  <2>2. notes' = NotesLeft \cup {}
    BY <2>1 DEF Answer
  <2> QED
    BY <1>1, <2>1, <2>2, AnswerIs
<1>3. HasFields(rec)
  BY DEF RecordsInv
<1>4. SameFields(rec, rec', {"decisions", "audit"})
  BY <1>2, <1>3, DecisionsAreSet
<1>5. /\ HasFields(rec') /\ rec'.beliefs = rec.beliefs /\ rec'.signals = rec.signals
      /\ rec'.plans = rec.plans /\ rec'.profile = rec.profile
  BY <1>4 DEF SameFields, RecordFields
<1>6. DecisionsInv'
  BY <1>2, <1>3, DecisionsUpdated DEF RecordsInv
<1>7. BeliefInv' /\ PlansInv' /\ RecordedSignalsAreCounted' /\ ProfileInv'
  BY <1>1, <1>2, <1>5, BeliefsKept, PlansKept, CountedKept, ProfileKept DEF RecordsInv
<1>8. NotesInv'
  BY <1>2, <1>5, OthersNoted DEF RecordsInv
<1> QED
  BY <1>2, <1>5, <1>6, <1>7, <1>8 DEF RecordsInv, HasFields

LEMMA RecommendSteps ==
  ASSUME RecordsInv, Len(told) < MaxTold, NEW r \in Recommends, Recommend(r)
  PROVE  RecordsInv'
<1>1. /\ r \in AnyRequest /\ r \notin SignalUpdates /\ r \notin PlanUpdates /\ r \notin DecisionUpdates
      /\ r \notin ProfileUpdates
  BY RequestsAreApart
<1>2. /\ ToldNext(told, told', r) /\ told' \in Seq(AnyRequest) /\ Len(told') <= MaxTold
      /\ rec' = CurriculumRecommendation(rec, r) /\ notes' = NotesLeft /\ UNCHANGED recFiled
  <2>1. Answer(r, CurriculumRecommendation(rec, r), {})
    BY DEF Recommend
  <2>2. notes' = NotesLeft \cup {}
    BY <2>1 DEF Answer
  <2> QED
    BY <1>1, <2>1, <2>2, AnswerIs
<1>4. SameFields(rec, rec', {"snapshots", "audit"})
  BY <1>2, SnapshotsAreSet DEF RecordsInv
<1>5. /\ HasFields(rec') /\ rec'.beliefs = rec.beliefs /\ rec'.signals = rec.signals
      /\ rec'.plans = rec.plans /\ rec'.decisions = rec.decisions /\ rec'.profile = rec.profile
  BY <1>4 DEF SameFields, RecordFields
<1>7. BeliefInv' /\ PlansInv' /\ DecisionsInv' /\ RecordedSignalsAreCounted' /\ ProfileInv'
  BY <1>1, <1>2, <1>5, BeliefsKept, PlansKept, DecisionsStay, CountedKept, ProfileKept DEF RecordsInv
<1>8. NotesInv'
  BY <1>2, <1>5, OthersNoted DEF RecordsInv
<1> QED
  BY <1>2, <1>5, <1>7, <1>8 DEF RecordsInv, HasFields

LEMMA SignalSteps ==
  ASSUME RecordsInv, Len(told) < MaxTold, NEW r \in SignalUpdates, Signal(r)
  PROVE  RecordsInv'
<1> DEFINE s == MisconceptionSignal(rec, r)
<1>1. /\ r \in AnyRequest /\ r \notin PlanUpdates /\ r \notin DecisionUpdates /\ r \notin ProfileUpdates
  BY RequestsAreApart
<1>2. /\ ToldNext(told, told', r) /\ told' \in Seq(AnyRequest) /\ Len(told') <= MaxTold
      /\ rec' = s /\ notes' = NotesLeft \cup Noted("belief", r.key, rec.beliefs, s.beliefs)
      /\ UNCHANGED recFiled
  BY <1>1, AnswerIs DEF Signal
<1>3. HasFields(rec)
  BY DEF RecordsInv
<1>4. /\ SameFields(rec, rec', {"signals", "beliefs", "audit"})
      /\ rec'.signals \subseteq rec.signals \cup {r}
      /\ rec'.beliefs = Put(rec.beliefs, r.key, NextBelief(rec, r))
  BY <1>2, <1>3, BeliefsAreSet
<1> HIDE DEF s
<1>5. /\ HasFields(rec') /\ rec'.plans = rec.plans /\ rec'.decisions = rec.decisions
      /\ rec'.profile = rec.profile
  BY <1>4 DEF SameFields, RecordFields
<1>6. BeliefInv'
  BY <1>2, <1>4, BeliefsCounted DEF RecordsInv
<1>7. PlansInv' /\ DecisionsInv' /\ ProfileInv'
  BY <1>1, <1>2, <1>5, PlansKept, DecisionsStay, ProfileKept DEF RecordsInv
<1>8. NotesInv'
  BY <1>2, <1>4, SignalNoted DEF RecordsInv
<1>9. RecordedSignalsAreCounted'
  <2>1. /\ r.key \in DOMAIN rec'.beliefs /\ r.id \in rec'.beliefs[r.key].signals
        /\ \A k \in DOMAIN rec.beliefs :
             k \in DOMAIN rec'.beliefs /\ rec.beliefs[k].signals \subseteq rec'.beliefs[k].signals
    <3> DEFINE v == NextBelief(rec, r)
    <3>1. /\ r.id \in v.signals
          /\ r.key \in DOMAIN rec.beliefs => rec.beliefs[r.key].signals \subseteq v.signals
      BY DEF NextBelief, MergeMisconception, NewBelief, CountSignal
    <3> HIDE DEF v
    <3> QED
      BY <1>4, <3>1 DEF Put, v
  <2> QED
    BY <1>2, <1>4, <2>1 DEF RecordedSignalsAreCounted, RecordsInv
<1> QED
  BY <1>2, <1>5, <1>6, <1>7, <1>8, <1>9 DEF RecordsInv, HasFields

\* A refused signal is not told; with a state file it leaves nothing.
LEMMA RefusedSteps ==
  ASSUME RecordsInv, NEW r \in SignalUpdates, SignalRefused(r)
  PROVE  RecordsInv'
<1>1. /\ UNCHANGED <<recFiled, told>> /\ notes' = NotesLeft
      /\ rec' = IF recFiled THEN rec ELSE UpsertSignal(rec, r)
  BY DEF SignalRefused, LeftByRefused
<1>2. SameFields(rec, rec', {"signals"}) /\ (recFiled => rec' = rec)
  BY <1>1, SignalsAreSet DEF RecordsInv, SameFields
<1>5. /\ HasFields(rec') /\ rec'.beliefs = rec.beliefs
      /\ rec'.plans = rec.plans /\ rec'.decisions = rec.decisions /\ rec'.profile = rec.profile
  BY <1>2 DEF SameFields, RecordFields
<1>7. BeliefInv' /\ PlansInv' /\ DecisionsInv' /\ ProfileInv'
  BY <1>1, <1>5, BeliefsKept, PlansKept, DecisionsStay, ProfileKept DEF RecordsInv
<1>8. NotesInv'
  BY <1>1, <1>5, OthersNoted DEF RecordsInv
<1>9. RecordedSignalsAreCounted'
  BY <1>1, <1>2 DEF RecordedSignalsAreCounted, RecordsInv
<1> QED
  BY <1>1, <1>5, <1>7, <1>8, <1>9 DEF RecordsInv, HasFields

LEMMA RecordsSteps == RecordsInv /\ [RecordsNext]_recordVars => RecordsInv'
<1> SUFFICES ASSUME RecordsInv, [RecordsNext]_recordVars PROVE RecordsInv'
  OBVIOUS
<1>1. CASE UNCHANGED recordVars
  <2>1. rec' = rec /\ told' = told /\ recFiled' = recFiled /\ notes' = notes
    BY <1>1 DEF recordVars
  <2>2. BeliefInv' /\ PlansInv' /\ DecisionsInv' /\ ProfileInv' /\ RecordedSignalsAreCounted'
    BY <2>1, BeliefsKept, PlansKept, DecisionsStay, ProfileKept, CountedKept DEF RecordsInv
  <2> QED
    BY <2>1, <2>2 DEF RecordsInv, HasFields, NotesInv, NotesAre
<1>2. CASE RecordsNext
  BY <1>2, ProfileUpdateSteps, EdgeUpdateSteps, SignalSteps, RefusedSteps, PlanUpdateSteps,
     DecisionUpdateSteps, RecommendSteps DEF RecordsNext
<1> QED
  BY <1>1, <1>2

LEMMA RecordsInvIsRight == RecordsInv => RecordsTypeOK /\ RecordsAreRight
<1> SUFFICES ASSUME RecordsInv PROVE RecordsTypeOK /\ RecordsAreRight
  OBVIOUS
<1>1. ProfileNewestWins /\ SignalsCountOnce /\ StrictnessStays /\ RecordedSignalsAreCounted
  BY ProfileInvIs, BeliefInvIs, StrictnessInvIs DEF RecordsInv
<1>2. ChangesAreNoted
  BY DEF RecordsInv, NotesInv, NotesAre, BeliefNotes, ChangesAreNoted
<1>3. DOMAIN rec = DOMAIN NoRecords
  BY DEF RecordsInv, HasFields, RecordFields, NoRecords
<1>4. \A k \in DOMAIN rec.beliefs : rec.beliefs[k].confidence \in 0..100
  BY DEF RecordsInv, BeliefInv, BeliefIs
<1> QED
  BY <1>1, <1>2, <1>3, <1>4 DEF RecordsInv, RecordsTypeOK, RecordsAreRight

\* Of any updates, in any order and however often delivered: the newest value of a
\* profile attribute wins, a signal counts once, a recorded signal was counted, a
\* blocked item and a strict decision stay, and without a state file the signals of a
\* misconception are noted.
THEOREM RecordsRight == RecordsSpec => [](RecordsTypeOK /\ RecordsAreRight)
<1>1. RecordsSpec => []RecordsInv
  BY RecordsInits, RecordsSteps, PTL DEF RecordsSpec
<1> QED
  BY <1>1, RecordsInvIsRight, PTL

-----------------------------------------------------------------------------
(* RetrievalPlanner                                                         *)

\* A closure holds its seeds and what its members add, and nothing that a set
\* which does so lacks.
LEMMA ClosureIs ==
  ASSUME NEW all, NEW seeds \in SUBSET all, NEW step, \A x \in all : step[x] \subseteq all
  PROVE  /\ seeds \subseteq Closure(seeds, all, step)
         /\ Closure(seeds, all, step) \subseteq all
         /\ \A x \in Closure(seeds, all, step) : step[x] \subseteq Closure(seeds, all, step)
         /\ \A T \in SUBSET all : seeds \subseteq T /\ (\A x \in T : step[x] \subseteq T)
                                  => Closure(seeds, all, step) \subseteq T
BY DEF Closure

-----------------------------------------------------------------------------
(* No user's scope is allowed by another user's selector.                   *)

\* A user's scope is above no scope: it is allowed when it is selected.
LEMMA UsersAbove ==
  ASSUME NEW select, NEW s \in Upwards(select), ScopeIs[s].level = "user"
  PROVE  s \in Seeds(select)
<1> DEFINE T == {x \in RScope : ScopeIs[x].level = "user" => x \in Seeds(select)}
           seeds == Common \cup Seeds(select)
<1>1. seeds \in SUBSET RScope
  BY DEF Common, Seeds
<1>2. \A x \in RScope : ParentOf[x] \subseteq RScope
                        /\ \A y \in ParentOf[x] : ScopeIs[y].level # "user"
  BY RetrievalAssumption DEF ParentOf
<1>3. seeds \subseteq T /\ T \in SUBSET RScope
  BY DEF Common, Seeds
<1>4. \A x \in T : ParentOf[x] \subseteq T
  BY <1>2
<1> HIDE DEF T, seeds
<1>5. Closure(seeds, RScope, ParentOf) \subseteq T
  BY <1>1, <1>2, <1>3, <1>4, ClosureIs
<1>6. s \in T
  BY <1>5 DEF Upwards, seeds
<1> QED
  BY <1>6 DEF T

\* Nor is one below it.
LEMMA UsersBelow ==
  ASSUME NEW select, \A x \in select : x.level = "user"
  PROVE  Downwards(select) \subseteq Seeds(select)
<1> DEFINE S == Seeds(select)
           new == [s \in RScope |-> {c \in RScope : ScopeIs[c].parent = s} \ Upwards(select)]
<1>1. S \in SUBSET RScope /\ \A x \in S : ScopeIs[x].level = "user"
  BY DEF Seeds
<1>2. \A x \in RScope : new[x] \subseteq RScope
  OBVIOUS
<1>3. ASSUME NEW x \in S PROVE new[x] \subseteq S
  <2>1. \A c \in RScope : ScopeIs[c].parent # x
    BY <1>1, RetrievalAssumption
  <2> QED
    BY <1>1, <2>1
<1>4. Downwards(select) = Closure(S, RScope, new)
  BY DEF Downwards
<1> HIDE DEF S, new
<1>5. Closure(S, RScope, new) \subseteq S
  BY <1>1, <1>2, <1>3, ClosureIs
<1> QED
  BY <1>4, <1>5 DEF S

LEMMA OnlySelectedUsers ==
  ASSUME NEW r \in RRequests, r.select # {}, \A x \in r.select : x.level = "user",
         NEW s \in Allowed[r], ScopeIs[s].level = "user"
  PROVE  \E x \in r.select : x.owner = ScopeIs[s].owner
<1>1. s \in Upwards(r.select) \cup Downwards(r.select)
  BY DEF Allowed, AllowedScopes
<1>2. s \in Seeds(r.select)
  BY <1>1, UsersAbove, UsersBelow
<1>3. [level |-> ScopeIs[s].level, owner |-> ScopeIs[s].owner] \in r.select
  BY <1>2 DEF Seeds
<1> QED
  BY <1>3

-----------------------------------------------------------------------------
(* A component holds what a chain of conflicts reaches.                     *)

LEMMA ComponentIs ==
  ASSUME NEW H, NEW m \in H
  PROVE  /\ m \in Component(m, H) /\ Component(m, H) \subseteq H
         /\ \A x \in Component(m, H) : ConflictsOf(x, H) \subseteq Component(m, H)
         /\ \A T \in SUBSET H : m \in T /\ (\A x \in T : ConflictsOf(x, H) \subseteq T)
                                => Component(m, H) \subseteq T
<1> DEFINE near == [x \in H |-> ConflictsOf(x, H)]
           seeds == {m}
<1>1. /\ seeds \in SUBSET H /\ \A x \in H : near[x] \subseteq H
      /\ \A x \in H : near[x] = ConflictsOf(x, H)
  BY DEF ConflictsOf
<1>2. Component(m, H) = Closure(seeds, H, near)
  BY DEF Component
<1>3. m \in seeds /\ \A T : m \in T => seeds \subseteq T
  OBVIOUS
<1> HIDE DEF near, seeds
<1>4. /\ seeds \subseteq Component(m, H) /\ Component(m, H) \subseteq H
      /\ \A x \in Component(m, H) : near[x] \subseteq Component(m, H)
      /\ \A T \in SUBSET H : seeds \subseteq T /\ (\A x \in T : near[x] \subseteq T)
                             => Component(m, H) \subseteq T
  BY <1>1, <1>2, ClosureIs
<1>5. \A x \in Component(m, H) : ConflictsOf(x, H) \subseteq Component(m, H)
  BY <1>1, <1>4
<1>6. ASSUME NEW T \in SUBSET H, m \in T, \A x \in T : ConflictsOf(x, H) \subseteq T
      PROVE  Component(m, H) \subseteq T
  <2>1. seeds \subseteq T
    BY <1>3, <1>6
  <2>2. \A x \in T : near[x] \subseteq T
    BY <1>1, <1>6
  <2> QED
    BY <1>4, <2>1, <2>2
<1> QED
  BY <1>3, <1>4, <1>5, <1>6

\* Its members have it as their component.
LEMMA ComponentsMeet ==
  ASSUME NEW H, NEW m \in H, NEW n \in Component(m, H)
  PROVE  Component(n, H) = Component(m, H)
<1> DEFINE A == Component(m, H)
           T == {x \in A : m \in Component(x, H)}
<1>1. /\ m \in A /\ A \subseteq H /\ \A x \in A : ConflictsOf(x, H) \subseteq A
      /\ \A S \in SUBSET H : m \in S /\ (\A x \in S : ConflictsOf(x, H) \subseteq S)
                             => A \subseteq S
  BY ComponentIs
<1>2. \A x \in A : Component(x, H) \subseteq A
  BY <1>1, ComponentIs
<1>3. m \in T
  BY <1>1, ComponentIs
<1>4. ASSUME NEW x \in T, NEW y \in ConflictsOf(x, H) PROVE y \in T
  <2>1. x \in A /\ y \in A /\ x \in H /\ y \in H /\ m \in Component(x, H)
    BY <1>1, <1>4
  <2>2. x \in ConflictsOf(y, H)
    BY <1>4, <2>1 DEF ConflictsOf, Linked
  <2>3. x \in Component(y, H)
    BY <2>1, <2>2, ComponentIs
  <2>4. \A z \in Component(y, H) : ConflictsOf(z, H) \subseteq Component(y, H)
    BY <2>1, ComponentIs
  <2>5. Component(y, H) \in SUBSET H
    BY <2>1, ComponentIs
  <2>6. Component(x, H) \subseteq Component(y, H)
    BY <2>1, <2>3, <2>4, <2>5, ComponentIs
  <2> QED
    BY <2>1, <2>6
<1>5. A \subseteq T
  BY <1>1, <1>3, <1>4
<1>6. n \in H /\ m \in Component(n, H)
  BY <1>1, <1>5
<1>7. /\ Component(n, H) \in SUBSET H
      /\ \A x \in Component(n, H) : ConflictsOf(x, H) \subseteq Component(n, H)
  BY <1>6, ComponentIs
<1>8. A \subseteq Component(n, H)
  BY <1>1, <1>6, <1>7
<1> QED
  BY <1>2, <1>8

-----------------------------------------------------------------------------
(* Truth and rank order the candidates.                                     *)

RowsInv ==
  \A m \in RMemory :
    rows[m] = NoRow \/ (rows[m].updated \in Int /\ rows[m].expires \in Int \cup {NoTime})
LiveSets == SUBSET {m \in RMemory : LiveMemory(m)}

LEMMA MaximumIs ==
  ASSUME NEW S \in SUBSET Int, IsFiniteSet(S), S # {}
  PROVE  Maximum(S) \in S /\ \A y \in S : y <= Maximum(S)
<1> DEFINE R == {e \in S \X S : e[1] > e[2]}
<1>1. \A x, y \in S : <<x, y>> \in R <=> x > y
  OBVIOUS
<1> HIDE DEF R
<1>2. IsOrder(R, S)
  BY <1>1 DEF IsOrder
<1>3. PICK x \in S : \A y \in S \ {x} : <<x, y>> \in R
  BY <1>2, FirstIsThere
<1>4. \A y \in S : y <= x
  <2> SUFFICES ASSUME NEW y \in S, y # x PROVE y <= x
    OBVIOUS
  <2>1. x > y
    BY <1>1, <1>3
  <2> QED
    BY <2>1
<1> QED
  BY <1>4 DEF Maximum

LEMMA MinimumIs ==
  ASSUME NEW S \in SUBSET Int, IsFiniteSet(S), S # {}
  PROVE  Minimum(S) \in S /\ \A y \in S : Minimum(S) <= y
<1> DEFINE R == {e \in S \X S : e[1] < e[2]}
<1>1. \A x, y \in S : <<x, y>> \in R <=> x < y
  OBVIOUS
<1> HIDE DEF R
<1>2. IsOrder(R, S)
  BY <1>1 DEF IsOrder
<1>3. PICK x \in S : \A y \in S \ {x} : <<x, y>> \in R
  BY <1>2, FirstIsThere
<1>4. \A y \in S : x <= y
  <2> SUFFICES ASSUME NEW y \in S, y # x PROVE x <= y
    OBVIOUS
  <2>1. x < y
    BY <1>1, <1>3
  <2> QED
    BY <2>1
<1> QED
  BY <1>4 DEF Minimum

LEMMA LiveIs ==
  ASSUME RowsInv, NEW m \in RMemory, LiveMemory(m)
  PROVE  /\ rows[m].updated \in Int /\ rows[m].expires \in Int \cup {NoTime}
         /\ Lifespan(m) \in Int
<1>1. rows[m] # NoRow
  BY DEF LiveMemory, NoRow
<1> QED
  BY <1>1 DEF RowsInv, Lifespan

LEMMA ContextIs ==
  ASSUME RowsInv, NEW C \in LiveSets, C # {}
  PROVE  /\ DecayContext(C).min \in Int /\ DecayContext(C).span \in Int
         /\ DecayContext(C).life \in Int
<1> DEFINE at == [m \in C |-> rows[m].updated]
           times == {at[m] : m \in C}
           lasts == [m \in C |-> Lifespan(m)]
           lives == {lasts[m] : m \in C}
<1>1. \A m \in C : m \in RMemory /\ LiveMemory(m)
  BY DEF LiveSets
<1>2. IsFiniteSet(C)
  <2>1. C \subseteq RMemory
    BY <1>1
  <2> QED
    BY <2>1, RetrievalAssumption, FS_Subset
<1>3. \A m \in C : at[m] \in Int /\ lasts[m] \in Int
  BY <1>1, LiveIs
<1>4. times = {rows[m].updated : m \in C} /\ lives = {Lifespan(m) : m \in C}
  OBVIOUS
<1> HIDE DEF at, lasts
<1>5. times \in SUBSET Int /\ lives \in SUBSET Int /\ times # {}
  BY <1>3
<1>6. IsFiniteSet(times)
  BY <1>2, ImageIsFinite
<1>7. IsFiniteSet(lives)
  BY <1>2, ImageIsFinite
<1> HIDE DEF times, lives
<1>8. lives \cup {0} \in SUBSET Int /\ lives \cup {0} # {} /\ IsFiniteSet(lives \cup {0})
  BY <1>5, <1>7, FS_AddElement
<1>9. Maximum(times) \in Int /\ Minimum(times) \in Int
  BY <1>5, <1>6, MaximumIs, MinimumIs
<1>10. Maximum(lives \cup {0}) \in Int
  <2> DEFINE L == lives \cup {0}
  <2> HIDE DEF L
  <2>1. Maximum(L) \in L
    BY <1>8, MaximumIs DEF L
  <2> QED
    BY <1>8, <2>1 DEF L
<1>11. DecayContext(C) = [min |-> Minimum(times), span |-> Maximum(times) - Minimum(times),
                          life |-> Maximum(lives \cup {0})]
  BY <1>4 DEF DecayContext
<1>12. Maximum(times) - Minimum(times) \in Int
  BY <1>9
<1> QED
  BY <1>9, <1>10, <1>11, <1>12

LEMMA TimesIs == ASSUME NEW a \in Int, NEW b \in Int PROVE a * b \in Int
OBVIOUS

LEMMA DecayIs ==
  ASSUME RowsInv, NEW c, c.min \in Int, c.span \in Int, c.life \in Int,
         NEW m \in RMemory, LiveMemory(m)
  PROVE  DecaySignal(m, c) \in Int /\ Unit(c) \in Int
<1>1. /\ rows[m].updated \in Int /\ rows[m].expires \in Int \cup {NoTime}
      /\ Lifespan(m) \in Int
  BY LiveIs
<1> DEFINE recency == IF c.span = 0 THEN 1 ELSE rows[m].updated - c.min
           expiry == IF rows[m].expires = NoTime \/ c.life = 0 THEN Positive(c.life)
                     ELSE Lifespan(m)
           a == Positive(c.life)
           b == Positive(c.span)
<1>2. a \in Int /\ b \in Int /\ recency \in Int
  BY <1>1 DEF Positive
<1>3. expiry \in Int
  BY <1>1, <1>2
<1>4. DecaySignal(m, c) = 7 * recency * a + 3 * expiry * b /\ Unit(c) = 10 * b * a
  BY DEF DecaySignal, Unit
<1> HIDE DEF recency, expiry, a, b
<1>5. 7 * recency \in Int /\ 3 * expiry \in Int /\ 10 * b \in Int
  BY <1>2, <1>3
<1>6. 7 * recency * a \in Int /\ 3 * expiry * b \in Int /\ 10 * b * a \in Int
  BY <1>2, <1>5, TimesIs
<1> QED
  BY <1>4, <1>6

LEMMA ScoreIs ==
  ASSUME RowsInv, NEW C \in LiveSets, NEW r \in RRequests, NEW m \in C
  PROVE  RankingScore(m, r, C) \in Int
<1> DEFINE c == DecayContext(C)
           u == Unit(c)
           d == DecaySignal(m, c)
           p == r.weights.relevance * MemoryIs[m].relevance
           q == r.weights.other * MemoryIs[m].other
           weight == SignalUnit * r.weights.decay
<1>1. m \in RMemory /\ LiveMemory(m)
  BY DEF LiveSets
<1>2. c.min \in Int /\ c.span \in Int /\ c.life \in Int
  BY ContextIs
<1> HIDE DEF c
<1>3. u \in Int /\ d \in Int
  BY <1>1, <1>2, DecayIs
<1>4. p \in Int /\ q \in Int /\ weight \in Int
  BY <1>1, RetrievalAssumption, TimesIs
<1>5. RankingScore(m, r, C) = u * (p + q) + weight * d
  BY DEF RankingScore, c
<1> HIDE DEF u, d, p, q, weight
<1>6. p + q \in Int
  BY <1>4
<1>7. u * (p + q) \in Int /\ weight * d \in Int
  BY <1>3, <1>4, <1>6, TimesIs
<1> QED
  BY <1>5, <1>7

LEMMA RankIs ==
  ASSUME RowsInv, NEW C \in LiveSets, NEW r \in RRequests, NEW m \in C
  PROVE  LET x == Rank(m, r, C)
             t == Truth(m, r, C)
         IN /\ Len(x) = 4 /\ \A i \in 1..4 : x[i] \in Int
            /\ x[4] = 0 - m
            /\ Len(t) = 5 /\ t[1] = rows[m].updated /\ t[2] = x[1] /\ t[3] = x[2]
            /\ t[4] = x[3] /\ t[5] = x[4]
<1> DEFINE a == RankingScore(m, r, C)
           b == ScopeRank(MemoryIs[m].scope)
           d == rows[m].updated
           x == Rank(m, r, C)
<1>1. m \in RMemory /\ LiveMemory(m) /\ m \in Int
  BY RetrievalAssumption DEF LiveSets
<1>2. a \in Int /\ d \in Int
  BY <1>1, ScoreIs, LiveIs
<1>3. b \in Int
  <2>1. MemoryIs[m].scope \in RScope
    BY <1>1, RetrievalAssumption
  <2> QED
    BY <2>1, RetrievalAssumption DEF ScopeRank
<1>4. x = <<a, b, d, 0 - m>> /\ Truth(m, r, C) = <<d>> \o <<a, b, d, 0 - m>>
  BY DEF Rank, Truth
<1> HIDE DEF a, b, d, x
<1>5. <<d>> \in Seq(Int) /\ <<a, b, d, 0 - m>> \in Seq(Int)
      /\ Len(<<d>>) = 1 /\ Len(<<a, b, d, 0 - m>>) = 4
  BY <1>1, <1>2, <1>3
<1> DEFINE s == <<d>>
           y == <<a, b, d, 0 - m>>
<1>6. s[1] = d /\ y[1] = a /\ y[2] = b /\ y[3] = d /\ y[4] = 0 - m
  OBVIOUS
<1>7. /\ Len(x) = 4 /\ x[1] = a /\ x[2] = b /\ x[3] = d /\ x[4] = 0 - m
  BY <1>4
<1>8. /\ Len(Truth(m, r, C)) = 5 /\ Truth(m, r, C)[1] = d /\ Truth(m, r, C)[2] = a
      /\ Truth(m, r, C)[3] = b /\ Truth(m, r, C)[4] = d /\ Truth(m, r, C)[5] = 0 - m
  <2> HIDE DEF s, y
  <2>1. Len(s \o y) = 5 /\ (s \o y)[1] = s[1] /\ (s \o y)[2] = y[1] /\ (s \o y)[3] = y[2]
        /\ (s \o y)[4] = y[3] /\ (s \o y)[5] = y[4]
    BY <1>5 DEF s, y
  <2> QED
    BY <1>4, <1>6, <2>1 DEF s, y
<1>9. 0 - m \in Int
  BY <1>1
<1>10. \A i \in 1..4 : x[i] \in Int
  <2>1. \A i \in 1..4 : i = 1 \/ i = 2 \/ i = 3 \/ i = 4
    OBVIOUS
  <2> QED
    BY <1>2, <1>3, <1>7, <1>9, <2>1
<1> QED
  BY <1>7, <1>8, <1>10 DEF x, d

\* The comparison of tuples, spelled out.
LEMMA GreaterOfFour ==
  ASSUME NEW x, NEW y, Len(x) = 4
  PROVE  Greater(x, y) <=>
           \/ x[1] > y[1]
           \/ x[1] = y[1] /\ x[2] > y[2]
           \/ x[1] = y[1] /\ x[2] = y[2] /\ x[3] > y[3]
           \/ x[1] = y[1] /\ x[2] = y[2] /\ x[3] = y[3] /\ x[4] > y[4]
<1>1. 1..4 = {1, 2, 3, 4} /\ 1..(1 - 1) = {} /\ 1..(2 - 1) = {1} /\ 1..(3 - 1) = {1, 2}
      /\ 1..(4 - 1) = {1, 2, 3}
  OBVIOUS
<1> QED
  BY <1>1 DEF Greater

LEMMA GreaterOfFive ==
  ASSUME NEW x, NEW y, Len(x) = 5
  PROVE  Greater(x, y) <=>
           \/ x[1] > y[1]
           \/ x[1] = y[1] /\ x[2] > y[2]
           \/ x[1] = y[1] /\ x[2] = y[2] /\ x[3] > y[3]
           \/ x[1] = y[1] /\ x[2] = y[2] /\ x[3] = y[3] /\ x[4] > y[4]
           \/ x[1] = y[1] /\ x[2] = y[2] /\ x[3] = y[3] /\ x[4] = y[4] /\ x[5] > y[5]
<1>1. 1..5 = {1, 2, 3, 4, 5} /\ 1..(1 - 1) = {} /\ 1..(2 - 1) = {1} /\ 1..(3 - 1) = {1, 2}
      /\ 1..(4 - 1) = {1, 2, 3} /\ 1..(5 - 1) = {1, 2, 3, 4}
  OBVIOUS
<1> QED
  BY <1>1 DEF Greater

RankOrder(r, C, S) == {e \in S \X S : Greater(Rank(e[1], r, C), Rank(e[2], r, C))}
TruthOrder(r, C, S) == {e \in S \X S : Greater(Truth(e[1], r, C), Truth(e[2], r, C))}

LEMMA RanksOrder ==
  ASSUME RowsInv, NEW C \in LiveSets, NEW r \in RRequests, NEW S \in SUBSET C
  PROVE  IsOrder(RankOrder(r, C, S), S)
<1> DEFINE x == [m \in S |-> Rank(m, r, C)]
           R == RankOrder(r, C, S)
<1>1. \A m, n \in S : <<m, n>> \in R <=> Greater(x[m], x[n])
  BY DEF RankOrder
<1>2. \A m \in S : Len(x[m]) = 4 /\ x[m][1] \in Int /\ x[m][2] \in Int /\ x[m][3] \in Int
                   /\ x[m][4] = 0 - m
  BY RankIs
<1>3. \A m \in S : m \in Int
  BY RetrievalAssumption DEF LiveSets
<1> HIDE DEF x, R
<1>4. \A m, n \in S : <<m, n>> \in R <=>
           \/ x[m][1] > x[n][1]
           \/ x[m][1] = x[n][1] /\ x[m][2] > x[n][2]
           \/ x[m][1] = x[n][1] /\ x[m][2] = x[n][2] /\ x[m][3] > x[n][3]
           \/ x[m][1] = x[n][1] /\ x[m][2] = x[n][2] /\ x[m][3] = x[n][3] /\ 0 - m > 0 - n
  BY <1>1, <1>2, GreaterOfFour
<1>5. IsOrder(R, S)
  BY <1>2, <1>3, <1>4 DEF IsOrder
<1> QED
  BY <1>5 DEF R

LEMMA TruthsOrder ==
  ASSUME RowsInv, NEW C \in LiveSets, NEW r \in RRequests, NEW S \in SUBSET C
  PROVE  /\ IsOrder(TruthOrder(r, C, S), S)
         /\ \A m, n \in S : <<m, n>> \in TruthOrder(r, C, S) =>
                              rows[m].updated >= rows[n].updated
<1> DEFINE x == [m \in S |-> Truth(m, r, C)]
           R == TruthOrder(r, C, S)
<1>1. \A m, n \in S : <<m, n>> \in R <=> Greater(x[m], x[n])
  BY DEF TruthOrder
<1>2. \A m \in S : Len(x[m]) = 5 /\ x[m][1] \in Int /\ x[m][2] \in Int /\ x[m][3] \in Int
                   /\ x[m][4] \in Int /\ x[m][5] = 0 - m /\ x[m][1] = rows[m].updated
  <2> SUFFICES ASSUME NEW m \in S
               PROVE  Len(x[m]) = 5 /\ x[m][1] \in Int /\ x[m][2] \in Int /\ x[m][3] \in Int
                   /\ x[m][4] \in Int /\ x[m][5] = 0 - m /\ x[m][1] = rows[m].updated
    OBVIOUS
  <2>1. m \in RMemory /\ LiveMemory(m)
    BY DEF LiveSets
  <2>2. rows[m].updated \in Int
    BY <2>1, LiveIs
  <2> QED
    BY <2>2, RankIs
<1>3. \A m \in S : m \in Int
  BY RetrievalAssumption DEF LiveSets
<1> HIDE DEF x, R
<1>4. \A m, n \in S : <<m, n>> \in R <=>
           \/ x[m][1] > x[n][1]
           \/ x[m][1] = x[n][1] /\ x[m][2] > x[n][2]
           \/ x[m][1] = x[n][1] /\ x[m][2] = x[n][2] /\ x[m][3] > x[n][3]
           \/ x[m][1] = x[n][1] /\ x[m][2] = x[n][2] /\ x[m][3] = x[n][3] /\ x[m][4] > x[n][4]
           \/ /\ x[m][1] = x[n][1] /\ x[m][2] = x[n][2] /\ x[m][3] = x[n][3]
              /\ x[m][4] = x[n][4] /\ 0 - m > 0 - n
  <2> SUFFICES ASSUME NEW m \in S, NEW n \in S
      PROVE  <<m, n>> \in R <=>
           \/ x[m][1] > x[n][1]
           \/ x[m][1] = x[n][1] /\ x[m][2] > x[n][2]
           \/ x[m][1] = x[n][1] /\ x[m][2] = x[n][2] /\ x[m][3] > x[n][3]
           \/ x[m][1] = x[n][1] /\ x[m][2] = x[n][2] /\ x[m][3] = x[n][3] /\ x[m][4] > x[n][4]
           \/ /\ x[m][1] = x[n][1] /\ x[m][2] = x[n][2] /\ x[m][3] = x[n][3]
              /\ x[m][4] = x[n][4] /\ 0 - m > 0 - n
    OBVIOUS
  <2>1. Len(x[m]) = 5 /\ x[m][5] = 0 - m /\ x[n][5] = 0 - n
    BY <1>2
  <2>2. <<m, n>> \in R <=> Greater(x[m], x[n])
    BY <1>1
  <2> QED
    BY <2>1, <2>2, GreaterOfFive
<1>5. IsOrder(R, S)
  BY <1>2, <1>3, <1>4 DEF IsOrder
<1>6. \A m, n \in S : <<m, n>> \in R => rows[m].updated >= rows[n].updated
  BY <1>2, <1>4
<1> QED
  BY <1>5, <1>6 DEF R

-----------------------------------------------------------------------------
(* What is chosen of what the caller may see, and how it is listed.         *)

LEMMA CandidatesLive == ASSUME NEW r PROVE Candidates(r) \in LiveSets
BY DEF Candidates, LiveSets

LEMMA LiveFinite ==
  ASSUME NEW C \in LiveSets, NEW S \in SUBSET C
  PROVE  IsFiniteSet(S) /\ Cardinality(S) \in Nat
<1>1. S \subseteq RMemory
  BY DEF LiveSets
<1>2. IsFiniteSet(S)
  BY <1>1, RetrievalAssumption, FS_Subset
<1> QED
  BY <1>2, FS_CardinalityType

LEMMA ChosenIs ==
  ASSUME NEW r, NEW C, NEW m
  PROVE  m \in Reconciled(r, C) <=>
           /\ m \in C \ hidden
           /\ \A n \in Component(m, C \ hidden) \ {m} : Greater(Truth(m, r, C), Truth(n, r, C))
<1> DEFINE H == C \ hidden
           truth == [x \in H |-> Truth(x, r, C)]
<1>1. Reconciled(r, C) =
        {x \in H : \A n \in Component(x, H) \ {x} : Greater(truth[x], truth[n])}
  BY DEF Reconciled
<1>2. \A x \in H : Component(x, H) \subseteq H
  BY ComponentIs
<1>3. \A x \in H : truth[x] = Truth(x, r, C)
  OBVIOUS
<1> HIDE DEF H, truth
<1>4. m \in Reconciled(r, C) <=>
        m \in H /\ \A n \in Component(m, H) \ {m} : Greater(truth[m], truth[n])
  BY <1>1
<1>5. m \in Reconciled(r, C) <=>
        m \in H /\ \A n \in Component(m, H) \ {m} : Greater(Truth(m, r, C), Truth(n, r, C))
  BY <1>2, <1>3, <1>4
<1> QED
  BY <1>5 DEF H

\* One memory of each component is chosen, none older than another one.
LEMMA OneIsChosen ==
  ASSUME RowsInv, NEW C \in LiveSets, NEW r \in RRequests, NEW m \in C \ hidden
  PROVE  \E h \in Reconciled(r, C) :
           h \in Component(m, C \ hidden) /\ rows[h].updated >= rows[m].updated
<1> DEFINE H == C \ hidden
           A == Component(m, H)
           R == TruthOrder(r, C, A)
<1>1. A \in SUBSET C /\ m \in A /\ A \subseteq H
  BY ComponentIs
<1>2. IsFiniteSet(A) /\ A # {}
  BY <1>1, LiveFinite
<1>3. /\ IsOrder(R, A)
      /\ \A x, y \in A : <<x, y>> \in R => rows[x].updated >= rows[y].updated
  BY <1>1, TruthsOrder
<1>4. \A x, y : <<x, y>> \in R => Greater(Truth(x, r, C), Truth(y, r, C))
  BY DEF TruthOrder
<1> HIDE DEF A, R
<1>5. PICK h \in A : \A y \in A \ {h} : <<h, y>> \in R
  BY <1>2, <1>3, FirstIsThere
<1>6. Component(h, H) = A
  BY <1>5, ComponentsMeet DEF A
<1>7. h \in Reconciled(r, C)
  BY <1>1, <1>4, <1>5, <1>6, ChosenIs
<1>8. rows[h].updated >= rows[m].updated
  <2>1. CASE h = m
    <3>1. m \in RMemory /\ LiveMemory(m)
      BY DEF LiveSets
    <3> QED
      BY <2>1, <3>1, LiveIs
  <2>2. CASE h # m
    BY <1>1, <1>3, <1>5, <2>2
  <2> QED
    BY <2>1, <2>2
<1> QED
  BY <1>5, <1>7, <1>8 DEF A

\* No two of them are linked.
LEMMA ChosenApart ==
  ASSUME RowsInv, NEW C \in LiveSets, NEW r \in RRequests,
         NEW a \in Reconciled(r, C), NEW b \in Reconciled(r, C), a # b
  PROVE  ~Linked(a, b)
<1> DEFINE H == C \ hidden
           R == TruthOrder(r, C, C)
<1> SUFFICES ASSUME Linked(a, b) PROVE FALSE
  OBVIOUS
<1>1. /\ a \in H /\ \A n \in Component(a, H) \ {a} : Greater(Truth(a, r, C), Truth(n, r, C))
      /\ b \in H /\ \A n \in Component(b, H) \ {b} : Greater(Truth(b, r, C), Truth(n, r, C))
  BY ChosenIs
<1>2. b \in ConflictsOf(a, H) /\ a \in ConflictsOf(b, H)
  BY <1>1 DEF ConflictsOf, Linked
<1>3. b \in Component(a, H) /\ a \in Component(b, H)
  BY <1>1, <1>2, ComponentIs
<1>4. <<a, b>> \in R /\ <<b, a>> \in R
  BY <1>1, <1>3 DEF TruthOrder
<1>5. IsOrder(R, C)
  BY TruthsOrder
<1> HIDE DEF R
<1> QED
  BY <1>1, <1>4, <1>5 DEF IsOrder

\* The plan lists what is chosen, each once.
LEMMA PlanIs ==
  ASSUME RowsInv, NEW C \in LiveSets, NEW r \in RRequests
  PROVE  /\ Planned(r, C) \in Seq(Reconciled(r, C))
         /\ \A i, j \in 1..Len(Planned(r, C)) : i # j => Planned(r, C)[i] # Planned(r, C)[j]
<1> DEFINE S == Reconciled(r, C)
           R == RankOrder(r, C, S)
           k == Cardinality(S)
           rank == [m \in S |-> Rank(m, r, C)]
           before(m) == {n \in S : Greater(rank[n], rank[m])}
           p == Planned(r, C)
<1>1. S \in SUBSET C
  BY ChosenIs
<1>2. IsFiniteSet(S) /\ k \in Nat
  BY <1>1, LiveFinite
<1>3. IsOrder(R, S)
  BY <1>1, RanksOrder
<1>4. \A m \in S : before(m) = Ahead(R, S, m)
  BY DEF Ahead, RankOrder
<1>5. p = [i \in 1..k |-> CHOOSE m \in S : 1 + Cardinality(before(m)) = i]
  BY DEF Planned, RankedList
<1>6. [m \in S |-> Cardinality(Ahead(R, S, m))] \in Bijection(S, 0..k - 1)
  BY <1>2, <1>3, PlacesAre
<1> HIDE DEF S, R, k, rank, p
<1>7. ASSUME NEW i \in 1..k PROVE p[i] \in S /\ 1 + Cardinality(before(p[i])) = i
  <2>1. i - 1 \in 0..k - 1
    BY <1>2
  <2>2. PICK m \in S : Cardinality(Ahead(R, S, m)) = i - 1
    BY <1>6, <2>1 DEF Bijection, Surjection
  <2>3. 1 + Cardinality(before(m)) = i
    <3>1. Cardinality(before(m)) = i - 1
      BY <1>4, <2>2
    <3> HIDE DEF before
    <3> QED
      BY <2>1, <3>1
  <2>4. p[i] = CHOOSE m_1 \in S : 1 + Cardinality(before(m_1)) = i
    BY <1>5
  <2> HIDE DEF before
  <2> QED
    BY <2>3, <2>4
<1> HIDE DEF before
<1>8. DOMAIN p = 1..k /\ p \in [1..k -> S]
  BY <1>5, <1>7
<1>9. p \in Seq(S) /\ Len(p) = k
  BY <1>2, <1>8
<1>10. \A i, j \in 1..k : i # j => p[i] # p[j]
  BY <1>7
<1> QED
  BY <1>9, <1>10 DEF S, p

-----------------------------------------------------------------------------
(* Warnings fit, and tell of what was left out.                             *)

FirstKinds(kinds, n) == {WarningOrder[i] : i \in 1..n} \cap kinds
KindsFit(kinds, n) ==
  /\ Cardinality(FirstKinds(kinds, n)) <= WarningLimit
  /\ Spent(FirstKinds(kinds, n)) <= WarningBudget
Fitting(kinds) == {n \in 0..6 : \A i \in 0..n : KindsFit(kinds, i)}

LEMMA TokensAre ==
  /\ WarningTokens["stale"] \in Nat /\ WarningTokens["low"] \in Nat
  /\ WarningTokens["budget"] \in Nat /\ WarningTokens["category"] \in Nat
  /\ WarningTokens["source"] \in Nat /\ WarningTokens["long"] \in Nat
  /\ WarningBudget \in Nat
BY RetrievalAssumption

LEMMA SpentIs ==
  ASSUME NEW S
  PROVE  LET cost(k) == IF k \in S THEN WarningTokens[k] ELSE 0
         IN Spent(S) = cost("stale") + cost("low") + cost("budget") + cost("category")
                       + cost("source") + cost("long")
BY DEF Spent, WarningOrder

LEMMA SpentIsInt == ASSUME NEW S PROVE Spent(S) \in Int
BY SpentIs, TokensAre

LEMMA FewAreSpent ==
  ASSUME NEW k \in LeftOut, NEW S, S \subseteq {"stale", "low", k}
  PROVE  Cardinality(S) <= 3 /\ Spent(S) <= WarningBudget
<1>1. "long" \notin S /\ \A j \in LeftOut \ {k} : j \notin S
  BY DEF LeftOut
<1>2. WarningTokens["stale"] + WarningTokens["low"] + WarningTokens[k] <= WarningBudget
  BY RetrievalAssumption DEF LeftOut
<1>3. Spent(S) <= WarningBudget
  <2>1. CASE k = "budget"
    BY <1>1, <1>2, <2>1, TokensAre, SpentIs DEF LeftOut
  <2>2. CASE k = "category"
    BY <1>1, <1>2, <2>2, TokensAre, SpentIs DEF LeftOut
  <2>3. CASE k = "source"
    BY <1>1, <1>2, <2>3, TokensAre, SpentIs DEF LeftOut
  <2> QED
    BY <2>1, <2>2, <2>3 DEF LeftOut
<1>4. IsFiniteSet({"stale", "low"}) /\ Cardinality({"stale", "low"}) = 2
  <2>1. IsFiniteSet({"stale"}) /\ Cardinality({"stale"}) = 1
    BY FS_Singleton
  <2>2. {"stale", "low"} = {"stale"} \cup {"low"} /\ "low" \notin {"stale"}
    OBVIOUS
  <2>3. /\ IsFiniteSet({"stale"} \cup {"low"})
        /\ Cardinality({"stale"} \cup {"low"}) = Cardinality({"stale"}) + 1
    BY <2>1, <2>2, FS_AddElement
  <2> QED
    BY <2>1, <2>2, <2>3
<1>5. IsFiniteSet({"stale", "low", k}) /\ Cardinality({"stale", "low", k}) = 3
  <2>1. {"stale", "low", k} = {"stale", "low"} \cup {k} /\ k \notin {"stale", "low"}
    BY DEF LeftOut
  <2>2. /\ IsFiniteSet({"stale", "low"} \cup {k})
        /\ Cardinality({"stale", "low"} \cup {k}) = Cardinality({"stale", "low"}) + 1
    BY <1>4, <2>1, FS_AddElement
  <2> QED
    BY <1>4, <2>1, <2>2
<1>6. Cardinality(S) <= 3
  <2>1. Cardinality(S) <= Cardinality({"stale", "low", k})
    BY <1>5, FS_Subset
  <2> QED
    BY <1>5, <2>1
<1> QED
  BY <1>3, <1>6

LEMMA WarningsAre ==
  ASSUME NEW kinds
  PROVE  /\ Spent(Warnings(kinds)) <= WarningBudget
         /\ kinds \cap LeftOut # {} => Warnings(kinds) \cap kinds \cap LeftOut # {}
<1> DEFINE F == Fitting(kinds)
           top == Maximum(F)
<1>1. Warnings(kinds) = FirstKinds(kinds, top)
  BY DEF Warnings, FirstKinds, KindsFit, Fitting
<1>2. 0 \in F
  <2>1. FirstKinds(kinds, 0) = {} /\ \A i \in 0..0 : i = 0
    BY DEF FirstKinds
  <2>2. KindsFit(kinds, 0)
    <3>1. Spent({}) = 0
      BY SpentIs
    <3>2. Cardinality({}) = 0
      BY FS_EmptySet
    <3>3. Cardinality(FirstKinds(kinds, 0)) = 0 /\ Spent(FirstKinds(kinds, 0)) = 0
      BY <2>1, <3>1, <3>2
    <3>4. 0 <= WarningLimit /\ 0 <= WarningBudget
      <4>1. WarningLimit \in Nat /\ WarningBudget \in Nat
        BY RetrievalAssumption, TokensAre
      <4> QED
        BY <4>1
    <3> QED
      BY <3>3, <3>4 DEF KindsFit
  <2> QED
    BY <2>1, <2>2 DEF Fitting
<1>3. IsFiniteSet(F) /\ F \in SUBSET Int /\ F # {}
  <2>1. F \subseteq 0..6 /\ 0..6 \subseteq Int
    BY DEF Fitting
  <2>2. IsFiniteSet(0..6)
    <3>1. PICK m \in Nat : m = 6
      OBVIOUS
    <3>2. IsFiniteSet(0..m)
      BY FS_Interval
    <3> QED
      BY <3>1, <3>2
  <2> QED
    BY <1>2, <2>1, <2>2, FS_Subset
<1> HIDE DEF F
<1>4. top \in F /\ \A n \in F : n <= top
  BY <1>3, MaximumIs
<1> HIDE DEF top
<1>5. top \in 0..6 /\ KindsFit(kinds, top)
  BY <1>4 DEF F, Fitting
<1>6. ASSUME NEW k \in LeftOut, k \in kinds
      PROVE  Warnings(kinds) \cap kinds \cap LeftOut # {}
  <2>1. PICK p \in 3..5 : WarningOrder[p] \in kinds /\ \A i \in 3..p - 1 : WarningOrder[i] \notin kinds
    <3>1. /\ 3..(3 - 1) = {} /\ 3..(4 - 1) = {3} /\ 3..(5 - 1) = {3, 4}
          /\ 3 \in 3..5 /\ 4 \in 3..5 /\ 5 \in 3..5
      OBVIOUS
    <3>2. /\ WarningOrder[3] = "budget" /\ WarningOrder[4] = "category"
          /\ WarningOrder[5] = "source"
      BY DEF WarningOrder
    <3>3. CASE "budget" \in kinds
      BY <3>1, <3>2, <3>3
    <3>4. CASE "budget" \notin kinds /\ "category" \in kinds
      BY <3>1, <3>2, <3>4
    <3>5. CASE "budget" \notin kinds /\ "category" \notin kinds
      BY <1>6, <3>1, <3>2, <3>5 DEF LeftOut
    <3> QED
      BY <3>3, <3>4, <3>5
  <2> DEFINE kind1 == WarningOrder[p]
  <2>2. kind1 \in LeftOut
    BY DEF WarningOrder, LeftOut
  <2>3. ASSUME NEW i \in 0..p PROVE FirstKinds(kinds, i) \subseteq {"stale", "low", kind1}
    <3>1. \A j \in 1..i : j = 1 \/ j = 2 \/ j = p \/ j \in 3..p - 1
      OBVIOUS
    <3>2. WarningOrder[1] = "stale" /\ WarningOrder[2] = "low"
      BY DEF WarningOrder
    <3> HIDE DEF kind1
    <3>3. \A j \in 1..i : WarningOrder[j] \in kinds => WarningOrder[j] \in {"stale", "low", kind1}
      BY <2>1, <3>1, <3>2 DEF kind1
    <3> QED
      BY <3>3 DEF FirstKinds
  <2>4. ASSUME NEW i \in 0..p PROVE KindsFit(kinds, i)
    <3> HIDE DEF kind1
    <3>1. Cardinality(FirstKinds(kinds, i)) <= 3 /\ Spent(FirstKinds(kinds, i)) <= WarningBudget
      BY <2>2, <2>3, FewAreSpent
    <3>2. FirstKinds(kinds, i) \subseteq {"stale", "low", kind1}
      BY <2>3
    <3>3. IsFiniteSet(FirstKinds(kinds, i))
      <4>1. IsFiniteSet({"stale"})
        BY FS_Singleton
      <4>2. IsFiniteSet({"stale"} \cup {"low"})
        BY <4>1, FS_AddElement
      <4>3. IsFiniteSet({"stale"} \cup {"low"} \cup {kind1})
        BY <4>2, FS_AddElement
      <4>4. FirstKinds(kinds, i) \subseteq {"stale"} \cup {"low"} \cup {kind1}
        BY <3>2
      <4> QED
        BY <4>3, <4>4, FS_Subset
    <3>4. Cardinality(FirstKinds(kinds, i)) \in Nat
      BY <3>3, FS_CardinalityType
    <3>5. WarningLimit \in Nat /\ WarningLimit >= 3
      BY RetrievalAssumption
    <3>6. Cardinality(FirstKinds(kinds, i)) <= WarningLimit
      BY <3>1, <3>4, <3>5
    <3> QED
      BY <3>1, <3>6 DEF KindsFit
  <2>5. p \in F
    BY <2>4 DEF F, Fitting
  <2>6. p \in 1..top
    BY <1>4, <1>5, <2>5
  <2>7. kind1 \in FirstKinds(kinds, top)
    BY <2>1, <2>6 DEF FirstKinds
  <2> QED
    BY <1>1, <2>1, <2>2, <2>7
<1> QED
  BY <1>1, <1>5, <1>6 DEF KindsFit

-----------------------------------------------------------------------------
(* The pack of a page stays within its budget.                              *)

PackLines == {[category |-> MemoryIs[m].category, text |-> MemoryIs[m].text] : m \in RMemory}
Packs == [lines : SUBSET PackLines, sources : Seq(RMemory), tokens : Int,
          dropped : SUBSET {"category", "budget", "source", "long"}]

LEMMA CostIs ==
  ASSUME NEW m \in RMemory
  PROVE  /\ Bounded(m, LineLimit) \in Nat /\ Bounded(m, ExcerptLimit) \in Nat
         /\ SourceTokens(m) \in Nat
<1>1. MemoryIs[m].tokens \in Nat /\ LineLimit \in Nat /\ ExcerptLimit \in Nat
  BY RetrievalAssumption
<1> QED
  BY <1>1 DEF Bounded, SourceTokens

LEMMA AddLineIs ==
  ASSUME NEW p \in Packs, NEW m \in RMemory
  PROVE  LET q == AddLine(p, m)
         IN /\ q \in Packs /\ q.sources = p.sources /\ p.tokens <= q.tokens
            /\ p.tokens <= ContentBudget => q.tokens <= ContentBudget
<1> DEFINE line == [category |-> MemoryIs[m].category, text |-> MemoryIs[m].text]
           tokens == p.tokens + Bounded(m, LineLimit)
           lines == p.lines \cup {line}
           more == p.dropped \cup Shortened(m, LineLimit)
           full == Cardinality({l \in p.lines : l.category = line.category}) >= PerCategoryLimit
<1>1. /\ p.tokens \in Int /\ p.lines \subseteq PackLines /\ p.sources \in Seq(RMemory)
      /\ p.dropped \subseteq {"category", "budget", "source", "long"}
      /\ p = [lines |-> p.lines, sources |-> p.sources, tokens |-> p.tokens,
              dropped |-> p.dropped]
  BY DEF Packs
<1>2. tokens \in Int /\ p.tokens <= tokens /\ ContentBudget \in Nat
  <2>1. Bounded(m, LineLimit) \in Nat /\ p.tokens \in Int /\ ContentBudget \in Nat
    BY <1>1, CostIs, RetrievalAssumption
  <2> QED
    BY <2>1
<1>3. lines \subseteq PackLines
  BY <1>1 DEF PackLines
<1>4. more \subseteq {"category", "budget", "source", "long"}
  BY <1>1 DEF Shortened
<1>5. AddLine(p, m) =
        IF full THEN [p EXCEPT !.dropped = @ \cup {"category"}]
        ELSE IF line \in p.lines THEN p
        ELSE IF tokens > ContentBudget THEN [p EXCEPT !.dropped = @ \cup {"budget"}]
        ELSE [p EXCEPT !.lines = lines, !.tokens = tokens, !.dropped = more]
  BY DEF AddLine
<1> DEFINE d1 == p.dropped \cup {"category"}
           d2 == p.dropped \cup {"budget"}
<1>6. d1 \subseteq {"category", "budget", "source", "long"}
      /\ d2 \subseteq {"category", "budget", "source", "long"}
  BY <1>1
<1> HIDE DEF line, tokens, lines, more, full, d1, d2
<1>7. CASE full
  <2>1. AddLine(p, m) = [lines |-> p.lines, sources |-> p.sources, tokens |-> p.tokens,
                         dropped |-> d1]
    BY <1>1, <1>5, <1>7 DEF d1
  <2> QED
    BY <1>1, <1>6, <2>1 DEF Packs
<1>8. CASE ~full /\ line \in p.lines
  BY <1>1, <1>5, <1>8
<1>9. CASE ~full /\ line \notin p.lines /\ tokens > ContentBudget
  <2>1. AddLine(p, m) = [lines |-> p.lines, sources |-> p.sources, tokens |-> p.tokens,
                         dropped |-> d2]
    BY <1>1, <1>5, <1>9 DEF d2
  <2> QED
    BY <1>1, <1>6, <2>1 DEF Packs
<1>10. CASE ~full /\ line \notin p.lines /\ ~(tokens > ContentBudget)
  <2>1. AddLine(p, m) = [lines |-> lines, sources |-> p.sources, tokens |-> tokens,
                         dropped |-> more]
    BY <1>1, <1>5, <1>10
  <2> QED
    BY <1>1, <1>2, <1>3, <1>4, <1>10, <2>1 DEF Packs
<1> QED
  BY <1>7, <1>8, <1>9, <1>10

LEMMA AddSourceIs ==
  ASSUME NEW p \in Packs, NEW m \in RMemory
  PROVE  LET q == AddSource(p, m)
         IN /\ q \in Packs
            /\ \/ q.sources = p.sources /\ q.tokens = p.tokens
               \/ /\ q.sources = Append(p.sources, m)
                  /\ q.tokens = p.tokens + SourceTokens(m) /\ q.tokens <= ContentBudget
<1> DEFINE tokens == p.tokens + SourceTokens(m)
           sources == Append(p.sources, m)
           more == p.dropped \cup Shortened(m, ExcerptLimit)
           d1 == p.dropped \cup {"source"}
           d2 == p.dropped \cup {"budget"}
           full == Len(p.sources) >= SourceLimit
<1>1. /\ p.tokens \in Int /\ p.lines \subseteq PackLines /\ p.sources \in Seq(RMemory)
      /\ p.dropped \subseteq {"category", "budget", "source", "long"}
      /\ p = [lines |-> p.lines, sources |-> p.sources, tokens |-> p.tokens,
              dropped |-> p.dropped]
  BY DEF Packs
<1>2. tokens \in Int /\ ContentBudget \in Nat /\ sources \in Seq(RMemory)
  <2>1. SourceTokens(m) \in Nat /\ p.tokens \in Int /\ ContentBudget \in Nat
    BY <1>1, CostIs, RetrievalAssumption
  <2> QED
    BY <1>1, <2>1
<1>3. /\ more \subseteq {"category", "budget", "source", "long"}
      /\ d1 \subseteq {"category", "budget", "source", "long"}
      /\ d2 \subseteq {"category", "budget", "source", "long"}
  BY <1>1 DEF Shortened
<1>4. AddSource(p, m) =
        IF full THEN [p EXCEPT !.dropped = @ \cup {"source"}]
        ELSE IF tokens > ContentBudget THEN [p EXCEPT !.dropped = @ \cup {"budget"}]
        ELSE [p EXCEPT !.sources = sources, !.tokens = tokens, !.dropped = more]
  BY DEF AddSource
<1> HIDE DEF tokens, sources, more, full, d1, d2
<1>5. CASE full
  <2>1. AddSource(p, m) = [lines |-> p.lines, sources |-> p.sources, tokens |-> p.tokens,
                           dropped |-> d1]
    BY <1>1, <1>4, <1>5 DEF d1
  <2> QED
    BY <1>1, <1>3, <2>1 DEF Packs
<1>6. CASE ~full /\ tokens > ContentBudget
  <2>1. AddSource(p, m) = [lines |-> p.lines, sources |-> p.sources, tokens |-> p.tokens,
                           dropped |-> d2]
    BY <1>1, <1>4, <1>6 DEF d2
  <2> QED
    BY <1>1, <1>3, <2>1 DEF Packs
<1>7. CASE ~full /\ ~(tokens > ContentBudget)
  <2>1. AddSource(p, m) = [lines |-> p.lines, sources |-> sources, tokens |-> tokens,
                           dropped |-> more]
    BY <1>1, <1>4, <1>7
  <2>2. tokens <= ContentBudget
    BY <1>2, <1>7
  <2>3. AddSource(p, m) \in Packs
    BY <1>1, <1>2, <1>3, <2>1 DEF Packs
  <2> QED
    BY <2>1, <2>2, <2>3 DEF tokens, sources
<1> QED
  BY <1>5, <1>6, <1>7

LEMMA PackedIs ==
  ASSUME NEW hits \in Seq(RMemory)
  PROVE  LET A == Packed(hits)
         IN /\ A \in [0..Len(hits) -> Packs] /\ A[0] = EmptyPack
            /\ \A n \in 1..Len(hits) : A[n] = AddSource(AddLine(A[n - 1], hits[n]), hits[n])
<1> DEFINE N == Len(hits)
           a == EmptyPack
           add(d, n) == AddSource(AddLine(d, hits[n]), hits[n])
           g == [p \in (1..N) \X Packs |-> add(p[2], p[1])]
           Obeys(h) == h = [n \in 0..N |-> IF n = 0 THEN a ELSE add(h[n - 1], n)]
<1>1. N \in Nat /\ \A n \in 1..N : hits[n] \in RMemory
  OBVIOUS
<1>2. a \in Packs
  <2>1. <<>> \in Seq(RMemory)
    OBVIOUS
  <2> QED
    BY <2>1 DEF Packs, EmptyPack
<1>3. \A n \in 1..N, d \in Packs : g[<<n, d>>] = add(d, n)
  OBVIOUS
<1>4. \A n \in 1..N, d \in Packs : add(d, n) \in Packs
  BY <1>1, AddLineIs, AddSourceIs
<1> HIDE DEF g, a, add
<1>5. StaysIn(g, N, Packs)
  BY <1>3, <1>4 DEF StaysIn
<1>6. PICK f \in [0..N -> Packs] : Follows(f, a, N, g)
  <2> HIDE DEF N
  <2> QED
    BY <1>1, <1>2, <1>5, RecursionExists
<1>7. \A n \in 1..N : f[n] = add(f[n - 1], n)
  <2> SUFFICES ASSUME NEW n \in 1..N PROVE f[n] = add(f[n - 1], n)
    OBVIOUS
  <2>1. n - 1 \in 0..N
    BY <1>1
  <2>2. f[n - 1] \in Packs
    BY <1>6, <2>1
  <2> QED
    BY <1>3, <1>6, <2>2 DEF Follows
<1>8. Obeys(f)
  <2>1. f[0] = a /\ f = [n \in 0..N |-> f[n]]
    BY <1>6 DEF Follows
  <2> DEFINE After(n) == IF n = 0 THEN a ELSE add(f[n - 1], n)
  <2>2. \A n \in 0..N : f[n] = After(n)
    <3>1. \A n \in 0..N : n = 0 \/ n \in 1..N
      BY <1>1
    <3>2. \A n \in 1..N : n # 0
      OBVIOUS
    <3> HIDE DEF N
    <3> QED
      BY <1>7, <2>1, <3>1, <3>2
  <2>3. Obeys(f) <=> f = [n \in 0..N |-> After(n)]
    OBVIOUS
  <2> HIDE DEF After, Obeys
  <2> QED
    BY <2>1, <2>2, <2>3
<1> DEFINE A == Packed(hits)
<1>9. A = CHOOSE h : Obeys(h)
  BY DEF Packed, a, add
<1> HIDE DEF A
<1>10. Obeys(A)
  <2> HIDE DEF Obeys
  <2> QED
    BY <1>8, <1>9
<1>11. A[0] = a /\ \A n \in 1..N : A[n] = add(A[n - 1], n)
  BY <1>1, <1>10
<1>12. \A n \in 0..N : A[n] \in Packs
  <2> DEFINE T == {n \in 0..N : A[n] \in Packs}
  <2>1. 0 \in T
    BY <1>1, <1>2, <1>11
  <2>2. \A n \in 1..N : n - 1 \in T => n \in T
    BY <1>1, <1>4, <1>11
  <2> HIDE DEF T
  <2>3. 0..N \subseteq T
    BY <1>1, <2>1, <2>2, StepsReach
  <2> QED
    BY <2>3 DEF T
<1>13. A \in [0..N -> Packs]
  BY <1>10, <1>12
<1> QED
  BY <1>11, <1>13 DEF A, a, add

LEMMA CostsAre ==
  ASSUME NEW s \in Seq(RMemory)
  PROVE  LET A == Costs(s)
         IN /\ A \in [0..Len(s) -> Int] /\ A[0] = 0
            /\ \A n \in 1..Len(s) : A[n] = A[n - 1] + SourceTokens(s[n])
<1> DEFINE N == Len(s)
           a == 0
           add(d, n) == d + SourceTokens(s[n])
           g == [p \in (1..N) \X Int |-> add(p[2], p[1])]
           Obeys(h) == h = [n \in 0..N |-> IF n = 0 THEN a ELSE add(h[n - 1], n)]
<1>1. N \in Nat /\ \A n \in 1..N : s[n] \in RMemory
  OBVIOUS
<1>2. a \in Int
  OBVIOUS
<1>3. \A n \in 1..N, d \in Int : g[<<n, d>>] = add(d, n)
  OBVIOUS
<1>4. \A n \in 1..N, d \in Int : add(d, n) \in Int
  BY <1>1, CostIs
<1> HIDE DEF g, a, add
<1>5. StaysIn(g, N, Int)
  BY <1>3, <1>4 DEF StaysIn
<1>6. PICK f \in [0..N -> Int] : Follows(f, a, N, g)
  <2> HIDE DEF N
  <2> QED
    BY <1>1, <1>2, <1>5, RecursionExists
<1>7. \A n \in 1..N : f[n] = add(f[n - 1], n)
  <2> SUFFICES ASSUME NEW n \in 1..N PROVE f[n] = add(f[n - 1], n)
    OBVIOUS
  <2>1. n - 1 \in 0..N
    BY <1>1
  <2>2. f[n - 1] \in Int
    BY <1>6, <2>1
  <2> QED
    BY <1>3, <1>6, <2>2 DEF Follows
<1>8. Obeys(f)
  <2>1. f[0] = a /\ f = [n \in 0..N |-> f[n]]
    BY <1>6 DEF Follows
  <2> DEFINE After(n) == IF n = 0 THEN a ELSE add(f[n - 1], n)
  <2>2. \A n \in 0..N : f[n] = After(n)
    <3>1. \A n \in 0..N : n = 0 \/ n \in 1..N
      BY <1>1
    <3>2. \A n \in 1..N : n # 0
      OBVIOUS
    <3> HIDE DEF N
    <3> QED
      BY <1>7, <2>1, <3>1, <3>2
  <2>3. Obeys(f) <=> f = [n \in 0..N |-> After(n)]
    OBVIOUS
  <2> HIDE DEF After, Obeys
  <2> QED
    BY <2>1, <2>2, <2>3
<1> DEFINE A == Costs(s)
<1>9. A = CHOOSE h : Obeys(h)
  BY DEF Costs, a, add
<1> HIDE DEF A
<1>10. Obeys(A)
  <2> HIDE DEF Obeys
  <2> QED
    BY <1>8, <1>9
<1>11. A[0] = a /\ \A n \in 1..N : A[n] = add(A[n - 1], n)
  BY <1>1, <1>10
<1>12. \A n \in 0..N : A[n] \in Int
  <2> DEFINE T == {n \in 0..N : A[n] \in Int}
  <2>1. 0 \in T
    BY <1>1, <1>2, <1>11
  <2>2. ASSUME NEW n \in 1..N, n - 1 \in T PROVE n \in T
    <3>1. A[n - 1] \in Int /\ n \in 0..N
      BY <2>2
    <3>2. add(A[n - 1], n) \in Int
      BY <1>4, <3>1
    <3> QED
      BY <1>11, <3>1, <3>2
  <2> HIDE DEF T
  <2>3. 0..N \subseteq T
    BY <1>1, <2>1, <2>2, StepsReach
  <2> QED
    BY <2>3 DEF T
<1>13. A \in [0..N -> Int]
  BY <1>10, <1>12
<1> QED
  BY <1>11, <1>13 DEF A, a, add

LEMMA CostOfMore ==
  ASSUME NEW s \in Seq(RMemory), NEW m \in RMemory
  PROVE  CostOf(s) \in Int /\ CostOf(Append(s, m)) = CostOf(s) + SourceTokens(m)
<1> DEFINE N == Len(s)
           t == Append(s, m)
           A == Costs(s)
           B == Costs(t)
           T == {n \in 0..N : A[n] = B[n]}
<1>1. N \in Nat /\ t \in Seq(RMemory) /\ Len(t) = N + 1 /\ t[N + 1] = m
      /\ \A n \in 1..N : t[n] = s[n]
  OBVIOUS
<1>2. /\ A \in [0..N -> Int] /\ A[0] = 0
      /\ \A n \in 1..N : A[n] = A[n - 1] + SourceTokens(s[n])
  BY CostsAre
<1> HIDE DEF t
<1>3. /\ B[0] = 0 /\ \A n \in 1..N + 1 : B[n] = B[n - 1] + SourceTokens(t[n])
  BY <1>1, CostsAre
<1> HIDE DEF A, B, N
<1>4. 0 \in T
  BY <1>1, <1>2, <1>3
<1>5. ASSUME NEW n \in 1..N, n - 1 \in T PROVE n \in T
  <2>1. A[n - 1] = B[n - 1] /\ n \in 1..N + 1 /\ n \in 0..N
    BY <1>1, <1>5
  <2> QED
    BY <1>1, <1>2, <1>3, <2>1
<1>6. N \in T
  <2> HIDE DEF T
  <2>1. 0..N \subseteq T
    BY <1>1, <1>4, <1>5, StepsReach
  <2> QED
    BY <1>1, <2>1
<1>7. N + 1 \in 1..N + 1 /\ (N + 1) - 1 = N
  BY <1>1
<1>8. B[N + 1] = A[N] + SourceTokens(m)
  BY <1>1, <1>3, <1>6, <1>7
<1>9. A[N] \in Int
  BY <1>1, <1>2
<1> QED
  BY <1>1, <1>8, <1>9 DEF CostOf, A, B, N, t

CitesOnly(sources, hits) ==
  \A i \in 1..Len(sources) : \E j \in 1..Len(hits) : sources[i] = hits[j]
PaysFor(p, hits) ==
  CostOf(p.sources) <= p.tokens /\ p.tokens <= ContentBudget /\ CitesOnly(p.sources, hits)

LEMMA HitIsPacked ==
  ASSUME NEW hits \in Seq(RMemory), NEW p \in Packs, PaysFor(p, hits), NEW n \in 1..Len(hits)
  PROVE  PaysFor(AddSource(AddLine(p, hits[n]), hits[n]), hits)
<1> DEFINE m == hits[n]
           q == AddLine(p, m)
           z == AddSource(q, m)
<1>1. m \in RMemory
  OBVIOUS
<1>2. /\ q \in Packs /\ q.sources = p.sources /\ p.tokens <= q.tokens
      /\ q.tokens <= ContentBudget
  BY <1>1, AddLineIs DEF PaysFor
<1>3. /\ p.tokens \in Int /\ q.tokens \in Int /\ p.sources \in Seq(RMemory)
      /\ ContentBudget \in Int /\ SourceTokens(m) \in Int
  <2>1. p.tokens \in Int /\ q.tokens \in Int /\ p.sources \in Seq(RMemory)
    BY <1>2 DEF Packs
  <2>2. SourceTokens(m) \in Nat
    BY <1>1, CostIs
  <2>3. ContentBudget \in Nat
    BY RetrievalAssumption
  <2> HIDE DEF m, q
  <2> QED
    BY <2>1, <2>2, <2>3
<1>4. CostOf(p.sources) \in Int /\ CostOf(p.sources) <= q.tokens
  <2>1. CostOf(p.sources) \in Int
    BY <1>1, <1>3, CostOfMore
  <2> QED
    BY <1>2, <1>3, <2>1 DEF PaysFor
<1>5. \/ z.sources = q.sources /\ z.tokens = q.tokens
      \/ /\ z.sources = Append(q.sources, m)
         /\ z.tokens = q.tokens + SourceTokens(m) /\ z.tokens <= ContentBudget
  BY <1>1, <1>2, AddSourceIs
<1> HIDE DEF q, z, m
<1>6. CASE z.sources = q.sources /\ z.tokens = q.tokens
  BY <1>2, <1>4, <1>6 DEF PaysFor, z, m, q
<1>7. CASE /\ z.sources = Append(q.sources, m)
           /\ z.tokens = q.tokens + SourceTokens(m) /\ z.tokens <= ContentBudget
  <2>1. CostOf(z.sources) = CostOf(p.sources) + SourceTokens(m)
    BY <1>1, <1>2, <1>3, <1>7, CostOfMore
  <2>2. CostOf(z.sources) <= z.tokens
    BY <1>3, <1>4, <1>7, <2>1
  <2>3. CitesOnly(z.sources, hits)
    <3> DEFINE s == p.sources
    <3>1. z.sources = Append(s, m) /\ s \in Seq(RMemory)
      BY <1>2, <1>3, <1>7
    <3>2. CitesOnly(s, hits)
      BY DEF PaysFor
    <3> HIDE DEF s
    <3>3. Len(z.sources) = Len(s) + 1 /\ z.sources[Len(s) + 1] = m /\ Len(s) \in Nat
          /\ \A i \in 1..Len(s) : z.sources[i] = s[i]
      BY <1>1, <3>1
    <3>4. \A i \in 1..Len(s) + 1 : i = Len(s) + 1 \/ i \in 1..Len(s)
      BY <3>3
    <3> QED
      BY <3>2, <3>3, <3>4 DEF CitesOnly, m
  <2> QED
    BY <1>7, <2>2, <2>3 DEF PaysFor, z, m, q
<1> QED
  BY <1>5, <1>6, <1>7

LEMMA PackPays ==
  ASSUME NEW hits \in Seq(RMemory)
  PROVE  /\ Packed(hits)[Len(hits)] \in Packs
         /\ PaysFor(Packed(hits)[Len(hits)], hits)
<1> DEFINE N == Len(hits)
           A == Packed(hits)
           T == {n \in 0..N : PaysFor(A[n], hits)}
<1>1. N \in Nat
  OBVIOUS
<1>2. /\ A \in [0..N -> Packs] /\ A[0] = EmptyPack
      /\ \A n \in 1..N : A[n] = AddSource(AddLine(A[n - 1], hits[n]), hits[n])
  BY PackedIs
<1>3. PaysFor(EmptyPack, hits)
  <2>1. EmptyPack.sources = <<>> /\ EmptyPack.tokens = 0 /\ Len(<<>>) = 0 /\ <<>> \in Seq(RMemory)
    BY DEF EmptyPack
  <2>2. Costs(<<>>)[0] = 0
    BY <2>1, CostsAre
  <2>3. CostOf(EmptyPack.sources) = 0
    BY <2>1, <2>2 DEF CostOf
  <2>4. CitesOnly(EmptyPack.sources, hits)
    BY <2>1 DEF CitesOnly
  <2>5. 0 <= ContentBudget
    BY RetrievalAssumption
  <2> QED
    BY <2>1, <2>3, <2>4, <2>5 DEF PaysFor
<1> HIDE DEF A
<1>4. 0 \in T
  BY <1>1, <1>2, <1>3
<1>5. ASSUME NEW n \in 1..N, n - 1 \in T PROVE n \in T
  <2>1. A[n - 1] \in Packs /\ PaysFor(A[n - 1], hits) /\ n \in 0..N
    BY <1>1, <1>2, <1>5
  <2>2. PaysFor(AddSource(AddLine(A[n - 1], hits[n]), hits[n]), hits)
    BY <2>1, HitIsPacked
  <2> QED
    BY <1>2, <2>1, <2>2
<1>6. N \in T
  <2> HIDE DEF T, N
  <2>1. 0..N \subseteq T
    BY <1>1, <1>4, <1>5, StepsReach
  <2> QED
    BY <1>1, <2>1
<1>7. A[N] \in Packs
  BY <1>1, <1>2
<1> QED
  BY <1>6, <1>7 DEF A

HonestPack(p, hits) ==
  /\ p.tokens + Spent(p.warnings) <= ContentBudget + WarningBudget
  /\ CostOf(p.sources) <= p.tokens /\ CitesOnly(p.sources, hits)
  /\ p.dropped \cap LeftOut # {} => p.warnings \cap p.dropped \cap LeftOut # {}

LEMMA CompiledIsHonest ==
  ASSUME NEW hits \in Seq(RMemory), NEW r, NEW C
  PROVE  HonestPack(CompilePack(hits, r, C), hits)
<1> DEFINE p == Packed(hits)[Len(hits)]
           annotated == Annotations(p.sources, r, C)
           kinds == p.dropped \cup annotated
           warned == Warnings(kinds)
           z == CompilePack(hits, r, C)
<1>1. p \in Packs /\ PaysFor(p, hits)
  BY PackPays
<1>2. annotated \subseteq {"stale", "low"}
  BY DEF Annotations
<1>3. z = [lines |-> p.lines, sources |-> p.sources, tokens |-> p.tokens,
           dropped |-> p.dropped, warnings |-> warned]
  BY DEF CompilePack
<1> HIDE DEF p, annotated
<1>4. Spent(warned) <= WarningBudget /\ (kinds \cap LeftOut # {} => warned \cap kinds \cap LeftOut # {})
  BY WarningsAre
<1>5. kinds \cap LeftOut = p.dropped \cap LeftOut
  BY <1>2 DEF LeftOut
<1>6. p.tokens \in Int /\ p.tokens <= ContentBudget /\ CostOf(p.sources) <= p.tokens
      /\ CitesOnly(p.sources, hits)
  BY <1>1 DEF Packs, PaysFor
<1>7. Spent(warned) \in Int /\ WarningBudget \in Int /\ ContentBudget \in Int
  <2>1. Spent(warned) \in Int
    BY SpentIsInt
  <2> QED
    BY <2>1, TokensAre, RetrievalAssumption
<1> HIDE DEF kinds, warned, z
<1>8. /\ z.tokens = p.tokens /\ z.sources = p.sources /\ z.warnings = warned
      /\ z.dropped = p.dropped
  BY <1>3
<1>9. z.tokens + Spent(z.warnings) <= ContentBudget + WarningBudget
  BY <1>4, <1>6, <1>7, <1>8
<1>10. z.dropped \cap LeftOut # {} => z.warnings \cap z.dropped \cap LeftOut # {}
  BY <1>4, <1>5, <1>8
<1>11. HonestPack(z, hits)
  BY <1>6, <1>8, <1>9, <1>10 DEF HonestPack
<1> QED
  BY <1>11 DEF z

-----------------------------------------------------------------------------
(* The plan is one of the rows, the denials, and what the digest of the      *)
(* request holds.                                                           *)

LEMMA SameRanks ==
  ASSUME rows' = rows, NEW r, NEW C, NEW m
  PROVE  Rank(m, r, C)' = Rank(m, r, C) /\ Truth(m, r, C)' = Truth(m, r, C)
<1>1. \A n : Lifespan(n)' = Lifespan(n)
  BY DEF Lifespan
<1>2. DecayContext(C)' = DecayContext(C)
  <2> DEFINE times == {rows[n].updated : n \in C}
             lives == {Lifespan(n) : n \in C} \cup {0}
  <2>1. times' = times /\ lives' = lives
    BY <1>1
  <2> HIDE DEF times, lives
  <2>2. /\ DecayContext(C) = [min |-> Minimum(times), span |-> Maximum(times) - Minimum(times),
                              life |-> Maximum(lives)]
        /\ DecayContext(C)' = [min |-> Minimum(times'),
                               span |-> Maximum(times') - Minimum(times'),
                               life |-> Maximum(lives')]
    BY DEF DecayContext, times, lives
  <2> QED
    BY <2>1, <2>2
<1>3. \A c : DecaySignal(m, c)' = DecaySignal(m, c)
  BY <1>1 DEF DecaySignal
<1>4. RankingScore(m, r, C)' = RankingScore(m, r, C)
  BY <1>2, <1>3 DEF RankingScore
<1>5. Rank(m, r, C)' = Rank(m, r, C)
  BY <1>4 DEF Rank
<1> QED
  BY <1>5 DEF Truth

LEMMA SamePlan ==
  ASSUME rows' = rows, hidden' = hidden, NEW r
  PROVE  /\ Candidates(r)' = Candidates(r)
         /\ Reconciled(r, Candidates(r))' = Reconciled(r, Candidates(r))
         /\ Planned(r, Candidates(r))' = Planned(r, Candidates(r))
<1>1. Candidates(r)' = Candidates(r)
  BY DEF Candidates, LiveMemory
<1> DEFINE C == Candidates(r)
           H == C \ hidden
           truth == [m \in H |-> Truth(m, r, C)]
           plan == Reconciled(r, C)
           rank == [m \in plan |-> Rank(m, r, C)]
<1>2. C' = C /\ H' = H
  BY <1>1
<1> HIDE DEF C
<1>3. truth' = truth
  BY <1>2, SameRanks
<1>4. plan' = plan
  <2> HIDE DEF H, truth
  <2>1. /\ plan = {m \in H : \A n \in Component(m, H) \ {m} : Greater(truth[m], truth[n])}
        /\ plan' = {m \in H' : \A n \in Component(m, H') \ {m} : Greater(truth'[m], truth'[n])}
    BY DEF Reconciled, H, truth
  <2> QED
    BY <1>2, <1>3, <2>1
<1>5. rank' = rank
  <2> HIDE DEF plan
  <2> QED
    BY <1>2, <1>4, SameRanks
<1>6. Planned(r, C) = RankedList(plan, rank) /\ Planned(r, C)' = RankedList(plan', rank')
  BY DEF Planned
<1> HIDE DEF plan, rank
<1>7. Planned(r, C)' = Planned(r, C)
  BY <1>4, <1>5, <1>6
<1> QED
  BY <1>1, <1>4, <1>7 DEF C, plan

LEMMA DigestIs ==
  ASSUME NEW r \in RRequests, NEW q \in RRequests, Digest(r) = Digest(q)
  PROVE  Candidates(r) = Candidates(q)
         /\ Planned(r, Candidates(r)) = Planned(q, Candidates(q))
<1>1. r.select = q.select /\ r.matrix = q.matrix /\ r.weights = q.weights
  <2>1. \A x \in RRequests : Digest(x) = [select |-> x.select, matrix |-> x.matrix,
                                          weights |-> x.weights, limit |-> 0]
    BY RetrievalAssumption DEF Digest
  <2> QED
    BY <2>1
<1>2. Allowed[r] = Allowed[q]
  BY <1>1 DEF Allowed, AllowedScopes
<1>3. Candidates(r) = Candidates(q)
  BY <1>2 DEF Candidates
<1> DEFINE C == Candidates(r)
<1> HIDE DEF C
<1>4. \A m : Rank(m, r, C) = Rank(m, q, C) /\ Truth(m, r, C) = Truth(m, q, C)
  BY <1>1 DEF Rank, Truth, RankingScore
<1>5. Reconciled(r, C) = Reconciled(q, C)
  <2> DEFINE H == C \ hidden
             mine == [m \in H |-> Truth(m, r, C)]
             other == [m \in H |-> Truth(m, q, C)]
  <2>1. mine = other
    BY <1>4
  <2>2. /\ Reconciled(r, C) =
             {m \in H : \A n \in Component(m, H) \ {m} : Greater(mine[m], mine[n])}
        /\ Reconciled(q, C) =
             {m \in H : \A n \in Component(m, H) \ {m} : Greater(other[m], other[n])}
    BY DEF Reconciled
  <2> HIDE DEF mine, other, H
  <2> QED
    BY <2>1, <2>2
<1> DEFINE plan == Reconciled(r, C)
           rank == [m \in plan |-> Rank(m, r, C)]
           rank2 == [m \in plan |-> Rank(m, q, C)]
<1>6. rank = rank2
  BY <1>4
<1>7. Planned(r, C) = RankedList(plan, rank)
  BY DEF Planned
<1>8. Planned(q, C) = RankedList(plan, rank2)
  BY <1>5 DEF Planned
<1> HIDE DEF plan, rank, rank2
<1> QED
  BY <1>3, <1>6, <1>7, <1>8 DEF C

-----------------------------------------------------------------------------
(* What a page and its reader hold.                                         *)

Cursors == [offset : Nat, digest : {Digest(r) : r \in RRequests}]

\* A page of a plan, from after start to end, and its reader.
IsAnswer(p, x, r, plan, start, end) ==
  /\ start <= end /\ p.request = r /\ p.hits = SubSeq(plan, start + 1, end)
  /\ HonestPack(p.pack, p.hits)
  /\ x.on = (r.limit > 0 /\ end < Len(plan))
  /\ x.on => x.cursor = [offset |-> end, digest |-> Digest(r)]
  /\ x.steady => x.seen = SubSeq(plan, 1, end)
AnswersTo(p, x, r, plan) == \E start, end \in 0..Len(plan) : IsAnswer(p, x, r, plan, start, end)

RetrievalInv ==
  /\ RetrievalTypeOK
  /\ RowsInv
  /\ reading = [on |-> reading.on, cursor |-> reading.cursor, seen |-> reading.seen,
                steady |-> reading.steady]
  /\ reading.on => reading.cursor \in Cursors
  /\ page = NoAnswer => ~reading.steady \/ ~reading.on
  /\ page # NoAnswer =>
       \E r \in RRequests : AnswersTo(page, reading, r, Planned(r, Candidates(r)))

LEMMA BeginningIs ==
  ASSUME NEW S, NEW plan \in Seq(S), NEW end \in 0..Len(plan)
  PROVE  LET s == SubSeq(plan, 1, end)
         IN /\ s \in Seq(S) /\ Len(s) = end /\ \A i \in 1..end : s[i] = plan[i]
            /\ SubSeq(s, 1, end) = s
            /\ end = Len(plan) => s = plan
<1> DEFINE s == SubSeq(plan, 1, end)
<1>1. s \in Seq(S) /\ Len(s) = end /\ \A i \in 1..end : s[i] = plan[i]
  OBVIOUS
<1>2. end = Len(plan) => s = plan
  OBVIOUS
<1>3. SubSeq(s, 1, end) = s
  <2> HIDE DEF s
  <2> QED
    BY <1>1
<1> QED
  BY <1>1, <1>2, <1>3

LEMMA PiecesMeet ==
  ASSUME NEW S, NEW plan \in Seq(S), NEW end \in 0..Len(plan), NEW start \in 0..end
  PROVE  /\ SubSeq(plan, 1, start) \o SubSeq(plan, start + 1, end) = SubSeq(plan, 1, end)
         /\ SubSeq(plan, start + 1, end) \in Seq(S)
         /\ \A i \in 1..Len(SubSeq(plan, start + 1, end)) :
              \E j \in 1..Len(plan) : SubSeq(plan, start + 1, end)[i] = plan[j]
<1> DEFINE a == SubSeq(plan, 1, start)
           b == SubSeq(plan, start + 1, end)
           c == SubSeq(plan, 1, end)
<1>2. /\ b \in Seq(S) /\ Len(b) = end - start
      /\ \A i \in 1..end - start : b[i] = plan[start + i]
  OBVIOUS
<1> HIDE DEF a, b, c
<1>4. a \o b = c
  <2>1. 1 \in 1..Len(plan) + 1 /\ start \in 1 - 1..Len(plan) /\ end \in start..Len(plan)
    OBVIOUS
  <2> QED
    BY <2>1, ConcatAdjacentSubSeq DEF a, b, c
<1>5. \A i \in 1..Len(b) : \E j \in 1..Len(plan) : b[i] = plan[j]
  <2> SUFFICES ASSUME NEW i \in 1..Len(b) PROVE \E j \in 1..Len(plan) : b[i] = plan[j]
    OBVIOUS
  <2>1. start + i \in 1..Len(plan) /\ b[i] = plan[start + i]
    BY <1>2
  <2> QED
    BY <2>1
<1> QED
  BY <1>2, <1>4, <1>5 DEF a, b, c

\* The page that is cut from a plan at a cursor.
LEMMA PageIsCut ==
  ASSUME RowsInv, NEW r \in RRequests, NEW cursor \in {NoCursor} \cup Cursors,
         NEW C \in LiveSets, NEW plan \in Seq(RMemory)
  PROVE  LET start == Lesser(IF cursor = NoCursor THEN 0 ELSE cursor.offset, Len(plan))
             end == Lesser(Len(plan), start + r.limit)
             p == Page(r, cursor, C, plan)
         IN /\ start \in 0..Len(plan) /\ end \in 0..Len(plan) /\ start <= end
            /\ p # NoAnswer /\ p.request = r /\ p.hits = SubSeq(plan, start + 1, end)
            /\ HonestPack(p.pack, p.hits)
            /\ p.next = IF r.limit > 0 /\ end < Len(plan)
                        THEN [offset |-> end, digest |-> Digest(r)] ELSE NoCursor
            /\ (p.next # NoCursor) = (r.limit > 0 /\ end < Len(plan))
            /\ p.next # NoCursor => p.next \in Cursors
<1> DEFINE from == IF cursor = NoCursor THEN 0 ELSE cursor.offset
           start == Lesser(from, Len(plan))
           end == Lesser(Len(plan), start + r.limit)
           p == Page(r, cursor, C, plan)
           hits == SubSeq(plan, start + 1, end)
           there == [offset |-> end, digest |-> Digest(r)]
           merged == [i \in 1..Len(hits) |-> Component(hits[i], C \ hidden) \ {hits[i]}]
           next == IF r.limit > 0 /\ end < Len(plan) THEN there ELSE NoCursor
           pack == CompilePack(hits, r, C)
<1>1. from \in Nat /\ r.limit \in Nat /\ Len(plan) \in Nat
  <2>1. from \in Nat
    BY DEF Cursors
  <2>2. r.limit \in Nat
    BY RetrievalAssumption
  <2> QED
    BY <2>1, <2>2
<1>2. start \in 0..Len(plan) /\ end \in 0..Len(plan) /\ start <= end
  BY <1>1 DEF Lesser
<1>3. p = [hits |-> hits, merged |-> merged, next |-> next, request |-> r, pack |-> pack]
  BY DEF Page
<1> HIDE DEF from, start, end, p, there, merged, pack
<1>4. hits \in Seq(RMemory)
  BY <1>2, PiecesMeet
<1>5. HonestPack(pack, hits)
  BY <1>4, CompiledIsHonest DEF pack
<1>6. there \in Cursors /\ there # NoCursor
  <2>1. there \in Cursors
    BY <1>2 DEF there, Cursors
  <2>2. NoCursor \notin Cursors
    BY RetrievalAssumption DEF Cursors, Digest
  <2> QED
    BY <2>1, <2>2
<1> HIDE DEF hits, next
<1>7. p.hits = hits /\ p.next = next /\ p.request = r /\ p.pack = pack
  BY <1>3
<1>8. p # NoAnswer
  <2>1. NoAnswer.request = NoCursor /\ r # NoCursor
    BY RetrievalAssumption DEF NoAnswer
  <2> QED
    BY <1>7, <2>1
<1>9. (next # NoCursor) = (r.limit > 0 /\ end < Len(plan))
  BY <1>6 DEF next
<1>10. next # NoCursor => next \in Cursors
  BY <1>6 DEF next
<1> QED
  BY <1>2, <1>5, <1>7, <1>8, <1>9, <1>10 DEF p, hits, next, there, start, end, from

LEMMA AnswerStep ==
  ASSUME RetrievalInv, NEW r \in RRequests,
         NEW cursor, cursor = NoCursor \/ (reading.on /\ cursor = reading.cursor),
         Retrieve(r, cursor)
  PROVE  RetrievalInv'
<1> DEFINE C == Candidates(r)
           plan == Planned(r, C)
           got == Page(r, cursor, C, plan)
           start == Lesser(IF cursor = NoCursor THEN 0 ELSE cursor.offset, Len(plan))
           end == Lesser(Len(plan), start + r.limit)
           seen == (IF cursor # NoCursor THEN reading.seen ELSE <<>>) \o got.hits
           steady == cursor # NoCursor => reading.steady
<1>1. /\ rows' = rows /\ hidden' = hidden /\ CursorFits(cursor, r) /\ page' = got
      /\ reading' = [on |-> got.next # NoCursor, cursor |-> got.next, seen |-> seen,
                     steady |-> steady]
  BY DEF Retrieve
<1>2. RowsInv /\ RetrievalTypeOK /\ C \in LiveSets /\ cursor \in {NoCursor} \cup Cursors
  BY CandidatesLive DEF RetrievalInv
<1>3. plan \in Seq(RMemory)
  <2>1. Reconciled(r, C) \subseteq RMemory
    BY <1>2, ChosenIs DEF LiveSets
  <2>2. plan \in Seq(Reconciled(r, C))
    BY <1>2, PlanIs
  <2> HIDE DEF plan
  <2> QED
    BY <2>1, <2>2, SeqDef
<1> HIDE DEF C, plan, got, seen, steady, start, end
<1>4. /\ start \in 0..Len(plan) /\ end \in 0..Len(plan) /\ start <= end
      /\ got # NoAnswer /\ got.request = r /\ got.hits = SubSeq(plan, start + 1, end)
      /\ HonestPack(got.pack, got.hits)
      /\ got.next = IF r.limit > 0 /\ end < Len(plan)
                    THEN [offset |-> end, digest |-> Digest(r)] ELSE NoCursor
      /\ (got.next # NoCursor) = (r.limit > 0 /\ end < Len(plan))
      /\ got.next # NoCursor => got.next \in Cursors
  BY <1>2, <1>3, PageIsCut DEF got, start, end
<1>5. /\ reading'.on = (got.next # NoCursor) /\ reading'.cursor = got.next
      /\ reading'.seen = seen /\ reading'.steady = steady
      /\ reading' = [on |-> reading'.on, cursor |-> reading'.cursor, seen |-> reading'.seen,
                     steady |-> reading'.steady]
  BY <1>1
\* An unchanged plan is read on where the last page ended.
<1>6. steady => seen = SubSeq(plan, 1, end)
  <2>1. CASE cursor = NoCursor
    <3>1. start = 0
      BY <1>3, <2>1 DEF start, Lesser
    <3>2. got.hits = SubSeq(plan, 1, end)
      BY <1>4, <3>1
    <3>3. got.hits \in Seq(RMemory)
      BY <1>3, <1>4, <3>2, BeginningIs
    <3>4. <<>> \o got.hits = got.hits
      BY <3>3, ConcatEmptySeq
    <3> QED
      BY <2>1, <3>2, <3>4 DEF seen
  <2>2. CASE cursor # NoCursor /\ steady
    <3>1. reading.on /\ cursor = reading.cursor /\ reading.steady /\ page # NoAnswer
      BY <2>2 DEF steady, RetrievalInv
    <3>2. PICK q \in RRequests : AnswersTo(page, reading, q, Planned(q, Candidates(q)))
      BY <3>1 DEF RetrievalInv
    <3> DEFINE before == Planned(q, Candidates(q))
    <3>3. PICK a, b \in 0..Len(before) : IsAnswer(page, reading, q, before, a, b)
      BY <3>2 DEF AnswersTo
    <3>4. cursor = [offset |-> b, digest |-> Digest(q)] /\ reading.seen = SubSeq(before, 1, b)
      BY <3>1, <3>3 DEF IsAnswer
    <3>5. Digest(q) = Digest(r)
      BY <1>1, <2>2, <3>4 DEF CursorFits
    <3>6. before = plan
      BY <3>5, DigestIs DEF plan, C
    <3> HIDE DEF before
    <3>7. start = b
      BY <1>3, <2>2, <3>3, <3>4, <3>6 DEF start, Lesser
    <3>8. start \in 0..end /\ end \in 0..Len(plan)
      BY <1>3, <1>4
    <3>9. SubSeq(plan, 1, start) \o SubSeq(plan, start + 1, end) = SubSeq(plan, 1, end)
      BY <1>3, <3>8, PiecesMeet
    <3> QED
      BY <1>4, <2>2, <3>4, <3>6, <3>7, <3>9 DEF seen
  <2> QED
    BY <2>1, <2>2
<1>7. IsAnswer(page', reading', r, plan, start, end)
  <2>1. got.next # NoCursor => got.next = [offset |-> end, digest |-> Digest(r)]
    BY <1>4
  <2> QED
    BY <1>1, <1>4, <1>5, <1>6, <2>1 DEF IsAnswer
<1>8. AnswersTo(page', reading', r, plan)
  BY <1>4, <1>7 DEF AnswersTo
<1>9. Planned(r, Candidates(r))' = plan
  BY <1>1, SamePlan DEF plan, C
<1>10. page' # NoAnswer /\ \E q \in RRequests :
         AnswersTo(page', reading', q, Planned(q, Candidates(q))')
  BY <1>1, <1>4, <1>8, <1>9
<1>11. RowsInv'
  BY <1>1, <1>2 DEF RowsInv
<1>12. RetrievalTypeOK'
  <2>1. reading'.on \in BOOLEAN /\ reading'.steady \in BOOLEAN
    <3>1. reading.steady \in BOOLEAN
      BY <1>2 DEF RetrievalTypeOK
    <3> QED
      BY <1>5, <3>1 DEF steady
  <2> QED
    BY <1>1, <1>2, <2>1 DEF RetrievalTypeOK
<1>13. reading'.on => reading'.cursor \in Cursors
  BY <1>4, <1>5
<1> QED
  BY <1>5, <1>10, <1>11, <1>12, <1>13 DEF RetrievalInv

LEMMA RetrievalStep == RetrievalInv /\ [RetrievalNext]_retrievalVars => RetrievalInv'
<1> SUFFICES ASSUME RetrievalInv, [RetrievalNext]_retrievalVars PROVE RetrievalInv'
  OBVIOUS
<1>1. ASSUME NEW r \in RRequests, FirstPage(r) \/ NextPage(r) PROVE RetrievalInv'
  BY <1>1, AnswerStep DEF FirstPage, NextPage
<1>2. ASSUME Forget PROVE
        /\ page' = NoAnswer /\ ~reading'.steady /\ reading'.on = reading.on
        /\ reading'.cursor = reading.cursor /\ reading'.steady \in BOOLEAN
        /\ reading' = [on |-> reading'.on, cursor |-> reading'.cursor, seen |-> reading'.seen,
                       steady |-> reading'.steady]
  BY <1>2 DEF Forget, RetrievalInv
<1>3. ASSUME NEW u \in RowUpdates, StoreRow(u) PROVE RetrievalInv'
  <2> DEFINE row == [updated |-> u.updated, expires |-> u.expires, status |-> u.status]
  <2>1. rows' = [rows EXCEPT ![u.id] = row] /\ Forget /\ hidden' = hidden
    BY <1>3 DEF StoreRow
  <2>2. /\ u.id \in RMemory /\ u.updated \in Int /\ u.expires \in Int \cup {NoTime}
        /\ u.status \in {"active", "tombstoned"}
    BY RetrievalAssumption
  <2>3. row \in [updated : Int \cup {NoTime}, expires : Int \cup {NoTime},
                 status : {"none", "active", "tombstoned"}]
    BY <2>2
  <2>4. row.updated \in Int /\ row.expires \in Int \cup {NoTime}
    BY <2>2
  <2> HIDE DEF row
  <2>5. /\ rows \in [RMemory -> [updated : Int \cup {NoTime}, expires : Int \cup {NoTime},
                                 status : {"none", "active", "tombstoned"}]]
        /\ hidden \in DenySets /\ reading.on \in BOOLEAN
    BY DEF RetrievalInv, RetrievalTypeOK
  <2>6. \A m \in RMemory : rows'[m] = IF m = u.id THEN row ELSE rows[m]
    BY <2>1, <2>5
  <2>7. RowsInv'
    BY <2>4, <2>6 DEF RowsInv, RetrievalInv
  <2>8. RetrievalTypeOK'
    BY <1>2, <2>1, <2>3, <2>5 DEF RetrievalTypeOK
  <2> QED
    BY <1>2, <2>1, <2>7, <2>8 DEF RetrievalInv
<1>4. ASSUME NEW d \in DenySets, PolicyChanges(d) PROVE RetrievalInv'
  <2>1. hidden' = d /\ Forget /\ rows' = rows
    BY <1>4 DEF PolicyChanges
  <2>2. RetrievalTypeOK'
    BY <1>2, <2>1 DEF RetrievalTypeOK, RetrievalInv
  <2>3. RowsInv'
    BY <2>1 DEF RowsInv, RetrievalInv
  <2> QED
    BY <1>2, <2>1, <2>2, <2>3 DEF RetrievalInv
<1>5. CASE UNCHANGED retrievalVars
  <2>1. rows' = rows /\ hidden' = hidden /\ reading' = reading /\ page' = page
    BY <1>5 DEF retrievalVars
  <2>2. \A r : Planned(r, Candidates(r))' = Planned(r, Candidates(r))
    BY <2>1, SamePlan
  <2>3. page' # NoAnswer =>
          \E r \in RRequests : AnswersTo(page', reading', r, Planned(r, Candidates(r))')
    BY <2>1, <2>2 DEF RetrievalInv
  <2>4. RetrievalTypeOK' /\ RowsInv'
    BY <2>1 DEF RetrievalInv, RetrievalTypeOK, RowsInv
  <2> QED
    BY <2>1, <2>3, <2>4 DEF RetrievalInv
<1> QED
  BY <1>1, <1>3, <1>4, <1>5 DEF RetrievalNext

LEMMA RetrievalInvIsRight == RetrievalInv => RetrievalTypeOK /\ RetrievalIsRight
<1> SUFFICES ASSUME RetrievalInv, page # NoAnswer PROVE RetrievalIsRight
  BY DEF RetrievalInv, RetrievalIsRight, Answered, PagesCoverOnce, NothingVanishes,
         NoConflictShown, OtherUsersHidden, PackIsHonest
<1> DEFINE r == page.request
           C == Candidates(r)
           plan == Planned(r, C)
<1>1. PICK q \in RRequests : AnswersTo(page, reading, q, Planned(q, Candidates(q)))
  BY DEF RetrievalInv
<1>2. r \in RRequests /\ q = r
  BY <1>1 DEF AnswersTo, IsAnswer
<1>3. AnswersTo(page, reading, r, plan)
  BY <1>1, <1>2
<1>4. RowsInv /\ C \in LiveSets
  BY CandidatesLive DEF RetrievalInv
<1>5. /\ plan \in Seq(Reconciled(r, C))
      /\ \A i, j \in 1..Len(plan) : i # j => plan[i] # plan[j]
  BY <1>2, <1>4, PlanIs
<1> HIDE DEF r, C, plan
<1>6. PICK start, end \in 0..Len(plan) : IsAnswer(page, reading, r, plan, start, end)
  BY <1>3 DEF AnswersTo
<1> DEFINE seen == SubSeq(plan, 1, end)
<1>7. /\ seen \in Seq(Reconciled(r, C)) /\ Len(seen) = end
      /\ \A i \in 1..end : seen[i] = plan[i]
      /\ SubSeq(seen, 1, end) = seen
      /\ end = Len(plan) => seen = plan
  BY <1>5, BeginningIs
<1> HIDE DEF seen
<1>8. /\ reading.steady => reading.seen = seen
      /\ reading.on = (r.limit > 0 /\ end < Len(plan))
  BY <1>6 DEF IsAnswer, seen
<1>9. PagesCoverOnce
  <2>1. ASSUME reading.steady, r.limit > 0
        PROVE  IsPrefix(reading.seen, plan) /\ (~reading.on => reading.seen = plan)
    <3>1. IsPrefix(seen, plan)
      <4>1. Len(seen) <= Len(plan)
        BY <1>7
      <4>2. SubSeq(seen, 1, Len(seen)) = SubSeq(plan, 1, Len(seen))
        BY <1>7 DEF seen
      <4> QED
        BY <4>1, <4>2 DEF IsPrefix
    <3>2. ~reading.on => end = Len(plan)
      <4>1. ~reading.on => ~(end < Len(plan))
        BY <1>8, <2>1
      <4>2. end \in 0..Len(plan) /\ Len(plan) \in Nat
        BY <1>5
      <4> QED
        BY <4>1, <4>2
    <3> QED
      BY <1>7, <1>8, <2>1, <3>1, <3>2
  <2> QED
    BY <2>1 DEF PagesCoverOnce, r, C, plan
<1>10. NothingVanishes
  <2>1. \A m \in C \ hidden : \E h \in Reconciled(r, C) :
          h \in Component(m, C \ hidden) /\ rows[h].updated >= rows[m].updated
    BY <1>2, <1>4, OneIsChosen
  <2> QED
    BY <2>1 DEF NothingVanishes, Matching, r, C
<1>11. NoConflictShown
  <2> SUFFICES ASSUME reading.steady, NEW i \in 1..Len(reading.seen), NEW j \in 1..Len(reading.seen),
                      i # j
               PROVE  ~Linked(reading.seen[i], reading.seen[j])
    BY DEF NoConflictShown
  <2>1. /\ i \in 1..end /\ j \in 1..end /\ reading.seen[i] = plan[i] /\ reading.seen[j] = plan[j]
        /\ i \in 1..Len(plan) /\ j \in 1..Len(plan)
    BY <1>7, <1>8
  <2>2. plan[i] \in Reconciled(r, C) /\ plan[j] \in Reconciled(r, C) /\ plan[i] # plan[j]
    BY <1>5, <2>1
  <2>3. ~Linked(plan[i], plan[j])
    BY <1>2, <1>4, <2>2, ChosenApart
  <2> QED
    BY <2>1, <2>3
<1>12. page.hits = SubSeq(plan, start + 1, end) /\ start <= end /\ HonestPack(page.pack, page.hits)
  BY <1>6 DEF IsAnswer
<1>13. page.hits \in Seq(Reconciled(r, C))
  <2>1. start \in 0..end
    BY <1>12
  <2> QED
    BY <1>5, <1>12, <2>1, PiecesMeet
<1>14. OtherUsersHidden
  <2>1. ASSUME r.select # {}, \A x \in r.select : x.level = "user", NEW m \in Shown,
               ScopeIs[MemoryIs[m].scope].level = "user"
        PROVE  \E x \in r.select : x.owner = ScopeIs[MemoryIs[m].scope].owner
    <3>1. m \in Reconciled(r, C)
      BY <1>13 DEF Shown
    <3>2. m \in C
      BY <3>1, ChosenIs
    <3>3. MemoryIs[m].scope \in Allowed[r]
      BY <3>2 DEF C, Candidates
    <3> QED
      BY <1>2, <2>1, <3>3, OnlySelectedUsers
  <2> QED
    BY <2>1 DEF OtherUsersHidden, r
<1>15. PackIsHonest
  <2> DEFINE p == page.pack
  <2>1. HonestPack(p, page.hits)
    BY <1>12
  <2> HIDE DEF p
  <2>2. {p.sources[i] : i \in 1..Len(p.sources)} \subseteq Shown
    BY <2>1 DEF HonestPack, CitesOnly, Shown
  <2> QED
    BY <2>1, <2>2 DEF HonestPack, PackIsHonest, p
<1> QED
  BY <1>9, <1>10, <1>11, <1>14, <1>15 DEF RetrievalIsRight

\* Pages of an unchanged store read one plan to its end, each hit once; a memory the
\* caller may see is in it, or a newer one of its conflict; no two conflicting ones
\* are shown, nor another user's; and a page's pack keeps its budget and says what
\* it left out.
THEOREM RetrievalRight == RetrievalSpec => [](RetrievalTypeOK /\ RetrievalIsRight)
<1>1. RetrievalInit => RetrievalInv
  <2> SUFFICES ASSUME RetrievalInit PROVE RetrievalInv
    OBVIOUS
  <2>1. rows = [m \in RMemory |-> NoRow] /\ hidden = {} /\ reading = NotReading /\ page = NoAnswer
    BY DEF RetrievalInit
  <2>2. NoRow \in [updated : Int \cup {NoTime}, expires : Int \cup {NoTime},
                   status : {"none", "active", "tombstoned"}]
    BY DEF NoRow
  <2>3. RowsInv
    BY <2>1 DEF RowsInv
  <2>4. /\ ~reading.on /\ reading.on \in BOOLEAN /\ reading.steady \in BOOLEAN
        /\ reading = [on |-> reading.on, cursor |-> reading.cursor, seen |-> reading.seen,
                      steady |-> reading.steady]
    BY <2>1 DEF NotReading
  <2>5. RetrievalTypeOK
    BY <2>1, <2>2, <2>4, RetrievalAssumption DEF RetrievalTypeOK
  <2> QED
    BY <2>1, <2>3, <2>4, <2>5 DEF RetrievalInv
<1>2. RetrievalInv /\ [RetrievalNext]_retrievalVars => RetrievalInv'
  BY RetrievalStep
<1>3. RetrievalInv => RetrievalTypeOK /\ RetrievalIsRight
  BY RetrievalInvIsRight
<1> QED
  BY <1>1, <1>2, <1>3, PTL DEF RetrievalSpec
==============================================================================
