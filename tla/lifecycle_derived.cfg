CONSTANTS
  c1 = c1  c2 = c2  r1 = r1  r2 = r2  r3 = r3  f1 = f1
  NoCand = NoCand  NoEval = NoEval  NoRule = NoRule  Curated = Curated
  DemotionStreak = 2
  Cand = {c1, c2}
  Rule = {r1, r2, r3}
  Eval = {1, 2, 3}
  Feedback = {f1}
  RuleIds <- DerivedRules
  EvalIds <- DerivedEvals
  CuratedRules = {r3}
  FeedbackTarget <- HarmfulToFirst
  Time = {0, 1, 2}
  DefaultGate = TRUE
  InOrder = TRUE
SPECIFICATION Spec
INVARIANTS TypeOK RulesMirrorPromotions StreakIsTrailing
PROPERTIES PromotionEarned SustainedNegativeNotActive
