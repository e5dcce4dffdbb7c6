------------------------- MODULE MCMemoryLifecycle -------------------------
(***************************************************************************)
(* Instances of MemoryLifecycle for TLC.  With derived ids a candidate has *)
(* one rule id (it is hashed from the statement, as the candidate id is)   *)
(* and its evaluations have ids that no other candidate uses.  The second  *)
(* candidate is never evaluated: only an operator promotes it.             *)
(***************************************************************************)
EXTENDS MemoryLifecycle, TLC

CONSTANTS c1, c2, r1, r2, r3, f1

DerivedRules == (c1 :> {r1}) @@ (c2 :> {r2})
DerivedEvals == (c1 :> {1, 2, 3}) @@ (c2 :> {})
OneRule == (c1 :> {r1})
OneCandidate == (c1 :> {1, 2, 3})
HarmfulToFirst == (f1 :> [cands |-> {}, rules |-> {r1}])
NoTargets == [f \in {} |-> {}]
=============================================================================
