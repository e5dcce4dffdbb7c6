---------------------------- MODULE MCDaemonSync ----------------------------
(***************************************************************************)
(* Instances of DaemonSync for TLC.                                        *)
(***************************************************************************)
EXTENDS DaemonSync, TLC

CONSTANTS f1, f2, g1, g2, m1, m2, p1, p2

\* A tailed file that feeds one memory, and a plan.
OneTail == <<f1>>
OnePlan == <<g1>>
OneRoute == (f1 :> m1) @@ (g1 :> m2)
\* A tailed file of two lines and a plan written once.
FewLines == (f1 :> 2) @@ (g1 :> 1)
=============================================================================
