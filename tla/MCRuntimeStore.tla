--------------------------- MODULE MCRuntimeStore ---------------------------
(***************************************************************************)
(* Instances of RuntimeStore for TLC: two requests that change the store   *)
(* and one that reads it, two of them in one process.                      *)
(***************************************************************************)
EXTENDS RuntimeStore, TLC

CONSTANTS w1, w2, w3, r1, n1, n2

TwoServers == (w1 :> n1) @@ (w2 :> n1) @@ (w3 :> n2) @@ (r1 :> n1)
OneServer == (w1 :> n1) @@ (r1 :> n1)
=============================================================================
