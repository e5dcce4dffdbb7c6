------------------------- MODULE MCWorkerSupervisor -------------------------
(***************************************************************************)
(* Instances of WorkerSupervisor for TLC.                                  *)
(***************************************************************************)
EXTENDS WorkerSupervisor

CONSTANTS s1, s2, i1
=============================================================================
