---------------------------- MODULE MCBackground ----------------------------
(***************************************************************************)
(* What runs in the background, in one run; part says of which this        *)
(* behaviour is: the cycles of the memory daemon, or the worker service    *)
(* with its supervisor.  They share no state.                              *)
(***************************************************************************)
EXTENDS MCDaemonSync, MCWorkerSupervisor

CONSTANT Parts
VARIABLE part

BackgroundInit == part \in Parts /\ Init /\ WorkerInit

\* The worker service may have ended for good; the daemon's cycles may not.
WorkerRests == ~ENABLED WorkerNext /\ UNCHANGED workerVars

BackgroundNext ==
  /\ UNCHANGED part
  /\ \/ part = "sync" /\ Next /\ UNCHANGED workerVars
     \/ part = "worker" /\ (WorkerNext \/ WorkerRests) /\ UNCHANGED vars

\* A cycle that began goes on; the daemon, which keeps trying, gets into the lock
\* when it is free again and again.  Of other processes nothing is assumed.
SyncFairness ==
  /\ \A p \in Proc : WF_vars(part = "sync" /\ CycleStep(p))
  /\ \A p \in Proc \ Updaters : SF_vars(part = "sync" /\ Enter(p))
\* Cycles return, timers fire and the event loop runs what is ready.
WorkerFairness ==
  /\ WF_workerVars(part = "worker" /\ FiberStep)
  /\ \A c \in Caller : WF_workerVars(part = "worker" /\ CallerStep(c))

BackgroundSpec ==
  /\ BackgroundInit /\ [][BackgroundNext]_<<part, vars, workerVars>>
  /\ SyncFairness /\ WorkerFairness
=============================================================================
