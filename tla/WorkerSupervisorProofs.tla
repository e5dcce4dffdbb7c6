----------------------- MODULE WorkerSupervisorProofs -----------------------
(***************************************************************************)
(* The safety properties of the worker supervisor hold for any number of   *)
(* stop() calls and signals and any restart limit.                         *)
(***************************************************************************)
EXTENDS WorkerSupervisor, TLAPS

LEMMA InvInit == WorkerInit => WorkerInv
<1> SUFFICES ASSUME WorkerInit PROVE WorkerInv
  OBVIOUS
<1>1. WorkerTypeOK
  <2>1. restarts \in 0..(RestartLimit + 1)
    BY RestartLimitAssumption DEF WorkerInit
  <2> QED
    BY <2>1, Zenon DEF WorkerInit, WorkerTypeOK, Phase
<1>2. FiberAgrees
  BY RestartLimitAssumption DEF WorkerInit, FiberAgrees, Terminal
<1>3. RequestsPrecede /\ StopMeansStopped /\ ReadyIsTruthful
  BY DEF WorkerInit, RequestsPrecede, StopMeansStopped, ReadyIsTruthful, Caller
<1> QED
  BY <1>1, <1>2, <1>3 DEF WorkerInv

\* start() and the steps of the fiber
LEMMA FiberInv ==
  ASSUME WorkerInv, Start \/ FiberStep
  PROVE  WorkerInv'
<1> USE RestartLimitAssumption DEF WorkerInv, WorkerTypeOK, FiberAgrees, RequestsPrecede,
      StopMeansStopped, ReadyIsTruthful, Phase, Terminal, Caller
<1>1. CASE Start
  <2>1. WorkerTypeOK' /\ FiberAgrees' /\ RequestsPrecede'
    BY <1>1 DEF Start
  <2>2. StopMeansStopped' /\ ReadyIsTruthful'
    BY <1>1 DEF Start
  <2> QED
    BY <2>1, <2>2
<1>2. CASE Check
  BY <1>2 DEF Check, End
<1>3. CASE CycleSucceeds
  BY <1>3 DEF CycleSucceeds, Settled
<1>4. CASE CycleFails
  <2>1. /\ restarts' \in 0..(RestartLimit + 1)
        /\ fiber' # "ended" => restarts' <= RestartLimit
    <3>1. restarts \in 0..(RestartLimit + 1) /\ restarts <= RestartLimit
      BY <1>4, Zenon DEF CycleFails
    <3>2. restarts' = restarts + 1 /\ (restarts' > RestartLimit => fiber' = "ended")
      BY <1>4, Zenon DEF CycleFails, End
    <3> QED
      BY ONLY <3>1, <3>2, RestartLimitAssumption
  <2>2. CASE restarts' > RestartLimit
    <3>1. End("failed") /\ ready' = Settled("failed")
      BY <1>4, <2>2, Zenon DEF CycleFails
    <3> QED
      BY <1>4, <2>1, <3>1, Zenon DEF CycleFails, End, Settled
  <2>3. CASE ~(restarts' > RestartLimit)
    <3>1. fiber' = "delay" /\ phase' = "restarting" /\ UNCHANGED <<running, ready>>
      BY <1>4, <2>3, Zenon DEF CycleFails
    <3> QED
      BY <1>4, <2>1, <3>1, Zenon DEF CycleFails
  <2> QED
    BY <2>2, <2>3
<1>5. CASE Wake
  BY <1>5 DEF Wake, End
<1>6. CASE CutShort
  BY <1>6 DEF CutShort, End
<1> QED
  BY <1>1, <1>2, <1>3, <1>4, <1>5, <1>6 DEF FiberStep

\* stop() and the signal handler
LEMMA CallerInv ==
  ASSUME WorkerInv, NEW c \in Caller,
         StopEnded(c) \/ RequestShutdown(c) \/ CallerStep(c)
  PROVE  WorkerInv'
<1> USE RestartLimitAssumption DEF WorkerInv, WorkerTypeOK, FiberAgrees, RequestsPrecede,
      StopMeansStopped, ReadyIsTruthful, Phase, Terminal, Caller
<1>1. CASE StopEnded(c)
  BY <1>1 DEF StopEnded, Settled
<1>2. CASE RequestShutdown(c)
  BY <1>2 DEF RequestShutdown, Settled
<1>3. CASE Announce(c)
  BY <1>3 DEF Announce
<1>4. CASE Join(c)
  BY <1>4 DEF Join
<1>5. CASE JoinDisposed(c)
  BY <1>5 DEF JoinDisposed
<1> QED
  BY <1>1, <1>2, <1>3, <1>4, <1>5 DEF CallerStep

LEMMA InvStep == WorkerInv /\ [WorkerNext]_workerVars => WorkerInv'
<1> SUFFICES ASSUME WorkerInv, [WorkerNext]_workerVars PROVE WorkerInv'
  OBVIOUS
<1>1. CASE UNCHANGED workerVars
  BY <1>1 DEF workerVars, WorkerInv, WorkerTypeOK, FiberAgrees, RequestsPrecede,
     StopMeansStopped, ReadyIsTruthful
<1>2. CASE WorkerNext
  BY <1>2, FiberInv, CallerInv DEF WorkerNext
<1> QED
  BY <1>1, <1>2

\* The invariant is inductive.
THEOREM SupervisorInductive == WorkerSpec => []WorkerInv
BY InvInit, InvStep, PTL DEF WorkerSpec

\* Every variable keeps its type, and restartCount exceeds the limit by one at most.
THEOREM SupervisorTypeCorrect == WorkerSpec => []WorkerTypeOK
<1>1. WorkerInv => WorkerTypeOK
  BY DEF WorkerInv
<1> QED
  BY <1>1, SupervisorInductive, PTL

\* When stop() returned or the runtime was disposed of, the fiber has ended.
THEOREM StopHolds == WorkerSpec => []StopMeansStopped
<1>1. WorkerInv => StopMeansStopped
  BY DEF WorkerInv
<1> QED
  BY <1>1, SupervisorInductive, PTL

\* ready() succeeds only after a successful cycle, fails only for a shutdown or a
\* final failure, and is settled when either happened.
THEOREM ReadyHolds == WorkerSpec => []ReadyIsTruthful
<1>1. WorkerInv => ReadyIsTruthful
  BY DEF WorkerInv
<1> QED
  BY <1>1, SupervisorInductive, PTL

\* No step takes the status out of a final phase.
THEOREM FinalPhaseHolds == WorkerSpec => TerminalIsFinal
<1>1. WorkerInv /\ [WorkerNext]_workerVars =>
       [(phase \in Terminal) => UNCHANGED phase]_workerVars
  <2> SUFFICES ASSUME WorkerInv, WorkerNext, phase \in Terminal PROVE UNCHANGED phase
    OBVIOUS
  <2>1. fiber = "ended" /\ ~running
    BY DEF WorkerInv, FiberAgrees
  <2>2. CASE Start \/ FiberStep
    BY <2>1, <2>2 DEF Start, FiberStep, Check, CycleSucceeds, CycleFails, Wake, CutShort
  <2>3. CASE \E c \in Caller : StopEnded(c) \/ RequestShutdown(c) \/ CallerStep(c)
    BY <2>3 DEF StopEnded, RequestShutdown, CallerStep, Announce, Join, JoinDisposed,
       Terminal, workerVars
  <2> QED
    BY <2>2, <2>3 DEF WorkerNext
<1> QED
  BY <1>1, SupervisorInductive, PTL DEF WorkerSpec, TerminalIsFinal

\* Once a shutdown is requested, no further cycle begins.
THEOREM NoCycleAfterRequestHolds == WorkerSpec => NoCycleAfterRequest
<1>1. [WorkerNext]_workerVars =>
       [requested /\ fiber # "cycle" => fiber' # "cycle"]_workerVars
  BY DEF WorkerNext, Start, FiberStep, Check, CycleSucceeds, CycleFails, Wake,
     CutShort, End,
     StopEnded, RequestShutdown, CallerStep, Announce, Join, JoinDisposed, workerVars
<1> QED
  BY <1>1, PTL DEF WorkerSpec, NoCycleAfterRequest
=============================================================================
