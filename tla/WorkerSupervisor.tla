-------------------------- MODULE WorkerSupervisor --------------------------
(***************************************************************************)
(* The supervised background worker (createSupervisedWorkerService of      *)
(* apps/api/src/worker-runtime.ts): a fiber that runs one maintenance      *)
(* cycle after another, start() and stop(), and the handler of SIGINT and  *)
(* SIGTERM.                                                                *)
(*                                                                         *)
(* All of them share one event loop: a step is what runs between two       *)
(* awaits.  What a cycle does is left out here but for whether it fails.   *)
(* stop() is called once start() was, as startSupervisedWorkerService      *)
(* makes sure by handing the service out only then.                        *)
(***************************************************************************)
EXTENDS Integers

CONSTANTS
  Stopper,       \* calls of stop()
  Signal,        \* deliveries of SIGINT or SIGTERM
  RestartLimit   \* restartLimit

ASSUME CallerAssumption == Stopper \cap Signal = {}
ASSUME RestartLimitAssumption == RestartLimit \in Nat

Caller == Stopper \cup Signal

VARIABLES
  phase,       \* status.phase
  fiber,       \* where supervisorProgram is
  running,     \* serviceFiber is not null, and the signal handlers are installed
  requested,   \* shutdownRequested
  signaled,    \* shutdownSignal is resolved
  ready,       \* readySignal, which is resolved together with readySignaled
  restarts,    \* restartCount
  succeeded,   \* cycleCount is not 0
  disposed,    \* runtimeDisposed
  caller       \* where each stop() or signal handler is

workerVars == <<phase, fiber, running, requested, signaled, ready, restarts,
                succeeded, disposed, caller>>

Phase == {"idle", "starting", "running", "restarting", "stopping", "stopped", "failed"}
Terminal == {"stopped", "failed"}

WorkerInit ==
  /\ phase = "idle"
  /\ fiber = "none"
  /\ running = FALSE
  /\ requested = FALSE /\ signaled = FALSE
  /\ ready = "pending"
  /\ restarts = 0 /\ succeeded = FALSE
  /\ disposed = FALSE
  /\ caller = [c \in Caller |-> "new"]

\* The first completion of the deferred counts.
Settled(outcome) == IF ready = "pending" THEN outcome ELSE ready

-----------------------------------------------------------------------------
(* Faulty variants of the steps below, which the properties must reject    *)

\* A failure clears the count of another; the limit is one too high; a failure
\* for good leaves readiness open.
CycleFailsForgiving ==
  /\ fiber = "cycle"
  /\ restarts' = IF restarts > RestartLimit THEN 0 ELSE restarts + 1
  /\ fiber' = "delay" /\ phase' = "restarting"
  /\ UNCHANGED <<running, requested, signaled, ready, succeeded, disposed, caller>>
CycleFailsOnceMore ==
  /\ fiber = "cycle"
  /\ restarts' = restarts + 1
  /\ IF restarts' > RestartLimit + 1
     THEN /\ fiber' = "ended" /\ running' = FALSE
          /\ phase' = "failed" /\ ready' = Settled("failed")
     ELSE /\ fiber' = "delay" /\ phase' = "restarting"
          /\ UNCHANGED <<running, ready>>
  /\ UNCHANGED <<requested, signaled, succeeded, disposed, caller>>
CycleFailsUnready ==
  /\ fiber = "cycle"
  /\ restarts' = restarts + 1
  /\ IF restarts' > RestartLimit
     THEN fiber' = "ended" /\ running' = FALSE /\ phase' = "failed"
     ELSE fiber' = "delay" /\ phase' = "restarting" /\ UNCHANGED running
  /\ UNCHANGED <<requested, signaled, ready, succeeded, disposed, caller>>
\* The phase is set without a look at what happened during the await.
AnnounceBlindly(c) ==
  /\ caller[c] = "announcing"
  /\ phase' = "stopping" /\ signaled' = TRUE
  /\ caller' = [caller EXCEPT ![c] = IF c \in Stopper THEN "joining" ELSE "returned"]
  /\ UNCHANGED <<fiber, running, requested, ready, restarts, succeeded, disposed>>
\* stop() does not wait for the fiber.
JoinNothing(c) ==
  /\ caller[c] = "joining"
  /\ disposed' = TRUE
  /\ caller' = [caller EXCEPT ![c] = "returned"]
  /\ UNCHANGED <<phase, fiber, running, requested, signaled, ready, restarts, succeeded>>
\* The pause is not cut short, and its end does not look for a shutdown.
WakeAlways ==
  /\ fiber \in {"pause", "delay"}
  /\ fiber' = "cycle"
  /\ UNCHANGED <<phase, running, requested, signaled, ready, restarts,
                 succeeded, disposed, caller>>

-----------------------------------------------------------------------------
(* start() and the fiber                                                   *)

Start ==
  /\ ~disposed /\ ~running /\ phase \notin Terminal
  /\ phase' = "starting"
  /\ fiber' = "check" /\ running' = TRUE
  /\ UNCHANGED <<requested, signaled, ready, restarts, succeeded, disposed, caller>>

\* The fiber ends with a phase; its finalizer clears serviceFiber.
End(ph) == fiber' = "ended" /\ running' = FALSE /\ phase' = ph

Check ==
  /\ fiber = "check"
  /\ IF requested THEN End("stopped")
     ELSE fiber' = "cycle" /\ UNCHANGED <<running, phase>>
  /\ UNCHANGED <<requested, signaled, ready, restarts, succeeded, disposed, caller>>

CycleSucceeds ==
  /\ fiber = "cycle"
  /\ fiber' = "pause" /\ phase' = "running"
  /\ succeeded' = TRUE /\ ready' = Settled("ready")
  /\ UNCHANGED <<running, requested, signaled, restarts, disposed, caller>>

CycleFails ==
  /\ fiber = "cycle"
  /\ restarts' = restarts + 1
  /\ IF restarts' > RestartLimit
     THEN End("failed") /\ ready' = Settled("failed")
     ELSE fiber' = "delay" /\ phase' = "restarting" /\ UNCHANGED <<running, ready>>
  /\ UNCHANGED <<requested, signaled, succeeded, disposed, caller>>

\* The pause after a cycle, or the delay before a restart, is over.
Wake ==
  /\ fiber \in {"pause", "delay"}
  /\ IF requested THEN End("stopped")
     ELSE fiber' = "check" /\ UNCHANGED <<running, phase>>
  /\ UNCHANGED <<requested, signaled, ready, restarts, succeeded, disposed, caller>>
\* It is cut short by the shutdown signal.
CutShort ==
  /\ fiber \in {"pause", "delay"} /\ signaled
  /\ End("stopped")
  /\ UNCHANGED <<requested, signaled, ready, restarts, succeeded, disposed, caller>>

-----------------------------------------------------------------------------
(* requestShutdown and stop()                                              *)

\* stop(): without a fiber it disposes of the runtime at once.
StopEnded(c) ==
  /\ c \in Stopper /\ caller[c] = "new" /\ fiber = "ended"
  /\ ~running
  /\ phase' = IF phase = "failed" THEN phase ELSE "stopped"
  /\ ready' = Settled("failed")
  /\ disposed' = TRUE
  /\ caller' = [caller EXCEPT ![c] = "returned"]
  /\ UNCHANGED <<fiber, running, requested, signaled, restarts, succeeded>>

\* stop() and the signal handler, up to the first await of requestShutdown.
RequestShutdown(c) ==
  /\ caller[c] = "new" /\ running
  /\ requested' = TRUE
  /\ ready' = Settled("failed")
  /\ caller' = [caller EXCEPT ![c] = "announcing"]
  /\ UNCHANGED <<phase, fiber, running, signaled, restarts, succeeded, disposed>>

\* The rest of requestShutdown.  A disposed runtime runs nothing any more, and
\* the call is rejected.
Announce(c) ==
  /\ caller[c] = "announcing"
  /\ phase' = IF phase \in Terminal THEN phase ELSE "stopping"
  /\ signaled' = (signaled \/ ~disposed)
  /\ caller' = [caller EXCEPT ![c] = IF disposed THEN "rejected"
                                     ELSE IF c \in Stopper THEN "joining"
                                     ELSE "returned"]
  /\ UNCHANGED <<fiber, running, requested, ready, restarts, succeeded, disposed>>

\* Fiber.await in stop(), and what follows it.
Join(c) ==
  /\ caller[c] = "joining"
  /\ ~disposed /\ fiber = "ended"
  /\ running' = FALSE
  /\ phase' = IF phase = "failed" THEN phase ELSE "stopped"
  /\ disposed' = TRUE
  /\ caller' = [caller EXCEPT ![c] = "returned"]
  /\ UNCHANGED <<fiber, requested, signaled, ready, restarts, succeeded>>
\* A second stop() that gets here after the first disposed of the runtime: it had
\* begun to wait before that, or it is rejected.
JoinDisposed(c) ==
  /\ caller[c] = "joining" /\ disposed
  /\ \E outcome \in {"returned", "rejected"} :
       caller' = [caller EXCEPT ![c] = outcome]
  /\ UNCHANGED <<phase, fiber, running, requested, signaled, ready, restarts,
                 succeeded, disposed>>

-----------------------------------------------------------------------------
FiberStep == Check \/ CycleSucceeds \/ CycleFails \/ Wake \/ CutShort
CallerStep(c) == Announce(c) \/ Join(c) \/ JoinDisposed(c)

WorkerNext ==
  \/ Start
  \/ FiberStep
  \/ \E c \in Caller : StopEnded(c) \/ RequestShutdown(c) \/ CallerStep(c)

WorkerSpec == WorkerInit /\ [][WorkerNext]_workerVars

-----------------------------------------------------------------------------
WorkerTypeOK ==
  /\ phase \in Phase
  /\ fiber \in {"none", "check", "cycle", "pause", "delay", "ended"}
  /\ ready \in {"pending", "ready", "failed"}
  /\ restarts \in 0..(RestartLimit + 1)
  /\ running \in BOOLEAN /\ requested \in BOOLEAN /\ signaled \in BOOLEAN
  /\ succeeded \in BOOLEAN /\ disposed \in BOOLEAN
  /\ caller \in [Caller -> {"new", "announcing", "joining", "returned", "rejected"}]

\* Once a stop() has returned, or the runtime is disposed of, no cycle runs and
\* none will, and the status says how the service ended.
StopMeansStopped ==
  disposed \/ (\E s \in Stopper : caller[s] \in {"returned", "rejected"}) =>
    fiber = "ended" /\ phase \in Terminal

\* ready() tells the truth: it succeeds only after a successful cycle, fails only
\* for a shutdown or a failure for good, and is settled when either happened.
ReadyIsTruthful ==
  /\ ready = "ready" => succeeded
  /\ ready = "failed" => requested \/ phase = "failed"
  /\ succeeded \/ requested \/ fiber = "ended" => ready # "pending"

\* A final status is final, whatever a concurrent shutdown was about to set.
TerminalIsFinal == [][(phase \in Terminal) => UNCHANGED phase]_workerVars

\* After a shutdown request, at most the cycle that is running is completed.
NoCycleAfterRequest ==
  [][requested /\ fiber # "cycle" => fiber' # "cycle"]_workerVars

\* Every stop() ends, and a service that was asked to stop reaches a final phase.
StopEnds ==
  []<>(/\ \A s \in Stopper : caller[s] \in {"new", "returned", "rejected"}
       /\ requested => phase \in Terminal)

\* A started service settles ready(): failures are limited, and cycles return.
ReadyIsSettled == []<>(fiber = "none" \/ ready # "pending")

-----------------------------------------------------------------------------
(* The inductive invariant behind the safety properties                    *)

\* The fiber, the reference to it and the phase agree; failures stay within the
\* limit as long as the fiber lives.
FiberAgrees ==
  /\ running <=> fiber \notin {"none", "ended"}
  /\ (phase \in Terminal) <=> (fiber = "ended")
  /\ fiber # "ended" => restarts <= RestartLimit

\* Who is past the first await of requestShutdown has requested it.
RequestsPrecede ==
  /\ signaled => requested
  /\ \A c \in Caller : caller[c] \in {"announcing", "joining"} => requested

WorkerInv == WorkerTypeOK /\ FiberAgrees /\ RequestsPrecede /\ StopMeansStopped
             /\ ReadyIsTruthful
=============================================================================
