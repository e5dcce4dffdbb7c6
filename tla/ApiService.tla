----------------------------- MODULE ApiService -----------------------------
(***************************************************************************)
(* The HTTP API: its supervisor (apps/api/src/service-runtime.ts), the     *)
(* request handler (server.ts), the loading of the runtime service         *)
(* (runtime-service.ts) and the counters of telemetry.ts.                  *)
(*                                                                         *)
(* The supervisor starts a server, polls whether it still listens, closes  *)
(* it and starts it again, up to a limit; stop() may be called at any time *)
(* and any number of times.  Closing a server drops its connections but    *)
(* not the handlers that run: an operation may commit with nobody left to  *)
(* answer.  An operation is one step here (RuntimeStore has its locking).  *)
(***************************************************************************)
EXTENDS Integers, FiniteSets

CONSTANTS
  ApiRequest,    \* requests that are made once each
  ApiRequestIs,  \* each: path, method, token, body, store, header
  AuthRequired, ConsoleEnabled, DualRunEnabled,
  RestartLimit,
  DefaultStore, NoStore,
  MaxStops       \* bound: calls of stop()

ApiPaths == {"root", "metrics", "console", "operation", "dualrun", "unknown"}
PublicPath == {"root", "console"}
ApiPhases ==
  {"idle", "starting", "running", "restarting", "stopping", "stopped", "failed"}

ASSUME ApiAssumption ==
  /\ \A r \in ApiRequest : ApiRequestIs[r].path \in ApiPaths
  /\ {AuthRequired, ConsoleEnabled, DualRunEnabled} \subseteq BOOLEAN
  /\ RestartLimit \in Nat /\ MaxStops \in Nat
  /\ IsFiniteSet(ApiRequest) /\ DefaultStore # NoStore

VARIABLES
  apiPhase,      \* status.phase
  super,         \* where the supervisor is
  shutdown,      \* shutdownRequested
  attempted,     \* startAttempted
  readiness,     \* what ready() answers, once it is settled
  restartCount,
  apiListens,    \* whether the current server listens
  apiStops,      \* each call of stop(): where it is
  handling,      \* each request: where its handler is, its server, its status code
  connected,     \* the requests whose connection is open
  runtimeLoad,   \* the cached load of the runtime service: none, loading, loaded
  series,        \* each server's telemetry: operations by their result
  (* history *)
  committed,     \* the store each executed operation went to
  launches       \* how many servers listened

apiVars == <<apiPhase, super, shutdown, attempted, readiness, restartCount, apiListens,
  apiStops, handling, connected, runtimeLoad, series, committed, launches>>
serverVars == <<apiPhase, super, shutdown, attempted, readiness, restartCount, launches>>
requestVars == <<handling, runtimeLoad, series, committed>>

ApiServer == 1 .. RestartLimit + 1
StopCall == 1 .. MaxStops

ApiInit ==
  /\ apiPhase = "idle" /\ super = "none" /\ shutdown = FALSE /\ attempted = FALSE
  /\ readiness = "open" /\ restartCount = 0 /\ apiListens = FALSE
  /\ apiStops = [s \in StopCall |-> "none"]
  /\ handling = [r \in ApiRequest |-> [at |-> "none", server |-> 0, code |-> 0]]
  /\ connected = {} /\ runtimeLoad = "none"
  /\ series = [n \in ApiServer |-> [success |-> 0, failure |-> 0]]
  /\ committed = [r \in ApiRequest |-> NoStore] /\ launches = 0

------------------------------------------------------------------------------
(* The supervisor.                                                            *)

ReadyIs(answer) == readiness' = IF readiness = "open" THEN answer ELSE readiness

\* start(): nothing while a supervisor runs, refused once one has ended.
StartService ==
  /\ super = "none"
  /\ attempted => apiPhase \notin {"stopped", "failed"}
  /\ attempted' = TRUE /\ shutdown' = FALSE /\ apiPhase' = "starting" /\ super' = "loop"
  /\ UNCHANGED <<readiness, restartCount, apiListens, apiStops, connected, launches>>
  /\ UNCHANGED requestVars

\* The head of the supervisor's loop.
SuperviseAgain ==
  /\ super = "loop"
  /\ IF shutdown THEN apiPhase' = "stopped" /\ super' = "none"
                 ELSE super' = "launch" /\ UNCHANGED apiPhase
  /\ UNCHANGED <<shutdown, attempted, readiness, restartCount, apiListens, apiStops>>
  /\ UNCHANGED <<connected, launches, requestVars>>

Launched ==
  /\ super = "launch" /\ launches <= RestartLimit
  /\ apiListens' = TRUE /\ launches' = launches + 1
  /\ apiPhase' = "running" /\ super' = "watch" /\ ReadyIs("ready")
  /\ UNCHANGED <<shutdown, attempted, restartCount, apiStops, connected, requestVars>>
\* A server that does not start ends the supervision, the first or a later one.
LaunchFails ==
  /\ super = "launch" /\ super' = "none"
  /\ IF shutdown THEN apiPhase' = "stopped" /\ UNCHANGED readiness
                 ELSE apiPhase' = "failed" /\ ReadyIs("refused")
  /\ UNCHANGED <<shutdown, attempted, restartCount, apiListens, apiStops, connected>>
  /\ UNCHANGED <<launches, requestVars>>

\* The poll: a shutdown is seen before a listener that stopped.
WatchListener ==
  /\ super = "watch"
  /\ \/ shutdown /\ apiPhase' = "stopped" /\ super' = "close to end"
     \/ ~shutdown /\ ~apiListens /\ super' = "close" /\ UNCHANGED apiPhase
  /\ UNCHANGED <<shutdown, attempted, readiness, restartCount, apiListens, apiStops>>
  /\ UNCHANGED <<connected, launches, requestVars>>
ListenerStops ==
  /\ apiListens /\ apiListens' = FALSE
  /\ UNCHANGED <<serverVars, apiStops, connected, requestVars>>

\* Closing drops every connection; it ends when the server does or in time.
CloseServer ==
  /\ apiListens' = FALSE
  /\ connected' = IF apiListens THEN {} ELSE connected

\* Faulty: a restart is counted only while the limit allows one.
CountedWithinLimit(n) == IF n < RestartLimit THEN n + 1 ELSE n
CountedRestart(n) == n + 1

CloseCycle ==
  /\ super \in {"close", "close to end"} /\ CloseServer
  /\ IF super = "close to end"
       THEN super' = "none" /\ UNCHANGED <<apiPhase, readiness, restartCount>>
     ELSE IF shutdown
       THEN /\ super' = "none" /\ apiPhase' = "stopped"
            /\ UNCHANGED <<readiness, restartCount>>
     ELSE LET n == CountedRestart(restartCount)
          IN /\ restartCount' = n
             /\ IF n > RestartLimit
                  THEN apiPhase' = "failed" /\ super' = "none" /\ ReadyIs("refused")
                  ELSE apiPhase' = "restarting" /\ super' = "loop" /\ UNCHANGED readiness
  /\ UNCHANGED <<shutdown, attempted, apiStops, launches, requestVars>>

------------------------------------------------------------------------------
(* stop().                                                                    *)

HasServer == super \in {"watch", "close", "close to end"}
\* Faulty: stop() awaits the server that it closes, and no supervisor without one.
AwaitsServer == HasServer
AwaitsSupervisor == super # "none"

\* With nothing to await stop() is over at once; before any start() it is "early".
ApiStopBegins(s) ==
  /\ apiStops[s] = "none"
  /\ shutdown' = TRUE /\ ReadyIs("refused")
  /\ apiPhase' = IF apiPhase \in {"failed", "stopped"} THEN apiPhase
                 ELSE IF AwaitsSupervisor THEN "stopping" ELSE "stopped"
  /\ apiStops' = [apiStops EXCEPT ![s] =
       IF AwaitsSupervisor THEN "waiting" ELSE IF attempted THEN "done" ELSE "early"]
  /\ IF HasServer THEN CloseServer ELSE UNCHANGED <<apiListens, connected>>
  /\ UNCHANGED <<super, attempted, restartCount, launches, requestVars>>
ApiStopEnds(s) ==
  /\ apiStops[s] = "waiting" /\ ~AwaitsSupervisor
  /\ apiStops' = [apiStops EXCEPT ![s] = "done"]
  /\ apiPhase' = IF apiPhase = "failed" THEN apiPhase ELSE "stopped"
  /\ UNCHANGED <<super, shutdown, attempted, readiness, restartCount, apiListens>>
  /\ UNCHANGED <<connected, launches, requestVars>>

------------------------------------------------------------------------------
(* The request handler.                                                       *)

RequestOf(r) == ApiRequestIs[r]
\* Faulty: the token is asked of the console and not of the metrics.
AdmittedToMetrics(q) ==
  AuthRequired /\ q.path \notin {"root", "metrics"} => q.token = "right"
Admitted(q) == AuthRequired /\ q.path \notin PublicPath => q.token = "right"

\* The answers that need no body: 0 when the request goes on.
AtOnce(q) ==
  CASE ~Admitted(q) -> 401
    [] Admitted(q) /\ q.path = "metrics" -> IF q.method = "GET" THEN 200 ELSE 405
    [] Admitted(q) /\ q.path = "console" ->
         IF ~ConsoleEnabled THEN 404 ELSE IF q.method = "GET" THEN 200 ELSE 405
    [] Admitted(q) /\ q.path = "root" -> IF q.method = "GET" THEN 0 ELSE 404
    [] Admitted(q) /\ q.path = "unknown" -> 404
    [] Admitted(q) /\ q.path = "dualrun" /\ ~DualRunEnabled -> 404
    [] OTHER -> IF q.method = "POST" THEN 0 ELSE 405

GoesTo(r, place) == handling' = [handling EXCEPT ![r].at = place]
Ended(r, code) == [handling[r] EXCEPT !.at = "done", !.code = code]
Replies(r, code) == handling' = [handling EXCEPT ![r] = Ended(r, code)]

\* An operation is counted by the server it came to, an unknown one never.
Counts(r, result) == series' = [series EXCEPT ![handling[r].server][result] = @ + 1]
Refuses(r, code) == Replies(r, code) /\ Counts(r, "failure")

Arrive(r) ==
  /\ apiListens /\ handling[r].at = "none"
  /\ connected' = connected \cup {r}
  /\ LET code == AtOnce(RequestOf(r))
         next == IF code # 0 THEN "done"
                 ELSE IF RequestOf(r).path = "root" THEN "resolving" ELSE "reading"
     IN handling' =
          [handling EXCEPT ![r] = [at |-> next, server |-> launches, code |-> code]]
  /\ UNCHANGED <<serverVars, apiListens, apiStops, runtimeLoad, series, committed>>

\* A body that is too large, no JSON, or cut off by a lost connection.
ReadBody(r) ==
  /\ handling[r].at = "reading"
  /\ IF RequestOf(r).body = "large" THEN Refuses(r, 413)
     ELSE IF r \notin connected \/ RequestOf(r).body = "bad" THEN Refuses(r, 400)
     ELSE GoesTo(r, "resolving") /\ UNCHANGED series
  /\ UNCHANGED <<serverVars, apiListens, apiStops, connected, runtimeLoad, committed>>

\* The runtime service is loaded once; who comes meanwhile waits for that load.
Resolve(r) ==
  /\ handling[r].at = "resolving"
  /\ IF RequestOf(r).path = "dualrun" \/ runtimeLoad = "loaded"
       THEN GoesTo(r, "running") /\ UNCHANGED runtimeLoad
       ELSE /\ GoesTo(r, "loading")
            /\ runtimeLoad' = IF runtimeLoad = "none" THEN "loading" ELSE runtimeLoad
  /\ UNCHANGED <<serverVars, apiListens, apiStops, connected, series, committed>>

AwaitLoad == {r \in ApiRequest : handling[r].at = "loading"}
\* The operations that server n counts as failed when their load fails.
LoadsLost(n) == {r \in AwaitLoad : RequestOf(r).path # "root" /\ handling[r].server = n}
\* Faulty: a load that fails stays cached.
FailedLoadKept == "failed"
FailedLoad == "none"
Loaded ==
  /\ runtimeLoad = "loading" /\ runtimeLoad' = "loaded"
  /\ handling' = [r \in ApiRequest |->
       IF r \in AwaitLoad THEN [handling[r] EXCEPT !.at = "running"] ELSE handling[r]]
  /\ UNCHANGED <<serverVars, apiListens, apiStops, connected, series, committed>>
LoadFails ==
  /\ runtimeLoad = "loading" /\ runtimeLoad' = FailedLoad
  /\ handling' = [r \in ApiRequest |->
       IF r \in AwaitLoad THEN Ended(r, 500) ELSE handling[r]]
  /\ series' = [n \in ApiServer |->
       [series[n] EXCEPT !.failure = @ + Cardinality(LoadsLost(n))]]
  /\ UNCHANGED <<serverVars, apiListens, apiStops, connected, committed>>

\* Faulty: the header's store before the body's.
HeaderFirst(q) ==
  CASE q.header # NoStore -> q.header
    [] q.header = NoStore -> IF q.store # NoStore THEN q.store ELSE DefaultStore
\* The body's store, or the header's, or the default one.
StoreOf(q) ==
  CASE q.store # NoStore -> q.store
    [] q.store = NoStore -> IF q.header # NoStore THEN q.header ELSE DefaultStore

RunOperation(r) ==
  /\ handling[r].at = "running"
  /\ IF RequestOf(r).path = "root" THEN Replies(r, 200) /\ UNCHANGED <<series, committed>>
     ELSE \/ /\ Replies(r, 200) /\ Counts(r, "success")
             /\ committed' = [committed EXCEPT ![r] = StoreOf(RequestOf(r))]
          \/ /\ \E code \in {400, 500, 503} : Refuses(r, code)
             /\ UNCHANGED committed
          \/ /\ RequestOf(r).path = "operation" /\ Replies(r, 404)  \* an unknown one
             /\ UNCHANGED <<series, committed>>
  /\ UNCHANGED <<serverVars, apiListens, apiStops, connected, runtimeLoad>>

ApiNext ==
  \/ StartService \/ SuperviseAgain \/ Launched \/ LaunchFails
  \/ WatchListener \/ ListenerStops \/ CloseCycle
  \/ \E s \in StopCall : ApiStopBegins(s) \/ ApiStopEnds(s)
  \/ \E r \in ApiRequest : Arrive(r) \/ ReadBody(r) \/ Resolve(r) \/ RunOperation(r)
  \/ Loaded \/ LoadFails

ApiSpec == ApiInit /\ [][ApiNext]_apiVars
------------------------------------------------------------------------------
ApiTypeOK ==
  /\ apiPhase \in ApiPhases
  /\ super \in {"none", "loop", "launch", "watch", "close", "close to end"}
  /\ {shutdown, attempted, apiListens} \subseteq BOOLEAN
  /\ readiness \in {"open", "ready", "refused"}
  /\ restartCount \in 0 .. RestartLimit + 1 /\ launches \in 0 .. RestartLimit + 1
  /\ apiStops \in [StopCall -> {"none", "waiting", "early", "done"}]
  /\ handling \in [ApiRequest ->
       [at : {"none", "reading", "resolving", "loading", "running", "done"},
        server : 0 .. launches, code : {0, 200, 400, 401, 404, 405, 413, 500, 503}]]
  /\ connected \subseteq ApiRequest
  /\ runtimeLoad \in {"none", "loading", "loaded"}
  /\ series \in [ApiServer -> [success : Nat, failure : Nat]]
  /\ DOMAIN committed = ApiRequest

\* A stop() that was called after start() returns only when nothing listens, no
\* supervisor runs that could start a server again, and the phase says so.
StopIsFinal ==
  (\E s \in StopCall : apiStops[s] = "done") =>
    ~apiListens /\ super = "none" /\ apiPhase \in {"stopped", "failed"}

\* ready() promises a server that listened, and is refused for a server that
\* did not start, too many restarts before one did, or a stop().
ReadinessIsTrue ==
  /\ readiness = "ready" => launches > 0
  /\ readiness = "refused" /\ launches > 0 => \E s \in StopCall : apiStops[s] # "none"

\* However listeners stop, servers are started RestartLimit times again at most,
\* and a service ends as failed only past that limit or by a start that failed.
RestartsAreBounded ==
  /\ super = "launch" => launches <= RestartLimit
  /\ restartCount > RestartLimit <=> apiPhase = "failed" /\ launches > RestartLimit

\* An operation is answered 200 exactly when it committed, also when its
\* connection is lost and its server is gone, and only to the store it named.
AnswersMatchWork == \A r \in ApiRequest :
  LET q == RequestOf(r)
  IN /\ committed[r] # NoStore <=>
          /\ handling[r].at = "done" /\ handling[r].code = 200
          /\ q.path \in {"operation", "dualrun"}
     /\ committed[r] # NoStore /\ q.store # NoStore => committed[r] = q.store
     /\ handling[r].code = 200 /\ AuthRequired /\ q.token # "right" =>
          q.path \in PublicPath

\* Each server's counters tell its operations that came to an answer, by their
\* result: those without an own answer (no method, no token, unknown) are not counted.
TelemetryAddsUp == \A n \in ApiServer :
  LET Told(codes) == {r \in ApiRequest :
        /\ handling[r].at = "done" /\ handling[r].server = n /\ handling[r].code \in codes
        /\ RequestOf(r).path \in {"operation", "dualrun"}}
  IN series[n] = [success |-> Cardinality(Told({200})),
                  failure |-> Cardinality(Told({400, 413, 500, 503}))]

\* No request waits for a load that is over: a failed one is told to those that
\* waited, and the next request begins another.
LoadsAreNotKept == AwaitLoad # {} => runtimeLoad = "loading"

ApiIsRight ==
  /\ StopIsFinal /\ ReadinessIsTrue /\ RestartsAreBounded
  /\ AnswersMatchWork /\ TelemetryAddsUp /\ LoadsAreNotKept
==============================================================================
