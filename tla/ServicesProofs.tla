---------------------------- MODULE ServicesProofs ----------------------------
(***************************************************************************)
(* Proofs about the services: the API service and its requests, the        *)
(* identity directory, the daemon's commands and its configuration, for    *)
(* every instance.  The invariant of the API service is that of its        *)
(* supervisor (how many servers were launched for where it is, and that it *)
(* ends for good) and that of its requests (what each has told the         *)
(* counters by the step it has come to).  The invariant of the directory   *)
(* is that its tables are what its feeds said last, in the order of their  *)
(* sequence numbers.  That of the commands is that the one daemon alive is *)
(* known to the state file or to the command at work; that of the          *)
(* configuration is that what is written is checked when it is written;    *)
(* and that of the sources is that no cursor, wherever it is kept, passes  *)
(* what the journal has not.                                               *)
(***************************************************************************)
EXTENDS ApiService, IdentityDirectory, DaemonControl, CollectorConfig,
        SourceCollection, FiniteSetTheorems, SequenceTheorems, WellFoundedInduction, TLAPS

-----------------------------------------------------------------------------
(* The API service.  Its supervisor                                         *)

SupervisorTyped ==
  /\ apiPhase \in ApiPhases
  /\ super \in {"none", "loop", "launch", "watch", "close", "close to end"}
  /\ shutdown \in BOOLEAN /\ attempted \in BOOLEAN /\ apiListens \in BOOLEAN
  /\ readiness \in {"open", "ready", "refused"}
  /\ restartCount \in 0 .. RestartLimit + 1 /\ launches \in 0 .. RestartLimit + 1
  /\ apiStops \in [StopCall -> {"none", "waiting", "early", "done"}]

StopCalled == \E s \in StopCall : apiStops[s] # "none"

\* Where the supervisor is says how many servers were launched and restarts counted.
CountsAgree ==
  /\ ~attempted => super = "none" /\ launches = 0 /\ restartCount = 0
  /\ super \in {"loop", "launch"} => launches = restartCount /\ restartCount <= RestartLimit
  /\ HasServer => launches = restartCount + 1 /\ restartCount <= RestartLimit
  /\ apiPhase = "failed" => super = "none" /\ launches = restartCount
  /\ restartCount > RestartLimit => apiPhase = "failed"

\* Once the supervision has ended it is not begun again.
EndsForGood ==
  /\ attempted /\ super = "none" => apiPhase \in {"stopped", "failed"}
  /\ super = "close to end" => apiPhase = "stopped"
  /\ apiListens => HasServer
  /\ ~attempted => apiPhase # "failed"
  /\ \A s \in StopCall :
       /\ apiStops[s] = "waiting" => attempted
       /\ apiStops[s] = "done" => attempted /\ super = "none"

ReadinessFollows ==
  /\ launches > 0 => readiness # "open"
  /\ readiness = "ready" => launches > 0
  /\ readiness = "refused" /\ ~StopCalled =>
       launches = 0 /\ super = "none" /\ apiPhase = "failed"

SupervisorInv == SupervisorTyped /\ CountsAgree /\ EndsForGood /\ ReadinessFollows

LEMMA LimitIsNat == RestartLimit \in Nat /\ RestartLimit + 1 \in Nat
BY ApiAssumption DEF ApiAssumption

LEMMA CountsAreNat ==
  ASSUME SupervisorTyped
  PROVE  launches \in Nat /\ restartCount \in Nat
<1>1. launches \in 0 .. RestartLimit + 1 /\ restartCount \in 0 .. RestartLimit + 1
  BY DEF SupervisorTyped
<1> QED
  BY <1>1, LimitIsNat

LEMMA SupervisorInit == ApiInit => SupervisorInv
<1> SUFFICES ASSUME ApiInit PROVE SupervisorInv
  OBVIOUS
<1>1. SupervisorTyped
  <2>1. apiPhase = "idle" /\ super = "none" /\ readiness = "open"
    BY DEF ApiInit
  <2>2. restartCount = 0 /\ launches = 0 /\ ~shutdown /\ ~attempted /\ ~apiListens
    BY DEF ApiInit
  <2>3. /\ shutdown \in BOOLEAN /\ attempted \in BOOLEAN /\ apiListens \in BOOLEAN
        /\ apiStops \in [StopCall -> {"none", "waiting", "early", "done"}]
    BY DEF ApiInit
  <2> QED
    BY <2>1, <2>2, <2>3, LimitIsNat DEF SupervisorTyped, ApiPhases
<1>2. ~StopCalled /\ \A s \in StopCall : apiStops[s] = "none"
  BY DEF ApiInit, StopCalled
<1>3. CountsAgree /\ ReadinessFollows
  BY <1>2, LimitIsNat DEF ApiInit, CountsAgree, ReadinessFollows, HasServer
<1>4. EndsForGood
  BY <1>2 DEF ApiInit, EndsForGood, HasServer
<1> QED
  BY <1>1, <1>3, <1>4 DEF SupervisorInv

\* The restart that follows the close of a server, or the one too many.
LEMMA RestartKept ==
  ASSUME SupervisorInv, CloseCycle, super = "close", ~shutdown
  PROVE  SupervisorInv'
<1>1. /\ launches = restartCount + 1 /\ launches > 0 /\ readiness # "open"
      /\ launches \in Nat /\ restartCount \in Nat /\ restartCount <= RestartLimit
  BY LimitIsNat
  DEF SupervisorInv, SupervisorTyped, CountsAgree, HasServer, ReadinessFollows
<1>2. /\ restartCount' = restartCount + 1 /\ apiListens' = FALSE /\ readiness' = readiness
      /\ UNCHANGED <<shutdown, attempted, apiStops, launches>>
      /\ IF restartCount + 1 > RestartLimit
           THEN apiPhase' = "failed" /\ super' = "none"
           ELSE apiPhase' = "restarting" /\ super' = "loop"
  BY <1>1 DEF CloseCycle, CloseServer, CountedRestart, ReadyIs
<1>3. restartCount + 1 \in 0 .. RestartLimit + 1
  BY <1>1, LimitIsNat
<1>4. SupervisorTyped'
  <2>1. apiPhase' \in ApiPhases /\ (super' = "none" \/ super' = "loop")
    BY <1>2 DEF ApiPhases
  <2>2. restartCount' \in 0 .. RestartLimit + 1
    BY <1>2, <1>3
  <2> QED
    BY <1>2, <2>1, <2>2 DEF SupervisorInv, SupervisorTyped
<1>5. CountsAgree'
  <2>1. attempted /\ ~HasServer'
    BY <1>2 DEF SupervisorInv, CountsAgree, HasServer
  <2>2. launches' = restartCount'
    BY <1>1, <1>2
  <2>3. CASE restartCount + 1 > RestartLimit
    BY <1>2, <2>1, <2>2, <2>3 DEF CountsAgree
  <2>4. CASE ~(restartCount + 1 > RestartLimit)
    BY <1>1, <1>2, <2>1, <2>2, <2>4, LimitIsNat DEF CountsAgree
  <2> QED
    BY <2>3, <2>4
<1>6. EndsForGood'
  BY <1>1, <1>2 DEF SupervisorInv, EndsForGood, CountsAgree, HasServer
<1>7. ReadinessFollows'
  BY <1>1, <1>2 DEF SupervisorInv, ReadinessFollows, StopCalled
<1> QED
  BY <1>4, <1>5, <1>6, <1>7 DEF SupervisorInv

LEMMA SupervisorKept ==
  ASSUME SupervisorInv, [ApiNext]_apiVars
  PROVE  SupervisorInv'
<1> USE LimitIsNat DEF SupervisorInv
<1> USE DEF CountsAgree, EndsForGood, ReadinessFollows, StopCalled, HasServer, ReadyIs
<1>1. CASE StartService
  <2>1. ~attempted
    BY <1>1 DEF StartService
  <2>2. SupervisorTyped'
    BY <1>1, <2>1 DEF StartService, SupervisorTyped, ApiPhases
  <2>3. CountsAgree' /\ EndsForGood' /\ ReadinessFollows'
    BY <1>1, <2>1 DEF StartService, SupervisorTyped
  <2> QED
    BY <2>2, <2>3
<1>2. CASE SuperviseAgain
  BY <1>2 DEF SuperviseAgain, SupervisorTyped, ApiPhases
<1>3. CASE Launched
  BY <1>3 DEF Launched, SupervisorTyped, ApiPhases
<1>4. CASE LaunchFails
  BY <1>4 DEF LaunchFails, SupervisorTyped, ApiPhases
<1>5. CASE WatchListener
  BY <1>5 DEF WatchListener, SupervisorTyped, ApiPhases
<1>6. CASE ListenerStops
  BY <1>6 DEF ListenerStops, serverVars, SupervisorTyped
<1>7. CASE CloseCycle
  <2>1. CASE super = "close to end"
    BY <1>7, <2>1 DEF CloseCycle, CloseServer, SupervisorTyped, ApiPhases
  <2>2. CASE super = "close" /\ shutdown
    BY <1>7, <2>2 DEF CloseCycle, CloseServer, SupervisorTyped, ApiPhases
  <2> QED
    BY <1>7, <2>1, <2>2, RestartKept DEF CloseCycle
<1>8. ASSUME NEW s \in StopCall, ApiStopBegins(s) PROVE SupervisorInv'
  BY <1>8 DEF ApiStopBegins, AwaitsSupervisor, CloseServer, SupervisorTyped, ApiPhases
<1>9. ASSUME NEW s \in StopCall, ApiStopEnds(s) PROVE SupervisorInv'
  BY <1>9 DEF ApiStopEnds, AwaitsSupervisor, SupervisorTyped, ApiPhases
<1>10. CASE UNCHANGED <<serverVars, apiListens, apiStops>>
  BY <1>10 DEF serverVars, SupervisorTyped
<1> QED
  BY <1>1, <1>2, <1>3, <1>4, <1>5, <1>6, <1>7, <1>8, <1>9, <1>10
  DEF ApiNext, apiVars, serverVars, Arrive, ReadBody, Resolve, RunOperation, Loaded, LoadFails

-----------------------------------------------------------------------------
(* The requests.                                                              *)

Codes == {0, 200, 400, 401, 404, 405, 413, 500, 503}
Failing == {400, 413, 500, 503}
Underway == {"reading", "resolving", "loading", "running"}
IsOperation(r) == RequestOf(r).path \in {"operation", "dualrun"}
Handling(n) == [at : Underway \cup {"none", "done"}, server : 0 .. n, code : Codes]

RequestsTyped ==
  /\ handling \in [ApiRequest -> Handling(launches)]
  /\ connected \subseteq ApiRequest
  /\ runtimeLoad \in {"none", "loading", "loaded"}
  /\ committed = [r \in ApiRequest |-> committed[r]]

\* A handler that is at work has passed the guards, on a server that listened,
\* and is the only one to say what became of its request.
HandlerRight(r, h, load, went) ==
  LET q == RequestOf(r)
  IN /\ h.at # "done" => h.code = 0 /\ went = NoStore
     /\ h.at \in Underway =>
          h.server \in ApiServer /\ Admitted(q) /\ (IsOperation(r) \/ q.path = "root")
     /\ h.at = "reading" => IsOperation(r)
     /\ h.at = "loading" => load = "loading"
     /\ h.code = 200 /\ AuthRequired /\ q.token # "right" => q.path \in PublicPath
     /\ went # NoStore <=> h.at = "done" /\ h.code = 200 /\ IsOperation(r)
     /\ went # NoStore => went = StoreOf(q)
HandlersRight ==
  \A r \in ApiRequest : HandlerRight(r, handling[r], runtimeLoad, committed[r])

Told(h, n, codes) ==
  {r \in ApiRequest : /\ h[r].at = "done" /\ h[r].server = n /\ h[r].code \in codes
                      /\ IsOperation(r)}
CountsTold(s, h) ==
  s = [n \in ApiServer |-> [success |-> Cardinality(Told(h, n, {200})),
                            failure |-> Cardinality(Told(h, n, Failing))]]

RequestsInv == RequestsTyped /\ HandlersRight /\ CountsTold(series, handling)

LEMMA ToldIsFinite ==
  ASSUME NEW h, NEW n, NEW codes
  PROVE  IsFiniteSet(Told(h, n, codes)) /\ Cardinality(Told(h, n, codes)) \in Nat
<1>1. IsFiniteSet(ApiRequest) /\ Told(h, n, codes) \in SUBSET ApiRequest
  BY ApiAssumption DEF ApiAssumption, Told
<1> QED
  BY <1>1, FS_Subset, FS_CardinalityType

\* Where one handler moves, a result is told once more if it was its end.
Moves(h, g, r) == r \in ApiRequest /\ h[r].at # "done" /\ \A x \in ApiRequest \ {r} : g[x] = h[x]
TellsOf(g, r, n, codes) ==
  g[r].at = "done" /\ g[r].server = n /\ g[r].code \in codes /\ IsOperation(r)
LEMMA ToldOnceMore ==
  ASSUME NEW h, NEW g, NEW r, Moves(h, g, r), NEW n, NEW codes
  PROVE  Cardinality(Told(g, n, codes)) =
           Cardinality(Told(h, n, codes)) + (IF TellsOf(g, r, n, codes) THEN 1 ELSE 0)
<1>1. r \notin Told(h, n, codes)
  BY DEF Told, Moves
<1>2. CASE TellsOf(g, r, n, codes)
  <2>1. Told(g, n, codes) = Told(h, n, codes) \cup {r}
    BY <1>2 DEF Told, Moves, TellsOf
  <2> QED
    BY <1>1, <1>2, <2>1, ToldIsFinite, FS_AddElement
<1>3. CASE ~TellsOf(g, r, n, codes)
  <2>1. Told(g, n, codes) = Told(h, n, codes)
    BY <1>3 DEF Told, Moves, TellsOf
  <2> QED
    BY <1>3, <2>1, ToldIsFinite
<1> QED
  BY <1>2, <1>3

\* An end that is not counted, and a move that is no end.
LEMMA NotCounted ==
  ASSUME NEW h, NEW g, NEW s, NEW r, Moves(h, g, r), CountsTold(s, h),
         ~ (g[r].at = "done" /\ g[r].code \in Failing \cup {200} /\ IsOperation(r))
  PROVE  CountsTold(s, g)
<1>1. ASSUME NEW n \in ApiServer, NEW codes, codes \subseteq Failing \cup {200}
      PROVE  Cardinality(Told(g, n, codes)) = Cardinality(Told(h, n, codes))
  <2>1. Cardinality(Told(g, n, codes)) = Cardinality(Told(h, n, codes)) +
          (IF TellsOf(g, r, n, codes) THEN 1 ELSE 0)
    BY ToldOnceMore
  <2>2. ~(g[r].at = "done" /\ g[r].code \in codes /\ IsOperation(r))
    BY <1>1 DEF TellsOf
  <2> QED
    BY <2>1, <2>2, ToldIsFinite DEF TellsOf
<1>2. \A n \in ApiServer : /\ Cardinality(Told(g, n, {200})) = Cardinality(Told(h, n, {200}))
                           /\ Cardinality(Told(g, n, Failing)) = Cardinality(Told(h, n, Failing))
  BY <1>1
<1> QED
  BY <1>2 DEF CountsTold

EndsAs(g, r, result) ==
  /\ g[r].at = "done" /\ g[r].server \in ApiServer /\ IsOperation(r)
  /\ \/ result = "success" /\ g[r].code = 200
     \/ result = "failure" /\ g[r].code \in Failing
Adds(s, t, n, result) == t = [s EXCEPT ![n][result] = @ + 1]
LEMMA Counted ==
  ASSUME NEW h, NEW g, NEW s, NEW t, NEW r, Moves(h, g, r), CountsTold(s, h),
         NEW result, EndsAs(g, r, result), Adds(s, t, g[r].server, result)
  PROVE  CountsTold(t, g)
<1> DEFINE m == g[r].server
<1> DEFINE Old(n) == [success |-> Cardinality(Told(h, n, {200})),
                      failure |-> Cardinality(Told(h, n, Failing))]
<1> DEFINE New(n) == [success |-> Cardinality(Told(g, n, {200})),
                      failure |-> Cardinality(Told(g, n, Failing))]
<1>1. s = [n \in ApiServer |-> Old(n)]
  BY DEF CountsTold
<1>0. ASSUME NEW n \in ApiServer, NEW codes
      PROVE  /\ Cardinality(Told(h, n, codes)) \in Nat
             /\ Cardinality(Told(g, n, codes)) = Cardinality(Told(h, n, codes)) +
                  (IF m = n /\ g[r].code \in codes THEN 1 ELSE 0)
  <2>1. Cardinality(Told(g, n, codes)) = Cardinality(Told(h, n, codes)) +
          (IF TellsOf(g, r, n, codes) THEN 1 ELSE 0)
    BY ToldOnceMore
  <2> QED
    BY <2>1, ToldIsFinite DEF TellsOf, EndsAs
<1>2. \A n \in ApiServer : n # m => New(n) = Old(n)
  <2>1. \A n \in ApiServer : n # m =>
          /\ Cardinality(Told(g, n, {200})) = Cardinality(Told(h, n, {200}))
          /\ Cardinality(Told(g, n, Failing)) = Cardinality(Told(h, n, Failing))
    BY <1>0
  <2> QED
    BY <2>1
<1>3. CASE result = "success"
  <2>1. New(m) = [success |-> Old(m).success + 1, failure |-> Old(m).failure]
    <3>1. /\ Cardinality(Told(g, m, {200})) = Cardinality(Told(h, m, {200})) + 1
          /\ Cardinality(Told(g, m, Failing)) = Cardinality(Told(h, m, Failing))
      BY <1>0, <1>3 DEF EndsAs, Failing
    <3> QED
      BY <3>1
  <2>2. [Old(m) EXCEPT !["success"] = @ + 1] = New(m)
    BY <2>1
  <2>3. t = [s EXCEPT ![m] = New(m)]
    BY <1>1, <1>3, <2>2 DEF Adds, EndsAs
  <2> QED
    BY <1>1, <1>2, <2>3 DEF CountsTold
<1>4. CASE result = "failure"
  <2>1. New(m) = [success |-> Old(m).success, failure |-> Old(m).failure + 1]
    <3>1. /\ Cardinality(Told(g, m, {200})) = Cardinality(Told(h, m, {200}))
          /\ Cardinality(Told(g, m, Failing)) = Cardinality(Told(h, m, Failing)) + 1
      BY <1>0, <1>4 DEF EndsAs, Failing
    <3> QED
      BY <3>1
  <2>2. [Old(m) EXCEPT !["failure"] = @ + 1] = New(m)
    BY <2>1
  <2>3. t = [s EXCEPT ![m] = New(m)]
    BY <1>1, <1>4, <2>2 DEF Adds, EndsAs
  <2> QED
    BY <1>1, <1>2, <2>3 DEF CountsTold
<1> QED
  BY <1>3, <1>4 DEF EndsAs

LEMMA RequestsInit == ApiInit => RequestsInv
<1> SUFFICES ASSUME ApiInit PROVE RequestsInv
  OBVIOUS
<1>1. RequestsTyped
  BY DEF ApiInit, RequestsTyped, Handling, Codes, Underway
<1>2. HandlersRight
  BY DEF ApiInit, HandlersRight, HandlerRight, Underway
<1>3. \A n, codes : Told(handling, n, codes) = {}
  BY DEF ApiInit, Told
<1>4. CountsTold(series, handling)
  BY <1>3, FS_EmptySet DEF ApiInit, CountsTold
<1> QED
  BY <1>1, <1>2, <1>4 DEF RequestsInv

\* The supervisor moves no handler, and a server once launched stays one that was.
LEMMA RequestsIdle ==
  ASSUME RequestsInv, launches \in Nat, launches' \in {launches, launches + 1},
         UNCHANGED requestVars, connected' \subseteq ApiRequest
  PROVE  RequestsInv'
<1>1. \A x \in Handling(launches) : x \in Handling(launches')
  BY DEF Handling
<1>2. RequestsTyped'
  BY <1>1 DEF RequestsInv, RequestsTyped, requestVars
<1>3. HandlersRight'
  BY DEF RequestsInv, HandlersRight, requestVars
<1>4. CountsTold(series', handling')
  BY DEF RequestsInv, requestVars
<1> QED
  BY <1>2, <1>3, <1>4 DEF RequestsInv

\* A step of the handler of r moves no other one.
MovesTo(r, moved, went) ==
  /\ handling[r].at # "done" /\ moved \in Handling(launches) /\ launches' = launches
  /\ handling' = [handling EXCEPT ![r] = moved] /\ committed' = [committed EXCEPT ![r] = went]
  /\ connected' \subseteq ApiRequest /\ runtimeLoad' \in {"none", "loading", "loaded"}
  /\ runtimeLoad = "loading" => runtimeLoad' = "loading"
  /\ HandlerRight(r, moved, runtimeLoad', went)
LEMMA HandlerMoves ==
  ASSUME RequestsInv, NEW r \in ApiRequest, NEW moved, NEW went, MovesTo(r, moved, went)
  PROVE  /\ RequestsTyped' /\ HandlersRight'
         /\ Moves(handling, handling', r) /\ handling'[r] = moved
<1>1. RequestsTyped'
  BY DEF RequestsInv, RequestsTyped, MovesTo
<1>2. handling'[r] = moved /\ committed'[r] = went
  BY DEF RequestsInv, RequestsTyped, MovesTo
<1>3. \A x \in ApiRequest \ {r} : handling'[x] = handling[x] /\ committed'[x] = committed[x]
  BY DEF RequestsInv, RequestsTyped, MovesTo
<1>4. HandlersRight'
  <2> SUFFICES ASSUME NEW x \in ApiRequest
               PROVE  HandlerRight(x, handling'[x], runtimeLoad', committed'[x])
    BY DEF HandlersRight
  <2>1. CASE x = r
    BY <1>2, <2>1 DEF MovesTo
  <2>2. CASE x # r
    BY <1>3, <2>2 DEF MovesTo, RequestsInv, HandlersRight, HandlerRight
  <2> QED
    BY <2>1, <2>2
<1>5. Moves(handling, handling', r)
  BY <1>3 DEF Moves, MovesTo
<1> QED
  BY <1>1, <1>2, <1>4, <1>5

LEMMA AtOnceIs ==
  ASSUME NEW r \in ApiRequest, NEW c, c = AtOnce(RequestOf(r))
  PROVE  /\ c \in {0, 200, 401, 404, 405}
         /\ c = 0 => Admitted(RequestOf(r)) /\ (IsOperation(r) \/ RequestOf(r).path = "root")
         /\ c = 200 => Admitted(RequestOf(r)) /\ ~IsOperation(r)
<1>1. RequestOf(r).path \in ApiPaths
  BY ApiAssumption DEF ApiAssumption, RequestOf
<1>2. CASE ~Admitted(RequestOf(r))
  BY <1>2 DEF AtOnce
<1>3. CASE Admitted(RequestOf(r))
  <2>1. CASE RequestOf(r).path = "metrics"
    BY <1>3, <2>1 DEF AtOnce, IsOperation
  <2>2. CASE RequestOf(r).path = "console"
    BY <1>3, <2>2 DEF AtOnce, IsOperation
  <2>3. CASE RequestOf(r).path = "root"
    BY <1>3, <2>3 DEF AtOnce, IsOperation
  <2>4. CASE RequestOf(r).path = "unknown"
    BY <1>3, <2>4 DEF AtOnce, IsOperation
  <2>5. CASE IsOperation(r)
    BY <1>3, <2>5 DEF AtOnce, IsOperation
  <2> QED
    BY <1>1, <2>1, <2>2, <2>3, <2>4, <2>5 DEF ApiPaths, IsOperation
<1> QED
  BY <1>2, <1>3

LEMMA ArriveKept ==
  ASSUME RequestsInv, SupervisorInv, NEW r \in ApiRequest, Arrive(r)
  PROVE  RequestsInv'
<1> DEFINE q == RequestOf(r)
           code == AtOnce(q)
           next == IF code # 0 THEN "done" ELSE IF q.path = "root" THEN "resolving" ELSE "reading"
           moved == [at |-> next, server |-> launches, code |-> code]
<1>1. /\ code \in {0, 200, 401, 404, 405}
      /\ code = 0 => Admitted(q) /\ (IsOperation(r) \/ q.path = "root")
      /\ code = 200 => Admitted(q) /\ ~IsOperation(r)
  BY AtOnceIs
<1> HIDE DEF code
<1>2. launches \in ApiServer /\ launches \in 0 .. launches
  <2>1. HasServer
    BY DEF Arrive, SupervisorInv, EndsForGood
  <2>2. launches = restartCount + 1 /\ restartCount \in Nat /\ restartCount <= RestartLimit
    <3>1. restartCount \in 0 .. RestartLimit + 1
      BY DEF SupervisorInv, SupervisorTyped
    <3>2. launches = restartCount + 1 /\ restartCount <= RestartLimit
      BY <2>1 DEF SupervisorInv, CountsAgree
    <3> QED
      BY <3>1, <3>2, LimitIsNat
  <2> QED
    BY <2>2, LimitIsNat DEF ApiServer
<1>3. moved \in Handling(launches) /\ moved.at = next /\ moved.code = code
  BY <1>1, <1>2 DEF Handling, Codes, Underway
<1>4. /\ handling[r].at = "none" /\ handling' = [handling EXCEPT ![r] = moved]
      /\ launches' = launches /\ connected' = connected \cup {r}
      /\ UNCHANGED <<runtimeLoad, series, committed>>
  BY DEF Arrive, serverVars, code
<1>5. committed[r] = NoStore /\ committed' = [committed EXCEPT ![r] = NoStore]
  BY <1>4 DEF RequestsInv, RequestsTyped, HandlersRight, HandlerRight
<1>6. HandlerRight(r, moved, runtimeLoad', NoStore)
  BY <1>1, <1>2, <1>3 DEF HandlerRight, Underway, Admitted
<1>7. RequestsTyped' /\ HandlersRight' /\ Moves(handling, handling', r) /\ handling'[r] = moved
  <2>1. connected' \subseteq ApiRequest /\ runtimeLoad' \in {"none", "loading", "loaded"}
    BY <1>4 DEF RequestsInv, RequestsTyped
  <2> HIDE DEF moved
  <2>2. MovesTo(r, moved, NoStore)
    BY <1>3, <1>4, <1>5, <1>6, <2>1 DEF MovesTo
  <2> QED
    BY <2>2, HandlerMoves
<1>8. ~(handling'[r].at = "done" /\ handling'[r].code \in Failing \cup {200} /\ IsOperation(r))
  BY <1>1, <1>3, <1>7 DEF Failing
<1>9. CountsTold(series', handling')
  BY <1>4, <1>7, <1>8, NotCounted DEF RequestsInv
<1> QED
  BY <1>7, <1>9 DEF RequestsInv

\* A handler goes on to another place.
LEMMA GoesOnKept ==
  ASSUME RequestsInv, NEW r \in ApiRequest, NEW place \in Underway \ {"reading"},
         handling[r].at \in Underway, GoesTo(r, place), launches' = launches,
         UNCHANGED <<connected, series, committed>>,
         runtimeLoad' \in {"none", "loading", "loaded"},
         runtimeLoad = "loading" => runtimeLoad' = "loading",
         place = "loading" => runtimeLoad' = "loading"
  PROVE  RequestsInv'
<1> DEFINE moved == [handling[r] EXCEPT !.at = place]
<1>1. handling[r] \in Handling(launches) /\ HandlerRight(r, handling[r], runtimeLoad, committed[r])
  BY DEF RequestsInv, RequestsTyped, HandlersRight
<1>2. /\ moved \in Handling(launches) /\ moved.at = place
      /\ moved.code = handling[r].code /\ moved.server = handling[r].server
  BY <1>1 DEF Handling
<1>3. handling[r].at # "done" /\ place # "done" /\ committed[r] = NoStore
  BY <1>1 DEF Underway, HandlerRight
<1>4. HandlerRight(r, moved, runtimeLoad', NoStore)
  BY <1>1, <1>2, <1>3 DEF HandlerRight
<1>5. handling' = [handling EXCEPT ![r] = moved]
  BY <1>1 DEF GoesTo, RequestsInv, RequestsTyped
<1>6. committed' = [committed EXCEPT ![r] = NoStore] /\ connected' \subseteq ApiRequest
  BY <1>3 DEF RequestsInv, RequestsTyped
<1>7. RequestsTyped' /\ HandlersRight' /\ Moves(handling, handling', r) /\ handling'[r] = moved
  <2> HIDE DEF moved
  <2>1. MovesTo(r, moved, NoStore)
    BY <1>2, <1>3, <1>4, <1>5, <1>6 DEF MovesTo
  <2> QED
    BY <2>1, HandlerMoves
<1>8. handling'[r].at # "done"
  BY <1>2, <1>3, <1>7
<1>9. CountsTold(series', handling')
  BY <1>7, <1>8, NotCounted DEF RequestsInv
<1> QED
  BY <1>7, <1>9 DEF RequestsInv

\* A handler ends, with or without a result that is counted.
LEMMA RepliesKept ==
  ASSUME RequestsInv, NEW r \in ApiRequest, NEW code \in Codes \ {0},
         handling[r].at \in Underway, Replies(r, code), launches' = launches,
         UNCHANGED <<connected, runtimeLoad>>,
         NEW went, committed' = [committed EXCEPT ![r] = went],
         went # NoStore <=> code = 200 /\ IsOperation(r),
         went # NoStore => went = StoreOf(RequestOf(r)),
         \/ UNCHANGED series /\ ~(code \in Failing \cup {200} /\ IsOperation(r))
         \/ Counts(r, "success") /\ code = 200 /\ IsOperation(r)
         \/ Counts(r, "failure") /\ code \in Failing /\ IsOperation(r)
  PROVE  RequestsInv'
<1> DEFINE moved == [handling[r] EXCEPT !.at = "done", !.code = code]
<1>1. handling[r] \in Handling(launches) /\ HandlerRight(r, handling[r], runtimeLoad, committed[r])
  BY DEF RequestsInv, RequestsTyped, HandlersRight
<1>2. /\ moved \in Handling(launches) /\ moved.at = "done"
      /\ moved.code = code /\ moved.server = handling[r].server
  BY <1>1 DEF Handling
<1>3. /\ handling[r].at # "done" /\ moved.server \in ApiServer
      /\ Admitted(RequestOf(r))
  BY <1>1, <1>2 DEF Underway, HandlerRight
<1>4. HandlerRight(r, moved, runtimeLoad', went)
  BY <1>2, <1>3 DEF HandlerRight, Underway, Admitted, Codes
<1>5. handling' = [handling EXCEPT ![r] = moved]
  BY <1>1 DEF Replies, Ended, RequestsInv, RequestsTyped
<1>6. /\ connected' \subseteq ApiRequest /\ runtimeLoad' \in {"none", "loading", "loaded"}
      /\ runtimeLoad = "loading" => runtimeLoad' = "loading"
  BY DEF RequestsInv, RequestsTyped
<1>7. RequestsTyped' /\ HandlersRight' /\ Moves(handling, handling', r) /\ handling'[r] = moved
  <2> HIDE DEF moved
  <2>1. MovesTo(r, moved, went)
    BY <1>2, <1>3, <1>4, <1>5, <1>6 DEF MovesTo
  <2> QED
    BY <2>1, HandlerMoves
<1> HIDE DEF moved
<1>8. CountsTold(series', handling')
  <2>1. CASE UNCHANGED series /\ ~(code \in Failing \cup {200} /\ IsOperation(r))
    <3>1. ~(handling'[r].at = "done" /\ handling'[r].code \in Failing \cup {200} /\ IsOperation(r))
      BY <1>2, <1>7, <2>1
    <3> QED
      BY <1>7, <2>1, <3>1, NotCounted DEF RequestsInv
  <2>2. CASE Counts(r, "success") /\ code = 200 /\ IsOperation(r)
    <3>1. EndsAs(handling', r, "success") /\ Adds(series, series', handling'[r].server, "success")
      BY <1>2, <1>3, <1>7, <2>2 DEF EndsAs, Adds, Counts
    <3> QED
      BY <1>7, <3>1, Counted DEF RequestsInv
  <2>3. CASE Counts(r, "failure") /\ code \in Failing /\ IsOperation(r)
    <3>1. EndsAs(handling', r, "failure") /\ Adds(series, series', handling'[r].server, "failure")
      BY <1>2, <1>3, <1>7, <2>3 DEF EndsAs, Adds, Counts
    <3> QED
      BY <1>7, <3>1, Counted DEF RequestsInv
  <2> QED
    BY <2>1, <2>2, <2>3
<1> QED
  BY <1>7, <1>8 DEF RequestsInv

LEMMA ReadBodyKept ==
  ASSUME RequestsInv, NEW r \in ApiRequest, ReadBody(r)
  PROVE  RequestsInv'
<1>0. /\ handling[r].at \in Underway /\ launches' = launches
      /\ UNCHANGED <<connected, runtimeLoad>> /\ UNCHANGED committed
  BY DEF ReadBody, serverVars, Underway
<1>1. HandlerRight(r, handling[r], runtimeLoad, committed[r]) /\ RequestsTyped
  BY DEF RequestsInv, HandlersRight
<1>2. committed[r] = NoStore /\ [committed EXCEPT ![r] = NoStore] = committed
  BY <1>0, <1>1 DEF HandlerRight, RequestsTyped, Underway
<1>3. ASSUME NEW code \in {400, 413}, Refuses(r, code), IsOperation(r) PROVE RequestsInv'
  <2>1. code \in Codes \ {0} /\ code \in Failing /\ code # 200
    BY <1>3 DEF Codes, Failing
  <2>2. Replies(r, code) /\ Counts(r, "failure")
    BY <1>3 DEF Refuses
  <2> QED
    BY <1>0, <1>2, <1>3, <2>1, <2>2, RepliesKept
<1>4. CASE GoesTo(r, "resolving") /\ UNCHANGED series
  <2>1. /\ runtimeLoad' \in {"none", "loading", "loaded"}
        /\ runtimeLoad = "loading" => runtimeLoad' = "loading"
    BY <1>0, <1>1 DEF RequestsTyped
  <2>2. "resolving" \in Underway \ {"reading"} /\ "resolving" # "loading"
    BY DEF Underway
  <2> QED
    BY <1>0, <1>4, <2>1, <2>2, GoesOnKept
<1>5. IsOperation(r)
  BY <1>1 DEF HandlerRight, ReadBody
<1>6. \/ Refuses(r, 413) \/ Refuses(r, 400)
      \/ GoesTo(r, "resolving") /\ UNCHANGED series
  BY DEF ReadBody
<1> QED
  BY <1>3, <1>4, <1>5, <1>6

LEMMA ResolveKept ==
  ASSUME RequestsInv, NEW r \in ApiRequest, Resolve(r)
  PROVE  RequestsInv'
<1>0. /\ handling[r].at \in Underway /\ launches' = launches /\ RequestsTyped
      /\ UNCHANGED <<connected, series, committed>>
  BY DEF Resolve, serverVars, Underway, RequestsInv
<1>1. CASE GoesTo(r, "running") /\ UNCHANGED runtimeLoad
  <2>1. /\ runtimeLoad' \in {"none", "loading", "loaded"}
        /\ runtimeLoad = "loading" => runtimeLoad' = "loading"
    BY <1>0, <1>1 DEF RequestsTyped
  <2>2. "running" \in Underway \ {"reading"} /\ "running" # "loading"
    BY DEF Underway
  <2> QED
    BY <1>0, <1>1, <2>1, <2>2, GoesOnKept
<1>2. CASE GoesTo(r, "loading") /\ runtimeLoad' = "loading"
  <2>1. "loading" \in Underway \ {"reading"} /\ runtimeLoad' \in {"none", "loading", "loaded"}
    BY <1>2 DEF Underway
  <2> QED
    BY <1>0, <1>2, <2>1, GoesOnKept
<1> QED
  BY <1>0, <1>1, <1>2 DEF Resolve, RequestsTyped

LEMMA RunOperationKept ==
  ASSUME RequestsInv, NEW r \in ApiRequest, RunOperation(r)
  PROVE  RequestsInv'
<1>0. /\ handling[r].at \in Underway /\ launches' = launches
      /\ UNCHANGED <<connected, runtimeLoad>>
  BY DEF RunOperation, serverVars, Underway
<1>1. HandlerRight(r, handling[r], runtimeLoad, committed[r]) /\ RequestsTyped
  BY DEF RequestsInv, HandlersRight
<1>2. /\ committed[r] = NoStore /\ [committed EXCEPT ![r] = NoStore] = committed
      /\ IsOperation(r) \/ RequestOf(r).path = "root"
  BY <1>0, <1>1 DEF HandlerRight, RequestsTyped, Underway
<1>3. CASE Replies(r, 200) /\ UNCHANGED <<series, committed>> /\ RequestOf(r).path = "root"
  <2>1. ~IsOperation(r) /\ 200 \in Codes \ {0}
    BY <1>3 DEF IsOperation, Codes
  <2> QED
    BY <1>0, <1>2, <1>3, <2>1, RepliesKept
<1>4. CASE /\ Replies(r, 200) /\ Counts(r, "success") /\ IsOperation(r)
           /\ committed' = [committed EXCEPT ![r] = StoreOf(RequestOf(r))]
  <2>1. StoreOf(RequestOf(r)) # NoStore
    BY ApiAssumption DEF ApiAssumption, StoreOf
  <2>2. 200 \in Codes \ {0}
    BY DEF Codes
  <2> QED
    BY <1>0, <1>4, <2>1, <2>2, RepliesKept
<1>5. ASSUME NEW code \in {400, 500, 503}, Refuses(r, code), UNCHANGED committed, IsOperation(r)
      PROVE  RequestsInv'
  <2>1. code \in Codes \ {0} /\ code \in Failing /\ code # 200
    BY <1>5 DEF Codes, Failing
  <2>2. Replies(r, code) /\ Counts(r, "failure")
    BY <1>5 DEF Refuses
  <2> QED
    BY <1>0, <1>2, <1>5, <2>1, <2>2, RepliesKept
<1>6. CASE Replies(r, 404) /\ UNCHANGED <<series, committed>>
  <2>1. 404 \in Codes \ {0} /\ 404 \notin Failing \cup {200}
    BY DEF Codes, Failing
  <2> QED
    BY <1>0, <1>2, <1>6, <2>1, RepliesKept
<1> QED
  BY <1>2, <1>3, <1>4, <1>5, <1>6 DEF RunOperation

\* The end of a load moves the handlers that waited for it, and no other one.
WaitersGoTo(place, code) ==
  handling' = [r \in ApiRequest |->
    IF r \in AwaitLoad THEN [handling[r] EXCEPT !.at = place, !.code = code] ELSE handling[r]]
LEMMA WaitersGo ==
  ASSUME RequestsInv, NEW place \in {"running", "done"}, NEW code \in Codes,
         WaitersGoTo(place, code), NEW r \in ApiRequest
  PROVE  /\ handling'[r] \in Handling(launches)
         /\ r \notin AwaitLoad => handling'[r] = handling[r]
         /\ r \in AwaitLoad => /\ handling'[r].at = place /\ handling'[r].code = code
                               /\ handling'[r].server = handling[r].server
<1>1. handling[r] \in Handling(launches)
  BY DEF RequestsInv, RequestsTyped
<1>2. CASE r \in AwaitLoad
  <2>1. handling'[r] = [handling[r] EXCEPT !.at = place, !.code = code]
    BY <1>2 DEF WaitersGoTo
  <2> QED
    BY <1>1, <1>2, <2>1 DEF Handling, Underway
<1>3. CASE r \notin AwaitLoad
  BY <1>1, <1>3 DEF WaitersGoTo
<1> QED
  BY <1>2, <1>3

LEMMA LoadEnds ==
  ASSUME RequestsInv, launches' = launches, connected' = connected, committed' = committed,
         NEW place, NEW code, WaitersGoTo(place, code),
         (place = "running" /\ code = 0) \/ (place = "done" /\ code = 500),
         runtimeLoad' \in {"none", "loaded"}
  PROVE  RequestsTyped' /\ HandlersRight'
<1>0. place \in {"running", "done"} /\ code \in Codes
  BY DEF Codes
<1>1. \A r \in ApiRequest : HandlerRight(r, handling[r], runtimeLoad, committed[r])
  BY DEF RequestsInv, HandlersRight
<1>2. RequestsTyped'
  <2>1. \A r \in ApiRequest : handling'[r] \in Handling(launches)
    BY <1>0, WaitersGo
  <2>2. handling' = [r \in ApiRequest |-> handling'[r]]
    BY DEF WaitersGoTo
  <2> QED
    BY <2>1, <2>2 DEF RequestsInv, RequestsTyped
<1>3. ASSUME NEW r \in ApiRequest
      PROVE  HandlerRight(r, handling'[r], runtimeLoad', committed[r])
  <2>1. CASE r \in AwaitLoad
    <3>1. /\ handling'[r].at = place /\ handling'[r].code = code
          /\ handling'[r].server = handling[r].server /\ handling[r].at = "loading"
      BY <1>0, <2>1, WaitersGo DEF AwaitLoad
    <3>2. /\ handling[r].server \in ApiServer /\ Admitted(RequestOf(r)) /\ committed[r] = NoStore
          /\ IsOperation(r) \/ RequestOf(r).path = "root"
      BY <1>1, <3>1 DEF HandlerRight, Underway
    <3>3. CASE place = "running" /\ code = 0
      BY <3>1, <3>2, <3>3 DEF HandlerRight, Underway
    <3>4. CASE place = "done" /\ code = 500
      BY <3>1, <3>2, <3>4 DEF HandlerRight, Underway
    <3> QED
      BY <3>3, <3>4
  <2>2. CASE r \notin AwaitLoad
    <3>1. handling'[r] = handling[r] /\ handling[r].at # "loading"
      BY <1>0, <2>2, WaitersGo DEF AwaitLoad
    <3> QED
      BY <1>1, <3>1 DEF HandlerRight
  <2> QED
    BY <2>1, <2>2
<1> QED
  BY <1>2, <1>3 DEF HandlersRight

LEMMA LoadedKept ==
  ASSUME RequestsInv, Loaded
  PROVE  RequestsInv'
<1>1. \A r \in ApiRequest : /\ handling[r] \in Handling(launches)
                            /\ HandlerRight(r, handling[r], runtimeLoad, committed[r])
  BY DEF RequestsInv, RequestsTyped, HandlersRight
<1>2. WaitersGoTo("running", 0)
  <2>1. \A r \in AwaitLoad : [handling[r] EXCEPT !.at = "running"]
                               = [handling[r] EXCEPT !.at = "running", !.code = 0]
    BY <1>1 DEF AwaitLoad, HandlerRight, Handling
  <2> QED
    BY <2>1 DEF Loaded, WaitersGoTo
<1>3. RequestsTyped' /\ HandlersRight'
  <2>1. /\ launches' = launches /\ connected' = connected /\ committed' = committed
        /\ runtimeLoad' \in {"none", "loaded"}
    BY DEF Loaded, serverVars
  <2> QED
    BY <1>2, <2>1, LoadEnds
<1>4. \A n, codes : Told(handling', n, codes) = Told(handling, n, codes)
  <2>1. \A r \in ApiRequest : /\ r \notin AwaitLoad => handling'[r] = handling[r]
                              /\ r \in AwaitLoad => handling'[r].at = "running"
    BY <1>2, WaitersGo DEF Codes
  <2> QED
    BY <2>1 DEF Told, AwaitLoad
<1>5. CountsTold(series', handling')
  BY <1>4 DEF RequestsInv, CountsTold, Loaded
<1> QED
  BY <1>3, <1>5 DEF RequestsInv

LEMMA LoadFailsKept ==
  ASSUME RequestsInv, LoadFails
  PROVE  RequestsInv'
<1>1. \A r \in ApiRequest : HandlerRight(r, handling[r], runtimeLoad, committed[r])
  BY DEF RequestsInv, HandlersRight
<1>2. WaitersGoTo("done", 500)
  BY DEF LoadFails, Ended, WaitersGoTo
<1>3. RequestsTyped' /\ HandlersRight'
  BY <1>2, LoadEnds DEF LoadFails, FailedLoad, serverVars
<1>4. \A r \in ApiRequest :
        /\ r \notin AwaitLoad => handling'[r] = handling[r]
        /\ r \in AwaitLoad => /\ handling[r].at = "loading"
                              /\ RequestOf(r).path # "root" <=> IsOperation(r)
                              /\ handling'[r].at = "done" /\ handling'[r].code = 500
                              /\ handling'[r].server = handling[r].server
  <2> TAKE r \in ApiRequest
  <2>1. "done" \in {"running", "done"} /\ 500 \in Codes
    BY DEF Codes
  <2>2. /\ r \notin AwaitLoad => handling'[r] = handling[r]
        /\ r \in AwaitLoad => /\ handling'[r].at = "done" /\ handling'[r].code = 500
                              /\ handling'[r].server = handling[r].server
    BY <1>2, <2>1, WaitersGo
  <2>3. r \in AwaitLoad => handling[r].at = "loading"
    BY DEF AwaitLoad
  <2>4. r \in AwaitLoad => (RequestOf(r).path # "root" <=> IsOperation(r))
    BY <1>1, <2>3 DEF HandlerRight, Underway, IsOperation
  <2> QED
    BY <2>2, <2>3, <2>4
<1>5. \A n : Told(handling', n, {200}) = Told(handling, n, {200})
  BY <1>4 DEF Told
<1>6. \A n : /\ Told(handling', n, Failing) = Told(handling, n, Failing) \cup LoadsLost(n)
             /\ Told(handling, n, Failing) \cap LoadsLost(n) = {}
  BY <1>4 DEF Told, LoadsLost, Failing, AwaitLoad
<1>7. \A n : /\ IsFiniteSet(LoadsLost(n)) /\ Cardinality(LoadsLost(n)) \in Nat
             /\ Cardinality(Told(handling', n, Failing)) =
                  Cardinality(Told(handling, n, Failing)) + Cardinality(LoadsLost(n))
  <2> TAKE n
  <2>1. IsFiniteSet(ApiRequest) /\ LoadsLost(n) \in SUBSET ApiRequest
    BY ApiAssumption DEF ApiAssumption, LoadsLost, AwaitLoad
  <2>2. IsFiniteSet(LoadsLost(n)) /\ Cardinality(LoadsLost(n)) \in Nat
    BY <2>1, FS_Subset, FS_CardinalityType
  <2>3. IsFiniteSet(Told(handling, n, Failing)) /\ Cardinality(Told(handling, n, Failing)) \in Nat
    BY ToldIsFinite
  <2> QED
    BY <1>6, <2>2, <2>3, FS_Union, FS_EmptySet
<1>8. \A n \in ApiServer :
        series'[n] = [success |-> Cardinality(Told(handling, n, {200})),
                      failure |-> Cardinality(Told(handling, n, Failing))
                                    + Cardinality(LoadsLost(n))]
  BY DEF LoadFails, RequestsInv, CountsTold
<1>9. CountsTold(series', handling')
  <2>1. series' = [n \in ApiServer |-> series'[n]]
    BY DEF LoadFails
  <2> QED
    BY <1>5, <1>7, <1>8, <2>1 DEF CountsTold
<1> QED
  BY <1>3, <1>9 DEF RequestsInv

ApiInv == SupervisorInv /\ RequestsInv

LEMMA ApiStep ==
  ASSUME ApiInv, [ApiNext]_apiVars
  PROVE  ApiInv'
<1>1. SupervisorInv'
  BY SupervisorKept DEF ApiInv
<1>2. launches \in Nat
  BY CountsAreNat DEF ApiInv, SupervisorInv
<1>3. RequestsInv /\ SupervisorInv
  BY DEF ApiInv
<1>4. ASSUME launches' \in {launches, launches + 1}, UNCHANGED requestVars,
             connected' \subseteq ApiRequest
      PROVE  RequestsInv'
  BY <1>2, <1>3, <1>4, RequestsIdle
<1>5. connected \subseteq ApiRequest
  BY <1>3 DEF RequestsInv, RequestsTyped
<1>6. RequestsInv'
  <2>1. CASE StartService \/ SuperviseAgain \/ Launched \/ LaunchFails \/ WatchListener
    BY <1>4, <1>5, <2>1 DEF StartService, SuperviseAgain, Launched, LaunchFails, WatchListener
  <2>2. CASE ListenerStops \/ CloseCycle
    BY <1>4, <1>5, <2>2 DEF ListenerStops, CloseCycle, CloseServer, serverVars
  <2>3. CASE \E s \in StopCall : ApiStopBegins(s) \/ ApiStopEnds(s)
    BY <1>4, <1>5, <2>3 DEF ApiStopBegins, ApiStopEnds, CloseServer
  <2>4. CASE \E r \in ApiRequest : Arrive(r) \/ ReadBody(r) \/ Resolve(r) \/ RunOperation(r)
    BY <1>3, <2>4, ArriveKept, ReadBodyKept, ResolveKept, RunOperationKept
  <2>5. CASE Loaded \/ LoadFails
    BY <1>3, <2>5, LoadedKept, LoadFailsKept
  <2>6. CASE UNCHANGED apiVars
    BY <1>4, <1>5, <2>6 DEF apiVars, requestVars
  <2> QED
    BY <2>1, <2>2, <2>3, <2>4, <2>5, <2>6 DEF ApiNext
<1> QED
  BY <1>1, <1>6 DEF ApiInv

\* What is true of the supervisor, its callers and its handlers together.
THEOREM ApiInductive == ApiSpec => []ApiInv
<1>1. ApiInit => ApiInv
  BY SupervisorInit, RequestsInit DEF ApiInv
<1>2. ApiInv /\ [ApiNext]_apiVars => ApiInv'
  BY ApiStep
<1> QED
  BY <1>1, <1>2, PTL DEF ApiSpec

LEMMA ApiInvIsRight ==
  ASSUME ApiInv
  PROVE  ApiTypeOK /\ ApiIsRight
<1>1. ApiTypeOK
  <2>1. {shutdown, attempted, apiListens} \subseteq BOOLEAN
    BY DEF ApiInv, SupervisorInv, SupervisorTyped
  <2>2. handling \in [ApiRequest ->
          [at : {"none", "reading", "resolving", "loading", "running", "done"},
           server : 0 .. launches, code : {0, 200, 400, 401, 404, 405, 413, 500, 503}]]
    BY DEF ApiInv, RequestsInv, RequestsTyped, Handling, Codes, Underway
  <2>3. series \in [ApiServer -> [success : Nat, failure : Nat]]
    BY ToldIsFinite DEF ApiInv, RequestsInv, CountsTold
  <2>4. /\ apiPhase \in ApiPhases
        /\ super \in {"none", "loop", "launch", "watch", "close", "close to end"}
        /\ readiness \in {"open", "ready", "refused"}
        /\ restartCount \in 0 .. RestartLimit + 1 /\ launches \in 0 .. RestartLimit + 1
        /\ apiStops \in [StopCall -> {"none", "waiting", "early", "done"}]
    BY DEF ApiInv, SupervisorInv, SupervisorTyped
  <2>5. connected \subseteq ApiRequest /\ runtimeLoad \in {"none", "loading", "loaded"}
    BY DEF ApiInv, RequestsInv, RequestsTyped
  <2>6. DOMAIN committed = ApiRequest
    <3>1. committed = [r \in ApiRequest |-> committed[r]]
      BY DEF ApiInv, RequestsInv, RequestsTyped
    <3> QED
      BY ONLY <3>1
  <2> QED
    BY ONLY <2>1, <2>2, <2>3, <2>4, <2>5, <2>6 DEF ApiTypeOK
<1>2. StopIsFinal
  BY DEF ApiInv, SupervisorInv, EndsForGood, StopIsFinal, HasServer
<1>3. ReadinessIsTrue
  BY CountsAreNat DEF ApiInv, SupervisorInv, ReadinessFollows, ReadinessIsTrue, StopCalled
<1>4. RestartsAreBounded
  <2>1. launches \in Nat /\ restartCount \in Nat
    BY CountsAreNat DEF ApiInv, SupervisorInv
  <2> QED
    BY <2>1, LimitIsNat DEF ApiInv, SupervisorInv, CountsAgree, RestartsAreBounded
<1>5. AnswersMatchWork
  BY DEF ApiInv, RequestsInv, HandlersRight, HandlerRight, AnswersMatchWork, IsOperation, StoreOf
<1>6. TelemetryAddsUp
  BY DEF ApiInv, RequestsInv, CountsTold, Told, Failing, TelemetryAddsUp, IsOperation
<1>7. LoadsAreNotKept
  BY DEF ApiInv, RequestsInv, HandlersRight, HandlerRight, LoadsAreNotKept, AwaitLoad
<1> QED
  BY <1>1, <1>2, <1>3, <1>4, <1>5, <1>6, <1>7 DEF ApiIsRight

-----------------------------------------------------------------------------
(* The identity directory.  What a feed said last                           *)

OfUser(e, t, u) == e.tenant = t /\ e.user = u
OfSubject(e, t, b, s) == e.tenant = t /\ e.binding = b /\ e.subject = s

AboutUser(f, t, u) == {k \in DOMAIN f : OfUser(f[k], t, u)}
AboutSubject(f, t, b, s) == {k \in DOMAIN f : OfSubject(f[k], t, b, s)}
LastOfUser(f, t, u) == LastAmong(f, AboutUser(f, t, u))
LastOfSubject(f, t, b, s) == LastAmong(f, AboutSubject(f, t, b, s))

LEMMA Appended ==
  ASSUME NEW E, NEW f \in Seq(E), NEW e \in E
  PROVE  LET g == Append(f, e) IN
         /\ g \in Seq(E)
         /\ DOMAIN f = 1..Len(f) /\ DOMAIN g = 1..(Len(f) + 1) /\ Len(f) \in Nat
         /\ \A k \in DOMAIN f : g[k] = f[k]
         /\ g[Len(f) + 1] = e
OBVIOUS

IsLastWith(f, e, S) == LastAmong(Append(f, e), S \cup {Len(f) + 1}) = {e}

\* What is appended about a user is the last about that user.
LEMMA LastIsAppended ==
  ASSUME NEW E, NEW f \in Seq(E), NEW e \in E, NEW S \in SUBSET DOMAIN f
  PROVE  IsLastWith(f, e, S)
<1> DEFINE n == Len(f) + 1
           T == S \cup {n}
<1>1. n \in T /\ \A k \in T : k \in Int /\ k <= n
  BY Appended
<1>2. {i \in T : \A j \in T : j <= i} = {n}
  BY <1>1, Appended
<1>3. Append(f, e)[n] = e
  BY Appended
<1>4. {Append(f, e)[k] : k \in {n}} = {Append(f, e)[n]}
  BY Zenon
<1> QED
  BY <1>2, <1>3, <1>4 DEF LastAmong, IsLastWith

\* What is appended about another leaves it.
LEMMA LastIsLeft ==
  ASSUME NEW E, NEW f \in Seq(E), NEW e \in E, NEW S \in SUBSET DOMAIN f
  PROVE  LastAmong(Append(f, e), S) = LastAmong(f, S)
BY Appended DEF LastAmong

LEMMA LastOfUserAppended ==
  ASSUME NEW E, NEW f \in Seq(E), NEW e \in E, NEW t, NEW u
  PROVE  LastOfUser(Append(f, e), t, u) =
           IF OfUser(e, t, u) THEN {e} ELSE LastOfUser(f, t, u)
<1> DEFINE g == Append(f, e)
<1>1. CASE OfUser(e, t, u)
  <2>1. AboutUser(g, t, u) = AboutUser(f, t, u) \cup {Len(f) + 1}
    BY <1>1, Appended DEF AboutUser
  <2>2. AboutUser(f, t, u) \in SUBSET DOMAIN f
    BY DEF AboutUser
  <2>3. IsLastWith(f, e, AboutUser(f, t, u))
    BY <2>2, LastIsAppended
  <2> QED
    BY <1>1, <2>1, <2>3 DEF LastOfUser, IsLastWith
<1>2. CASE ~ OfUser(e, t, u)
  <2>1. AboutUser(g, t, u) = AboutUser(f, t, u)
    BY <1>2, Appended DEF AboutUser
  <2>2. AboutUser(f, t, u) \in SUBSET DOMAIN f
    BY DEF AboutUser
  <2>3. LastAmong(g, AboutUser(f, t, u)) = LastAmong(f, AboutUser(f, t, u))
    BY <2>2, LastIsLeft
  <2> QED
    BY <1>2, <2>1, <2>3 DEF LastOfUser
<1> QED
  BY <1>1, <1>2

LEMMA LastOfSubjectAppended ==
  ASSUME NEW E, NEW f \in Seq(E), NEW e \in E, NEW t, NEW b, NEW s
  PROVE  LastOfSubject(Append(f, e), t, b, s) =
           IF OfSubject(e, t, b, s) THEN {e} ELSE LastOfSubject(f, t, b, s)
<1> DEFINE g == Append(f, e)
<1>1. CASE OfSubject(e, t, b, s)
  <2>1. AboutSubject(g, t, b, s) = AboutSubject(f, t, b, s) \cup {Len(f) + 1}
    BY <1>1, Appended DEF AboutSubject
  <2>2. AboutSubject(f, t, b, s) \in SUBSET DOMAIN f
    BY DEF AboutSubject
  <2>3. IsLastWith(f, e, AboutSubject(f, t, b, s))
    BY <2>2, LastIsAppended
  <2> QED
    BY <1>1, <2>1, <2>3 DEF LastOfSubject, IsLastWith
<1>2. CASE ~ OfSubject(e, t, b, s)
  <2>1. AboutSubject(g, t, b, s) = AboutSubject(f, t, b, s)
    BY <1>2, Appended DEF AboutSubject
  <2>2. AboutSubject(f, t, b, s) \in SUBSET DOMAIN f
    BY DEF AboutSubject
  <2>3. LastAmong(g, AboutSubject(f, t, b, s)) = LastAmong(f, AboutSubject(f, t, b, s))
    BY <2>2, LastIsLeft
  <2> QED
    BY <1>2, <2>1, <2>3 DEF LastOfSubject
<1> QED
  BY <1>1, <1>2

-----------------------------------------------------------------------------
(* What the groups of an event make of a user                               *)

RolesIn(e, p) == {b.role : b \in {c \in MatchingBindings(e) : c.project = p}} \ {NoRole}

LEMMA FirstRoleIsOne ==
  ASSUME NEW S \in SUBSET DOMAIN RoleRank
  PROVE  IF S = {} THEN FirstRole(S) = NoRole ELSE FirstRole(S) \in S
<1> DEFINE R == {p \in S \X S : RoleRank[p[1]] < RoleRank[p[2]]}
<1>1. ASSUME S # {} PROVE \E r \in S : \A s \in S : RoleRank[r] <= RoleRank[s]
  <2> DEFINE Ranks == {RoleRank[r] : r \in S}
             L == OpToRel(<, Nat)
  <2>1. Ranks \subseteq Nat /\ Ranks # {}
    BY <1>1, IdentityAssumption
  <2>2. PICK n \in Ranks : \A m \in Ranks : ~(<<m, n>> \in L)
    <3>1. IsWellFoundedOn(L, Nat)
      BY NatLessThanWellFounded
    <3> HIDE DEF L, Ranks
    <3> QED
      BY <3>1, <2>1, WFMin
  <2>3. \A m \in Ranks : n <= m
    <3> SUFFICES ASSUME NEW m \in Ranks, m < n PROVE FALSE
      BY <2>1
    <3>1. <<m, n>> \in L
      BY <2>1 DEF OpToRel
    <3> QED
      BY <2>2, <3>1
  <2> QED
    BY <2>2, <2>3
<1> QED
  BY <1>1 DEF FirstRole

LEMMA RolesInTyped ==
  ASSUME NEW e, NEW p
  PROVE  RolesIn(e, p) \in SUBSET DOMAIN RoleRank
BY IdentityAssumption DEF RolesIn, MatchingBindings

LEMMA DesiredTyped ==
  ASSUME NEW e
  PROVE  /\ DesiredRoles(e) \in SUBSET DOMAIN RoleRank
         /\ \A m \in DesiredMemberships(e) :
              /\ m.project \in IdProject /\ m.role \in DOMAIN RoleRank \cup {NoRole}
              /\ m.role # NoRole => m.role \in RolesIn(e, m.project)
<1>1. DesiredRoles(e) \in SUBSET DOMAIN RoleRank
  BY IdentityAssumption DEF DesiredRoles, MatchingBindings
<1>2. DesiredMemberships(e) = {[project |-> p, role |-> FirstRole(RolesIn(e, p))] :
        p \in {b.project : b \in MatchingBindings(e)} \ {NoProject}}
  BY DEF DesiredMemberships, RolesIn
<1> SUFFICES ASSUME NEW m \in DesiredMemberships(e)
             PROVE  /\ m.project \in IdProject /\ m.role \in DOMAIN RoleRank \cup {NoRole}
                    /\ m.role # NoRole => m.role \in RolesIn(e, m.project)
  BY <1>1
<1>3. PICK p \in {b.project : b \in MatchingBindings(e)} \ {NoProject} :
        m = [project |-> p, role |-> FirstRole(RolesIn(e, p))]
  BY <1>2
<1>4. p \in IdProject
  BY IdentityAssumption DEF MatchingBindings
<1> QED
  BY <1>3, <1>4, RolesInTyped, FirstRoleIsOne

\* A project named by a binding has one membership, and no other has any.
LEMMA DesiredOnce ==
  ASSUME NEW e, NEW p \in IdProject
  PROVE  Cardinality({m \in DesiredMemberships(e) : m.project = p}) =
           IF \E b \in MatchingBindings(e) : b.project = p THEN 1 ELSE 0
<1> DEFINE M == {m \in DesiredMemberships(e) : m.project = p}
           x == [project |-> p, role |-> FirstRole(RolesIn(e, p))]
<1>1. DesiredMemberships(e) = {[project |-> q, role |-> FirstRole(RolesIn(e, q))] :
        q \in {b.project : b \in MatchingBindings(e)} \ {NoProject}}
  BY DEF DesiredMemberships, RolesIn
<1>2. CASE \E b \in MatchingBindings(e) : b.project = p
  <2>1. p \in {b.project : b \in MatchingBindings(e)} \ {NoProject}
    BY <1>2, IdentityAssumption
  <2>2. M = {x}
    BY <1>1, <2>1
  <2> QED
    BY <1>2, <2>2, FS_Singleton
<1>3. CASE ~ \E b \in MatchingBindings(e) : b.project = p
  <2>1. M = {}
    BY <1>1, <1>3
  <2> QED
    BY <1>3, <2>1, FS_EmptySet
<1> QED
  BY <1>2, <1>3

-----------------------------------------------------------------------------
(* The directory follows its feeds                                          *)

UserKeys == IdTenant \X IdUser
SubjectKeys == IdTenant \X IdBinding \X IdSubject
FeedKeys == IdTenant \X IdBinding \X Channel

FeedsTyped(f, c) ==
  /\ f = [x \in Channel |-> f[x]]
  /\ f["scim_users"] \in Seq(UserEvents) /\ f["scim_groups"] \in Seq(GroupEvents)
  /\ c = [x \in FeedKeys |-> c[x]]
  /\ \A x \in FeedKeys : c[x].sequence \in Int
TablesTyped(u, s, a, m) ==
  /\ u \in [UserKeys -> {"none", "pending", "active", "disabled"}]
  /\ s \in [SubjectKeys -> IdUser \cup {NoUser}]
  /\ a \in [UserKeys -> SUBSET DOMAIN RoleRank]
  /\ m = [x \in UserKeys |-> m[x]]
  /\ \A x \in UserKeys : \A y \in m[x] :
       y.project \in IdProject /\ y.role \in DOMAIN RoleRank \cup {NoRole}

\* A feed is applied in order, up to its checkpoint.
Linear(s) ==
  \A i, j \in DOMAIN s :
    i < j /\ s[i].tenant = s[j].tenant /\ s[i].binding = s[j].binding =>
      s[i].sequence < s[j].sequence
Covers(c, s, h) ==
  \A i \in DOMAIN s : s[i].sequence <= c[<<s[i].tenant, s[i].binding, h>>].sequence

StatusFollows(f, us) ==
  \A t \in IdTenant, u \in IdUser : \A e \in LastOfUser(f, t, u) :
    us[<<t, u>>] = "disabled" <=> e.op = "disable"
SubjectsFollow(f, su) ==
  \A t \in IdTenant, b \in IdBinding, s \in IdSubject :
    \A e \in LastOfSubject(f, t, b, s) : su[<<t, b, s>>] = e.user
\* The roles and memberships are what the last groups call for, all of it.
GroupsFollow(f, as, me) ==
  \A t \in IdTenant, u \in IdUser :
    /\ \A e \in LastOfUser(f, t, u) :
         as[<<t, u>>] = DesiredRoles(e) /\ me[<<t, u>>] = DesiredMemberships(e)
    /\ LastOfUser(f, t, u) = {} => as[<<t, u>>] = {} /\ me[<<t, u>>] = {}

FeedsInv ==
  /\ FeedsTyped(fed, checkpoints)
  /\ \A h \in Channel : Linear(fed[h]) /\ Covers(checkpoints, fed[h], h)
TablesInv ==
  /\ TablesTyped(users, subjects, assigned, member)
  /\ StatusFollows(fed["scim_users"], users)
  /\ SubjectsFollow(fed["scim_users"], subjects)
  /\ GroupsFollow(fed["scim_groups"], assigned, member)

\* A session and an access say what the tables of this moment bear out.
SessionSaid ==
  said.is = "session" =>
    /\ said.tenant \in IdTenant /\ said.user \in IdUser
    /\ users[<<said.tenant, said.user>>] # "disabled"
    /\ \A t \in said.login.tenants :
         t.id = said.login.claim \/ t.slug = said.login.slug => t.id = said.tenant
    /\ \A b \in said.login.bindings : b.issuer = said.login.issuer => b.tenant = said.tenant
AccessSaid ==
  said.is = "access" =>
    LET a == said.access IN
    /\ a \in Accesses
    /\ said.allowed =>
         /\ a.tenant = a.resource
         /\ a.action \in DevActions \/ \E e \in LastOfUser(fed["scim_groups"], a.tenant, a.user) :
              \E b \in MatchingBindings(e) :
                b.role # NoRole /\ a.action \in Permitted[AuthorizationRoleOf[b.role]]

IdentityInv == FeedsInv /\ TablesInv /\ SessionSaid /\ AccessSaid

LEMMA IdentityBegins == IdentityInit => IdentityInv
<1> SUFFICES ASSUME IdentityInit PROVE IdentityInv
  OBVIOUS
<1>1. \A h \in Channel : fed[h] = <<>>
  BY DEF IdentityInit
<1>2. FeedsInv
  <2>1. FeedsTyped(fed, checkpoints)
    BY DEF IdentityInit, FeedsTyped, FeedKeys, Channel, NoCheckpoint
  <2> QED
    BY <1>1, <2>1 DEF FeedsInv, Linear, Covers
<1>3. \A t, u : /\ LastOfUser(fed["scim_users"], t, u) = {}
                /\ LastOfUser(fed["scim_groups"], t, u) = {}
  BY <1>1 DEF LastOfUser, LastAmong, AboutUser, Channel
<1>4. \A t, b, s : LastOfSubject(fed["scim_users"], t, b, s) = {}
  BY <1>1 DEF LastOfSubject, LastAmong, AboutSubject, Channel
<1>5. TablesTyped(users, subjects, assigned, member)
  <2>1. users \in [UserKeys -> {"none", "pending", "active", "disabled"}]
    BY DEF IdentityInit, UserKeys
  <2>2. ASSUME NEW x \in SubjectKeys, \E s \in Seeded : <<s.tenant, s.binding, s.subject>> = x
        PROVE  (CHOOSE s \in Seeded : <<s.tenant, s.binding, s.subject>> = x).user \in IdUser
    BY <2>2, IdentityAssumption
  <2>3. subjects \in [SubjectKeys -> IdUser \cup {NoUser}]
    BY <2>2 DEF IdentityInit, SubjectKeys
  <2>4. /\ assigned = [x \in UserKeys |-> {}]
        /\ member = [x \in UserKeys |-> {}]
    BY DEF IdentityInit, UserKeys
  <2> QED
    BY <2>1, <2>3, <2>4 DEF TablesTyped
<1>6. TablesInv
  <2>1. GroupsFollow(fed["scim_groups"], assigned, member)
    BY <1>3 DEF GroupsFollow, IdentityInit
  <2> QED
    BY <1>3, <1>4, <1>5, <2>1 DEF TablesInv, StatusFollows, SubjectsFollow
<1> QED
  BY <1>2, <1>6 DEF IdentityInit, IdentityInv, SessionSaid, AccessSaid

-----------------------------------------------------------------------------
(* An event that is newer than its checkpoint                               *)

Newer(e, h) ==
  /\ e.tenant \in IdTenant /\ e.binding \in IdBinding /\ h \in Channel /\ e.sequence \in Nat
  /\ ~ e.sequence < checkpoints[<<e.tenant, e.binding, h>>].sequence
  /\ e.sequence # checkpoints[<<e.tenant, e.binding, h>>].sequence

LEMMA AppliedIsNewer ==
  ASSUME NEW e, NEW h \in Channel, e.sequence \in Nat, e.tenant \in IdTenant,
         e.binding \in IdBinding, Standing(e, h) = "applied"
  PROVE  Newer(e, h)
BY DEF Standing, Newer

LEMMA FeedGoesOn ==
  ASSUME FeedsInv, NEW h \in Channel, NEW E, NEW e \in E, fed[h] \in Seq(E),
         \A d \in E : d.tenant \in IdTenant /\ d.binding \in IdBinding /\ d.sequence \in Nat,
         h = "scim_users" => E = UserEvents, h = "scim_groups" => E = GroupEvents,
         Newer(e, h), Checkpoint(e, h)
  PROVE  FeedsInv' /\ fed'[h] = Append(fed[h], e) /\ \A g \in Channel \ {h} : fed'[g] = fed[g]
<1> DEFINE c == <<e.tenant, e.binding, h>>
           f == fed[h]
           n == Len(f) + 1
<1>1. c \in FeedKeys
  BY DEF Newer, FeedKeys
<1>2. /\ fed'[h] = Append(f, e)
      /\ \A g \in Channel \ {h} : fed'[g] = fed[g]
      /\ fed' = [x \in Channel |-> fed'[x]]
  BY DEF FeedsInv, FeedsTyped, Checkpoint
<1>3. /\ checkpoints' = [x \in FeedKeys |-> checkpoints'[x]]
      /\ checkpoints'[c].sequence = e.sequence
      /\ \A x \in FeedKeys \ {c} : checkpoints'[x] = checkpoints[x]
  BY <1>1 DEF FeedsInv, FeedsTyped, Checkpoint
<1>4. checkpoints[c].sequence \in Int /\ checkpoints[c].sequence < e.sequence /\ e.sequence \in Nat
  BY <1>1 DEF FeedsInv, FeedsTyped, Newer
<1>5. FeedsTyped(fed', checkpoints')
  <2>1. Append(f, e) \in Seq(E)
    BY Appended
  <2>2. fed'["scim_users"] \in Seq(UserEvents) /\ fed'["scim_groups"] \in Seq(GroupEvents)
    BY <1>2, <2>1 DEF FeedsInv, FeedsTyped, Channel
  <2>3. ASSUME NEW x \in FeedKeys PROVE checkpoints'[x].sequence \in Int
    <3>1. CASE x = c
      <4>1. checkpoints'[x].sequence = e.sequence
        BY <1>3, <3>1
      <4> QED
        BY <1>4, <4>1
    <3>2. CASE x # c
      <4>1. checkpoints'[x] = checkpoints[x]
        BY <1>3, <3>2
      <4> QED
        BY <4>1 DEF FeedsInv, FeedsTyped
    <3> QED
      BY <3>1, <3>2
  <2> QED
    BY <1>2, <1>3, <2>2, <2>3 DEF FeedsTyped
<1>6. /\ DOMAIN f = 1..Len(f) /\ DOMAIN fed'[h] = 1..n /\ Len(f) \in Nat
      /\ \A k \in DOMAIN f : fed'[h][k] = f[k] /\ f[k] \in E
      /\ fed'[h][n] = e
  BY <1>2, Appended
<1>7. Linear(f) /\ Covers(checkpoints, f, h)
  BY DEF FeedsInv
<1>8. \A i \in DOMAIN f : /\ f[i].sequence \in Nat
                          /\ <<f[i].tenant, f[i].binding, h>> \in FeedKeys
  BY <1>6 DEF FeedKeys
<1>9. \A i \in DOMAIN f : f[i].tenant = e.tenant /\ f[i].binding = e.binding =>
        f[i].sequence < e.sequence
  BY <1>4, <1>7, <1>8 DEF Covers
<1>10. Linear(fed'[h])
  <2> SUFFICES ASSUME NEW i \in 1..n, NEW j \in 1..n, i < j,
                      fed'[h][i].tenant = fed'[h][j].tenant,
                      fed'[h][i].binding = fed'[h][j].binding
               PROVE  fed'[h][i].sequence < fed'[h][j].sequence
    BY <1>6 DEF Linear
  <2>1. i \in DOMAIN f /\ fed'[h][i] = f[i]
    BY <1>6
  <2>2. CASE j = n
    <3>1. fed'[h][j] = e
      BY <1>6, <2>2
    <3> QED
      BY <1>9, <2>1, <3>1
  <2>3. CASE j # n
    <3>1. j \in DOMAIN f /\ fed'[h][j] = f[j]
      BY <1>6, <2>3
    <3> QED
      BY <1>7, <2>1, <3>1 DEF Linear
  <2> QED
    BY <2>2, <2>3
<1>11. Covers(checkpoints', fed'[h], h)
  <2> SUFFICES ASSUME NEW i \in 1..n
               PROVE  fed'[h][i].sequence <=
                        checkpoints'[<<fed'[h][i].tenant, fed'[h][i].binding, h>>].sequence
    BY <1>6 DEF Covers
  <2>1. CASE i = n
    <3>1. fed'[h][i] = e
      BY <1>6, <2>1
    <3> QED
      BY <1>3, <1>4, <3>1
  <2>2. CASE i # n
    <3> DEFINE x == <<f[i].tenant, f[i].binding, h>>
    <3>1. i \in DOMAIN f /\ fed'[h][i] = f[i]
      BY <1>6, <2>2
    <3>2. x \in FeedKeys /\ f[i].sequence \in Nat
      BY <1>8, <3>1
    <3>3. CASE x = c
      <4>1. f[i].tenant = e.tenant /\ f[i].binding = e.binding
        BY <3>3
      <4>2. f[i].sequence < e.sequence /\ checkpoints'[x].sequence = e.sequence
        BY <1>3, <1>9, <3>1, <3>3, <4>1
      <4> QED
        BY <1>4, <3>1, <3>2, <4>2
    <3>4. CASE x # c
      <4>1. checkpoints'[x] = checkpoints[x]
        BY <1>3, <3>2, <3>4
      <4>2. f[i].sequence <= checkpoints[x].sequence
        BY <1>7, <3>1 DEF Covers
      <4> QED
        BY <3>1, <4>1, <4>2
    <3> QED
      BY <3>3, <3>4
  <2> QED
    BY <2>1, <2>2
<1>12. ASSUME NEW g \in Channel \ {h}
       PROVE  Linear(fed'[g]) /\ Covers(checkpoints', fed'[g], g)
  <2>1. fed'[g] = fed[g] /\ Linear(fed[g]) /\ Covers(checkpoints, fed[g], g)
    BY <1>2 DEF FeedsInv
  <2>2. ASSUME NEW i \in DOMAIN fed[g]
        PROVE  <<fed[g][i].tenant, fed[g][i].binding, g>> \in FeedKeys \ {c}
    BY <1>12, <2>2, IdentityAssumption DEF FeedsInv, FeedsTyped, FeedKeys, Channel
  <2> QED
    BY <1>3, <2>1, <2>2 DEF Covers
<1> QED
  BY <1>2, <1>5, <1>10, <1>11, <1>12 DEF FeedsInv

EventsTyped(E) ==
  \A e \in E : /\ e.tenant \in IdTenant /\ e.binding \in IdBinding /\ e.user \in IdUser
               /\ e.sequence \in Nat

LEMMA EventsAreTyped ==
  /\ EventsTyped(UserEvents) /\ EventsTyped(GroupEvents)
  /\ \A e \in UserEvents : e.subject \in IdSubject
BY IdentityAssumption DEF EventsTyped

\* What was said last is of its own action, so a sync says nothing of a session.
LEMMA SyncSaysNoMore ==
  ASSUME NEW how, NEW e, said' = [is |-> "sync", how |-> how, event |-> e]
  PROVE  (SessionSaid /\ AccessSaid)'
BY DEF SessionSaid, AccessSaid

LEMMA UserLifecycleKept ==
  ASSUME IdentityInv, NEW e \in UserEvents, ApplyScimUserLifecycle(e)
  PROVE  IdentityInv'
<1> DEFINE h == "scim_users"
           f == fed[h]
<1>1. (SessionSaid /\ AccessSaid)'
  BY SyncSaysNoMore DEF ApplyScimUserLifecycle
<1>2. e.tenant \in IdTenant /\ e.binding \in IdBinding /\ e.user \in IdUser /\ e.sequence \in Nat
      /\ e.subject \in IdSubject
  BY EventsAreTyped DEF EventsTyped
<1>3. CASE Standing(e, h) # "applied"
  <2>1. UNCHANGED <<users, subjects, assigned, member, checkpoints, fed>>
    BY <1>3 DEF ApplyScimUserLifecycle
  <2>2. (FeedsInv /\ TablesInv)'
    BY <2>1 DEF IdentityInv, FeedsInv, TablesInv
  <2> QED
    BY <1>1, <2>2 DEF IdentityInv
<1>4. CASE Standing(e, h) = "applied"
  <2>1. /\ users' = [users EXCEPT ![<<e.tenant, e.user>>] = StatusOf(e.op)]
        /\ subjects' = [subjects EXCEPT ![<<e.tenant, e.binding, e.subject>>] = e.user]
        /\ Checkpoint(e, h) /\ UNCHANGED <<assigned, member>>
    BY <1>4 DEF ApplyScimUserLifecycle
  <2>2. Newer(e, h)
    BY <1>2, <1>4, AppliedIsNewer DEF Channel
  <2>3. f \in Seq(UserEvents)
    BY DEF IdentityInv, FeedsInv, FeedsTyped
  <2>4. FeedsInv' /\ fed'[h] = Append(f, e) /\ fed'["scim_groups"] = fed["scim_groups"]
    <3>1. /\ FeedsInv /\ h \in Channel /\ "scim_groups" \in Channel \ {h}
          /\ \A d \in UserEvents : /\ d.tenant \in IdTenant /\ d.binding \in IdBinding
                                   /\ d.sequence \in Nat
      BY EventsAreTyped DEF IdentityInv, Channel, EventsTyped
    <3> QED
      BY <2>1, <2>2, <2>3, <3>1, FeedGoesOn
  <2>5. TablesTyped(users, subjects, assigned, member)
    BY DEF IdentityInv, TablesInv
  <2>6. TablesTyped(users', subjects', assigned', member')
    BY <1>2, <2>1, <2>5 DEF TablesTyped, UserKeys, SubjectKeys, StatusOf
  <2>7. StatusFollows(fed'[h], users')
    <3> SUFFICES ASSUME NEW t \in IdTenant, NEW u \in IdUser, NEW d \in LastOfUser(fed'[h], t, u)
                 PROVE  users'[<<t, u>>] = "disabled" <=> d.op = "disable"
      BY DEF StatusFollows
    <3>1. CASE OfUser(e, t, u)
      <4>1. d = e
        BY <2>3, <2>4, <3>1, LastOfUserAppended
      <4>2. users'[<<t, u>>] = StatusOf(e.op)
        BY <2>1, <2>5, <3>1 DEF OfUser, TablesTyped, UserKeys
      <4> QED
        BY <4>1, <4>2 DEF StatusOf
    <3>2. CASE ~ OfUser(e, t, u)
      <4>1. d \in LastOfUser(f, t, u)
        BY <2>3, <2>4, <3>2, LastOfUserAppended
      <4>2. users'[<<t, u>>] = users[<<t, u>>]
        BY <2>1, <2>5, <3>2 DEF OfUser, TablesTyped, UserKeys
      <4> QED
        BY <4>1, <4>2 DEF IdentityInv, TablesInv, StatusFollows
    <3> QED
      BY <3>1, <3>2
  <2>8. SubjectsFollow(fed'[h], subjects')
    <3> SUFFICES ASSUME NEW t \in IdTenant, NEW b \in IdBinding, NEW s \in IdSubject,
                        NEW d \in LastOfSubject(fed'[h], t, b, s)
                 PROVE  subjects'[<<t, b, s>>] = d.user
      BY DEF SubjectsFollow
    <3>1. CASE OfSubject(e, t, b, s)
      <4>1. d = e
        BY <2>3, <2>4, <3>1, LastOfSubjectAppended
      <4> QED
        BY <2>1, <2>5, <3>1, <4>1 DEF OfSubject, TablesTyped, SubjectKeys
    <3>2. CASE ~ OfSubject(e, t, b, s)
      <4>1. d \in LastOfSubject(f, t, b, s)
        BY <2>3, <2>4, <3>2, LastOfSubjectAppended
      <4>2. subjects'[<<t, b, s>>] = subjects[<<t, b, s>>]
        BY <2>1, <2>5, <3>2 DEF OfSubject, TablesTyped, SubjectKeys
      <4> QED
        BY <4>1, <4>2 DEF IdentityInv, TablesInv, SubjectsFollow
    <3> QED
      BY <3>1, <3>2
  <2>9. GroupsFollow(fed'["scim_groups"], assigned', member')
    BY <2>1, <2>4 DEF IdentityInv, TablesInv
  <2> QED
    BY <1>1, <2>4, <2>6, <2>7, <2>8, <2>9 DEF IdentityInv, TablesInv
<1> QED
  BY <1>3, <1>4

LEMMA GroupReconciliationKept ==
  ASSUME IdentityInv, NEW e \in GroupEvents, ApplyScimGroupReconciliation(e)
  PROVE  IdentityInv'
<1> DEFINE h == "scim_groups"
           f == fed[h]
<1>1. (SessionSaid /\ AccessSaid)'
  BY SyncSaysNoMore DEF ApplyScimGroupReconciliation
<1>2. e.tenant \in IdTenant /\ e.binding \in IdBinding /\ e.user \in IdUser /\ e.sequence \in Nat
  BY EventsAreTyped DEF EventsTyped
<1>3. CASE Standing(e, h) # "applied"
  <2>1. UNCHANGED <<users, subjects, assigned, member, checkpoints, fed>>
    BY <1>3 DEF ApplyScimGroupReconciliation
  <2>2. (FeedsInv /\ TablesInv)'
    BY <2>1 DEF IdentityInv, FeedsInv, TablesInv
  <2> QED
    BY <1>1, <2>2 DEF IdentityInv
<1>4. CASE Standing(e, h) = "applied"
  <2>1. /\ assigned' = [assigned EXCEPT ![<<e.tenant, e.user>>] = DesiredRoles(e)]
        /\ member' = [member EXCEPT ![<<e.tenant, e.user>>] = DesiredMemberships(e)]
        /\ Checkpoint(e, h) /\ UNCHANGED <<users, subjects>>
    BY <1>4 DEF ApplyScimGroupReconciliation, RolesAfter
  <2>2. Newer(e, h)
    BY <1>2, <1>4, AppliedIsNewer DEF Channel
  <2>3. f \in Seq(GroupEvents)
    BY DEF IdentityInv, FeedsInv, FeedsTyped
  <2>4. FeedsInv' /\ fed'[h] = Append(f, e) /\ fed'["scim_users"] = fed["scim_users"]
    <3>1. /\ FeedsInv /\ h \in Channel /\ "scim_users" \in Channel \ {h}
          /\ \A d \in GroupEvents : /\ d.tenant \in IdTenant /\ d.binding \in IdBinding
                                    /\ d.sequence \in Nat
      BY EventsAreTyped DEF IdentityInv, Channel, EventsTyped
    <3> QED
      BY <2>1, <2>2, <2>3, <3>1, FeedGoesOn
  <2>5. TablesTyped(users, subjects, assigned, member)
    BY DEF IdentityInv, TablesInv
  <2>6. TablesTyped(users', subjects', assigned', member')
    <3>1. DesiredRoles(e) \in SUBSET DOMAIN RoleRank
      BY DesiredTyped
    <3>2. assigned' \in [UserKeys -> SUBSET DOMAIN RoleRank]
      BY <2>1, <2>5, <3>1 DEF TablesTyped
    <3>3. /\ member' = [x \in UserKeys |-> member'[x]]
          /\ \A x \in UserKeys : member'[x] = DesiredMemberships(e) \/ member'[x] = member[x]
      BY <2>1, <2>5 DEF TablesTyped
    <3>4. ASSUME NEW x \in UserKeys, NEW y \in member'[x]
          PROVE  y.project \in IdProject /\ y.role \in DOMAIN RoleRank \cup {NoRole}
      BY <2>5, <3>3, DesiredTyped DEF TablesTyped
    <3> QED
      BY <2>1, <2>5, <3>2, <3>3, <3>4 DEF TablesTyped
  <2>7. GroupsFollow(fed'[h], assigned', member')
    <3> SUFFICES ASSUME NEW t \in IdTenant, NEW u \in IdUser
                 PROVE  /\ \A d \in LastOfUser(fed'[h], t, u) :
                             /\ assigned'[<<t, u>>] = DesiredRoles(d)
                             /\ member'[<<t, u>>] = DesiredMemberships(d)
                        /\ LastOfUser(fed'[h], t, u) = {} =>
                             assigned'[<<t, u>>] = {} /\ member'[<<t, u>>] = {}
      BY DEF GroupsFollow
    <3>1. CASE OfUser(e, t, u)
      <4>1. LastOfUser(fed'[h], t, u) = {e}
        BY <2>3, <2>4, <3>1, LastOfUserAppended
      <4>2. /\ assigned'[<<t, u>>] = DesiredRoles(e)
            /\ member'[<<t, u>>] = DesiredMemberships(e)
        BY <2>1, <2>5, <3>1 DEF OfUser, TablesTyped, UserKeys
      <4> QED
        BY <4>1, <4>2
    <3>2. CASE ~ OfUser(e, t, u)
      <4>1. LastOfUser(fed'[h], t, u) = LastOfUser(f, t, u)
        BY <2>3, <2>4, <3>2, LastOfUserAppended
      <4>2. /\ assigned'[<<t, u>>] = assigned[<<t, u>>]
            /\ member'[<<t, u>>] = member[<<t, u>>]
        BY <2>1, <2>5, <3>2 DEF OfUser, TablesTyped, UserKeys
      <4>3. GroupsFollow(f, assigned, member)
        BY DEF IdentityInv, TablesInv
      <4> QED
        BY <4>1, <4>2, <4>3 DEF GroupsFollow
    <3> QED
      BY <3>1, <3>2
  <2>8. /\ StatusFollows(fed'["scim_users"], users')
        /\ SubjectsFollow(fed'["scim_users"], subjects')
    BY <2>1, <2>4 DEF IdentityInv, TablesInv
  <2> QED
    BY <1>1, <2>4, <2>6, <2>7, <2>8 DEF IdentityInv, TablesInv
<1> QED
  BY <1>3, <1>4

-----------------------------------------------------------------------------
(* Sessions and accesses                                                    *)

\* A route leads to the one tenant of the issuer, which every claim names.
LEMMA RouteIsClaimed ==
  ASSUME NEW l \in Logins, TenantRoute(l).ok
  PROVE  LET tenant == CHOOSE t \in TenantRoute(l).tenant : TRUE IN
         /\ tenant \in IdTenant
         /\ \E b \in IssuersOf(l) : b.tenant = tenant
         /\ \A t \in l.tenants : t.id = l.claim \/ t.slug = l.slug => t.id = tenant
         /\ \A b \in l.bindings : b.issuer = l.issuer => b.tenant = tenant
<1> DEFINE claimed == ClaimedTenants(l)
           known == {t.id : t \in l.tenants}
           bound == {b.tenant : b \in IssuersOf(l)}
           tenant == CHOOSE t \in TenantRoute(l).tenant : TRUE
<1>1. /\ ~ AmbiguousRoutes(l) /\ bound \subseteq known /\ bound # {}
      /\ claimed = {} \/ bound = claimed
      /\ TenantRoute(l).tenant = bound
  BY DEF TenantRoute, Denied, Resolved
<1>2. tenant \in bound
  BY <1>1
<1>3. PICK b \in IssuersOf(l) : b.tenant = tenant
  BY <1>2
<1>4. \A c \in IssuersOf(l) : c.tenant = tenant
  <2>1. \A c \in IssuersOf(l) : c \in l.bindings /\ c.issuer = l.issuer /\ c.tenant \in known
    BY <1>1 DEF IssuersOf
  <2> QED
    BY <1>1, <1>3, <2>1 DEF AmbiguousRoutes
<1>5. bound = {tenant}
  BY <1>3, <1>4
<1>6. \A t \in l.tenants : t.id = l.claim \/ t.slug = l.slug => t.id \in claimed
  BY DEF ClaimedTenants
<1>7. \A t \in l.tenants : t.id = l.claim \/ t.slug = l.slug => t.id = tenant
  BY <1>1, <1>5, <1>6
<1>8. tenant \in IdTenant
  BY <1>1, <1>2, IdentityAssumption
<1> QED
  BY <1>3, <1>4, <1>7, <1>8 DEF IssuersOf

LEMMA SessionKept ==
  ASSUME IdentityInv, NEW l \in Logins, ResolveSessionBoundary(l)
  PROVE  IdentityInv'
<1> DEFINE route == TenantRoute(l)
           tenant == CHOOSE t \in route.tenant : TRUE
           binding == (CHOOSE b \in IssuersOf(l) : b.tenant = tenant).id
           user == subjects[<<tenant, binding, l.subject>>]
           opened == /\ route.ok /\ user # NoUser
                     /\ users[<<tenant, user>>] \notin {"none", "disabled"}
<1>1. /\ said' = IF opened
                   THEN [is |-> "session", tenant |-> tenant, user |-> user, login |-> l]
                   ELSE [is |-> "no session", reason |-> route.reason]
      /\ UNCHANGED <<users, subjects, checkpoints, assigned, member, fed>>
  BY DEF ResolveSessionBoundary
<1>2. (FeedsInv /\ TablesInv)'
  BY <1>1 DEF IdentityInv, FeedsInv, TablesInv
<1>3. AccessSaid'
  BY <1>1 DEF AccessSaid
<1>4. SessionSaid'
  <2>1. CASE ~ opened
    <3>1. said'.is = "no session"
      BY <1>1, <2>1
    <3> QED
      BY <3>1 DEF SessionSaid
  <2>2. CASE opened
    <3>1. /\ tenant \in IdTenant
          /\ \E b \in IssuersOf(l) : b.tenant = tenant
          /\ \A t \in l.tenants : t.id = l.claim \/ t.slug = l.slug => t.id = tenant
          /\ \A b \in l.bindings : b.issuer = l.issuer => b.tenant = tenant
      BY <2>2, RouteIsClaimed
    <3>2. binding \in IdBinding /\ l.subject \in IdSubject
      <4>1. (CHOOSE b \in IssuersOf(l) : b.tenant = tenant) \in l.bindings
        BY <3>1 DEF IssuersOf
      <4> QED
        BY <4>1, IdentityAssumption
    <3>3. user \in IdUser
      <4>1. subjects \in [SubjectKeys -> IdUser \cup {NoUser}]
        BY DEF IdentityInv, TablesInv, TablesTyped
      <4>2. <<tenant, binding, l.subject>> \in SubjectKeys
        BY <3>1, <3>2 DEF SubjectKeys
      <4> HIDE DEF tenant, binding
      <4> QED
        BY <2>2, <4>1, <4>2
    <3>4. /\ said'.tenant = tenant /\ said'.user = user /\ said'.login = l
          /\ users' = users
      BY <1>1, <2>2
    <3> HIDE DEF tenant, user
    <3> QED
      BY <2>2, <3>1, <3>3, <3>4 DEF SessionSaid
  <2> QED
    BY <2>1, <2>2
<1> QED
  BY <1>2, <1>3, <1>4 DEF IdentityInv

\* A role of the user is one that a binding of its last groups gives.
LEMMA RolesAreGranted ==
  ASSUME TablesInv, NEW t \in IdTenant, NEW u \in IdUser, NEW r \in DOMAIN RoleRank,
         r \in assigned[<<t, u>>] \/ \E m \in member[<<t, u>>] : m.role = r
  PROVE  \E e \in LastOfUser(fed["scim_groups"], t, u) :
           \E b \in MatchingBindings(e) : b.role # NoRole /\ b.role = r
<1> DEFINE L == LastOfUser(fed["scim_groups"], t, u)
<1>1. /\ \A e \in L : /\ assigned[<<t, u>>] = DesiredRoles(e)
                      /\ member[<<t, u>>] = DesiredMemberships(e)
      /\ L # {}
  BY DEF TablesInv, GroupsFollow
<1>2. PICK e \in L : /\ assigned[<<t, u>>] = DesiredRoles(e)
                     /\ member[<<t, u>>] = DesiredMemberships(e)
  BY <1>1
<1>3. r # NoRole
  BY IdentityAssumption
<1>4. CASE r \in assigned[<<t, u>>]
  BY <1>2, <1>3, <1>4 DEF DesiredRoles
<1>5. CASE \E m \in member[<<t, u>>] : m.role = r
  <2>1. PICK m \in DesiredMemberships(e) : m.role = r
    BY <1>2, <1>5
  <2>2. r \in RolesIn(e, m.project)
    BY <1>3, <2>1, DesiredTyped
  <2>3. \E b \in MatchingBindings(e) : b.role = r
    BY <2>2 DEF RolesIn
  <2> QED
    BY <1>3, <2>3
<1> QED
  BY <1>4, <1>5

LEMMA AccessKept ==
  ASSUME IdentityInv, NEW a \in Accesses, EvaluateAuthorization(a)
  PROVE  IdentityInv'
<1>1. UNCHANGED <<users, subjects, checkpoints, assigned, member, fed>>
  BY DEF EvaluateAuthorization
<1>2. (FeedsInv /\ TablesInv)'
  BY <1>1 DEF IdentityInv, FeedsInv, TablesInv
<1>3. /\ said'.is = "access" /\ said'.access = a
      /\ said'.allowed = (/\ a.resource = a.tenant
                          /\ \E r \in CandidateRoles(a) : a.action \in Permitted[r])
  BY DEF EvaluateAuthorization
<1>4. SessionSaid'
  BY <1>3 DEF SessionSaid
<1>5. a.tenant \in IdTenant /\ a.user \in IdUser
  BY IdentityAssumption
<1>6. ASSUME NEW r \in CandidateRoles(a), a.action \in Permitted[r]
      PROVE  a.action \in DevActions \/ \E e \in LastOfUser(fed["scim_groups"], a.tenant, a.user) :
               \E b \in MatchingBindings(e) :
                 b.role # NoRole /\ a.action \in Permitted[AuthorizationRoleOf[b.role]]
  <2>1. CASE CandidateRoleIds(a) = {}
    BY <1>6, <2>1 DEF CandidateRoles, Permitted
  <2>2. CASE CandidateRoleIds(a) # {}
    <3>1. PICK x \in CandidateRoleIds(a) : r = AuthorizationRoleOf[x]
      BY <2>2 DEF CandidateRoles
    <3>2. /\ assigned[<<a.tenant, a.user>>] \subseteq DOMAIN RoleRank
          /\ \A m \in member[<<a.tenant, a.user>>] : m.role \in DOMAIN RoleRank \cup {NoRole}
      BY <1>5 DEF IdentityInv, TablesInv, TablesTyped, UserKeys
    <3>3. /\ x \in DOMAIN RoleRank
          /\ \/ x \in assigned[<<a.tenant, a.user>>]
             \/ \E m \in member[<<a.tenant, a.user>>] : m.role = x
      BY <3>1, <3>2 DEF CandidateRoleIds
    <3>4. \E e \in LastOfUser(fed["scim_groups"], a.tenant, a.user) :
            \E b \in MatchingBindings(e) : b.role # NoRole /\ b.role = x
      BY <1>5, <3>3, RolesAreGranted DEF IdentityInv
    <3> QED
      BY <1>6, <3>1, <3>4
  <2> QED
    BY <2>1, <2>2
<1>7. AccessSaid'
  BY <1>1, <1>3, <1>6 DEF AccessSaid
<1> QED
  BY <1>2, <1>4, <1>7 DEF IdentityInv

LEMMA IdentityStays ==
  ASSUME IdentityInv, UNCHANGED identityVars
  PROVE  IdentityInv'
BY DEF identityVars, IdentityInv, FeedsInv, TablesInv, SessionSaid, AccessSaid

\* The feeds are linear and covered by their checkpoints, and the tables are
\* what the feeds said last, in every reachable state.
THEOREM IdentityInductive == IdentitySpec => []IdentityInv
<1>1. IdentityInit => IdentityInv
  BY IdentityBegins
<1>2. IdentityInv /\ [IdentityNext]_identityVars => IdentityInv'
  BY UserLifecycleKept, GroupReconciliationKept, SessionKept, AccessKept, IdentityStays
     DEF IdentityNext
<1> QED
  BY <1>1, <1>2, PTL DEF IdentitySpec

LEMMA IdentityInvIsRight == IdentityInv => IdentityTypeOK /\ IdentityIsRight
<1> SUFFICES ASSUME IdentityInv PROVE IdentityTypeOK /\ IdentityIsRight
  OBVIOUS
<1>1. IdentityTypeOK
  <2>1. TablesTyped(users, subjects, assigned, member) /\ FeedsTyped(fed, checkpoints)
    BY DEF IdentityInv, TablesInv, FeedsInv
  <2> HIDE DEF IdentityInv
  <2>2. /\ users \in [IdTenant \X IdUser -> {"none", "pending", "active", "disabled"}]
        /\ subjects \in [IdTenant \X IdBinding \X IdSubject -> IdUser \cup {NoUser}]
        /\ assigned \in [IdTenant \X IdUser -> SUBSET DOMAIN RoleRank]
    BY ONLY <2>1, Zenon DEF TablesTyped, UserKeys, SubjectKeys
  <2>3. \A x \in IdTenant \X IdUser : \A m \in member[x] :
          m.project \in IdProject /\ m.role \in DOMAIN RoleRank \cup {NoRole}
    BY ONLY <2>1, Zenon DEF TablesTyped, UserKeys
  <2>4. fed["scim_users"] \in Seq(UserEvents) /\ fed["scim_groups"] \in Seq(GroupEvents)
    BY ONLY <2>1, Zenon DEF FeedsTyped
  <2>5. ASSUME NEW S, NEW s \in Seq(S), NEW k \in DOMAIN s PROVE s[k] \in S
    BY <2>5
  <2>6. /\ \A k \in DOMAIN fed["scim_users"] : fed["scim_users"][k] \in UserEvents
        /\ \A k \in DOMAIN fed["scim_groups"] : fed["scim_groups"][k] \in GroupEvents
    BY ONLY <2>4, <2>5, Zenon
  <2> QED
    BY ONLY <2>2, <2>3, <2>6, Zenon DEF IdentityTypeOK
<1>2. FeedsAreLinear
  BY DEF IdentityInv, FeedsInv, Linear, FeedsAreLinear
<1>3. ASSUME NEW c, NEW t, NEW u
      PROVE  LastAbout(c, t, u) = LastOfUser(fed[c], t, u)
  BY DEF LastAbout, LastOfUser, AboutUser, OfUser
<1>4. ASSUME NEW t, NEW b, NEW s
      PROVE  LastNamed(t, b, s) = LastOfSubject(fed["scim_users"], t, b, s)
  BY DEF LastNamed, LastOfSubject, AboutSubject, OfSubject
<1>5. UsersFollowTheirFeeds
  <2>1. ASSUME NEW t \in IdTenant, NEW u \in IdUser,
               NEW e \in LastOfUser(fed["scim_users"], t, u)
        PROVE  users[<<t, u>>] = "disabled" <=> e.op = "disable"
    BY <2>1 DEF IdentityInv, TablesInv, StatusFollows
  <2>2. ASSUME NEW t \in IdTenant, NEW u \in IdUser,
               NEW e \in LastOfUser(fed["scim_groups"], t, u)
        PROVE  /\ \A b \in MatchingBindings(e) : b.role # NoRole => b.role \in assigned[<<t, u>>]
               /\ \A r \in assigned[<<t, u>>] : \E b \in MatchingBindings(e) : b.role = r
               /\ \A p \in IdProject :
                    Cardinality({m \in member[<<t, u>>] : m.project = p}) =
                      (IF \E b \in MatchingBindings(e) : b.project = p THEN 1 ELSE 0)
    <3>1. assigned[<<t, u>>] = DesiredRoles(e) /\ member[<<t, u>>] = DesiredMemberships(e)
      BY <2>2 DEF IdentityInv, TablesInv, GroupsFollow
    <3>2. /\ \A b \in MatchingBindings(e) : b.role # NoRole => b.role \in assigned[<<t, u>>]
          /\ \A r \in assigned[<<t, u>>] : \E b \in MatchingBindings(e) : b.role = r
      BY <3>1 DEF DesiredRoles
    <3>3. ASSUME NEW p \in IdProject
          PROVE  Cardinality({m \in member[<<t, u>>] : m.project = p}) =
                   (IF \E b \in MatchingBindings(e) : b.project = p THEN 1 ELSE 0)
      <4>1. {m \in member[<<t, u>>] : m.project = p} =
              {m \in DesiredMemberships(e) : m.project = p}
        BY <3>1
      <4> QED
        BY <4>1, DesiredOnce, Zenon
    <3> QED
      BY <3>2, <3>3
  <2>3. ASSUME NEW t \in IdTenant, NEW u \in IdUser,
               LastOfUser(fed["scim_groups"], t, u) = {}
        PROVE  assigned[<<t, u>>] = {} /\ member[<<t, u>>] = {}
    BY <2>3 DEF IdentityInv, TablesInv, GroupsFollow
  <2>4. ASSUME NEW t \in IdTenant, NEW b \in IdBinding, NEW s \in IdSubject,
               NEW e \in LastOfSubject(fed["scim_users"], t, b, s)
        PROVE  subjects[<<t, b, s>>] = e.user
    BY <2>4 DEF IdentityInv, TablesInv, SubjectsFollow
  <2> QED
    BY <1>3, <1>4, <2>1, <2>2, <2>3, <2>4 DEF UsersFollowTheirFeeds
<1>6. SessionsAreProvisioned
  BY <1>3 DEF IdentityInv, SessionSaid, TablesInv, StatusFollows, SessionsAreProvisioned
<1>7. AccessIsGranted
  BY <1>3 DEF IdentityInv, AccessSaid, AccessIsGranted
<1> QED
  BY <1>1, <1>2, <1>5, <1>6, <1>7 DEF IdentityIsRight

-----------------------------------------------------------------------------
(* The daemon's commands                                                    *)

CommandStages == {"none", "spawn", "wait", "kill", "killed", "signal", "exit", "unregister"}
Busy(t) == command[t].at # "none"

DaemonTyped ==
  /\ DaemonTypeOK
  /\ cycle \in [Cycler -> [pid : Pid \cup {NoPid}, ran : BOOLEAN,
                           error : Cycler \cup {NoPid}, in : BOOLEAN]]
  /\ command \in [Command -> [op : {"none", "start", "stop", "restart", "uninstall"},
                              at : CommandStages, pid : Pid \cup {NoPid}]]
  /\ \A t \in Command : command[t].op = "none" <=> command[t].at = "none"
  /\ \A p \in dying : daemon[p] # "none"

\* One cycler has the lock, and a daemon has it only while it runs.
LockIsOnes ==
  /\ \A c, d \in Cycler : cycle[c].in /\ cycle[d].in => c = d
  /\ \A p \in Pid : cycle[p].in => daemon[p] = "running"

\* Only a daemon that came to record itself is recorded, in the file or in a copy.
RecordedRan ==
  /\ \A p \in Pid : syncState.pid = p => daemon[p] \in {"running", "dead"}
  /\ \A c \in Cycler, p \in Pid :
       cycle[c].in /\ cycle[c].pid = p => daemon[p] \in {"running", "dead"}

\* Commands that are run one at a time: one is at work, and `ums sync` is not.
OneAtWork ==
  /\ \A t, u \in Command : Busy(t) /\ Busy(u) => t = u
  /\ \A t \in Command : Busy(t) => ~cycle[SyncCommand].in

\* One daemon is alive.  The file and every copy of it know it from the time it runs.
OneIsKnown ==
  /\ \A p, q \in Pid : ProcessAlive(p) /\ ProcessAlive(q) => p = q
  /\ \A p \in Pid : daemon[p] = "running" =>
       /\ syncState.pid = p
       /\ \A c \in Cycler : cycle[c].in => cycle[c].pid = p
  /\ \A p \in Pid : ProcessAlive(p) => control.recorded

\* The command at work knows the daemon that does not run yet, the one that is to
\* die, and whether there is one.
CommandKnows ==
  /\ \A p \in Pid : daemon[p] \in {"spawned", "checked"} =>
       \E t \in Command : command[t].at \in {"wait", "kill", "killed"} /\ command[t].pid = p
  /\ \A p \in Pid : ProcessAlive(p) /\ p \in dying =>
       \E t \in Command : command[t].at \in {"exit", "killed"} /\ command[t].pid = p
  /\ \A t \in Command, p \in Pid : Busy(t) /\ ProcessAlive(p) =>
       command[t].at \notin {"spawn", "unregister"} /\ command[t].pid = p

CommandInv ==
  /\ DaemonTyped /\ LockIsOnes /\ RecordedRan /\ EnabledIsReachable
  /\ calm => OneAtWork /\ OneIsKnown /\ CommandKnows

LEMMA DaemonsAreNot == SyncCommand \notin Pid /\ NoPid \notin Pid /\ SyncCommand # NoPid
BY DaemonControlAssumption DEF DaemonControlAssumption

LEMMA CommandBegins == DaemonInit => CommandInv
<1> SUFFICES ASSUME DaemonInit PROVE CommandInv
  OBVIOUS
<1>1. DaemonTyped
  BY DaemonControlAssumption DEF DaemonInit, DaemonTyped, DaemonTypeOK, Quiet, NoCycle, CommandStages,
     DaemonControlAssumption
<1>2. LockIsOnes /\ RecordedRan /\ EnabledIsReachable
  BY DaemonsAreNot DEF DaemonInit, LockIsOnes, RecordedRan, EnabledIsReachable, NoCycle, Cycler
<1>3. OneAtWork /\ OneIsKnown /\ CommandKnows
  BY DEF DaemonInit, OneAtWork, OneIsKnown, CommandKnows, ProcessAlive, Busy, Quiet
<1> QED
  BY <1>1, <1>2, <1>3 DEF CommandInv

\* Whoever reads the status leaves the pid, or forgets one that is dead.
LEMMA ClearedIs ==
  ASSUME CommandInv
  PROVE  /\ Cleared(syncState) \in [pid : Pid \cup {NoPid}, ran : BOOLEAN,
                                    error : Cycler \cup {NoPid}]
         /\ ~ProcessAlive(syncState.pid) => Cleared(syncState).pid = NoPid
         /\ ProcessAlive(syncState.pid) => Cleared(syncState) = syncState
BY DEF CommandInv, DaemonTyped, DaemonTypeOK, Cleared

\* With its guard, a step of a daemon is one of these.
LEMMA DaemonStepIs ==
  ASSUME CommandInv, NEW p \in Pid,
         DaemonChecks(p) \/ DaemonRecords(p) \/ DaemonLeaves(p) \/ DaemonDies(p)
  PROVE  /\ UNCHANGED <<control, command, calm, begun>>
         /\ \E now \in {"checked", "running", "dead"} : daemon' = [daemon EXCEPT ![p] = now]
         /\ daemon[p] \in {"spawned", "checked", "running"}
         /\ dying' \subseteq dying /\ dying \ {p} \subseteq dying'
         /\ \A c \in Cycler : cycle'[c] = cycle[c] \/ (c = p /\ cycle'[c] = NoCycle)
         /\ cycle' \in [Cycler -> [pid : Pid \cup {NoPid}, ran : BOOLEAN,
                                   error : Cycler \cup {NoPid}, in : BOOLEAN]]
         /\ syncState'.pid \in {syncState.pid, NoPid, p}
         /\ syncState' \in [pid : Pid \cup {NoPid}, ran : BOOLEAN,
                            error : Cycler \cup {NoPid}]
<1> USE DEF DaemonKeeps
<1>t. /\ syncState \in [pid : Pid \cup {NoPid}, ran : BOOLEAN, error : Cycler \cup {NoPid}]
      /\ cycle \in [Cycler -> [pid : Pid \cup {NoPid}, ran : BOOLEAN,
                               error : Cycler \cup {NoPid}, in : BOOLEAN]]
      /\ daemon \in [Pid -> {"none", "spawned", "checked", "running", "dead"}]
      /\ p \in Cycler
  BY DEF CommandInv, DaemonTyped, DaemonTypeOK, Cycler
<1>c. /\ Cleared(syncState) \in [pid : Pid \cup {NoPid}, ran : BOOLEAN,
                                 error : Cycler \cup {NoPid}]
      /\ Cleared(syncState).pid \in {syncState.pid, NoPid}
  BY <1>t DEF Cleared
<1>1. CASE DaemonChecks(p)
  BY <1>1, <1>t, <1>c DEF DaemonChecks
<1>2. CASE DaemonRecords(p)
  BY <1>2, <1>t DEF DaemonRecords
<1>3. CASE DaemonLeaves(p)
  BY <1>3, <1>t DEF DaemonLeaves
<1>4. CASE DaemonDies(p)
  BY <1>4, <1>t DEF DaemonDies, ProcessAlive, NoCycle
<1> QED
  BY <1>1, <1>2, <1>3, <1>4

LEMMA DaemonStepKept ==
  ASSUME CommandInv, NEW p \in Pid,
         DaemonChecks(p) \/ DaemonRecords(p) \/ DaemonLeaves(p) \/ DaemonDies(p)
  PROVE  CommandInv'
<1> USE DaemonsAreNot
<1>s. PICK now \in {"checked", "running", "dead"} : daemon' = [daemon EXCEPT ![p] = now]
  BY DaemonStepIs
<1>t. DaemonTyped'
  <2>1. DaemonTyped
    BY DEF CommandInv
  <2>2. UNCHANGED <<control, command, calm, begun>>
    BY DaemonStepIs
  <2>3. daemon' \in [Pid -> {"none", "spawned", "checked", "running", "dead"}]
    BY ONLY <1>s, <2>1 DEF DaemonTyped, DaemonTypeOK
  <2>4. dying' \subseteq dying
    BY DaemonStepIs
  <2>5. \A q \in dying' : daemon'[q] # "none"
    BY ONLY <1>s, <2>1, <2>4 DEF DaemonTyped, DaemonTypeOK
  <2>6. /\ syncState' \in [pid : Pid \cup {NoPid}, ran : BOOLEAN, error : Cycler \cup {NoPid}]
        /\ cycle' \in [Cycler -> [pid : Pid \cup {NoPid}, ran : BOOLEAN,
                                  error : Cycler \cup {NoPid}, in : BOOLEAN]]
    BY DaemonStepIs
  <2> QED
    BY ONLY <2>1, <2>2, <2>3, <2>4, <2>5, <2>6 DEF DaemonTyped, DaemonTypeOK
<1>a. daemon \in [Pid -> {"none", "spawned", "checked", "running", "dead"}]
  BY DEF CommandInv, DaemonTyped, DaemonTypeOK
<1>f. \A q \in Pid : q # p => daemon'[q] = daemon[q]
  BY <1>s, <1>a
<1>g. daemon'[p] = now
  BY <1>s, <1>a
<1>n. now = "checked" => daemon[p] = "spawned" /\ \A c \in Cycler : cycle'[c] = cycle[c]
  BY <1>g, <1>a DEF DaemonChecks, DaemonRecords, DaemonLeaves, DaemonDies
<1>m. now = "running" => DaemonRecords(p)
  BY <1>g, <1>a DEF DaemonChecks, DaemonRecords, DaemonLeaves, DaemonDies
<1>k. now = "dead" => ~cycle'[p].in
  <2>1. p \in Cycler /\ (cycle[p].in => daemon[p] = "running")
    BY DEF CommandInv, LockIsOnes, Cycler
  <2> QED
    BY <1>g, <1>a, <2>1 DEF CommandInv, DaemonTyped, DaemonTypeOK, DaemonChecks, DaemonRecords,
       DaemonLeaves, DaemonDies, NoCycle
<1>l. LockIsOnes'
  <2>1. \A c \in Cycler : cycle'[c].in => cycle[c].in
    BY DaemonStepIs DEF NoCycle
  <2>2. \A q \in Pid : cycle'[q].in => daemon'[q] = "running"
    BY <2>1, <1>f, <1>g, <1>n, <1>k DEF CommandInv, LockIsOnes, Cycler
  <2> QED
    BY <2>1, <2>2 DEF CommandInv, LockIsOnes
<1>r. RecordedRan'
  <2>1. \A q \in Pid : daemon[q] \in {"running", "dead"} => daemon'[q] \in {"running", "dead"}
    BY <1>f, <1>g, <1>n
  <2>2. \A q \in Pid : syncState'.pid = q => daemon'[q] \in {"running", "dead"}
    <3>1. syncState'.pid = p => syncState.pid = p \/ now = "running"
      BY <1>g, <1>a, ClearedIs DEF DaemonChecks, DaemonRecords, DaemonLeaves, DaemonDies,
         CommandInv, DaemonTyped, DaemonTypeOK, Cleared
    <3> QED
      BY <3>1, <2>1, <1>g, DaemonStepIs DEF CommandInv, RecordedRan
  <2> QED
    BY <2>1, <2>2, DaemonStepIs DEF CommandInv, RecordedRan, NoCycle
<1>e. EnabledIsReachable'
  BY DaemonStepIs DEF CommandInv, EnabledIsReachable
<1>c. ASSUME calm PROVE OneAtWork' /\ OneIsKnown' /\ CommandKnows'
  <2>0. OneAtWork /\ OneIsKnown /\ CommandKnows
    BY <1>c DEF CommandInv
  <2>1. OneAtWork'
    BY <2>0, DaemonStepIs DEF OneAtWork, Busy, Cycler, NoCycle
  <2>2. \A q \in Pid : ProcessAlive(q)' => ProcessAlive(q)
    BY <1>f, <1>g, DaemonStepIs DEF ProcessAlive
  <2>3. OneIsKnown'
    <3>1. ASSUME NEW q \in Pid, daemon'[q] = "running"
          PROVE  syncState'.pid = q /\ \A c \in Cycler : cycle'[c].in => cycle'[c].pid = q
      <4>1. CASE q = p
        <5>1. DaemonRecords(p)
          BY <4>1, <3>1, <1>g, <1>m
        <5>2. \A c \in Cycler : ~cycle[c].in
          BY <5>1, <2>0 DEF CommandInv, LockIsOnes, OneAtWork, OneIsKnown, CommandKnows,
             DaemonRecords, ProcessAlive, Busy, Cycler
        <5> QED
          BY <5>1, <5>2, <4>1 DEF DaemonRecords, CommandInv, DaemonTyped, DaemonTypeOK
      <4>2. CASE q # p
        <5>1. daemon[q] = "running" /\ ProcessAlive(q) /\ ProcessAlive(p)
          BY <4>2, <3>1, <1>f, DaemonStepIs DEF ProcessAlive
        <5> QED
          BY <4>2, <5>1, <2>0 DEF OneIsKnown
      <4> QED
        BY <4>1, <4>2
    <3> QED
      BY <3>1, <2>0, <2>2, DaemonStepIs DEF OneIsKnown
  <2>4. CommandKnows'
    <3>1. \A q \in Pid : daemon'[q] \in {"spawned", "checked"} => daemon[q] \in {"spawned", "checked"}
      BY <1>f, <1>g, <1>n
    <3> QED
      BY <3>1, <2>0, <2>2, DaemonStepIs DEF CommandKnows, Busy
  <2> QED
    BY <2>1, <2>3, <2>4
<1> QED
  BY <1>t, <1>l, <1>r, <1>e, <1>c, DaemonStepIs DEF CommandInv

\* So is a step of a cycle.
LEMMA CycleStepIs ==
  ASSUME CommandInv, NEW c \in Cycler, NEW failed \in BOOLEAN,
         CycleStarts(c) \/ CycleRan(c) \/ CycleFails(c) \/ CycleEnds(c, failed)
  PROVE  /\ UNCHANGED <<control, command, calm, begun, dying, daemon>>
         /\ cycle' \in [Cycler -> [pid : Pid \cup {NoPid}, ran : BOOLEAN,
                                   error : Cycler \cup {NoPid}, in : BOOLEAN]]
         /\ syncState' \in [pid : Pid \cup {NoPid}, ran : BOOLEAN,
                            error : Cycler \cup {NoPid}]
         /\ syncState'.pid = syncState.pid \/ (cycle[c].in /\ syncState'.pid = cycle[c].pid)
         /\ \A d \in Cycler : d # c => cycle'[d] = cycle[d]
         /\ cycle'[c].in =>
              \/ cycle[c].in /\ cycle'[c].pid = cycle[c].pid
              \/ MayCycle(c) /\ InLock = {} /\ cycle'[c].pid = syncState.pid
<1> USE DEF DaemonKeeps
<1>t. /\ syncState \in [pid : Pid \cup {NoPid}, ran : BOOLEAN, error : Cycler \cup {NoPid}]
      /\ cycle \in [Cycler -> [pid : Pid \cup {NoPid}, ran : BOOLEAN,
                               error : Cycler \cup {NoPid}, in : BOOLEAN]]
  BY DEF CommandInv, DaemonTyped, DaemonTypeOK
<1>1. CASE CycleStarts(c)
  BY <1>1, <1>t DEF CycleStarts
<1>2. CASE CycleRan(c)
  BY <1>2, <1>t DEF CycleRan
<1>3. CASE CycleFails(c)
  BY <1>3, <1>t DEF CycleFails, NoCycle
<1>4. CASE CycleEnds(c, failed)
  BY <1>4, <1>t DEF CycleEnds, NoCycle
<1> QED
  BY <1>1, <1>2, <1>3, <1>4

LEMMA CycleStepKept ==
  ASSUME CommandInv, NEW c \in Cycler, NEW failed \in BOOLEAN,
         CycleStarts(c) \/ CycleRan(c) \/ CycleFails(c) \/ CycleEnds(c, failed)
  PROVE  CommandInv'
<1> USE DaemonsAreNot
<1>t. DaemonTyped'
  BY CycleStepIs DEF CommandInv, DaemonTyped, DaemonTypeOK
<1>l. LockIsOnes'
  <2>1. ASSUME NEW d \in Cycler, NEW e \in Cycler, cycle'[d].in, cycle'[e].in PROVE d = e
    BY <2>1, CycleStepIs DEF CommandInv, LockIsOnes, InLock
  <2>2. ASSUME NEW p \in Pid, cycle'[p].in PROVE daemon'[p] = "running"
    BY <2>2, CycleStepIs DEF CommandInv, LockIsOnes, MayCycle, Cycler
  <2> QED
    BY <2>1, <2>2 DEF LockIsOnes
<1>r. RecordedRan'
  BY CycleStepIs DEF CommandInv, RecordedRan
<1>e. EnabledIsReachable'
  BY CycleStepIs DEF CommandInv, EnabledIsReachable
<1>c. ASSUME calm PROVE OneAtWork' /\ OneIsKnown' /\ CommandKnows'
  <2>0. OneAtWork /\ OneIsKnown /\ CommandKnows
    BY <1>c DEF CommandInv
  <2>1. OneAtWork'
    <3>1. ASSUME cycle'[SyncCommand].in, ~cycle[SyncCommand].in
          PROVE  \A t \in Command : ~Busy(t)
      <4>1. c = SyncCommand /\ MayCycle(c)
        BY <3>1, CycleStepIs DEF Cycler
      <4> QED
        BY <1>c, <4>1 DEF MayCycle, CommandInv, DaemonTyped, Busy
    <3> QED
      BY <3>1, <2>0, CycleStepIs DEF OneAtWork, Busy
  <2>2. OneIsKnown'
    BY <2>0, CycleStepIs DEF OneIsKnown, ProcessAlive
  <2>3. CommandKnows'
    BY <2>0, CycleStepIs DEF CommandKnows, ProcessAlive, Busy
  <2> QED
    BY <2>1, <2>2, <2>3
<1> QED
  BY <1>t, <1>l, <1>r, <1>e, <1>c, CycleStepIs DEF CommandInv
-----------------------------------------------------------------------------
(* Before a command begins, the daemon that is alive runs and is recorded.   *)
LEMMA QuietKnows ==
  ASSUME CommandInv, calm, \A u \in Command : command[u].op = "none"
  PROVE  \A p \in Pid : ProcessAlive(p) =>
           daemon[p] = "running" /\ p \notin dying /\ syncState.pid = p
<1>1. OneIsKnown /\ CommandKnows /\ \A u \in Command : command[u].at = "none"
  BY DEF CommandInv, DaemonTyped
<1>2. ASSUME NEW p \in Pid, ProcessAlive(p)
      PROVE  daemon[p] = "running" /\ p \notin dying
  BY <1>1, <1>2 DEF CommandKnows, ProcessAlive
<1> QED
  BY <1>1, <1>2 DEF OneIsKnown

\* The command at work knows the daemon that is alive.
LEMMA BusyKnows ==
  ASSUME CommandInv, calm, NEW t \in Command, Busy(t)
  PROVE  /\ \A u \in Command : u # t => ~Busy(u)
         /\ ~cycle[SyncCommand].in
         /\ \A p \in Pid : ProcessAlive(p) =>
              /\ command[t].at \notin {"spawn", "unregister"} /\ command[t].pid = p
              /\ daemon[p] # "running" => command[t].at \in {"wait", "kill", "killed"}
              /\ p \in dying => command[t].at \in {"exit", "killed"}
<1>1. OneAtWork /\ CommandKnows
  BY DEF CommandInv
<1>2. \A u \in Command : u # t => ~Busy(u)
  BY <1>1 DEF OneAtWork
<1>3. \A u \in Command : command[u].at # "none" => u = t
  BY <1>2 DEF Busy
<1> QED
  BY <1>1, <1>2, <1>3 DEF OneAtWork, CommandKnows, ProcessAlive, Busy

\* What a step of a command has to leave for the next one.
LEMMA KnownKept ==
  ASSUME CommandInv, calm, NEW t \in Command,
         UNCHANGED <<daemon, cycle, calm>>, syncState' \in {syncState, Cleared(syncState)},
         \A u \in Command : u # t => command'[u] = command[u] /\ ~Busy(u),
         ~cycle[SyncCommand].in,
         \A p \in Pid : ProcessAlive(p) =>
           /\ control'.recorded
           /\ daemon[p] # "running" =>
                command'[t].at \in {"wait", "kill", "killed"} /\ command'[t].pid = p
           /\ p \in dying' => command'[t].at \in {"exit", "killed"} /\ command'[t].pid = p
           /\ Busy(t)' =>
                command'[t].at \notin {"spawn", "unregister"} /\ command'[t].pid = p
  PROVE  OneAtWork' /\ OneIsKnown' /\ CommandKnows'
<1>0. OneIsKnown
  BY DEF CommandInv
<1>1. \A p \in Pid : ProcessAlive(p)' = ProcessAlive(p)
  BY DEF ProcessAlive
<1>2. \A p \in Pid : daemon[p] = "running" => syncState' = syncState \/ syncState'.pid = p
  BY <1>0 DEF OneIsKnown, Cleared, ProcessAlive
<1>3. OneAtWork'
  BY DEF OneAtWork, Busy
<1>4. OneIsKnown'
  BY <1>0, <1>1, <1>2 DEF OneIsKnown
<1>5. CommandKnows'
  <2>1. \A p \in Pid : daemon'[p] \in {"spawned", "checked"} => daemon[p] # "running" /\ ProcessAlive(p)
    BY DEF ProcessAlive
  <2> QED
    BY <1>1, <2>1 DEF CommandKnows, Busy
<1> QED
  BY <1>3, <1>4, <1>5

\* A step of a command that spawns nothing.
CommandMoves(t) ==
  /\ UNCHANGED <<daemon, cycle, calm>>
  /\ syncState' \in {syncState, Cleared(syncState)}
  /\ \A u \in Command : u # t => command'[u] = command[u]
  /\ begun' \in {begun, begun + 1} /\ begun' <= MaxCommands
  /\ dying' \subseteq Pid /\ \A p \in dying' : daemon[p] # "none"
  /\ control' \in [recorded : BOOLEAN, files : BOOLEAN, enabled : BOOLEAN]
  /\ command' \in [Command -> [op : {"none", "start", "stop", "restart", "uninstall"},
                               at : CommandStages, pid : Pid \cup {NoPid}]]
  /\ command'[t].op = "none" <=> command'[t].at = "none"

LEMMA CommandMoved ==
  ASSUME CommandInv, NEW t \in Command, CommandMoves(t), EnabledIsReachable',
         calm => OneAtWork' /\ OneIsKnown' /\ CommandKnows'
  PROVE  CommandInv'
<1> USE DEF CommandMoves
<1>0. DaemonTyped /\ begun \in Nat /\ MaxCommands \in Nat
  BY DaemonControlAssumption DEF CommandInv, DaemonTyped, DaemonTypeOK, DaemonControlAssumption
<1>1. syncState' \in [pid : Pid \cup {NoPid}, ran : BOOLEAN, error : Cycler \cup {NoPid}]
  BY <1>0, ClearedIs DEF DaemonTyped, DaemonTypeOK
<1>2. DaemonTyped'
  BY <1>0, <1>1 DEF DaemonTyped, DaemonTypeOK
<1>3. RecordedRan'
  <2>1. syncState'.pid \in {syncState.pid, NoPid}
    BY <1>0 DEF Cleared, DaemonTyped, DaemonTypeOK
  <2> QED
    BY <2>1, DaemonsAreNot DEF CommandInv, RecordedRan
<1>4. LockIsOnes'
  BY DEF CommandInv, LockIsOnes
<1> QED
  BY <1>2, <1>3, <1>4 DEF CommandInv

\* What a command is after it goes to its next stage, or ends.
LEMMA CommandTold ==
  ASSUME CommandInv, NEW t \in Command
  PROVE  /\ \A op \in {"start", "stop", "restart", "uninstall"},
               at \in CommandStages \ {"none"}, pid \in Pid \cup {NoPid} :
              Goes(t, op, at, pid) =>
                /\ command' \in [Command -> [op : {"none", "start", "stop", "restart", "uninstall"},
                                             at : CommandStages, pid : Pid \cup {NoPid}]]
                /\ \A u \in Command : u # t => command'[u] = command[u]
                /\ command'[t] = [op |-> op, at |-> at, pid |-> pid]
         /\ Ends(t) =>
              /\ command' \in [Command -> [op : {"none", "start", "stop", "restart", "uninstall"},
                                           at : CommandStages, pid : Pid \cup {NoPid}]]
              /\ \A u \in Command : u # t => command'[u] = command[u]
              /\ command'[t] = [op |-> "none", at |-> "none", pid |-> NoPid]
         /\ command \in [Command -> [op : {"none", "start", "stop", "restart", "uninstall"},
                                     at : CommandStages, pid : Pid \cup {NoPid}]]
         /\ command[t].op = "none" <=> command[t].at = "none"
BY DEF CommandInv, DaemonTyped, Goes, Ends, Quiet, CommandStages

\* A command begins when none is at work, where commands are run one at a time.
LEMMA BeginKept ==
  ASSUME CommandInv, NEW t \in Command,
         \/ \E at \in {"remove", "enable", "never"} : InstallDaemon(t, at)
         \/ StartDaemon(t) \/ StopDaemon(t) \/ RestartDaemon(t) \/ UninstallBegins(t)
         \/ StatusDaemon(t)
  PROVE  CommandInv'
<1>0. /\ control \in [recorded : BOOLEAN, files : BOOLEAN, enabled : BOOLEAN]
      /\ dying \subseteq Pid /\ (\A p \in dying : daemon[p] # "none") /\ begun \in Nat /\ MaxCommands \in Nat
      /\ syncState.pid \in Pid \cup {NoPid} /\ ~ProcessAlive(NoPid)
  BY DaemonControlAssumption
     DEF CommandInv, DaemonTyped, DaemonTypeOK, DaemonControlAssumption, ProcessAlive
<1>1. /\ MayCommand(t) /\ UNCHANGED <<daemon, cycle, calm, dying>>
      /\ syncState' \in {syncState, Cleared(syncState)}
      /\ control.recorded => control'.recorded
      /\ control' \in [recorded : BOOLEAN, files : BOOLEAN, enabled : BOOLEAN]
  <2>1. CASE \E at \in {"remove", "enable", "never"} : InstallDaemon(t, at)
    <3>1. PICK at \in {"remove", "enable", "never"} : InstallDaemon(t, at)
      BY <2>1
    <3>2. /\ InstallResult(at) \in [recorded : BOOLEAN, files : BOOLEAN, enabled : BOOLEAN]
          /\ control.recorded => InstallResult(at).recorded
      BY <1>0 DEF InstallResult
    <3> QED
      BY <3>1, <3>2 DEF InstallDaemon
  <2>2. CASE ReadsStatus(t) \/ StatusDaemon(t)
    BY <1>0, <2>2 DEF ReadsStatus, StatusDaemon
  <2> QED
    BY <2>1, <2>2 DEF StartDaemon, StopDaemon, RestartDaemon, UninstallBegins
<1>2. begun' \in {begun, begun + 1} /\ begun' <= MaxCommands
  BY <1>0, <1>1 DEF MayCommand
<1>3. \/ UNCHANGED command
      \/ \E op \in {"start", "stop", "restart", "uninstall"},
            at \in {"spawn", "signal", "unregister"}, pid \in Pid \cup {NoPid} :
           Goes(t, op, at, pid) /\ (Recorded => at = "signal" /\ pid = syncState.pid)
  BY <1>0 DEF InstallDaemon, StartDaemon, StopDaemon, RestartDaemon, UninstallBegins, StatusDaemon
<1>4. /\ command' \in [Command -> [op : {"none", "start", "stop", "restart", "uninstall"},
                                   at : CommandStages, pid : Pid \cup {NoPid}]]
      /\ \A u \in Command : u # t => command'[u] = command[u]
      /\ command'[t].op = "none" <=> command'[t].at = "none"
      /\ \/ UNCHANGED command
         \/ Recorded => command'[t].at = "signal" /\ command'[t].pid = syncState.pid
  <2>1. CASE UNCHANGED command
    BY <2>1, CommandTold
  <2>2. ASSUME NEW op \in {"start", "stop", "restart", "uninstall"},
               NEW at \in {"spawn", "signal", "unregister"}, NEW pid \in Pid \cup {NoPid},
               Goes(t, op, at, pid), Recorded => at = "signal" /\ pid = syncState.pid
        PROVE  /\ command' \in [Command -> [op : {"none", "start", "stop", "restart", "uninstall"},
                                            at : CommandStages, pid : Pid \cup {NoPid}]]
               /\ \A u \in Command : u # t => command'[u] = command[u]
               /\ command'[t].op = "none" <=> command'[t].at = "none"
               /\ Recorded => command'[t].at = "signal" /\ command'[t].pid = syncState.pid
    <3>1. at \in CommandStages \ {"none"}
      BY DEF CommandStages
    <3>2. /\ command' \in [Command -> [op : {"none", "start", "stop", "restart", "uninstall"},
                                       at : CommandStages, pid : Pid \cup {NoPid}]]
          /\ \A u \in Command : u # t => command'[u] = command[u]
          /\ command'[t] = [op |-> op, at |-> at, pid |-> pid]
      BY <2>2, <3>1, CommandTold
    <3> QED
      BY <2>2, <3>2
  <2> QED
    BY <1>3, <2>1, <2>2
<1>5. CommandMoves(t)
  BY <1>0, <1>1, <1>2, <1>4 DEF CommandMoves
<1>6. EnabledIsReachable'
  BY <1>0 DEF CommandInv, EnabledIsReachable, InstallDaemon, InstallResult, StartDaemon, StopDaemon,
     RestartDaemon, UninstallBegins, StatusDaemon, ReadsStatus
<1>7. ASSUME calm PROVE OneAtWork' /\ OneIsKnown' /\ CommandKnows'
  <2>1. (\A u \in Command : command[u].op = "none") /\ ~cycle[SyncCommand].in
    BY <1>7, <1>1 DEF MayCommand
  <2>2. \A u \in Command : ~Busy(u)
    BY <2>1 DEF CommandInv, DaemonTyped, Busy
  <2>3. ASSUME NEW p \in Pid, ProcessAlive(p)
        PROVE  /\ control'.recorded /\ daemon[p] = "running" /\ p \notin dying'
               /\ Busy(t)' =>
                    command'[t].at \notin {"spawn", "unregister"} /\ command'[t].pid = p
    <3>1. daemon[p] = "running" /\ p \notin dying /\ syncState.pid = p
      BY <1>7, <2>1, <2>3, QuietKnows
    <3>2. control'.recorded
      BY <1>7, <1>1, <2>3 DEF CommandInv, OneIsKnown
    <3>3. Recorded
      BY <2>3, <3>1 DEF Recorded
    <3>4. Busy(t)' => command'[t].at = "signal" /\ command'[t].pid = p
      BY <1>4, <2>2, <3>1, <3>3 DEF Busy
    <3> QED
      BY <1>1, <3>1, <3>2, <3>4
  <2> QED
    BY <1>7, <1>1, <1>4, <2>1, <2>2, <2>3, KnownKept
<1> QED
  BY <1>5, <1>6, <1>7, CommandMoved
\* A command at work goes on, or ends.
LEMMA GoesOrEnds ==
  ASSUME CommandInv, NEW t \in Command, Busy(t), NEW at \in CommandStages \ {"none"},
         NEW pid \in Pid \cup {NoPid}, Goes(t, command[t].op, at, pid) \/ Ends(t)
  PROVE  /\ command' \in [Command -> [op : {"none", "start", "stop", "restart", "uninstall"},
                                      at : CommandStages, pid : Pid \cup {NoPid}]]
         /\ \A u \in Command : u # t => command'[u] = command[u]
         /\ command'[t].op = "none" <=> command'[t].at = "none"
         /\ Goes(t, command[t].op, at, pid) => command'[t].at = at /\ command'[t].pid = pid
         /\ Ends(t) => command'[t].at = "none"
<1>1. command[t].op \in {"start", "stop", "restart", "uninstall"}
  BY CommandTold DEF Busy
<1>2. CASE Goes(t, command[t].op, at, pid)
  <2>1. /\ command' \in [Command -> [op : {"none", "start", "stop", "restart", "uninstall"},
                                     at : CommandStages, pid : Pid \cup {NoPid}]]
        /\ \A u \in Command : u # t => command'[u] = command[u]
        /\ command'[t] = [op |-> command[t].op, at |-> at, pid |-> pid]
    BY <1>1, <1>2, CommandTold
  <2>2. at # "none"
    OBVIOUS
  <2>3. ~Ends(t)
    BY <2>1, <2>2, CommandTold
  <2> QED
    BY <1>1, <2>1, <2>2, <2>3
<1>3. CASE Ends(t)
  <2>1. command'[t].at = "none" /\ command'[t].op = "none"
    BY <1>3, CommandTold
  <2>2. Goes(t, command[t].op, at, pid) => command'[t] = [op |-> command[t].op, at |-> at, pid |-> pid]
    BY <1>1, CommandTold
  <2> QED
    BY <1>3, <2>1, <2>2, CommandTold
<1> QED
  BY <1>2, <1>3

\* The start waits for its daemon, and sends it a signal when it does not turn out well.
LEMMA WaitKept ==
  ASSUME CommandInv, NEW t \in Command, WaitHealthy(t)
  PROVE  CommandInv'
<1>0. /\ control \in [recorded : BOOLEAN, files : BOOLEAN, enabled : BOOLEAN]
      /\ dying \subseteq Pid /\ (\A p \in dying : daemon[p] # "none") /\ begun \in 0 .. MaxCommands /\ MaxCommands \in Nat
      /\ command[t].pid \in Pid \cup {NoPid} /\ Busy(t) /\ "kill" \in CommandStages \ {"none"}
  BY DaemonControlAssumption, CommandTold
     DEF CommandInv, DaemonTyped, DaemonTypeOK, DaemonControlAssumption, WaitHealthy, Busy,
         CommandStages
<1>1. /\ UNCHANGED <<control, daemon, dying, cycle, calm, begun>>
      /\ syncState' = Cleared(syncState) /\ command[t].at = "wait"
      /\ \/ Polled(command[t].pid) = "healthy" /\ Ends(t)
         \/ Goes(t, command[t].op, "kill", command[t].pid)
  BY DEF WaitHealthy
<1>2. /\ command' \in [Command -> [op : {"none", "start", "stop", "restart", "uninstall"},
                                   at : CommandStages, pid : Pid \cup {NoPid}]]
      /\ \A u \in Command : u # t => command'[u] = command[u]
      /\ command'[t].op = "none" <=> command'[t].at = "none"
      /\ \/ Polled(command[t].pid) = "healthy" /\ command'[t].at = "none"
         \/ command'[t].at = "kill" /\ command'[t].pid = command[t].pid
  BY <1>0, <1>1, GoesOrEnds
<1>3. CommandMoves(t)
  BY <1>0, <1>1, <1>2 DEF CommandMoves
<1>4. EnabledIsReachable'
  BY <1>1 DEF CommandInv, EnabledIsReachable
<1>5. ASSUME calm PROVE OneAtWork' /\ OneIsKnown' /\ CommandKnows'
  <2>1. ASSUME NEW p \in Pid, ProcessAlive(p)
        PROVE  /\ control'.recorded
               /\ daemon[p] # "running" =>
                    command'[t].at \in {"wait", "kill", "killed"} /\ command'[t].pid = p
               /\ p \notin dying'
               /\ Busy(t)' =>
                    command'[t].at \notin {"spawn", "unregister"} /\ command'[t].pid = p
    <3>1. command[t].pid = p /\ p \notin dying
      BY <1>0, <1>1, <1>5, <2>1, BusyKnows
    <3>2. control'.recorded
      BY <1>1, <1>5, <2>1 DEF CommandInv, OneIsKnown
    <3>3. Polled(p) = "healthy" => syncState.pid = p
      BY DaemonsAreNot DEF Polled, Cleared, CommandInv, DaemonTyped, DaemonTypeOK
    <3>4. Polled(p) = "healthy" => daemon[p] = "running"
      BY <2>1, <3>3 DEF CommandInv, RecordedRan, ProcessAlive
    <3> QED
      BY <1>1, <1>2, <3>1, <3>2, <3>4 DEF Busy
  <2> QED
    BY <1>0, <1>1, <1>2, <1>5, <2>1, BusyKnows, KnownKept
<1> QED
  BY <1>3, <1>4, <1>5, CommandMoved

LEMMA SignalKept ==
  ASSUME CommandInv, NEW t \in Command, SignalDaemon(t)
  PROVE  CommandInv'
<1> DEFINE at == IF command[t].at = "kill" THEN "killed" ELSE "exit"
<1>0. /\ control \in [recorded : BOOLEAN, files : BOOLEAN, enabled : BOOLEAN]
      /\ dying \subseteq Pid /\ (\A p \in dying : daemon[p] # "none") /\ begun \in 0 .. MaxCommands /\ MaxCommands \in Nat
      /\ command[t].pid \in Pid \cup {NoPid} /\ Busy(t) /\ at \in CommandStages \ {"none"}
  BY DaemonControlAssumption, CommandTold
     DEF CommandInv, DaemonTyped, DaemonTypeOK, DaemonControlAssumption, SignalDaemon, Busy,
         CommandStages
<1>1. /\ UNCHANGED <<control, syncState, daemon, cycle, calm, begun>>
      /\ command[t].at \in {"signal", "kill"} /\ Goes(t, command[t].op, at, command[t].pid)
      /\ dying' \subseteq dying \cup {command[t].pid} /\ dying' \subseteq Pid
      /\ \A p \in dying' : daemon[p] # "none"
  BY <1>0 DEF SignalDaemon, ProcessAlive
<1> HIDE DEF at
<1>2. /\ command' \in [Command -> [op : {"none", "start", "stop", "restart", "uninstall"},
                                   at : CommandStages, pid : Pid \cup {NoPid}]]
      /\ \A u \in Command : u # t => command'[u] = command[u]
      /\ command'[t].op = "none" <=> command'[t].at = "none"
      /\ command'[t].at = at /\ command'[t].pid = command[t].pid
  BY <1>0, <1>1, GoesOrEnds
<1>3. CommandMoves(t)
  BY <1>0, <1>1, <1>2 DEF CommandMoves
<1>4. EnabledIsReachable'
  BY <1>1 DEF CommandInv, EnabledIsReachable
<1>5. ASSUME calm PROVE OneAtWork' /\ OneIsKnown' /\ CommandKnows'
  <2>1. ASSUME NEW p \in Pid, ProcessAlive(p)
        PROVE  /\ control'.recorded
               /\ daemon[p] # "running" => command[t].at = "kill"
               /\ command[t].pid = p
    BY <1>0, <1>1, <1>5, <2>1, BusyKnows DEF CommandInv, OneIsKnown
  <2> QED
    BY <1>0, <1>1, <1>2, <1>5, <2>1, BusyKnows, KnownKept DEF at
<1> QED
  BY <1>3, <1>4, <1>5, CommandMoved

\* What stops or removes a daemon waits until it is dead, or gives it up.
LEMMA OverKept ==
  ASSUME CommandInv, NEW t \in Command,
         \/ StopGivesUp(t) \/ StopEnds(t) \/ RestartGoesOn(t) \/ UninstallGoesOn(t)
         \/ StartFails(t) \/ CommandDies(t)
         \/ \E failsAt \in {"disable", "delete", "never"} : UninstallDaemon(t, failsAt)
  PROVE  CommandInv'
<1>0. /\ control \in [recorded : BOOLEAN, files : BOOLEAN, enabled : BOOLEAN]
      /\ dying \subseteq Pid /\ (\A p \in dying : daemon[p] # "none") /\ begun \in 0 .. MaxCommands /\ MaxCommands \in Nat
      /\ {"spawn", "unregister"} \subseteq CommandStages \ {"none"}
  BY DaemonControlAssumption
     DEF CommandInv, DaemonTyped, DaemonTypeOK, DaemonControlAssumption, CommandStages
<1>b. Busy(t)
  BY CommandTold DEF Busy, StopGivesUp, StopEnds, RestartGoesOn, UninstallGoesOn, StartFails, CommandDies,
     UninstallDaemon, Stopped
<1>1. /\ UNCHANGED <<daemon, dying, cycle, calm, begun>>
      /\ syncState' \in {syncState, Cleared(syncState)}
      /\ control' \in [recorded : BOOLEAN, files : BOOLEAN, enabled : BOOLEAN]
      /\ EnabledIsReachable => EnabledIsReachable'
  <2>1. CASE \E failsAt \in {"disable", "delete", "never"} : UninstallDaemon(t, failsAt)
    <3>1. PICK failsAt \in {"disable", "delete", "never"} : UninstallDaemon(t, failsAt)
      BY <2>1
    <3>2. /\ UninstallResult(failsAt) \in [recorded : BOOLEAN, files : BOOLEAN, enabled : BOOLEAN]
          /\ UninstallResult(failsAt).enabled =>
               /\ control.enabled /\ UninstallResult(failsAt).files = control.files
               /\ UninstallResult(failsAt).recorded = control.recorded
      BY <1>0 DEF UninstallResult
    <3> QED
      BY <3>1, <3>2 DEF UninstallDaemon, EnabledIsReachable
  <2>2. CASE control' \in {control, RecordWritten}
    <3>1. /\ RecordWritten \in [recorded : BOOLEAN, files : BOOLEAN, enabled : BOOLEAN]
          /\ RecordWritten.recorded /\ RecordWritten.files = control.files
          /\ RecordWritten.enabled = control.enabled
      BY <1>0 DEF RecordWritten
    <3>2. EnabledIsReachable => EnabledIsReachable'
      BY <2>2, <3>1 DEF EnabledIsReachable
    <3> QED
      BY <1>0, <2>2, <3>1, <3>2 DEF StopGivesUp, StopEnds, RestartGoesOn, UninstallGoesOn,
         StartFails, CommandDies, UninstallDaemon, Stopped
  <2> QED
    BY <2>1, <2>2 DEF StopGivesUp, StopEnds, RestartGoesOn, UninstallGoesOn, StartFails, CommandDies
<1>2. \/ Ends(t)
      \/ Goes(t, command[t].op, "spawn", NoPid)
      \/ Goes(t, command[t].op, "unregister", NoPid)
  BY DEF StopGivesUp, StopEnds, RestartGoesOn, UninstallGoesOn, StartFails, CommandDies,
     UninstallDaemon, Stopped
<1>3. /\ command' \in [Command -> [op : {"none", "start", "stop", "restart", "uninstall"},
                                   at : CommandStages, pid : Pid \cup {NoPid}]]
      /\ \A u \in Command : u # t => command'[u] = command[u]
      /\ command'[t].op = "none" <=> command'[t].at = "none"
  BY <1>0, <1>b, <1>2, GoesOrEnds
<1>4. CommandMoves(t)
  BY <1>0, <1>1, <1>3 DEF CommandMoves
<1>5. ASSUME calm PROVE OneAtWork' /\ OneIsKnown' /\ CommandKnows'
  <2>1. ~ProcessAlive(command[t].pid) \/ command[t].at = "unregister"
    BY <1>5 DEF StopGivesUp, StopEnds, RestartGoesOn, UninstallGoesOn, StartFails, CommandDies,
       UninstallDaemon, Stopped, StopIsOver
  <2>2. \A p \in Pid : ~ProcessAlive(p)
    BY <1>5, <1>b, <2>1, BusyKnows
  <2> QED
    BY <1>b, <1>1, <1>3, <1>5, <2>2, BusyKnows, KnownKept
<1> QED
  BY <1>1, <1>4, <1>5, CommandMoved DEF CommandInv

\* A daemon is spawned where none is alive.
LEMMA SpawnKept ==
  ASSUME CommandInv, NEW t \in Command, SpawnDaemon(t)
  PROVE  CommandInv'
<1>0. /\ control \in [recorded : BOOLEAN, files : BOOLEAN, enabled : BOOLEAN]
      /\ daemon \in [Pid -> {"none", "spawned", "checked", "running", "dead"}]
      /\ "wait" \in CommandStages \ {"none"} /\ Busy(t)
  BY DEF CommandInv, DaemonTyped, DaemonTypeOK, CommandStages, SpawnDaemon, Busy
<1>1. PICK p \in Pid :
        /\ daemon[p] = "none" /\ daemon' = [daemon EXCEPT ![p] = "spawned"]
        /\ Goes(t, command[t].op, "wait", p)
  BY DEF SpawnDaemon
<1>2. /\ UNCHANGED <<syncState, dying, cycle, calm, begun>> /\ control'.recorded
      /\ control' \in [recorded : BOOLEAN, files : BOOLEAN, enabled : BOOLEAN]
      /\ EnabledIsReachable => EnabledIsReachable'
      /\ command[t].at = "spawn"
  BY <1>0 DEF SpawnDaemon, RecordWritten, EnabledIsReachable
<1>3. /\ command' \in [Command -> [op : {"none", "start", "stop", "restart", "uninstall"},
                                   at : CommandStages, pid : Pid \cup {NoPid}]]
      /\ \A u \in Command : u # t => command'[u] = command[u]
      /\ command'[t].op = "none" <=> command'[t].at = "none"
      /\ command'[t].at = "wait" /\ command'[t].pid = p
  BY <1>0, <1>1, GoesOrEnds
<1>4. DaemonTyped'
  BY <1>0, <1>1, <1>2, <1>3 DEF CommandInv, DaemonTyped, DaemonTypeOK
<1>5. \A q \in Pid : q # p => daemon'[q] = daemon[q]
  BY <1>0, <1>1
<1>6. daemon'[p] = "spawned"
  BY <1>0, <1>1
<1>7. LockIsOnes' /\ RecordedRan'
  BY <1>1, <1>2, <1>5 DEF CommandInv, LockIsOnes, RecordedRan
<1>8. ASSUME calm PROVE OneAtWork' /\ OneIsKnown' /\ CommandKnows'
  <2>1. \A q \in Pid : ~ProcessAlive(q)
    BY <1>0, <1>2, <1>8, BusyKnows
  <2>2. \A q \in Pid : ProcessAlive(q)' => q = p
    BY <1>5, <2>1 DEF ProcessAlive
  <2>3. p \notin dying'
    BY <1>1, <1>2 DEF CommandInv, DaemonTyped
  <2>4. OneAtWork'
    BY <1>0, <1>2, <1>3, <1>8, BusyKnows DEF OneAtWork, Busy
  <2>5. OneIsKnown'
    BY <1>2, <1>5, <1>6, <2>1, <2>2 DEF OneIsKnown, ProcessAlive
  <2>6. CommandKnows'
    BY <1>0, <1>2, <1>3, <1>5, <1>6, <1>8, <2>1, <2>2, <2>3, BusyKnows DEF CommandKnows, ProcessAlive, Busy
  <2> QED
    BY <2>4, <2>5, <2>6
<1> QED
  BY <1>2, <1>4, <1>7, <1>8 DEF CommandInv

LEMMA CommandStep == CommandInv /\ [DaemonNext]_daemonVars => CommandInv'
<1> SUFFICES ASSUME CommandInv, [DaemonNext]_daemonVars PROVE CommandInv'
  OBVIOUS
<1>1. ASSUME NEW p \in Pid,
             DaemonChecks(p) \/ DaemonRecords(p) \/ DaemonLeaves(p) \/ DaemonDies(p)
      PROVE  CommandInv'
  BY <1>1, DaemonStepKept
<1>2. ASSUME NEW c \in Cycler,
             \/ CycleStarts(c) \/ CycleRan(c) \/ CycleFails(c)
             \/ \E failed \in BOOLEAN : CycleEnds(c, failed)
      PROVE  CommandInv'
  BY <1>2, CycleStepKept
<1>3. ASSUME NEW t \in Command,
             \/ \E at \in {"remove", "enable", "never"} : InstallDaemon(t, at)
             \/ StartDaemon(t) \/ StopDaemon(t) \/ RestartDaemon(t) \/ UninstallBegins(t)
             \/ StatusDaemon(t)
      PROVE  CommandInv'
  BY <1>3, BeginKept
<1>4. ASSUME NEW t \in Command,
             \/ StopGivesUp(t) \/ StopEnds(t) \/ RestartGoesOn(t) \/ UninstallGoesOn(t)
             \/ StartFails(t) \/ CommandDies(t)
             \/ \E at \in {"disable", "delete", "never"} : UninstallDaemon(t, at)
      PROVE  CommandInv'
  BY <1>4, OverKept
<1>5. CASE UNCHANGED daemonVars
  BY <1>5 DEF daemonVars, CommandInv, DaemonTyped, DaemonTypeOK, LockIsOnes, RecordedRan,
     EnabledIsReachable, OneAtWork, OneIsKnown, CommandKnows, ProcessAlive, Busy
<1> QED
  BY <1>1, <1>2, <1>3, <1>4, <1>5, WaitKept, SignalKept, SpawnKept DEF DaemonNext

\* However commands, daemons and cycles follow one another, and wherever they fail,
\* the invariant of the daemon's commands holds.
THEOREM CommandInductive == DaemonSpec => []CommandInv
BY CommandBegins, CommandStep, PTL DEF DaemonSpec

LEMMA OnesAreOne ==
  ASSUME NEW S, \A x, y \in S : x = y
  PROVE  Cardinality(S) <= 1
<1>1. CASE S = {}
  BY <1>1, FS_EmptySet
<1>2. CASE S # {}
  <2>1. PICK x \in S : S = {x}
    BY <1>2
  <2> QED
    BY <2>1, FS_Singleton
<1> QED
  BY <1>1, <1>2

\* The cycles never overlap, what is registered can be reached, and while commands
\* are run one at a time one daemon is alive and known (DaemonControlIsRight).
THEOREM DaemonControlRight == DaemonSpec => [](DaemonTypeOK /\ DaemonControlIsRight)
<1>1. CommandInv => DaemonTypeOK /\ DaemonControlIsRight
  <2> SUFFICES ASSUME CommandInv PROVE DaemonTypeOK /\ DaemonControlIsRight
    OBVIOUS
  <2>1. DaemonTypeOK /\ EnabledIsReachable
    BY DEF CommandInv, DaemonTyped
  <2>2. OneCycle
    BY OnesAreOne DEF CommandInv, LockIsOnes, InLock, OneCycle
  <2>3. OneDaemon
    <3>1. ASSUME calm
          PROVE  Cardinality({p \in Pid : ProcessAlive(p) /\ p \notin dying}) <= 1
      <4>1. \A p, q \in {r \in Pid : ProcessAlive(r) /\ r \notin dying} : p = q
        BY <3>1 DEF CommandInv, OneIsKnown
      <4> QED
        BY <4>1, OnesAreOne
    <3> QED
      BY <3>1 DEF OneDaemon
  <2>4. RunningIsRecorded /\ NothingRunsUninstalled
    BY DEF RunningIsRecorded, NothingRunsUninstalled, CommandInv, OneIsKnown
  <2> QED
    BY <2>1, <2>2, <2>3, <2>4 DEF DaemonControlIsRight
<1> QED
  BY <1>1, CommandInductive, PTL

-----------------------------------------------------------------------------
(* The configuration of the collector.  The order of its routes             *)

TypedRoute(r) == r.priority \in Int /\ r.key \in Int /\ Len(r.prefix) \in Nat
\* Routes of distinct keys, as WellFormed has them.
KeyedApart(S) ==
  (\A r \in S : TypedRoute(r)) /\ \A r, s \in S : r # s => r.key # s.key

LEMMA PrecedesIs ==
  ASSUME NEW r, NEW s
  PROVE  Precedes(r, s) <=>
           \/ -r.priority < -s.priority
           \/ /\ -r.priority = -s.priority
              /\ \/ Specificity(r) < Specificity(s)
                 \/ /\ Specificity(r) = Specificity(s)
                    /\ \/ -Len(r.prefix) < -Len(s.prefix)
                       \/ -Len(r.prefix) = -Len(s.prefix) /\ r.key < s.key
<1> DEFINE a == <<-r.priority, Specificity(r), -Len(r.prefix), r.key>>
           b == <<-s.priority, Specificity(s), -Len(s.prefix), s.key>>
           less(i) == a[i] < b[i] /\ \A j \in 1..i - 1 : a[j] = b[j]
<1>1. Precedes(r, s) <=> \E i \in 1..4 : less(i)
  BY DEF Precedes
<1>2. (\E i \in 1..4 : less(i)) <=> less(1) \/ less(2) \/ less(3) \/ less(4)
  <2> HIDE DEF less
  <2> QED
    OBVIOUS
<1>3. less(1) <=> a[1] < b[1]
  OBVIOUS
<1>4. less(2) <=> a[2] < b[2] /\ a[1] = b[1]
  OBVIOUS
<1>5. less(3) <=> a[3] < b[3] /\ a[1] = b[1] /\ a[2] = b[2]
  OBVIOUS
<1>6. less(4) <=> a[4] < b[4] /\ a[1] = b[1] /\ a[2] = b[2] /\ a[3] = b[3]
  OBVIOUS
<1> HIDE DEF less
<1>7. /\ a[1] = -r.priority /\ a[2] = Specificity(r) /\ a[3] = -Len(r.prefix) /\ a[4] = r.key
      /\ b[1] = -s.priority /\ b[2] = Specificity(s) /\ b[3] = -Len(s.prefix) /\ b[4] = s.key
  OBVIOUS
<1> QED
  BY <1>1, <1>2, <1>3, <1>4, <1>5, <1>6, <1>7

\* Precedes is a strict total order of routes whose keys differ.
LEMMA PrecedesOrders ==
  ASSUME NEW S, KeyedApart(S)
  PROVE  /\ \A r \in S : ~Precedes(r, r)
         /\ \A r, s \in S : r # s => Precedes(r, s) \/ Precedes(s, r)
         /\ \A r, s, u \in S : Precedes(r, s) /\ Precedes(s, u) => Precedes(r, u)
<1> USE PrecedesIs DEF KeyedApart, TypedRoute
<1>0. \A r \in S : Specificity(r) \in Int
  BY DEF Specificity
<1>1. \A r \in S : ~Precedes(r, r)
  BY <1>0
<1>2. \A r, s \in S : r # s => Precedes(r, s) \/ Precedes(s, r)
  BY <1>0
<1>3. ASSUME NEW r \in S, NEW s \in S, NEW u \in S, Precedes(r, s), Precedes(s, u)
      PROVE  Precedes(r, u)
  <2> DEFINE p(x) == -x.priority
             l(x) == -Len(x.prefix)
  <2>1. \A x \in {r, s, u} : p(x) \in Int /\ Specificity(x) \in Int /\ l(x) \in Int /\ x.key \in Int
    BY <1>0
  <2>2. \A x, y : Precedes(x, y) <=>
           \/ p(x) < p(y)
           \/ /\ p(x) = p(y)
              /\ \/ Specificity(x) < Specificity(y)
                 \/ /\ Specificity(x) = Specificity(y)
                    /\ \/ l(x) < l(y)
                       \/ l(x) = l(y) /\ x.key < y.key
    BY PrecedesIs
  <2> HIDE PrecedesIs DEF p, l
  <2>3. \/ p(r) < p(u)
        \/ /\ p(r) = p(u)
           /\ \/ Specificity(r) < Specificity(u)
              \/ /\ Specificity(r) = Specificity(u)
                 /\ \/ l(r) < l(u)
                    \/ l(r) = l(u) /\ r.key < u.key
    <3> DEFINE Before(x, y) ==
                 \/ p(x) < p(y)
                 \/ /\ p(x) = p(y)
                    /\ \/ Specificity(x) < Specificity(y)
                       \/ /\ Specificity(x) = Specificity(y)
                          /\ \/ l(x) < l(y)
                             \/ l(x) = l(y) /\ x.key < y.key
    <3>1. Before(r, s) /\ Before(s, u)
      BY <1>3, <2>2
    <3> QED
      BY ONLY <2>1, <3>1
  <2> QED
    BY <2>2, <2>3
<1> QED
  BY <1>1, <1>2, <1>3

RoutesBefore(S, r) == {s \in S : Precedes(s, r)}

\* Of two routes, the one that precedes has fewer before it.
LEMMA FewerBefore ==
  ASSUME NEW S, IsFiniteSet(S), KeyedApart(S), NEW r \in S, NEW s \in S, Precedes(r, s)
  PROVE  /\ Cardinality(RoutesBefore(S, r)) \in Nat /\ Cardinality(RoutesBefore(S, s)) \in Nat
         /\ Cardinality(RoutesBefore(S, r)) < Cardinality(RoutesBefore(S, s))
<1>1. IsFiniteSet(RoutesBefore(S, r)) /\ IsFiniteSet(RoutesBefore(S, s))
  BY FS_Subset DEF RoutesBefore
<1>2. r \in RoutesBefore(S, s) \ RoutesBefore(S, r) /\ RoutesBefore(S, r) \subseteq RoutesBefore(S, s)
  BY PrecedesOrders DEF RoutesBefore
<1>3. /\ Cardinality(RoutesBefore(S, r)) <= Cardinality(RoutesBefore(S, s))
      /\ Cardinality(RoutesBefore(S, r)) = Cardinality(RoutesBefore(S, s)) => RoutesBefore(S, s) = RoutesBefore(S, r)
  BY <1>1, <1>2, FS_Subset
<1> QED
  BY <1>1, <1>2, <1>3, FS_CardinalityType

\* Every place is taken by the route that has so many before it.
LEMMA EveryPlaceTaken ==
  ASSUME NEW S, IsFiniteSet(S), KeyedApart(S), NEW i \in 1..Cardinality(S)
  PROVE  \E r \in S : Cardinality(RoutesBefore(S, r)) = i - 1
<1> DEFINE n == Cardinality(S)
           place == [r \in S |-> Cardinality(RoutesBefore(S, r))]
<1>1. n \in Nat /\ i - 1 \in 0..n - 1
  BY FS_CardinalityType
<1>2. \A r \in S : Cardinality(RoutesBefore(S, r)) \in 0..n - 1
  <2> SUFFICES ASSUME NEW r \in S PROVE Cardinality(RoutesBefore(S, r)) \in 0..n - 1
    OBVIOUS
  <2>1. RoutesBefore(S, r) \subseteq S /\ r \in S \ RoutesBefore(S, r)
    BY PrecedesOrders DEF RoutesBefore
  <2>2. /\ IsFiniteSet(RoutesBefore(S, r)) /\ Cardinality(RoutesBefore(S, r)) <= n
        /\ n = Cardinality(RoutesBefore(S, r)) => S = RoutesBefore(S, r)
    BY <2>1, FS_Subset
  <2>3. Cardinality(RoutesBefore(S, r)) \in Nat
    BY <2>2, FS_CardinalityType
  <2> QED
    BY <1>1, <2>1, <2>2, <2>3
<1>3. place \in Injection(S, 0..n - 1)
  <2>1. place \in [S -> 0..n - 1]
    BY <1>2
  <2>2. ASSUME NEW r \in S, NEW s \in S, r # s PROVE place[r] # place[s]
    BY <2>2, FewerBefore, PrecedesOrders
  <2> QED
    BY <2>1, <2>2 DEF Injection, IsInjective
<1>4. IsFiniteSet(0..n - 1) /\ Cardinality(0..n - 1) = n
  BY <1>1, FS_Interval
<1>5. place \in Surjection(S, 0..n - 1)
  BY <1>3, <1>4, FS_Injection
<1> QED
  BY <1>1, <1>5 DEF Surjection

RoutesSorted(s) == \A i, j \in DOMAIN s : i < j => Precedes(s[i], s[j])

\* Ordered lists the routes of a set, each once, in their order.
LEMMA OrderedIs ==
  ASSUME NEW S, IsFiniteSet(S), KeyedApart(S)
  PROVE  /\ Ordered(S) \in Seq(S) /\ Len(Ordered(S)) = Cardinality(S)
         /\ ToSet(Ordered(S)) = S /\ RoutesSorted(Ordered(S))
<1> DEFINE n == Cardinality(S)
           o == Ordered(S)
<1>0. n \in Nat
  BY FS_CardinalityType
<1>1. ASSUME NEW i \in 1..n
      PROVE  o[i] \in S /\ Cardinality(RoutesBefore(S, o[i])) = i - 1
  <2>1. o[i] = CHOOSE r \in S : Cardinality(RoutesBefore(S, r)) = i - 1
    BY DEF Ordered, RoutesBefore
  <2> QED
    BY <2>1, EveryPlaceTaken
<1>2. o \in [1..n -> S]
  BY <1>1 DEF Ordered
<1>3. o \in Seq(S) /\ Len(o) = n /\ DOMAIN o = 1..n
  BY <1>0, <1>2
<1>4. ASSUME NEW i \in 1..n, NEW j \in 1..n, i < j PROVE Precedes(o[i], o[j])
  <2>1. o[i] # o[j]
    BY <1>1, <1>4
  <2>2. ~Precedes(o[j], o[i])
    <3>1. Precedes(o[j], o[i]) => Cardinality(RoutesBefore(S, o[j])) < Cardinality(RoutesBefore(S, o[i]))
      BY <1>1, FewerBefore
    <3> QED
      BY <1>1, <1>4, <3>1
  <2> QED
    BY <1>1, <2>1, <2>2, PrecedesOrders
<1>5. ASSUME NEW r \in S PROVE \E i \in 1..n : o[i] = r
  <2>1. RoutesBefore(S, r) \subseteq S /\ r \notin RoutesBefore(S, r)
    BY PrecedesOrders DEF RoutesBefore
  <2>2. /\ IsFiniteSet(RoutesBefore(S, r)) /\ Cardinality(RoutesBefore(S, r)) <= n
        /\ n = Cardinality(RoutesBefore(S, r)) => S = RoutesBefore(S, r)
    BY <2>1, FS_Subset
  <2>3. Cardinality(RoutesBefore(S, r)) \in Nat
    BY <2>2, FS_CardinalityType
  <2> DEFINE i == Cardinality(RoutesBefore(S, r)) + 1
  <2>4. i \in 1..n
    BY <1>0, <2>1, <2>2, <2>3
  <2>5. o[i] \in S /\ Cardinality(RoutesBefore(S, o[i])) = Cardinality(RoutesBefore(S, r))
    BY <1>1, <2>3, <2>4
  <2>6. o[i] = r
    <3>1. Precedes(o[i], r) => Cardinality(RoutesBefore(S, o[i])) < Cardinality(RoutesBefore(S, r))
      BY <2>5, FewerBefore
    <3>2. Precedes(r, o[i]) => Cardinality(RoutesBefore(S, r)) < Cardinality(RoutesBefore(S, o[i]))
      BY <2>5, FewerBefore
    <3> QED
      BY <2>3, <2>5, <3>1, <3>2, PrecedesOrders
  <2> QED
    BY <2>4, <2>6
<1>6. ToSet(o) = S
  BY <1>1, <1>3, <1>5 DEF ToSet
<1> QED
  BY <1>3, <1>4, <1>6 DEF RoutesSorted
-----------------------------------------------------------------------------
(* The file                                                                  *)

Loadable(c) == c \in ConfigRecord /\ WellFormed(c) /\ RoutesSorted(c.routes)

LEMMA FieldsAre ==
  ASSUME NEW c \in ConfigRecord
  PROVE  /\ c.accounts \in [AccountName -> AccountRecord \cup {NoAccount}]
         /\ c.memories \in [MemoryName -> MemoryRecord \cup {NoMemory}]
         /\ c.routes \in Seq(GivenRoutes) /\ c.default \in MemoryName
         /\ c.bindings \in [SourceId -> BindingState]
BY DEF ConfigRecord

LEMMA RoutesAreKeyed ==
  ASSUME NEW c \in ConfigRecord, CrossReferencesHold(c)
  PROVE  KeyedApart(ToSet(c.routes)) /\ IsFiniteSet(ToSet(c.routes))
<1>1. c.routes \in Seq(GivenRoutes) /\ Len(c.routes) \in Nat /\ DOMAIN c.routes = 1..Len(c.routes)
  BY FieldsAre
<1>2. \A r \in ToSet(c.routes) : TypedRoute(r)
  BY <1>1, ConfigAssumption DEF ConfigAssumption, TypedRoute, ToSet
<1>3. \A r, t \in ToSet(c.routes) : r # t => r.key # t.key
  BY DEF CrossReferencesHold, ToSet
<1>4. c.routes \in Surjection(1..Len(c.routes), ToSet(c.routes))
  BY <1>1 DEF Surjection, ToSet
<1>5. IsFiniteSet(ToSet(c.routes))
  BY <1>1, <1>4, FS_Surjection, FS_Interval
<1> QED
  BY <1>2, <1>3, <1>5 DEF KeyedApart

\* What is renamed into place has the routes of what was made, in their order.
LEMMA CanonicalIs ==
  ASSUME NEW c \in ConfigRecord, WellFormed(c)
  PROVE  /\ Loadable(Canonical(c)) /\ ToSet(Canonical(c).routes) = ToSet(c.routes)
         /\ Canonical(c).accounts = c.accounts /\ Canonical(c).memories = c.memories
         /\ Canonical(c).default = c.default /\ Canonical(c).bindings = c.bindings
<1> DEFINE S == ToSet(c.routes)
           d == Canonical(c)
<1>1. KeyedApart(S) /\ IsFiniteSet(S)
  BY RoutesAreKeyed DEF WellFormed
<1>2. /\ Ordered(S) \in Seq(S) /\ ToSet(Ordered(S)) = S /\ RoutesSorted(Ordered(S))
      /\ Len(Ordered(S)) = Cardinality(S)
  BY <1>1, OrderedIs
<1>3. S \subseteq GivenRoutes /\ S # {}
  <2>1. c.routes \in Seq(GivenRoutes) /\ c.routes # <<>>
    BY FieldsAre DEF WellFormed
  <2>2. Len(c.routes) \in Nat \ {0} /\ DOMAIN c.routes = 1..Len(c.routes)
    BY <2>1, EmptySeq
  <2>3. c.routes[1] \in S
    BY <2>2 DEF ToSet
  <2>4. \A i \in DOMAIN c.routes : c.routes[i] \in GivenRoutes
    BY <2>1, <2>2
  <2>5. S \subseteq GivenRoutes
    BY <2>4 DEF ToSet
  <2> QED
    BY <2>3, <2>5
<1>4. Ordered(S) \in Seq(GivenRoutes)
  BY <1>2, <1>3
<1>5. d = [accounts |-> c.accounts, memories |-> c.memories, routes |-> Ordered(S),
           default |-> c.default, bindings |-> c.bindings]
  BY DEF Canonical, ConfigRecord
<1>6. d \in ConfigRecord
  BY <1>4, <1>5, FieldsAre DEF ConfigRecord
<1>7. CrossReferencesHold(d)
  <2>1. ASSUME NEW i \in DOMAIN Ordered(S)
        PROVE  Ordered(S)[i] \in S /\ Ordered(S)[i].memory \in DomainOf(c.memories, NoMemory)
    <3>1. Ordered(S)[i] \in S
      BY <1>2 DEF ToSet
    <3> QED
      BY <3>1 DEF ToSet, WellFormed, CrossReferencesHold
  <2>2. ASSUME NEW i \in DOMAIN Ordered(S), NEW j \in DOMAIN Ordered(S), i # j
        PROVE  Ordered(S)[i].key # Ordered(S)[j].key
    <3>1. i \in Int /\ j \in Int
      BY <1>2
    <3>2. Ordered(S)[i] # Ordered(S)[j]
      BY <1>1, <1>2, <2>1, <2>2, <3>1, PrecedesOrders DEF RoutesSorted
    <3> QED
      BY <1>1, <2>1, <3>2 DEF KeyedApart
  <2> QED
    BY <1>5, <2>1, <2>2 DEF CrossReferencesHold, WellFormed
<1>8. d.routes # <<>>
  <2>1. ToSet(<<>>) = {}
    BY DEF ToSet
  <2> QED
    BY <1>2, <1>3, <1>5, <2>1
<1>9. WellFormed(d)
  BY <1>5, <1>7, <1>8 DEF WellFormed
<1> QED
  BY <1>2, <1>5, <1>6, <1>9 DEF Loadable

LEMMA ConfiguredIsLoadable == Loadable(Configured)
BY ConfigAssumption, CanonicalIs DEF ConfigAssumption

\* The first route that matches is the one that explains where an event goes.
LEMMA FirstHitExplains ==
  ASSUME NEW c, Loadable(c), NEW i, NEW k \in DOMAIN c.routes, Matches(c.routes[k], i),
         \A l \in DOMAIN c.routes : Matches(c.routes[l], i) => k <= l
  PROVE  c.routes[k].memory = Explained(c, i)
<1> DEFINE candidates == {r \in ToSet(c.routes) : Matches(r, i)}
           first(r) == \A s \in candidates \ {r} : Precedes(r, s)
<1>1. KeyedApart(ToSet(c.routes)) /\ DOMAIN c.routes \subseteq Int
  BY RoutesAreKeyed, FieldsAre DEF Loadable, WellFormed
<1>2. c.routes[k] \in candidates
  BY DEF ToSet
<1>3. first(c.routes[k])
  <2> SUFFICES ASSUME NEW s \in candidates \ {c.routes[k]} PROVE Precedes(c.routes[k], s)
    OBVIOUS
  <2>1. PICK l \in DOMAIN c.routes : c.routes[l] = s
    BY DEF ToSet
  <2>2. k < l
    BY <1>1, <2>1
  <2> QED
    BY <2>1, <2>2 DEF Loadable, RoutesSorted
<1>4. ASSUME NEW r \in candidates, first(r) PROVE r = c.routes[k]
  <2>1. r # c.routes[k] => Precedes(r, c.routes[k]) /\ Precedes(c.routes[k], r)
    BY <1>2, <1>3, <1>4
  <2> QED
    BY <1>1, <1>2, <2>1, PrecedesOrders
<1>5. (CHOOSE r \in candidates : first(r)) = c.routes[k]
  <2> HIDE DEF first
  <2> QED
    BY <1>2, <1>3, <1>4
<1> QED
  BY <1>2, <1>5 DEF Explained

-----------------------------------------------------------------------------
(* What commands write                                                       *)

Writing == {"config.init", "config.doctor", "account.add", "account.remove", "memory.add",
            "memory.remove", "route.add", "route.remove", "route.set-default", "source.onboard",
            "source.status"}

LEMMA ChangedIs ==
  ASSUME NEW q \in CfgRequests, q.do \in Writing, NEW c, NEW found \in SUBSET SourceId,
         c \in ConfigRecord \/ q.do = "config.init", ~Refused(q, c)
  PROVE  Changed(q, c, found) \in ConfigRecord
<1> DEFINE d == Changed(q, c, found)
<1>0. TypedRequest(q) /\ Starter \in ConfigRecord /\ Proposed \in [SourceId -> BindingState]
  BY ConfigAssumption DEF ConfigAssumption
<1>1. CASE q.do \in {"config.init", "config.doctor"}
  BY <1>0, <1>1 DEF Changed
<1>2. ASSUME c \in ConfigRecord
      PROVE  /\ \A f \in [AccountName -> AccountRecord \cup {NoAccount}] :
                  [c EXCEPT !.accounts = f] \in ConfigRecord
             /\ \A f \in [MemoryName -> MemoryRecord \cup {NoMemory}] :
                  [c EXCEPT !.memories = f] \in ConfigRecord
             /\ \A f \in Seq(GivenRoutes) : [c EXCEPT !.routes = f] \in ConfigRecord
             /\ \A f \in MemoryName : [c EXCEPT !.default = f] \in ConfigRecord
             /\ \A f \in [SourceId -> BindingState] : [c EXCEPT !.bindings = f] \in ConfigRecord
  BY <1>2 DEF ConfigRecord
<1>3. CASE q.do \in {"account.add", "account.remove"}
  <2>1. /\ c.accounts \in [AccountName -> AccountRecord \cup {NoAccount}] /\ q.name \in AccountName
        /\ q.do = "account.add" => q.account \in AccountRecord
    BY <1>0, <1>3, FieldsAre DEF TypedRequest
  <2> DEFINE v == IF q.do = "account.add" THEN q.account ELSE NoAccount
  <2>2. [c.accounts EXCEPT ![q.name] = v] \in [AccountName -> AccountRecord \cup {NoAccount}]
    BY <1>3, <2>1
  <2>3. d = [c EXCEPT !.accounts = [c.accounts EXCEPT ![q.name] = v]]
    BY <1>3 DEF Changed
  <2> QED
    BY <1>2, <1>3, <2>2, <2>3
<1>4. CASE q.do \in {"memory.add", "memory.remove"}
  <2>1. /\ c.memories \in [MemoryName -> MemoryRecord \cup {NoMemory}] /\ q.name \in MemoryName
        /\ q.do = "memory.add" => q.memory \in MemoryRecord
    BY <1>0, <1>4, FieldsAre DEF TypedRequest
  <2> DEFINE v == IF q.do = "memory.add" THEN q.memory ELSE NoMemory
  <2>2. [c.memories EXCEPT ![q.name] = v] \in [MemoryName -> MemoryRecord \cup {NoMemory}]
    BY <1>4, <2>1
  <2>3. d = [c EXCEPT !.memories = [c.memories EXCEPT ![q.name] = v]]
    BY <1>4 DEF Changed
  <2> QED
    BY <1>2, <1>4, <2>2, <2>3
<1>5. CASE q.do = "route.add"
  <2>1. q.route \in GivenRoutes /\ c.routes \in Seq(GivenRoutes)
    BY <1>5, FieldsAre DEF GivenRoutes
  <2>2. Append(c.routes, q.route) \in Seq(GivenRoutes)
    BY <2>1
  <2>3. d = [c EXCEPT !.routes = Append(c.routes, q.route)]
    BY <1>5 DEF Changed
  <2> QED
    BY <1>2, <1>5, <2>2, <2>3
<1>6. CASE q.do = "route.remove"
  <2>1. q.index \in Nat \ {0} /\ q.index <= Len(c.routes) /\ c.routes \in Seq(GivenRoutes)
    BY <1>0, <1>6, FieldsAre DEF TypedRequest, Refused, IsAbout, RefusedRoute
  <2>2. RemoveAt(c.routes, q.index) \in Seq(GivenRoutes)
    <3>1. SubSeq(c.routes, 1, q.index - 1) \in Seq(GivenRoutes)
      BY <2>1
    <3>2. SubSeq(c.routes, q.index + 1, Len(c.routes)) \in Seq(GivenRoutes)
      BY <2>1
    <3> QED
      BY <3>1, <3>2 DEF RemoveAt
  <2>3. d = [c EXCEPT !.routes = RemoveAt(c.routes, q.index)]
    BY <1>6 DEF Changed
  <2> QED
    BY <1>2, <1>6, <2>2, <2>3
<1>7. CASE q.do = "route.set-default"
  BY <1>0, <1>2, <1>7 DEF Changed, TypedRequest
<1>8. CASE q.do = "source.onboard"
  <2>1. Onboarded(c, found) \in [SourceId -> BindingState]
    BY <1>0, <1>8, FieldsAre DEF Onboarded
  <2> QED
    BY <1>2, <1>8, <2>1 DEF Changed
<1>9. CASE q.do = "source.status"
  <2>1. [c.bindings EXCEPT ![q.name] = q.status] \in [SourceId -> BindingState]
    BY <1>0, <1>9, FieldsAre DEF TypedRequest
  <2>2. d = [c EXCEPT !.bindings = [c.bindings EXCEPT ![q.name] = q.status]]
    BY <1>9 DEF Changed
  <2> QED
    BY <1>2, <1>9, <2>1, <2>2
<1> QED
  BY <1>1, <1>3, <1>4, <1>5, <1>6, <1>7, <1>8, <1>9 DEF Writing
IntentsHold(c, statuses, accounts) ==
  /\ \A s \in SourceId : statuses[s] # "none" => c.bindings[s] = statuses[s]
  /\ \A a \in AccountName : (c.accounts[a] # NoAccount) <=> accounts[a]

\* The accounts and statuses that are meant when q is acknowledged.
AccountsMeant(q) ==
  [a \in AccountName |->
     CASE q.do = "config.init" -> Starter.accounts[a] # NoAccount
       [] q.do = "account.add" /\ q.name = a -> TRUE
       [] q.do = "account.remove" /\ q.name = a -> FALSE
       [] OTHER -> intent.accounts[a]]
StatusesMeant(q) ==
  [s \in SourceId |-> CASE q.do = "config.init" -> "none"
                        [] q.do = "source.status" /\ q.name = s -> q.status
                        [] OTHER -> intent.statuses[s]]

LEMMA IntentsKept ==
  ASSUME NEW q \in CfgRequests, q.do \in Writing, NEW c, NEW found \in SUBSET SourceId,
         \/ q.do = "config.init"
         \/ c \in ConfigRecord /\ IntentsHold(c, intent.statuses, intent.accounts)
  PROVE  IntentsHold(Changed(q, c, found), StatusesMeant(q), AccountsMeant(q))
<1> DEFINE d == Changed(q, c, found)
<1>0. TypedRequest(q) /\ Starter \in ConfigRecord /\ NoAccount \notin AccountRecord
  BY ConfigAssumption DEF ConfigAssumption
<1>1. CASE q.do = "config.init"
  BY <1>1 DEF Changed, IntentsHold, StatusesMeant, AccountsMeant
<1>2. CASE q.do \in {"account.add", "account.remove"}
  <2>1. /\ c.accounts \in [AccountName -> AccountRecord \cup {NoAccount}] /\ q.name \in AccountName
        /\ q.do = "account.add" => q.account \in AccountRecord
    BY <1>0, <1>2, FieldsAre DEF TypedRequest
  <2> DEFINE v == IF q.do = "account.add" THEN q.account ELSE NoAccount
  <2>2. d = [c EXCEPT !.accounts = [c.accounts EXCEPT ![q.name] = v]]
    BY <1>2 DEF Changed
  <2>3. d.accounts = [c.accounts EXCEPT ![q.name] = v] /\ d.bindings = c.bindings
    BY <1>2, <2>2 DEF ConfigRecord
  <2>4. ASSUME NEW a \in AccountName PROVE (d.accounts[a] # NoAccount) <=> AccountsMeant(q)[a]
    <3>1. CASE a = q.name
      BY <1>0, <1>2, <2>1, <2>3, <3>1 DEF AccountsMeant
    <3>2. CASE a # q.name
      BY <1>2, <2>1, <2>3, <3>2 DEF AccountsMeant, IntentsHold
    <3> QED
      BY <3>1, <3>2
  <2>5. \A s \in SourceId : StatusesMeant(q)[s] = intent.statuses[s]
    BY <1>2 DEF StatusesMeant
  <2> QED
    BY <1>2, <2>3, <2>4, <2>5 DEF IntentsHold
<1>3. ASSUME q.do \notin {"config.init", "account.add", "account.remove"}
      PROVE  \A a \in AccountName : AccountsMeant(q)[a] = intent.accounts[a]
  BY <1>3 DEF AccountsMeant
<1>4. ASSUME q.do \notin {"config.init", "source.status"}
      PROVE  \A s \in SourceId : StatusesMeant(q)[s] = intent.statuses[s]
  BY <1>4 DEF StatusesMeant
<1>5. CASE q.do \in {"config.doctor", "memory.add", "memory.remove", "route.add", "route.remove",
                     "route.set-default"}
  <2>1. d.accounts = c.accounts /\ d.bindings = c.bindings
    BY <1>5 DEF Changed, ConfigRecord
  <2> QED
    BY <1>3, <1>4, <1>5, <2>1 DEF IntentsHold
<1>6. CASE q.do = "source.onboard"
  <2>1. d.accounts = c.accounts /\ d.bindings = Onboarded(c, found)
    BY <1>6 DEF Changed, ConfigRecord
  <2>2. \A s \in SourceId : c.bindings[s] # "none" => d.bindings[s] = c.bindings[s]
    BY <2>1 DEF Onboarded
  <2> QED
    BY <1>3, <1>4, <1>6, <2>1, <2>2 DEF IntentsHold
<1>7. CASE q.do = "source.status"
  <2>1. q.name \in SourceId /\ c.bindings \in [SourceId -> BindingState]
    BY <1>0, <1>7, FieldsAre DEF TypedRequest
  <2>2. d.accounts = c.accounts /\ d.bindings = [c.bindings EXCEPT ![q.name] = q.status]
    BY <1>7 DEF Changed, ConfigRecord
  <2>3. ASSUME NEW s \in SourceId, StatusesMeant(q)[s] # "none"
        PROVE  d.bindings[s] = StatusesMeant(q)[s]
    <3>1. CASE s = q.name
      BY <1>7, <2>1, <2>2, <3>1 DEF StatusesMeant
    <3>2. CASE s # q.name
      BY <1>7, <2>1, <2>2, <2>3, <3>2 DEF StatusesMeant, IntentsHold
    <3> QED
      BY <3>1, <3>2
  <2> QED
    BY <1>3, <1>7, <2>2, <2>3 DEF IntentsHold
<1> QED
  BY <1>1, <1>2, <1>5, <1>6, <1>7 DEF Writing

\* The first route of the sorted file that was not there is the one that was added.
LEMMA AddedIs ==
  ASSUME NEW p, p.read \in ConfigRecord, NEW q \in CfgRequests, p.do = q, q.do = "route.add",
         WellFormed(Changed(q, p.read, {})), Changed(q, p.read, {}) \in ConfigRecord
  PROVE  AddedRoute(p, Canonical(Changed(q, p.read, {}))) = q.route
<1> DEFINE c == Changed(q, p.read, {})
           next == Canonical(c)
           new(i) == /\ next.routes[i] \notin ToSet(p.read.routes)
                     /\ \A j \in 1..i - 1 : next.routes[j] \in ToSet(p.read.routes)
<1>1. /\ p.read.routes \in Seq(GivenRoutes) /\ q.route \in GivenRoutes
      /\ c.routes = Append(p.read.routes, q.route)
  BY FieldsAre DEF Changed, ConfigRecord, GivenRoutes
<1> DEFINE n == Len(p.read.routes)
<1>a. /\ n \in Nat /\ DOMAIN p.read.routes = 1..n /\ DOMAIN c.routes = 1..n + 1
      /\ c.routes[n + 1] = q.route /\ \A i \in 1..n : c.routes[i] = p.read.routes[i]
  BY <1>1
<1>2. ToSet(c.routes) = ToSet(p.read.routes) \cup {q.route}
  <2>1. \A i \in 1..n + 1 : i \in 1..n \/ i = n + 1
    BY <1>a
  <2>2. 1..n \subseteq 1..n + 1 /\ n + 1 \in 1..n + 1
    BY <1>a
  <2> QED
    BY <1>a, <2>1, <2>2 DEF ToSet
<1>3. q.route \notin ToSet(p.read.routes)
  <2>1. \A i \in DOMAIN p.read.routes :
          /\ i \in DOMAIN c.routes /\ c.routes[i] = p.read.routes[i]
          /\ i # Len(p.read.routes) + 1
    BY ONLY <1>a
  <2>2. Len(p.read.routes) + 1 \in DOMAIN c.routes /\ c.routes[Len(p.read.routes) + 1] = q.route
    BY <1>1
  <2> QED
    BY <2>1, <2>2 DEF WellFormed, CrossReferencesHold, ToSet
<1>4. Loadable(next) /\ ToSet(next.routes) = ToSet(p.read.routes) \cup {q.route}
  BY <1>2, CanonicalIs
<1>5. next.routes \in Seq(GivenRoutes) /\ DOMAIN next.routes = 1..Len(next.routes)
      /\ Len(next.routes) \in Nat
  BY <1>4, FieldsAre DEF Loadable
<1>6. PICK k \in DOMAIN next.routes : next.routes[k] = q.route
  BY <1>4 DEF ToSet
<1>7. ASSUME NEW j \in DOMAIN next.routes, j # k PROVE next.routes[j] \in ToSet(p.read.routes)
  <2>1. next.routes[j].key # next.routes[k].key
    BY <1>4, <1>7 DEF Loadable, WellFormed, CrossReferencesHold
  <2>2. next.routes[j] # q.route
    BY <1>6, <2>1
  <2>3. next.routes[j] \in ToSet(next.routes)
    BY DEF ToSet
  <2> QED
    BY <1>4, <2>2, <2>3
<1>8. new(k)
  BY <1>3, <1>5, <1>6, <1>7
<1>9. \A i \in DOMAIN next.routes : new(i) => i = k
  BY <1>7
<1>10. (CHOOSE i \in DOMAIN next.routes : new(i)) = k
  <2> HIDE DEF new
  <2> QED
    BY <1>8, <1>9
<1> QED
  BY <1>6, <1>10 DEF AddedRoute
-----------------------------------------------------------------------------
(* The invariant of the commands                                             *)

WorkingCommand ==
  [at : {"store", "clear", "save", "send"}, do : CfgRequests, read : ConfigRecord \cup {NoFile}]

ConfigTyped ==
  /\ cfgFile = NoFile \/ Loadable(cfgFile)
  /\ keyring \in [CredentialRef -> 0..MaxNow + 1 \cup {NoSecret}]
  /\ terminal \in [Terminal -> {AtRest} \cup WorkingCommand]
  /\ cfgNow \in 0..MaxNow /\ runs \in 0..MaxCommandsRun /\ alone \in BOOLEAN
  /\ intent \in [statuses : [SourceId -> BindingState], accounts : [AccountName -> BOOLEAN]]

\* What a command checked holds of what it read, until it ends.
CommandChecked(p) ==
  /\ ~Refused(p.do, p.read) /\ (p.do.do = "config.init" \/ p.read # NoFile)
  /\ p.at = "store" => p.do.do = "account.login" /\ Managed(p.read.accounts[p.do.name])
  /\ p.at = "clear" => /\ p.do.do \in {"account.logout", "account.remove"}
                       /\ Managed(p.read.accounts[p.do.name])
  /\ p.at = "send" => p.do.do = "memory.write"
  /\ p.at = "save" => p.do.do \in Writing

\* While commands do not overlap, one is at work, the file is what it read, and an
\* account that it is about to remove has no secret any more.
AloneKnows ==
  alone =>
    /\ \A t, u \in Terminal : terminal[t] # AtRest /\ terminal[u] # AtRest => t = u
    /\ \A t \in Terminal : terminal[t] # AtRest =>
         /\ terminal[t].read = cfgFile
         /\ terminal[t].at = "save" /\ terminal[t].do.do = "account.remove" =>
              LET account == terminal[t].read.accounts[terminal[t].do.name]
              IN Managed(account) => keyring[account.ref] = NoSecret

AnswersHold == RouteAnswered /\ AcknowledgedIntentsHold /\ WritesAreAllowed

ConfigInv ==
  /\ ConfigTyped /\ AloneKnows /\ AnswersHold
  /\ \A t \in Terminal : terminal[t] # AtRest => CommandChecked(terminal[t])

LEMMA AtRestIsNoCommand == AtRest \notin WorkingCommand /\ AtRest.at = "rest"
BY DEF AtRest, WorkingCommand

LEMMA ConfigBegins == ConfigInit => ConfigInv
<1> SUFFICES ASSUME ConfigInit PROVE ConfigInv
  OBVIOUS
<1>1. ConfigTyped
  <2>1. NoIntent \in [statuses : [SourceId -> BindingState], accounts : [AccountName -> BOOLEAN]]
    BY DEF NoIntent, BindingState
  <2>2. MaxNow \in Nat /\ MaxCommandsRun \in Nat
    BY ConfigAssumption DEF ConfigAssumption
  <2> QED
    BY <2>1, <2>2, ConfiguredIsLoadable DEF ConfigInit, ConfigTyped
<1>2. \A t \in Terminal : terminal[t] = AtRest
  BY DEF ConfigInit
<1>3. AnswersHold
  BY AtRestIsNoCommand DEF ConfigInit, NoIntent, AnswersHold, RouteAnswered, AcknowledgedIntentsHold,
     WritesAreAllowed
<1> QED
  BY <1>1, <1>2, <1>3 DEF ConfigInv, AloneKnows

\* A command at work, and what it read.
LEMMA AtWorkIs ==
  ASSUME ConfigInv, NEW t \in Terminal, terminal[t] # AtRest
  PROVE  /\ terminal[t] \in WorkingCommand /\ CommandChecked(terminal[t])
         /\ terminal[t].do \in CfgRequests /\ TypedRequest(terminal[t].do)
         /\ terminal[t].do.do # "config.init" =>
              terminal[t].read \in ConfigRecord
BY ConfigAssumption DEF ConfigAssumption, ConfigInv, ConfigTyped, WorkingCommand, CommandChecked

LEMMA StageIs ==
  ASSUME ConfigInv, NEW t \in Terminal, terminal[t].at \in {"store", "clear", "save", "send"}
  PROVE  terminal[t] # AtRest
BY AtRestIsNoCommand

\* The command that ends leaves the terminals to the others.
LEMMA CommandEnds ==
  ASSUME ConfigInv, NEW t \in Terminal, terminal[t] # AtRest,
         terminal' = [terminal EXCEPT ![t] = AtRest], UNCHANGED <<cfgNow, runs, alone>>
  PROVE  /\ terminal' \in [Terminal -> {AtRest} \cup WorkingCommand]
         /\ \A u \in Terminal : terminal'[u] # AtRest =>
              u # t /\ terminal'[u] = terminal[u] /\ CommandChecked(terminal'[u])
         /\ AloneKnows'
<1>1. terminal \in [Terminal -> {AtRest} \cup WorkingCommand]
  BY DEF ConfigInv, ConfigTyped
<1>2. \A u \in Terminal : terminal'[u] # AtRest => u # t /\ terminal'[u] = terminal[u]
  BY <1>1
<1>3. alone => \A u \in Terminal : terminal'[u] = AtRest
  BY <1>2 DEF ConfigInv, AloneKnows
<1> QED
  BY <1>1, <1>2, <1>3 DEF ConfigInv, AloneKnows

LEMMA BeginsKept ==
  ASSUME ConfigInv, NEW t \in Terminal, NEW q \in CfgRequests, BeginCommand(t, q)
  PROVE  ConfigInv'
<1> DEFINE step == FirstStep(q, cfgFile)
           p == [at |-> step, do |-> q, read |-> cfgFile]
<1>0. /\ terminal[t] = AtRest /\ runs' = runs + 1 /\ runs < MaxCommandsRun
      /\ alone' = (alone /\ \A u \in Terminal : terminal[u] = AtRest)
      /\ UNCHANGED <<cfgFile, keyring, cfgNow, intent>>
  BY DEF BeginCommand
<1>1. \/ /\ UNCHANGED terminal
         /\ cfgSaid' = CommandAnswer(q, FALSE, "refused")
      \/ /\ UNCHANGED terminal /\ q.do = "account.logout"
         /\ cfgSaid' = CommandAnswer(q, TRUE, "nothing to clear")
      \/ /\ ~Refused(q, cfgFile) /\ step # "rest"
         /\ terminal' = [terminal EXCEPT ![t] = p] /\ cfgSaid' = AtRest
  <2>1. step = "rest" => q.do = "account.logout"
    BY DEF FirstStep
  <2> QED
    BY <2>1 DEF BeginCommand
<1>2. /\ terminal \in [Terminal -> {AtRest} \cup WorkingCommand]
      /\ cfgFile \in ConfigRecord \cup {NoFile} /\ runs \in Nat /\ MaxCommandsRun \in Nat
      /\ TypedRequest(q)
  BY ConfigAssumption DEF ConfigAssumption, ConfigInv, ConfigTyped, Loadable
<1>3. AnswersHold'
  <2>1. cfgSaid'.at = "answered" /\ cfgSaid'.ok => cfgSaid'.do.do = "account.logout"
    <3>1. /\ CommandAnswer(q, FALSE, "refused").ok = FALSE
          /\ CommandAnswer(q, TRUE, "nothing to clear").do = q
      BY DEF CommandAnswer
    <3> QED
      BY <1>1, <3>1, AtRestIsNoCommand
  <2> QED
    BY <1>0, <2>1 DEF ConfigInv, AnswersHold, RouteAnswered, AcknowledgedIntentsHold, WritesAreAllowed
<1>4. CASE UNCHANGED terminal
  <2>1. ConfigTyped'
    BY <1>0, <1>2, <1>4 DEF ConfigInv, ConfigTyped
  <2>2. AloneKnows'
    BY <1>0, <1>4 DEF ConfigInv, AloneKnows
  <2>3. \A u \in Terminal : terminal'[u] # AtRest => CommandChecked(terminal'[u])
    BY <1>4 DEF ConfigInv
  <2> QED
    BY <1>3, <2>1, <2>2, <2>3 DEF ConfigInv
<1>5. CASE /\ ~Refused(q, cfgFile) /\ step # "rest"
           /\ terminal' = [terminal EXCEPT ![t] = p]
  <2>1. q.do = "config.init" \/ cfgFile # NoFile
    BY <1>5 DEF Refused
  <2>2. p \in WorkingCommand
    BY <1>2, <1>5 DEF WorkingCommand, FirstStep
  <2>3. CommandChecked(p)
    <3>1. q.do = "account.login" => Managed(cfgFile.accounts[q.name])
      BY <1>5 DEF Refused, IsAbout, RefusedAccount
    <3>2. step = "save" => q.do \in Writing
      BY <1>2 DEF FirstStep, Writing, TypedRequest
    <3>3. /\ step = "store" => q.do = "account.login"
          /\ step = "clear" => /\ q.do \in {"account.logout", "account.remove"}
                               /\ Managed(cfgFile.accounts[q.name])
          /\ step = "send" => q.do = "memory.write"
      BY DEF FirstStep
    <3> QED
      BY <1>5, <2>1, <3>1, <3>2, <3>3 DEF CommandChecked
  <2>4. /\ terminal' \in [Terminal -> {AtRest} \cup WorkingCommand] /\ terminal'[t] = p
        /\ \A u \in Terminal : u # t => terminal'[u] = terminal[u]
    BY <1>2, <1>5, <2>2
  <2>5. step = "save" /\ q.do = "account.remove" => ~Managed(cfgFile.accounts[q.name])
    BY DEF FirstStep
  <2>6. AloneKnows'
    <3>1. p.read = cfgFile /\ p.do = q /\ p.at = step
      OBVIOUS
    <3>2. alone' => \A u \in Terminal : terminal'[u] # AtRest => u = t
      BY <1>0, <2>4
    <3> HIDE DEF p, step
    <3> QED
      BY <1>0, <2>4, <2>5, <3>1, <3>2 DEF AloneKnows
  <2> QED
    BY <1>0, <1>2, <1>3, <2>3, <2>4, <2>6 DEF ConfigInv, ConfigTyped
<1> QED
  BY <1>1, <1>4, <1>5

LEMMA StoreKept ==
  ASSUME ConfigInv, NEW t \in Terminal, StoreManagedAccountCredential(t)
  PROVE  ConfigInv'
<1> DEFINE p == terminal[t]
           ref == p.read.accounts[p.do.name].ref
<1>1. /\ p # AtRest /\ terminal' = [terminal EXCEPT ![t] = AtRest]
      /\ keyring' = [keyring EXCEPT ![ref] = p.do.expires]
      /\ cfgSaid' = CommandAnswer(p.do, TRUE, ref)
      /\ UNCHANGED <<cfgFile, cfgNow, runs, alone, intent>>
  BY StageIs DEF StoreManagedAccountCredential
<1>2. p.do.do = "account.login" /\ TypedRequest(p.do)
  BY <1>1, AtWorkIs DEF CommandChecked, StoreManagedAccountCredential
<1>3. p.do.expires \in 0..MaxNow + 1
  BY <1>2 DEF TypedRequest
<1>4. keyring' \in [CredentialRef -> 0..MaxNow + 1 \cup {NoSecret}]
  BY <1>1, <1>3 DEF ConfigInv, ConfigTyped
<1>5. AnswersHold'
  BY <1>1, <1>2 DEF CommandAnswer, ConfigInv, AnswersHold, RouteAnswered, AcknowledgedIntentsHold,
     WritesAreAllowed
<1> QED
  BY <1>1, <1>4, <1>5, CommandEnds DEF ConfigInv, ConfigTyped

LEMMA ClearKept ==
  ASSUME ConfigInv, NEW t \in Terminal, DeleteManagedAccountCredential(t)
  PROVE  ConfigInv'
<1> DEFINE p == terminal[t]
           ref == p.read.accounts[p.do.name].ref
<1>1. /\ p # AtRest /\ p.at = "clear" /\ keyring' = [keyring EXCEPT ![ref] = NoSecret]
      /\ UNCHANGED <<cfgFile, cfgNow, runs, alone, intent>>
  BY StageIs DEF DeleteManagedAccountCredential
<1>2. /\ p \in WorkingCommand /\ CommandChecked(p) /\ TypedRequest(p.do)
      /\ p.do.do \in {"account.logout", "account.remove"} /\ Managed(p.read.accounts[p.do.name])
      /\ p.read \in ConfigRecord
  BY <1>1, AtWorkIs DEF CommandChecked
<1>3. keyring' \in [CredentialRef -> 0..MaxNow + 1 \cup {NoSecret}]
  BY <1>1 DEF ConfigInv, ConfigTyped
<1>4. ref \in CredentialRef
  <2>1. p.do.name \in AccountName
    BY <1>2 DEF TypedRequest
  <2>2. p.read.accounts[p.do.name] \in AccountRecord
    BY <1>2, <2>1, FieldsAre DEF Managed
  <2> QED
    BY <2>2 DEF AccountRecord
<1>5. keyring'[ref] = NoSecret
  BY <1>1, <1>4 DEF ConfigInv, ConfigTyped
<1>6. CASE p.do.do = "account.logout"
  <2>1. /\ terminal' = [terminal EXCEPT ![t] = AtRest]
        /\ cfgSaid' = CommandAnswer(p.do, TRUE, ref)
    BY <1>6 DEF DeleteManagedAccountCredential
  <2>2. AnswersHold'
    BY <1>1, <1>6, <2>1 DEF CommandAnswer, ConfigInv, AnswersHold, RouteAnswered,
       AcknowledgedIntentsHold, WritesAreAllowed
  <2> QED
    BY <1>1, <1>3, <2>1, <2>2, CommandEnds DEF ConfigInv, ConfigTyped
<1>7. CASE p.do.do = "account.remove"
  <2>1. terminal' = [terminal EXCEPT ![t] = [terminal[t] EXCEPT !.at = "save"]] /\ cfgSaid' = AtRest
    BY <1>7 DEF DeleteManagedAccountCredential
  <2> DEFINE s == [terminal[t] EXCEPT !.at = "save"]
  <2>2. s \in WorkingCommand /\ s.at = "save" /\ s.do = p.do /\ s.read = p.read
    BY <1>2 DEF WorkingCommand
  <2>3. CommandChecked(s)
    BY <1>2, <1>7, <2>2 DEF CommandChecked, Writing
  <2> HIDE DEF s
  <2>4. /\ terminal' \in [Terminal -> {AtRest} \cup WorkingCommand] /\ terminal'[t] = s
        /\ \A u \in Terminal : u # t => terminal'[u] = terminal[u]
    BY <2>1, <2>2 DEF ConfigInv, ConfigTyped, s
  <2>5. AloneKnows'
    BY <1>1, <1>5, <2>2, <2>4 DEF ConfigInv, AloneKnows
  <2>6. AnswersHold'
    BY <1>1, <2>1, AtRestIsNoCommand DEF ConfigInv, AnswersHold, RouteAnswered,
       AcknowledgedIntentsHold, WritesAreAllowed
  <2> QED
    BY <1>1, <1>3, <2>3, <2>4, <2>5, <2>6 DEF ConfigInv, ConfigTyped
<1> QED
  BY <1>2, <1>6, <1>7

LEMMA WriteFailsKept ==
  ASSUME ConfigInv, NEW t \in Terminal, WriteFails(t)
  PROVE  ConfigInv'
<1>1. /\ terminal[t] # AtRest /\ terminal' = [terminal EXCEPT ![t] = AtRest]
      /\ cfgSaid' = CommandAnswer(terminal[t].do, FALSE, "unwritten")
      /\ UNCHANGED <<cfgFile, keyring, cfgNow, runs, alone, intent>>
  BY StageIs DEF WriteFails
<1>2. AnswersHold'
  BY <1>1 DEF CommandAnswer, ConfigInv, AnswersHold, RouteAnswered, AcknowledgedIntentsHold,
     WritesAreAllowed
<1> QED
  BY <1>1, <1>2, CommandEnds DEF ConfigInv, ConfigTyped

\* A write that is sent goes by what was read, which is the file when commands do
\* not overlap.
LEMMA SendKept ==
  ASSUME ConfigInv, NEW t \in Terminal, ExecuteMemoryCommand(t)
  PROVE  ConfigInv'
<1> DEFINE p == terminal[t]
           memory == p.read.memories[p.do.name]
           account == p.read.accounts[memory.account]
           ok == Managed(account) => FreshSecret(account.ref)
<1>1. /\ p # AtRest /\ p.at = "send" /\ terminal' = [terminal EXCEPT ![t] = AtRest]
      /\ cfgSaid' = CommandAnswer(p.do, ok, "sent")
      /\ UNCHANGED <<cfgFile, keyring, cfgNow, runs, alone, intent>>
  BY StageIs DEF ExecuteMemoryCommand
<1>2. CommandChecked(p) /\ p.do.do = "memory.write"
  BY <1>1, AtWorkIs DEF CommandChecked
<1>3. ~memory.readOnly
  <2>1. ~RefusedMemory(p.do, p.read)
    BY <1>2 DEF CommandChecked, Refused, IsAbout
  <2> QED
    BY <1>2, <2>1 DEF RefusedMemory
<1>4. alone => p.read = cfgFile
  BY <1>1 DEF ConfigInv, AloneKnows
<1>5. cfgSaid'.do = p.do /\ cfgSaid'.ok = ok
  BY <1>1 DEF CommandAnswer
<1>6. WritesAreAllowed'
  BY <1>1, <1>3, <1>4, <1>5 DEF WritesAreAllowed, FreshSecret
<1>7. RouteAnswered' /\ AcknowledgedIntentsHold'
  BY <1>1, <1>2, <1>5 DEF ConfigInv, AnswersHold, RouteAnswered, AcknowledgedIntentsHold
<1> QED
  BY <1>1, <1>6, <1>7, CommandEnds DEF ConfigInv, ConfigTyped, AnswersHold

LEMMA TickKept ==
  ASSUME ConfigInv, ConfigTick
  PROVE  ConfigInv'
<1>1. /\ cfgNow' \in 0..MaxNow /\ cfgSaid' = AtRest
      /\ UNCHANGED <<cfgFile, keyring, terminal, runs, alone, intent>>
  BY ConfigAssumption DEF ConfigAssumption, ConfigTick, ConfigInv, ConfigTyped
<1>2. AnswersHold'
  BY <1>1, AtRestIsNoCommand DEF ConfigInv, AnswersHold, RouteAnswered, AcknowledgedIntentsHold,
     WritesAreAllowed
<1> QED
  BY <1>1, <1>2 DEF ConfigInv, ConfigTyped, AloneKnows
\* A file that is renamed into place is what the acknowledged command means.
LEMMA WrittenKept ==
  ASSUME ConfigInv, NEW t \in Terminal, NEW found \in SUBSET SourceId,
         terminal[t].at = "save",
         terminal[t].do.do # "source.onboard" => found = {},
         WellFormed(Changed(terminal[t].do, terminal[t].read, found)),
         cfgFile' = Canonical(Changed(terminal[t].do, terminal[t].read, found)),
         cfgSaid' = CommandAnswer(terminal[t].do, TRUE, Written(terminal[t], cfgFile')),
         intent' = [statuses |-> StatusesMeant(terminal[t].do),
                    accounts |-> AccountsMeant(terminal[t].do)],
         terminal' = [terminal EXCEPT ![t] = AtRest],
         UNCHANGED <<keyring, cfgNow, runs, alone>>
  PROVE  ConfigInv'
<1> DEFINE p == terminal[t]
           q == terminal[t].do
           c == Changed(q, p.read, found)
<1>1. /\ p # AtRest /\ CommandChecked(p) /\ q.do \in Writing /\ q \in CfgRequests
      /\ q.do = "config.init" \/ p.read \in ConfigRecord
  BY StageIs, AtWorkIs DEF CommandChecked
<1>2. c \in ConfigRecord
  BY <1>1, ChangedIs DEF CommandChecked
<1>3. /\ Loadable(cfgFile') /\ cfgFile'.accounts = c.accounts /\ cfgFile'.bindings = c.bindings
  BY <1>2, CanonicalIs
<1>4. cfgSaid'.do = q /\ cfgSaid'.about = Written(p, cfgFile')
  BY DEF CommandAnswer
<1>5. RouteAnswered'
  <2>1. q.do = "route.add" => cfgSaid'.about = q.route
    BY <1>1, <1>2, <1>4, AddedIs DEF Written
  <2> QED
    BY <1>4, <2>1 DEF RouteAnswered
<1>6. AcknowledgedIntentsHold'
  <2> SUFFICES ASSUME alone PROVE AcknowledgedIntentsHold'
    BY DEF AcknowledgedIntentsHold
  <2>1. p.read = cfgFile
    BY <1>1 DEF ConfigInv, AloneKnows
  <2>2. q.do = "config.init" \/ IntentsHold(p.read, intent.statuses, intent.accounts)
    BY <1>1, <2>1 DEF CommandChecked, ConfigInv, AnswersHold, AcknowledgedIntentsHold, IntentsHold
  <2>3. IntentsHold(c, StatusesMeant(q), AccountsMeant(q))
    BY <1>1, <2>2, IntentsKept
  <2>4. IntentsHold(cfgFile', intent'.statuses, intent'.accounts)
    BY <1>3, <2>3 DEF IntentsHold
  <2>5. q.do = "account.remove" =>
          /\ cfgSaid'.about = p.read.accounts[q.name]
          /\ Managed(p.read.accounts[q.name]) => keyring[p.read.accounts[q.name].ref] = NoSecret
    BY <1>1, <1>4 DEF ConfigInv, AloneKnows, Written
  <2> QED
    BY <1>4, <2>4, <2>5 DEF AcknowledgedIntentsHold, IntentsHold
<1>7. WritesAreAllowed'
  <2>1. q.do # "memory.write"
    BY <1>1 DEF Writing
  <2> QED
    BY <1>4, <2>1 DEF WritesAreAllowed
<1>8. intent' \in [statuses : [SourceId -> BindingState], accounts : [AccountName -> BOOLEAN]]
  <2>1. /\ intent.statuses \in [SourceId -> BindingState]
        /\ intent.accounts \in [AccountName -> BOOLEAN] /\ TypedRequest(q)
    BY <1>1, AtWorkIs DEF ConfigInv, ConfigTyped
  <2>2. StatusesMeant(q) \in [SourceId -> BindingState]
    BY <2>1 DEF StatusesMeant, BindingState, TypedRequest
  <2>3. AccountsMeant(q) \in [AccountName -> BOOLEAN]
    BY <2>1 DEF AccountsMeant
  <2> QED
    BY <2>2, <2>3
<1>9. ConfigTyped'
  BY <1>1, <1>3, <1>8, CommandEnds DEF ConfigInv, ConfigTyped
<1> QED
  BY <1>1, <1>5, <1>6, <1>7, <1>9, CommandEnds DEF ConfigInv, AnswersHold

LEMMA WriteKept ==
  ASSUME ConfigInv, NEW t \in Terminal, WriteDaemonConfig(t)
  PROVE  ConfigInv'
<1> DEFINE p == terminal[t]
<1>1. /\ p.at = "save" /\ p # AtRest /\ terminal' = [terminal EXCEPT ![t] = AtRest]
      /\ UNCHANGED <<keyring, cfgNow, runs, alone>>
  BY StageIs DEF WriteDaemonConfig
<1>2. PICK found \in (IF p.do.do = "source.onboard" THEN SUBSET SourceId ELSE {{}}) :
        IF WellFormed(Changed(p.do, p.read, found))
          THEN /\ cfgFile' = Canonical(Changed(p.do, p.read, found))
               /\ cfgSaid' = CommandAnswer(p.do, TRUE,
                               Written(p, Canonical(Changed(p.do, p.read, found))))
               /\ intent' = [intent EXCEPT !.accounts = AccountsMeant(p.do),
                                           !.statuses = StatusesMeant(p.do)]
          ELSE /\ cfgSaid' = CommandAnswer(p.do, FALSE, "invalid")
               /\ UNCHANGED <<cfgFile, intent>>
  BY DEF WriteDaemonConfig, AccountsMeant, StatusesMeant
<1>3. found \in SUBSET SourceId /\ (p.do.do # "source.onboard" => found = {})
  BY <1>2
<1>4. CASE WellFormed(Changed(p.do, p.read, found))
  <2>1. intent' = [statuses |-> StatusesMeant(p.do), accounts |-> AccountsMeant(p.do)]
    BY <1>2, <1>4 DEF ConfigInv, ConfigTyped
  <2> QED
    BY <1>1, <1>2, <1>3, <1>4, <2>1, WrittenKept
<1>5. CASE ~WellFormed(Changed(p.do, p.read, found))
  <2>1. cfgSaid' = CommandAnswer(p.do, FALSE, "invalid") /\ UNCHANGED <<cfgFile, intent>>
    BY <1>2, <1>5
  <2>2. AnswersHold'
    BY <1>1, <2>1 DEF CommandAnswer, ConfigInv, AnswersHold, RouteAnswered,
       AcknowledgedIntentsHold, WritesAreAllowed
  <2> QED
    BY <1>1, <2>1, <2>2, CommandEnds DEF ConfigInv, ConfigTyped
<1> QED
  BY <1>4, <1>5

LEMMA ConfigStep == ConfigInv /\ [ConfigNext]_configVars => ConfigInv'
<1>1. ASSUME ConfigInv, UNCHANGED configVars PROVE ConfigInv'
  BY <1>1 DEF configVars, ConfigInv, ConfigTyped, AloneKnows, AnswersHold, RouteAnswered,
     AcknowledgedIntentsHold, WritesAreAllowed
<1> QED
  BY <1>1, BeginsKept, StoreKept, ClearKept, WriteKept, WriteFailsKept, SendKept, TickKept
     DEF ConfigNext

\* However commands overlap, fail and let secrets expire, the invariant of the
\* configuration holds.
THEOREM ConfigInductive == ConfigSpec => []ConfigInv
BY ConfigBegins, ConfigStep, PTL DEF ConfigSpec

\* However commands overlap and fail, the file is one a daemon can load; and while
\* none overlap, what a command answered holds (ConfigIsRight).
THEOREM ConfigRight == ConfigSpec => [](ConfigTypeOK /\ ConfigIsRight)
<1>1. ConfigInv => ConfigTypeOK /\ ConfigIsRight
  <2> SUFFICES ASSUME ConfigInv PROVE ConfigTypeOK /\ ConfigIsRight
    OBVIOUS
  <2>1. FileIsAlwaysLoadable
    <3>1. ASSUME cfgFile # NoFile, NEW i \in RouteInputs, NEW k \in DOMAIN cfgFile.routes,
                 Matches(cfgFile.routes[k], i),
                 \A l \in DOMAIN cfgFile.routes : Matches(cfgFile.routes[l], i) => k <= l
          PROVE  cfgFile.routes[k].memory = Explained(cfgFile, i)
      BY <3>1, FirstHitExplains DEF ConfigInv, ConfigTyped
    <3>2. cfgFile # NoFile => WellFormed(cfgFile)
      BY DEF ConfigInv, ConfigTyped, Loadable
    <3> QED
      BY <3>1, <3>2 DEF FileIsAlwaysLoadable
  <2>2. ConfigTypeOK
    <3>1. \A t \in Terminal : terminal[t].at \in {"rest", "store", "clear", "save", "send"}
      BY AtRestIsNoCommand DEF ConfigInv, ConfigTyped, WorkingCommand
    <3>2. cfgFile = NoFile \/ cfgFile \in ConfigRecord
      BY DEF ConfigInv, ConfigTyped, Loadable
    <3>3. cfgFile \in ConfigRecord =>
            /\ DOMAIN cfgFile.accounts = AccountName /\ DOMAIN cfgFile.memories = MemoryName
            /\ cfgFile.default \in MemoryName /\ cfgFile.bindings \in [SourceId -> BindingState]
      BY FieldsAre
    <3> QED
      BY <3>1, <3>2, <3>3 DEF ConfigInv, ConfigTyped, ConfigTypeOK
  <2> QED
    BY <2>1, <2>2 DEF ConfigInv, AnswersHold, ConfigIsRight
<1> QED
  BY <1>1, ConfigInductive, PTL

-----------------------------------------------------------------------------
(* The sources of the collector.  What a cycle passes is in the journal, of *)
(* each file that only grew, because every cursor that is written down      *)
(* anywhere passes only what is in it: the state file, the checkpoints and  *)
(* the journal may say different things, and the next cycle starts from the *)
(* furthest.  First, loops over a list, and the least of numbers.           *)

\* What holds of 0 and passes from each number to the next holds up to N.
LEMMA LoopReaches ==
  ASSUME NEW N \in Nat, NEW T, 0 \in T, \A n \in 1..N : n - 1 \in T => n \in T
  PROVE  0..N \subseteq T
<1> DEFINE Bad == (0..N) \ T
           L == OpToRel(<, Nat)
<1> SUFFICES ASSUME Bad # {} PROVE FALSE
  OBVIOUS
<1>1. PICK b \in Bad : \A m \in Bad : ~(<<m, b>> \in L)
  <2>1. IsWellFoundedOn(L, Nat)
    BY NatLessThanWellFounded
  <2>2. Bad \subseteq Nat
    OBVIOUS
  <2> HIDE DEF L, Bad
  <2> QED
    BY <2>1, <2>2, WFMin
<1>2. b \in 1..N
  OBVIOUS
<1>3. b - 1 \notin Bad
  <2>1. <<b - 1, b>> \in L
    BY <1>2 DEF OpToRel
  <2> QED
    BY <1>1, <2>1
<1> QED
  BY <1>2, <1>3

\* A loop that stays in D has a function that tells what it has come to.
LoopStays(g, N, D) == \A n \in 1..N, d \in D : g[<<n, d>>] \in D
LoopTells(h, a, N, g) == h[0] = a /\ \A n \in 1..N : h[n] = g[<<n, h[n - 1]>>]

\* There is a loop that goes from its start by each of its steps.
LEMMA LoopExists ==
  ASSUME NEW D, NEW a \in D, NEW N \in Nat, NEW g, LoopStays(g, N, D)
  PROVE  \E h \in [0..N -> D] : LoopTells(h, a, N, g)
<1> USE DEF LoopStays
<1> DEFINE Tells(h, m) == h[0] = a /\ \A n \in 1..m : h[n] = g[<<n, h[n - 1]>>]
           T == {m \in 0..N : \E h \in [0..m -> D] : Tells(h, m)}
<1>1. 0 \in T
  <2> DEFINE h == [n \in 0..0 |-> a]
  <2>1. h \in [0..0 -> D] /\ Tells(h, 0)
    OBVIOUS
  <2> HIDE DEF Tells, h
  <2> QED
    BY <2>1
<1>2. ASSUME NEW m \in 1..N, m - 1 \in T PROVE m \in T
  <2>1. PICK k \in [0..m - 1 -> D] : Tells(k, m - 1)
    BY <1>2
  <2> DEFINE v == g[<<m, k[m - 1]>>]
             h == [n \in 0..m |-> IF n = m THEN v ELSE k[n]]
  <2>2. v \in D
    OBVIOUS
  <2> HIDE DEF v
  <2>3. h \in [0..m -> D]
    BY <2>2
  <2>4. \A n \in 0..m - 1 : h[n] = k[n]
    OBVIOUS
  <2>5. h[m] = v
    OBVIOUS
  <2> HIDE DEF h
  <2>6. h[0] = a
    BY <2>1, <2>4
  <2>7. ASSUME NEW n \in 1..m PROVE h[n] = g[<<n, h[n - 1]>>]
    <3>1. CASE n = m
      <4>1. h[n - 1] = k[m - 1]
        BY <2>4, <3>1
      <4> QED
        BY <2>5, <3>1, <4>1 DEF v
    <3>2. CASE n # m
      <4>1. n \in 1..m - 1 /\ h[n] = k[n] /\ h[n - 1] = k[n - 1]
        BY <2>4, <3>2
      <4> QED
        BY <2>1, <4>1
    <3> QED
      BY <3>1, <3>2
  <2>8. Tells(h, m)
    BY <2>6, <2>7
  <2> HIDE DEF Tells
  <2> QED
    BY <2>3, <2>8
<1>3. 0..N \subseteq T
  <2> HIDE DEF T
  <2> QED
    BY <1>1, <1>2, LoopReaches
<1>4. N \in T
  BY <1>3
<1> QED
  BY <1>4 DEF LoopTells

\* A set of numbers that is not empty has a least one.
LEMMA LeastIsThere ==
  ASSUME NEW S \in SUBSET Nat, S # {}
  PROVE  Min(S) \in S /\ \A y \in S : Min(S) <= y
<1> DEFINE L == OpToRel(<, Nat)
<1>1. PICK b \in S : \A c \in S : ~(<<c, b>> \in L)
  <2>1. IsWellFoundedOn(L, Nat)
    BY NatLessThanWellFounded
  <2> HIDE DEF L
  <2> QED
    BY <2>1, WFMin
<1>2. \A c \in S : b <= c
  <2> SUFFICES ASSUME NEW c \in S, c < b PROVE FALSE
    OBVIOUS
  <2>1. <<c, b>> \in L
    BY DEF OpToRel
  <2> QED
    BY <1>1, <2>1
<1> QED
  BY <1>2 DEF Min

\* The lesser of two numbers,
LEMMA LesserOfTwo ==
  ASSUME NEW x \in Nat, NEW y \in Nat
  PROVE  Min({x, y}) = IF x <= y THEN x ELSE y
<1>1. Min({x, y}) \in {x, y} /\ \A z \in {x, y} : Min({x, y}) <= z
  BY LeastIsThere
<1> QED
  BY <1>1

\* and the greater.
LEMMA GreaterOfTwo ==
  ASSUME NEW x \in Nat, NEW y \in Nat
  PROVE  Max({x, y}) = IF x <= y THEN y ELSE x
<1> DEFINE m == IF x <= y THEN y ELSE x
<1>1. m \in {x, y} /\ \A z \in {x, y} : m >= z
  OBVIOUS
<1>2. \A n \in {x, y} : (\A z \in {x, y} : n >= z) => n = m
  OBVIOUS
<1> HIDE DEF m
<1>3. Max({x, y}) = CHOOSE n \in {x, y} : \A z \in {x, y} : n >= z
  BY DEF Max
<1> QED
  BY <1>1, <1>2, <1>3 DEF m

-----------------------------------------------------------------------------
(* Cursors and entries                                                      *)

CursorOrNone == SourceCursor \cup {NoSrcCursor}
EventText == Said \cup {NoText, Fragment} \cup FileRecords
SrcEvent == [file : SrcFile, line : Nat, text : EventText]
SrcEntry == [seq : Nat, event : SrcEvent, cursor : SourceCursor]

\* No cursor, or one that is not past the other: neither its place nor its time.
Below(a, b) ==
  a = NoSrcCursor \/
  (b # NoSrcCursor /\ (a.cursor < b.cursor \/ (a.cursor = b.cursor /\ a.at <= b.at)))

\* What a cursor is made of.
LEMMA CursorsTyped ==
  ASSUME NEW c \in SourceCursor
  PROVE  c # NoSrcCursor /\ c.cursor \in Nat /\ c.at \in Nat
  BY FilesAssumption DEF SourceCursor

\* The merged cursor is one of the two, and neither is past it.
LEMMA MergedIs ==
  ASSUME NEW a \in CursorOrNone, NEW b \in CursorOrNone
  PROVE  LET m == MergedCursor(a, b)
         IN m \in {a, b} /\ m \in CursorOrNone /\ Below(a, m) /\ Below(b, m)
  BY CursorsTyped DEF MergedCursor, Below, CursorOrNone

\* To be no further is to be no further than what is past that.
LEMMA BelowOrders ==
  ASSUME NEW a \in CursorOrNone, NEW b \in CursorOrNone, NEW c \in CursorOrNone,
         Below(a, b), Below(b, c)
  PROVE  Below(a, c)
  BY CursorsTyped DEF Below, CursorOrNone

\* A cursor is not past itself.
LEMMA BelowItself == ASSUME NEW a \in CursorOrNone PROVE Below(a, a)
  BY CursorsTyped DEF Below, CursorOrNone

CatchState == [next : Nat \ {0}, cursors : [SrcFile -> CursorOrNone]]

\* What one entry of the journal raises.
LEMMA RaisedIs ==
  ASSUME NEW s \in CatchState, NEW e \in SrcEntry
  PROVE  LET r == Raised(s, e)
         IN /\ r \in CatchState /\ r.next >= s.next /\ r.next > e.seq
            /\ r.cursors[e.event.file] = MergedCursor(s.cursors[e.event.file], e.cursor)
            /\ \A f \in SrcFile \ {e.event.file} : r.cursors[f] = s.cursors[f]
<1> DEFINE r == Raised(s, e)
           f == e.event.file
           m == MergedCursor(s.cursors[f], e.cursor)
<1>1. s.next \in Nat \ {0} /\ s.cursors \in [SrcFile -> CursorOrNone]
  BY DEF CatchState
<1>2. e.seq \in Nat /\ f \in SrcFile /\ e.cursor \in CursorOrNone
  BY DEF SrcEntry, SrcEvent, CursorOrNone
<1>3. m \in CursorOrNone
  BY <1>1, <1>2, MergedIs
<1>4. r.next = Max({s.next, e.seq + 1}) /\ r.cursors = [s.cursors EXCEPT ![f] = m]
  BY DEF Raised
<1>5. r.next \in Nat \ {0} /\ r.next >= s.next /\ r.next > e.seq
  <2>1. Max({s.next, e.seq + 1}) = IF s.next <= e.seq + 1 THEN e.seq + 1 ELSE s.next
    BY <1>1, <1>2, GreaterOfTwo
  <2> QED
    BY <1>1, <1>2, <1>4, <2>1
<1> HIDE DEF m
<1>6. r.cursors \in [SrcFile -> CursorOrNone] /\ r.cursors[f] = m
      /\ \A x \in SrcFile \ {f} : r.cursors[x] = s.cursors[x]
  BY <1>1, <1>2, <1>3, <1>4
<1>7. r \in CatchState
  BY <1>5, <1>6 DEF Raised, CatchState
<1> QED
  BY <1>5, <1>6, <1>7 DEF m

\* The journal raises the next sequence above its own, and the cursor of each file
\* to one that was there and that none of them is past.
LEMMA CaughtUpIs ==
  ASSUME NEW start \in CatchState, NEW entries \in Seq(SrcEntry)
  PROVE  LET s == CaughtUp(start, entries)
         IN /\ s \in CatchState /\ s.next >= start.next
            /\ \A i \in 1..Len(entries) : s.next > entries[i].seq
            /\ \A i \in 1..Len(entries) : Below(entries[i].cursor, s.cursors[entries[i].event.file])
            /\ \A f \in SrcFile :
                 /\ Below(start.cursors[f], s.cursors[f])
                 /\ s.cursors[f] = start.cursors[f] \/ \E i \in 1..Len(entries) :
                      entries[i].event.file = f /\ entries[i].cursor = s.cursors[f]
<1> DEFINE N == Len(entries)
           add(d, n) == Raised(d, entries[n])
           g == [p \in (1..N) \X CatchState |-> add(p[2], p[1])]
           Obeys(h) == h = [n \in 0..N |-> IF n = 0 THEN start ELSE add(h[n - 1], n)]
<1>1. N \in Nat /\ \A n \in 1..N : entries[n] \in SrcEntry
  OBVIOUS
<1>3. \A n \in 1..N, d \in CatchState : g[<<n, d>>] = add(d, n)
  OBVIOUS
<1>4. \A n \in 1..N, d \in CatchState : add(d, n) \in CatchState
  BY <1>1, RaisedIs
<1> HIDE DEF g, add
<1>5. LoopStays(g, N, CatchState)
  BY <1>3, <1>4 DEF LoopStays
<1>6. PICK h \in [0..N -> CatchState] : LoopTells(h, start, N, g)
  <2> HIDE DEF N
  <2> QED
    BY <1>1, <1>5, LoopExists
<1>7. \A n \in 1..N : h[n] = add(h[n - 1], n)
  <2> SUFFICES ASSUME NEW n \in 1..N PROVE h[n] = add(h[n - 1], n)
    OBVIOUS
  <2>1. n - 1 \in 0..N
    BY <1>1
  <2>2. h[n - 1] \in CatchState
    BY <1>6, <2>1
  <2> QED
    BY <1>3, <1>6, <2>2 DEF LoopTells
<1>8. Obeys(h)
  <2>1. h[0] = start /\ h = [n \in 0..N |-> h[n]]
    BY <1>6 DEF LoopTells
  <2> DEFINE After(n) == IF n = 0 THEN start ELSE add(h[n - 1], n)
  <2>2. \A n \in 0..N : h[n] = After(n)
    <3>1. \A n \in 0..N : n = 0 \/ n \in 1..N
      BY <1>1
    <3>2. \A n \in 1..N : n # 0
      OBVIOUS
    <3> HIDE DEF N
    <3> QED
      BY <1>7, <2>1, <3>1, <3>2
  <2>3. Obeys(h) <=> h = [n \in 0..N |-> After(n)]
    OBVIOUS
  <2> HIDE DEF After, Obeys
  <2> QED
    BY <2>1, <2>2, <2>3
<1> DEFINE A == CHOOSE k : Obeys(k)
<1>9. CaughtUp(start, entries) = A[N]
  BY DEF CaughtUp, add
<1>10. Obeys(A)
  <2> HIDE DEF Obeys
  <2> QED
    BY <1>8
<1> HIDE DEF A
<1>11. A[0] = start /\ \A n \in 1..N : A[n] = add(A[n - 1], n)
  BY <1>1, <1>10
<1> DEFINE Caught(s, n) ==
             /\ s \in CatchState /\ s.next >= start.next
             /\ \A i \in 1..n : s.next > entries[i].seq
             /\ \A i \in 1..n : Below(entries[i].cursor, s.cursors[entries[i].event.file])
             /\ \A f \in SrcFile :
                  /\ Below(start.cursors[f], s.cursors[f])
                  /\ s.cursors[f] = start.cursors[f] \/ \E i \in 1..n :
                       entries[i].event.file = f /\ entries[i].cursor = s.cursors[f]
           T == {n \in 0..N : Caught(A[n], n)}
<1>12. 0 \in T
  <2>1. start.next \in Nat /\ \A f \in SrcFile : start.cursors[f] \in CursorOrNone
    BY DEF CatchState
  <2>2. Caught(start, 0)
    BY <2>1, BelowItself
  <2> QED
    BY <1>1, <1>11, <2>2
<1>13. ASSUME NEW n \in 1..N, n - 1 \in T PROVE n \in T
  <2> DEFINE s == A[n - 1]
             r == A[n]
             e == entries[n]
  <2>1. Caught(s, n - 1)
    BY <1>13
  <2>2. r = Raised(s, e) /\ e \in SrcEntry
    BY <1>1, <1>11 DEF add
  <2> HIDE DEF s, r
  <2>3. /\ r \in CatchState /\ r.next >= s.next /\ r.next > e.seq
        /\ r.cursors[e.event.file] = MergedCursor(s.cursors[e.event.file], e.cursor)
        /\ \A f \in SrcFile \ {e.event.file} : r.cursors[f] = s.cursors[f]
    BY <2>1, <2>2, RaisedIs
  <2>4. /\ \A f \in SrcFile : /\ s.cursors[f] \in CursorOrNone /\ r.cursors[f] \in CursorOrNone
                              /\ start.cursors[f] \in CursorOrNone
        /\ s.next \in Nat /\ r.next \in Nat /\ start.next \in Nat
    BY <2>1, <2>3 DEF CatchState
  <2>5. /\ \A i \in 1..N : /\ entries[i].cursor \in CursorOrNone /\ entries[i].seq \in Nat
                           /\ entries[i].event.file \in SrcFile
    BY <1>1 DEF SrcEntry, SrcEvent, CursorOrNone
  <2>6. \A f \in SrcFile : Below(s.cursors[f], r.cursors[f])
    BY <2>3, <2>4, <2>5, BelowItself, MergedIs
  <2>7. \A i \in 1..n : i \in 1..n - 1 \/ i = n
    OBVIOUS
  <2>8. r.next >= start.next /\ \A i \in 1..n : r.next > entries[i].seq
    <3>1. \A i \in 1..n - 1 : i \in 1..N
      BY <1>1
    <3> QED
      BY <2>1, <2>3, <2>4, <2>5, <2>7, <3>1
  <2>9. \A i \in 1..n : Below(entries[i].cursor, r.cursors[entries[i].event.file])
    <3> SUFFICES ASSUME NEW i \in 1..n
                 PROVE  Below(entries[i].cursor, r.cursors[entries[i].event.file])
      OBVIOUS
    <3>1. i \in 1..N
      BY <1>1
    <3>2. CASE i \in 1..n - 1
      BY <2>1, <2>4, <2>5, <2>6, <3>1, <3>2, BelowOrders
    <3>3. CASE i = n
      BY <2>3, <2>4, <2>5, <3>3, MergedIs
    <3> QED
      BY <2>7, <3>2, <3>3
  <2>10. ASSUME NEW f \in SrcFile
         PROVE  /\ Below(start.cursors[f], r.cursors[f])
                /\ r.cursors[f] = start.cursors[f] \/ \E i \in 1..n :
                     entries[i].event.file = f /\ entries[i].cursor = r.cursors[f]
    <3>1. Below(start.cursors[f], r.cursors[f])
      BY <2>1, <2>4, <2>6, BelowOrders
    <3>2. r.cursors[f] = s.cursors[f] \/ (e.event.file = f /\ r.cursors[f] = e.cursor)
      BY <2>3, <2>4, <2>5, MergedIs
    <3>3. n \in 1..n /\ \A i \in 1..n - 1 : i \in 1..n
      OBVIOUS
    <3> QED
      BY <2>1, <3>1, <3>2, <3>3
  <2>11. Caught(r, n)
    BY <2>3, <2>8, <2>9, <2>10
  <2> QED
    BY <2>11 DEF r
<1>14. N \in T
  <2> HIDE DEF T
  <2>1. 0..N \subseteq T
    BY <1>1, <1>12, <1>13, LoopReaches
  <2> QED
    BY <1>1, <2>1
<1> QED
  BY <1>9, <1>14

-----------------------------------------------------------------------------
(* Reading one file                                                         *)

UpTo(S, i) == {j \in S : j <= i}

\* Ascending lists the numbers of a set, each once.
LEMMA AscendingIs ==
  ASSUME NEW S \in SUBSET Nat, IsFiniteSet(S)
  PROVE  LET n == Cardinality(S)
             a == Ascending(S)
         IN /\ n \in Nat /\ a \in Seq(S) /\ Len(a) = n
            /\ \A x \in S : \E k \in 1..n : a[k] = x
            /\ \A k, l \in 1..n : a[k] = a[l] => k = l
<1> DEFINE n == Cardinality(S)
           place == [i \in S |-> Cardinality(UpTo(S, i))]
           a == Ascending(S)
<1>1. n \in Nat
  BY FS_CardinalityType
<1>2. \A i \in S : /\ IsFiniteSet(UpTo(S, i)) /\ place[i] \in 1..n
  <2> SUFFICES ASSUME NEW i \in S PROVE IsFiniteSet(UpTo(S, i)) /\ place[i] \in 1..n
    OBVIOUS
  <2>1. UpTo(S, i) \subseteq S /\ i \in UpTo(S, i)
    BY DEF UpTo
  <2>2. IsFiniteSet(UpTo(S, i)) /\ Cardinality(UpTo(S, i)) <= n
    BY <2>1, FS_Subset
  <2>3. Cardinality(UpTo(S, i)) \in Nat
    BY <2>2, FS_CardinalityType
  <2>4. Cardinality(UpTo(S, i)) # 0
    BY <2>1, <2>2, FS_EmptySet
  <2> QED
    BY <1>1, <2>2, <2>3, <2>4
<1>3. \A i, j \in S : i < j => place[i] < place[j]
  <2> SUFFICES ASSUME NEW i \in S, NEW j \in S, i < j PROVE place[i] < place[j]
    OBVIOUS
  <2>1. UpTo(S, i) \subseteq UpTo(S, j) /\ j \in UpTo(S, j) /\ j \notin UpTo(S, i)
    <3> HIDE DEF place
    <3>1. i \in Nat /\ j \in Nat /\ i < j
      OBVIOUS
    <3>2. ASSUME NEW x \in UpTo(S, i) PROVE x \in UpTo(S, j)
      <4>1. x \in S /\ x <= i /\ x \in Nat
        BY <3>2 DEF UpTo
      <4>2. x <= j
        BY <3>1, <4>1
      <4> QED
        BY <4>1, <4>2 DEF UpTo
    <3>3. j \in UpTo(S, j)
      BY <3>1 DEF UpTo
    <3>4. ~(j <= i)
      BY <3>1
    <3>5. j \notin UpTo(S, i)
      BY <3>4 DEF UpTo
    <3> QED
      BY <3>2, <3>3, <3>5
  <2>2. /\ Cardinality(UpTo(S, i)) <= Cardinality(UpTo(S, j))
        /\ Cardinality(UpTo(S, j)) = Cardinality(UpTo(S, i)) => UpTo(S, j) = UpTo(S, i)
    BY <1>2, <2>1, FS_Subset
  <2>3. place[i] \in Nat /\ place[j] \in Nat
    BY <1>1, <1>2
  <2> QED
    BY <2>1, <2>2, <2>3
<1>4. place \in Injection(S, 1..n)
  <2>1. place \in [S -> 1..n]
    BY <1>2
  <2>2. ASSUME NEW i \in S, NEW j \in S, place[i] = place[j] PROVE i = j
    <3>1. place[i] \in Nat /\ i \in Nat /\ j \in Nat
      BY <1>1, <1>2
    <3> HIDE DEF place
    <3> QED
      BY <1>3, <2>2, <3>1
  <2> HIDE DEF place
  <2> QED
    BY <2>1, <2>2 DEF Injection, IsInjective
<1>5. IsFiniteSet(1..n) /\ Cardinality(1..n) = n
  BY <1>1, FS_Interval
<1>6. place \in Surjection(S, 1..n)
  BY <1>4, <1>5, FS_Injection
<1>7. \A k \in 1..n : \E i \in S : place[i] = k
  BY <1>6 DEF Surjection
<1>8. \A k \in 1..n : a[k] \in S /\ place[a[k]] = k
  <2> SUFFICES ASSUME NEW k \in 1..n PROVE a[k] \in S /\ place[a[k]] = k
    OBVIOUS
  <2>1. a[k] = CHOOSE i \in S : Cardinality(UpTo(S, i)) = k
    BY DEF Ascending, UpTo
  <2>2. \E i \in S : Cardinality(UpTo(S, i)) = k
    BY <1>7
  <2> HIDE DEF a
  <2>3. a[k] \in S /\ Cardinality(UpTo(S, a[k])) = k
    BY <2>1, <2>2
  <2> QED
    BY <2>3
<1>9. a = [k \in 1..n |-> a[k]]
  <2> DEFINE at(k) == CHOOSE i \in S : Cardinality({j \in S : j <= i}) = k
  <2>1. a = [k \in 1..n |-> at(k)]
    BY DEF Ascending
  <2> HIDE DEF at, a
  <2> QED
    BY <2>1
<1> HIDE DEF a, place
<1>10. a \in Seq(S) /\ Len(a) = n
  BY <1>1, <1>8, <1>9
<1>11. \A x \in S : \E k \in 1..n : a[k] = x
  <2> SUFFICES ASSUME NEW x \in S PROVE \E k \in 1..n : a[k] = x
    OBVIOUS
  <2>1. place[x] \in 1..n /\ a[place[x]] \in S /\ place[a[place[x]]] = place[x]
    BY <1>2, <1>8
  <2>2. a[place[x]] = x
    BY <1>4, <2>1 DEF Injection, IsInjective
  <2> QED
    BY <2>1, <2>2
<1> QED
  BY <1>1, <1>8, <1>10, <1>11 DEF a

\* What is read of a file is all of it, or as many records as are taken from one.
LEMMA RecordsIs ==
  ASSUME content \in [SrcFile -> FileContent], NEW f \in SrcFile
  PROVE  /\ content[f].records \in FileRecords /\ Len(content[f].records) \in Nat
         /\ content[f].partial \in BOOLEAN
         /\ Records(f) \in FileRecords
         /\ Len(Records(f)) = IF OverCap(f) THEN RecordCap ELSE Len(content[f].records)
         /\ Len(Records(f)) \in Nat /\ Len(Records(f)) <= Len(content[f].records)
         /\ \A i \in 1..Len(content[f].records) : TextAt(f, i) \in EventText
<1> DEFINE all == content[f].records
           n == Min({Len(all), RecordCap})
<1>1. all \in FileRecords /\ Len(all) \in Nat /\ content[f].partial \in BOOLEAN
  BY DEF FileContent, FileRecords
<1>2. RecordCap \in Nat \ {0}
  BY FilesAssumption
<1>3. n = IF Len(all) <= RecordCap THEN Len(all) ELSE RecordCap
  BY <1>1, <1>2, LesserOfTwo
<1>4. \A i \in 1..Len(all) : TextAt(f, i) \in EventText
  BY <1>1 DEF TextAt, EventText, FileRecords
<1>5. CASE SourceKind(f) = "json"
  <2>1. n \in Nat /\ n <= Len(all)
    BY <1>1, <1>2, <1>3
  <2>2. \A i \in 1..n : all[i] \in Said \cup {NoText}
    BY <1>1, <2>1 DEF FileRecords
  <2> HIDE DEF all, n
  <2>3. SubSeq(all, 1, n) \in FileRecords /\ Len(SubSeq(all, 1, n)) = n
    BY <2>1, <2>2, SubSeqProperties DEF FileRecords
  <2>4. Records(f) = SubSeq(all, 1, n)
    BY <1>5 DEF Records, all, n
  <2>5. OverCap(f) <=> Len(all) > RecordCap
    BY <1>5 DEF OverCap, all
  <2>6. n = IF OverCap(f) THEN RecordCap ELSE Len(all)
    BY <1>1, <1>2, <1>3, <2>5
  <2> QED
    BY <1>1, <1>4, <2>1, <2>3, <2>4, <2>6 DEF all
<1>6. CASE SourceKind(f) # "json"
  BY <1>1, <1>4, <1>6 DEF Records, OverCap
<1> QED
  BY <1>5, <1>6

\* The records that say something are finitely many, and one record adds at most one.
LEMMA TellingIs ==
  ASSUME NEW f, NEW from \in Nat, NEW to \in Nat
  PROVE  /\ IsFiniteSet(Telling(f, from, to)) /\ Telling(f, from, to) \in SUBSET Nat
         /\ Cardinality(Telling(f, from, to)) \in Nat
         /\ to <= from => Cardinality(Telling(f, from, to)) = 0
         /\ to > from => Cardinality(Telling(f, from, to)) <= Cardinality(Telling(f, from, to - 1)) + 1
<1> DEFINE T == Telling(f, from, to)
           U == Telling(f, from, to - 1)
<1>1. IsFiniteSet(from + 1 .. to)
  BY FS_Interval
<1>2. T \subseteq from + 1 .. to
  BY DEF Telling
<1>3. IsFiniteSet(T) /\ Cardinality(T) \in Nat /\ T \in SUBSET Nat
  BY <1>1, <1>2, FS_Subset, FS_CardinalityType
<1>4. to <= from => Cardinality(T) = 0
  <2>1. to <= from => T = {}
    BY <1>2
  <2> QED
    BY <2>1, FS_EmptySet
<1>5. ASSUME to > from PROVE Cardinality(T) <= Cardinality(U) + 1
  <2>1. T \subseteq U \cup {to} /\ U \subseteq T
    BY <1>5 DEF Telling
  <2>2. IsFiniteSet(U)
    BY <1>3, <2>1, FS_Subset
  <2>3. /\ IsFiniteSet(U \cup {to})
        /\ Cardinality(U \cup {to}) = IF to \in U THEN Cardinality(U) ELSE Cardinality(U) + 1
    BY <2>2, FS_AddElement
  <2>4. Cardinality(T) <= Cardinality(U \cup {to}) /\ Cardinality(U) \in Nat
    BY <2>1, <2>2, <2>3, FS_Subset, FS_CardinalityType
  <2> QED
    BY <1>3, <2>3, <2>4
<1> QED
  BY <1>3, <1>4, <1>5

\* Reading stops at the end, or when it has found what there is room for.
LEMMA StopIs ==
  ASSUME content \in [SrcFile -> FileContent], NEW f \in SrcFile,
         NEW from \in 0..Len(Records(f)), NEW room \in Nat \ {0}
  PROVE  LET to == StopOf(f, from, room)
         IN /\ to \in from..Len(Records(f))
            /\ Cardinality(Telling(f, from, to)) <= room
            /\ Cardinality(Telling(f, from, to)) < room => to = Len(Records(f))
<1> DEFINE n == Len(Records(f))
           found(i) == Cardinality(Telling(f, from, i))
           over == {i \in from + 1 .. n : found(i - 1) >= room}
           to == StopOf(f, from, room)
<1>1. n \in Nat /\ from \in Nat
  BY RecordsIs
<1>2. /\ \A i \in Nat : found(i) \in Nat /\ (i <= from => found(i) = 0)
      /\ \A i \in Nat : i > from => found(i) <= found(i - 1) + 1
  BY <1>1, TellingIs
<1>3. to = IF over = {} THEN n ELSE Min(over) - 1
  BY DEF StopOf
<1>6. \A i \in from + 1 .. n : i \notin over => found(i - 1) < room
  <2> SUFFICES ASSUME NEW i \in from + 1 .. n, ~(found(i - 1) >= room) PROVE found(i - 1) < room
    OBVIOUS
  <2>1. i - 1 \in Nat
    BY <1>1
  <2>2. found(i - 1) \in Nat
    BY <1>2, <2>1
  <2> HIDE DEF found
  <2> QED
    BY <2>2
<1> HIDE DEF found, to, n
<1>4. CASE over = {}
  <2>1. to = n
    BY <1>3, <1>4
  <2>2. found(n) <= room
    <3>1. CASE n <= from
      BY <1>1, <1>2, <3>1
    <3>2. CASE n > from
      <4>1. n \in from + 1 .. n /\ n - 1 \in Nat
        BY <1>1, <3>2
      <4>2. n \notin over
        BY <1>4
      <4>3. found(n - 1) < room
        BY <1>6, <4>1, <4>2
      <4>4. found(n) \in Nat /\ found(n - 1) \in Nat /\ found(n) <= found(n - 1) + 1
        BY <1>1, <1>2, <3>2, <4>1
      <4> QED
        BY <4>3, <4>4
    <3> QED
      BY <1>1, <3>1, <3>2
  <2> QED
    BY <1>1, <2>1, <2>2 DEF n, found, to
<1>5. CASE over # {}
  <2> DEFINE m == Min(over)
  <2>1. m \in over /\ \A i \in over : m <= i
    <3>1. over \in SUBSET Nat
      BY <1>1
    <3> HIDE DEF over
    <3> QED
      BY <1>5, <3>1, LeastIsThere
  <2>2. to = m - 1
    BY <1>3, <1>5
  <2> HIDE DEF m
  <2>3. m \in from + 1 .. n /\ m - 1 \in Nat /\ found(m - 1) >= room
    BY <1>1, <2>1
  <2>4. m - 1 > from
    BY <1>1, <1>2, <2>3
  <2>5. m - 1 \in from + 1 .. n /\ m - 1 \notin over
    BY <1>1, <2>1, <2>3, <2>4
  <2>6. found(m - 2) < room
    <3>1. m - 2 = (m - 1) - 1
      BY <1>1, <2>3, <2>4
    <3>2. found((m - 1) - 1) < room
      BY <1>6, <2>5
    <3> QED
      BY <3>1, <3>2
  <2>7. found(m - 1) <= found(m - 2) + 1
    <3>1. m - 2 = (m - 1) - 1
      BY <1>1, <2>3
    <3> QED
      BY <1>2, <2>3, <2>4, <3>1
  <2>8. m - 2 \in Nat
    BY <1>1, <2>3, <2>4
  <2>9. found(m - 1) \in Nat /\ found(m - 2) \in Nat
    BY <1>2, <2>3, <2>8
  <2>10. found(m - 1) <= room /\ ~(found(m - 1) < room)
    BY <2>3, <2>6, <2>7, <2>9
  <2>11. m - 1 \in from..n
    BY <1>1, <2>3
  <2> QED
    BY <2>2, <2>10, <2>11 DEF n, found, to
<1> QED
  BY <1>4, <1>5

\* Reading goes on from the cursor or from the first record.
LEMMA StartIs ==
  ASSUME content \in [SrcFile -> FileContent], NEW f \in SrcFile, NEW c \in CursorOrNone
  PROVE  /\ StartOf(f, c) \in 0..Len(Records(f))
         /\ StartOf(f, c) = 0 \/ (c # NoSrcCursor /\ StartOf(f, c) = c.cursor)
<1>1. Len(Records(f)) \in Nat
  BY RecordsIs
<1>2. c # NoSrcCursor => c.cursor \in Nat
  BY CursorsTyped DEF CursorOrNone
<1> QED
  BY <1>1, <1>2 DEF StartOf

\* What reading a file gives: the records that say something, in their order.
LEMMA TailFileIs ==
  ASSUME content \in [SrcFile -> FileContent], NEW f \in SrcFile,
         NEW c \in CursorOrNone, NEW room \in Nat \ {0}, NEW at \in Nat
  PROVE  LET r == TailFile(f, c, room, at)
             from == StartOf(f, c)
             to == r.cursor.cursor
         IN /\ r.events \in Seq(SrcEvent) /\ Len(r.events) <= room
            /\ r.cursor \in SourceCursor /\ r.cursor.at = at
            /\ to <= Len(content[f].records)
            /\ \A k \in 1..Len(r.events) :
                 LET e == r.events[k]
                 IN e.line \in from + 1 .. to /\ e = SourceEvent(f, e.line, TextAt(f, e.line))
            /\ \A k, l \in 1..Len(r.events) : r.events[k] = r.events[l] => k = l
            /\ SourceKind(f) \in {"json", "jsonl"} => r.cursor.digest = content[f]
            /\ Unreadable(f) => /\ r.events = <<>> /\ (SourceKind(f) = "json" => to = 0)
            /\ ~Unreadable(f) =>
                 /\ to <= Len(Records(f))
                 /\ \A i \in from + 1 .. to : TextAt(f, i) # NoText =>
                      \E k \in 1..Len(r.events) : r.events[k] = SourceEvent(f, i, TextAt(f, i))
                 /\ Len(r.events) < room => to = Len(Records(f))
<1> DEFINE r == TailFile(f, c, room, at)
           from == StartOf(f, c)
           stop == StopOf(f, from, room)
           told == Telling(f, from, stop)
           lines == Ascending(told)
           n == Cardinality(told)
           event(k) == SourceEvent(f, lines[k], TextAt(f, lines[k]))
           digest == IF SourceKind(f) \in {"json", "jsonl"} THEN content[f] ELSE NoDigest
           all == Len(content[f].records)
           reach == Len(Records(f))
<1>1. all \in Nat /\ reach \in Nat /\ reach <= all /\ \A i \in 1..all : TextAt(f, i) \in EventText
  BY RecordsIs
<1>2. from \in 0..reach
  BY StartIs
<1>3. digest \in {NoDigest} \cup FileContent \cup FileRecords
  OBVIOUS
<1>4. CASE Unreadable(f)
  <2> DEFINE m == IF SourceKind(f) = "jsonl" THEN reach ELSE 0
  <2>1. r = [events |-> <<>>, cursor |-> CursorAt(m, digest, at)]
    BY <1>4 DEF TailFile
  <2>2. m \in Nat /\ m <= all /\ (SourceKind(f) = "json" => m = 0)
    BY <1>1
  <2> HIDE DEF r, digest, m, all
  <2>3. /\ r.events = <<>> /\ r.cursor = [cursor |-> m, digest |-> digest, at |-> at]
        /\ <<>> \in Seq(SrcEvent) /\ Len(<<>>) = 0
    BY <2>1 DEF CursorAt
  <2>4. r.cursor \in SourceCursor
    BY <1>3, <2>2, <2>3 DEF SourceCursor
  <2>5. SourceKind(f) \in {"json", "jsonl"} => digest = content[f]
    BY DEF digest
  <2> QED
    BY <1>4, <2>2, <2>3, <2>4, <2>5 DEF r, all
<1>5. CASE ~Unreadable(f)
  <2>1. stop \in from..reach /\ n <= room /\ (n < room => stop = reach)
    BY <1>2, StopIs
  <2>2. stop \in Nat /\ from \in Nat /\ stop <= all
    BY <1>1, <1>2, <2>1
  <2>3. IsFiniteSet(told) /\ told \in SUBSET Nat
    <3> HIDE DEF from, stop
    <3> QED
      BY <2>2, TellingIs
  <2>4. /\ n \in Nat /\ lines \in Seq(told) /\ Len(lines) = n
        /\ \A x \in told : \E k \in 1..n : lines[k] = x
        /\ \A k, l \in 1..n : lines[k] = lines[l] => k = l
    <3> HIDE DEF told
    <3> QED
      BY <2>3, AscendingIs
  <2>5. DOMAIN lines = 1..n /\ \A k \in 1..n : lines[k] \in told
    <3> HIDE DEF told, lines, n
    <3> QED
      BY <2>4
  <2>6. told = {i \in from + 1 .. stop : TextAt(f, i) # NoText}
    BY DEF Telling
  <2>7. r.events = [k \in DOMAIN lines |-> event(k)]
        /\ r.cursor = CursorAt(stop, digest, at)
    BY <1>5 DEF TailFile
  <2> HIDE DEF r, from, stop, told, lines, n, all, reach, digest
  <2>8. r.events = [k \in 1..n |-> event(k)]
    BY <2>5, <2>7
  <2>9. \A k \in 1..n : event(k) = [file |-> f, line |-> lines[k], text |-> TextAt(f, lines[k])]
    BY DEF SourceEvent
  <2>10. \A k \in 1..n : /\ lines[k] \in from + 1 .. stop /\ lines[k] \in 1..all
                         /\ event(k).line = lines[k]
    <3>1. \A i \in from + 1 .. stop : i \in 1..all
      BY <1>1, <2>2
    <3>2. \A k \in 1..n : lines[k] \in from + 1 .. stop
      BY <2>5, <2>6
    <3>3. \A k \in 1..n : event(k).line = lines[k]
      BY DEF SourceEvent
    <3> HIDE DEF event
    <3> QED
      BY <3>1, <3>2, <3>3
  <2>11. \A k \in 1..n : event(k) \in SrcEvent
    <3> SUFFICES ASSUME NEW k \in 1..n PROVE event(k) \in SrcEvent
      OBVIOUS
    <3> DEFINE text == TextAt(f, lines[k])
    <3>1. lines[k] \in 1..all
      BY <2>10
    <3>2. lines[k] \in Nat /\ text \in EventText
      BY <1>1, <3>1
    <3>3. event(k) = [file |-> f, line |-> lines[k], text |-> text]
      BY <2>9
    <3> HIDE DEF event, text
    <3> QED
      BY <3>2, <3>3 DEF SrcEvent
  <2>12. \A k, l \in 1..n : event(k) = event(l) => k = l
    BY <2>4, <2>10
  <2>13. \A i \in from + 1 .. stop : TextAt(f, i) # NoText =>
           \E k \in 1..n : event(k) = SourceEvent(f, i, TextAt(f, i))
    BY <2>4, <2>6
  <2>14. \A k \in 1..n : event(k) = SourceEvent(f, event(k).line, TextAt(f, event(k).line))
    BY <2>10
  <2> HIDE DEF event
  <2>15. /\ r.events \in Seq(SrcEvent) /\ Len(r.events) = n
         /\ \A k \in 1..n : r.events[k] = event(k)
    BY <2>4, <2>8, <2>11
  <2>16. r.cursor = [cursor |-> stop, digest |-> digest, at |-> at]
    BY <2>7 DEF CursorAt
  <2>17. r.cursor \in SourceCursor /\ r.cursor.cursor = stop /\ r.cursor.at = at
         /\ r.cursor.digest = digest
    BY <1>3, <2>2, <2>16 DEF SourceCursor, digest
  <2>18. SourceKind(f) \in {"json", "jsonl"} => digest = content[f]
    BY DEF digest
  <2> DEFINE evs == r.events
             cur == r.cursor
  <2>19. /\ evs \in Seq(SrcEvent) /\ Len(evs) <= room
         /\ cur \in SourceCursor /\ cur.at = at /\ cur.cursor <= all
         /\ \A k \in 1..Len(evs) : /\ evs[k].line \in from + 1 .. cur.cursor
                                   /\ evs[k] = SourceEvent(f, evs[k].line, TextAt(f, evs[k].line))
         /\ \A k, l \in 1..Len(evs) : evs[k] = evs[l] => k = l
         /\ SourceKind(f) \in {"json", "jsonl"} => cur.digest = content[f]
         /\ cur.cursor <= reach
         /\ \A i \in from + 1 .. cur.cursor : TextAt(f, i) # NoText =>
              \E k \in 1..Len(evs) : evs[k] = SourceEvent(f, i, TextAt(f, i))
         /\ Len(evs) < room => cur.cursor = reach
    <3>1. stop <= reach /\ (n < room => stop = reach) /\ n <= room
      BY <1>1, <2>1, <2>2
    <3>2. \A k \in 1..n : event(k).line \in from + 1 .. stop
      BY <2>10
    <3> HIDE DEF evs, cur
    <3> QED
      BY <2>2, <2>12, <2>13, <2>14, <2>15, <2>17, <2>18, <3>1, <3>2 DEF evs, cur
  <2> QED
    BY <1>5, <2>19 DEF r, from, all, reach
<1> QED
  BY <1>4, <1>5

\* What any adapter returns: events of the file, each once, and a cursor for them.
LEMMA PlanFileIs ==
  ASSUME content \in [SrcFile -> FileContent], NEW f \in SrcFile, SourceKind(f) = "plan",
         NEW c \in CursorOrNone, NEW at \in Nat
  PROVE  LET r == SnapshotPlan(f, c, at)
             all == content[f].records
         IN /\ r.events \in Seq(SrcEvent) /\ r.cursor \in CursorOrNone
            /\ all = <<>> => r.events = <<>> /\ r.cursor = c
            /\ all # <<>> => /\ r.cursor = CursorAt(0, all, at) /\ r.cursor \in SourceCursor
                             /\ r.events = <<SourceEvent(f, 1, all)>> \/
                                (r.events = <<>> /\ c # NoSrcCursor /\ c.digest = all)
            /\ c # NoSrcCursor /\ c.digest = all => r.events = <<>>
<1> DEFINE r == SnapshotPlan(f, c, at)
           all == content[f].records
           e == SourceEvent(f, 1, all)
           k == CursorAt(0, all, at)
<1>1. all \in FileRecords
  BY RecordsIs
<1>2. e \in SrcEvent /\ k \in SourceCursor
  BY <1>1 DEF SourceEvent, CursorAt, SrcEvent, SourceCursor, EventText
<1>3. r.events = (IF all = <<>> \/ (c # NoSrcCursor /\ c.digest = all) THEN <<>> ELSE <<e>>)
      /\ r.cursor = (IF all = <<>> THEN c ELSE k)
  BY DEF SnapshotPlan
<1> HIDE DEF r, e, k, all
<1>4. <<>> \in Seq(SrcEvent) /\ <<e>> \in Seq(SrcEvent)
  BY <1>2
<1> QED
  BY <1>2, <1>3, <1>4 DEF r, e, k, all, CursorOrNone

\* And so of any file.
LEMMA FileReadIs ==
  ASSUME content \in [SrcFile -> FileContent], NEW f \in SrcFile, srcNow \in Nat,
         NEW c \in CursorOrNone, NEW room \in Nat \ {0}
  PROVE  LET r == FileRead(f, c, room)
         IN /\ r.events \in Seq(SrcEvent) /\ r.cursor \in CursorOrNone
            /\ \A k \in 1..Len(r.events) : r.events[k].file = f /\ r.cursor \in SourceCursor
            /\ \A k, l \in 1..Len(r.events) : r.events[k] = r.events[l] => k = l
            /\ SourceKind(f) # "plan" => Len(r.events) <= room
<1> DEFINE r == FileRead(f, c, room)
<1>1. CASE SourceKind(f) = "plan"
  <2>1. r = SnapshotPlan(f, c, srcNow)
    BY <1>1 DEF FileRead
  <2>2. \/ r.events = <<>>
        \/ r.cursor \in SourceCursor /\ r.events = <<SourceEvent(f, 1, content[f].records)>>
    BY <1>1, <2>1, PlanFileIs
  <2>3. r.events \in Seq(SrcEvent) /\ r.cursor \in CursorOrNone
    BY <1>1, <2>1, PlanFileIs
  <2> HIDE DEF r
  <2>4. CASE r.events = <<>>
    BY <1>1, <2>3, <2>4 DEF r
  <2>5. CASE r.cursor \in SourceCursor /\ r.events = <<SourceEvent(f, 1, content[f].records)>>
    <3>1. Len(r.events) = 1 /\ r.events[1].file = f
      BY <2>5 DEF SourceEvent
    <3>2. \A k \in 1..Len(r.events) : k = 1
      BY <3>1
    <3> QED
      BY <1>1, <2>3, <2>5, <3>1, <3>2 DEF r
  <2> QED
    BY <2>2, <2>4, <2>5
<1>2. CASE SourceKind(f) # "plan"
  <2>1. r = TailFile(f, c, room, srcNow)
    BY <1>2 DEF FileRead
  <2>2. /\ r.events \in Seq(SrcEvent) /\ Len(r.events) <= room /\ r.cursor \in SourceCursor
        /\ \A k \in 1..Len(r.events) :
             r.events[k] = SourceEvent(f, r.events[k].line, TextAt(f, r.events[k].line))
        /\ \A k, l \in 1..Len(r.events) : r.events[k] = r.events[l] => k = l
    BY <2>1, TailFileIs
  <2> HIDE DEF r
  <2>3. \A k \in 1..Len(r.events) : r.events[k].file = f
    <3>1. \A line, text : SourceEvent(f, line, text).file = f
      BY DEF SourceEvent
    <3> DEFINE line(k) == r.events[k].line
               text(k) == TextAt(f, line(k))
    <3>2. \A k \in 1..Len(r.events) : r.events[k] = SourceEvent(f, line(k), text(k))
      BY <2>2
    <3> HIDE DEF line, text
    <3> QED
      BY <3>1, <3>2
  <2> QED
    BY <2>2, <2>3 DEF r, CursorOrNone
<1> QED
  BY <1>1, <1>2

-----------------------------------------------------------------------------
(* What a cycle collects                                                    *)

CollectState ==
  [events : Seq(SrcEvent), updates : [SrcFile -> CursorOrNone],
   read : SUBSET SrcFile, dropped : SUBSET SrcFile]

\* The file f was read from its cursor, when there was that much room.
ReadSo(cursors, c, f, room) ==
  LET r == FileRead(f, cursors[f], room)
  IN /\ c.updates[f] = r.cursor
     /\ \A k \in 1..Len(c.events) : c.events[k].file = f =>
          \E l \in 1..Len(r.events) : c.events[k] = r.events[l]
     /\ f \notin c.dropped =>
          \A l \in 1..Len(r.events) : \E k \in 1..Len(c.events) : c.events[k] = r.events[l]
     /\ Len(c.events) < CycleLimit /\ SourceKind(f) # "plan" => Len(r.events) < room

\* What the first n files have given.
Gathered(cursors, c, n) ==
  /\ Len(c.events) <= CycleLimit
  /\ Len(c.events) < CycleLimit => c.dropped = {}
  /\ \A f \in c.read : OpenFile(f) /\ \E j \in 1..n : f = Files[j]
  /\ \A f \in SrcFile \ c.read : c.updates[f] = cursors[f]
  /\ \A k \in 1..Len(c.events) :
       c.events[k].file \in c.read /\ c.updates[c.events[k].file] \in SourceCursor
  /\ \A k, l \in 1..Len(c.events) : c.events[k] = c.events[l] => k = l
  /\ \A f \in c.read : \E room \in 1..CycleLimit : ReadSo(cursors, c, f, room)
  /\ \A j \in 1..n : OpenFile(Files[j]) /\ Len(c.events) < CycleLimit => Files[j] \in c.read

\* The limits are numbers.
LEMMA LimitIs == CycleLimit \in Nat \ {0} /\ RecordCap \in Nat \ {0}
  BY FilesAssumption

\* A list that is cut to a limit after it grew.
LEMMA CutIs ==
  ASSUME NEW S, NEW e \in Seq(S), NEW v \in Seq(S), NEW lim \in Nat, Len(e) <= lim
  PROVE  LET m == Min({lim, Len(e) + Len(v)})
             w == SubSeq(e \o v, 1, m)
         IN /\ w \in Seq(S) /\ Len(w) = m
            /\ m = (IF Len(e) + Len(v) <= lim THEN Len(e) + Len(v) ELSE lim)
            /\ \A k \in 1..Len(e) : k \in 1..m /\ w[k] = e[k]
            /\ \A k \in 1..m : k \notin 1..Len(e) =>
                 k - Len(e) \in 1..Len(v) /\ w[k] = v[k - Len(e)]
            /\ Len(e) + Len(v) <= lim =>
                 \A l \in 1..Len(v) : Len(e) + l \in 1..m /\ w[Len(e) + l] = v[l]
<1> DEFINE m == Min({lim, Len(e) + Len(v)})
           j == e \o v
           w == SubSeq(j, 1, m)
<1>1. Len(e) \in Nat /\ Len(v) \in Nat
  OBVIOUS
<1>2. m = IF lim <= Len(e) + Len(v) THEN lim ELSE Len(e) + Len(v)
  BY <1>1, LesserOfTwo
<1>3. /\ j \in Seq(S) /\ Len(j) = Len(e) + Len(v)
      /\ \A k \in 1..Len(e) : j[k] = e[k]
      /\ \A k \in 1..Len(j) : k \notin 1..Len(e) => j[k] = v[k - Len(e)]
      /\ \A l \in 1..Len(v) : j[Len(e) + l] = v[l]
  OBVIOUS
<1> HIDE DEF m, j
<1>4. m \in Nat /\ m <= Len(j) /\ m >= Len(e) /\ m <= lim
      /\ m = (IF Len(e) + Len(v) <= lim THEN Len(e) + Len(v) ELSE lim)
  BY <1>1, <1>2, <1>3
<1>5. w \in Seq(S) /\ Len(w) = m /\ \A k \in 1..m : w[k] = j[k]
  BY <1>3, <1>4
<1> HIDE DEF w
<1>6. \A k \in 1..Len(e) : k \in 1..m /\ w[k] = e[k]
  BY <1>1, <1>3, <1>4, <1>5
<1>7. \A k \in 1..m : k \notin 1..Len(e) => k - Len(e) \in 1..Len(v) /\ w[k] = v[k - Len(e)]
  <2>1. \A k \in 1..m : k \in 1..Len(j) /\ (k \notin 1..Len(e) => k - Len(e) \in 1..Len(v))
    BY <1>1, <1>3, <1>4
  <2> QED
    BY <1>3, <1>5, <2>1
<1>8. ASSUME Len(e) + Len(v) <= lim
      PROVE  \A l \in 1..Len(v) : Len(e) + l \in 1..m /\ w[Len(e) + l] = v[l]
  <2>1. \A l \in 1..Len(v) : Len(e) + l \in 1..m
    BY <1>1, <1>4, <1>8
  <2> QED
    BY <1>3, <1>5, <2>1
<1> QED
  BY <1>4, <1>5, <1>6, <1>7, <1>8 DEF w, j, m

\* So many numbers.
LEMMA SpanIs == ASSUME NEW n \in Nat PROVE IsFiniteSet(1..n) /\ Cardinality(1..n) = n
  BY FS_Interval

\* A file whose turn it is not changes nothing.
LEMMA FilePassed ==
  ASSUME NEW cursors \in [SrcFile -> CursorOrNone], NEW c \in CollectState, NEW n \in 1..Len(Files),
         Gathered(cursors, c, n - 1), ~Reached(c, Files[n])
  PROVE  Gathered(cursors, c, n)
<1>1. n \in Nat /\ Len(c.events) \in Nat /\ Files[n] \in SrcFile
  BY FilesAssumption DEF CollectState
<1>2. \A j \in 1..n - 1 : j \in 1..n
  BY <1>1
<1>3. OpenFile(Files[n]) => ~(Len(c.events) < CycleLimit)
  <2> SUFFICES ASSUME OpenFile(Files[n]), Len(c.events) < CycleLimit PROVE FALSE
    OBVIOUS
  <2>1. RoomAfter(c) > 0
    BY <1>1, LimitIs DEF RoomAfter
  <2>2. PlanEntered(c.events)
    <3> DEFINE P == {i \in DOMAIN c.events : SourceKind(c.events[i].file) # "plan"}
    <3>1. DOMAIN c.events = 1..Len(c.events)
      BY DEF CollectState
    <3>2. /\ IsFiniteSet(1..Len(c.events)) /\ Cardinality(1..Len(c.events)) = Len(c.events)
      BY <1>1, SpanIs
    <3>3. P \subseteq 1..Len(c.events)
      BY <3>1
    <3> HIDE DEF P
    <3>4. Cardinality(P) <= Len(c.events) /\ Cardinality(P) \in Nat
      BY <3>2, <3>3, FS_Subset, FS_CardinalityType
    <3> QED
      BY <1>1, <3>4, LimitIs DEF PlanEntered, P
  <2> QED
    BY <2>1, <2>2 DEF Reached
<1>4. \A j \in 1..n : j \in 1..n - 1 \/ j = n
  BY <1>1
<1> QED
  BY <1>2, <1>3, <1>4 DEF Gathered

\* A file whose turn it is gives what was read of it, as far as there is room.
LEMMA FileCollected ==
  ASSUME content \in [SrcFile -> FileContent], srcNow \in Nat,
         NEW cursors \in [SrcFile -> CursorOrNone], NEW c \in CollectState, NEW n \in 1..Len(Files),
         Gathered(cursors, c, n - 1),
         NEW f \in SrcFile, f = Files[n], Reached(c, f),
         NEW cur \in CursorOrNone, cur = cursors[f],
         NEW room, room = RoomAfter(c), NEW R, R = FileRead(f, cur, room),
         NEW d, d = WithFile(c, f, cur)
  PROVE  d \in CollectState /\ Gathered(cursors, d, n)
<1> DEFINE E == c.events
           V == R.events
           m == Min({CycleLimit, Len(E) + Len(V)})
           W == d.events
<1>1. /\ n \in Nat /\ f \in SrcFile /\ E \in Seq(SrcEvent) /\ Len(E) \in Nat
      /\ CycleLimit \in Nat \ {0} /\ room = CycleLimit - Len(E) /\ Len(E) <= CycleLimit
  BY FilesAssumption, LimitIs DEF CollectState, RoomAfter, Gathered
<1>2. f \notin c.read
  <2>1. \A j \in 1..n - 1 : f # Files[j]
    <3>1. \A j \in 1..n - 1 : j \in 1..Len(Files) /\ j # n
      BY <1>1
    <3>2. DOMAIN Files = 1..Len(Files)
      BY FilesAssumption
    <3> QED
      BY <3>1, <3>2, FilesAssumption DEF IsInjective
  <2> QED
    BY <2>1 DEF Gathered
<1>3. PICK rm \in 1..CycleLimit : /\ R = FileRead(f, cur, rm)
                                  /\ SourceKind(f) # "plan" => rm = room
  <2>1. CASE SourceKind(f) = "plan"
    <3>1. R = FileRead(f, cur, 1)
      BY <2>1 DEF FileRead
    <3> QED
      BY <1>1, <2>1, <3>1
  <2>2. CASE SourceKind(f) # "plan"
    <3>1. room > 0
      BY <2>2 DEF Reached
    <3> QED
      BY <1>1, <2>2, <3>1
  <2> QED
    BY <2>1, <2>2
<1>4. rm \in Nat \ {0} /\ rm <= CycleLimit
  BY <1>1
<1>6. /\ V \in Seq(SrcEvent) /\ R.cursor \in CursorOrNone
      /\ \A k \in 1..Len(V) : V[k].file = f /\ R.cursor \in SourceCursor
      /\ \A k, l \in 1..Len(V) : V[k] = V[l] => k = l
      /\ SourceKind(f) # "plan" => Len(V) <= room
  <2> DEFINE A == FileRead(f, cur, rm)
  <2>1. /\ A.events \in Seq(SrcEvent) /\ A.cursor \in CursorOrNone
        /\ \A k \in 1..Len(A.events) : A.events[k].file = f /\ A.cursor \in SourceCursor
        /\ \A k, l \in 1..Len(A.events) : A.events[k] = A.events[l] => k = l
        /\ SourceKind(f) # "plan" => Len(A.events) <= rm
    BY <1>4, FileReadIs
  <2>2. A = R
    BY <1>3
  <2> HIDE DEF A
  <2>3. SourceKind(f) # "plan" => rm = room
    BY <1>3
  <2> QED
    BY <2>1, <2>2, <2>3
<1>7. /\ W = SubSeq(E \o V, 1, m)
      /\ d.updates = [c.updates EXCEPT ![f] = R.cursor]
      /\ d.read = c.read \cup {f}
      /\ d.dropped = c.dropped \cup (IF Len(V) > room THEN {f} ELSE {})
      /\ d = [events |-> W, updates |-> d.updates, read |-> d.read, dropped |-> d.dropped]
  BY DEF WithFile
<1>8. /\ W \in Seq(SrcEvent) /\ Len(W) = m
      /\ m = (IF Len(E) + Len(V) <= CycleLimit THEN Len(E) + Len(V) ELSE CycleLimit)
      /\ \A k \in 1..Len(E) : k \in 1..m /\ W[k] = E[k]
      /\ \A k \in 1..m : k \notin 1..Len(E) => k - Len(E) \in 1..Len(V) /\ W[k] = V[k - Len(E)]
      /\ Len(E) + Len(V) <= CycleLimit =>
           \A l \in 1..Len(V) : Len(E) + l \in 1..m /\ W[Len(E) + l] = V[l]
  <2> HIDE DEF E, V, W
  <2>1. E \in Seq(SrcEvent) /\ V \in Seq(SrcEvent) /\ CycleLimit \in Nat /\ Len(E) <= CycleLimit
    BY <1>1, <1>6
  <2> DEFINE A == SubSeq(E \o V, 1, m)
             lim == CycleLimit
  <2>2. W = A
    BY <1>7
  <2>3. /\ A \in Seq(SrcEvent) /\ Len(A) = m
        /\ m = (IF Len(E) + Len(V) <= lim THEN Len(E) + Len(V) ELSE lim)
        /\ \A k \in 1..Len(E) : k \in 1..m /\ A[k] = E[k]
        /\ \A k \in 1..m : k \notin 1..Len(E) => k - Len(E) \in 1..Len(V) /\ A[k] = V[k - Len(E)]
        /\ Len(E) + Len(V) <= lim =>
             \A l \in 1..Len(V) : Len(E) + l \in 1..m /\ A[Len(E) + l] = V[l]
    <3> HIDE DEF lim
    <3>1. lim \in Nat /\ Len(E) <= lim
      BY <2>1 DEF lim
    <3> QED
      BY <2>1, <3>1, CutIs DEF lim
  <2> HIDE DEF A, m
  <2> QED
    BY <2>2, <2>3
<1> HIDE DEF E, V, m, W
<1>9. c.updates \in [SrcFile -> CursorOrNone] /\ c.read \in SUBSET SrcFile
      /\ c.dropped \in SUBSET SrcFile
  BY DEF CollectState
<1>10. d \in CollectState
  <2>1. d.updates \in [SrcFile -> CursorOrNone] /\ d.read \in SUBSET SrcFile
        /\ d.dropped \in SUBSET SrcFile
    BY <1>1, <1>6, <1>7, <1>9
  <2> DEFINE us == d.updates
             rs == d.read
             ds == d.dropped
  <2>2. d = [events |-> W, updates |-> us, read |-> rs, dropped |-> ds]
    BY <1>7
  <2>3. W \in Seq(SrcEvent) /\ us \in [SrcFile -> CursorOrNone] /\ rs \in SUBSET SrcFile
        /\ ds \in SUBSET SrcFile
    BY <1>8, <2>1
  <2> HIDE DEF us, rs, ds
  <2> QED
    BY <2>2, <2>3 DEF CollectState
<1>11. Len(V) \in Nat /\ m \in Nat
  BY <1>1, <1>6, <1>8
<1>12. /\ d.updates[f] = R.cursor
       /\ \A g \in SrcFile \ {f} : d.updates[g] = c.updates[g]
  BY <1>1, <1>7, <1>9
<1>13. Len(W) <= CycleLimit /\ (Len(W) < CycleLimit => d.dropped = {})
  <2>1. Len(W) < CycleLimit => Len(E) < CycleLimit /\ ~(Len(V) > room)
    BY <1>1, <1>8, <1>11
  <2>2. Len(E) < CycleLimit => c.dropped = {}
    BY DEF Gathered, E
  <2> QED
    BY <1>1, <1>7, <1>8, <1>11, <2>1, <2>2
<1>14. \A g \in d.read : OpenFile(g) /\ \E j \in 1..n : g = Files[j]
  <2>1. \A j \in 1..n - 1 : j \in 1..n
    BY <1>1
  <2>2. \A g \in c.read : OpenFile(g) /\ \E j \in 1..n - 1 : g = Files[j]
    BY DEF Gathered
  <2>3. OpenFile(f) /\ f = Files[n] /\ n \in 1..n
    BY <1>1 DEF Reached
  <2> QED
    BY <1>7, <2>1, <2>2, <2>3
<1>15. \A g \in SrcFile \ d.read : d.updates[g] = cursors[g]
  BY <1>7, <1>12 DEF Gathered
<1>16. \A k \in 1..Len(E) : E[k].file \in c.read /\ c.updates[E[k].file] \in SourceCursor
  BY DEF Gathered, E
<1>17. \A k \in 1..m : \/ k \in 1..Len(E) /\ W[k] = E[k] /\ W[k].file \in c.read
                       \/ /\ k \notin 1..Len(E) /\ k - Len(E) \in 1..Len(V)
                          /\ W[k] = V[k - Len(E)] /\ W[k].file = f
  <2> SUFFICES ASSUME NEW k \in 1..m
               PROVE  \/ k \in 1..Len(E) /\ W[k] = E[k] /\ W[k].file \in c.read
                      \/ /\ k \notin 1..Len(E) /\ k - Len(E) \in 1..Len(V)
                         /\ W[k] = V[k - Len(E)] /\ W[k].file = f
    OBVIOUS
  <2>1. CASE k \in 1..Len(E)
    BY <1>8, <1>16, <2>1
  <2>2. CASE k \notin 1..Len(E)
    <3> DEFINE l == k - Len(E)
    <3>1. l \in 1..Len(V) /\ W[k] = V[l]
      BY <1>8, <2>2
    <3> HIDE DEF l
    <3>2. W[k].file = f
      BY <1>6, <3>1
    <3> QED
      BY <2>2, <3>1, <3>2 DEF l
  <2> QED
    BY <2>1, <2>2
<1>18. \A k \in 1..Len(W) : W[k].file \in d.read /\ d.updates[W[k].file] \in SourceCursor
  <2> SUFFICES ASSUME NEW k \in 1..m
               PROVE  W[k].file \in d.read /\ d.updates[W[k].file] \in SourceCursor
    BY <1>8
  <2>1. CASE k \in 1..Len(E)
    <3>1. W[k] = E[k] /\ E[k].file \in c.read /\ c.updates[E[k].file] \in SourceCursor
      BY <1>8, <1>16, <2>1
    <3>2. E[k].file \in SrcFile \ {f}
      BY <1>2, <1>9, <3>1
    <3>3. d.updates[E[k].file] = c.updates[E[k].file]
      BY <1>12, <3>2
    <3> QED
      BY <1>7, <3>1, <3>3
  <2>2. CASE k \notin 1..Len(E)
    <3>1. k - Len(E) \in 1..Len(V) /\ W[k].file = f
      BY <1>17, <2>2
    <3>2. R.cursor \in SourceCursor
      BY <1>6, <3>1
    <3> QED
      BY <1>7, <1>12, <3>1, <3>2
  <2> QED
    BY <2>1, <2>2
<1>19. \A k, l \in 1..Len(W) : W[k] = W[l] => k = l
  <2> SUFFICES ASSUME NEW k \in 1..m, NEW l \in 1..m, W[k] = W[l] PROVE k = l
    BY <1>8
  <2>1. \A i, j \in 1..Len(E) : E[i] = E[j] => i = j
    BY DEF Gathered, E
  <2>2. k \in Nat /\ l \in Nat
    BY <1>11
  <2>3. CASE k \in 1..Len(E) /\ l \in 1..Len(E)
    BY <1>8, <2>1, <2>3
  <2>4. CASE k \notin 1..Len(E) /\ l \notin 1..Len(E)
    <3>1. k - Len(E) = l - Len(E)
      BY <1>6, <1>17, <2>4
    <3> QED
      BY <1>1, <2>2, <3>1
  <2>5. CASE (k \in 1..Len(E)) # (l \in 1..Len(E))
    BY <1>2, <1>17, <2>5
  <2> QED
    BY <2>3, <2>4, <2>5
<1>20. ASSUME NEW g \in c.read
       PROVE  \E r \in 1..CycleLimit : ReadSo(cursors, d, g, r)
  <2>1. PICK r \in 1..CycleLimit : ReadSo(cursors, c, g, r)
    BY DEF Gathered
  <2> DEFINE G == FileRead(g, cursors[g], r)
  <2>2. /\ c.updates[g] = G.cursor
        /\ \A k \in 1..Len(E) : E[k].file = g => \E l \in 1..Len(G.events) : E[k] = G.events[l]
        /\ g \notin c.dropped =>
             \A l \in 1..Len(G.events) : \E k \in 1..Len(E) : E[k] = G.events[l]
        /\ Len(E) < CycleLimit /\ SourceKind(g) # "plan" => Len(G.events) < r
    BY <2>1 DEF ReadSo, E
  <2>3. g \in SrcFile /\ g # f
    BY <1>2, <1>9
  <2> HIDE DEF G
  <2>4. d.updates[g] = G.cursor
    BY <1>12, <2>2, <2>3
  <2>5. \A k \in 1..m : W[k].file = g => \E l \in 1..Len(G.events) : W[k] = G.events[l]
    <3> SUFFICES ASSUME NEW k \in 1..m, W[k].file = g
                 PROVE  \E l \in 1..Len(G.events) : W[k] = G.events[l]
      OBVIOUS
    <3>1. k \in 1..Len(E) /\ W[k] = E[k]
      BY <1>8, <1>16, <1>17, <2>3
    <3> QED
      BY <2>2, <3>1
  <2>6. g \notin d.dropped =>
          \A l \in 1..Len(G.events) : \E k \in 1..m : W[k] = G.events[l]
    <3> SUFFICES ASSUME g \notin d.dropped, NEW l \in 1..Len(G.events)
                 PROVE  \E k \in 1..m : W[k] = G.events[l]
      OBVIOUS
    <3>1. g \notin c.dropped
      BY <1>7
    <3>2. PICK k \in 1..Len(E) : E[k] = G.events[l]
      BY <2>2, <3>1
    <3>3. k \in 1..m /\ W[k] = E[k]
      BY <1>8
    <3> QED
      BY <3>2, <3>3
  <2>7. m < CycleLimit => Len(E) < CycleLimit
    BY <1>1, <1>8, <1>11
  <2>8. ReadSo(cursors, d, g, r)
    BY <1>8, <2>2, <2>4, <2>5, <2>6, <2>7 DEF ReadSo, G, W
  <2> QED
    BY <2>8
<1>21. ReadSo(cursors, d, f, rm)
  <2>1. \A k \in 1..m : W[k].file = f => \E l \in 1..Len(V) : W[k] = V[l]
    BY <1>2, <1>17
  <2>2. f \notin d.dropped => \A l \in 1..Len(V) : \E k \in 1..m : W[k] = V[l]
    <3> SUFFICES ASSUME f \notin d.dropped, NEW l \in 1..Len(V)
                 PROVE  \E k \in 1..m : W[k] = V[l]
      OBVIOUS
    <3>1. Len(E) + Len(V) <= CycleLimit
      BY <1>1, <1>7, <1>11
    <3>2. Len(E) + l \in 1..m /\ W[Len(E) + l] = V[l]
      BY <1>8, <3>1
    <3> QED
      BY <3>2
  <2>3. Len(W) < CycleLimit /\ SourceKind(f) # "plan" => Len(V) < rm
    <3> SUFFICES ASSUME m < CycleLimit, SourceKind(f) # "plan" PROVE Len(V) < rm
      BY <1>8
    <3>1. m = Len(E) + Len(V)
      BY <1>1, <1>8, <1>11
    <3>2. rm = CycleLimit - Len(E)
      BY <1>1, <1>3
    <3> QED
      BY <1>1, <1>11, <3>1, <3>2
  <2>4. ReadSo(cursors, d, f, rm) <=>
          /\ d.updates[f] = R.cursor
          /\ \A k \in 1..Len(W) : W[k].file = f => \E l \in 1..Len(V) : W[k] = V[l]
          /\ f \notin d.dropped => \A l \in 1..Len(V) : \E k \in 1..Len(W) : W[k] = V[l]
          /\ Len(W) < CycleLimit /\ SourceKind(f) # "plan" => Len(V) < rm
    BY <1>3 DEF ReadSo, V, W
  <2> QED
    BY <1>8, <1>12, <2>1, <2>2, <2>3, <2>4
<1>22. \A g \in d.read : \E r \in 1..CycleLimit : ReadSo(cursors, d, g, r)
  BY <1>7, <1>20, <1>21
<1>23. \A j \in 1..n : OpenFile(Files[j]) /\ Len(W) < CycleLimit => Files[j] \in d.read
  <2>1. \A j \in 1..n : j \in 1..n - 1 \/ j = n
    BY <1>1
  <2>2. Len(W) < CycleLimit => Len(E) < CycleLimit
    BY <1>1, <1>8, <1>11
  <2>3. \A j \in 1..n - 1 : OpenFile(Files[j]) /\ Len(E) < CycleLimit => Files[j] \in c.read
    BY DEF Gathered, E
  <2> QED
    BY <1>7, <2>1, <2>2, <2>3
<1>24. Gathered(cursors, d, n)
  BY <1>13, <1>14, <1>15, <1>18, <1>19, <1>22, <1>23 DEF Gathered, W
<1> QED
  BY <1>10, <1>24

\* What a whole cycle collects.
LEMMA CollectedIs ==
  ASSUME content \in [SrcFile -> FileContent], srcNow \in Nat,
         NEW cursors \in [SrcFile -> CursorOrNone]
  PROVE  LET c == CollectedFrom(cursors)
         IN c \in CollectState /\ Gathered(cursors, c, Len(Files))
<1> DEFINE N == Len(Files)
           start == [events |-> <<>>, updates |-> cursors, read |-> {}, dropped |-> {}]
           add(d, n) == WithFile(d, Files[n], cursors[Files[n]])
           step(d, n) == IF add(d, n) \in CollectState THEN add(d, n) ELSE d
           g == [p \in (1..N) \X CollectState |-> step(p[2], p[1])]
           Obeys(h) == h = [n \in 0..N |-> IF n = 0 THEN start ELSE add(h[n - 1], n)]
<1>1. N \in Nat /\ \A n \in 1..N : Files[n] \in SrcFile
  BY FilesAssumption
<1>2. start \in CollectState
  BY DEF CollectState
<1>3. \A n \in 1..N, d \in CollectState : g[<<n, d>>] = step(d, n)
  OBVIOUS
<1>4. Gathered(cursors, start, 0)
  <2>1. Len(start.events) = 0 /\ start.read = {} /\ start.dropped = {} /\ start.updates = cursors
    OBVIOUS
  <2> HIDE DEF start
  <2> QED
    BY <2>1, LimitIs DEF Gathered
<1>5. ASSUME NEW n \in 1..N, NEW d \in CollectState, Gathered(cursors, d, n - 1)
      PROVE  add(d, n) \in CollectState /\ Gathered(cursors, add(d, n), n)
  <2>1. Files[n] \in SrcFile
    BY <1>1
  <2>2. cursors[Files[n]] \in CursorOrNone
    BY <2>1
  <2>3. CASE Reached(d, Files[n])
    <3> HIDE DEF N
    <3> QED
      BY <1>5, <2>1, <2>2, <2>3, FileCollected DEF N
  <2>4. CASE ~Reached(d, Files[n])
    <3>1. add(d, n) = d
      BY <2>4 DEF WithFile
    <3> HIDE DEF add
    <3> QED
      BY <1>5, <2>4, <3>1, FilePassed
  <2> QED
    BY <2>3, <2>4
<1>6. LoopStays(g, N, CollectState)
  <2> SUFFICES ASSUME NEW n \in 1..N, NEW d \in CollectState PROVE g[<<n, d>>] \in CollectState
    BY DEF LoopStays
  <2>1. g[<<n, d>>] = step(d, n)
    BY <1>3
  <2> HIDE DEF g, add
  <2> QED
    BY <2>1
<1> HIDE DEF g, add, start
<1>7. PICK h \in [0..N -> CollectState] : LoopTells(h, start, N, g)
  <2> HIDE DEF N
  <2> QED
    BY <1>1, <1>2, <1>6, LoopExists
<1> DEFINE T == {n \in 0..N : Gathered(cursors, h[n], n)}
<1>8. ASSUME NEW n \in 1..N, n - 1 \in T PROVE h[n] = add(h[n - 1], n) /\ n \in T
  <2>1. n - 1 \in 0..N /\ n \in 0..N
    BY <1>1
  <2> DEFINE d == h[n - 1]
  <2>2. d \in CollectState /\ Gathered(cursors, d, n - 1) /\ h[n] = g[<<n, d>>]
    BY <1>7, <1>8, <2>1 DEF LoopTells
  <2> HIDE DEF d
  <2>3. add(d, n) \in CollectState /\ Gathered(cursors, add(d, n), n)
    BY <1>5, <2>2
  <2>4. h[n] = add(d, n)
    BY <1>3, <2>2, <2>3
  <2> QED
    BY <2>1, <2>3, <2>4 DEF d
<1>9. 0 \in T
  BY <1>1, <1>4, <1>7 DEF LoopTells
<1>10. 0..N \subseteq T
  <2> HIDE DEF T, N
  <2> QED
    BY <1>1, <1>8, <1>9, LoopReaches
<1>11. \A n \in 1..N : h[n] = add(h[n - 1], n)
  <2> SUFFICES ASSUME NEW n \in 1..N PROVE h[n] = add(h[n - 1], n)
    OBVIOUS
  <2>1. n - 1 \in 0..N
    BY <1>1
  <2> HIDE DEF T
  <2> QED
    BY <1>8, <1>10, <2>1
<1>12. Obeys(h)
  <2>1. h[0] = start /\ h = [n \in 0..N |-> h[n]]
    BY <1>7 DEF LoopTells
  <2> DEFINE After(n) == IF n = 0 THEN start ELSE add(h[n - 1], n)
  <2>2. \A n \in 0..N : h[n] = After(n)
    <3>1. \A n \in 0..N : n = 0 \/ n \in 1..N
      BY <1>1
    <3>2. \A n \in 1..N : n # 0
      OBVIOUS
    <3> HIDE DEF N
    <3> QED
      BY <1>11, <2>1, <3>1, <3>2
  <2>3. Obeys(h) <=> h = [n \in 0..N |-> After(n)]
    OBVIOUS
  <2> HIDE DEF After, Obeys
  <2> QED
    BY <2>1, <2>2, <2>3
<1> DEFINE A == CHOOSE k : Obeys(k)
<1>13. CollectedFrom(cursors) = A[N]
  BY DEF CollectedFrom, add, start
<1>14. Obeys(A)
  <2> HIDE DEF Obeys
  <2> QED
    BY <1>12
<1> HIDE DEF A
<1>15. A[0] = start /\ \A n \in 1..N : A[n] = add(A[n - 1], n)
  <2> DEFINE After(n) == IF n = 0 THEN start ELSE add(A[n - 1], n)
  <2>1. A = [n \in 0..N |-> After(n)]
    BY <1>14
  <2>2. After(0) = start /\ \A n \in 1..N : After(n) = add(A[n - 1], n)
    OBVIOUS
  <2>3. 0 \in 0..N /\ \A n \in 1..N : n \in 0..N
    BY <1>1
  <2> HIDE DEF After, N
  <2> QED
    BY <2>1, <2>2, <2>3
<1> DEFINE U == {n \in 0..N : A[n] = h[n]}
<1>16. N \in U
  <2>1. 0 \in U
    BY <1>1, <1>7, <1>15 DEF LoopTells
  <2>2. ASSUME NEW n \in 1..N, n - 1 \in U PROVE n \in U
    <3>1. A[n - 1] = h[n - 1] /\ n \in 0..N
      BY <1>1, <2>2
    <3>2. A[n] = add(A[n - 1], n) /\ h[n] = add(h[n - 1], n)
      BY <1>11, <1>15
    <3> QED
      BY <3>1, <3>2
  <2> HIDE DEF U
  <2>3. 0..N \subseteq U
    <3> HIDE DEF N
    <3> QED
      BY <1>1, <2>1, <2>2, LoopReaches
  <2> QED
    BY <1>1, <2>3
<1>17. N \in 0..N
  BY <1>1
<1>18. A[N] = h[N] /\ h[N] \in CollectState /\ Gathered(cursors, h[N], N)
  BY <1>7, <1>10, <1>16, <1>17
<1> QED
  BY <1>13, <1>18

-----------------------------------------------------------------------------
(* The invariant                                                            *)

SourceTyped ==
  /\ setup \in SourceSetup /\ content \in [SrcFile -> FileContent]
  /\ \A f \in SrcFile : Len(content[f].records) <= MaxRecords
  /\ srcNext \in Nat \ {0} /\ srcSaved \in [SrcFile -> CursorOrNone]
  /\ spots \in [SrcFile -> CursorOrNone]
  /\ srcJournal \in Seq(SrcEntry) /\ srcTorn \in BOOLEAN /\ srcNow \in Nat
  /\ refused \in SUBSET SrcRoot /\ replaced \in SUBSET SrcFile /\ missed \in SUBSET SrcFile
  /\ srcSaidLast \in {"none", "failed", "done", "cut"}

\* The cursors of a file that are written down somewhere.
Kept(f, c) ==
  \/ c = srcSaved[f] \/ c = spots[f]
  \/ \E i \in 1..Len(srcJournal) :
       srcJournal[i].event.file = f /\ srcJournal[i].cursor = c

\* What is so of such a cursor: it is from an earlier cycle,
Timely(f, c) ==
  /\ c.at < srcNow /\ c.cursor <= MaxRecords
  /\ SourceKind(f) = "plan" => c.cursor = 0 /\ c.digest \in FileRecords
\* it is no further than a file that only grew,
InFile(f, c) ==
  LET all == content[f].records
  IN f \notin replaced =>
       IF SourceKind(f) = "plan"
         THEN Len(c.digest) <= Len(all) /\ \A i \in 1..Len(c.digest) : c.digest[i] = all[i]
         ELSE /\ c.cursor <= Len(all)
              /\ f \notin missed /\ content[f].partial => c.cursor < Len(all)
              /\ /\ SourceKind(f) = "json" \/ (SourceKind(f) = "jsonl" /\ f \notin missed)
                 /\ 0 < c.cursor /\ c.cursor = Len(all)
                 => ~content[f].partial /\ c.digest = content[f]
\* and what it passes is in the journal.
PaidFor(f, c) ==
  f \notin replaced \cup missed =>
    IF SourceKind(f) = "plan" THEN Journaled(SourceEvent(f, 1, c.digest))
    ELSE \A i \in 1..c.cursor :
           TextAt(f, i) # NoText => Journaled(SourceEvent(f, i, TextAt(f, i)))
CursorsSound ==
  \A f \in SrcFile, c \in SourceCursor :
    Kept(f, c) => Timely(f, c) /\ InFile(f, c) /\ PaidFor(f, c)

\* Of a plan that only grew, what was seen later is no shorter.
PlansGrow ==
  \A f \in SrcFile, c \in SourceCursor, d \in SourceCursor :
    Kept(f, c) /\ Kept(f, d) /\ f \notin replaced /\ SourceKind(f) = "plan" /\ c.at <= d.at
      => Len(c.digest) <= Len(d.digest)

\* The cursor of an entry is past its event.
EntrySound(e) ==
  IF SourceKind(e.event.file) = "plan" THEN e.event.line = 1 /\ e.event.text = e.cursor.digest
  ELSE e.event.line \in 1..e.cursor.cursor
EntriesSound == \A i \in 1..Len(srcJournal) : EntrySound(srcJournal[i])

\* Nothing is to be read of f from the cursor c.
NothingLeft(f, c) ==
  IF SourceKind(f) = "plan"
    THEN content[f].records = <<>> \/ (c # NoSrcCursor /\ c.digest = content[f].records)
    ELSE \/ Unreadable(f) \/ StartOf(f, c) = Len(Records(f))
         \/ c # NoSrcCursor /\ c.cursor > Len(Records(f))
\* After a complete cycle there is nothing left to read.
SourcesAtRest ==
  resting => ~ReadsAFolder /\ \A f \in SrcFile : OpenFile(f) => NothingLeft(f, Resumed.cursors[f])

\* What the user refused is ignored until it is approved.
Refusals == \A r \in refused : setup.bindings[r] = "ignored"

\* The invariant: what the runs check, and that every cursor written down is sound.
SourceInv ==
  /\ SourceTyped /\ CursorsSound /\ PlansGrow /\ EntriesSound /\ SequencesRise /\ NothingTwice
  /\ Refusals /\ SourcesAtRest /\ RefusalsHold /\ CollectionSettles

-----------------------------------------------------------------------------
(* What a cycle starts from and appends                                     *)

CatchFrom(next, cursors) == [next |-> next, cursors |-> cursors]

\* Catching up with the journal starts a cycle from the furthest of the cursors.
LEMMA ResumedIs ==
  ASSUME NEW next \in Nat \ {0}, NEW saved \in [SrcFile -> CursorOrNone],
         NEW spotted \in [SrcFile -> CursorOrNone], NEW j \in Seq(SrcEntry)
  PROVE  LET s == CaughtUp(CatchFrom(next, MergedCursors(saved, spotted)), j)
         IN /\ s \in CatchState
            /\ \A i \in 1..Len(j) : s.next > j[i].seq
            /\ \A i \in 1..Len(j) : Below(j[i].cursor, s.cursors[j[i].event.file])
            /\ \A f \in SrcFile :
                 /\ Below(saved[f], s.cursors[f]) /\ Below(spotted[f], s.cursors[f])
                 /\ \/ s.cursors[f] = saved[f] \/ s.cursors[f] = spotted[f]
                    \/ \E i \in 1..Len(j) : j[i].event.file = f /\ j[i].cursor = s.cursors[f]
<1> DEFINE both == MergedCursors(saved, spotted)
           start == CatchFrom(next, both)
           s == CaughtUp(start, j)
<1>1. \A f \in SrcFile : saved[f] \in CursorOrNone /\ spotted[f] \in CursorOrNone
  OBVIOUS
<1>2. both = [f \in SrcFile |-> MergedCursor(saved[f], spotted[f])]
  BY DEF MergedCursors
<1>3. \A f \in SrcFile : /\ both[f] \in {saved[f], spotted[f]} /\ both[f] \in CursorOrNone
                         /\ Below(saved[f], both[f]) /\ Below(spotted[f], both[f])
  <2> SUFFICES ASSUME NEW f \in SrcFile
               PROVE  /\ both[f] \in {saved[f], spotted[f]} /\ both[f] \in CursorOrNone
                      /\ Below(saved[f], both[f]) /\ Below(spotted[f], both[f])
    OBVIOUS
  <2> DEFINE a == saved[f]
             b == spotted[f]
  <2>1. a \in CursorOrNone /\ b \in CursorOrNone
    BY <1>1
  <2>2. both[f] = MergedCursor(a, b)
    BY <1>2
  <2> HIDE DEF a, b, both
  <2>3. MergedCursor(a, b) \in {a, b} /\ Below(a, MergedCursor(a, b)) /\ Below(b, MergedCursor(a, b))
    BY <2>1, MergedIs
  <2> QED
    BY <2>1, <2>2, <2>3 DEF a, b
<1> HIDE DEF both
<1>4. start \in CatchState
  <2>1. both \in [SrcFile -> CursorOrNone]
    BY <1>2, <1>3
  <2> QED
    BY <2>1 DEF CatchState, CatchFrom
<1>5. start.cursors = both
  BY DEF CatchFrom
<1> HIDE DEF start
<1>6. /\ s \in CatchState
      /\ \A i \in 1..Len(j) : s.next > j[i].seq
      /\ \A i \in 1..Len(j) : Below(j[i].cursor, s.cursors[j[i].event.file])
      /\ \A f \in SrcFile :
           /\ Below(both[f], s.cursors[f])
           /\ s.cursors[f] = both[f] \/ \E i \in 1..Len(j) :
                j[i].event.file = f /\ j[i].cursor = s.cursors[f]
  BY <1>4, <1>5, CaughtUpIs
<1>7. s = CaughtUp(CatchFrom(next, MergedCursors(saved, spotted)), j)
  BY DEF start, both
<1> HIDE DEF s
<1>8. \A f \in SrcFile : s.cursors[f] \in CursorOrNone
  BY <1>6 DEF CatchState
<1>9. \A f \in SrcFile : Below(saved[f], s.cursors[f]) /\ Below(spotted[f], s.cursors[f])
  BY <1>1, <1>3, <1>6, <1>8, BelowOrders
<1> QED
  BY <1>3, <1>6, <1>7, <1>9

\* Every event of a cycle becomes an entry, with the cursor its file ends with.
LEMMA EntriesIs ==
  ASSUME NEW start \in CatchState, NEW got \in CollectState,
         \A k \in 1..Len(got.events) : got.updates[got.events[k].file] \in SourceCursor
  PROVE  LET e == Entries(start, got)
         IN /\ e \in Seq(SrcEntry) /\ Len(e) = Len(got.events)
            /\ \A k \in 1..Len(got.events) :
                 /\ e[k].seq = start.next + k - 1 /\ e[k].event = got.events[k]
                 /\ e[k].cursor = got.updates[got.events[k].file]
<1> DEFINE n == Len(got.events)
           E == got.events
           seq(k) == start.next + k - 1
           cur(k) == got.updates[E[k].file]
           entry(k) == [seq |-> seq(k), event |-> E[k], cursor |-> cur(k)]
           e == Entries(start, got)
<1>1. E \in Seq(SrcEvent) /\ n \in Nat /\ start.next \in Nat
  BY DEF CollectState, CatchState
<1>2. e = [k \in DOMAIN E |-> entry(k)]
  BY DEF Entries
<1>3. DOMAIN E = 1..n /\ \A k \in 1..n : E[k] \in SrcEvent
  BY <1>1
<1>4. \A k \in 1..n : cur(k) \in SourceCursor /\ seq(k) \in Nat
  BY <1>1
<1> HIDE DEF e, E, n, cur, seq
<1>5. \A k \in 1..n : entry(k) \in SrcEntry
  BY <1>3, <1>4 DEF SrcEntry
<1>6. \A k \in 1..n : entry(k).seq = seq(k) /\ entry(k).event = E[k] /\ entry(k).cursor = cur(k)
  OBVIOUS
<1> HIDE DEF entry
<1>7. e = [k \in 1..n |-> entry(k)]
  BY <1>2, <1>3
<1>8. e \in Seq(SrcEntry) /\ Len(e) = n /\ \A k \in 1..n : e[k] = entry(k)
  BY <1>1, <1>5, <1>7 DEF n
<1> QED
  BY <1>6, <1>8 DEF e, E, n, cur, seq

\* What a cycle appends follows what was there.
LEMMA AppendedIs ==
  ASSUME NEW J \in Seq(SrcEntry), NEW e \in Seq(SrcEntry), NEW n \in 0..Len(e)
  PROVE  LET w == J \o SubSeq(e, 1, n)
         IN /\ w \in Seq(SrcEntry) /\ Len(w) = Len(J) + n
            /\ \A i \in 1..Len(J) : i \in 1..Len(w) /\ w[i] = J[i]
            /\ \A i \in 1..Len(w) : i \notin 1..Len(J) =>
                 i - Len(J) \in 1..n /\ w[i] = e[i - Len(J)]
            /\ \A k \in 1..n : Len(J) + k \in 1..Len(w) /\ w[Len(J) + k] = e[k]
<1> DEFINE s == SubSeq(e, 1, n)
           w == J \o s
<1>1. n \in Nat /\ n <= Len(e) /\ Len(J) \in Nat
  OBVIOUS
<1>2. s \in Seq(SrcEntry) /\ Len(s) = n /\ \A k \in 1..n : s[k] = e[k]
  BY <1>1
<1> HIDE DEF s
<1>3. /\ w \in Seq(SrcEntry) /\ Len(w) = Len(J) + n
      /\ \A i \in 1..Len(J) : w[i] = J[i]
      /\ \A i \in 1..Len(w) : i \notin 1..Len(J) => w[i] = s[i - Len(J)]
      /\ \A k \in 1..n : w[Len(J) + k] = s[k]
  BY <1>1, <1>2
<1> HIDE DEF w
<1>4. \A i \in 1..Len(w) : i \notin 1..Len(J) => i - Len(J) \in 1..n
  BY <1>1, <1>3
<1>5. \A i \in 1..Len(J) : i \in 1..Len(w)
  BY <1>1, <1>3
<1>6. \A k \in 1..n : Len(J) + k \in 1..Len(w)
  BY <1>1, <1>3
<1> QED
  BY <1>2, <1>3, <1>4, <1>5, <1>6 DEF w, s

\* What a cycle did with a plan it read,
LEMMA PlanRead ==
  ASSUME content \in [SrcFile -> FileContent], srcNow \in Nat,
         NEW cursors \in [SrcFile -> CursorOrNone], NEW got \in CollectState,
         Gathered(cursors, got, Len(Files)), NEW f \in got.read, SourceKind(f) = "plan"
  PROVE  LET c == cursors[f]
             u == got.updates[f]
             all == content[f].records
             E == got.events
         IN /\ c \in CursorOrNone
            /\ all = <<>> => u = c
            /\ all # <<>> => u = CursorAt(0, all, srcNow)
            /\ \A k \in 1..Len(E) : E[k].file = f =>
                 /\ all # <<>> /\ E[k] = SourceEvent(f, 1, all)
                 /\ ~(c # NoSrcCursor /\ c.digest = all)
            /\ all # <<>> /\ f \notin got.dropped =>
                 \/ c # NoSrcCursor /\ c.digest = all
                 \/ \E k \in 1..Len(E) : E[k] = SourceEvent(f, 1, all)
<1> DEFINE c == cursors[f]
           u == got.updates[f]
           all == content[f].records
           E == got.events
           e == SourceEvent(f, 1, all)
<1>1. f \in SrcFile
  BY DEF CollectState
<1>2. c \in CursorOrNone
  BY <1>1
<1>3. PICK room \in 1..CycleLimit : ReadSo(cursors, got, f, room)
  BY DEF Gathered
<1> DEFINE R == SnapshotPlan(f, c, srcNow)
           V == R.events
<1>4. R = FileRead(f, cursors[f], room)
  BY DEF FileRead
<1>5. /\ u = R.cursor
      /\ \A k \in 1..Len(E) : E[k].file = f => \E l \in 1..Len(V) : E[k] = V[l]
      /\ f \notin got.dropped => \A l \in 1..Len(V) : \E k \in 1..Len(E) : E[k] = V[l]
  <2> HIDE DEF R
  <2> QED
    BY <1>3, <1>4 DEF ReadSo
<1>6. /\ all = <<>> => V = <<>> /\ R.cursor = c
      /\ all # <<>> => /\ R.cursor = CursorAt(0, all, srcNow)
                       /\ V = <<e>> \/ (V = <<>> /\ c # NoSrcCursor /\ c.digest = all)
      /\ c # NoSrcCursor /\ c.digest = all => V = <<>>
  <2> HIDE DEF c
  <2> QED
    BY <1>1, <1>2, PlanFileIs
<1> HIDE DEF c, u, all, E, R, V, e
<1>7. /\ V = <<>> => \A l \in 1..Len(V) : FALSE
      /\ V = <<e>> => 1 \in 1..Len(V) /\ \A l \in 1..Len(V) : V[l] = e
  <2>1. V = <<>> => Len(V) = 0
    OBVIOUS
  <2>2. V = <<e>> => Len(V) = 1 /\ V[1] = e
    OBVIOUS
  <2>3. V = <<e>> => \A l \in 1..Len(V) : l = 1
    BY <2>2
  <2> QED
    BY <2>1, <2>2, <2>3
<1>8. \A k \in 1..Len(E) : E[k].file = f =>
        all # <<>> /\ E[k] = e /\ ~(c # NoSrcCursor /\ c.digest = all)
  BY <1>5, <1>6, <1>7
<1>9. all # <<>> /\ f \notin got.dropped =>
        (c # NoSrcCursor /\ c.digest = all) \/ \E k \in 1..Len(E) : E[k] = e
  BY <1>5, <1>6, <1>7
<1> QED
  BY <1>2, <1>5, <1>6, <1>8, <1>9 DEF c, u, all, E, e

\* and with any other file.
LEMMA TailRead ==
  ASSUME content \in [SrcFile -> FileContent], srcNow \in Nat,
         NEW cursors \in [SrcFile -> CursorOrNone], NEW got \in CollectState,
         Gathered(cursors, got, Len(Files)), NEW f \in got.read, SourceKind(f) # "plan"
  PROVE  LET c == cursors[f]
             u == got.updates[f]
             E == got.events
             from == StartOf(f, c)
         IN /\ c \in CursorOrNone /\ u \in SourceCursor /\ u.at = srcNow
            /\ u.cursor <= Len(content[f].records)
            /\ \A k \in 1..Len(E) : E[k].file = f =>
                 /\ E[k].line \in from + 1 .. u.cursor
                 /\ E[k] = SourceEvent(f, E[k].line, TextAt(f, E[k].line))
                 /\ ~Unreadable(f)
            /\ SourceKind(f) \in {"json", "jsonl"} => u.digest = content[f]
            /\ Unreadable(f) /\ SourceKind(f) = "json" => u.cursor = 0
            /\ ~Unreadable(f) =>
                 /\ u.cursor <= Len(Records(f))
                 /\ f \notin got.dropped => \A i \in from + 1 .. u.cursor : TextAt(f, i) # NoText =>
                      \E k \in 1..Len(E) : E[k] = SourceEvent(f, i, TextAt(f, i))
                 /\ Len(E) < CycleLimit => u.cursor = Len(Records(f))
<1> DEFINE c == cursors[f]
           u == got.updates[f]
           E == got.events
           from == StartOf(f, c)
<1>1. f \in SrcFile
  BY DEF CollectState
<1>2. c \in CursorOrNone
  BY <1>1
<1>3. PICK room \in 1..CycleLimit : ReadSo(cursors, got, f, room)
  BY DEF Gathered
<1> DEFINE R == TailFile(f, c, room, srcNow)
           V == R.events
           to == R.cursor.cursor
<1>4. R = FileRead(f, cursors[f], room) /\ room \in Nat \ {0}
  BY LimitIs DEF FileRead
<1>5. /\ u = R.cursor
      /\ \A k \in 1..Len(E) : E[k].file = f => \E l \in 1..Len(V) : E[k] = V[l]
      /\ f \notin got.dropped => \A l \in 1..Len(V) : \E k \in 1..Len(E) : E[k] = V[l]
      /\ Len(E) < CycleLimit => Len(V) < room
  <2> HIDE DEF R
  <2> QED
    BY <1>3, <1>4 DEF ReadSo
<1>6. /\ R.cursor \in SourceCursor /\ R.cursor.at = srcNow
      /\ to <= Len(content[f].records)
      /\ \A k \in 1..Len(V) :
           V[k].line \in from + 1 .. to /\ V[k] = SourceEvent(f, V[k].line, TextAt(f, V[k].line))
      /\ SourceKind(f) \in {"json", "jsonl"} => R.cursor.digest = content[f]
      /\ Unreadable(f) => V = <<>> /\ (SourceKind(f) = "json" => to = 0)
      /\ ~Unreadable(f) =>
           /\ to <= Len(Records(f))
           /\ \A i \in from + 1 .. to : TextAt(f, i) # NoText =>
                \E k \in 1..Len(V) : V[k] = SourceEvent(f, i, TextAt(f, i))
           /\ Len(V) < room => to = Len(Records(f))
  <2> HIDE DEF c
  <2> QED
    BY <1>1, <1>2, <1>4, TailFileIs
<1>7. u.cursor = to
  BY <1>5
<1> HIDE DEF c, u, E, R, V, from, to
<1>8. V = <<>> => \A l \in 1..Len(V) : FALSE
  <2>1. V = <<>> => Len(V) = 0
    OBVIOUS
  <2> QED
    BY <2>1
<1>9. \A k \in 1..Len(E) : E[k].file = f =>
        /\ E[k].line \in from + 1 .. to /\ E[k] = SourceEvent(f, E[k].line, TextAt(f, E[k].line))
        /\ ~Unreadable(f)
  <2> SUFFICES ASSUME NEW k \in 1..Len(E), E[k].file = f
               PROVE  /\ E[k].line \in from + 1 .. to
                      /\ E[k] = SourceEvent(f, E[k].line, TextAt(f, E[k].line)) /\ ~Unreadable(f)
    OBVIOUS
  <2>1. PICK l \in 1..Len(V) : E[k] = V[l]
    BY <1>5
  <2> QED
    BY <1>6, <1>8, <2>1
<1>10. f \notin got.dropped /\ ~Unreadable(f) => \A i \in from + 1 .. to : TextAt(f, i) # NoText =>
         \E k \in 1..Len(E) : E[k] = SourceEvent(f, i, TextAt(f, i))
  <2> SUFFICES ASSUME f \notin got.dropped, ~Unreadable(f), NEW i \in from + 1 .. to,
                      TextAt(f, i) # NoText
               PROVE  \E k \in 1..Len(E) : E[k] = SourceEvent(f, i, TextAt(f, i))
    OBVIOUS
  <2>1. PICK l \in 1..Len(V) : V[l] = SourceEvent(f, i, TextAt(f, i))
    BY <1>6
  <2> QED
    BY <1>5, <2>1
<1> QED
  BY <1>2, <1>5, <1>6, <1>7, <1>9, <1>10 DEF c, u, E, from

\* Where a cycle starts from.
LEMMA StartOfCycle ==
  ASSUME SourceTyped
  PROVE  /\ Resumed \in CatchState
         /\ \A i \in 1..Len(srcJournal) : Resumed.next > srcJournal[i].seq
         /\ \A f \in SrcFile : Kept(f, Resumed.cursors[f])
         /\ \A f \in SrcFile : \A c : Kept(f, c) => Below(c, Resumed.cursors[f])
<1> DEFINE s == Resumed
<1>1. /\ srcNext \in Nat \ {0} /\ srcSaved \in [SrcFile -> CursorOrNone]
      /\ spots \in [SrcFile -> CursorOrNone] /\ srcJournal \in Seq(SrcEntry)
  BY DEF SourceTyped
<1>2. s = CaughtUp(CatchFrom(srcNext, MergedCursors(srcSaved, spots)), srcJournal)
  BY DEF Resumed, CatchFrom
<1> HIDE DEF s
<1>3. /\ s \in CatchState
      /\ \A i \in 1..Len(srcJournal) : s.next > srcJournal[i].seq
      /\ \A i \in 1..Len(srcJournal) : Below(srcJournal[i].cursor, s.cursors[srcJournal[i].event.file])
      /\ \A f \in SrcFile :
           /\ Below(srcSaved[f], s.cursors[f]) /\ Below(spots[f], s.cursors[f])
           /\ \/ s.cursors[f] = srcSaved[f] \/ s.cursors[f] = spots[f]
              \/ \E i \in 1..Len(srcJournal) :
                   srcJournal[i].event.file = f /\ srcJournal[i].cursor = s.cursors[f]
  <2> DEFINE next == srcNext
             saved == srcSaved
             spotted == spots
             j == srcJournal
             A == CaughtUp(CatchFrom(next, MergedCursors(saved, spotted)), j)
  <2>1. s = A
    BY <1>2
  <2>2. /\ next \in Nat \ {0} /\ saved \in [SrcFile -> CursorOrNone]
        /\ spotted \in [SrcFile -> CursorOrNone] /\ j \in Seq(SrcEntry)
    BY <1>1
  <2> HIDE DEF next, saved, spotted, j
  <2>3. /\ A \in CatchState
        /\ \A i \in 1..Len(j) : A.next > j[i].seq
        /\ \A i \in 1..Len(j) : Below(j[i].cursor, A.cursors[j[i].event.file])
        /\ \A f \in SrcFile :
             /\ Below(saved[f], A.cursors[f]) /\ Below(spotted[f], A.cursors[f])
             /\ \/ A.cursors[f] = saved[f] \/ A.cursors[f] = spotted[f]
                \/ \E i \in 1..Len(j) : j[i].event.file = f /\ j[i].cursor = A.cursors[f]
    BY <2>2, ResumedIs
  <2> HIDE DEF A
  <2> QED
    BY <2>1, <2>3 DEF next, saved, spotted, j
<1>4. \A f \in SrcFile : Kept(f, s.cursors[f])
  BY <1>3 DEF Kept
<1>5. \A f \in SrcFile : \A c : Kept(f, c) => Below(c, s.cursors[f])
  BY <1>3 DEF Kept
<1> QED
  BY <1>3, <1>4, <1>5 DEF s

\* What a cycle that ends does, when it appended the first so many of its entries.
CycleDoes(got, kept) ==
  LET E == got.events
      L == Len(srcJournal)
  IN /\ got \in CollectState /\ Gathered(Resumed.cursors, got, Len(Files)) /\ kept \in 0..Len(E)
     /\ srcJournal' \in Seq(SrcEntry) /\ Len(srcJournal') = L + kept
     /\ \A i \in 1..L : i \in 1..L + kept /\ srcJournal'[i] = srcJournal[i]
     /\ \A i \in 1..L + kept : i \notin 1..L =>
          /\ i - L \in 1..kept /\ srcJournal'[i].seq = Resumed.next + (i - L) - 1
          /\ srcJournal'[i].event = E[i - L]
          /\ srcJournal'[i].cursor = got.updates[E[i - L].file]
     /\ \A k \in 1..kept : L + k \in 1..L + kept /\ srcJournal'[L + k].event = E[k]
     /\ srcNext' \in Nat \ {0} /\ srcSaved' \in [SrcFile -> CursorOrNone]
     /\ spots' \in [SrcFile -> CursorOrNone]
     /\ \A f \in SrcFile : \A c : Kept(f, c)' => Kept(f, c) \/
          /\ f \in got.read /\ c = got.updates[f]
          /\ kept = Len(E) \/ \E k \in 1..kept : E[k].file = f
     /\ resting' => /\ Len(E) < CycleLimit /\ ~ReadsAFolder
                    /\ \A f \in SrcFile : Below(got.updates[f], srcSaved'[f])
     /\ missed' \in SUBSET SrcFile /\ missed \cup got.dropped \subseteq missed'
     /\ \A f \in got.read : content[f].partial => f \in missed'
     /\ \A f \in SrcFile \ missed' : (\E k \in 1..kept : E[k].file = f) =>
          \A l \in 1..Len(E) : E[l].file = f => l \in 1..kept
     /\ strayed' = strayed \cup ({RootOf[f] : f \in got.read} \cap (refused \ setup.roots))
     /\ \A g \in noisy' : g \in noisy \/ (resting /\ g \notin Shorter(Resumed.cursors) /\
                                            \E k \in 1..Len(E) : E[k].file = g)
     /\ UNCHANGED <<setup, content, edits, replaced, refused>> /\ srcNow' = srcNow + 1
     /\ srcTorn' \in BOOLEAN /\ srcSaidLast' \in {"done", "cut"}

\* A cycle that ends does so.
LEMMA CycleGives ==
  ASSUME SourceTyped,
         NEW start, start = Resumed, NEW got, got = CollectedFrom(start.cursors),
         NEW entries, entries = Entries(start, got),
         EndCycle(start, got, entries), ~(ReadsAFolder /\ PlanEntered(got.events)),
         UNCHANGED <<setup, content, edits, replaced, refused>>, srcNow' = srcNow + 1
  PROVE  \E kept : CycleDoes(got, kept)
<1> DEFINE E == got.events
           L == Len(srcJournal)
           J == srcJournal'
<1>1. /\ content \in [SrcFile -> FileContent] /\ srcNow \in Nat /\ srcJournal \in Seq(SrcEntry)
      /\ L \in Nat /\ missed \in SUBSET SrcFile
  BY DEF SourceTyped
<1>2. /\ start \in CatchState /\ start.next \in Nat \ {0}
      /\ start.cursors \in [SrcFile -> CursorOrNone] /\ \A f \in SrcFile : Kept(f, start.cursors[f])
  BY StartOfCycle DEF CatchState
<1>3. got \in CollectState /\ Gathered(start.cursors, got, Len(Files))
  BY <1>1, <1>2, CollectedIs
<1>4. /\ E \in Seq(SrcEvent) /\ Len(E) \in Nat /\ got.updates \in [SrcFile -> CursorOrNone]
      /\ got.read \in SUBSET SrcFile /\ got.dropped \in SUBSET SrcFile
  BY <1>3 DEF CollectState
<1>5. /\ Len(E) <= CycleLimit
      /\ \A f \in SrcFile \ got.read : got.updates[f] = start.cursors[f]
      /\ \A k \in 1..Len(E) : E[k].file \in got.read /\ got.updates[E[k].file] \in SourceCursor
  BY <1>3 DEF Gathered
<1>6. /\ entries \in Seq(SrcEntry) /\ Len(entries) = Len(E)
      /\ \A k \in 1..Len(E) : /\ entries[k].seq = start.next + k - 1 /\ entries[k].event = E[k]
                              /\ entries[k].cursor = got.updates[E[k].file]
  BY <1>2, <1>3, <1>5, EntriesIs
<1>7. PICK how \in Endings(Len(entries)) :
        /\ AppendEntries(entries, how)
        /\ SaveState(start, CaughtUp([next |-> start.next + Len(entries),
                                      cursors |-> got.updates], srcJournal'), how)
        /\ resting' = (how.saved = "all" /\ Len(entries) < CycleLimit)
        /\ strayed' = strayed \cup ({RootOf[f] : f \in got.read} \cap (refused \ setup.roots))
        /\ noisy' = noisy \cup
             IF resting THEN {e.event.file : e \in Range(entries)} \ Shorter(start.cursors)
             ELSE {}
        /\ missed' = missed \cup got.dropped \cup {f \in got.read : content[f].partial}
                     \cup CutApart(entries, how.kept)
  BY DEF EndCycle
<1> DEFINE n == how.kept
           before == [next |-> start.next + Len(entries), cursors |-> got.updates]
           after == CaughtUp(before, J)
<1>8. /\ n \in 0..Len(E) /\ how.torn \in BOOLEAN /\ how.saved \in {"nothing", "state", "all"}
      /\ how.saved # "nothing" => n = Len(E)
  <2>1. \A m \in Nat : \A h \in Endings(m) :
          /\ h.kept \in 0..m /\ h.torn \in BOOLEAN /\ h.saved \in {"nothing", "state", "all"}
          /\ h.saved # "nothing" => h.kept = m
    <3> SUFFICES ASSUME NEW m \in Nat, NEW h \in Endings(m)
                 PROVE  /\ h.kept \in 0..m /\ h.torn \in BOOLEAN /\ h.saved \in {"nothing", "state", "all"}
                        /\ h.saved # "nothing" => h.kept = m
      OBVIOUS
    <3>1. CASE \E s \in {"nothing", "state", "all"} : h = [kept |-> m, torn |-> FALSE, saved |-> s]
      BY <3>1
    <3>2. CASE \E k \in 0..m - 1 : h = [kept |-> k, torn |-> TRUE, saved |-> "nothing"]
      <4>1. PICK k \in 0..m - 1 : h = [kept |-> k, torn |-> TRUE, saved |-> "nothing"]
        BY <3>2
      <4>2. k \in 0..m
        OBVIOUS
      <4> QED
        BY <4>1, <4>2
    <3> QED
      BY <3>1, <3>2 DEF Endings
  <2> QED
    BY <1>4, <1>6, <2>1
<1>9. J = srcJournal \o SubSeq(entries, 1, n) /\ srcTorn' = how.torn
  BY <1>7 DEF AppendEntries
<1>10. /\ srcNext' = IF how.saved = "nothing" THEN start.next ELSE after.next
       /\ srcSaved' = IF how.saved = "nothing" THEN start.cursors ELSE after.cursors
       /\ spots' = IF how.saved = "all" THEN after.cursors ELSE start.cursors
       /\ srcSaidLast' = IF how.saved = "all" THEN "done" ELSE "cut"
  BY <1>7 DEF SaveState
<1> HIDE DEF n, after, before, E, L
<1>11. /\ J \in Seq(SrcEntry) /\ Len(J) = L + n
       /\ \A i \in 1..L : i \in 1..L + n /\ J[i] = srcJournal[i]
       /\ \A i \in 1..L + n : i \notin 1..L => i - L \in 1..n /\ J[i] = entries[i - L]
       /\ \A k \in 1..n : L + k \in 1..L + n /\ J[L + k] = entries[k]
  <2> DEFINE w == srcJournal \o SubSeq(entries, 1, n)
  <2>1. n \in 0..Len(entries)
    BY <1>6, <1>8
  <2>2. /\ w \in Seq(SrcEntry) /\ Len(w) = L + n
        /\ \A i \in 1..L : i \in 1..Len(w) /\ w[i] = srcJournal[i]
        /\ \A i \in 1..Len(w) : i \notin 1..L => i - L \in 1..n /\ w[i] = entries[i - L]
        /\ \A k \in 1..n : L + k \in 1..Len(w) /\ w[L + k] = entries[k]
    <3>1. srcJournal \in Seq(SrcEntry) /\ entries \in Seq(SrcEntry)
      BY <1>1, <1>6
    <3> QED
      BY ONLY <2>1, <3>1, AppendedIs DEF L, w
  <2>3. J = w
    BY <1>9
  <2> HIDE DEF w
  <2> QED
    BY <2>2, <2>3
<1> HIDE DEF J
<1>12. \A k \in 1..n : k \in 1..Len(E)
  BY <1>4, <1>8
<1>13. \A i \in 1..L + n : i \notin 1..L =>
         /\ i - L \in 1..n /\ J[i].seq = start.next + (i - L) - 1
         /\ J[i].event = E[i - L] /\ J[i].cursor = got.updates[E[i - L].file]
  <2> SUFFICES ASSUME NEW i \in 1..L + n, i \notin 1..L
               PROVE  /\ i - L \in 1..n /\ J[i].seq = start.next + (i - L) - 1
                      /\ J[i].event = E[i - L] /\ J[i].cursor = got.updates[E[i - L].file]
    OBVIOUS
  <2> DEFINE k == i - L
  <2>1. k \in 1..n /\ J[i] = entries[k]
    BY <1>11
  <2> HIDE DEF k
  <2>2. /\ entries[k].seq = start.next + k - 1 /\ entries[k].event = E[k]
        /\ entries[k].cursor = got.updates[E[k].file]
    BY <1>6, <1>12, <2>1
  <2> QED
    BY <2>1, <2>2 DEF k
<1>14. \A k \in 1..n : L + k \in 1..L + n /\ J[L + k].event = E[k]
  BY <1>6, <1>11, <1>12
<1>15. /\ after \in CatchState
       /\ \A f \in SrcFile :
            /\ Below(got.updates[f], after.cursors[f])
            /\ after.cursors[f] = got.updates[f] \/ \E i \in 1..L + n :
                 J[i].event.file = f /\ J[i].cursor = after.cursors[f]
  <2>1. before.next \in Nat \ {0}
    BY <1>2, <1>4, <1>6 DEF before
  <2>2. before \in CatchState /\ before.cursors = got.updates
    BY <1>4, <2>1 DEF before, CatchState
  <2>3. after = CaughtUp(before, J)
    BY DEF after
  <2> QED
    BY <1>11, <2>2, <2>3, CaughtUpIs
<1>16. /\ after.next \in Nat \ {0} /\ after.cursors \in [SrcFile -> CursorOrNone]
  BY <1>15 DEF CatchState
<1>17. /\ srcNext' \in Nat \ {0} /\ srcSaved' \in [SrcFile -> CursorOrNone]
       /\ spots' \in [SrcFile -> CursorOrNone]
  BY <1>2, <1>10, <1>16
<1>18. ASSUME NEW f \in SrcFile, NEW c, Kept(f, c)'
       PROVE  Kept(f, c) \/ /\ f \in got.read /\ c = got.updates[f]
                            /\ n = Len(E) \/ \E k \in 1..n : E[k].file = f
  <2> DEFINE New(x) == Kept(f, x) \/ /\ f \in got.read /\ x = got.updates[f]
                                     /\ n = Len(E) \/ \E k \in 1..n : E[k].file = f
  <2>1. c = srcSaved'[f] \/ c = spots'[f] \/ \E i \in 1..L + n : J[i].event.file = f /\ J[i].cursor = c
    BY <1>11, <1>18 DEF Kept, J
  <2>2. ASSUME NEW i \in 1..L + n, J[i].event.file = f PROVE New(J[i].cursor)
    <3>1. CASE i \in 1..L
      <4>1. J[i] = srcJournal[i]
        BY <1>11, <3>1
      <4> QED
        BY <2>2, <3>1, <4>1 DEF Kept, L
    <3>2. CASE i \notin 1..L
      <4>1. i - L \in 1..n /\ E[i - L].file = f /\ J[i].cursor = got.updates[f]
        BY <1>13, <2>2, <3>2
      <4>2. f \in got.read
        BY <1>5, <1>12, <4>1
      <4> QED
        BY <4>1, <4>2
    <3> QED
      BY <3>1, <3>2
  <2>3. New(start.cursors[f])
    BY <1>2
  <2>4. n = Len(E) => New(got.updates[f])
    BY <1>5, <2>3
  <2>5. n = Len(E) => New(after.cursors[f])
    BY <1>15, <2>2, <2>4
  <2> HIDE DEF New
  <2>6. New(srcSaved'[f]) /\ New(spots'[f])
    BY <1>8, <1>10, <2>3, <2>5
  <2>7. New(c)
    BY <2>1, <2>2, <2>6
  <2> QED
    BY <2>7 DEF New
<1>19. resting' => /\ Len(E) < CycleLimit /\ ~ReadsAFolder
                   /\ \A f \in SrcFile : Below(got.updates[f], srcSaved'[f])
  <2> SUFFICES ASSUME resting'
               PROVE  /\ Len(E) < CycleLimit /\ ~ReadsAFolder
                      /\ \A f \in SrcFile : Below(got.updates[f], srcSaved'[f])
    OBVIOUS
  <2>1. how.saved = "all" /\ Len(E) < CycleLimit
    BY <1>6, <1>7
  <2>2. PlanEntered(E)
    <3> DEFINE P == {i \in DOMAIN E : SourceKind(E[i].file) # "plan"}
    <3>1. P \subseteq 1..Len(E)
      BY <1>4
    <3>2. IsFiniteSet(1..Len(E)) /\ Cardinality(1..Len(E)) = Len(E)
      BY <1>4, SpanIs
    <3> HIDE DEF P
    <3>3. Cardinality(P) <= Len(E) /\ Cardinality(P) \in Nat
      BY <3>1, <3>2, FS_Subset, FS_CardinalityType
    <3> QED
      BY <1>4, <2>1, <3>3, LimitIs DEF PlanEntered, P
  <2>3. \A f \in SrcFile : Below(got.updates[f], srcSaved'[f])
    BY <1>10, <1>15, <2>1
  <2> QED
    BY <2>1, <2>2, <2>3 DEF E
<1>20. CutApart(entries, n) \in SUBSET SrcFile
  <2>1. \A k \in 1..n : entries[k].event.file \in SrcFile
    BY <1>4, <1>5, <1>6, <1>12
  <2> QED
    BY <2>1 DEF CutApart
<1>21. missed' = missed \cup got.dropped \cup {f \in got.read : content[f].partial}
                 \cup CutApart(entries, n)
  BY <1>7 DEF n
<1>22. /\ missed' \in SUBSET SrcFile /\ missed \cup got.dropped \subseteq missed'
       /\ \A f \in got.read : content[f].partial => f \in missed'
  BY <1>1, <1>4, <1>20, <1>21
<1>23. \A f \in SrcFile \ missed' : (\E k \in 1..n : E[k].file = f) =>
         \A l \in 1..Len(E) : E[l].file = f => l \in 1..n
  <2> SUFFICES ASSUME NEW f \in SrcFile \ missed', NEW k \in 1..n, E[k].file = f,
                      NEW l \in 1..Len(E), E[l].file = f, l \notin 1..n
               PROVE  FALSE
    OBVIOUS
  <2>1. l \in n + 1 .. Len(entries)
    BY <1>4, <1>6, <1>8
  <2>2. entries[k].event.file = f /\ entries[l].event.file = f
    BY <1>6, <1>12
  <2>3. f \in CutApart(entries, n)
    BY <2>1, <2>2 DEF CutApart
  <2> QED
    BY <1>21, <2>3
<1>24. \A g \in noisy' : g \in noisy \/ (resting /\ g \notin Shorter(start.cursors) /\
                                           \E k \in 1..Len(E) : E[k].file = g)
  <2>1. \A e \in Range(entries) : \E k \in 1..Len(E) : e.event = E[k]
    BY <1>6 DEF Range
  <2> QED
    BY <1>7, <2>1
<1>25. CycleDoes(got, n)
  <2>1. srcTorn' \in BOOLEAN /\ srcSaidLast' \in {"done", "cut"}
    BY <1>8, <1>9, <1>10
  <2>2. strayed' = strayed \cup ({RootOf[f] : f \in got.read} \cap (refused \ setup.roots))
    BY <1>7
  <2> QED
    BY <1>3, <1>8, <1>11, <1>13, <1>14, <1>17, <1>18, <1>19, <1>22, <1>23, <1>24, <2>1, <2>2
       DEF CycleDoes, E, L, J
<1> QED
  BY <1>25

\* What a cycle that ends leaves as it was.
LEMMA CycleLeaves ==
  ASSUME NEW got, NEW kept, SourceTyped, CycleDoes(got, kept)
  PROVE  /\ content' = content /\ setup' = setup /\ replaced' = replaced /\ srcNow' = srcNow + 1
         /\ srcNow \in Nat /\ srcNow' \in Nat
         /\ \A f \in SrcFile : /\ Records(f)' = Records(f) /\ OverCap(f)' = OverCap(f)
                               /\ Unreadable(f)' = Unreadable(f) /\ OpenFile(f)' = OpenFile(f)
                               /\ \A i : TextAt(f, i)' = TextAt(f, i)
                               /\ \A c : StartOf(f, c)' = StartOf(f, c)
         /\ ReadsAFolder' = ReadsAFolder
         /\ \A e : Journaled(e) => Journaled(e)'
<1>1. /\ content' = content /\ setup' = setup /\ replaced' = replaced /\ srcNow' = srcNow + 1
      /\ srcNow \in Nat /\ srcNow' \in Nat
  BY DEF CycleDoes, SourceTyped
<1>2. \A f \in SrcFile : /\ Records(f)' = Records(f) /\ OverCap(f)' = OverCap(f)
                         /\ Unreadable(f)' = Unreadable(f)
  BY <1>1 DEF Records, OverCap, Unreadable
<1>3. \A f \in SrcFile : \A i : TextAt(f, i)' = TextAt(f, i)
  BY <1>1 DEF TextAt
<1>4. \A f \in SrcFile : \A c : StartOf(f, c)' = StartOf(f, c)
  BY <1>1, <1>2 DEF StartOf
<1>5. \A f \in SrcFile : OpenFile(f)' = OpenFile(f)
  BY <1>1 DEF OpenFile, SourceRootsFor, ApprovedRoots, HasManagedBindings
<1>6. ReadsAFolder' = ReadsAFolder
  BY <1>1 DEF ReadsAFolder, SourceRootsFor, ApprovedRoots, HasManagedBindings
<1>7. \A e : Journaled(e) => Journaled(e)'
  <2> SUFFICES ASSUME NEW e, Journaled(e) PROVE Journaled(e)'
    OBVIOUS
  <2>1. srcJournal \in Seq(SrcEntry) /\ srcJournal' \in Seq(SrcEntry)
    BY DEF CycleDoes, SourceTyped
  <2>2. PICK i \in 1..Len(srcJournal) : srcJournal[i].event = e
    BY <2>1 DEF Journaled
  <2>3. i \in 1..Len(srcJournal') /\ srcJournal'[i] = srcJournal[i]
    BY DEF CycleDoes
  <2> QED
    BY <2>1, <2>2, <2>3 DEF Journaled
<1> QED
  BY <1>1, <1>2, <1>3, <1>4, <1>5, <1>6, <1>7

\* An event of a file that was not cut apart is in the journal after the cycle.
LEMMA CycleWrites ==
  ASSUME NEW got, NEW kept, SourceTyped, CycleDoes(got, kept),
         NEW f \in SrcFile \ missed', NEW k \in 1..Len(got.events), got.events[k].file = f,
         kept = Len(got.events) \/ \E l \in 1..kept : got.events[l].file = f
  PROVE  Journaled(got.events[k])'
<1>1. k \in 1..kept
  BY DEF CycleDoes
<1> DEFINE i == Len(srcJournal) + k
<1>2. i \in 1..Len(srcJournal') /\ srcJournal'[i].event = got.events[k]
  BY <1>1 DEF CycleDoes
<1>3. srcJournal' \in Seq(SrcEntry)
  BY DEF CycleDoes
<1> HIDE DEF i
<1> QED
  BY <1>2, <1>3 DEF Journaled

\* The cursors a cycle starts from, and what it read with them.
LEMMA CycleReads ==
  ASSUME NEW got, NEW kept, SourceInv, CycleDoes(got, kept), NEW f \in SrcFile
  PROVE  LET c == Resumed.cursors[f]
         IN /\ c \in CursorOrNone /\ Kept(f, c)
            /\ c # NoSrcCursor => /\ c \in SourceCursor /\ Timely(f, c) /\ InFile(f, c) /\ PaidFor(f, c)
            /\ Resumed.cursors \in [SrcFile -> CursorOrNone]
            /\ got \in CollectState /\ Gathered(Resumed.cursors, got, Len(Files))
            /\ content \in [SrcFile -> FileContent] /\ srcNow \in Nat
            /\ content[f].records \in FileRecords /\ Len(content[f].records) \in Nat
            /\ Len(content[f].records) <= MaxRecords
            /\ MaxRecords \in Nat
<1>1. SourceTyped /\ CursorsSound
  BY DEF SourceInv
<1>2. Resumed \in CatchState /\ Kept(f, Resumed.cursors[f])
  BY <1>1, StartOfCycle
<1>3. Resumed.cursors \in [SrcFile -> CursorOrNone]
  BY <1>2 DEF CatchState
<1> DEFINE c == Resumed.cursors[f]
<1>4. c \in CursorOrNone
  BY <1>3
<1>5. c # NoSrcCursor => c \in SourceCursor
  BY <1>4 DEF CursorOrNone
<1> HIDE DEF c
<1>6. c # NoSrcCursor => Timely(f, c) /\ InFile(f, c) /\ PaidFor(f, c)
  BY <1>1, <1>2, <1>5 DEF CursorsSound, c
<1>7. /\ content \in [SrcFile -> FileContent] /\ srcNow \in Nat
      /\ Len(content[f].records) <= MaxRecords
  BY <1>1 DEF SourceTyped
<1>8. content[f].records \in FileRecords /\ Len(content[f].records) \in Nat
  BY <1>7, RecordsIs
<1>9. got \in CollectState /\ Gathered(Resumed.cursors, got, Len(Files))
  BY DEF CycleDoes
<1> QED
  BY <1>2, <1>3, <1>4, <1>5, <1>6, <1>7, <1>8, <1>9, FilesAssumption DEF c

\* A cursor that was written down before a cycle is as sound after it.
LEMMA CycleKeepsOld ==
  ASSUME NEW got, NEW kept, SourceInv, CycleDoes(got, kept),
         NEW f \in SrcFile, NEW c \in SourceCursor, Kept(f, c)
  PROVE  Timely(f, c)' /\ InFile(f, c)' /\ PaidFor(f, c)'
<1>1. Timely(f, c) /\ InFile(f, c) /\ PaidFor(f, c) /\ SourceTyped
  BY DEF SourceInv, CursorsSound
<1>2. /\ content' = content /\ replaced' = replaced /\ srcNow' = srcNow + 1 /\ srcNow \in Nat
      /\ \A i : TextAt(f, i)' = TextAt(f, i)
      /\ \A e : Journaled(e) => Journaled(e)'
  BY <1>1, CycleLeaves
<1>3. missed \subseteq missed'
  BY DEF CycleDoes
<1>4. c.at \in Nat
  BY CursorsTyped
<1>5. Timely(f, c)'
  BY <1>1, <1>2, <1>4 DEF Timely
<1>6. InFile(f, c)'
  BY <1>1, <1>2, <1>3 DEF InFile
<1>7. PaidFor(f, c)'
  BY <1>1, <1>2, <1>3 DEF PaidFor
<1> QED
  BY <1>5, <1>6, <1>7

\* The cursor that a cycle writes is sound: that of a plan,
LEMMA CyclePlanCursor ==
  ASSUME NEW got, NEW kept, SourceInv, CycleDoes(got, kept),
         NEW f \in got.read, SourceKind(f) = "plan", got.updates[f] \in SourceCursor,
         kept = Len(got.events) \/ \E k \in 1..kept : got.events[k].file = f
  PROVE  LET c == got.updates[f]
         IN Timely(f, c)' /\ InFile(f, c)' /\ PaidFor(f, c)'
<1> DEFINE b == Resumed.cursors[f]
           c == got.updates[f]
           all == content[f].records
           E == got.events
<1>1. f \in SrcFile
  BY DEF CycleDoes, CollectState
<1>2. /\ b \in CursorOrNone /\ Kept(f, b)
      /\ b # NoSrcCursor => b \in SourceCursor /\ PaidFor(f, b)
      /\ Resumed.cursors \in [SrcFile -> CursorOrNone]
      /\ got \in CollectState /\ Gathered(Resumed.cursors, got, Len(Files))
      /\ content \in [SrcFile -> FileContent] /\ srcNow \in Nat
      /\ all \in FileRecords /\ Len(all) \in Nat /\ MaxRecords \in Nat
  BY <1>1, CycleReads
<1>3. /\ all = <<>> => c = b
      /\ all # <<>> => c = CursorAt(0, all, srcNow)
      /\ all # <<>> /\ f \notin got.dropped =>
           (b # NoSrcCursor /\ b.digest = all) \/ \E k \in 1..Len(E) : E[k] = SourceEvent(f, 1, all)
  BY <1>2, PlanRead
<1>4. SourceTyped
  BY DEF SourceInv
<1>5. /\ content' = content /\ replaced' = replaced /\ srcNow' = srcNow + 1
      /\ \A e : Journaled(e) => Journaled(e)'
  BY <1>4, CycleLeaves
<1>6. missed \cup got.dropped \subseteq missed'
  BY DEF CycleDoes
<1>7. CASE all = <<>>
  <2>1. Kept(f, c)
    BY <1>2, <1>3, <1>7
  <2> HIDE DEF c
  <2>2. c \in SourceCursor
    BY DEF c
  <2>3. Timely(f, c)' /\ InFile(f, c)' /\ PaidFor(f, c)'
    BY <1>1, <2>1, <2>2, CycleKeepsOld
  <2> QED
    BY <2>3 DEF c
<1>8. CASE all # <<>>
  <2>1. c.cursor = 0 /\ c.digest = all /\ c.at = srcNow
    BY <1>3, <1>8 DEF CursorAt
  <2> HIDE DEF c
  <2>2. Timely(f, c)'
    BY <1>2, <1>5, <2>1 DEF Timely
  <2>3. InFile(f, c)'
    BY <1>2, <1>5, <2>1 DEF InFile
  <2>6. PICK ev : ev = SourceEvent(f, 1, all)
    OBVIOUS
  <2>4. ASSUME f \notin replaced' \cup missed' PROVE Journaled(ev)'
    <3>1. f \notin got.dropped /\ f \notin replaced \cup missed
      BY <1>5, <1>6, <2>4
    <3>2. CASE b # NoSrcCursor /\ b.digest = all
      <4>1. Journaled(ev)
        BY <1>2, <2>6, <3>1, <3>2 DEF PaidFor
      <4> QED
        BY <1>5, <4>1
    <3>3. CASE \E k \in 1..Len(E) : E[k] = SourceEvent(f, 1, all)
      <4>1. PICK k \in 1..Len(E) : E[k] = ev
        BY <2>6, <3>3
      <4>2. E[k].file = f
        BY <2>6, <4>1 DEF SourceEvent
      <4>3. Journaled(E[k])'
        BY <1>1, <1>4, <2>4, <4>2, CycleWrites
      <4> QED
        BY <4>1, <4>3
    <3> QED
      BY <1>3, <1>8, <3>1, <3>2, <3>3
  <2>5. PaidFor(f, c)'
    <3>1. SourceEvent(f, 1, c.digest) = ev
      BY <2>1, <2>6
    <3> HIDE DEF all
    <3> QED
      BY <2>4, <3>1 DEF PaidFor
  <2> QED
    BY <2>2, <2>3, <2>5 DEF c
<1> QED
  BY <1>7, <1>8

\* and that of any other file.
LEMMA CycleTailCursor ==
  ASSUME NEW got, NEW kept, SourceInv, CycleDoes(got, kept),
         NEW f \in got.read, SourceKind(f) # "plan",
         kept = Len(got.events) \/ \E k \in 1..kept : got.events[k].file = f
  PROVE  LET c == got.updates[f]
         IN Timely(f, c)' /\ InFile(f, c)' /\ PaidFor(f, c)'
<1> DEFINE b == Resumed.cursors[f]
           c == got.updates[f]
           all == content[f].records
           E == got.events
           from == StartOf(f, b)
<1>1. f \in SrcFile
  BY DEF CycleDoes, CollectState
<1>2. /\ b \in CursorOrNone
      /\ b # NoSrcCursor => b \in SourceCursor /\ PaidFor(f, b)
      /\ Resumed.cursors \in [SrcFile -> CursorOrNone]
      /\ got \in CollectState /\ Gathered(Resumed.cursors, got, Len(Files))
      /\ content \in [SrcFile -> FileContent] /\ srcNow \in Nat
      /\ Len(all) \in Nat /\ MaxRecords \in Nat /\ Len(all) <= MaxRecords
  BY <1>1, CycleReads
<1>3. /\ c \in SourceCursor /\ c.at = srcNow /\ c.cursor <= Len(all)
      /\ SourceKind(f) \in {"json", "jsonl"} => c.digest = content[f]
      /\ Unreadable(f) /\ SourceKind(f) = "json" => c.cursor = 0
      /\ ~Unreadable(f) /\ f \notin got.dropped => \A i \in from + 1 .. c.cursor :
           TextAt(f, i) # NoText => \E k \in 1..Len(E) : E[k] = SourceEvent(f, i, TextAt(f, i))
  BY <1>2, TailRead
<1>4. SourceTyped
  BY DEF SourceInv
<1>5. /\ content' = content /\ replaced' = replaced /\ srcNow' = srcNow + 1
      /\ \A i : TextAt(f, i)' = TextAt(f, i)
      /\ \A e : Journaled(e) => Journaled(e)'
  BY <1>1, <1>4, CycleLeaves
<1>6. missed \cup got.dropped \subseteq missed' /\ (content[f].partial => f \in missed')
  BY DEF CycleDoes
<1>7. from \in Nat /\ (from = 0 \/ (b # NoSrcCursor /\ from = b.cursor))
  <2>1. Len(Records(f)) \in Nat
    BY <1>1, <1>2, RecordsIs
  <2> HIDE DEF b
  <2> QED
    BY <1>1, <1>2, <2>1, StartIs
<1> HIDE DEF c, b
<1>8. c.cursor \in Nat
  BY <1>3, CursorsTyped
<1>9. Timely(f, c)'
  BY <1>2, <1>3, <1>5, <1>8 DEF Timely
<1>10. InFile(f, c)'
  <2>1. f \notin missed' => ~content[f].partial
    BY <1>6
  <2>2. SourceKind(f) = "json" /\ 0 < c.cursor => ~content[f].partial
    BY <1>3 DEF Unreadable
  <2>3. SourceKind(f) \in {"json", "jsonl"} => c.digest = content[f]
    BY <1>3
  <2> QED
    BY <1>3, <1>5, <2>1, <2>2, <2>3 DEF InFile
<1>11. ASSUME f \notin replaced' \cup missed', NEW i \in 1..c.cursor, TextAt(f, i) # NoText,
              NEW ev, ev = SourceEvent(f, i, TextAt(f, i))
       PROVE  Journaled(ev)'
  <2>1. f \notin got.dropped /\ f \notin replaced \cup missed /\ ~Unreadable(f)
    BY <1>5, <1>6, <1>11 DEF Unreadable
  <2>2. CASE i <= from
    <3>1. b # NoSrcCursor /\ i \in 1..b.cursor
      BY <1>7, <1>8, <2>2
    <3>2. Journaled(ev)
      BY <1>2, <1>11, <2>1, <3>1 DEF PaidFor
    <3> QED
      BY <1>5, <3>2
  <2>3. CASE ~(i <= from)
    <3>1. i \in from + 1 .. c.cursor
      BY <1>7, <1>8, <2>3
    <3>2. PICK k \in 1..Len(E) : E[k] = ev
      BY <1>3, <1>11, <2>1, <3>1
    <3>3. E[k].file = f
      BY <1>11, <3>2 DEF SourceEvent
    <3>4. f \in SrcFile \ missed'
      BY <1>1, <1>11
    <3>5. Journaled(E[k])'
      BY <1>4, <3>3, <3>4, CycleWrites
    <3> QED
      BY <3>2, <3>5
  <2> QED
    BY <2>2, <2>3
<1>12. PaidFor(f, c)'
  <2> SUFFICES ASSUME f \notin replaced' \cup missed', NEW i \in 1..c.cursor,
                      TextAt(f, i)' # NoText
               PROVE  Journaled(SourceEvent(f, i, TextAt(f, i)))'
    BY DEF PaidFor
  <2>1. TextAt(f, i)' = TextAt(f, i)
    BY <1>5
  <2>2. PICK ev : ev = SourceEvent(f, i, TextAt(f, i))
    OBVIOUS
  <2>3. Journaled(ev)'
    BY <1>11, <2>1, <2>2
  <2>4. SourceEvent(f, i, TextAt(f, i))' = ev
    BY <2>1, <2>2 DEF SourceEvent
  <2> QED
    BY <2>3, <2>4 DEF Journaled
<1> QED
  BY <1>9, <1>10, <1>12 DEF c

\* So the cursors are sound after a cycle,
LEMMA CycleCursors ==
  ASSUME NEW got, NEW kept, SourceInv, CycleDoes(got, kept)
  PROVE  CursorsSound'
<1> SUFFICES ASSUME NEW f \in SrcFile, NEW c \in SourceCursor, Kept(f, c)'
             PROVE  Timely(f, c)' /\ InFile(f, c)' /\ PaidFor(f, c)'
  BY DEF CursorsSound
<1>1. CASE Kept(f, c)
  BY <1>1, CycleKeepsOld
<1>2. CASE ~Kept(f, c)
  <2>1. /\ f \in got.read /\ c = got.updates[f]
        /\ kept = Len(got.events) \/ \E k \in 1..kept : got.events[k].file = f
    BY <1>2 DEF CycleDoes
  <2>2. CASE SourceKind(f) = "plan"
    BY <2>1, <2>2, CyclePlanCursor
  <2>3. CASE SourceKind(f) # "plan"
    BY <2>1, <2>3, CycleTailCursor
  <2> QED
    BY <2>2, <2>3
<1> QED
  BY <1>1, <1>2

\* what was seen last of a plan is the longest,
LEMMA CyclePlans ==
  ASSUME NEW got, NEW kept, SourceInv, CycleDoes(got, kept)
  PROVE  PlansGrow'
<1>1. SourceTyped /\ PlansGrow /\ CursorsSound
  BY DEF SourceInv
<1>2. replaced' = replaced
  BY <1>1, CycleLeaves
<1> SUFFICES ASSUME NEW f \in SrcFile, NEW c \in SourceCursor, NEW d \in SourceCursor,
                    Kept(f, c)', Kept(f, d)', f \notin replaced, SourceKind(f) = "plan", c.at <= d.at
             PROVE  Len(c.digest) <= Len(d.digest)
  BY <1>2 DEF PlansGrow
<1> DEFINE b == Resumed.cursors[f]
           all == content[f].records
           u == got.updates[f]
           New(x) == x = CursorAt(0, all, srcNow)
<1>3. /\ b \in CursorOrNone /\ Kept(f, b) /\ Resumed.cursors \in [SrcFile -> CursorOrNone]
      /\ got \in CollectState /\ Gathered(Resumed.cursors, got, Len(Files))
      /\ content \in [SrcFile -> FileContent] /\ srcNow \in Nat /\ Len(all) \in Nat
  BY CycleReads
<1>4. \A x \in SourceCursor : Kept(f, x)' => Kept(f, x) \/ New(x)
  <2> SUFFICES ASSUME NEW x \in SourceCursor, Kept(f, x)', ~Kept(f, x) PROVE New(x)
    OBVIOUS
  <2>1. f \in got.read /\ x = u
    BY DEF CycleDoes
  <2>2. (all = <<>> => u = b) /\ (all # <<>> => u = CursorAt(0, all, srcNow))
    BY <1>3, <2>1, PlanRead
  <2> HIDE DEF all, b, u
  <2> QED
    BY <1>3, <2>1, <2>2
<1>5. \A x \in SourceCursor : Kept(f, x) => x.at < srcNow /\ Len(x.digest) <= Len(all)
  BY <1>1 DEF CursorsSound, Timely, InFile
<1>6. \A x : New(x) => x.at = srcNow /\ x.digest = all
  BY DEF CursorAt
<1>7. c.at \in Nat /\ d.at \in Nat
  BY CursorsTyped
<1> HIDE DEF all, b, u, New
<1>8. CASE Kept(f, c) /\ Kept(f, d)
  BY <1>1, <1>8 DEF PlansGrow
<1>9. CASE Kept(f, c) /\ New(d)
  BY <1>5, <1>6, <1>9
<1>10. CASE New(c) /\ Kept(f, d)
  BY <1>3, <1>5, <1>6, <1>7, <1>10
<1>11. CASE New(c) /\ New(d)
  BY <1>3, <1>6, <1>11
<1> QED
  BY <1>4, <1>8, <1>9, <1>10, <1>11

\* the entries are in order and their cursors past them,
LEMMA CycleEntries ==
  ASSUME NEW got, NEW kept, SourceInv, CycleDoes(got, kept)
  PROVE  EntriesSound' /\ SequencesRise'
<1> DEFINE J == srcJournal
           L == Len(J)
           K == srcJournal'
           E == got.events
<1>1. SourceTyped /\ EntriesSound /\ SequencesRise
  BY DEF SourceInv
<1>2. /\ J \in Seq(SrcEntry) /\ L \in Nat /\ Resumed.next \in Nat
      /\ \A i \in 1..L : Resumed.next > J[i].seq
  BY <1>1, StartOfCycle DEF SourceTyped, CatchState
<1>3. /\ K \in Seq(SrcEntry) /\ Len(K) = L + kept /\ kept \in 0..Len(E)
      /\ got \in CollectState /\ Gathered(Resumed.cursors, got, Len(Files))
      /\ \A i \in 1..L : i \in 1..L + kept /\ K[i] = J[i]
      /\ \A i \in 1..L + kept : i \notin 1..L =>
           /\ i - L \in 1..kept /\ K[i].seq = Resumed.next + (i - L) - 1
           /\ K[i].event = E[i - L] /\ K[i].cursor = got.updates[E[i - L].file]
  BY DEF CycleDoes
<1>4. E \in Seq(SrcEvent) /\ Len(E) \in Nat
  BY <1>3 DEF CollectState
<1>5. ASSUME NEW k \in 1..Len(E)
      PROVE  /\ SourceKind(E[k].file) = "plan" =>
                  E[k].line = 1 /\ E[k].text = got.updates[E[k].file].digest
             /\ SourceKind(E[k].file) # "plan" => E[k].line \in 1..got.updates[E[k].file].cursor
  <2> DEFINE f == E[k].file
             c == Resumed.cursors[f]
             u == got.updates[f]
             all == content[f].records
  <2>1. f \in got.read /\ f \in SrcFile
    <3>1. E[k] \in SrcEvent
      BY <1>4
    <3>2. f \in got.read
      BY <1>3 DEF Gathered
    <3> HIDE DEF E
    <3> QED
      BY <3>1, <3>2 DEF SrcEvent
  <2>2. /\ Resumed.cursors \in [SrcFile -> CursorOrNone] /\ c \in CursorOrNone
        /\ content \in [SrcFile -> FileContent] /\ srcNow \in Nat
    <3> HIDE DEF f
    <3> QED
      BY <2>1, CycleReads
  <2>3. CASE SourceKind(f) = "plan"
    <3>1. /\ all # <<>> => u = CursorAt(0, all, srcNow)
          /\ \A l \in 1..Len(E) : E[l].file = f => all # <<>> /\ E[l] = SourceEvent(f, 1, all)
      <4> HIDE DEF f
      <4> QED
        BY <1>3, <2>1, <2>2, <2>3, PlanRead
    <3>2. all # <<>> /\ E[k] = SourceEvent(f, 1, all)
      BY <3>1
    <3>3. SourceEvent(f, 1, all).line = 1 /\ SourceEvent(f, 1, all).text = all
      BY DEF SourceEvent
    <3>4. CursorAt(0, all, srcNow).digest = all
      BY DEF CursorAt
    <3>5. E[k].line = 1 /\ E[k].text = u.digest
      <4> HIDE DEF f, u, all
      <4> QED
        BY <3>1, <3>2, <3>3, <3>4
    <3> QED
      BY <2>3, <3>5
  <2>4. CASE SourceKind(f) # "plan"
    <3> DEFINE from == StartOf(f, c)
    <3>1. /\ u \in SourceCursor
          /\ \A l \in 1..Len(E) : E[l].file = f => E[l].line \in from + 1 .. u.cursor
      <4> HIDE DEF f
      <4> QED
        BY <1>3, <2>1, <2>2, <2>4, TailRead
    <3>2. from \in Nat
      <4>1. Len(Records(f)) \in Nat
        BY <2>1, <2>2, RecordsIs
      <4>2. from \in 0..Len(Records(f))
        <5> HIDE DEF c, f
        <5> QED
          BY <2>1, <2>2, StartIs
      <4> QED
        BY <4>1, <4>2
    <3>3. u.cursor \in Nat
      BY <3>1, CursorsTyped
    <3>4. E[k].line \in from + 1 .. u.cursor
      BY <3>1
    <3> HIDE DEF from, u
    <3>5. E[k].line \in 1..u.cursor
      BY <3>2, <3>3, <3>4
    <3> QED
      BY <2>4, <3>5 DEF u
  <2> QED
    BY <2>3, <2>4
<1> HIDE DEF J, L, K, E
<1>6. \A i \in 1..L + kept : EntrySound(K[i])
  <2> SUFFICES ASSUME NEW i \in 1..L + kept PROVE EntrySound(K[i])
    OBVIOUS
  <2>1. CASE i \in 1..L
    BY <1>1, <1>3, <2>1 DEF EntriesSound, J, L
  <2>2. CASE i \notin 1..L
    <3> DEFINE k == i - L
    <3>1. k \in 1..kept /\ K[i].event = E[k] /\ K[i].cursor = got.updates[E[k].file]
      BY <1>3, <2>2
    <3>2. k \in 1..Len(E)
      BY <1>3, <1>4, <3>1
    <3> HIDE DEF k
    <3> QED
      BY <1>5, <3>1, <3>2 DEF EntrySound
  <2> QED
    BY <2>1, <2>2
<1>7. EntriesSound'
  <2>1. (\A e : EntrySound(e)' <=> EntrySound(e))
    BY DEF EntrySound, SourceKind
  <2> QED
    BY <1>3, <1>6 DEF EntriesSound, K, EntrySound, SourceKind
<1>8. ASSUME NEW i \in 1..L + kept, NEW j \in 1..L + kept, i < j PROVE K[i].seq < K[j].seq
  <2>1. i \in Int /\ j \in Int /\ kept \in Nat
    BY <1>2, <1>3, <1>4
  <2>2. CASE j \in 1..L
    <3>1. i \in 1..L
      BY <1>2, <1>8, <2>1, <2>2
    <3> QED
      BY <1>1, <1>2, <1>3, <1>8, <2>2, <3>1 DEF SequencesRise, J, L
  <2>3. CASE i \in 1..L /\ j \notin 1..L
    <3>1. K[i] = J[i] /\ Resumed.next > J[i].seq /\ J[i].seq \in Nat
      <4>1. J[i] \in SrcEntry
        <5>1. i \in 1..Len(J)
          BY <2>3 DEF L
        <5> QED
          BY <1>2, <5>1
      <4>2. J[i].seq \in Nat
        BY <4>1 DEF SrcEntry
      <4> QED
        BY <1>2, <1>3, <2>3, <4>2
    <3>2. j - L \in 1..kept /\ K[j].seq = Resumed.next + (j - L) - 1
      BY <1>3, <2>3
    <3> QED
      BY <1>2, <2>1, <3>1, <3>2
  <2>4. CASE i \notin 1..L /\ j \notin 1..L
    <3>1. /\ K[i].seq = Resumed.next + (i - L) - 1
          /\ K[j].seq = Resumed.next + (j - L) - 1
      BY <1>3, <2>4
    <3> QED
      BY <1>2, <1>8, <2>1, <3>1
  <2> QED
    BY <2>2, <2>3, <2>4
<1>9. SequencesRise'
  BY <1>3, <1>8 DEF SequencesRise, K
<1> QED
  BY <1>7, <1>9

\* no event is journaled twice,
LEMMA CycleTwice ==
  ASSUME NEW got, NEW kept, SourceInv, CycleDoes(got, kept)
  PROVE  NothingTwice'
<1> DEFINE J == srcJournal
           L == Len(J)
           K == srcJournal'
           E == got.events
<1>1. SourceTyped /\ EntriesSound /\ NothingTwice /\ CursorsSound /\ PlansGrow
  BY DEF SourceInv
<1>2. J \in Seq(SrcEntry) /\ L \in Nat
  BY <1>1 DEF SourceTyped
<1>3. /\ K \in Seq(SrcEntry) /\ Len(K) = L + kept /\ kept \in 0..Len(E)
      /\ got \in CollectState /\ Gathered(Resumed.cursors, got, Len(Files))
      /\ \A i \in 1..L : i \in 1..L + kept /\ K[i] = J[i]
      /\ \A i \in 1..L + kept : i \notin 1..L => i - L \in 1..kept /\ K[i].event = E[i - L]
      /\ missed \subseteq missed'
  BY DEF CycleDoes
<1>4. /\ E \in Seq(SrcEvent) /\ Len(E) \in Nat /\ \A k, l \in 1..Len(E) : E[k] = E[l] => k = l
      /\ \A k \in 1..Len(E) : E[k].file \in got.read /\ E[k].file \in SrcFile
  BY <1>3 DEF CollectState, Gathered, SrcEvent
<1>5. replaced' = replaced /\ \A f \in SrcFile : OverCap(f)' = OverCap(f)
  BY <1>1, CycleLeaves
<1> HIDE DEF J, K, L, E
<1> SUFFICES ASSUME NEW i \in 1..L + kept, NEW j \in 1..L + kept, i < j, K[i].event = K[j].event,
                    NEW f, f = K[i].event.file,
                    ~(f \in replaced \/ OverCap(f)' \/ (SourceKind(f) = "jsonl" /\ f \in missed'))
             PROVE  FALSE
  BY <1>3, <1>5 DEF NothingTwice, K
<1>6. f \in SrcFile
  <2>1. K[i] \in SrcEntry
    BY <1>3
  <2> QED
    BY <2>1 DEF SrcEntry, SrcEvent
<1>7. f \notin replaced /\ ~OverCap(f) /\ ~(SourceKind(f) = "jsonl" /\ f \in missed)
  BY <1>3, <1>5, <1>6
<1>8. CASE j \in 1..L
  <2>1. i \in 1..L
    BY <1>2, <1>8
  <2>2. J[i] = K[i] /\ J[j] = K[j]
    BY <1>3, <1>8, <2>1
  <2>3. J[i].event = J[j].event /\ f = J[i].event.file
    BY <2>2
  <2> QED
    BY <1>1, <1>2, <1>7, <1>8, <2>1, <2>3 DEF NothingTwice, J, L
<1>9. CASE i \notin 1..L /\ j \notin 1..L
  <2> DEFINE k == i - L
             l == j - L
  <2>1. k \in 1..kept /\ K[i].event = E[k] /\ l \in 1..kept /\ K[j].event = E[l]
    BY <1>3, <1>9
  <2>2. k \in 1..Len(E) /\ l \in 1..Len(E)
    BY <1>3, <1>4, <2>1
  <2>3. k # l
    BY <1>2
  <2> HIDE DEF k, l
  <2> QED
    BY <1>4, <2>1, <2>2, <2>3
<1>10. CASE i \in 1..L /\ j \notin 1..L
  <2> DEFINE k == j - L
             e == J[i]
             b == Resumed.cursors[f]
             c == e.cursor
             all == content[f].records
             u == got.updates[f]
  <2>1. k \in 1..kept /\ K[j].event = E[k] /\ K[i] = e
    BY <1>3, <1>10
  <2>2. k \in 1..Len(E)
    BY <1>3, <1>4, <2>1
  <2>3. e \in SrcEntry /\ e.event = E[k] /\ e.event.file = f /\ E[k].file = f
    BY <1>2, <1>10, <2>1 DEF L
  <2>4. f \in got.read
    BY <1>4, <2>2, <2>3
  <2>5. c \in SourceCursor /\ Kept(f, c) /\ EntrySound(e)
    BY <1>1, <1>10, <2>3 DEF SrcEntry, Kept, EntriesSound, J, L
  <2> HIDE DEF k, e, c, b, all, u
  <2>6. /\ b \in CursorOrNone /\ Kept(f, b) /\ Resumed.cursors \in [SrcFile -> CursorOrNone]
        /\ b # NoSrcCursor => b \in SourceCursor /\ Timely(f, b) /\ InFile(f, b)
        /\ content \in [SrcFile -> FileContent] /\ srcNow \in Nat /\ Len(all) \in Nat
        /\ all \in FileRecords
    BY <1>6, CycleReads DEF b, all
  <2>7. Below(c, b)
    BY <1>1, <1>6, <2>5, StartOfCycle DEF b
  <2>8. c # NoSrcCursor /\ c.cursor \in Nat /\ c.at \in Nat
    BY <2>5, CursorsTyped
  <2>9. b # NoSrcCursor
    BY <2>7, <2>8 DEF Below
  <2>10. b \in SourceCursor /\ Timely(f, b) /\ InFile(f, b) /\ b.cursor \in Nat /\ b.at \in Nat
    BY <2>6, <2>9, CursorsTyped
  <2>11. CASE SourceKind(f) = "plan"
    <3>1. /\ E[k] = SourceEvent(f, 1, all) /\ ~(b # NoSrcCursor /\ b.digest = all)
      <4>1. got \in CollectState /\ Gathered(Resumed.cursors, got, Len(Files))
        BY <1>3
      <4>2. \A x \in 1..Len(E) : E[x].file = f =>
              E[x] = SourceEvent(f, 1, all) /\ ~(b # NoSrcCursor /\ b.digest = all)
        BY ONLY <2>4, <2>6, <2>11, <4>1, PlanRead DEF E, b, all
      <4> QED
        BY <2>2, <2>3, <4>2
    <3>2. e.event.text = all
      BY <2>3, <3>1 DEF SourceEvent
    <3>3. c.digest = all
      BY <2>3, <2>5, <2>11, <3>2 DEF EntrySound, c
    <3>4. Timely(f, c)
      BY <1>1, <1>6, <2>5 DEF CursorsSound
    <3>5. c.at <= b.at
      BY <2>7, <2>8, <2>10, <2>11, <3>4 DEF Timely, Below
    <3>6. Len(all) <= Len(b.digest)
      BY <1>1, <1>6, <1>7, <2>5, <2>6, <2>10, <2>11, <3>3, <3>5 DEF PlansGrow
    <3>7. /\ b.digest \in FileRecords /\ Len(b.digest) <= Len(all)
          /\ \A x \in 1..Len(b.digest) : b.digest[x] = all[x]
      BY <1>7, <2>10, <2>11 DEF Timely, InFile, all
    <3>8. b.digest = all
      <4> DEFINE a == b.digest
      <4>1. a \in Seq(Said \cup {NoText}) /\ all \in Seq(Said \cup {NoText})
        BY <2>6, <3>7 DEF FileRecords
      <4> HIDE DEF a
      <4>2. Len(a) = Len(all)
        BY <3>6, <3>7, <4>1 DEF a
      <4>3. \A x \in 1..Len(a) : a[x] = all[x]
        BY <3>7 DEF a
      <4> QED
        BY <4>1, <4>2, <4>3 DEF a
    <3> QED
      BY <2>9, <3>1, <3>8
  <2>12. CASE SourceKind(f) # "plan"
    <3> DEFINE from == StartOf(f, b)
    <3>1. E[k].line \in from + 1 .. u.cursor /\ u \in SourceCursor
      BY <1>3, <2>2, <2>3, <2>4, <2>6, <2>12, TailRead DEF E, b, u
    <3>2. E[k].line \in 1..c.cursor
      BY <2>3, <2>5, <2>12 DEF EntrySound, c
    <3>3. c.cursor <= b.cursor
      BY <2>7, <2>8, <2>10 DEF Below
    <3>4. from = b.cursor
      <4>1. Len(Records(f)) = Len(all)
        BY <1>6, <1>7, <2>6, RecordsIs DEF all
      <4>2. b.cursor <= Len(all)
        BY <1>7, <2>10, <2>12 DEF InFile, all
      <4>3. SourceKind(f) \in {"json", "jsonl"} /\ 0 < b.cursor /\ b.cursor = Len(all)
              => b.digest = content[f]
        BY <1>7, <2>10, <2>12 DEF InFile, all
      <4>4. CASE b.cursor = 0
        BY <2>10, <4>4 DEF StartOf
      <4>5. CASE b.cursor # 0
        <5>1. 0 < b.cursor
          BY <2>10, <4>5
        <5>2. ~(b.cursor > Len(Records(f)))
          BY <2>6, <2>10, <4>1, <4>2
        <5>3. ~(/\ SourceKind(f) \in {"json", "jsonl"}
                /\ b.digest \notin {NoDigest, content[f]} /\ b.cursor = Len(Records(f)))
          BY <4>1, <4>3, <5>1
        <5> QED
          BY <2>9, <5>2, <5>3 DEF StartOf
      <4> QED
        BY <4>4, <4>5
    <3>5. u.cursor \in Nat
      BY <3>1, CursorsTyped
    <3> HIDE DEF from
    <3> QED
      BY <2>8, <2>10, <3>1, <3>2, <3>3, <3>4, <3>5
  <2> QED
    BY <2>11, <2>12
<1> QED
  BY <1>8, <1>9, <1>10

\* the variables have their types and no refused root is read,
LEMMA CycleTyped ==
  ASSUME NEW got, NEW kept, SourceInv, CycleDoes(got, kept)
  PROVE  SourceTyped' /\ Refusals' /\ RefusalsHold'
<1>1. SourceTyped /\ Refusals /\ RefusalsHold
  BY DEF SourceInv
<1>2. SourceTyped'
  <2>1. UNCHANGED <<setup, content, replaced, refused>> /\ srcNow' \in Nat
    BY <1>1 DEF CycleDoes, SourceTyped
  <2> QED
    BY <1>1, <2>1 DEF CycleDoes, SourceTyped
<1>3. UNCHANGED <<setup, refused>>
  BY DEF CycleDoes
<1>4. Refusals'
  BY <1>1, <1>3 DEF Refusals
<1>5. ASSUME NEW f \in got.read, RootOf[f] \in refused \ setup.roots PROVE FALSE
  <2> DEFINE r == RootOf[f]
             s == SourceKind(f)
  <2>1. r \in SourceRootsFor(s)
    BY DEF CycleDoes, Gathered, OpenFile
  <2>2. setup.bindings[r] = "ignored" /\ r \notin setup.roots /\ SourceOf[r] = s /\ r \in SrcRoot
    <3>1. refused \subseteq SrcRoot
      BY <1>1 DEF SourceTyped
    <3> QED
      BY <1>1, <1>5, <3>1 DEF Refusals, SourceKind
  <2>3. HasManagedBindings(s)
    BY <2>2 DEF HasManagedBindings
  <2>4. r \notin ApprovedRoots(s)
    BY <2>2 DEF ApprovedRoots
  <2> HIDE DEF r, s
  <2> QED
    BY <2>1, <2>2, <2>3, <2>4 DEF SourceRootsFor
<1>6. strayed' = {}
  BY <1>1, <1>5 DEF CycleDoes, RefusalsHold
<1> QED
  BY <1>2, <1>4, <1>6 DEF RefusalsHold

\* a cycle after a complete one journals nothing,
LEMMA CycleSettles ==
  ASSUME NEW got, NEW kept, SourceInv, CycleDoes(got, kept)
  PROVE  CollectionSettles'
<1> SUFFICES ASSUME NEW g \in noisy' PROVE FALSE
  BY DEF CollectionSettles
<1>1. SourcesAtRest /\ noisy = {} /\ SourceTyped
  BY DEF SourceInv, CollectionSettles
<1> DEFINE E == got.events
           b == Resumed.cursors[g]
           all == content[g].records
<1>2. resting /\ g \notin Shorter(Resumed.cursors)
  BY <1>1 DEF CycleDoes
<1>3. PICK k \in 1..Len(E) : E[k].file = g
  BY <1>1 DEF CycleDoes
<1>4. g \in got.read /\ got \in CollectState /\ Gathered(Resumed.cursors, got, Len(Files))
  BY <1>3 DEF CycleDoes, Gathered
<1>5. g \in SrcFile
  BY <1>4 DEF CollectState
<1>6. /\ b \in CursorOrNone /\ Resumed.cursors \in [SrcFile -> CursorOrNone]
      /\ content \in [SrcFile -> FileContent] /\ srcNow \in Nat
  BY <1>5, CycleReads
<1>7. OpenFile(g) /\ NothingLeft(g, b)
  BY <1>1, <1>2, <1>4, <1>5 DEF SourcesAtRest, Gathered
<1>8. CASE SourceKind(g) = "plan"
  <2>1. all # <<>> /\ ~(b # NoSrcCursor /\ b.digest = all)
    BY <1>3, <1>4, <1>6, <1>8, PlanRead
  <2> QED
    BY <1>7, <1>8, <2>1 DEF NothingLeft
<1>9. CASE SourceKind(g) # "plan"
  <2> DEFINE u == got.updates[g]
             from == StartOf(g, b)
             line == E[k].line
  <2>1. /\ line \in from + 1 .. u.cursor /\ ~Unreadable(g) /\ u \in SourceCursor
        /\ u.cursor <= Len(Records(g))
    BY <1>3, <1>4, <1>6, <1>9, TailRead
  <2>2. Len(Records(g)) \in Nat /\ u.cursor \in Nat
    BY <1>5, <1>6, <2>1, RecordsIs, CursorsTyped
  <2>3. from = Len(Records(g)) \/ (b # NoSrcCursor /\ b.cursor > Len(Records(g)))
    BY <1>7, <1>9, <2>1 DEF NothingLeft
  <2> HIDE DEF from, line, u
  <2>4. from # Len(Records(g))
    BY <2>1, <2>2
  <2>5. g \in Shorter(Resumed.cursors)
    BY <1>5, <2>3, <2>4 DEF Shorter
  <2> QED
    BY <1>2, <2>5
<1> QED
  BY <1>8, <1>9

\* Where the next cycle starts from.
LEMMA NextStart ==
  ASSUME SourceTyped'
  PROVE  \A f \in SrcFile : \E c \in CursorOrNone :
           c = Resumed'.cursors[f] /\ Kept(f, c)' /\ Below(srcSaved'[f], c)
<1> DEFINE next == srcNext'
           saved == srcSaved'
           spotted == spots'
           j == srcJournal'
           s == Resumed'
<1>1. /\ next \in Nat \ {0} /\ saved \in [SrcFile -> CursorOrNone]
      /\ spotted \in [SrcFile -> CursorOrNone] /\ j \in Seq(SrcEntry)
  BY DEF SourceTyped
<1>2. s = CaughtUp(CatchFrom(next, MergedCursors(saved, spotted)), j)
  BY DEF Resumed, CatchFrom
<1> DEFINE A == CaughtUp(CatchFrom(next, MergedCursors(saved, spotted)), j)
<1> HIDE DEF next, saved, spotted, j, s
<1>3. /\ A \in CatchState
      /\ \A f \in SrcFile :
           /\ Below(saved[f], A.cursors[f])
           /\ \/ A.cursors[f] = saved[f] \/ A.cursors[f] = spotted[f]
              \/ \E i \in 1..Len(j) : j[i].event.file = f /\ j[i].cursor = A.cursors[f]
  BY <1>1, ResumedIs
<1>4. s = A
  BY <1>2
<1> HIDE DEF A
<1>5. \A f \in SrcFile : s.cursors[f] \in CursorOrNone /\ Below(saved[f], s.cursors[f])
  BY <1>3, <1>4 DEF CatchState
<1> SUFFICES ASSUME NEW f \in SrcFile, NEW c, c = s.cursors[f]
             PROVE  c \in CursorOrNone /\ Kept(f, c)' /\ Below(saved[f], c)
  BY DEF s, saved
<1>6. c = saved[f] \/ c = spotted[f] \/ \E i \in 1..Len(j) : j[i].event.file = f /\ j[i].cursor = c
  BY <1>3, <1>4
<1>7. Kept(f, c)'
  BY <1>6 DEF Kept, saved, spotted, j
<1> QED
  BY <1>5, <1>7

\* A cycle that was complete leaves nothing to read.
LEMMA CycleRests ==
  ASSUME NEW got, NEW kept, SourceInv, CycleDoes(got, kept), SourceTyped'
  PROVE  SourcesAtRest'
<1> SUFFICES ASSUME resting'
             PROVE  ~ReadsAFolder' /\ \A f \in SrcFile : OpenFile(f)' => NothingLeft(f, Resumed.cursors[f])'
  BY DEF SourcesAtRest
<1> DEFINE E == got.events
<1>1. SourceTyped /\ CursorsSound
  BY DEF SourceInv
<1>2. /\ content' = content /\ ReadsAFolder' = ReadsAFolder
      /\ \A f \in SrcFile : /\ Records(f)' = Records(f) /\ Unreadable(f)' = Unreadable(f)
                            /\ OpenFile(f)' = OpenFile(f)
                            /\ \A c : StartOf(f, c)' = StartOf(f, c)
  BY <1>1, CycleLeaves
<1>3. /\ got \in CollectState /\ Gathered(Resumed.cursors, got, Len(Files))
      /\ Len(E) < CycleLimit /\ ~ReadsAFolder
      /\ \A f \in SrcFile : Below(got.updates[f], srcSaved'[f])
  BY DEF CycleDoes
<1>4. ASSUME NEW f \in SrcFile, OpenFile(f), NEW z, z = Resumed'.cursors[f]
      PROVE  NothingLeft(f, z)'
  <2> DEFINE b == Resumed.cursors[f]
             u == got.updates[f]
             all == content[f].records
  <2>1. f \in got.read
    <3>1. f \in Range(Files)
      BY DEF SrcFile
    <3>2. \E j \in 1..Len(Files) : f = Files[j]
      BY <3>1, FilesAssumption DEF Range
    <3> QED
      BY <1>3, <1>4, <3>2 DEF Gathered
  <2>2. z \in CursorOrNone /\ Kept(f, z)' /\ Below(srcSaved'[f], z)
    BY <1>4, NextStart
  <2>3. /\ b \in CursorOrNone /\ Resumed.cursors \in [SrcFile -> CursorOrNone]
        /\ content \in [SrcFile -> FileContent] /\ srcNow \in Nat
    BY CycleReads
  <2>4. u \in CursorOrNone /\ srcSaved'[f] \in CursorOrNone
    BY <1>3 DEF CollectState, SourceTyped
  <2>5. Below(u, z)
    <3> HIDE DEF u
    <3> QED
      BY <1>3, <2>2, <2>4, BelowOrders DEF u
  <2>6. Kept(f, z) \/ z = u
    BY <2>2 DEF CycleDoes
  <2>7. z # NoSrcCursor /\ Kept(f, z) => z.at < srcNow /\ (SourceKind(f) = "plan" => z.cursor = 0)
    BY <1>1, <2>2 DEF CursorsSound, Timely, CursorOrNone
  <2>8. z # NoSrcCursor => z \in SourceCursor /\ z.cursor \in Nat /\ z.at \in Nat
    BY <2>2, CursorsTyped DEF CursorOrNone
  <2>9. CASE SourceKind(f) = "plan"
    <3>1. all # <<>> => u = CursorAt(0, all, srcNow)
      BY <1>3, <2>1, <2>3, <2>9, PlanRead
    <3>2. all # <<>> => u \in SourceCursor /\ u.cursor = 0 /\ u.at = srcNow /\ u.digest = all
      <4>1. all \in FileRecords
        BY <2>3, RecordsIs
      <4>2. CursorAt(0, all, srcNow) = [cursor |-> 0, digest |-> all, at |-> srcNow]
        BY DEF CursorAt
      <4> HIDE DEF u, all
      <4> QED
        BY <2>3, <3>1, <4>1, <4>2 DEF SourceCursor
    <3>3. ASSUME all # <<>> PROVE z # NoSrcCursor /\ z.digest = all
      <4> HIDE DEF u, all
      <4>1. u \in SourceCursor /\ u # NoSrcCursor
        BY <3>2, <3>3, CursorsTyped
      <4>2. z # NoSrcCursor
        BY <2>5, <4>1 DEF Below
      <4>3. ~Kept(f, z)
        BY <2>3, <2>5, <2>7, <2>8, <2>9, <3>2, <3>3, <4>1, <4>2 DEF Below
      <4> QED
        BY <2>6, <3>2, <3>3, <4>2, <4>3
    <3> QED
      BY <1>2, <2>9, <3>3 DEF NothingLeft
  <2>10. CASE SourceKind(f) # "plan"
    <3> DEFINE n == Len(Records(f))
    <3>1. /\ u \in SourceCursor /\ u.at = srcNow
          /\ SourceKind(f) \in {"json", "jsonl"} => u.digest = content[f]
          /\ ~Unreadable(f) => u.cursor = n
      BY <1>3, <2>1, <2>3, <2>10, TailRead
    <3>2. n \in Nat /\ u # NoSrcCursor /\ u.cursor \in Nat
      BY <2>3, <3>1, RecordsIs, CursorsTyped
    <3>3. ASSUME ~Unreadable(f)
          PROVE  (z # NoSrcCursor /\ z.cursor > n) \/ StartOf(f, z) = n
      <4> HIDE DEF u
      <4>1. z # NoSrcCursor
        BY <2>5, <3>2 DEF Below
      <4>2. CASE z.cursor > n
        BY <4>1, <4>2
      <4>3. CASE ~(z.cursor > n)
        <5>1. z.cursor = n /\ u.at <= z.at
          BY <2>5, <2>8, <3>1, <3>2, <3>3, <4>1, <4>3 DEF Below
        <5>2. z = u
          BY <2>3, <2>6, <2>7, <2>8, <3>1, <4>1, <5>1
        <5>3. SourceKind(f) \in {"json", "jsonl"} => z.digest = content[f]
          BY <3>1, <5>2
        <5>4. StartOf(f, z) = z.cursor
          BY <4>1, <4>3, <5>3 DEF StartOf
        <5> QED
          BY <5>1, <5>4
      <4> QED
        BY <4>2, <4>3
    <3> QED
      BY <1>2, <2>10, <3>3 DEF NothingLeft
  <2> QED
    BY <2>9, <2>10
<1>5. \A f \in SrcFile : OpenFile(f)' => NothingLeft(f, Resumed.cursors[f])'
  <2> SUFFICES ASSUME NEW f \in SrcFile, OpenFile(f)' PROVE NothingLeft(f, Resumed.cursors[f])'
    OBVIOUS
  <2>1. OpenFile(f)
    BY <1>2
  <2>2. PICK z : z = Resumed'.cursors[f]
    OBVIOUS
  <2>3. NothingLeft(f, z)'
    BY <1>4, <2>1, <2>2
  <2> QED
    BY <2>2, <2>3 DEF NothingLeft, StartOf
<1> QED
  BY <1>2, <1>3, <1>5

\* A step that changes neither a file nor the journal, and writes no new cursor.
LEMMA StillSound ==
  ASSUME SourceInv, UNCHANGED <<content, replaced, missed, srcJournal>>,
         srcNow' \in {srcNow, srcNow + 1},
         \A f \in SrcFile : \A c : Kept(f, c)' => Kept(f, c)
  PROVE  CursorsSound' /\ PlansGrow' /\ EntriesSound' /\ SequencesRise' /\ NothingTwice'
<1>1. /\ SourceTyped /\ CursorsSound /\ PlansGrow /\ EntriesSound /\ SequencesRise /\ NothingTwice
  BY DEF SourceInv
<1>2. ASSUME NEW f \in SrcFile, NEW c \in SourceCursor, Kept(f, c)'
      PROVE  Timely(f, c)' /\ InFile(f, c)' /\ PaidFor(f, c)'
  <2>1. Timely(f, c) /\ InFile(f, c) /\ PaidFor(f, c)
    BY <1>1, <1>2 DEF CursorsSound
  <2>2. srcNow \in Nat /\ c.at \in Nat
    BY <1>1, CursorsTyped DEF SourceTyped
  <2>3. Timely(f, c)'
    BY <2>1, <2>2 DEF Timely
  <2>4. InFile(f, c)'
    BY <2>1 DEF InFile
  <2>5. PaidFor(f, c)'
    BY <2>1 DEF PaidFor, Journaled, TextAt
  <2> QED
    BY <2>3, <2>4, <2>5
<1>3. CursorsSound'
  BY <1>2 DEF CursorsSound
<1>4. PlansGrow'
  BY <1>1 DEF PlansGrow
<1>5. EntriesSound' /\ SequencesRise'
  BY <1>1 DEF EntriesSound, EntrySound, SourceKind, SequencesRise
<1>6. NothingTwice'
  BY <1>1 DEF NothingTwice, OverCap
<1> QED
  BY <1>3, <1>4, <1>5, <1>6

\* What a file says now goes on from what it said.
Grew(f, now) ==
  LET all == content[f].records
  IN /\ \A i \in 1..Len(all) : now.records[i] = all[i]
     /\ \/ ~content[f].partial /\ Len(all) < Len(now.records)
        \/ content[f].partial /\ ~now.partial /\ Len(all) = Len(now.records)

\* An edit of a file, which goes on from what it said or is not one that only grew.
LEMMA EditedSound ==
  ASSUME SourceInv, NEW f \in SrcFile, NEW now \in FileContent, Len(now.records) <= MaxRecords,
         Edited(f, now), replaced' \in {replaced, replaced \cup {f}},
         f \in replaced' \/ Grew(f, now)
  PROVE  SourceInv'
<1>1. /\ SourceTyped /\ CursorsSound /\ PlansGrow /\ EntriesSound /\ SequencesRise /\ NothingTwice
      /\ Refusals /\ RefusalsHold /\ CollectionSettles
  BY DEF SourceInv
<1>2. /\ content' = [content EXCEPT ![f] = now] /\ resting' = FALSE
      /\ UNCHANGED <<setup, srcNext, srcSaved, spots, srcJournal, srcTorn, srcNow,
                     refused, strayed, missed, noisy, srcSaidLast>>
  BY DEF Edited, srcState
<1>3. /\ content \in [SrcFile -> FileContent] /\ replaced \in SUBSET SrcFile
      /\ \A g \in SrcFile : Len(content[g].records) <= MaxRecords
  BY <1>1 DEF SourceTyped
<1>4. content' \in [SrcFile -> FileContent] /\ content'[f] = now
      /\ \A g \in SrcFile \ {f} : content'[g] = content[g]
  BY <1>2, <1>3
<1>5. SourceTyped'
  <2>1. \A g \in SrcFile : Len(content'[g].records) <= MaxRecords
    BY <1>3, <1>4
  <2>2. replaced' \in SUBSET SrcFile
    BY <1>3
  <2> QED
    BY <1>1, <1>2, <1>4, <2>1, <2>2 DEF SourceTyped
<1>6. \A g \in SrcFile : \A c : Kept(g, c)' <=> Kept(g, c)
  BY <1>2 DEF Kept
<1> DEFINE all == content[f].records
           m == Len(all)
           n == Len(now.records)
<1>7. m \in Nat /\ n \in Nat /\ all \in FileRecords /\ now.records \in FileRecords
  <2>1. now.records \in FileRecords
    BY DEF FileContent
  <2> QED
    BY <1>3, <2>1, RecordsIs DEF FileRecords
<1>8. \A g \in SrcFile : g \in replaced => g \in replaced'
  OBVIOUS
<1>9. ASSUME NEW g \in SrcFile, NEW c \in SourceCursor, Kept(g, c)
      PROVE  Timely(g, c)' /\ InFile(g, c)' /\ PaidFor(g, c)'
  <2>1. Timely(g, c) /\ InFile(g, c) /\ PaidFor(g, c)
    BY <1>1, <1>9 DEF CursorsSound
  <2>2. c.cursor \in Nat
    BY CursorsTyped
  <2>3. Timely(g, c)'
    BY <1>2, <2>1 DEF Timely
  <2>4. CASE g # f
    <3>1. content'[g] = content[g] /\ missed' = missed /\ srcJournal' = srcJournal
      BY <1>2, <1>4, <2>4
    <3>2. InFile(g, c)'
      BY <1>8, <2>1, <3>1 DEF InFile
    <3>3. PaidFor(g, c)'
      BY <1>8, <2>1, <3>1 DEF PaidFor, Journaled, TextAt
    <3> QED
      BY <2>3, <3>2, <3>3
  <2>5. CASE g = f /\ f \in replaced'
    BY <2>3, <2>5 DEF InFile, PaidFor
  <2>6. CASE g = f /\ f \notin replaced'
    <3>1. Grew(f, now) /\ f \notin replaced
      BY <1>8, <2>6
    <3> HIDE DEF m, n, all
    <3>2. /\ \A i \in 1..m : now.records[i] = all[i]
          /\ \/ ~content[f].partial /\ m < n
             \/ content[f].partial /\ ~now.partial /\ m = n
      BY <3>1 DEF Grew, m, n, all
    <3>3. SourceKind(f) = "plan" =>
            Len(c.digest) <= m /\ \A i \in 1..Len(c.digest) : c.digest[i] = all[i]
      BY <2>1, <2>6, <3>1 DEF InFile, m, all
    <3>4. SourceKind(f) # "plan" =>
            /\ c.cursor <= m
            /\ f \notin missed /\ content[f].partial => c.cursor < m
            /\ SourceKind(f) = "json" \/ (SourceKind(f) = "jsonl" /\ f \notin missed) =>
                 ~(0 < c.cursor /\ c.cursor = m /\ content[f].partial)
      BY <2>1, <2>6, <3>1 DEF InFile, m, all
    <3>5. SourceKind(f) = "plan" =>
            Len(c.digest) <= n /\ \A i \in 1..Len(c.digest) : c.digest[i] = now.records[i]
      <4> SUFFICES ASSUME SourceKind(f) = "plan"
                   PROVE  Len(c.digest) <= n /\ \A i \in 1..Len(c.digest) : c.digest[i] = now.records[i]
        OBVIOUS
      <4>1. Len(c.digest) \in Nat
        BY <2>1, <2>6 DEF Timely, FileRecords
      <4>2. m <= n
        BY <1>7, <3>2
      <4>3. \A i \in 1..Len(c.digest) : i \in 1..m
        BY <1>7, <3>3, <4>1
      <4> QED
        BY <1>7, <3>2, <3>3, <4>1, <4>2, <4>3
    <3>6. SourceKind(f) # "plan" =>
            /\ c.cursor <= n
            /\ f \notin missed /\ now.partial => c.cursor < n
            /\ SourceKind(f) = "json" \/ (SourceKind(f) = "jsonl" /\ f \notin missed) =>
                 ~(0 < c.cursor /\ c.cursor = n)
      BY <1>7, <2>2, <3>2, <3>4
    <3>7. InFile(f, c)'
      BY <1>2, <1>4, <3>5, <3>6 DEF InFile, n
    <3>8. ASSUME f \notin missed, SourceKind(f) # "plan", NEW i \in 1..c.cursor
          PROVE  TextAt(f, i)' = TextAt(f, i)
      <4>1. i \in 1..m /\ i <= n
        BY <1>7, <2>2, <3>2, <3>4, <3>8
      <4>2. now.records[i] = all[i]
        BY <3>2, <4>1
      <4>3. ~(content[f].partial /\ i = m)
        BY <1>7, <2>2, <3>4, <3>8
      <4>4. ~(now.partial /\ i = n)
        BY <1>7, <3>2, <4>1
      <4> QED
        BY <1>4, <4>2, <4>3, <4>4 DEF TextAt, m, n, all
    <3>9. PaidFor(f, c)'
      <4>1. f \notin replaced' \cup missed' => f \notin replaced \cup missed
        BY <1>2, <3>1
      <4>2. \A e : Journaled(e)' <=> Journaled(e)
        BY <1>2 DEF Journaled
      <4>3. ASSUME f \notin missed', SourceKind(f) = "plan"
            PROVE  Journaled(SourceEvent(f, 1, c.digest))'
        <5>1. Journaled(SourceEvent(f, 1, c.digest))
          BY <1>2, <2>1, <2>6, <3>1, <4>3 DEF PaidFor
        <5> QED
          BY <4>2, <5>1
      <4>4. ASSUME f \notin missed', SourceKind(f) # "plan", NEW i \in 1..c.cursor,
                   TextAt(f, i)' # NoText
            PROVE  Journaled(SourceEvent(f, i, TextAt(f, i)))'
        <5>1. TextAt(f, i)' = TextAt(f, i)
          BY <1>2, <3>8, <4>4
        <5>2. PICK e : e = SourceEvent(f, i, TextAt(f, i))
          OBVIOUS
        <5>3. Journaled(e)
          BY <1>2, <2>1, <2>6, <3>1, <4>4, <5>1, <5>2 DEF PaidFor
        <5>4. SourceEvent(f, i, TextAt(f, i))' = e
          BY <5>1, <5>2 DEF SourceEvent
        <5> QED
          BY <4>2, <5>3, <5>4 DEF Journaled
      <4> QED
        BY <4>3, <4>4 DEF PaidFor
    <3> QED
      BY <2>3, <2>6, <3>7, <3>9
  <2> QED
    BY <2>4, <2>5, <2>6
<1>10. CursorsSound'
  BY <1>6, <1>9 DEF CursorsSound
<1>11. PlansGrow'
  BY <1>1, <1>6, <1>8 DEF PlansGrow
<1>12. EntriesSound' /\ SequencesRise'
  BY <1>1, <1>2 DEF EntriesSound, EntrySound, SourceKind, SequencesRise
<1>13. \A g \in SrcFile : OverCap(g) => OverCap(g)' \/ g \in replaced'
  <2> SUFFICES ASSUME NEW g \in SrcFile, OverCap(g), g \notin replaced' PROVE OverCap(g)'
    OBVIOUS
  <2>1. CASE g # f
    BY <1>4, <2>1 DEF OverCap
  <2>2. CASE g = f
    <3>1. m <= n
      BY <1>7, <2>2 DEF Grew
    <3>2. m > RecordCap /\ RecordCap \in Nat
      BY <2>2, LimitIs DEF OverCap
    <3>3. n > RecordCap
      BY <1>7, <3>1, <3>2
    <3> QED
      BY <1>4, <2>2, <3>3 DEF OverCap
  <2> QED
    BY <2>1, <2>2
<1>14. NothingTwice'
  <2>1. srcJournal \in Seq(SrcEntry)
    BY <1>1 DEF SourceTyped
  <2>2. \A i \in DOMAIN srcJournal : srcJournal[i].event.file \in SrcFile
    <3> SUFFICES ASSUME NEW i \in DOMAIN srcJournal PROVE srcJournal[i].event.file \in SrcFile
      OBVIOUS
    <3>1. srcJournal[i] \in SrcEntry
      BY <2>1
    <3> QED
      BY <3>1 DEF SrcEntry, SrcEvent
  <2>3. srcJournal' = srcJournal /\ missed' = missed
    BY <1>2
  <2> QED
    BY <1>1, <1>8, <1>13, <2>2, <2>3 DEF NothingTwice
<1>15. Refusals' /\ SourcesAtRest' /\ RefusalsHold' /\ CollectionSettles'
  BY <1>1, <1>2 DEF Refusals, SourcesAtRest, RefusalsHold, CollectionSettles
<1> QED
  BY <1>5, <1>10, <1>11, <1>12, <1>14, <1>15 DEF SourceInv

\* Before the first cycle.
LEMMA SourcesStart == SourceInit => SourceInv
<1> SUFFICES ASSUME SourceInit PROVE SourceInv
  OBVIOUS
<1> USE DEF SourceInit
<1>1. setup \in SourceSetup
  <2>1. Unconfigured \in SourceSetup
    BY DEF Unconfigured, SourceSetup, BindingStatus
  <2> QED
    BY <2>1, FilesAssumption
<1>2. content \in [SrcFile -> FileContent] /\ \A f \in SrcFile : Len(content[f].records) <= MaxRecords
  BY FilesAssumption DEF FileContent
<1>3. NoCursors \in [SrcFile -> CursorOrNone] /\ \A f \in SrcFile : NoCursors[f] = NoSrcCursor
  BY DEF NoCursors, CursorOrNone
<1>4. srcJournal \in Seq(SrcEntry) /\ Len(srcJournal) = 0 /\ DOMAIN srcJournal = {}
  OBVIOUS
<1>5. SourceTyped
  <2>1. srcNext \in Nat \ {0} /\ srcTorn \in BOOLEAN /\ srcNow \in Nat
        /\ srcSaidLast \in {"none", "failed", "done", "cut"}
    <3>1. srcNext = 1 /\ srcNow = 0 /\ srcSaidLast = "none"
      BY Zenon
    <3>2. srcTorn \in BOOLEAN
      BY Zenon
    <3> QED
      BY ONLY <3>1, <3>2
  <2>2. srcSaved \in [SrcFile -> CursorOrNone] /\ spots \in [SrcFile -> CursorOrNone]
    BY <1>3
  <2>3. /\ refused \in SUBSET SrcRoot /\ replaced \in SUBSET SrcFile
        /\ missed \in SUBSET SrcFile
    OBVIOUS
  <2> QED
    BY ONLY <1>1, <1>2, <1>4, <2>1, <2>2, <2>3 DEF SourceTyped
<1>6. \A f \in SrcFile : \A c \in SourceCursor : ~Kept(f, c)
  BY <1>3, <1>4, FilesAssumption DEF Kept
<1>7. CursorsSound /\ PlansGrow
  BY <1>6 DEF CursorsSound, PlansGrow
<1>8. EntriesSound /\ SequencesRise /\ NothingTwice
  BY <1>4 DEF EntriesSound, SequencesRise, NothingTwice
<1>9. Refusals /\ SourcesAtRest /\ RefusalsHold /\ CollectionSettles
  BY DEF Refusals, SourcesAtRest, RefusalsHold, CollectionSettles
<1> QED
  BY <1>5, <1>7, <1>8, <1>9 DEF SourceInv

\* The whole invariant after a cycle that ends,
LEMMA CycleKeeps ==
  ASSUME NEW got, NEW kept, SourceInv, CycleDoes(got, kept)
  PROVE  SourceInv'
<1>1. SourceTyped' /\ Refusals' /\ RefusalsHold'
  BY CycleTyped
<1>2. CursorsSound' /\ PlansGrow'
  BY CycleCursors, CyclePlans
<1>3. EntriesSound' /\ SequencesRise' /\ NothingTwice'
  BY CycleEntries, CycleTwice
<1>4. SourcesAtRest' /\ CollectionSettles'
  BY <1>1, CycleRests, CycleSettles
<1> QED
  BY <1>1, <1>2, <1>3, <1>4 DEF SourceInv

\* A cycle that fails, on half a line of the journal or on a folder.
LEMMA FailedCycleKeeps ==
  ASSUME SourceInv, SyncCycle, FailCycle, NEW start, start = Resumed,
         \/ srcTorn /\ UNCHANGED <<srcNext, srcSaved, spots>>
         \/ ReadsAFolder /\ SaveStart(start)
  PROVE  SourceInv'
<1>1. SourceTyped /\ SourcesAtRest
  BY DEF SourceInv
<1>2. /\ srcNow' = srcNow + 1 /\ srcNow \in Nat /\ srcSaidLast' = "failed"
      /\ UNCHANGED <<setup, content, edits, replaced, refused>>
      /\ UNCHANGED <<srcJournal, srcTorn, strayed, missed, resting, noisy>>
  BY <1>1 DEF SyncCycle, FailCycle, SourceTyped
<1>3. /\ start \in CatchState /\ \A f \in SrcFile : Kept(f, start.cursors[f])
  BY <1>1, StartOfCycle
<1>4. /\ srcNext' \in Nat \ {0} /\ srcSaved' \in [SrcFile -> CursorOrNone]
      /\ spots' \in [SrcFile -> CursorOrNone]
      /\ \A f \in SrcFile : Kept(f, srcSaved'[f]) /\ Kept(f, spots'[f])
  <2>1. CASE UNCHANGED <<srcNext, srcSaved, spots>>
    BY <1>1, <2>1 DEF SourceTyped, Kept
  <2>2. CASE SaveStart(start)
    BY <1>3, <2>2 DEF SaveStart, CatchState
  <2> QED
    BY <2>1, <2>2
<1>5. SourceTyped'
  BY <1>1, <1>2, <1>4 DEF SourceTyped
<1>6. \A f \in SrcFile : \A c : Kept(f, c)' => Kept(f, c)
  BY <1>2, <1>4 DEF Kept
<1>7. CursorsSound' /\ PlansGrow' /\ EntriesSound' /\ SequencesRise' /\ NothingTwice'
  BY <1>2, <1>6, StillSound
<1>8. SourcesAtRest'
  <2>1. CASE UNCHANGED <<srcNext, srcSaved, spots>>
    <3>1. Resumed' = Resumed
      BY <1>2, <2>1 DEF Resumed
    <3>2. ReadsAFolder' = ReadsAFolder /\ \A f \in SrcFile : OpenFile(f)' = OpenFile(f)
      BY <1>2 DEF ReadsAFolder, OpenFile, SourceRootsFor, ApprovedRoots, HasManagedBindings
    <3>3. \A f \in SrcFile : \A c : NothingLeft(f, c)' = NothingLeft(f, c)
      BY <1>2 DEF NothingLeft, Unreadable, Records, StartOf
    <3>4. \A f \in SrcFile : \E c : /\ c = Resumed.cursors[f] /\ c = Resumed'.cursors[f]
                                    /\ NothingLeft(f, c)' = NothingLeft(f, c)
      BY <3>1, <3>3
    <3>5. \A f \in SrcFile : NothingLeft(f, Resumed.cursors[f])' = NothingLeft(f, Resumed.cursors[f])
      BY <1>2, <3>1 DEF NothingLeft, Unreadable, Records, StartOf
    <3> QED
      BY <1>1, <1>2, <3>2, <3>5 DEF SourcesAtRest
  <2>2. CASE ReadsAFolder
    BY <1>1, <1>2, <2>2 DEF SourcesAtRest
  <2> QED
    BY <2>1, <2>2
<1>9. Refusals' /\ RefusalsHold' /\ CollectionSettles'
  BY <1>2 DEF SourceInv, Refusals, RefusalsHold, CollectionSettles
<1> QED
  BY <1>5, <1>7, <1>8, <1>9 DEF SourceInv

\* after any cycle,
LEMMA SyncCycleKeeps == SourceInv /\ SyncCycle => SourceInv'
<1> SUFFICES ASSUME SourceInv, SyncCycle PROVE SourceInv'
  OBVIOUS
<1> DEFINE begin == Resumed
           all == CollectedFrom(begin.cursors)
           list == Entries(begin, all)
<1>1. PICK start, got, entries :
        start = begin /\ got = CollectedFrom(start.cursors) /\ entries = Entries(start, got)
  OBVIOUS
<1>2. RunCycle(start, got)
  BY <1>1 DEF SyncCycle, RunCycleFrom
<1>3. CASE srcTorn
  BY <1>1, <1>2, <1>3, FailedCycleKeeps DEF RunCycle
<1>4. CASE ~srcTorn /\ ReadsAFolder /\ PlanEntered(got.events)
  BY <1>1, <1>2, <1>4, FailedCycleKeeps DEF RunCycle
<1>5. CASE ~srcTorn /\ ~(ReadsAFolder /\ PlanEntered(got.events))
  <2>1. EndCycle(start, got, entries)
    BY <1>1, <1>2, <1>5 DEF RunCycle
  <2>2. UNCHANGED <<setup, content, edits, replaced, refused>> /\ srcNow' = srcNow + 1
    BY DEF SyncCycle
  <2>3. SourceTyped
    BY DEF SourceInv
  <2>4. PICK kept : CycleDoes(got, kept)
    BY <1>1, <1>5, <2>1, <2>2, <2>3, CycleGives
  <2> QED
    BY <2>4, CycleKeeps
<1> QED
  BY <1>3, <1>4, <1>5

\* after an edit of a file,
LEMMA EditKeeps ==
  ASSUME SourceInv, NEW f \in SrcFile, Grow(f) \/ Complete(f) \/ Rewrite(f)
  PROVE  SourceInv'
<1> DEFINE all == content[f].records
<1>1. SourceTyped
  BY DEF SourceInv
<1>2. /\ content[f] \in FileContent /\ all \in FileRecords /\ Len(all) \in Nat /\ Len(all) <= MaxRecords
      /\ MaxRecords \in Nat /\ content[f].partial \in BOOLEAN
  BY <1>1, RecordsIs, FilesAssumption DEF SourceTyped
<1>3. CASE Grow(f)
  <2>1. PICK r \in Said \cup {NoText}, half \in BOOLEAN :
          /\ ~content[f].partial /\ Len(all) < MaxRecords
          /\ Edited(f, [records |-> Append(all, r), partial |-> half]) /\ UNCHANGED replaced
    BY <1>3 DEF Grow
  <2> DEFINE more == Append(all, r)
             now == [records |-> more, partial |-> half]
  <2> HIDE DEF all
  <2>2. /\ more \in FileRecords /\ Len(more) = Len(all) + 1
        /\ \A i \in 1..Len(all) : more[i] = all[i]
    BY <1>2 DEF FileRecords
  <2> HIDE DEF more
  <2>3. now \in FileContent /\ now.records = more
    BY <2>2 DEF FileContent
  <2>4. Edited(f, now)
    BY <2>1 DEF more
  <2> HIDE DEF now
  <2>5. Grew(f, now) /\ Len(now.records) <= MaxRecords
    BY <1>2, <2>1, <2>2, <2>3 DEF Grew, all
  <2> QED
    BY <2>1, <2>3, <2>4, <2>5, EditedSound
<1>4. CASE Complete(f)
  <2> DEFINE now == [content[f] EXCEPT !.partial = FALSE]
  <2>1. content[f].partial /\ Edited(f, now) /\ UNCHANGED replaced
    BY <1>4 DEF Complete
  <2>2. now \in FileContent /\ now.records = all /\ now.partial = FALSE
    BY <1>2 DEF FileContent
  <2> HIDE DEF now
  <2>3. Grew(f, now) /\ Len(now.records) <= MaxRecords
    BY <1>2, <2>1, <2>2 DEF Grew
  <2> QED
    BY <2>1, <2>2, <2>3, EditedSound
<1>5. CASE Rewrite(f)
  <2>1. PICK r \in Said, rest \in {<<>>, Tail(all)} :
          /\ all # <<>> /\ Edited(f, [records |-> <<r>> \o rest, partial |-> FALSE])
          /\ replaced' = replaced \cup {f}
    BY <1>5 DEF Rewrite
  <2> DEFINE new == <<r>> \o rest
             now == [records |-> new, partial |-> FALSE]
  <2> HIDE DEF all
  <2>2. rest \in FileRecords /\ Len(rest) < Len(all) /\ Len(rest) \in Nat
    <3>1. Len(all) > 0 /\ Tail(all) \in FileRecords /\ Len(Tail(all)) = Len(all) - 1
      BY <1>2, <2>1 DEF FileRecords
    <3>2. <<>> \in FileRecords /\ Len(<<>>) = 0
      BY DEF FileRecords
    <3>3. CASE rest = <<>>
      BY <3>1, <3>2, <3>3
    <3>4. CASE rest = Tail(all)
      <4>1. Len(rest) = Len(all) - 1 /\ rest \in FileRecords
        BY <3>1, <3>4
      <4> QED
        BY <1>2, <4>1, <3>1
    <3> QED
      BY <2>1, <3>3, <3>4
  <2>3. new \in FileRecords /\ Len(new) = Len(rest) + 1
    <3>1. <<r>> \in FileRecords /\ Len(<<r>>) = 1
      BY DEF FileRecords
    <3> QED
      BY <2>2, <3>1 DEF FileRecords
  <2> HIDE DEF new
  <2>4. now \in FileContent /\ now.records = new
    BY <2>3 DEF FileContent
  <2>5. Edited(f, now)
    BY <2>1 DEF new
  <2> HIDE DEF now
  <2>6. Len(now.records) <= MaxRecords
    BY <1>2, <2>2, <2>3, <2>4
  <2> QED
    BY <2>1, <2>4, <2>5, <2>6, EditedSound
<1> QED
  BY <1>3, <1>4, <1>5

\* and after a change of the configuration.
LEMMA SetUpKeeps ==
  ASSUME SourceInv, NEW now \in SourceSetup, SetUp(now), refused' \in SUBSET SrcRoot,
         \A r \in refused' : now.bindings[r] = "ignored"
  PROVE  SourceInv'
<1>1. /\ setup' = now /\ resting' = FALSE
      /\ UNCHANGED <<content, srcNext, srcSaved, spots, srcJournal, srcTorn, srcNow,
                     strayed, replaced, missed, noisy, srcSaidLast>>
  BY DEF SetUp, srcState
<1>2. SourceTyped'
  BY <1>1 DEF SourceInv, SourceTyped
<1>3. \A f \in SrcFile : \A c : Kept(f, c)' => Kept(f, c)
  BY <1>1 DEF Kept
<1>4. CursorsSound' /\ PlansGrow' /\ EntriesSound' /\ SequencesRise' /\ NothingTwice'
  BY <1>1, <1>3, StillSound
<1>5. Refusals' /\ SourcesAtRest' /\ RefusalsHold' /\ CollectionSettles'
  BY <1>1 DEF SourceInv, Refusals, SourcesAtRest, RefusalsHold, CollectionSettles
<1> QED
  BY <1>2, <1>4, <1>5 DEF SourceInv

\* So after what the user does with the bindings.
LEMMA UserKeeps == SourceInv /\ (SetStatus \/ Onboard) => SourceInv'
<1> SUFFICES ASSUME SourceInv, SetStatus \/ Onboard PROVE SourceInv'
  OBVIOUS
<1>1. /\ setup \in SourceSetup /\ refused \in SUBSET SrcRoot
      /\ \A r \in refused : setup.bindings[r] = "ignored"
  BY DEF SourceInv, SourceTyped, Refusals
<1>2. setup.bindings \in [SrcRoot -> BindingStatus]
  BY <1>1 DEF SourceSetup
<1>3. CASE SetStatus
  <2>1. PICK r \in SrcRoot, status \in {"approved", "ignored"} :
          /\ SetUp([setup EXCEPT !.bindings[r] = status])
          /\ refused' = IF status = "ignored" THEN refused \cup {r} ELSE refused \ {r}
    BY <1>3 DEF SetStatus
  <2> DEFINE b == [setup.bindings EXCEPT ![r] = status]
             now == [setup EXCEPT !.bindings[r] = status]
  <2>2. b \in [SrcRoot -> BindingStatus] /\ b[r] = status
        /\ \A x \in SrcRoot \ {r} : b[x] = setup.bindings[x]
    BY <1>2 DEF BindingStatus
  <2>3. now = [setup EXCEPT !.bindings = b]
    BY <1>1 DEF SourceSetup
  <2> HIDE DEF b
  <2>4. now \in SourceSetup /\ now.bindings = b
    BY <1>1, <2>2, <2>3 DEF SourceSetup
  <2>5. SetUp(now)
    BY <2>1
  <2> HIDE DEF now
  <2>6. refused' \in SUBSET SrcRoot /\ \A x \in refused' : now.bindings[x] = "ignored"
    BY <1>1, <2>1, <2>2, <2>4
  <2> QED
    BY <2>4, <2>5, <2>6, SetUpKeeps
<1>4. CASE Onboard
  <2>1. PICK found \in Discoveries :
          /\ SetUp([setup EXCEPT !.bindings =
               [r \in SrcRoot |-> IF r \in found THEN ProposedStatus(r) ELSE setup.bindings[r]]])
          /\ UNCHANGED refused
    BY <1>4 DEF Onboard
  <2> DEFINE b == [r \in SrcRoot |-> IF r \in found THEN ProposedStatus(r) ELSE setup.bindings[r]]
             now == [setup EXCEPT !.bindings = b]
  <2>2. b \in [SrcRoot -> BindingStatus]
    BY <1>2 DEF ProposedStatus, BindingStatus
  <2>3. \A r \in SrcRoot : setup.bindings[r] = "ignored" => b[r] = "ignored"
    BY DEF ProposedStatus
  <2> HIDE DEF b
  <2>4. now \in SourceSetup /\ now.bindings = b
    BY <1>1, <2>2 DEF SourceSetup
  <2>5. SetUp(now)
    BY <2>1 DEF b
  <2> HIDE DEF now
  <2>6. refused' \in SUBSET SrcRoot /\ \A x \in refused' : now.bindings[x] = "ignored"
    BY <1>1, <2>1, <2>3, <2>4
  <2> QED
    BY <2>4, <2>5, <2>6, SetUpKeeps
<1> QED
  BY <1>3, <1>4

\* A step in which nothing but the tear of the journal may change.
LEMMA MendKeeps == SourceInv /\ (MendJournal \/ UNCHANGED sourceVars) => SourceInv'
<1> SUFFICES ASSUME SourceInv, MendJournal \/ UNCHANGED sourceVars PROVE SourceInv'
  OBVIOUS
<1>1. /\ UNCHANGED <<setup, content, srcNext, srcSaved, spots, srcJournal, srcNow,
                     refused, strayed, replaced, missed, resting, noisy, srcSaidLast>>
      /\ srcTorn' \in {srcTorn, FALSE}
  BY DEF MendJournal, sourceVars
<1>2. SourceTyped'
  BY <1>1 DEF SourceInv, SourceTyped
<1>3. \A f \in SrcFile : \A c : Kept(f, c)' => Kept(f, c)
  BY <1>1 DEF Kept
<1>4. CursorsSound' /\ PlansGrow' /\ EntriesSound' /\ SequencesRise' /\ NothingTwice'
  BY <1>1, <1>3, StillSound
<1>5. SourcesAtRest'
  <2>1. Resumed' = Resumed
    BY <1>1 DEF Resumed
  <2>2. ReadsAFolder' = ReadsAFolder /\ \A f \in SrcFile : OpenFile(f)' = OpenFile(f)
    BY <1>1 DEF ReadsAFolder, OpenFile, SourceRootsFor, ApprovedRoots, HasManagedBindings
  <2>3. \A f \in SrcFile : NothingLeft(f, Resumed.cursors[f])' = NothingLeft(f, Resumed.cursors[f])
    BY <1>1, <2>1 DEF NothingLeft, Unreadable, Records, StartOf
  <2> QED
    BY <1>1, <2>2, <2>3 DEF SourceInv, SourcesAtRest
<1>6. Refusals' /\ RefusalsHold' /\ CollectionSettles'
  BY <1>1 DEF SourceInv, Refusals, RefusalsHold, CollectionSettles
<1> QED
  BY <1>2, <1>4, <1>5, <1>6 DEF SourceInv

\* Every step keeps the invariant.
LEMMA SourceStep == SourceInv /\ [SourceNext]_sourceVars => SourceInv'
<1> SUFFICES ASSUME SourceInv, [SourceNext]_sourceVars PROVE SourceInv'
  OBVIOUS
<1>1. CASE SyncCycle
  BY <1>1, SyncCycleKeeps
<1>2. CASE SetStatus \/ Onboard
  BY <1>2, UserKeeps
<1>3. CASE MendJournal \/ UNCHANGED sourceVars
  BY <1>3, MendKeeps
<1>4. CASE \E f \in SrcFile : Grow(f) \/ Complete(f) \/ Rewrite(f)
  BY <1>4, EditKeeps
<1> QED
  BY <1>1, <1>2, <1>3, <1>4 DEF SourceNext

\* What the invariant says of the runs' properties.
LEMMA SourcesPromise == SourceInv => SourceTypeOK /\ SourcesAreRight
<1> SUFFICES ASSUME SourceInv PROVE SourceTypeOK /\ SourcesAreRight
  OBVIOUS
<1>1. SourceTyped /\ CursorsSound
  BY DEF SourceInv
<1>2. \A f \in SrcFile : srcSaved[f] = NoSrcCursor \/ srcSaved[f].cursor \in 0..MaxRecords
  <2> SUFFICES ASSUME NEW f \in SrcFile, srcSaved[f] # NoSrcCursor
               PROVE  srcSaved[f].cursor \in 0..MaxRecords
    OBVIOUS
  <2> DEFINE c == srcSaved[f]
  <2>1. c \in SourceCursor
    BY <1>1 DEF SourceTyped, CursorOrNone
  <2>2. Kept(f, c)
    BY DEF Kept
  <2> HIDE DEF c
  <2>3. c.cursor <= MaxRecords /\ c.cursor \in Nat /\ MaxRecords \in Nat
    BY <1>1, <2>1, <2>2, CursorsTyped, FilesAssumption DEF CursorsSound, Timely
  <2> QED
    BY <2>3 DEF c
<1>3. SourceTypeOK
  BY <1>1, <1>2 DEF SourceTypeOK, SourceTyped, SourceSetup, SourceInv, RefusalsHold
<1>4. CursorsArePaidFor
  <2> SUFFICES ASSUME NEW f \in SrcFile \ (replaced \cup missed), NEW c, c = Resumed.cursors[f],
                      c # NoSrcCursor
               PROVE  IF SourceKind(f) = "plan" THEN Journaled(SourceEvent(f, 1, c.digest))
                      ELSE \A i \in 1 .. c.cursor :
                             TextAt(f, i) # NoText => Journaled(SourceEvent(f, i, TextAt(f, i)))
    BY DEF CursorsArePaidFor, CursorOf
  <2>1. c \in CursorOrNone /\ Kept(f, c)
    BY <1>1, StartOfCycle DEF CatchState
  <2>2. PaidFor(f, c)
    BY <1>1, <2>1 DEF CursorsSound, CursorOrNone
  <2> QED
    BY <2>2 DEF PaidFor
<1> QED
  BY <1>3, <1>4 DEF SourceInv, SourcesAreRight

\* What cycles collect of files that only grow is everything they pass, once, in
\* order, of the roots they may read: whatever cycles are cut, and at every limit;
\* each part of SourcesAreRight names the files it excepts.
THEOREM SourcesRight == SourceSpec => [](SourceTypeOK /\ SourcesAreRight)
<1>1. SourceInit => SourceInv
  BY SourcesStart
<1>2. SourceInv /\ [SourceNext]_sourceVars => SourceInv'
  BY SourceStep
<1>3. SourceInv => SourceTypeOK /\ SourcesAreRight
  BY SourcesPromise
<1> QED
  BY <1>1, <1>2, <1>3, PTL DEF SourceSpec
==============================================================================
