--------------------------- MODULE ExecutionLedger ---------------------------
(***************************************************************************)
(* Executions that are run once and answered from a ledger afterwards      *)
(* (libs/shared/src/effect/storage/sqlite/runtime-persistence-repository). *)
(* Several repositories, each with its own map of executions in flight,    *)
(* share one ledger table.  Fibers yield between any two effects, and the  *)
(* repositories belong to different processes, so every effect is a step.  *)
(***************************************************************************)
EXTENDS Naturals, FiniteSets

CONSTANTS
  Caller,           \* calls of execute; each calls once
  Repo,             \* repository instances over one database file
  RepoOf,           \* Caller -> Repo
  Request,          \* Caller -> [operation, scopeKey, body, valid]
  NormalOperation,  \* a spelling of an operation -> the operation, or Blank
  Blank, NoScope, NotAString, UnscopedKey,
  NoCaller

ASSUME LedgerAssumption ==
  /\ RepoOf \in [Caller -> Repo]
  /\ NoCaller \notin Caller

VARIABLES
  ledger,    \* the rows: [key, response]
  inFlight,  \* Repo -> the callers whose deferred is registered
  call,      \* Caller -> where its call of execute stands
  waitsFor,  \* Caller -> whose deferred it awaits
  fiber,     \* Caller -> where the execution it started stands
  deferred,  \* Caller -> what its execution was completed with; before that,
             \* what the fiber will complete it with
  answer     \* Caller -> what it was answered

ledgerVars == <<ledger, inFlight, call, waitsFor, fiber, deferred, answer>>

Pending == [kind |-> "pending"]
Failure == [kind |-> "failure"]
Success(r) == [kind |-> "success", response |-> r]

\* A response is named by who executed it, and has or has not fields that
\* JSON drops. Its persisted form is its canonical JSON, without them.
Response == [by : Caller, extra : BOOLEAN]
CanonicalizeJson(r) == [r EXCEPT !.extra = FALSE]
AnswerKind == {Pending, Failure} \cup {Success(r) : r \in Response}
FiberResult ==
  {[kind |-> "failing"]} \cup {[kind |-> "succeeding", response |-> r] : r \in Response}

LedgerInit ==
  /\ ledger = {}
  /\ inFlight = [p \in Repo |-> {}]
  /\ call = [c \in Caller |-> "idle"]
  /\ waitsFor = [c \in Caller |-> NoCaller]
  /\ fiber = [c \in Caller |-> "none"]
  /\ deferred = [c \in Caller |-> Pending]
  /\ answer = [c \in Caller |-> Pending]

------------------------------------------------------------------------------
ValidateScopeKey(s) == IF s \in {NoScope, Blank} THEN UnscopedKey ELSE s

\* The request passes the service and the repository.
ValidateRequest(c) ==
  /\ NormalOperation[Request[c].operation] # Blank
  /\ Request[c].scopeKey # NotAString
  /\ Request[c].valid          \* has an executor, and a body that serialises

\* scope key, operation and digest: the digest is of these and the body.
ComputeExecutionCacheKey(c) ==
  <<ValidateScopeKey(Request[c].scopeKey),
    NormalOperation[Request[c].operation], Request[c].body>>

RowsOf(c) == {row \in ledger : row.key = ComputeExecutionCacheKey(c)}
ReadPersistedResponse(c) == (CHOOSE row \in RowsOf(c) : TRUE).response
Registered(c) ==
  {o \in inFlight[RepoOf[c]] :
     ComputeExecutionCacheKey(o) = ComputeExecutionCacheKey(c)}

AnswerWith(c, result) ==
  /\ answer' = [answer EXCEPT ![c] = result]
  /\ call' = [call EXCEPT ![c] = "answered"]

------------------------------------------------------------------------------
(* execute *)

LookupPersistedExecution(c) ==
  /\ call[c] = "idle"
  /\ IF ~ValidateRequest(c)
     THEN AnswerWith(c, Failure)
     ELSE IF RowsOf(c) # {}
     THEN AnswerWith(c, Success(ReadPersistedResponse(c)))
     ELSE call' = [call EXCEPT ![c] = "missed"] /\ UNCHANGED answer
  /\ UNCHANGED <<ledger, inFlight, waitsFor, fiber, deferred>>

\* Faulty variant: an execution is registered although one is in flight.
GetOrCreateAlways(c) ==
  /\ call[c] = "missed"
  /\ inFlight' = [inFlight EXCEPT ![RepoOf[c]] = @ \cup {c}]
  /\ waitsFor' = [waitsFor EXCEPT ![c] = c]
  /\ fiber' = [fiber EXCEPT ![c] = "running"]
  /\ call' = [call EXCEPT ![c] = "awaiting"]
  /\ UNCHANGED <<ledger, deferred, answer>>

\* The owner starts the detached execution in the same uninterruptible step.
GetOrCreateInFlightExecution(c) ==
  /\ call[c] = "missed"
  /\ IF Registered(c) # {}
     THEN /\ waitsFor' = [waitsFor EXCEPT ![c] = CHOOSE o \in Registered(c) : TRUE]
          /\ UNCHANGED <<inFlight, fiber>>
     ELSE /\ inFlight' = [inFlight EXCEPT ![RepoOf[c]] = @ \cup {c}]
          /\ waitsFor' = [waitsFor EXCEPT ![c] = c]
          /\ fiber' = [fiber EXCEPT ![c] = "running"]
  /\ call' = [call EXCEPT ![c] = "awaiting"]
  /\ UNCHANGED <<ledger, deferred, answer>>

AwaitDeferred(c) ==
  /\ call[c] = "awaiting" /\ deferred[waitsFor[c]].kind \in {"success", "failure"}
  /\ AnswerWith(c, deferred[waitsFor[c]])
  /\ UNCHANGED <<ledger, inFlight, waitsFor, fiber, deferred>>

\* Only the await can be interrupted; the execution goes on.
InterruptAwait(c) ==
  /\ call[c] = "awaiting"
  /\ call' = [call EXCEPT ![c] = "interrupted"]
  /\ UNCHANGED <<ledger, inFlight, waitsFor, fiber, deferred, answer>>

------------------------------------------------------------------------------
(* The detached fiber: execute, persist, clear the registration, complete.  *)

FiberTo(c, from, to) == fiber[c] = from /\ fiber' = [fiber EXCEPT ![c] = to]

\* The executor fails, or its response does not serialise, or the insert fails.
ExecuteFails(c) ==
  /\ \E from \in {"running", "executed"} : FiberTo(c, from, "clearing")
  /\ deferred' = [deferred EXCEPT ![c] = [kind |-> "failing"]]
  /\ UNCHANGED <<ledger, inFlight, call, waitsFor, answer>>

ExecuteReturns(c) ==
  /\ FiberTo(c, "running", "executed")
  /\ UNCHANGED <<ledger, inFlight, call, waitsFor, deferred, answer>>

Insert(c, r) ==
  ledger' = ledger \cup {[key |-> ComputeExecutionCacheKey(c),
                          response |-> CanonicalizeJson(r)]}

\* Faulty variant: the response of this execution, whatever the ledger has.
PersistIgnoringTheRow(c) ==
  /\ FiberTo(c, "executed", "clearing")
  /\ \E r \in Response :
       /\ r.by = c
       /\ IF RowsOf(c) = {} THEN Insert(c, r) ELSE UNCHANGED ledger
       /\ deferred' = [deferred EXCEPT ![c] = [kind |-> "succeeding", response |-> r]]
  /\ UNCHANGED <<inFlight, call, waitsFor, answer>>

\* INSERT OR IGNORE; an insert that changed nothing is answered by the row.
PersistExecution(c) ==
  /\ FiberTo(c, "executed", "clearing")
  /\ \E r \in Response :
       /\ r.by = c
       /\ IF RowsOf(c) = {}
          THEN /\ Insert(c, r)
               /\ deferred' = [deferred EXCEPT
                    ![c] = [kind |-> "succeeding", response |-> r]]
          ELSE /\ deferred' = [deferred EXCEPT
                    ![c] = [kind |-> "succeeding",
                            response |-> ReadPersistedResponse(c)]]
               /\ UNCHANGED ledger
  /\ UNCHANGED <<inFlight, call, waitsFor, answer>>

ClearInFlightExecution(c) ==
  /\ FiberTo(c, "clearing", "completing")
  /\ inFlight' = [inFlight EXCEPT ![RepoOf[c]] = @ \ {c}]
  /\ UNCHANGED <<ledger, call, waitsFor, deferred, answer>>

CompleteDeferred(c) ==
  /\ FiberTo(c, "completing", "ended")
  /\ deferred' = [deferred EXCEPT ![c] =
       IF @.kind = "failing" THEN Failure ELSE Success(@.response)]
  /\ UNCHANGED <<ledger, inFlight, call, waitsFor, answer>>

\* A process ends: its calls and executions are gone, the ledger is not.
CrashRepo(p) ==
  LET hit == {c \in Caller : RepoOf[c] = p /\ call[c] # "idle"} IN
  /\ \E c \in hit : call[c] # "answered" \/ fiber[c] \notin {"none", "ended", "gone"}
  /\ call' = [c \in Caller |->
       IF c \in hit /\ call[c] # "answered" THEN "gone" ELSE call[c]]
  /\ fiber' = [c \in Caller |->
       IF c \in hit /\ fiber[c] # "none" THEN "gone" ELSE fiber[c]]
  /\ inFlight' = [inFlight EXCEPT ![p] = {}]
  /\ UNCHANGED <<ledger, waitsFor, deferred, answer>>

LedgerNext ==
  \/ \E c \in Caller :
       \/ LookupPersistedExecution(c) \/ GetOrCreateInFlightExecution(c)
       \/ AwaitDeferred(c) \/ InterruptAwait(c)
       \/ ExecuteFails(c) \/ ExecuteReturns(c) \/ PersistExecution(c)
       \/ ClearInFlightExecution(c) \/ CompleteDeferred(c)
  \/ \E p \in Repo : CrashRepo(p)

LedgerSpec == LedgerInit /\ [][LedgerNext]_ledgerVars

------------------------------------------------------------------------------
LedgerTypeOK ==
  /\ \A row \in ledger : row.response \in Response /\ ~row.response.extra
  /\ inFlight \in [Repo -> SUBSET Caller]
  /\ call \in [Caller -> {"idle", "missed", "awaiting", "answered",
                          "interrupted", "gone"}]
  /\ waitsFor \in [Caller -> Caller \cup {NoCaller}]
  /\ fiber \in [Caller -> {"none", "running", "executed", "clearing",
                           "completing", "ended", "gone"}]
  /\ deferred \in [Caller -> AnswerKind \cup FiberResult]
  /\ answer \in [Caller -> AnswerKind]

\* Whoever is answered a response of an execution has the response of the
\* ledger's row, up to what JSON drops, and there is one row: callers of one
\* request never disagree, whichever process ran it, and however often.
AnswersAreTheLedgers ==
  \A c \in Caller : answer[c].kind = "success" =>
    \E row \in RowsOf(c) :
      /\ RowsOf(c) = {row}
      /\ CanonicalizeJson(answer[c].response) = row.response

\* One repository never runs two executions of a request at a time, even
\* though registrations are cleared and made again.
SingleFlight ==
  \A c, d \in Caller :
    /\ c # d /\ RepoOf[c] = RepoOf[d]
    /\ ComputeExecutionCacheKey(c) = ComputeExecutionCacheKey(d)
    /\ {fiber[c], fiber[d]} \subseteq {"running", "executed"}
    => FALSE

LedgerIsRight == AnswersAreTheLedgers /\ SingleFlight
==============================================================================
