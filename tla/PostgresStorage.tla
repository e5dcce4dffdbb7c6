--------------------------- MODULE PostgresStorage ---------------------------
(***************************************************************************)
(* The Postgres storage repository (storage/postgres/storage-repository).  *)
(* Unlike the sqlite one it opens no transaction: a request is a sequence  *)
(* of driver calls, any of which may fail or be overtaken by the calls of  *)
(* another request, and a write ignores the time of what it overwrites.    *)
(***************************************************************************)
EXTENDS Integers, FiniteSets, FiniteSetsExt

CONSTANTS
  PgCall,       \* requests in hand; a failed one may be sent again
  PgRequestOf,  \* PgCall -> [op, space, memory, layer, body, key]
  NoKey,
  MaxVersion,   \* bound on a row's version
  MaxSends      \* bound on how often requests are sent

ASSUME PostgresAssumption ==
  /\ PgRequestOf \in [PgCall -> [op : {"upsert", "delete"}, space : Nat, memory : Nat,
                                 layer : STRING, body : Nat, key : Nat \cup {NoKey}]]
  /\ IsFiniteSet(PgCall) /\ MaxVersion \in Nat /\ MaxSends \in Nat

VARIABLES
  pg,         \* the tables: [memories, ledger]
  pgStage,    \* PgCall -> the driver call it makes next
  pgRead,     \* PgCall -> the version it read, then wrote; 0 for none
  pgAnswer,   \* PgCall -> what it was last answered
  pgSent,     \* how often requests were sent
  pgDone,     \* history: <<hash, effects of that hash>> that reached the tables
  pgOverlap   \* history: two requests were in hand at once, or one was cut short

postgresVars == <<pg, pgStage, pgRead, pgAnswer, pgSent, pgDone, pgOverlap>>

EmptyPg == [memories |-> {}, ledger |-> {}]
PgPending == [kind |-> "pending"]
PgFailed == [kind |-> "failed"]
PgConflict == [kind |-> "conflict"]
PgNotFound == [kind |-> "not_found"]

PostgresInit ==
  /\ pg = EmptyPg
  /\ pgStage = [c \in PgCall |-> "idle"]
  /\ pgRead = [c \in PgCall |-> 0]
  /\ pgAnswer = [c \in PgCall |-> PgPending]
  /\ pgSent = 0
  /\ pgDone = {}
  /\ pgOverlap = FALSE

------------------------------------------------------------------------------
(* What the driver keeps                                                    *)

PgRow(s, space, memory) == {m \in s.memories : m.space = space /\ m.memory = memory}
PgVersion(s, r) ==
  IF PgRow(s, r.space, r.memory) = {} THEN 0
  ELSE (CHOOSE m \in PgRow(s, r.space, r.memory) : TRUE).version
PgLedgerRow(s, r) ==
  {l \in s.ledger : l.space = r.space /\ l.op = r.op /\ l.key = r.key}

\* The layer is part of an upsert's hash; the sqlite repository has it in the
\* body, with the times and the references.
PgHash(r) == IF r.op = "upsert" THEN <<"upsert", r.space, r.memory, r.layer, r.body>>
             ELSE <<"delete", r.space, r.memory>>

PgPutMemory(s, r, version) ==
  [s EXCEPT !.memories = (@ \ PgRow(s, r.space, r.memory)) \cup
     {[space |-> r.space, memory |-> r.memory, layer |-> r.layer, body |-> r.body,
       version |-> version]}]
PgDropMemory(s, r) == [s EXCEPT !.memories = @ \ PgRow(s, r.space, r.memory)]

PgResponse(r, version) ==
  [kind |-> "done", op |-> r.op, space |-> r.space, memory |-> r.memory,
   version |-> version]
PgPutIdempotency(s, r, response) ==
  IF r.key = NoKey THEN s
  ELSE [s EXCEPT !.ledger = (@ \ PgLedgerRow(s, r)) \cup
          {[space |-> r.space, op |-> r.op, key |-> r.key, hash |-> PgHash(r),
            response |-> response]}]

\* Faulty: the hash of the stored request is not compared.
PgReplayUnchecked(s, r) ==
  IF r.key = NoKey \/ PgLedgerRow(s, r) = {} THEN PgPending
  ELSE (CHOOSE x \in PgLedgerRow(s, r) : TRUE).response

\* What a stored key answers: nothing, its response, or a conflict.
PgReplay(s, r) ==
  IF r.key = NoKey \/ PgLedgerRow(s, r) = {} THEN PgPending
  ELSE LET l == CHOOSE x \in PgLedgerRow(s, r) : TRUE
       IN IF l.hash = PgHash(r) THEN l.response ELSE PgConflict

------------------------------------------------------------------------------
(* A request that runs to its end before another one begins                 *)

PgUpsert(s, r) ==
  LET version == PgVersion(s, r) + 1
  IN PgPutIdempotency(PgPutMemory(s, r, version), r, PgResponse(r, version))
PgDelete(s, r) == PgPutIdempotency(PgDropMemory(s, r), r, PgResponse(r, 0))

PgApply(s, r) ==
  IF PgReplay(s, r) # PgPending THEN s
  ELSE IF r.op = "upsert" THEN PgUpsert(s, r)
  ELSE IF PgRow(s, r.space, r.memory) = {} THEN s ELSE PgDelete(s, r)
PgOutcome(s, r) ==
  IF PgReplay(s, r) # PgPending THEN PgReplay(s, r)
  ELSE IF r.op = "upsert" THEN PgResponse(r, PgVersion(s, r) + 1)
  ELSE IF PgRow(s, r.space, r.memory) = {} THEN PgNotFound ELSE PgResponse(r, 0)

\* importSnapshot of what a repository exported under the same secret, so that
\* its signature and form hold: an equal one is a replay, another replaces all.
PgImport(s, snap) == IF s = snap THEN s ELSE snap

------------------------------------------------------------------------------
(* Requests, one driver call at a time                                      *)

Answers(c, a) ==
  /\ pgAnswer' = [pgAnswer EXCEPT ![c] = a]
  /\ pgStage' = [pgStage EXCEPT ![c] = "idle"]
  /\ pgRead' = [pgRead EXCEPT ![c] = 0]
PgGoes(c, stage, version) ==
  /\ pgStage' = [pgStage EXCEPT ![c] = stage]
  /\ pgRead' = [pgRead EXCEPT ![c] = version]
  /\ UNCHANGED pgAnswer
InHand == {c \in PgCall : pgStage[c] # "idle"}

\* A request is sent the first time, or again after a failure.
Send(c) ==
  /\ pgStage[c] = "idle" /\ pgAnswer[c] \in {PgPending, PgFailed}
  /\ pgSent < MaxSends
  /\ pgSent' = pgSent + 1
  /\ pgOverlap' = (pgOverlap \/ InHand # {})
  /\ PgGoes(c, IF PgRequestOf[c].key = NoKey THEN "read" ELSE "look", 0)
  /\ UNCHANGED <<pg, pgDone>>

\* driver.getIdempotency
GetIdempotency(c) ==
  /\ pgStage[c] = "look"
  /\ IF PgReplay(pg, PgRequestOf[c]) # PgPending
     THEN Answers(c, PgReplay(pg, PgRequestOf[c])) ELSE PgGoes(c, "read", 0)
  /\ UNCHANGED <<pg, pgSent, pgDone, pgOverlap>>

\* driver.getMemory; a delete does not read.
GetMemory(c) ==
  /\ pgStage[c] = "read" /\ PgRequestOf[c].op = "upsert"
  /\ PgGoes(c, "write", PgVersion(pg, PgRequestOf[c]))
  /\ UNCHANGED <<pg, pgSent, pgDone, pgOverlap>>

\* The response follows: at once, or after the ledger row is put.
PgWritten(c, version) ==
  /\ pgDone' = pgDone \cup {<<PgHash(PgRequestOf[c]), Cardinality(pgDone)>>}
  /\ IF PgRequestOf[c].key = NoKey
     THEN Answers(c, PgResponse(PgRequestOf[c], version)) ELSE PgGoes(c, "record", version)
  /\ UNCHANGED <<pgSent, pgOverlap>>

\* driver.upsertMemory
WriteMemory(c) ==
  /\ pgStage[c] = "write" /\ pgRead[c] < MaxVersion
  /\ pg' = PgPutMemory(pg, PgRequestOf[c], pgRead[c] + 1)
  /\ PgWritten(c, pgRead[c] + 1)

\* driver.deleteMemory
DropMemory(c) ==
  LET r == PgRequestOf[c]
  IN /\ pgStage[c] = "read" /\ r.op = "delete"
     /\ IF PgRow(pg, r.space, r.memory) = {}
        THEN Answers(c, PgNotFound) /\ UNCHANGED <<pg, pgSent, pgDone, pgOverlap>>
        ELSE pg' = PgDropMemory(pg, r) /\ PgWritten(c, 0)

\* driver.putIdempotency
PutIdempotency(c) ==
  LET response == PgResponse(PgRequestOf[c], pgRead[c])
  IN /\ pgStage[c] = "record"
     /\ pg' = PgPutIdempotency(pg, PgRequestOf[c], response)
     /\ Answers(c, response)
     /\ UNCHANGED <<pgSent, pgDone, pgOverlap>>

\* A driver call fails, or the process does: what was written stays.
CutShort(c) ==
  /\ pgStage[c] # "idle"
  /\ Answers(c, PgFailed)
  /\ pgOverlap' = (pgOverlap \/ pgStage[c] = "record")
  /\ UNCHANGED <<pg, pgSent, pgDone>>

PostgresNext ==
  \E c \in PgCall :
    \/ Send(c) \/ GetIdempotency(c) \/ GetMemory(c) \/ WriteMemory(c)
    \/ DropMemory(c) \/ PutIdempotency(c) \/ CutShort(c)

PostgresSpec == PostgresInit /\ [][PostgresNext]_postgresVars

------------------------------------------------------------------------------
PostgresTypeOK ==
  /\ \A m \in pg.memories : m.version \in 1..MaxVersion
  /\ \A c \in PgCall : pgRead[c] \in 0..MaxVersion
  /\ pgSent \in 0..MaxSends /\ pgOverlap \in BOOLEAN

\* A memory has one row and a key one ledger row; what the ledger answers has
\* happened; a success, also a replayed one, names the request it is given to.
PgLedgerIsTrue ==
  /\ \A m, n \in pg.memories : m.space = n.space /\ m.memory = n.memory => m = n
  /\ \A l \in pg.ledger : \E d \in pgDone : d[1] = l.hash
  /\ \A l, k \in pg.ledger : l.space = k.space /\ l.op = k.op /\ l.key = k.key => l = k
  /\ \A c \in PgCall : pgAnswer[c].kind = "done" =>
       /\ pgAnswer[c].memory = PgRequestOf[c].memory
       /\ \E d \in pgDone : d[1] = PgHash(PgRequestOf[c])

SameRequest(c) == {d \in PgCall : PgHash(PgRequestOf[d]) = PgHash(PgRequestOf[c])}
KeysOf(cs) == {PgRequestOf[c].key : c \in cs}

\* Requests one at a time, none cut between its write and its ledger row: a
\* request acts at most once per key, however often it is sent.
PgKeyActsOnce ==
  ~pgOverlap =>
    \A c \in PgCall : NoKey \notin KeysOf(SameRequest(c)) =>
      Cardinality({d \in pgDone : d[1] = PgHash(PgRequestOf[c])})
        <= Cardinality(KeysOf(SameRequest(c)))

PostgresIsRight == PgLedgerIsTrue /\ PgKeyActsOnce

\* What the migration strategy asks of the ledger: one key and one hash are
\* answered with the prior response.
PgReplayReturnsPrior ==
  \A c \in PgCall : \A d \in SameRequest(c) :
    /\ PgRequestOf[c].key # NoKey /\ PgRequestOf[d].key = PgRequestOf[c].key
    /\ pgAnswer[c].kind = "done" /\ pgAnswer[d].kind = "done"
    => pgAnswer[c] = pgAnswer[d]
==============================================================================
