------------------------------- MODULE Curation -------------------------------
(***************************************************************************)
(* From events to rules (apps/api/src/core.ts and apps/api/src/ace):       *)
(* ingest stores events, reflect proposes candidates for them, validate    *)
(* looks up their evidence, and curate_guarded makes rules of the valid    *)
(* ones, one for each conflict.  The caller carries what validate answered *)
(* to curate_guarded, and events may arrive in between.                    *)
(***************************************************************************)
EXTENDS Integers, Sequences, FiniteSets, FiniteSetsExt, SequencesExt

CONSTANTS
  Batches,          \* ingest requests: sequences of [kind, id, at]
  NoId,             \* an event without an id of its own
  RawCandidates,    \* sequences of candidates a caller may have validated
  MaxReflected,     \* maxCandidates
  EvaluatedAt, FreshnessDays, MinDepth,   \* of validate requests
  Bands,            \* rule lists and their nudges, for context
  MaxEvents         \* bound on the events stored

ASSUME CurationAssumption ==
  /\ MaxReflected \in Nat \ {0} /\ MinDepth \in Nat \ {0} /\ MaxEvents \in Nat
  /\ EvaluatedAt \in Int /\ FreshnessDays \in Int
  /\ \A b \in Batches : /\ b = [i \in 1..Len(b) |-> b[i]] /\ Len(b) \in Nat
                        /\ \A i \in 1..Len(b) : b[i].at \in Int
  \* A list names a candidate once, with a confidence.
  /\ \A cands \in RawCandidates :
       /\ cands = [k \in 1..Len(cands) |-> cands[k]] /\ Len(cands) \in Nat
       /\ \A k \in 1..Len(cands) : cands[k].confidence \in Int
       /\ \A j, k \in 1..Len(cands) : cands[j].cid = cands[k].cid => j = k
  /\ \A b \in Bands :
       /\ b.rules = [i \in 1..Len(b.rules) |-> b.rules[i]] /\ Len(b.rules) \in Nat
       /\ \A i, j \in 1..Len(b.rules) : b.rules[i] = b.rules[j] => i = j
       /\ \A i \in 1..Len(b.rules) : b.band[b.rules[i]] \in Int
       /\ b.topK \in Nat

VARIABLES
  cur,    \* [events, rules]: events is a sequence, rules a set
  held    \* what the caller has of validate: [cands, vals, found]

curationVars == <<cur, held>>

NothingHeld == [cands |-> <<>>, vals |-> <<>>, found |-> {}]
CurationInit == cur = [events |-> <<>>, rules |-> {}] /\ held = NothingHeld

------------------------------------------------------------------------------
(* ingest                                                                    *)

\* The digest of an event holds its place in the batch, and not its id; the
\* other one, used within the batch only, holds its id and not its place.
DedupeDigest(e) == <<e.kind, e.id>>
EventDigest(e, index) == <<e.kind, index>>
NormalizeEvent(e, index) ==
  [eventId |-> IF e.id = NoId THEN EventDigest(e, index) ELSE <<e.id>>,
   kind |-> e.kind, at |-> e.at, dedupe |-> DedupeDigest(e),
   digest |-> EventDigest(e, index)]

Stores(events, digest) == \E i \in DOMAIN events : events[i].digest = digest

\* Faulty: only what the profile holds already is a duplicate.
AcceptUnseen(acc, e) ==
  IF Stores(acc.events, e.digest) THEN acc
  ELSE [events |-> Append(acc.events, e), seen |-> acc.seen \cup {e.dedupe}]
AcceptEvent(acc, e) ==
  IF e.dedupe \in acc.seen \/ Stores(acc.events, e.digest) THEN acc
  ELSE [events |-> Append(acc.events, e), seen |-> acc.seen \cup {e.dedupe}]

\* What is stored after the first n of the batch.
Accepted(events, batch) ==
  LET after[n \in 0..Len(batch)] ==
        IF n = 0 THEN [events |-> events, seen |-> {}]
        ELSE AcceptEvent(after[n - 1], NormalizeEvent(batch[n], n))
  IN after
RunIngest(events, batch) == Accepted(events, batch)[Len(batch)].events

------------------------------------------------------------------------------
(* reflect: for each kind the event stored last, the latest MaxReflected      *)

ReflectedIndices(events) ==
  LET last == {i \in DOMAIN events : \A j \in DOMAIN events :
                 events[j].kind = events[i].kind => j <= i}
  IN {i \in last : Cardinality({j \in last : j > i}) < MaxReflected}

CandidateOf(e) ==
  [cid |-> <<e.kind, e.eventId>>, rid |-> <<e.kind, "global", e.eventId>>,
   key |-> <<"global", e.kind>>, evidence |-> {e.eventId}, contradictions |-> {},
   confidence |-> 6, empty |-> FALSE, injects |-> FALSE]

Nth(S, k) == CHOOSE i \in S : Cardinality({j \in S : j < i}) = k - 1
BuildReflectedCandidates(events) ==
  LET shown == ReflectedIndices(events)
  IN [k \in 1..Cardinality(shown) |-> CandidateOf(events[Nth(shown, k)])]

------------------------------------------------------------------------------
(* validate                                                                  *)

\* Of the events with one id the last is found.
Found(events, ids) ==
  {i \in DOMAIN events : /\ events[i].eventId \in ids
                         /\ \A j \in DOMAIN events : j > i => events[j].eventId # events[i].eventId}
FoundIds(events, ids) == {events[i].eventId : i \in Found(events, ids)}

\* Infinity stands for evidence without an age.
Ages(events, c) == {Max({0, EvaluatedAt - events[i].at}) : i \in Found(events, c.evidence)}
Validation(events, c) ==
  LET depth == Cardinality(FoundIds(events, c.evidence))
      against == Cardinality(FoundIds(events, c.contradictions))
      age == IF Ages(events, c) = {} THEN 99 ELSE Min(Ages(events, c))
  IN [valid |-> /\ ~c.empty /\ depth >= MinDepth /\ against = 0
                /\ (age # 99 => age <= FreshnessDays),
      depth |-> depth, against |-> against, age |-> age]

BuildCandidateValidations(events, cands) ==
  [k \in DOMAIN cands |-> Validation(events, cands[k])]

------------------------------------------------------------------------------
(* selectCurationCandidates                                                  *)

\* Faulty: the incumbent is kept whatever the evidence says.
BetterIncumbent(x, y, incumbent) ==
  \/ x.c.cid = incumbent /\ y.c.cid # incumbent
  \/ y.c.cid # incumbent /\ x.v.depth > y.v.depth

\* x goes before y: more evidence, less against it, fresher, more confident, the
\* incumbent, and then by name.
Better(x, y, incumbent) ==
  LET rank(z) == <<-z.v.depth, z.v.against, z.v.age, -z.c.confidence,
                   IF z.c.cid = incumbent THEN 0 ELSE 1>>
      first == {i \in 1..5 : rank(x)[i] # rank(y)[i]}
  IN IF first = {} THEN x.k < y.k
     ELSE rank(x)[Min(first)] < rank(y)[Min(first)]

\* The rule listed last under a key names the incumbent.
NoIncumbent == <<>>
IncumbentOf(rules, key) ==
  LET under == {r \in rules : r.key = key} IN
  IF under = {} THEN NoIncumbent ELSE (CHOOSE r \in under : \A q \in under : q.at <= r.at).cid

\* pool: a set of [c, v, k], k the place of the candidate in the order of names.
SelectCurationCandidates(pool, rules) ==
  {x \in pool : \A y \in pool \ {x} :
     y.c.key = x.c.key => Better(x, y, IncumbentOf(rules, x.c.key))}

------------------------------------------------------------------------------
(* curate_guarded                                                            *)

Safe(pool) == {x \in pool : ~x.c.injects /\ ~x.c.empty /\ x.v.valid}
Pool(h) == {[c |-> h.cands[k], v |-> h.vals[k], k |-> k] : k \in DOMAIN h.cands}

RuleOf(c, at) == [rid |-> c.rid, key |-> c.key, cid |-> c.cid, evidence |-> c.evidence,
                  confidence |-> c.confidence, at |-> at]
ApplyCurateMutations(rules, winners, at) ==
  {r \in rules : \A x \in winners : x.c.rid # r.rid} \cup {RuleOf(x.c, at) : x \in winners}

RunCurateGuarded(s, h, at) ==
  [s EXCEPT !.rules =
     ApplyCurateMutations(@, SelectCurationCandidates(Safe(Pool(h)), @), at)]

------------------------------------------------------------------------------
(* context: the rules in their order, the first topK by the band of their nudge *)

RankedRules(rules, topK, band) ==
  LET k == Min({topK, Len(rules)})
      before(i, j) == band[rules[i]] > band[rules[j]] \/
                      (band[rules[i]] = band[rules[j]] /\ i < j)
      at == [n \in 1..k |-> CHOOSE i \in 1..k :
               Cardinality({j \in 1..k : before(j, i)}) = n - 1]
  IN [n \in DOMAIN rules |-> IF n <= k THEN rules[at[n]] ELSE rules[n]]

------------------------------------------------------------------------------
Ingest(batch) ==
  /\ cur' = [cur EXCEPT !.events = RunIngest(@, batch)]
  /\ Len(cur'.events) <= MaxEvents
  /\ UNCHANGED held

ValidateAll(cands) ==
  /\ held' = [cands |-> cands, vals |-> BuildCandidateValidations(cur.events, cands),
              found |-> {cur.events[i].eventId : i \in DOMAIN cur.events}]
  /\ UNCHANGED cur
Reflect == ValidateAll(BuildReflectedCandidates(cur.events))
ValidateOwn(cands) == ValidateAll(cands)

CurateGuarded(at) == cur' = RunCurateGuarded(cur, held, at) /\ UNCHANGED held

CurationNext ==
  \/ \E b \in Batches : Ingest(b)
  \/ Reflect
  \/ \E cands \in RawCandidates : ValidateOwn(cands)
  \/ \E at \in 1..2 : CurateGuarded(at)

CurationSpec == CurationInit /\ [][CurationNext]_curationVars

------------------------------------------------------------------------------
CurationTypeOK ==
  /\ Len(cur.events) <= MaxEvents
  /\ DOMAIN held.vals = DOMAIN held.cands

\* A batch without duplicates of its own is stored once, however often it is sent.
BatchesAreStoredOnce ==
  \A b \in Batches :
    (\A i, j \in DOMAIN b : i # j => DedupeDigest(b[i]) # DedupeDigest(b[j])) =>
      LET once == RunIngest(cur.events, b) IN RunIngest(once, b) = once

\* One request stores no event twice, and no two stored events have one digest.
EventsAreDistinct ==
  /\ \A i, j \in DOMAIN cur.events :
       i # j => cur.events[i].digest # cur.events[j].digest
  /\ \A b \in Batches :
       LET new == {i \in DOMAIN RunIngest(cur.events, b) : i > Len(cur.events)}
           at(i) == RunIngest(cur.events, b)[i]
       IN \A i, j \in new : i # j => at(i).dedupe # at(j).dedupe

\* Each conflict has one winner, whichever order the candidates come in; an
\* incumbent loses only to a candidate with better evidence or confidence.
SelectionIsSettled ==
  LET pool == Safe(Pool(held))
      winners == SelectCurationCandidates(pool, cur.rules)
      strictly(x, y) == <<x.v, x.c.confidence>> # <<y.v, y.c.confidence>>
  IN /\ \A x \in pool : \E y \in winners : y.c.key = x.c.key
     /\ \A x, y \in winners : x.c.key = y.c.key => x = y
     /\ \A x \in pool \ winners, y \in winners :
          x.c.key = y.c.key /\ x.c.cid = IncumbentOf(cur.rules, x.c.key)
            => strictly(x, y) /\ y.v.depth >= x.v.depth
     /\ \A y \in winners : \A x \in pool : x.c.key = y.c.key =>
          y.v.depth >= x.v.depth

\* A rule rests on evidence that is stored, and no candidate that fails its
\* validation, is empty or injects a prompt is ever one.
RulesHaveEvidence ==
  \A r \in cur.rules :
    Cardinality(FoundIds(cur.events, r.evidence)) >= MinDepth

\* Ranking changes only the order of the first rules, and keeps it within a band.
RankingOnlyReorders ==
  \A b \in Bands :
    LET ranked == RankedRules(b.rules, b.topK, b.band)
        place(s, x) == CHOOSE i \in DOMAIN s : s[i] = x
    IN /\ {ranked[i] : i \in DOMAIN ranked} = {b.rules[i] : i \in DOMAIN b.rules}
       /\ \A i \in DOMAIN ranked : i > b.topK => ranked[i] = b.rules[i]
       /\ \A i, j \in 1..Min({b.topK, Len(ranked)}) : i < j =>
            \/ b.band[ranked[i]] > b.band[ranked[j]]
            \/ /\ b.band[ranked[i]] = b.band[ranked[j]]
               /\ place(b.rules, ranked[i]) < place(b.rules, ranked[j])

CurationIsRight ==
  /\ BatchesAreStoredOnce /\ EventsAreDistinct /\ SelectionIsSettled
  /\ RulesHaveEvidence /\ RankingOnlyReorders

\* Ingestion is idempotent: a request that is sent again stores nothing.
ReplayedIngestStoresNothing ==
  \A b \in Batches : LET once == RunIngest(cur.events, b) IN RunIngest(once, b) = once
==============================================================================
