--------------------------- MODULE ReviewScheduler ---------------------------
(***************************************************************************)
(* The spaced-review schedule of one profile (apps/api/src/core.ts): the   *)
(* entries, the clocks that say when to consolidate, the bounded set of    *)
(* active reviews with its archival tiers, and the decay of candidates     *)
(* that every clock tick brings.  Times are given by the caller and may go *)
(* back; their unit is half a day, since the decay counts whole days.      *)
(***************************************************************************)
EXTENDS Integers, FiniteSets, FiniteSetsExt, SequencesExt

CONSTANTS
  Entry,            \* scheduleEntryIds, naturals: their order is theirs
  ShadowCand,       \* candidates that are in the scope from the start
  CandConfidence,   \* ShadowCand -> confidence at the start
  CandExpires,      \* ShadowCand -> expiresAt
  EntryUpdates,     \* review_schedule_update requests: [id, status, due, interval]
  ClockTicks,       \* review_schedule_clock requests
  ActiveLimits,     \* activeLimits of review_set_rebalance requests
  ReviewTime,       \* timestamps of requests
  ConfidenceFloor,  \* SHADOW_CANDIDATE_CONFIDENCE_FLOOR
  DefaultLimit,     \* DEFAULT_ACTIVE_REVIEW_SET_LIMIT
  ColdAfter, FrozenAfter,  \* 90 and 365 days
  MaxListItems,     \* MAX_LIST_ITEMS
  MaxLoad           \* bound on fatigueLoad

ASSUME ReviewAssumption ==
  /\ Entry \subseteq Nat /\ ReviewTime \subseteq Nat
  /\ ActiveLimits \subseteq Nat \ {0} /\ DefaultLimit \in Nat \ {0}
  /\ CandConfidence \in [ShadowCand -> Nat] /\ CandExpires \in [ShadowCand -> Nat]
  /\ ConfidenceFloor \in Nat /\ ColdAfter \in Nat /\ FrozenAfter \in Nat /\ MaxLoad \in Nat
  /\ \A r \in EntryUpdates :
       /\ r.id \in Entry /\ r.status \in {"due", "scheduled", "completed", "suspended"}
       /\ r.due \in Nat /\ r.interval \in Nat \ {0}
  /\ \A r \in ClockTicks :
       /\ r.mode \in {"interaction", "auto", "sleep"} /\ r.forceSleep \in BOOLEAN
       /\ \A n \in {r.interactions, r.noveltyLoad, r.noveltyWrites, r.fatigueDelta} : n \in Nat
       /\ r.threshold \in Nat \ {0} /\ r.noveltyThreshold \in Nat \ {0}

VARIABLE rev   \* [entries, clocks, tiers, cands]
reviewVars == <<rev>>

\* entries maps the ids there are to their entries; a tier is a set of ids.
ReviewInit ==
  rev = [entries |-> <<>>,
         clocks |-> [fatigue |-> 0, novelty |-> 0],
         tiers |-> [limit |-> DefaultLimit, active |-> {}, warm |-> {}, cold |-> {},
                    frozen |-> {}],
         cands |-> [c \in ShadowCand |->
                      [confidence |-> CandConfidence[c], cursor |-> 0, days |-> 0,
                       demoted |-> FALSE]]]

------------------------------------------------------------------------------
(* normalizeBoundedStringArray throws on a list of more than MaxListItems,   *)
(* and every operation reads the tiers that the last one stored: when it     *)
(* imports the state, or in getOrCreateReviewArchivalTiers.                  *)
Readable(s) ==
  \A ids \in {s.tiers.active, s.tiers.warm, s.tiers.cold, s.tiers.frozen} :
    Cardinality(ids) <= MaxListItems

(* What import keeps of the clocks: the novelty load is left out.  (Tick      *)
(* counters and timestamps, which are only reported, are left out here.)     *)
ImportClocks(s) == [s EXCEPT !.clocks.novelty = 0]

RunReviewScheduleUpdate(s, r) ==
  LET incoming == [status |-> r.status, due |-> r.due, interval |-> r.interval]
  IN [s EXCEPT !.entries = [i \in DOMAIN @ \cup {r.id} |->
                              IF i = r.id THEN incoming ELSE @[i]]]

------------------------------------------------------------------------------
(* rebalanceReviewSet                                                        *)

StatusRank == [completed |-> 1, due |-> 2, scheduled |-> 3, suspended |-> 4]
SoonerDue(s, i, j) ==
  LET x == s.entries[i]  y == s.entries[j] IN
  \/ x.due < y.due
  \/ x.due = y.due /\ StatusRank[x.status] < StatusRank[y.status]
  \/ x.due = y.due /\ x.status = y.status /\ i < j

Reviewable(s) == {i \in DOMAIN s.entries : s.entries[i].status \in {"due", "scheduled"}}

\* Faulty: suspended and completed entries are active too.
ActiveOfAll(s, limit) ==
  {i \in DOMAIN s.entries :
     Cardinality({j \in DOMAIN s.entries : SoonerDue(s, j, i)}) < limit}
ActiveReviewIds(s, limit) ==
  {i \in Reviewable(s) : Cardinality({j \in Reviewable(s) : SoonerDue(s, j, i)}) < limit}

TierOf(entry, at) ==
  LET age == (at - entry.due) \div 2 IN
  CASE age >= FrozenAfter -> "frozen"
    [] age < FrozenAfter /\ (entry.status = "completed" \/ age >= ColdAfter) -> "cold"
    [] OTHER -> "warm"

RebalanceReviewSet(s, limit, at) ==
  LET active == ActiveReviewIds(s, limit)
      InTier(t) == {i \in DOMAIN s.entries \ active : TierOf(s.entries[i], at) = t}
  IN [s EXCEPT !.tiers = [limit |-> limit, active |-> active, warm |-> InTier("warm"),
                          cold |-> InTier("cold"), frozen |-> InTier("frozen")]]

------------------------------------------------------------------------------
(* runTemporalCandidateMaintenanceTick.  0.99 ^ days is taken as one unit a   *)
(* day: the properties need only that days add up and that the floor holds.   *)

Decayed(confidence, days) == Max({ConfidenceFloor, confidence - days})
ElapsedDays(from, at) == Max({0, (at - from) \div 2})

\* Faulty: the cursor stays where it was.
DecayKeepingCursor(c, at) ==
  LET days == ElapsedDays(c.cursor, at) IN
  IF c.demoted \/ days = 0 THEN c
  ELSE [c EXCEPT !.confidence = Decayed(@, days), !.days = @ + days]
DecayCandidate(c, at) ==
  LET days == ElapsedDays(c.cursor, at) IN
  IF c.demoted \/ days = 0 THEN c
  ELSE [c EXCEPT !.confidence = Decayed(@, days), !.days = @ + days, !.cursor = at]

TemporalMaintenance(s, at) ==
  [s EXCEPT !.cands = [c \in ShadowCand |->
     IF CandExpires[c] < at THEN [@[c] EXCEPT !.demoted = TRUE]
     ELSE DecayCandidate(@[c], at)]]

------------------------------------------------------------------------------
(* runReviewScheduleClock                                                    *)

LoadedClocks(k, r) ==
  CASE r.mode \in {"interaction", "auto"} ->
         [fatigue |-> k.fatigue + r.interactions + r.noveltyLoad + r.fatigueDelta,
          novelty |-> k.novelty + r.noveltyWrites + r.noveltyLoad]
    [] r.mode = "sleep" -> [k EXCEPT !.novelty = @ + r.noveltyWrites]

ShouldSleep(k, r) ==
  \/ r.forceSleep \/ r.mode = "sleep"
  \/ k.fatigue >= r.threshold \/ k.novelty >= r.noveltyThreshold

Recovered(k, r) ==
  [fatigue |-> Max({0, k.fatigue - Max({1, (r.threshold + 1) \div 2})}), novelty |-> 0]

TickEntry(entry, sleeps, at) ==
  CASE entry.status = "scheduled" /\ entry.due <= at -> [entry EXCEPT !.status = "due"]
    [] entry.status = "completed" /\ sleeps ->
         [entry EXCEPT !.status = "scheduled", !.due = at + 2 * entry.interval]
    [] OTHER -> entry

RunReviewScheduleClock(s, r, at) ==
  LET loaded == LoadedClocks(s.clocks, r)
      sleeps == ShouldSleep(loaded, r)
      ticked == [s EXCEPT
        !.clocks = IF sleeps THEN Recovered(loaded, r) ELSE loaded,
        !.entries = [i \in DOMAIN @ |-> TickEntry(@[i], sleeps, at)]]
  IN RebalanceReviewSet(TemporalMaintenance(ticked, at), s.tiers.limit, at)

------------------------------------------------------------------------------
\* Each operation starts from what the last one stored, if it can be read.
Stored == ImportClocks(rev)

UpdateReviewSchedule(r) ==
  Readable(rev) /\ rev' = RunReviewScheduleUpdate(Stored, r)
RebalanceReviews(limit, at) ==
  Readable(rev) /\ rev' = RebalanceReviewSet(Stored, limit, at)
TickReviewClock(r, at) ==
  /\ Readable(rev)
  /\ rev' = RunReviewScheduleClock(Stored, r, at)
  /\ rev'.clocks.fatigue <= MaxLoad

ReviewNext ==
  \/ \E r \in EntryUpdates : UpdateReviewSchedule(r)
  \/ \E limit \in ActiveLimits, at \in ReviewTime : RebalanceReviews(limit, at)
  \/ \E r \in ClockTicks, at \in ReviewTime : TickReviewClock(r, at)

ReviewSpec == ReviewInit /\ [][ReviewNext]_reviewVars

------------------------------------------------------------------------------
ReviewTypeOK ==
  /\ DOMAIN rev.entries \subseteq Entry
  /\ \A t \in {"active", "warm", "cold", "frozen"} : rev.tiers[t] \subseteq Entry
  /\ rev.clocks.fatigue \in 0..MaxLoad /\ rev.clocks.novelty \in Nat
  /\ \A c \in ShadowCand : rev.cands[c].confidence \in Nat /\ rev.cands[c].days \in Nat

\* The active reviews are the earliest that are to be reviewed, at most as many as
\* allowed, and each entry that is not one of them is in one tier.
ActiveSetIsEarliest ==
  \A limit \in ActiveLimits, at \in ReviewTime :
    LET n == RebalanceReviewSet(rev, limit, at)
        rest == DOMAIN n.entries \ n.tiers.active
    IN /\ n.tiers.active \subseteq Reviewable(n)
       /\ Cardinality(n.tiers.active) = Min({limit, Cardinality(Reviewable(n))})
       /\ \A i \in n.tiers.active, j \in Reviewable(n) \cap rest :
            n.entries[i].due <= n.entries[j].due
       /\ \A i \in rest : Cardinality({t \in {"warm", "cold", "frozen"} :
                                         i \in n.tiers[t]}) = 1
       /\ RebalanceReviewSet(n, limit, at) = n

\* A tick leaves no scheduled entry that is due; a consolidation leaves no completed
\* one, plans its next review after the tick, and brings back no suspended one.
NothingOverdue ==
  \A r \in ClockTicks, at \in ReviewTime :
    LET n == RunReviewScheduleClock(Stored, r, at)
        sleeps == ShouldSleep(LoadedClocks(Stored.clocks, r), r)
    IN \A i \in DOMAIN n.entries :
         /\ n.entries[i].status = "scheduled" => n.entries[i].due > at
         /\ n.entries[i].status = "completed" => ~sleeps
         /\ rev.entries[i].status = "suspended" => n.entries[i] = rev.entries[i]

\* However often and in whatever order the ticks come, a candidate has decayed by no
\* more whole days than passed, by each of them once, and stays above the floor.
DecaysOncePerDay ==
  \A c \in ShadowCand :
    LET k == rev.cands[c] IN
    /\ 2 * k.days <= k.cursor
    /\ k.days > 0 => k.confidence = Decayed(CandConfidence[c], k.days)
    /\ k.days = 0 => k.confidence = CandConfidence[c]

\* The same tick again moves no candidate.
TicksAgainMoveNothing ==
  \A r \in ClockTicks, at \in ReviewTime :
    LET n == RunReviewScheduleClock(Stored, r, at) IN
    RunReviewScheduleClock(ImportClocks(n), r, at).cands = n.cands

ReviewsAreRight ==
  ActiveSetIsEarliest /\ NothingOverdue /\ DecaysOncePerDay /\ TicksAgainMoveNothing

\* Clock transitions update bounded archival tiers: what a tick or a rebalance
\* stores can be read by the next operation.
TiersStayReadable == Readable(rev)
==============================================================================
