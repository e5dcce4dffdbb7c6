-------------------------- MODULE RetrievalPlanner --------------------------
(***************************************************************************)
(* The retrieval service (libs/shared/src/effect/services/                 *)
(* retrieval-service.ts): a request is planned on a snapshot of the store, *)
(* filtered by the policy service, reconciled, and cut into a page.  The   *)
(* next page is planned anew: its cursor holds an offset and the digest of *)
(* the request.  Scores are exact fractions, brought to one denominator.   *)
(***************************************************************************)
EXTENDS Integers, Sequences, FiniteSets, SequencesExt

CONSTANTS
  RMemory,       \* memory ids, ordered numbers
  MemoryIs,      \* [scope, links, relevance, other, category, text, tokens] of its payload
  RowUpdates,    \* what upserts write: [id, updated, expires, status]
  RScope,        \* scope ids
  ScopeIs,       \* [level, owner, parent]
  RRequests,     \* [select, matrix, weights, limit]; the digest leaves the limit out
  DenySets,      \* what the policy service may deny
  NoTime, NoParent, NoMatrix, NoCursor,
  SignalUnit,    \* relevance and the other signals are in units of 1/SignalUnit
  PerCategoryLimit, SourceLimit, ContentBudget, WarningBudget, WarningLimit,
  WarningTokens, \* the tokens of each kind of warning
  LowScore, StaleGap, LineLimit, ExcerptLimit

\* No scope is below a user's (trg_scopes_parent_level_guard_insert of the schema),
\* and whatever was left out, the warning that says so fits beside "stale" and "low".
ASSUME RetrievalAssumption ==
  /\ IsFiniteSet(RMemory) /\ RMemory \subseteq Int
  /\ \A m \in RMemory : MemoryIs[m].relevance \in Int /\ MemoryIs[m].other \in Int
                        /\ MemoryIs[m].tokens \in Nat /\ MemoryIs[m].scope \in RScope
  /\ \A u \in RowUpdates : /\ u.id \in RMemory /\ u.updated \in Int
                            /\ u.expires \in Int \cup {NoTime}
                            /\ u.status \in {"active", "tombstoned"}
  /\ NoParent \notin RScope /\ \A s \in RScope :
       /\ ScopeIs[s].level \in {"common", "project", "job_role", "user"}
       /\ ScopeIs[s].parent # NoParent =>
            ScopeIs[s].parent \in RScope /\ ScopeIs[ScopeIs[s].parent].level # "user"
  /\ \A r \in RRequests :
       /\ r = [select |-> r.select, matrix |-> r.matrix, weights |-> r.weights,
               limit |-> r.limit]
       /\ r.limit \in Nat /\ r.weights.relevance \in Int /\ r.weights.other \in Int
       /\ r.weights.decay \in Int
  /\ {} \in DenySets /\ NoCursor \notin RRequests
  /\ NoCursor \notin [offset : Nat, digest : {[r EXCEPT !.limit = 0] : r \in RRequests}]
  /\ \A k \in {"stale", "low", "budget", "category", "source", "long"} :
       WarningTokens[k] \in Nat
  /\ \A k \in {"budget", "category", "source"} :
       WarningTokens["stale"] + WarningTokens["low"] + WarningTokens[k] <= WarningBudget
  /\ WarningLimit \in Nat /\ WarningLimit >= 3 /\ WarningBudget \in Int
  /\ ContentBudget \in Nat /\ PerCategoryLimit \in Int /\ SourceLimit \in Int
  /\ LineLimit \in Nat /\ ExcerptLimit \in Nat /\ SignalUnit \in Int
  /\ LowScore \in Int /\ StaleGap \in Int

VARIABLES
  rows,     \* the memory_items table: a row by id, or none
  hidden,   \* what the policy service denies now
  reading,  \* a client that reads page after page
  page      \* the last page

retrievalVars == <<rows, hidden, reading, page>>

NoRow == [updated |-> NoTime, expires |-> NoTime, status |-> "none"]
NotReading == [on |-> FALSE, cursor |-> NoCursor, seen |-> <<>>, steady |-> TRUE]
NoAnswer == [hits |-> <<>>, merged |-> <<>>, next |-> NoCursor,
             request |-> NoCursor, pack |-> NoCursor]
RetrievalInit ==
  /\ rows = [m \in RMemory |-> NoRow] /\ hidden = {}
  /\ reading = NotReading /\ page = NoAnswer

------------------------------------------------------------------------------
(* Scopes.                                                                    *)

\* The least set that holds the seeds and what step[x] adds to a member x.
Closure(seeds, all, step) ==
  LET Closed(S) == seeds \subseteq S /\ \A x \in S : step[x] \subseteq S
  IN {x \in all : \A S \in SUBSET all : Closed(S) => x \in S}

ParentOf == [s \in RScope |-> {ScopeIs[s].parent} \ {NoParent}]
Common == {s \in RScope : ScopeIs[s].level = "common"}
Seeds(select) ==
  {s \in RScope \ Common : [level |-> ScopeIs[s].level, owner |-> ScopeIs[s].owner] \in select}
\* Common scopes, the selected ones and their ancestors.
Upwards(select) == Closure(Common \cup Seeds(select), RScope, ParentOf)
\* The descent from the selected scopes stops at what is allowed already.
Downwards(select) ==
  LET up == Upwards(select)
      new == [s \in RScope |-> {c \in RScope : ScopeIs[c].parent = s} \ up]
  IN Closure(Seeds(select), RScope, new)
AuthorizedByMatrix(s, matrix) ==
  matrix # NoMatrix /\ s \notin Common => ScopeIs[s].owner \in matrix
AllowedScopes(r) ==
  {s \in (IF r.select = {} THEN RScope ELSE Upwards(r.select) \cup Downwards(r.select)) :
     AuthorizedByMatrix(s, r.matrix)}
Allowed == [r \in RRequests |-> AllowedScopes(r)]
\* A selector the matrix does not hold refuses the request.
SelectorDenied(r) == r.matrix # NoMatrix /\ \E x \in r.select : x.owner \notin r.matrix

------------------------------------------------------------------------------
(* The plan.                                                                  *)

\* Expiry is measured at the update, not by a clock.
LiveMemory(m) ==
  /\ rows[m].status = "active"
  /\ rows[m].expires = NoTime \/ rows[m].expires > rows[m].updated
Candidates(r) ==
  {m \in RMemory : /\ LiveMemory(m) /\ MemoryIs[m].scope \in Allowed[r]
                   /\ MemoryIs[m].relevance # 0}

Maximum(S) == CHOOSE x \in S : \A y \in S : y <= x
Minimum(S) == CHOOSE x \in S : \A y \in S : x <= y
Lifespan(m) == IF rows[m].expires = NoTime THEN 0 ELSE rows[m].expires - rows[m].updated
\* Recency and expiry are relative to the other candidates.
DecayContext(C) ==
  LET times == {rows[m].updated : m \in C}
      life == Maximum({Lifespan(m) : m \in C} \cup {0})
  IN [min |-> Minimum(times), span |-> Maximum(times) - Minimum(times), life |-> life]
Positive(n) == IF n = 0 THEN 1 ELSE n
DecaySignal(m, c) ==  \* times 10 * Positive(c.span) * Positive(c.life)
  LET recency == IF c.span = 0 THEN 1 ELSE rows[m].updated - c.min
      expiry == IF rows[m].expires = NoTime \/ c.life = 0 THEN Positive(c.life) ELSE Lifespan(m)
  IN 7 * recency * Positive(c.life) + 3 * expiry * Positive(c.span)
Unit(c) == 10 * Positive(c.span) * Positive(c.life)
RankingScore(m, r, C) ==
  LET c == DecayContext(C)
  IN Unit(c) * (r.weights.relevance * MemoryIs[m].relevance
                + r.weights.other * MemoryIs[m].other)
     + SignalUnit * r.weights.decay * DecaySignal(m, c)
ScopeRank(s) == CASE ScopeIs[s].level = "common" -> 0 [] ScopeIs[s].level = "project" -> 1
                  [] ScopeIs[s].level = "job_role" -> 2 [] ScopeIs[s].level = "user" -> 3

\* comparePlannedHits: score, narrower scope, newer, id.
Rank(m, r, C) ==
  <<RankingScore(m, r, C), ScopeRank(MemoryIs[m].scope), rows[m].updated, 0 - m>>
Truth(m, r, C) == <<rows[m].updated>> \o Rank(m, r, C)
Greater(x, y) ==
  \E i \in 1..Len(x) : x[i] > y[i] /\ \A j \in 1..(i - 1) : x[j] = y[j]

\* A link of either memory is a conflict of both, when both are hits.
Linked(a, b) == b \in MemoryIs[a].links \/ a \in MemoryIs[b].links
ConflictsOf(m, H) == {n \in H \ {m} : Linked(m, n)}
Component(m, H) == Closure({m}, H, [x \in H |-> ConflictsOf(x, H)])

\* Faulty: conflicts are settled before the policy is asked.
ReconciledFirst(r, C) ==
  LET truth == [m \in C |-> Truth(m, r, C)]
  IN {m \in C : m \notin hidden /\ \A n \in Component(m, C) \ {m} : Greater(truth[m], truth[n])}
\* The truest of each component of what the policy allows.
Reconciled(r, C) ==
  LET H == C \ hidden
      truth == [m \in H |-> Truth(m, r, C)]
  IN {m \in H : \A n \in Component(m, H) \ {m} : Greater(truth[m], truth[n])}

\* The members of S in the order of their rank, the greatest first.
RankedList(S, rank) ==
  LET place(m) == 1 + Cardinality({n \in S : Greater(rank[n], rank[m])})
  IN [i \in 1..Cardinality(S) |-> CHOOSE m \in S : place(m) = i]
Planned(r, C) ==
  LET plan == Reconciled(r, C) IN RankedList(plan, [m \in plan |-> Rank(m, r, C)])

------------------------------------------------------------------------------
(* The actionable pack of a page.                                             *)

EmptyPack == [lines |-> {}, sources |-> <<>>, tokens |-> 0, dropped |-> {}]
Bounded(m, limit) == IF MemoryIs[m].tokens > limit THEN limit ELSE MemoryIs[m].tokens
SourceTokens(m) == 3 + Bounded(m, ExcerptLimit)
Shortened(m, limit) == IF MemoryIs[m].tokens > limit THEN {"long"} ELSE {}

AddLine(pack, m) ==
  LET line == [category |-> MemoryIs[m].category, text |-> MemoryIs[m].text]
      tokens == pack.tokens + Bounded(m, LineLimit)
  IN IF Cardinality({l \in pack.lines : l.category = line.category}) >= PerCategoryLimit
     THEN [pack EXCEPT !.dropped = @ \cup {"category"}]
     ELSE IF line \in pack.lines THEN pack
     ELSE IF tokens > ContentBudget THEN [pack EXCEPT !.dropped = @ \cup {"budget"}]
     ELSE [pack EXCEPT !.lines = @ \cup {line}, !.tokens = tokens,
                       !.dropped = @ \cup Shortened(m, LineLimit)]
\* Faulty: the source's tokens are not counted.
AddSourceFree(pack, m) ==
  IF Len(pack.sources) >= SourceLimit THEN [pack EXCEPT !.dropped = @ \cup {"source"}]
  ELSE [pack EXCEPT !.sources = Append(@, m)]
AddSource(pack, m) ==
  IF Len(pack.sources) >= SourceLimit THEN [pack EXCEPT !.dropped = @ \cup {"source"}]
  ELSE IF pack.tokens + SourceTokens(m) > ContentBudget
  THEN [pack EXCEPT !.dropped = @ \cup {"budget"}]
  ELSE [pack EXCEPT !.sources = Append(@, m), !.tokens = @ + SourceTokens(m),
                    !.dropped = @ \cup Shortened(m, ExcerptLimit)]

\* stale: a source much older than the freshest one; low: one with a low score.
Annotations(sources, r, C) ==
  LET S == {sources[i] : i \in 1..Len(sources)}
      c == DecayContext(C)
  IN {k \in {"stale", "low"} :
        \E m \in S :
          IF k = "stale" THEN \E n \in S : rows[n].updated - rows[m].updated >= StaleGap
          ELSE RankingScore(m, r, C) < LowScore * Unit(c)}
WarningOrder == <<"stale", "low", "budget", "category", "source", "long">>
Spent(kinds) ==
  LET cost(i) == IF WarningOrder[i] \in kinds THEN WarningTokens[WarningOrder[i]] ELSE 0
  IN cost(1) + cost(2) + cost(3) + cost(4) + cost(5) + cost(6)
\* Warnings are added in their order until one does not fit.
Warnings(kinds) ==
  LET first(n) == {WarningOrder[i] : i \in 1..n} \cap kinds
      fits(n) == Cardinality(first(n)) <= WarningLimit /\ Spent(first(n)) <= WarningBudget
  IN first(Maximum({n \in 0..6 : \A i \in 0..n : fits(i)}))

\* The pack after each of the hits.
Packed(hits) ==
  LET after[n \in 0..Len(hits)] ==
        IF n = 0 THEN EmptyPack ELSE AddSource(AddLine(after[n - 1], hits[n]), hits[n])
  IN after
CompilePack(hits, r, C) ==
  LET pack == Packed(hits)[Len(hits)]
  IN [lines |-> pack.lines, sources |-> pack.sources, tokens |-> pack.tokens,
      dropped |-> pack.dropped,
      warnings |-> Warnings(pack.dropped \cup Annotations(pack.sources, r, C))]

------------------------------------------------------------------------------
(* Pages.                                                                     *)

Digest(r) == [r EXCEPT !.limit = 0]
Lesser(a, b) == IF a < b THEN a ELSE b
CursorFits(cursor, r) == cursor # NoCursor => cursor.digest = Digest(r)
Page(r, cursor, C, plan) ==
  LET offset == Lesser(IF cursor = NoCursor THEN 0 ELSE cursor.offset, Len(plan))
      end == Lesser(Len(plan), offset + r.limit)
      hits == SubSeq(plan, offset + 1, end)
  IN [hits |-> hits,
      merged |-> [i \in 1..Len(hits) |-> Component(hits[i], C \ hidden) \ {hits[i]}],
      next |-> IF r.limit > 0 /\ end < Len(plan)
               THEN [offset |-> end, digest |-> Digest(r)] ELSE NoCursor,
      request |-> r, pack |-> CompilePack(hits, r, C)]

\* The first page, or the one the client's cursor asks for.
Retrieve(r, cursor) ==
  /\ ~SelectorDenied(r) /\ CursorFits(cursor, r)
  /\ LET C == Candidates(r)
         got == Page(r, cursor, C, Planned(r, C))
         goesOn == cursor # NoCursor
     IN /\ page' = got
        /\ reading' = [on |-> got.next # NoCursor, cursor |-> got.next,
                       seen |-> (IF goesOn THEN reading.seen ELSE <<>>) \o got.hits,
                       steady |-> goesOn => reading.steady]
  /\ UNCHANGED <<rows, hidden>>

FirstPage(r) == Retrieve(r, NoCursor)
NextPage(r) == reading.on /\ Retrieve(r, reading.cursor)

\* The store and the policy may change between two pages.
Forget == page' = NoAnswer /\ reading' = [reading EXCEPT !.steady = FALSE]
StoreRow(u) ==
  /\ rows' = [rows EXCEPT ![u.id] =
                [updated |-> u.updated, expires |-> u.expires, status |-> u.status]]
  /\ rows' # rows /\ Forget /\ UNCHANGED hidden
PolicyChanges(d) == hidden' = d /\ d # hidden /\ Forget /\ UNCHANGED rows

RetrievalNext ==
  \/ \E r \in RRequests : FirstPage(r) \/ NextPage(r)
  \/ \E u \in RowUpdates : StoreRow(u)
  \/ \E d \in DenySets : PolicyChanges(d)
RetrievalSpec == RetrievalInit /\ [][RetrievalNext]_retrievalVars

------------------------------------------------------------------------------
RetrievalTypeOK ==
  /\ rows \in [RMemory -> [updated : Int \cup {NoTime}, expires : Int \cup {NoTime},
                           status : {"none", "active", "tombstoned"}]]
  /\ hidden \in DenySets /\ reading.on \in BOOLEAN /\ reading.steady \in BOOLEAN

Shown == {page.hits[i] : i \in 1..Len(page.hits)}
Matching == Candidates(page.request) \ hidden
Answered == page # NoAnswer

\* What was read over the pages of an unchanged store is the beginning of one plan,
\* every hit once, and the whole of it when there is no further page.
PagesCoverOnce ==
  Answered /\ reading.steady /\ page.request.limit > 0 =>
    LET plan == Planned(page.request, Candidates(page.request))
    IN /\ IsPrefix(reading.seen, plan)
       /\ ~reading.on => reading.seen = plan

\* A matching memory that the caller may see is in the plan, or a memory the caller
\* may see as well, and that is at least as new, was chosen in its place.
NothingVanishes ==
  Answered =>
    LET plan == Reconciled(page.request, Candidates(page.request))
    IN \A m \in Matching : \E h \in plan : 
         h = m \/ (h \in Component(m, Matching) /\ rows[h].updated >= rows[m].updated)

\* No page shows two memories that contradict or supersede one another, nor does a
\* later page show one that conflicts with an earlier page's.
NoConflictShown ==
  Answered /\ reading.steady =>
    \A i, j \in 1..Len(reading.seen) : i # j => ~Linked(reading.seen[i], reading.seen[j])

\* Who asks for one user's memories is shown no other user's.
OtherUsersHidden ==
  Answered /\ page.request.select # {}
  /\ (\A x \in page.request.select : x.level = "user") =>
    \A m \in Shown : ScopeIs[MemoryIs[m].scope].level = "user" =>
      \E x \in page.request.select : x.owner = ScopeIs[MemoryIs[m].scope].owner

\* The pack of a page stays within its budgets, cites each line once, and says so
\* when something was left out, however many other warnings there are.
Costs(sources) ==
  LET upTo[n \in 0..Len(sources)] ==
        IF n = 0 THEN 0 ELSE upTo[n - 1] + SourceTokens(sources[n])
  IN upTo
CostOf(sources) == Costs(sources)[Len(sources)]
LeftOut == {"budget", "category", "source"}
PackIsHonest ==
  Answered =>
    LET p == page.pack
    IN /\ p.tokens + Spent(p.warnings) <= ContentBudget + WarningBudget
       /\ CostOf(p.sources) <= p.tokens
       /\ {p.sources[i] : i \in 1..Len(p.sources)} \subseteq Shown
       /\ p.dropped \cap LeftOut # {} => p.warnings \cap p.dropped \cap LeftOut # {}

RetrievalIsRight ==
  PagesCoverOnce /\ NothingVanishes /\ NoConflictShown /\ OtherUsersHidden /\ PackIsHonest
=============================================================================
