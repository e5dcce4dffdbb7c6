----------------------------- MODULE RecallTutor -----------------------------
(***************************************************************************)
(* Recall from other stores and degraded tutoring (apps/api/src/core.ts).  *)
(* A store lists the stores that may recall from it; recall_authorization  *)
(* changes the list and answers, tutor_degraded and context ask it.  A     *)
(* refusal is an error, and with a state file an error is not persisted.   *)
(***************************************************************************)
EXTENDS Integers, Sequences, FiniteSets, FiniteSetsExt, SequencesExt

CONSTANTS
  OwnStore, OtherStore,   \* the store, and those that may ask it
  AuthRequests,   \* recall_authorization: [mode, requester, stores, failClosed]
  TutorRequests,  \* tutor_degraded: [requester, degraded, limit, matches]
  Suggestable,    \* what may be suggested: [kind, order, id, status, evidence]
  MaxSessions     \* bound on the sessions kept

ASSUME RecallAssumption ==
  /\ OwnStore \notin OtherStore
  /\ \A r \in AuthRequests : r.mode \in {"grant", "replace", "revoke", "check"}
                              /\ r.stores \subseteq OtherStore \cup {OwnStore}
  /\ \A r \in TutorRequests : r.limit \in Nat \ {0}
  /\ IsFiniteSet(Suggestable)
  /\ \A x \in Suggestable : x.kind \in {"review", "misconception", "plan"}
                             /\ x.order \in Nat /\ x.id \in Nat
  /\ \A x, y \in Suggestable : x.kind = y.kind /\ x.id = y.id => x = y  \* kept by id

VARIABLES
  recall,     \* what the next operation starts from: [allow, audit, sessions]
  filed,      \* whether there is a state file
  acked,      \* the allowlist by the operations that were answered
  answers     \* [requester, granted] of recalls that were answered

recallVars == <<recall, filed, acked, answers>>

RecallInit ==
  /\ recall = [allow |-> {OwnStore}, audit |-> {}, sessions |-> {}]
  /\ filed \in BOOLEAN
  /\ acked = {OwnStore} /\ answers = {}

------------------------------------------------------------------------------
\* Faulty: a store may revoke its own access.
AllowOfAnyone(allow, r) ==
  CASE r.mode = "grant" -> allow \cup r.stores
    [] r.mode = "replace" -> {OwnStore} \cup r.stores
    [] r.mode = "revoke" -> allow \ r.stores
    [] r.mode = "check" -> allow
NextAllowed(allow, r) ==
  CASE r.mode = "grant" -> allow \cup r.stores
    [] r.mode = "replace" -> {OwnStore} \cup r.stores
    [] r.mode = "revoke" -> allow \ (r.stores \ {OwnStore})
    [] r.mode = "check" -> allow

Authorized(s, requester) == requester = OwnStore \/ requester \in s.allow

AuditedRecall(s, operation, requester) ==
  [s EXCEPT !.audit = @ \cup {[operation |-> operation, requester |-> requester,
                               allowed |-> Authorized(s, requester)]}]

RunRecallAuthorization(s, r) ==
  AuditedRecall([s EXCEPT !.allow = NextAllowed(@, r)], "recall_authorization",
                r.requester)

EnsureRecallAuthorization(s, operation, requester) ==
  AuditedRecall(s, operation, requester)

------------------------------------------------------------------------------
(* runTutorDegraded: due reviews by date, then misconceptions by how harmful   *)
(* they are, then plan items by rank, as many as asked for.                    *)

KindRank == [review |-> 1, misconception |-> 2, plan |-> 3]
SuggestionLess(x, y) ==
  \/ KindRank[x.kind] < KindRank[y.kind]
  \/ x.kind = y.kind /\ x.order < y.order
  \/ x.kind = y.kind /\ x.order = y.order /\ x.id < y.id

Eligible(x) ==
  CASE x.kind = "review" -> x.status \in {"due", "scheduled"}
    [] x.kind = "misconception" -> x.status # "suppressed"
    [] x.kind = "plan" -> x.evidence # {}

\* Faulty: each kind may fill the answer.
SuggestionsPerKind(r) ==
  {x \in Suggestable : Eligible(x) /\ x.id \in r.matches /\
     Cardinality({y \in Suggestable : y.kind = x.kind /\ Eligible(y) /\
                    y.id \in r.matches /\ SuggestionLess(y, x)}) < r.limit}
Suggestions(r) ==
  LET matching == {x \in Suggestable : Eligible(x) /\ x.id \in r.matches}
  IN {x \in matching : Cardinality({y \in matching : SuggestionLess(y, x)}) < r.limit}

TutorSession(r) == [degraded |-> r.degraded, limit |-> r.limit, matches |-> r.matches,
                    suggested |-> Suggestions(r)]
RunTutorDegraded(s, r) ==
  [AuditedRecall(s, "tutor_degraded", OwnStore) EXCEPT
     !.sessions = @ \cup {TutorSession(r)}]

------------------------------------------------------------------------------
\* executeOperation: after an error the next operation imports the file, which
\* still has what was there before; without a file it finds what the error left.
Failed(left) == recall' = (IF filed THEN recall ELSE left) /\ UNCHANGED acked

AuthorizeRecall(r) ==
  LET n == RunRecallAuthorization(recall, r) IN
  /\ UNCHANGED filed
  /\ IF ~Authorized(n, r.requester) /\ r.failClosed
     THEN Failed(n) /\ UNCHANGED answers
     ELSE /\ recall' = n /\ acked' = n.allow
          /\ answers' = answers \cup {<<r.requester, Authorized(n, r.requester)>>}

DegradedTutor(r) ==
  LET asked == EnsureRecallAuthorization(recall, "tutor_degraded", r.requester) IN
  /\ UNCHANGED <<filed, answers>>
  /\ Cardinality(recall.sessions) < MaxSessions
  /\ IF ~Authorized(recall, r.requester) THEN Failed(asked)
     ELSE recall' = RunTutorDegraded(asked, r) /\ UNCHANGED acked

\* context is read-only: with a file nothing it did is persisted.
RecallContext(requester) ==
  LET asked == EnsureRecallAuthorization(recall, "context", requester) IN
  /\ recall' = IF filed THEN recall ELSE asked
  /\ answers' = IF Authorized(recall, requester)
                THEN answers \cup {<<requester, TRUE>>} ELSE answers
  /\ UNCHANGED <<filed, acked>>

RecallNext ==
  \/ \E r \in AuthRequests : AuthorizeRecall(r)
  \/ \E r \in TutorRequests : DegradedTutor(r)
  \/ \E q \in OtherStore \cup {OwnStore} : RecallContext(q)

RecallSpec == RecallInit /\ [][RecallNext]_recallVars

------------------------------------------------------------------------------
RecallTypeOK ==
  /\ recall.allow \subseteq OtherStore \cup {OwnStore}
  /\ filed \in BOOLEAN /\ acked \subseteq OtherStore \cup {OwnStore}

\* With a state file the allowlist is the one that answered operations made: a
\* change whose caller got an error is not in force.
AllowlistIsAcknowledged == filed => recall.allow = acked

\* Whatever was granted, replaced and revoked, a store may recall from itself.
OwnStoreStays == OwnStore \in recall.allow

\* Without a state file, a foreign store that got an answer had been allowed by an
\* audited decision; with one, a context's audit is not persisted.
AllowedRecallsWereListed ==
  \A q \in OtherStore : <<q, TRUE>> \in answers =>
    \/ \E e \in recall.audit : e.requester = q /\ e.allowed
    \/ filed

\* A session suggests the most urgent of what may be suggested and matches, as
\* many as asked for: no suppressed misconception, no plan item without evidence.
SessionsSuggestTheMostUrgent ==
  \A s \in recall.sessions :
    LET matching == {x \in Suggestable : Eligible(x) /\ x.id \in s.matches} IN
    /\ Cardinality(s.suggested) = Min({s.limit, Cardinality(matching)})
    /\ s.suggested \subseteq matching
    /\ \A x \in s.suggested, y \in matching \ s.suggested : ~SuggestionLess(y, x)

RecallIsRight ==
  /\ AllowlistIsAcknowledged /\ OwnStoreStays
  /\ AllowedRecallsWereListed /\ SessionsSuggestTheMostUrgent
==============================================================================
