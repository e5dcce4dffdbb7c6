----------------------------- MODULE PolicyTrail -----------------------------
(***************************************************************************)
(* The policy audit trail of one profile (apps/api/src/core.ts): what      *)
(* writes it (policy decisions, recall authorizations, incident signals    *)
(* and the export itself), the export, and the read-only operations of the *)
(* memory console that explain it: policy audit, timeline, search,         *)
(* provenance and anomaly alerts.                                          *)
(*                                                                         *)
(* Every record carries the timestamp its caller gave, so writes arrive in *)
(* any order of time.  The trail keeps the newest events in the order of   *)
(* timestamp and id; an id is a hash, here an arbitrary order of events.   *)
(***************************************************************************)
EXTENDS Integers, Sequences, FiniteSets, FiniteSetsExt, SequencesExt

CONSTANTS
  TrailCand, TrailRule,
  TrailRuleOf,     \* the rule of each candidate
  DecisionWrites,  \* policy_decision_update: [id, key, outcome, at]
  RecallChecks,    \* recall_authorization: [id, from, granted, at]
  Incidents,       \* incident_escalation_signal: [id, severity, cands, rules, at]
  Harms,           \* harmful signals of any kind: [id, kind, at]
  ExportRequests,  \* policy_audit_export: [limit, at]
  PageRequests,    \* console queries: [types, since, until, limit]
  AnomalyRequests, \* memory_console_anomaly_alerts: [since, until, hours]
  AuditOrder(_),   \* the order of the hashes of the audit events
  MaxTrailKept,    \* MAX_POLICY_AUDIT_EVENTS
  MaxEverWritten   \* bound: no operation once so many events were written

AnyTime == 0
DecisionOutcome == {"allow", "review", "deny"}
OutcomeRank == [allow |-> 1, review |-> 2, deny |-> 3]
AlertType == {"harmful_signal_spike", "unauthorized_access_spike", "policy_drift_indicator"}
\* ANOMALY_ALERT_RULES; the multiplier is num / 2.
AlertRules ==
  [harmful_signal_spike |-> [floor |-> 3, delta |-> 2, num |-> 4],
   unauthorized_access_spike |-> [floor |-> 2, delta |-> 1, num |-> 4],
   policy_drift_indicator |-> [floor |-> 1, delta |-> 1, num |-> 3]]

ASSUME TrailAssumption ==
  /\ TrailRuleOf \in [TrailCand -> TrailRule]
  /\ MaxTrailKept \in Nat \ {0} /\ MaxEverWritten \in Nat
  /\ \A d \in DecisionWrites :
       /\ d = [id |-> d.id, key |-> d.key, outcome |-> d.outcome, at |-> d.at]
       /\ d.id \in Nat /\ d.outcome \in DecisionOutcome /\ d.at \in Nat \ {AnyTime}
  /\ \A r \in RecallChecks : r.granted \in BOOLEAN /\ r.at \in Nat
  /\ \A h \in Harms : h.kind \in {"pain_signal", "feedback"} /\ h.id \in Nat /\ h.at \in Nat
  /\ \A i \in Incidents : i.id \in Nat /\ i.at \in Nat
                          /\ i.cands \subseteq TrailCand /\ i.rules \subseteq TrailRule
  /\ \A r \in ExportRequests : r.limit \in Nat \ {0} /\ r.at \in Nat
  /\ \A r \in PageRequests : r.limit \in Nat \ {0}
  /\ \A r \in AnomalyRequests : r.since \in Nat /\ r.until \in Nat /\ r.hours \in Nat \ {0}

VARIABLES
  trail,      \* policyAuditTrail
  decisions,  \* policyDecisions
  incidents,  \* incidentEscalations
  harms,      \* pain and failure signals, harmful feedback, failed outcomes
  standing,   \* each candidate's status
  ruled,      \* the rules that stand
  (* history *)
  everWritten,    \* every audit event that was appended
  exported,   \* the last export: its request and content, overtaken by a write
  raised      \* the last incident that quarantines, until a promotion

trailVars ==
  <<trail, decisions, incidents, harms, standing, ruled, everWritten, exported, raised>>
lifecycleVars == <<standing, ruled, raised>>

NoExport == [limit |-> 0, at |-> AnyTime]
NoIncident == [id |-> 0, quarantines |-> FALSE, cands |-> {}, rules |-> {}, at |-> AnyTime]

TrailInit ==
  /\ trail = {} /\ decisions = {} /\ incidents = {} /\ harms = {}
  /\ standing = [c \in TrailCand |-> "shadow"] /\ ruled = {}
  /\ everWritten = {} /\ raised = NoIncident
  /\ exported = [of |-> NoExport, content |-> {}, overtaken |-> FALSE]

------------------------------------------------------------------------------
(* The trail.                                                                 *)

AuditEvent(op, entity, key, outcome, detail, at) ==
  [op |-> op, entity |-> entity, key |-> key, outcome |-> outcome, detail |-> detail,
   at |-> at]

\* What may be written; two events have two ids, which are hashed from all they hold.
DecisionsWritten ==
  {AuditEvent("decision", d.id, d.key, o, {done}, d.at) :
     d \in DecisionWrites, o \in DecisionOutcome, done \in {"created", "noop", "updated"}}
RecallEvent(r, outcome) == AuditEvent("recall", r.id, "none", outcome, {r.from}, r.at)
RecallsWritten == {RecallEvent(r, o) : r \in RecallChecks, o \in {"allow", "deny"}}
PainWritten == {AuditEvent("pain", h.id, "none", "recorded", {}, h.at) : h \in Harms}
IncidentsWritten ==
  {AuditEvent("incident", i.id, "none", o, gone, i.at) :
     i \in Incidents, o \in {"deny", "review"}, gone \in SUBSET (TrailCand \cup TrailRule)}
ExportsOf(r) ==
  {AuditEvent("export", n, "none", "recorded", {}, r.at) : n \in 0..(2 * r.limit + 3)}
TrailEvents ==
  DecisionsWritten \cup RecallsWritten \cup PainWritten \cup IncidentsWritten
    \cup UNION {ExportsOf(r) : r \in ExportRequests}
ASSUME AuditOrderAssumption ==
  /\ \A x \in TrailEvents : AuditOrder(x) \in Int
  /\ \A x, y \in TrailEvents : AuditOrder(x) = AuditOrder(y) => x = y

Earlier(x, y) == x.at < y.at \/ (x.at = y.at /\ AuditOrder(x) < AuditOrder(y))
\* Faulty: no cut.
Uncut(S, n) == S
\* Faulty: the cut keeps the head of the sorted list.
OldestOf(S, n) == {x \in S : Cardinality({y \in S : Earlier(y, x)}) < n}
NewestOf(S, n) == {x \in S : Cardinality({y \in S : Earlier(x, y)}) < n}

\* An event whose id the trail holds is not added again.
AuditAppended(e) ==
  /\ trail' = NewestOf(trail \cup {e}, MaxTrailKept)
  /\ everWritten' = everWritten \cup {e}
NoAudit == UNCHANGED <<trail, everWritten>>
Overtakes == exported' = [exported EXCEPT !.overtaken = TRUE]

\* policy_decision_update: the strictest outcome stays, the timestamp follows.
\* Every call is audited, also one that changes nothing.
DecisionMerged(old, d) ==
  [d EXCEPT !.outcome = IF OutcomeRank[old.outcome] >= OutcomeRank[@] THEN old.outcome ELSE @]
UpdateTrailDecision(d) ==
  LET old == {x \in decisions : x.id = d.id}
      next == IF old = {} THEN d ELSE DecisionMerged(CHOOSE x \in old : TRUE, d)
      done == IF old = {} THEN "created" ELSE IF next \in old THEN "noop" ELSE "updated"
  IN /\ decisions' = (decisions \ old) \cup {next}
     /\ AuditAppended(AuditEvent("decision", d.id, next.key, next.outcome, {done}, next.at))
     /\ Overtakes /\ UNCHANGED <<incidents, harms, lifecycleVars>>

\* recall_authorization without failClosed, which answers a refusal (RecallTutor
\* has the allowlist and the refusal that throws).
AuthorizeTrailRecall(r) ==
  /\ AuditAppended(RecallEvent(r, IF r.granted THEN "allow" ELSE "deny"))
  /\ Overtakes /\ UNCHANGED <<decisions, incidents, harms, lifecycleVars>>

\* A pain or failure signal is audited, harmful feedback and a failed outcome
\* that demote nothing are not.
HarmSignalled(h) ==
  /\ h \notin harms /\ harms' = harms \cup {h}
  /\ IF h.kind = "feedback" THEN NoAudit
     ELSE AuditAppended(AuditEvent("pain", h.id, "none", "recorded", {}, h.at))
  /\ Overtakes /\ UNCHANGED <<decisions, incidents, lifecycleVars>>

------------------------------------------------------------------------------
(* incident_escalation_signal                                                 *)

\* promote, whose gates MemoryLifecycle has: a demoted candidate may come again.
PromoteCandidate(c) ==
  /\ standing[c] # "promoted" \/ TrailRuleOf[c] \notin ruled
  /\ standing' = [standing EXCEPT ![c] = "promoted"]
  /\ ruled' = ruled \cup {TrailRuleOf[c]} /\ raised' = NoIncident
  /\ Overtakes /\ NoAudit /\ UNCHANGED <<decisions, incidents, harms>>

ImmediateSeverity == {"severe", "critical"}
EscalationOf(r) ==
  [id |-> r.id, quarantines |-> r.severity \in ImmediateSeverity, cands |-> r.cands,
   rules |-> r.rules, at |-> r.at]

\* Faulty: an incident reaches the candidates that it names only.
NamedCandidates(i) == i.cands
ResolvedTargets(i) == i.cands \cup {c \in TrailCand : TrailRuleOf[c] \in i.rules}
\* Any candidate that is not demoted yet can be.
NotYetDemoted(S) == {c \in S : standing[c] # "demoted"}

\* Demoting a candidate removes its rule; a rule that was named goes anyway.
Quarantined(i) ==
  LET demoted == NotYetDemoted(ResolvedTargets(i))
      viaCandidate == ruled \cap {TrailRuleOf[c] : c \in demoted}
      direct == (ruled \cap i.rules) \ viaCandidate
  IN IF i.quarantines
     THEN [demoted |-> demoted, rules |-> viaCandidate \cup direct,
           changed |-> demoted # {} \/ direct # {}]
     ELSE [demoted |-> {}, rules |-> {}, changed |-> FALSE]

\* Told again without an effect, an incident is not audited again.
RaiseIncident(r) ==
  LET i == EscalationOf(r)
      q == Quarantined(i)
  IN /\ incidents' = {x \in incidents : x.id # i.id} \cup {i}
     /\ standing' = [c \in TrailCand |-> IF c \in q.demoted THEN "demoted" ELSE standing[c]]
     /\ ruled' = ruled \ q.rules
     /\ raised' = IF i.quarantines THEN i ELSE raised
     /\ IF i \in incidents /\ ~q.changed THEN NoAudit
        ELSE AuditAppended(AuditEvent("incident", i.id, "none",
               IF i.quarantines THEN "deny" ELSE "review", q.demoted \cup q.rules, i.at))
     /\ Overtakes /\ UNCHANGED <<decisions, harms>>

------------------------------------------------------------------------------
(* policy_audit_export                                                        *)

\* Faulty: the exports of before are exported too.
WholeTrail == trail
TrailWithoutExports == {e \in trail : e.op # "export"}

LatestDecisions(n) ==
  {d \in decisions : Cardinality({x \in decisions :
                        x.at > d.at \/ (x.at = d.at /\ x.id > d.id)}) < n}
\* The incident checklist (its two other checks are left out).
ExportChecks(ds, es) ==
  {<<"decision_traceability", ds # {}>>, <<"rollback_readiness", es # {}>>}
ExportRecords(ds, es) ==
  {[type |-> "manifest", of |-> <<Cardinality(ds), Cardinality(es)>>]}
    \cup {[type |-> "policy_decision", of |-> d] : d \in ds}
    \cup {[type |-> "policy_audit_event", of |-> e] : e \in es}
    \cup {[type |-> "incident_check", of |-> c] : c \in ExportChecks(ds, es)}
ExportOf(r) == ExportRecords(LatestDecisions(r.limit), NewestOf(TrailWithoutExports, r.limit))

\* The export is audited after its content is read.
ExportAudit(r) ==
  LET content == ExportOf(r)
      id == Cardinality(content)
  IN /\ AuditAppended(AuditEvent("export", id, "none", "recorded", {}, r.at))
     /\ exported' = [of |-> r, content |-> {content}, overtaken |-> FALSE]
     /\ UNCHANGED <<decisions, incidents, harms, lifecycleVars>>

------------------------------------------------------------------------------
(* The memory console.                                                        *)

ConsoleRow(type, id, at) == [type |-> type, id |-> id, at |-> at, mentions |-> {}]
DecisionRows == {ConsoleRow("policy_decision", d.id, d.at) : d \in decisions}
AuditRows == {[ConsoleRow("policy_audit_event", AuditOrder(e), e.at) EXCEPT
                 !.mentions = {e.entity}] : e \in trail}
IncidentRows == {ConsoleRow("incident_escalation", i.id, i.at) : i \in incidents}
HarmRows == {ConsoleRow(h.kind, h.id, h.at) : h \in harms}
ConsoleRows == DecisionRows \cup AuditRows \cup IncidentRows \cup HarmRows

\* compareMemoryConsoleRows: newest first, then by type and id.
TypeRank ==
  [feedback |-> 1, incident_escalation |-> 2, pain_signal |-> 3,
   policy_audit_event |-> 4, policy_decision |-> 5]
RowBefore(x, y) ==
  \/ x.at > y.at
  \/ x.at = y.at /\ TypeRank[x.type] < TypeRank[y.type]
  \/ x.at = y.at /\ x.type = y.type /\ x.id < y.id
InRange(at, since, until) ==
  (since # AnyTime => at >= since) /\ (until # AnyTime => at <= until)

Timeline(q) ==
  LET rows == {x \in ConsoleRows : InRange(x.at, q.since, q.until)
                                     /\ (q.types # {} => x.type \in q.types)}
  IN [total |-> Cardinality(rows),
      page |-> [k \in 1..Min({q.limit, Cardinality(rows)}) |->
                  CHOOSE x \in rows : Cardinality({y \in rows : RowBefore(y, x)}) = k - 1]]

\* memory_console_search: the better match first, then the order of the rows.
SearchScore(text, x) == IF x.id = text THEN 2 ELSE IF text \in x.mentions THEN 1 ELSE 0
FoundBefore(text, x, y) ==
  \/ SearchScore(text, x) > SearchScore(text, y)
  \/ SearchScore(text, x) = SearchScore(text, y) /\ RowBefore(x, y)
Search(text, limit) ==
  LET matches == {x \in ConsoleRows : SearchScore(text, x) > 0}
  IN {x \in matches : Cardinality({y \in matches : FoundBefore(text, y, x)}) < limit}

\* The references of a provenance request, and whether the console finds them.
ProvenanceOf(refs) ==
  [r \in refs |-> \E x \in ConsoleRows : x.type = r.type /\ x.id = r.id]

\* memory_console_policy_audit: decisions and events by outcome and key.
PolicyAuditOf(outcomes, key) ==
  [decisions |-> {d \in decisions : d.outcome \in outcomes /\ (key # "none" => d.key = key)},
   audits |-> {e \in trail : e.outcome \in outcomes /\ (key # "none" => e.key = key)}]

------------------------------------------------------------------------------
(* Anomaly alerts.                                                            *)

DecisionEvents(S) == {e \in S : e.op = "decision"}
\* A decision whose key had another outcome in the event before it.
PolicyDrift(S) ==
  {e \in DecisionEvents(S) : \E p \in DecisionEvents(S) :
     /\ p.key = e.key /\ Earlier(p, e) /\ p.outcome # e.outcome
     /\ ~\E q \in DecisionEvents(S) : q.key = e.key /\ Earlier(p, q) /\ Earlier(q, e)}
Unauthorized(S) == {e \in S : e.op = "recall" /\ e.outcome = "deny"}
AnomalyEvents(type) ==
  CASE type = "harmful_signal_spike" -> harms
    [] type = "unauthorized_access_spike" -> Unauthorized(trail)
    [] type = "policy_drift_indicator" -> PolicyDrift(trail)
LatestAnomaly ==
  Max({AnyTime + 1} \cup {e.at : e \in UNION {AnomalyEvents(t) : t \in AlertType}})

AnomalyWindow(r) ==
  LET until == IF r.until # AnyTime THEN r.until ELSE LatestAnomaly
      since == IF r.since # AnyTime THEN r.since ELSE until - r.hours
  IN [since |-> since, until |-> until, before |-> since - r.hours]
Observed(S, v) == {e \in S : v.since <= e.at /\ e.at <= v.until}
\* Faulty: the baseline holds both its ends.
BaselineToBothEnds(S, v) == {e \in S : v.before <= e.at /\ e.at <= v.since}
Baseline(S, v) == {e \in S : v.before <= e.at /\ e.at < v.since}

Triggered(rule, base, seen) ==
  /\ seen >= rule.floor
  /\ base # 0 => seen - base >= rule.delta /\ 2 * seen >= rule.num * base
AlertSeverity(rule, base, seen) ==
  IF ~Triggered(rule, base, seen) THEN "none"
  ELSE IF seen >= Max({rule.floor + rule.delta, rule.floor + 1}) THEN "critical" ELSE "warn"
AnomalyAlert(type, r) ==
  LET v == AnomalyWindow(r)
      base == Baseline(AnomalyEvents(type), v)
      seen == Observed(AnomalyEvents(type), v)
  IN [base |-> base, seen |-> seen,
      severity |-> AlertSeverity(AlertRules[type], Cardinality(base), Cardinality(seen))]
\* A window whose start lies after its end is refused.
AnomalyAnswered(r) == AnomalyWindow(r).since <= AnomalyWindow(r).until

TrailNext ==
  /\ Cardinality(everWritten) < MaxEverWritten
  /\ \/ \E d \in DecisionWrites : UpdateTrailDecision(d)
     \/ \E r \in RecallChecks : AuthorizeTrailRecall(r)
     \/ \E h \in Harms : HarmSignalled(h)
     \/ \E c \in TrailCand : PromoteCandidate(c)
     \/ \E i \in Incidents : RaiseIncident(i)
     \/ \E r \in ExportRequests : ExportAudit(r)

TrailSpec == TrailInit /\ [][TrailNext]_trailVars

------------------------------------------------------------------------------
TrailTypeOK ==
  /\ trail \subseteq everWritten /\ Cardinality(trail) <= MaxTrailKept
  /\ Cardinality({AuditOrder(e) : e \in everWritten}) = Cardinality(everWritten)
  /\ incidents \subseteq {EscalationOf(r) : r \in Incidents} /\ harms \subseteq Harms
  /\ standing \in [TrailCand -> {"shadow", "promoted", "demoted"}] /\ ruled \subseteq TrailRule
  /\ raised \in {EscalationOf(r) : r \in Incidents} \cup {NoIncident}

\* Whatever the order in which events arrive and are evicted, the trail holds the
\* newest of all that were ever written: no kept event is older than a lost one.
TrailKeepsTheNewest ==
  /\ Cardinality(trail) = Min({MaxTrailKept, Cardinality(everWritten)})
  /\ \A e \in trail, lost \in everWritten \ trail : Earlier(lost, e)

\* Losing the oldest events makes no false drift: what the console reports as a
\* change of a key's outcome is one in the whole history as well.
DriftIsReal == PolicyDrift(trail) \subseteq PolicyDrift(everWritten)

\* An export that is asked for again tells the same, however many exports were
\* made, while nothing else was written and the trail did not lose an event.
ExportsRepeat ==
  exported.content # {} /\ ~exported.overtaken /\ Cardinality(trail) < MaxTrailKept =>
    ExportOf(exported.of) \in exported.content

\* A severe incident leaves none of what it names in force, not a rule, not a
\* candidate of such a rule, also when it is told again after a promotion; and
\* every removal was written to the trail.
QuarantineHolds ==
  raised.quarantines =>
    /\ ruled \cap raised.rules = {}
    /\ \A c \in TrailCand : c \in raised.cands \/ TrailRuleOf[c] \in raised.rules =>
         standing[c] = "demoted"
    /\ \E e \in everWritten : e.op = "incident" /\ e.entity = raised.id /\ e.outcome = "deny"

\* The console's timeline is the newest part of what matches, in order; a reference
\* is found exactly when its record is there; and until the trail is full a decision
\* that is denied is shown with the event that denied it; a record is found by its
\* own id before newer ones that only mention it.
ConsoleTellsTheState ==
  /\ \A q \in PageRequests :
       LET t == Timeline(q)
           rest == {x \in ConsoleRows : InRange(x.at, q.since, q.until)
                      /\ (q.types # {} => x.type \in q.types)} \ ToSet(t.page)
       IN /\ \A i, j \in DOMAIN t.page : i < j => t.page[i].at >= t.page[j].at
          /\ \A x \in rest, i \in DOMAIN t.page : t.page[i].at >= x.at
          /\ rest # {} => Len(t.page) = q.limit
  /\ LET refs == {[type |-> "incident_escalation", id |-> i.id] : i \in Incidents}
     IN \A r \in refs : ProvenanceOf(refs)[r] <=> \E i \in incidents : i.id = r.id
  /\ \A d \in PolicyAuditOf({"deny"}, "none").decisions : Cardinality(trail) < MaxTrailKept =>
       \E e \in PolicyAuditOf({"deny"}, d.key).audits : e.entity = d.id /\ e.at = d.at
  /\ \A x \in ConsoleRows : LET same == {y \in ConsoleRows : y.id = x.id}
                            IN Search(x.id, Cardinality(same)) = same

\* No event counts as usual and as unusual at once, every event between the start
\* of the baseline and the end counts, and a rate that does not grow is no alert.
AnomaliesCountOnce ==
  \A r \in AnomalyRequests, t \in AlertType : AnomalyAnswered(r) =>
    LET a == AnomalyAlert(t, r)
        v == AnomalyWindow(r)
    IN /\ a.base \cap a.seen = {}
       /\ a.base \cup a.seen = {e \in AnomalyEvents(t) : v.before <= e.at /\ e.at <= v.until}
       /\ a.severity # "none" => Cardinality(a.seen) > Cardinality(a.base)

TrailIsRight ==
  /\ TrailKeepsTheNewest /\ DriftIsReal /\ ExportsRepeat
  /\ QuarantineHolds /\ ConsoleTellsTheState /\ AnomaliesCountOnce
==============================================================================
