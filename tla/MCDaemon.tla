------------------------------- MODULE MCDaemon -------------------------------
(***************************************************************************)
(* Small instances of what runs beside the engine: the daemon's commands   *)
(* and the services.  p says which of them takes a step.                   *)
(***************************************************************************)
EXTENDS DaemonControl, RetrievalPlanner, IdentityDirectory, CollectorConfig,
  SourceCollection, ApiService, TLC

(* DaemonControl: two terminals, `ums sync` in a third, two daemons.          *)
CONSTANTS z1, z2, zs

(* RetrievalPlanner: two users of a role of a project; a user's memory        *)
(* supersedes the common one and is contradicted by the other user's.        *)
CONSTANTS pr, jr, ua, ub, fa, fb
AScope(level, owner, parent) == [level |-> level, owner |-> owner, parent |-> parent]
PlannerScopes == <<AScope("common", "all", 0), AScope("project", pr, 1),
  AScope("job_role", jr, 2), AScope("user", ua, 3), AScope("user", ub, 3)>>
AMemory(scope, links, relevance, text) ==
  [scope |-> scope, links |-> links, relevance |-> relevance, other |-> 1,
   category |-> "do", text |-> text, tokens |-> 7]
PlannerMemories == <<AMemory(1, {}, 2, fa), AMemory(4, {1}, 1, fa),
  [AMemory(5, {2}, 2, fb) EXCEPT !.category = "dont", !.tokens = 20],
  AMemory(2, {}, 1, fb)>>
ARow(id, updated, expires) ==
  [id |-> id, updated |-> updated, expires |-> expires, status |-> "active"]
PlannerUpdates == {ARow(1, 1, 0), ARow(1, 9, 0), ARow(2, 2, 4), ARow(2, 9, 0), ARow(3, 2, 0),
  ARow(4, 1, 0), ARow(4, 3, 2), [ARow(3, 2, 0) EXCEPT !.status = "tombstoned"]}
ASelector(level, owner) == [level |-> level, owner |-> owner]
ARequest(select, matrix, limit) ==
  [select |-> select, matrix |-> matrix, limit |-> limit,
   weights |-> [relevance |-> 6, other |-> 2, decay |-> 2]]
PlannerWarnings == [stale |-> 13, low |-> 10, budget |-> 10, category |-> 8,
                    source |-> 12, long |-> 10]
PlannerRequests == {ARequest({}, NoMatrix, 1), ARequest({}, NoMatrix, 2),
  ARequest({ASelector("user", ua)}, NoMatrix, 2),
  ARequest({ASelector("project", pr)}, {pr, ua}, 3)}

(* IdentityDirectory: a tenant with two issuers and another tenant; the       *)
(* feeds of the first issuer arrive in any order.                             *)
CONSTANTS d1, d2, n1, n2, b1, b2, b3, s1, s2, g1, g2, jp
ADelivery(user, op, sequence, cursor) ==
  [tenant |-> d1, binding |-> b1, subject |-> s1, user |-> user, op |-> op,
   sequence |-> sequence, cursor |-> cursor]
DirectoryUserEvents == {ADelivery(n1, "create", 1, 1), ADelivery(n1, "disable", 2, 2),
  ADelivery(n2, "update", 2, 3), ADelivery(n1, "reprovision", 3, 4),
  [ADelivery(n1, "disable", 1, 1) EXCEPT !.binding = b2, !.subject = s2]}
AGroupEvent(user, groups, sequence, cursor) ==
  [tenant |-> d1, binding |-> b1, user |-> user, groups |-> groups,
   sequence |-> sequence, cursor |-> cursor]
DirectoryGroupEvents == {AGroupEvent(n1, {g1, g2}, 1, 1), AGroupEvent(n1, {g2}, 2, 2),
  [AGroupEvent(n1, {g1}, 1, 1) EXCEPT !.binding = b2]}
AGroup(binding, group, role, project) ==
  [tenant |-> d1, binding |-> binding, group |-> group, role |-> role, project |-> project]
DirectoryGroups == {AGroup(b1, g1, "org_admin", NoProject), AGroup(b1, g1, "lead", jp),
  AGroup(b1, g2, "audit", jp), AGroup(b1, g2, NoRole, jp), AGroup(b2, g1, NoRole, jp)}
DirectoryRoles == [audit |-> 1, lead |-> 2, org_admin |-> 3]
DirectoryReadsAs == [audit |-> "auditor", lead |-> "lead", org_admin |-> "admin"]
ATenant(id, slug) == [id |-> id, slug |-> slug]
ABinding(id, issuer, tenant) == [id |-> id, issuer |-> issuer, tenant |-> tenant]
ALogin(claim, slug, issuer) ==
  [claim |-> claim, slug |-> slug, issuer |-> issuer, subject |-> s1,
   tenants |-> {ATenant(d1, "one"), ATenant(d2, "two")},
   bindings |-> {ABinding(b1, "idp", d1), ABinding(b2, "scim", d1), ABinding(b3, "other", d2)}]
DirectoryLogins ==
  {ALogin(c, s, i) : c \in {d1, "none"}, s \in {"two", "none"}, i \in {"idp", "other"}}
  \cup {[ALogin("none", "none", "idp") EXCEPT !.tenants = {ATenant(d2, "two")}],
        [ALogin("none", "one", "idp") EXCEPT
           !.tenants = {ATenant(d1, "one"), ATenant(d2, "one")}]}
AnAccess(user, project, action) ==
  [tenant |-> d1, resource |-> d1, user |-> user, project |-> project, action |-> action]
DirectoryAccesses == {AnAccess(n1, p, a) : p \in {jp, NoProject},
  a \in {"memory.write", "policy.override", "compliance.read"}}
  \cup {[AnAccess(n1, jp, "memory.read") EXCEPT !.resource = d2]}
DirectorySeeded == {[tenant |-> d1, binding |-> b1, subject |-> s1, user |-> n2]}

(* CollectorConfig: a local and a managed account, two memories, two routes   *)
(* that match the same paths and one that matches a source.                   *)
CONSTANTS w1, w2, la, ma, lm, rm, cr, so, sn
LocalAccount == [type |-> "local", mode |-> "none", ref |-> cr, valid |-> TRUE]
ManagedAccount == [type |-> "http", mode |-> "session-ref", ref |-> cr, valid |-> TRUE]
AConfigMemory(account, readOnly) ==
  [account |-> account, readOnly |-> readOnly, project |-> FALSE]
ARoute(prefix, source, memory, priority, key) ==
  [prefix |-> prefix, repo |-> NoInput, source |-> source, memory |-> memory,
   priority |-> priority, key |-> key]
ConfigStarter ==
  [accounts |-> [a \in {la, ma} |-> IF a = la THEN LocalAccount ELSE NoAccount],
   memories |-> [m \in {lm, rm} |-> IF m = lm THEN AConfigMemory(la, FALSE) ELSE NoMemory],
   routes |-> <<ARoute(<<1>>, NoInput, lm, 0, 3)>>, default |-> lm,
   bindings |-> [s \in {so, sn} |-> "none"]]
ConfigAtWork == [ConfigStarter EXCEPT
  !.accounts[ma] = ManagedAccount, !.memories[rm] = AConfigMemory(ma, FALSE),
  !.routes = <<ARoute(<<>>, "codex", rm, 1, 1), ARoute(<<1>>, NoInput, lm, 0, 3)>>,
  !.bindings[so] = "approved"]
ConfigProposed == [s \in {so, sn} |-> IF s = so THEN "approved" ELSE "pending"]
ConfigInputs == [path : {<<1, 2>>, <<3>>}, repo : {NoInput}, source : {"codex", "vscode"}]
ConfigPolicy == [env |-> FALSE, requireProject |-> TRUE, managed |-> {rm}]
ConfigRequests ==
  {[do |-> "config.init", force |-> TRUE], [do |-> "config.doctor"],
   [do |-> "account.add", name |-> ma, account |-> ManagedAccount, force |-> FALSE],
   [do |-> "account.add", name |-> ma, account |-> [ManagedAccount EXCEPT !.mode = "token-env"],
    force |-> TRUE],
   [do |-> "account.login", name |-> ma, expires |-> 1],
   [do |-> "account.logout", name |-> ma], [do |-> "account.remove", name |-> ma],
   [do |-> "memory.add", name |-> rm, memory |-> AConfigMemory(ma, FALSE), force |-> FALSE],
   [do |-> "memory.add", name |-> lm, memory |-> AConfigMemory(ma, FALSE), force |-> TRUE],
   [do |-> "memory.remove", name |-> rm], [do |-> "memory.write", name |-> lm],
   [do |-> "memory.write", name |-> rm],
   [do |-> "route.add", route |-> ARoute(<<1, 2>>, NoInput, lm, 0, 2)],
   [do |-> "route.add", route |-> ARoute(<<1>>, NoInput, rm, 0, 4)],
   [do |-> "route.add", route |-> ARoute(<<>>, "codex", rm, 1, 1)],
   [do |-> "route.remove", index |-> 1], [do |-> "route.remove", index |-> 2],
   [do |-> "route.set-default", name |-> rm],
   [do |-> "source.onboard"], [do |-> "source.status", name |-> so, status |-> "ignored"]}

(* SourceCollection: a tailed file, a JSON document, a file of JSON lines and *)
(* a plan file, each under a root of its own, and the working directory as a  *)
(* plan root.                                                                 *)
CONSTANTS fc, fj, fl, fp, rc, rj, rl, rp, wd, hi, nil, frag
SourceFiles == <<fc, fj, fl, fp>>
SourceRoots == (fc :> rc) @@ (fj :> rj) @@ (fl :> rl) @@ (fp :> rp)
SourceSources ==
  (rc :> "codex") @@ (rj :> "json") @@ (rl :> "jsonl") @@ (rp :> "plan") @@ (wd :> "plan")
SourceFirst == [f \in {fc, fj, fl, fp} |-> <<hi>>]
SourceBindings(codex, json) ==
  (rc :> codex) @@ (rj :> json) @@ [r \in {rl, rp, wd} |-> "none"]
SourceConfigs ==
  {[enabled |-> {"codex", "json", "plan"}, roots |-> {rj, rp},
    bindings |-> SourceBindings("none", "none")],
   [enabled |-> {"codex", "json"}, roots |-> {}, bindings |-> SourceBindings("ignored", "approved")],
   [enabled |-> {"jsonl"}, roots |-> {rl}, bindings |-> SourceBindings("none", "none")]}

(* ApiService: an operation with a store in the body and another in the       *)
(* header, the list of operations, and a metrics request without its token.   *)
CONSTANTS aw, al, am, as1, as2
AnApiRequest(path, method) ==
  [path |-> path, method |-> method, token |-> "right", body |-> "json",
   store |-> NoStore, header |-> NoStore]
ApiRequests ==
  (aw :> [AnApiRequest("operation", "POST") EXCEPT !.store = as1, !.header = as2])
  @@ (al :> AnApiRequest("root", "GET"))
  @@ (am :> [AnApiRequest("metrics", "GET") EXCEPT !.token = "wrong"])

------------------------------------------------------------------------------
DaemonParts == {"daemon", "retrieval", "identity", "config", "sources", "api"}

DaemonsInit(p) ==
  /\ DaemonInit /\ RetrievalInit /\ IdentityInit /\ ConfigInit /\ SourceInit /\ ApiInit
  /\ p # "daemon" => calm
  /\ p # "config" => cfgFile = NoFile
  /\ p # "sources" => setup = Unconfigured
daemonsVars == <<daemonVars, retrievalVars, identityVars, configVars, sourceVars, apiVars>>
DaemonsNext(p) ==
  \/ p = "daemon" /\ DaemonNext /\ UNCHANGED <<retrievalVars, identityVars,
       configVars, sourceVars, apiVars>>
  \/ p = "retrieval" /\ RetrievalNext /\ UNCHANGED <<daemonVars, identityVars,
       configVars, sourceVars, apiVars>>
  \/ p = "identity" /\ IdentityNext /\ UNCHANGED <<daemonVars, retrievalVars,
       configVars, sourceVars, apiVars>>
  \/ p = "config" /\ ConfigNext /\ UNCHANGED <<daemonVars, retrievalVars,
       identityVars, sourceVars, apiVars>>
  \/ p = "sources" /\ SourceNext /\ UNCHANGED <<daemonVars, retrievalVars,
       identityVars, configVars, apiVars>>
  \/ p = "api" /\ ApiNext /\ UNCHANGED <<daemonVars, retrievalVars, identityVars,
       configVars, sourceVars>>

DaemonsTypeOK(p) ==
  /\ p = "daemon" => DaemonTypeOK
  /\ p = "retrieval" => RetrievalTypeOK
  /\ p = "identity" => IdentityTypeOK
  /\ p = "config" => ConfigTypeOK
  /\ p = "sources" => SourceTypeOK
  /\ p = "api" => ApiTypeOK

GuardsRightIn(p) ==
  /\ p = "identity" => IdentityIsRight
  /\ p = "api" => ApiIsRight
==============================================================================
