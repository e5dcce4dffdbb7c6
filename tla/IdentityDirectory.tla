-------------------------- MODULE IdentityDirectory --------------------------
(***************************************************************************)
(* The enterprise identity service (libs/shared/src/effect/services/       *)
(* enterprise-identity-service.ts) with the tenant routing and role        *)
(* services it calls.  The service keeps nothing: the caller hands in its  *)
(* tables and stores the ones it gets back, and so does this module.  A    *)
(* feed is one sync channel of one issuer binding of one tenant; its       *)
(* events arrive in any order, and again.                                  *)
(***************************************************************************)
EXTENDS Integers, Sequences, FiniteSets

CONSTANTS
  IdTenant, IdUser, IdSubject, IdBinding, IdProject,
  GroupBindings,   \* [tenant, binding, group, role, project]
  UserEvents,      \* [tenant, binding, subject, user, op, sequence, cursor]
  GroupEvents,     \* [tenant, binding, user, groups, sequence, cursor]
  Logins,          \* [claim, slug, issuer, subject, tenants, bindings]
  Accesses,        \* [tenant, resource, user, project, action]
  Seeded,          \* [tenant, binding, subject, user] of the pending users at the start
  RoleRank,        \* role ids in the order of localeCompare
  AuthorizationRoleOf, \* the authorization role a role id reads as
  NoUser, NoRole, NoProject

\* What is handed in refers to what there is; a role id has a place in the order.
ASSUME IdentityAssumption ==
  /\ \A b \in GroupBindings : /\ b.role \in DOMAIN RoleRank \cup {NoRole}
                              /\ b.project \in IdProject \cup {NoProject}
  /\ \A e \in UserEvents : e.binding \in IdBinding /\ e.subject \in IdSubject
  /\ \A e \in GroupEvents : e.binding \in IdBinding
  /\ \A e \in UserEvents \cup GroupEvents :
       e.tenant \in IdTenant /\ e.user \in IdUser /\ e.sequence \in Nat
  /\ \A l \in Logins : /\ l.subject \in IdSubject
                       /\ \A t \in l.tenants : t.id \in IdTenant
                       /\ \A b \in l.bindings : b.id \in IdBinding
  /\ \A a \in Accesses : a.tenant \in IdTenant /\ a.user \in IdUser
  /\ \A s \in Seeded : s.user \in IdUser
  /\ RoleRank \in [DOMAIN RoleRank -> Nat]
  /\ NoUser \notin IdUser /\ NoRole \notin DOMAIN RoleRank /\ NoProject \notin IdProject

VARIABLES
  users,       \* user status by tenant and user
  subjects,    \* user by tenant, issuer binding and external subject
  checkpoints, \* the last event of each feed
  assigned,    \* role ids by tenant and user
  member,      \* project and role of the memberships, by tenant and user
  fed,         \* the events applied so far on each channel, in order
  said         \* the last answer

identityVars == <<users, subjects, checkpoints, assigned, member, fed, said>>

Channel == {"scim_users", "scim_groups"}
NoCheckpoint == [sequence |-> -1, cursor |-> 0]
IdentityInit ==
  /\ users = [x \in IdTenant \X IdUser |->
       IF \E s \in Seeded : <<s.tenant, s.user>> = x THEN "pending" ELSE "none"]
  /\ subjects = [x \in IdTenant \X IdBinding \X IdSubject |->
       IF \E s \in Seeded : <<s.tenant, s.binding, s.subject>> = x
         THEN (CHOOSE s \in Seeded : <<s.tenant, s.binding, s.subject>> = x).user ELSE NoUser]
  /\ checkpoints = [x \in IdTenant \X IdBinding \X Channel |-> NoCheckpoint]
  /\ assigned = [x \in IdTenant \X IdUser |-> {}]
  /\ member = [x \in IdTenant \X IdUser |-> {}]
  /\ fed = [c \in Channel |-> <<>>] /\ said = [is |-> "nothing"]

------------------------------------------------------------------------------
(* The feeds.                                                                 *)

\* What an event meets: its checkpoint is newer, the same, or of another cursor.
Standing(e, channel) ==
  LET last == checkpoints[e.tenant, e.binding, channel]
  IN CASE e.sequence < last.sequence -> "stale"
       [] e.sequence = last.sequence /\ e.cursor # last.cursor -> "conflict"
       [] e.sequence = last.sequence /\ e.cursor = last.cursor -> "replayed"
       [] OTHER -> "applied"

\* A checkpoint moves to the event it saw last.
Checkpoint(e, channel) ==
  /\ checkpoints' = [checkpoints EXCEPT ![<<e.tenant, e.binding, channel>>] =
                       [sequence |-> e.sequence, cursor |-> e.cursor]]
  /\ fed' = [fed EXCEPT ![channel] = Append(@, e)]

StatusOf(op) == IF op = "disable" THEN "disabled" ELSE "active"

ApplyScimUserLifecycle(e) ==
  LET how == Standing(e, "scim_users")
  IN /\ said' = [is |-> "sync", how |-> how, event |-> e]
     /\ IF how = "applied"
          THEN /\ users' = [users EXCEPT ![<<e.tenant, e.user>>] = StatusOf(e.op)]
               /\ subjects' = [subjects EXCEPT ![<<e.tenant, e.binding, e.subject>>] = e.user]
               /\ Checkpoint(e, "scim_users")
          ELSE UNCHANGED <<users, subjects, checkpoints, fed>>
     /\ UNCHANGED <<assigned, member>>

\* The group bindings an event names.
MatchingBindings(e) ==
  {b \in GroupBindings : /\ b.tenant = e.tenant /\ b.binding = e.binding
                         /\ b.group \in e.groups}
DesiredRoles(e) == {b.role : b \in MatchingBindings(e)} \ {NoRole}
\* The first role by name, so that a project has one membership.
FirstRole(roles) ==
  IF roles = {} THEN NoRole ELSE CHOOSE r \in roles : \A s \in roles : RoleRank[r] <= RoleRank[s]
DesiredMemberships(e) ==
  LET rolesIn(p) == {b.role : b \in {c \in MatchingBindings(e) : c.project = p}} \ {NoRole}
  IN {[project |-> p, role |-> FirstRole(rolesIn(p))] :
        p \in {b.project : b \in MatchingBindings(e)} \ {NoProject}}

\* Faulty: the assignments held before are retained too.
RolesAreAdded(e) == assigned[e.tenant, e.user] \cup DesiredRoles(e)
\* The assignments of the user in the tenant, other issuers' too, are replaced.
RolesAfter(e) == DesiredRoles(e)

ApplyScimGroupReconciliation(e) ==
  LET how == Standing(e, "scim_groups")
  IN /\ said' = [is |-> "sync", how |-> how, event |-> e]
     /\ IF how = "applied"
          THEN /\ assigned' = [assigned EXCEPT ![<<e.tenant, e.user>>] = RolesAfter(e)]
               /\ member' = [member EXCEPT ![<<e.tenant, e.user>>] = DesiredMemberships(e)]
               /\ Checkpoint(e, "scim_groups")
          ELSE UNCHANGED <<assigned, member, checkpoints, fed>>
     /\ UNCHANGED <<users, subjects>>

------------------------------------------------------------------------------
(* Sessions.                                                                  *)

Denied(reason) == [ok |-> FALSE, tenant |-> {}, reason |-> reason]
Resolved(ts) == [ok |-> TRUE, tenant |-> ts, reason |-> "resolved"]

\* The tenants that the claims name; an unknown id or slug is no claim.
ClaimedTenants(l) ==
  {t.id : t \in {x \in l.tenants : x.id = l.claim \/ x.slug = l.slug}}
IssuersOf(l) == {b \in l.bindings : b.issuer = l.issuer}
\* Two tenants share a slug, or an issuer, anywhere in what the caller gave.
AmbiguousRoutes(l) ==
  LET known == {t.id : t \in l.tenants}
      valid == {b \in l.bindings : b.tenant \in known}
  IN \/ \E s, t \in l.tenants : s.slug = t.slug /\ s.id # t.id
     \/ \E b, c \in valid : b.issuer = c.issuer /\ b.tenant # c.tenant

TenantRoute(l) ==
  LET claimed == ClaimedTenants(l)
      known == {t.id : t \in l.tenants}
      bound == {b.tenant : b \in IssuersOf(l)}
  IN IF AmbiguousRoutes(l) \/ Cardinality(claimed) > 1 THEN Denied("TENANT_ROUTE_CONFLICT")
     ELSE IF ~ bound \subseteq known \/ (claimed # {} /\ bound # claimed)
       THEN Denied("TENANT_ISSUER_MISMATCH")
     ELSE IF bound # {} THEN Resolved(bound) ELSE Denied("TENANT_ROUTE_MISSING")

ResolveSessionBoundary(l) ==
  LET route == TenantRoute(l)
      tenant == CHOOSE t \in route.tenant : TRUE
      binding == (CHOOSE b \in IssuersOf(l) : b.tenant = tenant).id
      user == subjects[tenant, binding, l.subject]
      opened == /\ route.ok /\ user # NoUser
                /\ users[tenant, user] \notin {"none", "disabled"}
  IN /\ said' = IF opened THEN [is |-> "session", tenant |-> tenant, user |-> user, login |-> l]
                ELSE [is |-> "no session", reason |-> route.reason]
     /\ UNCHANGED <<users, subjects, checkpoints, assigned, member, fed>>

------------------------------------------------------------------------------
(* Authorization.                                                             *)

DevActions == {"memory.read", "memory.write", "memory.replay_eval", "policy.read"}
AuditorActions == {"memory.read", "policy.read", "compliance.read", "compliance.export"}
LeadActions == DevActions \cup AuditorActions \cup
  {"memory.promote", "memory.demote", "policy.write"}
\* authorizationRoleActionMatrix
Permitted == [admin |-> LeadActions \cup {"policy.override"}, lead |-> LeadActions,
              dev |-> DevActions, auditor |-> AuditorActions]

\* The role ids of the user that bear on the resource; none at all means dev.
CandidateRoleIds(a) ==
  assigned[a.tenant, a.user] \cup
  ({m.role : m \in {x \in member[a.tenant, a.user] :
                      a.project \in {NoProject, x.project}}} \ {NoRole})
CandidateRoles(a) ==
  IF CandidateRoleIds(a) = {} THEN {"dev"}
  ELSE {AuthorizationRoleOf[r] : r \in CandidateRoleIds(a)}

EvaluateAuthorization(a) ==
  /\ said' = [is |-> "access", access |-> a,
              allowed |-> /\ a.resource = a.tenant
                          /\ \E r \in CandidateRoles(a) : a.action \in Permitted[r]]
  /\ UNCHANGED <<users, subjects, checkpoints, assigned, member, fed>>

IdentityNext ==
  \/ \E e \in UserEvents : ApplyScimUserLifecycle(e)
  \/ \E e \in GroupEvents : ApplyScimGroupReconciliation(e)
  \/ \E l \in Logins : ResolveSessionBoundary(l)
  \/ \E a \in Accesses : EvaluateAuthorization(a)

IdentitySpec == IdentityInit /\ [][IdentityNext]_identityVars

------------------------------------------------------------------------------
IdentityTypeOK ==
  /\ users \in [IdTenant \X IdUser -> {"none", "pending", "active", "disabled"}]
  /\ subjects \in [IdTenant \X IdBinding \X IdSubject -> IdUser \cup {NoUser}]
  /\ assigned \in [IdTenant \X IdUser -> SUBSET DOMAIN RoleRank]
  /\ \A x \in IdTenant \X IdUser : \A m \in member[x] :
       m.project \in IdProject /\ m.role \in DOMAIN RoleRank \cup {NoRole}
  /\ \A k \in DOMAIN fed["scim_users"] : fed["scim_users"][k] \in UserEvents
  /\ \A k \in DOMAIN fed["scim_groups"] : fed["scim_groups"][k] \in GroupEvents

\* The last event of a channel about a user, and the last that names a subject,
\* if there is one.
LastAmong(feed, S) == {feed[k] : k \in {i \in S : \A j \in S : j <= i}}
LastAbout(channel, t, u) ==
  LET feed == fed[channel]
  IN LastAmong(feed, {k \in DOMAIN feed : feed[k].tenant = t /\ feed[k].user = u})
LastNamed(t, b, s) ==
  LET feed == fed["scim_users"]
  IN LastAmong(feed, {k \in DOMAIN feed :
       feed[k].tenant = t /\ feed[k].binding = b /\ feed[k].subject = s})

\* A feed's events take effect in the order of their sequence numbers, each
\* at most once, in whatever order and however often they are delivered
\* (the checkpoints of applyScimUserLifecycle and ...GroupReconciliation).
FeedsAreLinear ==
  \A c \in Channel : \A i, j \in DOMAIN fed[c] :
    LET d == fed[c][i]
        e == fed[c][j]
    IN i < j /\ d.tenant = e.tenant /\ d.binding = e.binding => d.sequence < e.sequence

\* What the directory holds of a user is what the last event about the user
\* left there: its status, and exactly the roles and memberships of its last
\* groups, one membership in a project.  A subject is bound to the user of the
\* last event that named it, whoever it was bound to before: that is what
\* applyScimUserLifecycle does, not what is planned; see BindingIsImmutable.
UsersFollowTheirFeeds ==
  /\ \A t \in IdTenant, u \in IdUser :
       /\ \A e \in LastAbout("scim_users", t, u) :
            (users[<<t, u>>] = "disabled") <=> (e.op = "disable")
       /\ \A e \in LastAbout("scim_groups", t, u) :
            /\ \A b \in MatchingBindings(e) : b.role # NoRole => b.role \in assigned[<<t, u>>]
            /\ \A r \in assigned[<<t, u>>] : \E b \in MatchingBindings(e) : b.role = r
            /\ \A p \in IdProject :
                 Cardinality({m \in member[<<t, u>>] : m.project = p}) =
                   (IF \E b \in MatchingBindings(e) : b.project = p THEN 1 ELSE 0)
       /\ LastAbout("scim_groups", t, u) = {} =>
            assigned[<<t, u>>] = {} /\ member[<<t, u>>] = {}
  /\ \A t \in IdTenant, b \in IdBinding, s \in IdSubject :
       \A e \in LastNamed(t, b, s) : subjects[<<t, b, s>>] = e.user

\* A session is of a user that no later event disabled, in the tenant every
\* known claim of the login names and its issuer is bound to
\* (resolveSessionBoundary).
SessionsAreProvisioned ==
  said.is = "session" =>
    /\ \A e \in LastAbout("scim_users", said.tenant, said.user) : e.op # "disable"
    /\ \A t \in said.login.tenants :
         t.id = said.login.claim \/ t.slug = said.login.slug => t.id = said.tenant
    /\ \A b \in said.login.bindings : b.issuer = said.login.issuer => b.tenant = said.tenant

\* An access beyond a developer's is one that a group of the user's last
\* reconciliation grants, never one of an earlier group or another tenant,
\* whether the user is disabled or not (evaluateAuthorization); that the disabled
\* may do nothing is DisabledMayDoNothing.
AccessIsGranted ==
  said.is = "access" /\ said.allowed =>
    LET a == said.access
    IN /\ a.tenant = a.resource
       /\ \/ a.action \in DevActions
          \/ \E e \in LastAbout("scim_groups", a.tenant, a.user) : \E b \in MatchingBindings(e) :
               b.role # NoRole /\ a.action \in Permitted[AuthorizationRoleOf[b.role]]

IdentityIsRight ==
  /\ FeedsAreLinear /\ UsersFollowTheirFeeds /\ SessionsAreProvisioned /\ AccessIsGranted

\* A subject that is bound to a user stays bound to that user: the plan says that
\* the binding is immutable once mapped (applyScimUserLifecycle).
BindingIsImmutable ==
  [][\A x \in DOMAIN subjects :
       subjects[x] # NoUser => subjects'[x] = subjects[x]]_identityVars

\* A disabled user is authorized to do nothing: docs/runbooks/enterprise-sso-
\* scim-integration-plan.md says its assignments are revoked from effective
\* authorization (applyScimUserLifecycle, evaluateAuthorization).
DisabledMayDoNothing ==
  said.is = "access" /\ said.allowed =>
    users[said.access.tenant, said.access.user] # "disabled"
==============================================================================
