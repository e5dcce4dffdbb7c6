--------------------------- MODULE CollectorConfig ---------------------------
(***************************************************************************)
(* The collector's configuration file and the commands that change it      *)
(* (apps/ums/src/daemon-config.ts, daemon-credentials.ts and the account,  *)
(* memory, route, source and config commands of apps/ums/src/index.ts).  A *)
(* command is a process: it reads the file, checks its request, waits for  *)
(* the keyring, the terminal or the disk, and renames a whole new file     *)
(* into place.  No lock keeps commands apart.                              *)
(***************************************************************************)
EXTENDS Integers, Sequences, FiniteSets, SequencesExt

CONSTANTS
  Terminal,      \* processes
  CfgRequests,   \* what commands are given; their field "do" names the command
  AccountName, MemoryName, CredentialRef, SourceId,
  Starter,       \* the configuration that config init writes
  Configured,    \* the configuration there may be at the start
  Proposed,      \* what discovery proposes as the status of a source
  RouteInputs,   \* [path, repo, source] of events
  CfgPolicy,     \* [env, requireProject, managed] of every configuration
  NoAccount, NoMemory, NoSecret, NoFile, NoInput,
  MaxNow, MaxCommandsRun

VARIABLES
  cfgFile,   \* the file: [accounts, memories, routes, default, bindings]
  keyring,   \* the time a stored secret expires at, by credential reference
  terminal,  \* what each process is at
  cfgNow,    \* the clock
  cfgSaid,   \* the last answer of a command
  runs,      \* commands begun
  alone,     \* no two commands have overlapped
  intent     \* what the acknowledged commands leave: [statuses, accounts]

configVars == <<cfgFile, keyring, terminal, cfgNow, cfgSaid, runs, alone, intent>>

AtRest == [at |-> "rest"]
NoIntent == [statuses |-> [s \in SourceId |-> "none"],
             accounts |-> [a \in AccountName |-> Configured.accounts[a] # NoAccount]]
ConfigInit ==
  /\ cfgFile \in {Configured, NoFile}
  /\ keyring = [r \in CredentialRef |-> NoSecret]
  /\ terminal = [t \in Terminal |-> AtRest]
  /\ cfgNow = 0 /\ cfgSaid = AtRest /\ runs = 0 /\ alone = TRUE /\ intent = NoIntent

------------------------------------------------------------------------------
(* The configuration.                                                         *)

\* repoRoot before pathPrefix before source alone; a longer prefix first.
Specificity(r) == IF r.repo # NoInput THEN 0 ELSE IF r.prefix # <<>> THEN 2 ELSE 3
Precedes(r, s) ==
  LET rank(x) == <<-x.priority, Specificity(x), -Len(x.prefix), x.key>>
      a == rank(r)
      b == rank(s)
  IN \E i \in 1..4 : a[i] < b[i] /\ \A j \in 1..i - 1 : a[j] = b[j]

\* An account whose url, reference and mode are all acceptable.
AccountOk(a) ==
  a = NoAccount \/ /\ a.valid
                   /\ a.mode = "token-env" => CfgPolicy.env
DomainOf(f, none) == {x \in DOMAIN f : f[x] # none}
CrossReferencesHold(c) ==
  /\ \A m \in DomainOf(c.memories, NoMemory) :
       c.memories[m].account \in DomainOf(c.accounts, NoAccount)
  /\ \A i \in DOMAIN c.routes : c.routes[i].memory \in DomainOf(c.memories, NoMemory)
  /\ c.default \in DomainOf(c.memories, NoMemory)
  /\ \A i, j \in DOMAIN c.routes : i # j => c.routes[i].key # c.routes[j].key
WellFormed(c) ==
  /\ DomainOf(c.accounts, NoAccount) # {} /\ DomainOf(c.memories, NoMemory) # {}
  /\ c.routes # <<>>
  /\ \A a \in AccountName : AccountOk(c.accounts[a])
  /\ CrossReferencesHold(c)

\* Faulty: routes stay in the order they were added in.
CanonicalAsGiven(c) == c
\* The routes in the order they are tried in: each after those that precede it.
Ordered(S) ==
  [i \in 1..Cardinality(S) |-> CHOOSE r \in S : Cardinality({s \in S : Precedes(s, r)}) = i - 1]
Canonical(c) == [c EXCEPT !.routes = Ordered(ToSet(c.routes))]

AccountModes == {"none", "oauth-device", "oidc-pkce", "session-ref", "token-env"}
AccountRecord ==
  [type : {"local", "http"}, mode : AccountModes, ref : CredentialRef, valid : BOOLEAN]
MemoryRecord == [account : AccountName, readOnly : BOOLEAN, project : BOOLEAN]
GivenRoutes == ToSet(Starter.routes) \cup ToSet(Configured.routes)
               \cup {q.route : q \in {x \in CfgRequests : x.do = "route.add"}}
BindingState == {"none", "pending", "approved", "disabled", "ignored"}
ConfigRecord ==
  [accounts : [AccountName -> AccountRecord \cup {NoAccount}],
   memories : [MemoryName -> MemoryRecord \cup {NoMemory}],
   routes : Seq(GivenRoutes), default : MemoryName, bindings : [SourceId -> BindingState]]
TypedRequest(q) ==
  \/ q.do \in {"config.init", "config.doctor", "source.onboard"}
  \/ /\ q.do \in {"account.add", "account.login", "account.logout", "account.remove"}
     /\ q.name \in AccountName
     /\ q.do = "account.add" => q.account \in AccountRecord
     /\ q.do = "account.login" => q.expires \in 0..MaxNow + 1
  \/ /\ q.do \in {"memory.add", "memory.remove", "memory.write", "route.set-default"}
     /\ q.name \in MemoryName /\ (q.do = "memory.add" => q.memory \in MemoryRecord)
  \/ q.do = "route.add"
  \/ q.do = "route.remove" /\ q.index \in Nat \ {0}
  \/ q.do = "source.status" /\ q.name \in SourceId /\ q.status \in BindingState

\* The file at the start is one that a daemon loads; what config init writes, and
\* what a request asks for, is checked when it is written.
ASSUME ConfigAssumption ==
  /\ NoAccount \notin AccountRecord /\ NoMemory \notin MemoryRecord
  /\ {Starter, Configured} \subseteq ConfigRecord
  /\ WellFormed(Configured) /\ Canonical(Configured) = Configured
  /\ Proposed \in [SourceId -> BindingState]
  /\ \A q \in CfgRequests : TypedRequest(q)
  /\ \A r \in GivenRoutes :
       r.memory \in MemoryName /\ {r.priority, r.key} \subseteq Int /\ Len(r.prefix) \in Nat
  /\ MaxNow \in Nat /\ MaxCommandsRun \in Nat

\* A route matches when every field it gives matches.
Matches(r, i) ==
  /\ r.source # NoInput => i.source = r.source
  /\ r.repo # NoInput => i.repo = r.repo
  /\ r.prefix # <<>> => IsPrefix(r.prefix, i.path)
\* explainDaemonRouteResolution: the candidates by precedence, then the default.
Explained(c, i) ==
  LET candidates == {r \in ToSet(c.routes) : Matches(r, i)}
  IN IF candidates = {} THEN c.default
     ELSE (CHOOSE r \in candidates : \A s \in candidates \ {r} : Precedes(r, s)).memory

------------------------------------------------------------------------------
(* What a command refuses, and what it changes.                               *)

Managed(a) == a # NoAccount /\ a.type = "http" /\ a.mode # "token-env"
Dependents(c, a) == {m \in DomainOf(c.memories, NoMemory) : c.memories[m].account = a}

RefusedAccount(q, c) ==
  LET account == c.accounts[q.name]
  IN CASE q.do = "account.add" -> account # NoAccount /\ ~ q.force
       [] q.do = "account.login" -> ~ Managed(account)
       [] q.do = "account.logout" -> account = NoAccount
       [] OTHER -> account = NoAccount \/ Dependents(c, q.name) # {}
RefusedMemory(q, c) ==
  LET memory == c.memories[q.name]
  IN CASE q.do = "memory.add" -> memory # NoMemory /\ ~ q.force
       [] q.do = "memory.remove" -> \/ memory = NoMemory \/ c.default = q.name
                                    \/ \E r \in ToSet(c.routes) : r.memory = q.name
       [] OTHER -> \/ memory = NoMemory \/ memory.readOnly
                   \/ /\ c.accounts[memory.account].type = "http" /\ CfgPolicy.requireProject
                      /\ q.name \in CfgPolicy.managed /\ ~ memory.project
RefusedRoute(q, c) ==
  CASE q.do = "route.add" -> ~ WellFormed([c EXCEPT !.routes = Append(@, q.route)])
    [] q.do = "route.remove" -> q.index > Len(c.routes)
    [] OTHER -> FALSE
IsAbout(q, group) == q.do \in
  CASE group = "account" -> {"account.add", "account.login", "account.logout", "account.remove"}
    [] group = "memory" -> {"memory.add", "memory.remove", "memory.write"}
    [] group = "route" -> {"route.add", "route.remove", "route.set-default"}
Refused(q, c) ==
  IF q.do = "config.init" THEN c # NoFile /\ ~ q.force
  ELSE \/ c = NoFile
       \/ IsAbout(q, "account") /\ RefusedAccount(q, c)
       \/ IsAbout(q, "memory") /\ RefusedMemory(q, c)
       \/ IsAbout(q, "route") /\ RefusedRoute(q, c)
       \/ q.do = "source.status" /\ c.bindings[q.name] = "none"

\* Faulty: onboarding puts every source it finds back to its proposed status.
OnboardedAnew(c, found) == [s \in SourceId |-> IF s \in found THEN Proposed[s] ELSE c.bindings[s]]
\* A source that is known keeps its status.
Onboarded(c, found) ==
  [s \in SourceId |-> IF s \in found /\ c.bindings[s] = "none" THEN Proposed[s] ELSE c.bindings[s]]

\* The configuration a command writes; found is what discovery found.
Changed(q, c, found) ==
  CASE q.do = "config.init" -> Starter
    [] q.do = "config.doctor" -> c
    [] q.do = "account.add" -> [c EXCEPT !.accounts[q.name] = q.account]
    [] q.do = "account.remove" -> [c EXCEPT !.accounts[q.name] = NoAccount]
    [] q.do = "memory.add" -> [c EXCEPT !.memories[q.name] = q.memory]
    [] q.do = "memory.remove" -> [c EXCEPT !.memories[q.name] = NoMemory]
    [] q.do = "route.add" -> [c EXCEPT !.routes = Append(@, q.route)]
    [] q.do = "route.remove" -> [c EXCEPT !.routes = RemoveAt(@, q.index)]
    [] q.do = "route.set-default" -> [c EXCEPT !.default = q.name]
    [] q.do = "source.onboard" -> [c EXCEPT !.bindings = Onboarded(c, found)]
    [] q.do = "source.status" -> [c EXCEPT !.bindings[q.name] = q.status]

------------------------------------------------------------------------------
(* The processes.                                                             *)

CommandAnswer(q, ok, about) == [at |-> "answered", do |-> q, ok |-> ok, about |-> about]
\* The steps a command takes after its checks.
FirstStep(q, c) ==
  IF q.do = "account.login" THEN "store"
  ELSE IF q.do \in {"account.logout", "account.remove"} /\ Managed(c.accounts[q.name]) THEN "clear"
  ELSE IF q.do = "account.logout" THEN "rest"
  ELSE IF q.do = "memory.write" THEN "send"
  ELSE "save"

\* A command reads the file and checks its request against what it read.
BeginCommand(t, q) ==
  /\ terminal[t] = AtRest /\ runs < MaxCommandsRun
  /\ runs' = runs + 1
  /\ alone' = (alone /\ \A u \in Terminal : terminal[u] = AtRest)
  /\ LET step == FirstStep(q, cfgFile)
     IN IF Refused(q, cfgFile)
          THEN cfgSaid' = CommandAnswer(q, FALSE, "refused") /\ UNCHANGED terminal
          ELSE IF step = "rest"
          THEN cfgSaid' = CommandAnswer(q, TRUE, "nothing to clear") /\ UNCHANGED terminal
          ELSE /\ terminal' = [terminal EXCEPT ![t] = [at |-> step, do |-> q, read |-> cfgFile]]
               /\ cfgSaid' = AtRest
  /\ UNCHANGED <<cfgFile, keyring, cfgNow, intent>>

\* account login stores the secret that was typed, with the time it expires.
StoreManagedAccountCredential(t) ==
  LET p == terminal[t]
      ref == p.read.accounts[p.do.name].ref
  IN /\ p.at = "store"
     /\ keyring' = [keyring EXCEPT ![ref] = p.do.expires]
     /\ cfgSaid' = CommandAnswer(p.do, TRUE, ref)
     /\ terminal' = [terminal EXCEPT ![t] = AtRest]
     /\ UNCHANGED <<cfgFile, cfgNow, runs, alone, intent>>

\* account logout ends here; account remove still has the file to write.
DeleteManagedAccountCredential(t) ==
  LET p == terminal[t]
      ref == p.read.accounts[p.do.name].ref
  IN /\ p.at = "clear"
     /\ keyring' = [keyring EXCEPT ![ref] = NoSecret]
     /\ IF p.do.do = "account.logout"
          THEN /\ cfgSaid' = CommandAnswer(p.do, TRUE, ref)
               /\ terminal' = [terminal EXCEPT ![t] = AtRest]
          ELSE terminal' = [terminal EXCEPT ![t].at = "save"] /\ cfgSaid' = AtRest
     /\ UNCHANGED <<cfgFile, cfgNow, runs, alone, intent>>

\* Faulty: the last route is taken for the one that was added.
LastRoute(p, next) == Last(next.routes)
\* The route that route add reports: the first one that was not there.
AddedRoute(p, next) ==
  next.routes[CHOOSE i \in DOMAIN next.routes :
    /\ next.routes[i] \notin ToSet(p.read.routes)
    /\ \A j \in 1..i - 1 : next.routes[j] \in ToSet(p.read.routes)]
Written(p, next) ==
  CASE p.do.do = "route.add" -> AddedRoute(p, next)
    [] p.do.do = "account.remove" -> p.read.accounts[p.do.name]
    [] OTHER -> "written"

\* The whole file is made anew from what was read, and renamed into place.
WriteDaemonConfig(t) ==
  LET p == terminal[t]
  IN /\ p.at = "save"
     /\ \E found \in (IF p.do.do = "source.onboard" THEN SUBSET SourceId ELSE {{}}) :
          LET next == Canonical(Changed(p.do, p.read, found))
          IN IF WellFormed(Changed(p.do, p.read, found))
               THEN /\ cfgFile' = next
                    /\ cfgSaid' = CommandAnswer(p.do, TRUE, Written(p, next))
                    /\ intent' = [intent EXCEPT
                         !.accounts = [a \in AccountName |->
                           CASE p.do.do = "config.init" -> Starter.accounts[a] # NoAccount
                             [] p.do.do = "account.add" /\ p.do.name = a -> TRUE
                             [] p.do.do = "account.remove" /\ p.do.name = a -> FALSE
                             [] OTHER -> @[a]],
                         !.statuses = [s \in SourceId |->
                           CASE p.do.do = "config.init" -> "none"
                             [] p.do.do = "source.status" /\ p.do.name = s -> p.do.status
                             [] OTHER -> @[s]]]
               ELSE /\ cfgSaid' = CommandAnswer(p.do, FALSE, "invalid")
                    /\ UNCHANGED <<cfgFile, intent>>
     /\ terminal' = [terminal EXCEPT ![t] = AtRest]
     /\ UNCHANGED <<keyring, cfgNow, runs, alone>>
\* The disk refuses: the old file stays.
WriteFails(t) ==
  /\ terminal[t].at = "save"
  /\ cfgSaid' = CommandAnswer(terminal[t].do, FALSE, "unwritten")
  /\ terminal' = [terminal EXCEPT ![t] = AtRest]
  /\ UNCHANGED <<cfgFile, keyring, cfgNow, runs, alone, intent>>

\* An expired secret is as good as none.
FreshSecret(ref) == keyring[ref] # NoSecret /\ keyring[ref] > cfgNow
\* memory feedback, quarantine, forget and pin run on the state file or remotely.
ExecuteMemoryCommand(t) ==
  LET p == terminal[t]
      account == p.read.accounts[p.read.memories[p.do.name].account]
  IN /\ p.at = "send"
     /\ cfgSaid' = CommandAnswer(p.do, Managed(account) => FreshSecret(account.ref), "sent")
     /\ terminal' = [terminal EXCEPT ![t] = AtRest]
     /\ UNCHANGED <<cfgFile, keyring, cfgNow, runs, alone, intent>>

ConfigTick == /\ cfgNow < MaxNow /\ cfgNow' = cfgNow + 1 /\ cfgSaid' = AtRest
              /\ UNCHANGED <<cfgFile, keyring, terminal, runs, alone, intent>>

ConfigNext ==
  \/ \E t \in Terminal, q \in CfgRequests : BeginCommand(t, q)
  \/ \E t \in Terminal : \/ StoreManagedAccountCredential(t)
                         \/ DeleteManagedAccountCredential(t)
                         \/ WriteDaemonConfig(t) \/ WriteFails(t) \/ ExecuteMemoryCommand(t)
  \/ ConfigTick

ConfigSpec == ConfigInit /\ [][ConfigNext]_configVars

------------------------------------------------------------------------------
ConfigTypeOK ==
  /\ cfgFile = NoFile \/
       /\ DOMAIN cfgFile.accounts = AccountName /\ DOMAIN cfgFile.memories = MemoryName
       /\ cfgFile.default \in MemoryName
       /\ cfgFile.bindings \in [SourceId -> BindingState]
  /\ keyring \in [CredentialRef -> 0..MaxNow + 1 \cup {NoSecret}]
  /\ \A t \in Terminal : terminal[t].at \in {"rest", "store", "clear", "save", "send"}
  /\ cfgNow \in 0..MaxNow /\ runs \in 0..MaxCommandsRun

\* Whatever commands overlap, and whatever fails, the file is one a daemon can
\* load: every reference holds and the routes stand in the order they are
\* tried in (canonicalizeDaemonConfig before every write, and the rename).
FileIsAlwaysLoadable ==
  cfgFile # NoFile =>
    /\ WellFormed(cfgFile)
    /\ \A i \in RouteInputs :
         LET hits == {k \in DOMAIN cfgFile.routes : Matches(cfgFile.routes[k], i)}
         IN \A k \in hits : (\A l \in hits : k <= l) =>
              cfgFile.routes[k].memory = Explained(cfgFile, i)

\* route add answers with the route it added, though the file is sorted.
RouteAnswered ==
  cfgSaid.at = "answered" /\ cfgSaid.ok /\ cfgSaid.do.do = "route.add" =>
    cfgSaid.about = cfgSaid.do.route

\* As long as commands do not overlap, what an acknowledged command put is
\* there: a source someone disabled or ignored is not approved by a later
\* onboarding, an account added is there until it is removed, and a removed
\* account leaves no secret behind (the checks of index.ts and the order of
\* runAccountRemove).
AcknowledgedIntentsHold ==
  alone /\ cfgFile # NoFile =>
    /\ \A s \in SourceId : intent.statuses[s] # "none" => cfgFile.bindings[s] = intent.statuses[s]
    /\ \A a \in AccountName : (cfgFile.accounts[a] # NoAccount) <=> intent.accounts[a]
    /\ cfgSaid.at = "answered" /\ cfgSaid.ok /\ cfgSaid.do.do = "account.remove"
       /\ Managed(cfgSaid.about) => keyring[cfgSaid.about.ref] = NoSecret

\* A write that was sent went to a memory that allows writes, by an account
\* whose secret had not expired (assertMemoryCommandAvailability and
\* loadManagedAccountCredential).
WritesAreAllowed ==
  alone /\ cfgSaid.at = "answered" /\ cfgSaid.ok /\ cfgSaid.do.do = "memory.write" =>
    LET memory == cfgFile.memories[cfgSaid.do.name]
    IN /\ ~ memory.readOnly
       /\ Managed(cfgFile.accounts[memory.account]) =>
            LET expires == keyring[cfgFile.accounts[memory.account].ref]
            IN expires # NoSecret /\ expires > cfgNow

\* What the configuration commands leave: a file a daemon can load, with what they
\* answered in it while they do not overlap.
ConfigIsRight ==
  FileIsAlwaysLoadable /\ RouteAnswered /\ AcknowledgedIntentsHold /\ WritesAreAllowed

\* Two routes for the same match never lead to different memories: docs/
\* runbooks/daemon-jsonc-config-schema.md says conflicting exact-match routes
\* are rejected (validateCrossReferences).
ExactMatchesDoNotConflict ==
  cfgFile # NoFile => \A i, j \in DOMAIN cfgFile.routes :
    LET match(r) == <<r.prefix, r.repo, r.source>>
    IN match(cfgFile.routes[i]) = match(cfgFile.routes[j]) =>
         cfgFile.routes[i].memory = cfgFile.routes[j].memory
==============================================================================
