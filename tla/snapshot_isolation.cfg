CONSTANTS
  Parts = {"snapshot"}
  c1 = c1  c2 = c2  c3 = c3  c4 = c4  h1 = h1  h2 = h2  scoped = scoped
  Blank = Blank  NoScope = NoScope  NotAString = NotAString
  UnscopedKey = UnscopedKey  NoCaller = NoCaller
  Caller = {c1, c2, c3, c4}  Repo = {h1, h2}
  RepoOf <- LedgerRepoOf  Request <- LedgerRequest
  NormalOperation <- LedgerOperations
  t1 = t1  t2 = t2  m1 = m1  m2 = m2  e1 = e1  p1 = p1  p2 = p2  k1 = k1
  key1 = key1  key2 = key2  u1 = u1  j1 = j1  None = None
  Tenant = {t1, t2}  Memory = {m1, m2}  Evidence = {e1}  Provenance = {p1, p2}
  IdemKey = {key1, key2}
  Anchors <- StorageAnchors  LineageOf <- StorageLineage
  Upserts <- StorageUpserts  Deletes <- StorageDeletes  KeyRings <- StorageKeyRings
  MaxAudit = 3  MaxExport = 1
  o1 = o1  o2 = o2  o3 = o3  i1 = i1  i2 = i2  core = core  fts = fts  ids = ids
  stray = stray  Latest = Latest  NoOpener = NoOpener
  Opener = {o1, o2, o3}  Item = {i1, i2}  SearchObject = fts  StrayObject = stray
  ReleaseOf <- SchemaReleaseOf  TargetOf <- SchemaTargetOf
  RetentionMaxSnapshots = 2  IntervalConfigured = TRUE  AutoStart = TRUE
  MaxClock = 3  MaxSnapshots = 4
  wa = wa  wb = wb  ra = ra  rb = rb  NoWRule = NoWRule
  WCand = {wa, wb}  WRule = {ra, rb}  WRuleOf <- EngineRuleOf
  Adjustments <- EngineAdjustments  Outcomes <- EngineOutcomes
  RankingRequests <- EngineRankings  Regressed = {rb}
  MaxScore = 4  MinSupport = 2  MaxLedger = 1  MaxTrail = 2  MaxApplied = 2
  AuditName <- EngineNames
  sa = sa  sb = sb  Entry = {1, 2, 3}  ShadowCand = {sa, sb}
  CandConfidence <- ReviewConfidence  CandExpires <- ReviewExpires
  EntryUpdates <- ReviewUpdates  ClockTicks <- ReviewTicks  ActiveLimits = {1, 2}
  ReviewTime = {1, 3, 6}  ConfidenceFloor = 1  DefaultLimit = 2
  ColdAfter = 1  FrozenAfter = 2  MaxListItems = 2  MaxLoad = 3
  x1 = x1  x2 = x2  Profile = {1, 2, 3}  DefaultProfile = 1
  SnapEvent = {x1}  SnapAdjustment = {1, 2}
  LegacySnapshots <- SnapshotsLeft  MaxKept = 1
  ka = ka  kb = kb  y1 = y1  y2 = y2  NoId = NoId  Batches <- CurationBatches
  RawCandidates <- CurationCandidates  MaxReflected = 2  EvaluatedAt = 5
  FreshnessDays = 3  MinDepth = 1  Bands <- CurationBands  MaxEvents = 5
  q0 = q0  q1 = q1  q2 = q2  OwnStore = q0  OtherStore = {q1, q2}
  AuthRequests <- RecallAuths  TutorRequests <- RecallTutors
  Suggestable <- RecallSuggestable  MaxSessions = 2
  ga = ga  gb = gb  Attribute = {ga, gb}  Overwritten = {gb}
  ProfileUpdates <- RecordsProfiles  EdgeUpdates <- RecordsEdges
  SignalUpdates <- RecordsSignals  PlanUpdates <- RecordsPlans
  DecisionUpdates <- RecordsDecisions  Recommends <- RecordsRecommends
  MaxItemsKept = 2  MaxTold = 3
  z1 = z1  z2 = z2  zs = zs  Pid = {1, 2}  Command = {z1, z2}  SyncCommand = zs
  NoPid = 0  MaxCommands = 3
  pr = pr  jr = jr  ua = ua  ub = ub  fa = fa  fb = fb
  RMemory = {1, 2, 3, 4}  MemoryIs <- PlannerMemories  RowUpdates <- PlannerUpdates
  RScope = {1, 2, 3, 4, 5}  ScopeIs <- PlannerScopes  RRequests <- PlannerRequests
  DenySets = {{}, {1}, {3}}  NoTime = 0  NoParent = 0  NoMatrix = NoMatrix  NoCursor = NoCursor
  SignalUnit = 2  PerCategoryLimit = 1  SourceLimit = 1  ContentBudget = 40
  WarningBudget = 40  WarningLimit = 4  WarningTokens <- PlannerWarnings
  LowScore = 10  StaleGap = 7  LineLimit = 18  ExcerptLimit = 14
  v1 = v1  v2 = v2  v3 = v3  v4 = v4  PgCall = {v1, v2, v3, v4}
  PgRequestOf <- PostgresRequests  NoKey = 0  MaxVersion = 3  MaxSends = 4
  DualUpserts <- DualRunUpserts  DualDeletes <- DualRunDeletes
  WaiverSets <- DualRunWaivers  MaxOperations = 4
  d1 = d1  d2 = d2  n1 = n1  n2 = n2  b1 = b1  b2 = b2  b3 = b3  s1 = s1  s2 = s2
  g1 = g1  g2 = g2  jp = jp  NoUser = NoUser  NoRole = NoRole  NoProject = NoProject
  IdTenant = {d1, d2}  IdUser = {n1, n2}  IdSubject = {s1, s2}  IdBinding = {b1, b2, b3}
  IdProject = {jp}  GroupBindings <- DirectoryGroups  UserEvents <- DirectoryUserEvents
  GroupEvents <- DirectoryGroupEvents  Logins <- DirectoryLogins
  Accesses <- DirectoryAccesses  Seeded <- DirectorySeeded
  RoleRank <- DirectoryRoles  AuthorizationRoleOf <- DirectoryReadsAs
  w1 = w1  w2 = w2  la = la  ma = ma  lm = lm  rm = rm  cr = cr  so = so  sn = sn
  NoAccount = NoAccount  NoMemory = NoMemory  NoSecret = NoSecret  NoFile = NoFile
  NoInput = NoInput  Terminal = {w1, w2}  CfgRequests <- ConfigRequests
  AccountName = {la, ma}  MemoryName = {lm, rm}  CredentialRef = {cr}  SourceId = {so, sn}
  Starter <- ConfigStarter  Configured <- ConfigAtWork  Proposed <- ConfigProposed  RouteInputs <- ConfigInputs
  CfgPolicy <- ConfigPolicy  MaxNow = 1  MaxCommandsRun = 3
  fc = fc  fj = fj  fl = fl  fp = fp  rc = rc  rj = rj  rl = rl  rp = rp  wd = wd  hi = hi  nil = nil  frag = frag
  Files <- SourceFiles  RootOf <- SourceRoots  SourceOf <- SourceSources
  DefaultRoot = {rc, wd}  Folder = {wd}  Said = {hi}  NoText = nil  Fragment = frag
  FirstContent <- SourceFirst  SourceSetups <- SourceConfigs  Discoveries = {{rc, rj}}  CycleLimit = 2  RecordCap = 2
  NoDigest = NoDigest  NoSrcCursor = NoSrcCursor
  MaxRecords = 3  MaxEdits = 2  MaxCycles = 3
  aw = aw  al = al  am = am  as1 = as1  as2 = as2  NoStore = NoStore
  ApiRequest = {aw, al, am}  ApiRequestIs <- ApiRequests  AuthRequired = TRUE
  ConsoleEnabled = TRUE  DualRunEnabled = FALSE  RestartLimit = 1  DefaultStore = as1
  MaxStops = 2
  ta = ta  tb = tb  rt = rt  TrailCand = {ta, tb}  TrailRule = {rt}  TrailRuleOf <- TrailRules
  DecisionWrites <- TrailDecisions  RecallChecks <- TrailChecks  Incidents <- TrailIncidents
  Harms <- TrailHarms  ExportRequests <- TrailExports  PageRequests <- TrailPages
  AnomalyRequests <- TrailAnomalies  AuditOrder <- TrailHash  MaxTrailKept = 3  MaxEverWritten = 4
SPECIFICATION PlatformSpec
CHECK_DEADLOCK FALSE
INVARIANTS ProfilesAreIsolated
