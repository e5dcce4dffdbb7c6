CONSTANTS
  Parts = {"lock", "recovery", "requests"}
  t1 = t1  t2 = t2  t3 = t3  t4 = t4  p1 = p1  p2 = p2  p3 = p3
  Task = {t1, t2, t3}
  Proc = {p1, p2}
  ProcOf <- TwoProcesses
  NoTask = NoTask
  NoPid = NoPid
  FaultAt <- OutsideReclaim
  SlowTasks = {}
  w1 = w1  w2 = w2  w3 = w3  r1 = r1  n1 = n1  n2 = n2
  Request = {w1, w2, w3, r1}
  Server = {n1, n2}
  ServerOf <- TwoServers
  Writers = {w1, w2, w3}
  ReadOnly = {r1}
  Yielding = {}
  Backends = {"shared", "sqlite"}
  NoRequest = NoRequest
SPECIFICATION StateFileSpec
INVARIANTS HolderOwnsFile IInv MutualExclusion StoreTypeOK AcknowledgedIsDurable FailedLeavesNoTrace ReadsOnlyCommitted
PROPERTIES ImplementsExclusiveLock RemovesOnlyOrphans AcquireEnds NoPermanentOrphan SerialCommits Answered
CHECK_DEADLOCK FALSE
