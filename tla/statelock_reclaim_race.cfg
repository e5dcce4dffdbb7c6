CONSTANTS
  t1 = t1  t2 = t2  t3 = t3  t4 = t4
  p1 = p1  p2 = p2  p3 = p3
  Task = {t1, t2, t3, t4}
  Proc = {p1, p2, p3}
  ProcOf <- ThreeProcesses
  NoTask = NoTask
  NoPid = NoPid
  FaultAt <- BothFilesHeld
  SlowTasks = {}
SPECIFICATION Spec
INVARIANTS MutualExclusion
CHECK_DEADLOCK FALSE
