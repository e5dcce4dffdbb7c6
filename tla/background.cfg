CONSTANTS
  Parts = {"sync", "worker"}
  f1 = f1  f2 = f2  g1 = g1  g2 = g2  m1 = m1  m2 = m2  p1 = p1  p2 = p2
  Tails <- OneTail
  Plans <- OnePlan
  Memory = {m1, m2}
  RouteOf <- OneRoute
  NoMemory = NoMemory
  ReadOnly = {m2}
  Proc = {p1, p2}
  Updaters = {p2}
  MaxEvents = 2
  MaxLength <- FewLines
  s1 = s1  s2 = s2  i1 = i1
  Stopper = {s1, s2}
  Signal = {i1}
  RestartLimit = 2
SPECIFICATION BackgroundSpec
INVARIANTS TypeOK NothingSkipped JournaledOnce AcknowledgedIsIngested IngestedInOrder WorkerTypeOK StopMeansStopped ReadyIsTruthful
PROPERTIES EventuallyIngested TerminalIsFinal NoCycleAfterRequest StopEnds ReadyIsSettled
