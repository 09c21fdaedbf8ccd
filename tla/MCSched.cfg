CONSTANTS
  Task = {k1, k2, k3}
  Main = Main
  Pid = {p1, p2}
  NoPid = NoPid
  NoTask = NoTask
SPECIFICATION FairSpec
INVARIANTS IndInv TasksExact
PROPERTIES ClosedOnce EveryTaskClosed
CHECK_DEADLOCK FALSE
