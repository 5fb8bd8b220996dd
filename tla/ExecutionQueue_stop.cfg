\* Two incarnations that are stopped and joined while a task is executed.
SPECIFICATION FairSpec
CONSTANTS
  c1 = c1  c2 = c2  c3 = c3  e1 = e1  e2 = e2  n1 = n1  n2 = n2  n3 = n3
  Callers = {c1, c2}
  Fibers = {e1, e2}
  Nodes = {n1, n2}
  Options = {"normal"}
  Ops = {"stop", "join"}
  MaxTasks = 1
  MaxCreates = 2
  NULL = NULL
  UNCONNECTED = UNCONNECTED
INVARIANTS StopSound
PROPERTIES StopEnds
CHECK_DEADLOCK FALSE
