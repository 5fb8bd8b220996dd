\* Four tasks of both priorities, some in place, some cancelled.
SPECIFICATION Spec
CONSTANTS
  c1 = c1  c2 = c2  c3 = c3  e1 = e1  e2 = e2  n1 = n1  n2 = n2  n3 = n3
  Callers = {c1, c2}
  Fibers = {e1, e2}
  Nodes = {n1, n2, n3}
  Options = {"normal", "high", "in_place"}
  Ops = {"cancel"}
  MaxTasks = 4
  MaxCreates = 1
  NULL = NULL
  UNCONNECTED = UNCONNECTED
SYMMETRY Symmetry
INVARIANTS TypeOK ExecutorSound OrderKept
PROPERTIES FateFollows
CHECK_DEADLOCK FALSE
