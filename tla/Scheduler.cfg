\* Two workers on two lots, a third pthread, three fibers, queues of one slot each.
SPECIFICATION Spec
CONSTANTS
  w1 = w1  w2 = w2  x1 = x1  f1 = f1  f2 = f2  f3 = f3
  Workers = {w1, w2}
  Externals = {x1}
  Fibers = {f1, f2, f3}
  NumLots = 2
  LotOf <- MCLotOf
  Capacity = 1
  RemoteCapacity = 1
  MaxBlocks = 1
  Main = Main
  None = None
INVARIANTS TypeOK OnePlace NoIdleWithWork
CHECK_DEADLOCK FALSE
SYMMETRY Symmetry
