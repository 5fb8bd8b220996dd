\* Two fibers and a pthread that produce and consume, with timeouts and interruptions.
SPECIFICATION Spec
CONSTANTS
  f1 = f1  f2 = f2  p1 = p1
  Fibers = {f1, f2}
  Pthreads = {p1}
  MaxCalls = 3
  MaxBreaks = 2
INVARIANTS TypeOK MutualExclusion MutexWaitersHaveWaker
PROPERTIES ItemsWakeConsumers
CHECK_DEADLOCK FALSE
