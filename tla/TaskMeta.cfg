\* Two fibers after each other in a slot whose version wraps, two threads that stop,
\* interrupt and join them, two sleeps.
SPECIFICATION Spec
CONSTANTS
  t1 = t1  t2 = t2
  Others = {t1, t2}
  MaxVersion = 4
  FirstVersion = 4
  MaxStarts = 2
  MaxSleeps = 2
  MaxCalls = 3
INVARIANTS TypeOK SleepSound MarksOwn
PROPERTIES InterruptEndsSleep JoinReturns
CHECK_DEADLOCK FALSE
