\* All wake functions on two butexes: a fiber and a pthread that wait with a
\* timeout, two wakers, an interrupter and the timers.
SPECIFICATION Spec
CONSTANTS
  Fibers = {f1}
  Pthreads = {p1}
  Butexes = {b1, b2}
  Wakers = {k1, k2}
  Interrupters = {i1}
  MaxValue = 1
  WakeOps = {"wake", "wake_all", "wake_except", "requeue"}
  Timeouts = {TRUE}
  None = None
SYMMETRY WakerButexSymmetry
INVARIANTS TypeOK WaiterSound WakeNotLost
