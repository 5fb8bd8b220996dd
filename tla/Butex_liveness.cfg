\* A fiber and a pthread always get out of butex_wait.
SPECIFICATION FairSpec
CONSTANTS
  Fibers = {f1}
  Pthreads = {p1}
  Butexes = {b1}
  Wakers = {k1}
  Interrupters = {i1}
  MaxValue = 1
  WakeOps = {"wake_all"}
  Timeouts = {TRUE, FALSE}
  None = None
INVARIANTS NoLostWakeup
PROPERTIES WaitsEnd
