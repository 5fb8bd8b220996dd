\* One fiber, one interrupter, no waker: is the interruption reliable?
SPECIFICATION FairSpec
CONSTANTS
  Fibers = {f1}
  Pthreads = {}
  Butexes = {b1}
  Wakers = {}
  Interrupters = {i1}
  MaxValue = 1
  WakeOps = {"wake_all"}
  Timeouts = {FALSE}
  None = None
PROPERTIES InterruptWakes
