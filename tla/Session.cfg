\* Three threads, two incarnations close to the end of the versions, every function.
SPECIFICATION Spec
CONSTANTS
  t1 = t1
  t2 = t2
  t3 = t3
  Threads = {t1, t2, t3}
  VerMod = 20
  MaxRange = 2
  FirstVer = 12
  MaxCreates = 2
  MaxPending = 2
  Ops = {"trylock", "error", "about_to_destroy", "cancel", "join", "reset_range"}
SYMMETRY ThreadSymmetry
CONSTRAINT NotIntruded
INVARIANTS TypeOK HeldRightly VersionsOrdered NobodyForgotten
CHECK_DEADLOCK FALSE
