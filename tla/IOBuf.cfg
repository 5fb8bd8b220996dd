\* Two threads, two buffers, two blocks of two bytes, one block kept per thread.
SPECIFICATION Spec
CONSTANTS
  Threads = {t1, t2}
  Bufs = {u1, u2}
  NBlocks = 2
  Cap = 2
  MaxBlocksPerThread = 1
  Data <- MCData
  MaxCounts = {1, 3}
  Delims <- MCDelims
  MaxLength = 3
  Fill = 1
  UnsafeBackUp = FALSE
  NoBuf = NoBuf
SYMMETRY Sym
VIEW LiveView
CHECK_DEADLOCK FALSE
INVARIANTS TypeOK Contents OneWriter RefCounts
