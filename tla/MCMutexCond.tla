---------------------------- MODULE MCMutexCond ----------------------------
(* MutexCond for TLC: fibers and pthreads. *)
EXTENDS MutexCond
CONSTANTS f1, f2, p1
=============================================================================
