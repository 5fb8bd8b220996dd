----------------------------- MODULE MCTaskMeta -----------------------------
(* TaskMeta for TLC: two other threads. *)
EXTENDS TaskMeta
CONSTANTS t1, t2
=============================================================================
