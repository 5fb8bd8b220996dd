---------------------------- MODULE MCTimerThread ----------------------------
(* TimerThread for TLC: the model values of the runs. *)
EXTENDS TimerThread, TLC
CONSTANTS c1, c2, s1, s2, s3
Symmetry == Permutations({c1,c2} \cap Callers) \cup Permutations({s1, s2} \cap Slots)
=============================================================================
