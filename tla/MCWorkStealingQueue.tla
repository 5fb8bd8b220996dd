------------------------- MODULE MCWorkStealingQueue -------------------------
(* Instance of WorkStealingQueue for TLC: two thieves over a two-slot queue. *)
EXTENDS WorkStealingQueue, TLC

CONSTANTS w1, w2

ThievesSymmetry == Permutations({w1, w2})
=============================================================================
