---------------------------- MODULE MCScheduler ----------------------------
(* Scheduler for TLC: threads and the lots that their hashes select. *)
EXTENDS Scheduler, TLC
CONSTANTS w1, w2, x1, f1, f2, f3
\* The two workers park on different lots; the others start at the first one.
MCLotOf == [t \in Threads |-> IF t = w2 THEN 1 ELSE 0]
Symmetry == Permutations(Fibers)
====
