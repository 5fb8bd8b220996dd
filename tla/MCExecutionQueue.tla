--------------------------- MODULE MCExecutionQueue ---------------------------
(* Instances of ExecutionQueue for TLC. *)
EXTENDS ExecutionQueue, TLC

CONSTANTS c1, c2, c3, e1, e2, n1, n2, n3
Symmetry == Permutations({c1, c2, c3} \cap Callers) \cup Permutations({e1, e2} \cap Fibers)
                \cup Permutations({n1, n2, n3} \cap Nodes)
=============================================================================
