------------------------------ MODULE MCSession ------------------------------
(* Instances of Session for TLC. *)
EXTENDS Session

CONSTANTS t1, t2, t3
ThreadSymmetry == Permutations({t1, t2, t3})

\* Nothing but types is claimed of the states after an intrusion.
NotIntruded == ~intruded
=============================================================================
