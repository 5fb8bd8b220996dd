------------------------------- MODULE MCButex -------------------------------
(* Instances of Butex for TLC: the sets of the .cfg files are model values. *)
EXTENDS Butex

\* The wakers are interchangeable, and so are the butexes: every action quantifies
\* over all of them and nothing chooses one.
WakerButexSymmetry == Permutations(Wakers) \cup Permutations(Butexes)
=============================================================================
