------------------------------ MODULE MCLaunches ------------------------------
(* Instances of Launches for TLC. *)
EXTENDS Launches, TLC

\* Requests are interchangeable.
Symmetry == Permutations(Requests)
=============================================================================
