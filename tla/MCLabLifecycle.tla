--------------------------- MODULE MCLabLifecycle ---------------------------
(* Instances of LabLifecycle for TLC. *)
EXTENDS LabLifecycle, LabLifecycleInvariant, TLC

\* Requests, students and prewarm ticks are interchangeable; labs are numbered
\* by age.
Symmetry == Permutations(Requests) \cup Permutations(Users) \cup Permutations(PrewarmTicks)
=============================================================================
