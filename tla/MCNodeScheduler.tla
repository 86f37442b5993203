--------------------------- MODULE MCNodeScheduler ---------------------------
(* Instances of NodeScheduler for TLC. *)
EXTENDS NodeScheduler, TLC

\* Labs without a volume are interchangeable.
Symmetry == Permutations(Stateless)

\* The first node takes one lab, the second is unlimited.
McCapacity == [n \in Nodes |-> IF n = 1 THEN 1 ELSE 0]

Plain == [override |-> {}, pin |-> NoNode, allowed |-> {}, default |-> NoNode, spread |-> TRUE]
McPolicies ==
  {[Plain EXCEPT !.default = 1], [Plain EXCEPT !.allowed = {1}, !.default = 2],
   [Plain EXCEPT !.override = {1}, !.default = 1],
   [Plain EXCEPT !.pin = 2], [Plain EXCEPT !.spread = FALSE]}
=============================================================================
