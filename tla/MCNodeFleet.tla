----------------------------- MODULE MCNodeFleet -----------------------------
(* Instances of NodeFleet for TLC. *)
EXTENDS NodeFleet

Body(default, enabled, connection) ==
  [default |-> default, enabled |-> enabled, connection |-> connection]

\* A default and a plain node from the form, and the Drain button.
McBodies == {Body({TRUE}, {TRUE}, TRUE), Body({FALSE}, {TRUE}, TRUE), Body({}, {FALSE}, FALSE)}

\* The first node is local until it is edited; otherwise one key for all.
McPathOf(n, ver) == IF n = FirstNode /\ ver = 0 THEN NoKey ELSE "key"
=============================================================================
