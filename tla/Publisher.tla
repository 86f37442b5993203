------------------------------ MODULE Publisher ------------------------------
(***************************************************************************)
(* What the gateway may be told about the labs, with every                 *)
(* mechanism left out (no calls, no chain, no connection):                 *)
(*   - the rows change one commit at a time;                               *)
(*   - a rendering is taken of the rows as they are, never while another   *)
(*     one is on its way;                                                  *)
(*   - the file changes only into the rendering on its way, in whole;      *)
(*   - a rendering that is given up may have arrived, and never arrives    *)
(*     later.                                                              *)
(* UserMapping implements this specification.                              *)
(***************************************************************************)
EXTENDS Naturals

VARIABLES rows,    \* the rows, stamped with the number of commits
          shown,   \* the rendering the gateway shows
          pending  \* the rendering on its way: a set of at most one

publisherVars == <<rows, shown, pending>>

PublisherInit == shown = rows /\ pending = {}

Change ==
  /\ rows'.version = rows.version + 1
  /\ UNCHANGED <<shown, pending>>

Take ==
  /\ pending = {}
  /\ pending' = {rows}
  /\ UNCHANGED <<rows, shown>>

Arrive ==
  /\ shown' \in pending
  /\ UNCHANGED <<rows, pending>>

GiveUp ==
  /\ shown' \in {shown} \cup pending
  /\ pending' = {}
  /\ UNCHANGED rows

PublisherNext == Change \/ Take \/ Arrive \/ GiveUp

PublisherSpec == PublisherInit /\ [][PublisherNext]_publisherVars
=============================================================================
