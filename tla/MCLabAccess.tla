----------------------------- MODULE MCLabAccess -----------------------------
(* Instances of LabAccess for TLC. *)
EXTENDS LabAccess
=============================================================================
