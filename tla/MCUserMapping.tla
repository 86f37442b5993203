---------------------------- MODULE MCUserMapping ----------------------------
(* UserMapping and its inductive invariant for model checking: one lab, two *)
(* operations in flight, few commits.                                       *)
EXTENDS UserMappingInvariant
=============================================================================
