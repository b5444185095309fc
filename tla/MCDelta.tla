------------------------------ MODULE MCDelta ------------------------------
(***************************************************************************)
(* Instances of ShadowDelta.                                               *)
(***************************************************************************)
EXTENDS ShadowDelta

=============================================================================
