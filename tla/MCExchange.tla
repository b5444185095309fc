---------------------------- MODULE MCExchange ----------------------------
(***************************************************************************)
(* Instances of MqttExchange.                                              *)
(***************************************************************************)
EXTENDS MqttExchange, TLC

\* Topics are interchangeable.
Symmetry == Permutations(Topics)

=============================================================================
