---------------------------- MODULE MCMultiplexer ----------------------------
(* Instances of Multiplexer for TLC. *)
EXTENDS Multiplexer, TLC

ClientSymmetry == Permutations(Clients)
=============================================================================
