---------------------------- MODULE MCPackPublish ----------------------------
(* Instances of PackPublish for TLC. *)
EXTENDS PackPublish

Symmetry == Permutations(Layers) \cup Permutations(Builds)
==============================================================================
