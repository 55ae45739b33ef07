---------------------- MODULE MCNoiseOnflySupervisor ----------------------
(* The worker pool for TLC: requests are interchangeable. *)
EXTENDS NoiseOnflySupervisor, TLC

Symmetry == Permutations(Requests)
===========================================================================
