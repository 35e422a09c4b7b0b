------------------------- MODULE MCAlgorithmManager -------------------------
(* Instances of AlgorithmManager for TLC. *)
EXTENDS AlgorithmManager, TLC

Symmetry == Permutations(Thread)
=============================================================================
