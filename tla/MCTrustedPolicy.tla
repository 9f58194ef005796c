--------------------------- MODULE MCTrustedPolicy ---------------------------
(* Instances of TrustedPolicy for TLC: process slots and policies are          *)
(* interchangeable.                                                            *)
EXTENDS TrustedPolicy, TLC

Symmetry == Permutations(Procs) \cup Permutations(Policies)
=============================================================================
