------------------------- MODULE MCPresentationKey -------------------------
(* Instances of PresentationKey for TLC.                                   *)
EXTENDS PresentationKey, TLC

Symmetry == Permutations(Sessions) \cup Permutations(Presentations)

=============================================================================
