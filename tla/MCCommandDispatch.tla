-------------------------- MODULE MCCommandDispatch --------------------------
(* Small instances of CommandDispatch for TLC. *)
EXTENDS CommandDispatch, TLC

\* Control sessions behave alike.
Symmetry == Permutations(Sessions)
=============================================================================
