-------------------------- MODULE MC_LocalProcess --------------------------
(***************************************************************************)
(* Small instances of LocalProcess.                                        *)
(***************************************************************************)
EXTENDS LocalProcess, TLC

Symmetry == Permutations(Gens)
=============================================================================
