-------------------------- MODULE MCObjectRegistry --------------------------
(* Small instances of ObjectRegistry.                                        *)
EXTENDS ObjectRegistry, TLC
Symmetry == Permutations(Threads) \cup Permutations(Handles)
=============================================================================
