---------------------------- MODULE MCPaladin ----------------------------
(* Small instances of Paladin for TLC.                                     *)
EXTENDS Paladin, TLC

Symmetry == Permutations(Names) \cup Permutations(Threads)
===========================================================================
