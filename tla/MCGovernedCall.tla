-------------------------- MODULE MCGovernedCall --------------------------
(* Small instances of GovernedCall for TLC.                                *)
EXTENDS GovernedCall, TLC

Symmetry == Permutations(Callers) \cup Permutations(Operators) \cup Permutations(Workspaces)
===========================================================================
