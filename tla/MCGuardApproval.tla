------------------------- MODULE MCGuardApproval -------------------------
(* Small instances of GuardApproval for TLC.                               *)
EXTENDS GuardApproval, TLC

Symmetry == Permutations(Ids) \cup Permutations(Agents) \cup Permutations(Operators)
===========================================================================
