--------------------------- MODULE MCGuardsGate ---------------------------
(* Small instances of GuardsGate for TLC.  The guards are alike, and so    *)
(* are the operators.                                                      *)
EXTENDS GuardsGate, TLC

Symmetry == Permutations(Guards) \cup Permutations(Operators)
===========================================================================
