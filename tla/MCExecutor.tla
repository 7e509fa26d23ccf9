---------------------------- MODULE MCExecutor ----------------------------
(* Small instances of Executor for TLC.                                    *)
EXTENDS Executor, TLC

Symmetry == Permutations(Caps) \cup Permutations(Handlers) \cup Permutations(Operators)
===========================================================================
