--------------------------- MODULE MCReceiptChain ---------------------------
(* Small instances of ReceiptChain for TLC.                                *)
EXTENDS ReceiptChain, TLC

Symmetry == Permutations(Guards)

\* How far a run is followed once a guard has gone on without the lock, after
\* which little is promised.
StallBound == stalled => decided <= 2 /\ made <= 2
=============================================================================
