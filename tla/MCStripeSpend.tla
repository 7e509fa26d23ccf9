--------------------------- MODULE MCStripeSpend ---------------------------
(* Small instances of StripeSpend for TLC.                                 *)
EXTENDS StripeSpend, TLC

asks(script, amount, pi) == [script |-> script, amount |-> amount, pi |-> pi]
MCAsked == {asks("spend", 1, 0), asks("spend", NaN, 0), asks("spend_v2", 2, 0),
            asks("refund", 1, 1), asks("earn", 1, 0)}
Symmetry == Permutations(Agents) \cup Permutations(Operators)
=============================================================================
