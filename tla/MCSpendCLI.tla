---------------------------- MODULE MCSpendCLI ----------------------------
(* Small instances of SpendCLI for TLC.                                    *)
EXTENDS SpendCLI

band(cap, approval, envelope) ==
  [cap |-> cap, approval |-> approval, envelope |-> envelope, after |-> None]

\* The default preset in small numbers: requests of more than 2 are routed to
\* L3, which needs an approval.
MCPolicy ==
  [bands |-> [L \in Bands |->
     CASE L \in {0, 1} -> band(0, FALSE, None)
       [] L = 2 -> band(2, FALSE, None)
       [] L = 3 -> band(3, TRUE, None)
       [] L = 4 -> band(None, TRUE, None)],
   default |-> 2,
   rules |-> << [labels |-> {"tool"}, above |-> 2, band |-> 3] >>,
   margin |-> None, marginPct |-> None, noSelfDealing |-> FALSE]

request(amount) ==
  [amount |-> amount, finite |-> TRUE, label |-> "tool",
   revenue |-> None, cost |-> None, payee |-> "other"]
Small == {request(2)}
Both  == {request(2), request(3)}
Large == {request(3)}
Mixed == Both \cup {[request(1) EXCEPT !.finite = FALSE]}
===========================================================================
