-------------------------- MODULE MCPolicyKernel --------------------------
(* Small instances of PolicyKernel for TLC.                                *)
EXTENDS PolicyKernel

band(cap, approval, envelope, after) ==
  [cap |-> cap, approval |-> approval, envelope |-> envelope, after |-> after]

\* The shape of the preset, in small numbers: the higher band may do more up to
\* the one that asks for an approval whatever the amount; L1 to L4 with a
\* downgrade, L2 with an envelope.
Ladder == [L \in Bands |->
  CASE L = 0 -> band(0, TRUE, None, None)
    [] L = 1 -> band(1, FALSE, None, 0)
    [] L = 2 -> band(2, FALSE, 3, 1)
    [] L = 3 -> band(2, FALSE, None, 2)
    [] L = 4 -> band(None, TRUE, None, 3)]
rule(label, L) == [labels |-> {label}, above |-> None, band |-> L]
Rulebook == << rule("refund", 3), rule("small", 1), rule("new_payee", 4) >>
MCPolicy == [bands |-> Ladder, default |-> 2, rules |-> Rulebook,
             margin |-> 1, marginPct |-> None, noSelfDealing |-> TRUE]

request(amount, label) ==
  [amount |-> amount, finite |-> TRUE, label |-> label,
   revenue |-> None, cost |-> None, payee |-> "other"]

Charges == {request(1, "tool"), request(2, "tool"), request(1, "small"),
            request(2, "small"), request(1, "refund"), request(3, "tool"),
            request(1, "new_payee"),
            [request(1, "tool") EXCEPT !.revenue = 2, !.cost = 2],
            [request(1, "tool") EXCEPT !.payee = "self"],
            [request(1, "tool") EXCEPT !.finite = FALSE]}
===========================================================================
