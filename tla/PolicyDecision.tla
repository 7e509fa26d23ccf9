-------------------------- MODULE PolicyDecision --------------------------
(***************************************************************************)
(* The policy engine (custodian/policy): what decide() answers to a spend  *)
(* request, given the policy, the session's budget, the kill switch, the   *)
(* spends of the last day and the agent's downgrade.  Pure operators; the  *)
(* modules that keep the state extend this one.                            *)
(*                                                                         *)
(* Amounts are integers (cents); a request that carries no finite amount   *)
(* has finite = FALSE.  What a rule can match on besides the amount (skill *)
(* and context flags) is the request's label.                              *)
(***************************************************************************)
EXTENDS Integers, Sequences, FiniteSets

CONSTANTS
  Labels,      \* what rules match requests by
  SessionCap,  \* session_cap of the authority state
  None

ASSUME SessionCapAssumption == SessionCap \in Nat
ASSUME NoneAssumption == None \notin Int

Bands    == 0 .. 4   \* L0 .. L4
Verdicts == {"autonomous", "escalation_required", "denied"}

Option(S) == S \cup {None}

\* after is band_after_task.
BandConfigs == [cap : Option(Nat), approval : BOOLEAN, envelope : Option(Nat),
                after : Option(Bands)]
Rules       == [labels : SUBSET Labels, above : Option(Nat), band : Bands]
Policies    == [bands : [Bands -> BandConfigs], default : Bands, rules : Seq(Rules),
                margin : Option(Nat), marginPct : Option(0 .. 100), noSelfDealing : BOOLEAN]
Requests    == [amount : Int, finite : BOOLEAN, label : Labels, revenue : Option(Int),
                cost : Option(Int), payee : {"other", "self"}]

Magnitude(n) == IF n < 0 THEN -n ELSE n

\* Policy.band_for: the first rule that matches.
Matches(rule, req) ==
  /\ req.label \in rule.labels
  /\ rule.above # None => req.amount > rule.above
RoutedBand(policy, req) ==
  LET hits == {k \in DOMAIN policy.rules : Matches(policy.rules[k], req)}
  IN IF hits = {} THEN policy.default
     ELSE policy.rules[CHOOSE k \in hits : \A j \in hits : k <= j].band

\* apply_autorank: the stored downgrade or the routed band, whichever is
\* lower on the ladder.  downgrade is None when the agent has none in force.
\* Mutant: the stored band, be it higher than the routed one.
EffectiveBandStored(policy, req, downgrade) ==
  LET band == RoutedBand(policy, req)
  IN IF policy.bands[band].after # None /\ downgrade # None THEN downgrade ELSE band

EffectiveBand(policy, req, downgrade) ==
  LET band == RoutedBand(policy, req)
  IN IF policy.bands[band].after # None /\ downgrade # None /\ downgrade < band
     THEN downgrade ELSE band

\* check_envelope: spentToday is None when no ledger was passed in.
\* Mutant: the request itself is left out of the sum.
OverEnvelopeBefore(config, req, spentToday) ==
  /\ config.envelope # None /\ spentToday # None
  /\ spentToday > config.envelope

OverEnvelope(config, req, spentToday) ==
  /\ config.envelope # None /\ spentToday # None
  /\ spentToday + req.amount > config.envelope

\* check_margin.
BelowMargin(policy, req) ==
  /\ req.revenue # None /\ req.cost # None
  /\ req.revenue > 0
  /\ \/ policy.margin # None /\ req.revenue - req.cost < policy.margin
     \/ policy.marginPct # None
        /\ (req.revenue - req.cost) * 100 < policy.marginPct * req.revenue

\* check_self_dealing.
SelfDealing(policy, req) == policy.noSelfDealing /\ req.payee = "self"

\* Mutant: the budget may be exceeded by one unit.
NeedsOperatorLate(config, req, remaining) ==
  \/ config.approval
  \/ config.cap # None /\ Magnitude(req.amount) > config.cap
  \/ Magnitude(req.amount) > remaining + 1

NeedsOperator(config, req, remaining) ==
  \/ config.approval
  \/ config.cap # None /\ Magnitude(req.amount) > config.cap
  \/ Magnitude(req.amount) > remaining

\* evaluator.decide: the first gate that objects gives the verdict.
Verdict(policy, req, remaining, killed, spentToday, downgrade) ==
  LET config == policy.bands[EffectiveBand(policy, req, downgrade)] IN
  IF killed \/ ~req.finite                               THEN "denied"
  ELSE IF OverEnvelope(config, req, spentToday)          THEN "escalation_required"
  ELSE IF BelowMargin(policy, req) \/ SelfDealing(policy, req) THEN "denied"
  ELSE IF NeedsOperator(config, req, remaining)          THEN "escalation_required"
  ELSE "autonomous"
===========================================================================
