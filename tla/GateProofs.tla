----------------------------- MODULE GateProofs -----------------------------
(***************************************************************************)
(* Proofs about the two gates an action passes: the policy engine          *)
(* (PolicyDecision, PolicyKernel), for any policy, requests and agents;    *)
(* and the guards gate (GuardsGate), for any number of guards, operators   *)
(* and hooks, and any number of commands, checks and faults.               *)
(***************************************************************************)
EXTENDS PolicyKernel, GuardsGate, WellFoundedInduction, TLAPS


-----------------------------------------------------------------------------
(* The operators of PolicyDecision.                                        *)

\* A non-empty set of natural numbers has a least element.
LEMMA LeastNat ==
  ASSUME NEW S \in SUBSET Nat, S # {}
  PROVE  \E m \in S : \A n \in S : m <= n
<1> DEFINE R == OpToRel(<, Nat)
<1>1. IsWellFoundedOn(R, Nat)  BY NatLessThanWellFounded
<1>2. \A x, y \in Nat : x < y => <<x, y>> \in R  BY DEF OpToRel
<1>3. PICK m \in S : \A n \in S : <<n, m>> \notin R
  <2> HIDE DEF R
  <2> QED  BY <1>1, WFMin
<1>4. \A n \in S : ~(n < m)  BY <1>2, <1>3
<1> QED  BY <1>4

\* band_for answers with a band of the ladder.
LEMMA RoutedBandType ==
  ASSUME NEW policy \in Policies, NEW req \in Requests
  PROVE  RoutedBand(policy, req) \in Bands
<1> DEFINE rules == policy.rules
           hits  == {k \in DOMAIN rules : Matches(rules[k], req)}
<1>1. rules \in Seq(Rules) /\ policy.default \in Bands  BY DEF Policies
<1>2. hits \in SUBSET Nat  BY <1>1
<1>3. CASE hits = {}  BY <1>1, <1>3 DEF RoutedBand
<1>4. CASE hits # {}
  <2> DEFINE first == CHOOSE k \in hits : \A j \in hits : k <= j
  <2>1. \E k \in hits : \A j \in hits : k <= j
    <3> HIDE DEF hits
    <3> QED  BY <1>2, <1>4, LeastNat
  <2>2. first \in hits
    <3> HIDE DEF hits
    <3> QED  BY <2>1
  <2>3. rules[first] \in Rules
    <3>1. first \in DOMAIN rules  BY <2>2
    <3> HIDE DEF first, rules
    <3> QED  BY <1>1, <3>1
  <2>4. rules[first].band \in Bands  BY <2>3 DEF Rules
  <2>5. RoutedBand(policy, req) = rules[first].band  BY <1>4 DEF RoutedBand
  <2> QED  BY <2>4, <2>5
<1> QED  BY <1>3, <1>4

\* apply_autorank goes down the ladder or stays.
LEMMA EffectiveBandType ==
  ASSUME NEW policy \in Policies, NEW req \in Requests, NEW low \in Option(Bands)
  PROVE  /\ EffectiveBand(policy, req, low) \in Bands
         /\ EffectiveBand(policy, req, low) <= RoutedBand(policy, req)
         /\ EffectiveBand(policy, req, None) = RoutedBand(policy, req)
<1>1. RoutedBand(policy, req) \in Bands  BY RoutedBandType
<1> QED  BY <1>1 DEF EffectiveBand, Option, Bands

\* The gates a request has passed when it is autonomous.
LEMMA AutonomousPasses ==
  ASSUME NEW policy, NEW req, NEW rest, NEW killswitch, NEW today, NEW low
  PROVE  Verdict(policy, req, rest, killswitch, today, low) = "autonomous" <=>
           LET config == policy.bands[EffectiveBand(policy, req, low)] IN
           /\ ~killswitch /\ req.finite
           /\ ~OverEnvelope(config, req, today)
           /\ ~BelowMargin(policy, req) /\ ~SelfDealing(policy, req)
           /\ ~NeedsOperator(config, req, rest)
BY DEF Verdict

LEMMA VerdictType ==
  ASSUME NEW policy, NEW req, NEW rest, NEW killswitch, NEW today, NEW low
  PROVE  Verdict(policy, req, rest, killswitch, today, low) \in Verdicts
BY DEF Verdict, Verdicts

\* What a band objects to, a stricter band objects to as well.
LEMMA StricterObjects ==
  ASSUME NEW c \in BandConfigs, NEW d \in BandConfigs, Stricter(c, d),
         NEW req \in Requests, NEW rest \in Int, NEW today \in Int
  PROVE  /\ OverEnvelope(d, req, today) => OverEnvelope(c, req, today)
         /\ NeedsOperator(d, req, rest) => NeedsOperator(c, req, rest)
<1>1. req.amount \in Int /\ Magnitude(req.amount) \in Int  BY DEF Requests, Magnitude
<1>2. /\ c.cap \in Option(Nat) /\ c.envelope \in Option(Nat)
      /\ d.cap \in Option(Nat) /\ d.envelope \in Option(Nat)
  BY DEF BandConfigs
<1>3. OverEnvelope(d, req, today) => OverEnvelope(c, req, today)
  BY <1>1, <1>2 DEF OverEnvelope, Stricter, Option
<1>4. NeedsOperator(d, req, rest) => NeedsOperator(c, req, rest)
  BY <1>1, <1>2 DEF NeedsOperator, Stricter, Option
<1> QED  BY <1>3, <1>4

\* Of two downgrades, that the first takes an agent no lower than the second.
NoLower(low2, low) == low2 = None \/ (low # None /\ low <= low2)

\* decide() is monotone: what is autonomous stays so with more of the budget left
\* and less spent that day, whatever the policy, and with a milder downgrade, or
\* none, under a policy whose bands grow with the ladder.
THEOREM DecideIsMonotone ==
  ASSUME NEW req \in Requests, NEW killswitch,
         NEW rest \in Int, NEW rest2 \in Int, rest <= rest2,
         NEW today \in Int, NEW today2 \in Int, today2 <= today,
         NEW low \in Option(Bands), NEW low2 \in Option(Bands),
         low2 = low \/ (Graded /\ NoLower(low2, low)),
         Verdict(Policy, req, rest, killswitch, today, low) = "autonomous"
  PROVE  Verdict(Policy, req, rest2, killswitch, today2, low2) = "autonomous"
<1> DEFINE e  == EffectiveBand(Policy, req, low)
           e2 == EffectiveBand(Policy, req, low2)
           c  == Policy.bands[e]
           d  == Policy.bands[e2]
<1>1. Policy \in Policies /\ e \in Bands /\ e2 \in Bands
  BY PolicyAssumption, EffectiveBandType
<1>2. e <= e2
  <2>1. RoutedBand(Policy, req) \in Bands
    BY <1>1, RoutedBandType
  <2>2. PICK b \in Bands : b = RoutedBand(Policy, req)
    BY <2>1
  <2> QED
    BY <2>2, NoneAssumption DEF EffectiveBand, NoLower, Option, Bands
<1>3. c \in BandConfigs /\ d \in BandConfigs
  BY <1>1 DEF Policies
<1>4. c = d \/ Stricter(c, d)
  <2>0. e = e2 \/ Graded
    OBVIOUS
  <2>1. e = e2 \/ e < e2
    <3> HIDE DEF e, e2
    <3> QED  BY <1>1, <1>2 DEF Bands
  <2> QED
    <3> HIDE DEF e, e2
    <3> QED  BY <1>1, <2>0, <2>1 DEF Graded
<1>5. /\ ~killswitch /\ req.finite /\ ~BelowMargin(Policy, req) /\ ~SelfDealing(Policy, req)
      /\ ~OverEnvelope(c, req, today) /\ ~NeedsOperator(c, req, rest)
  BY AutonomousPasses
<1>6. ~OverEnvelope(d, req, today) /\ ~NeedsOperator(d, req, rest)
  <2> HIDE DEF c, d
  <2> QED  BY <1>3, <1>4, <1>5, StricterObjects
<1>7. ~OverEnvelope(d, req, today2) /\ ~NeedsOperator(d, req, rest2)
  <2>1. req.amount \in Int /\ Magnitude(req.amount) \in Int
    BY DEF Requests, Magnitude
  <2>2. d.envelope \in Option(Nat)
    BY <1>3 DEF BandConfigs
  <2> HIDE DEF d
  <2>3. ~OverEnvelope(d, req, today2)
    BY <1>6, <2>1, <2>2, NoneAssumption DEF OverEnvelope, Option
  <2>4. ~NeedsOperator(d, req, rest2)
    BY <1>6, <2>1 DEF NeedsOperator
  <2> QED  BY <2>3, <2>4
<1> QED  BY <1>5, <1>7, AutonomousPasses
-----------------------------------------------------------------------------
(* PolicyKernel: the types.                                                *)

LEMMA InForceType ==
  ASSUME TypeOK, NEW a \in Agents
  PROVE  InForce(a) \in Option(Bands)
<1>1. CASE downgrade[a] = None  BY <1>1 DEF InForce, Option
<1>2. CASE downgrade[a] # None
  <2>1. downgrade[a] \in Downgrades  BY <1>2 DEF TypeOK, Option
  <2>2. downgrade[a].band \in Bands  BY <2>1 DEF Downgrades
  <2> QED  BY <2>2 DEF InForce, Option
<1> QED  BY <1>1, <1>2

\* A running sum stays one when something is added to it.
LEMMA AddType ==
  ASSUME now \in Times
  PROVE  /\ \A sum \in [Times -> Int], n \in Int : Add(sum, n) \in [Times -> Int]
         /\ \A sum \in [Times -> Nat], n \in Nat : Add(sum, n) \in [Times -> Nat]
BY TimesAssumption DEF Add, Times

LEMMA WithinType ==
  ASSUME NEW sum \in [Times -> Int], NEW t \in Times
  PROVE  Within(sum, t) \in Int
BY TimesAssumption DEF Within, Before, Times

\* What a request does, by its verdict.
LEMMA AskSteps ==
  ASSUME TypeOK, NEW a \in Agents, NEW req \in Asked, Ask(a, req)
  PROVE  /\ req \in Requests /\ req.amount \in Int
         /\ InForce(a) \in Option(Bands)
         /\ EffectiveBand(Policy, req, InForce(a)) \in Bands
         /\ SpentToday \in Int
         /\ \/ UNCHANGED <<spent, ledger, moved, downgrade>>
            \/ /\ Decide(req, InForce(a)) = "autonomous"
               /\ Book(EffectiveBand(Policy, req, InForce(a)), req.amount)
               /\ Remember(a, EffectiveBand(Policy, req, InForce(a)))
<1>1. req \in Requests /\ req.amount \in Int  BY AskedAssumption DEF Requests
<1>2. InForce(a) \in Option(Bands)  BY InForceType
<1>3. EffectiveBand(Policy, req, InForce(a)) \in Bands
  BY <1>1, <1>2, PolicyAssumption, EffectiveBandType
<1>4. SpentToday \in Int  BY WithinType DEF SpentToday, TypeOK
<1>5. \/ UNCHANGED <<spent, ledger, moved, downgrade>>
      \/ /\ Decide(req, InForce(a)) = "autonomous"
         /\ Book(EffectiveBand(Policy, req, InForce(a)), req.amount)
         /\ Remember(a, EffectiveBand(Policy, req, InForce(a)))
  BY DEF Ask
<1> QED  BY <1>1, <1>2, <1>3, <1>4, <1>5

LEMMA RememberType ==
  ASSUME TypeOK, NEW a \in Agents, NEW b \in Bands, Remember(a, b)
  PROVE  downgrade' \in [Agents -> Option(Downgrades)]
<1> DEFINE after == Policy.bands[b].after
           entry == [band |-> after, until |-> now + DowngradeTTL]
<1>1. after \in Option(Bands)
  <2>1. Policy.bands \in [Bands -> BandConfigs]  BY PolicyAssumption DEF Policies
  <2>2. Policy.bands[b] \in BandConfigs  BY <2>1
  <2> QED  BY <2>2 DEF BandConfigs
<1>2. CASE after = None  BY <1>2 DEF Remember, TypeOK
<1>3. CASE after # None
  <2>1. after \in Bands  BY <1>1, <1>3 DEF Option
  <2>2. now + DowngradeTTL \in Nat  BY TimesAssumption DEF TypeOK, Times
  <2>3. entry \in Downgrades
    <3> HIDE DEF after
    <3> QED  BY <2>1, <2>2 DEF Downgrades
  <2>4. downgrade' = [downgrade EXCEPT ![a] = entry]  BY <1>3 DEF Remember
  <2> HIDE DEF entry
  <2> QED  BY <2>3, <2>4 DEF TypeOK, Option
<1> QED  BY <1>2, <1>3

\* Every variable keeps its type.
THEOREM TypeCorrect == Spec => []TypeOK
<1>1. Init => TypeOK
  <2> SUFFICES ASSUME Init PROVE TypeOK  OBVIOUS
  <2>1. now \in Times /\ spent \in Int  BY TimesAssumption DEF Init, Times
  <2>2. killed \in BOOLEAN  BY DEF Init
  <2>3. ledger \in [Times -> Int]  BY DEF Init
  <2>4. moved \in [Bands -> [Times -> Nat]]  BY DEF Init
  <2>5. downgrade \in [Agents -> Option(Downgrades)]  BY DEF Init, Option
  <2>6. last \in [verdict : Verdicts, plain : Verdicts, band : Bands, routed : Bands]
    BY DEF Init, Verdicts, Bands
  <2> QED  BY <2>1, <2>2, <2>3, <2>4, <2>5, <2>6 DEF TypeOK
<1>2. TypeOK /\ [Next]_vars => TypeOK'
  <2> SUFFICES ASSUME TypeOK, [Next]_vars PROVE TypeOK'  OBVIOUS
  <2>1. ASSUME NEW a \in Agents, NEW req \in Asked, Ask(a, req) PROVE TypeOK'
    <3>1. last' \in [verdict : Verdicts, plain : Verdicts, band : Bands, routed : Bands]
      <4>1. \A low : Decide(req, low) \in Verdicts  BY VerdictType DEF Decide
      <4>2. last' = [verdict |-> Decide(req, InForce(a)), plain |-> Decide(req, None),
                     band |-> EffectiveBand(Policy, req, InForce(a)),
                     routed |-> RoutedBand(Policy, req)]
        BY <2>1 DEF Ask
      <4>3. /\ EffectiveBand(Policy, req, InForce(a)) \in Bands
            /\ RoutedBand(Policy, req) \in Bands
        BY <2>1, AskSteps, PolicyAssumption, RoutedBandType
      <4> QED  BY <4>1, <4>2, <4>3
    <3>2. CASE UNCHANGED <<spent, ledger, moved, downgrade>>
      BY <2>1, <3>1, <3>2 DEF TypeOK, Ask
    <3>3. CASE \E b \in Bands : Book(b, req.amount) /\ Remember(a, b)
      <4>1. PICK b \in Bands : Book(b, req.amount) /\ Remember(a, b)  BY <3>3
      <4>2. req.amount \in Int /\ Magnitude(req.amount) \in Nat
        BY AskSteps, <2>1 DEF Magnitude
      <4> DEFINE n == req.amount
      <4>3. spent' \in Int /\ ledger' \in [Times -> Int]
        <5>1. spent' = spent + n /\ ledger' = Add(ledger, n)  BY <4>1 DEF Book
        <5>2. n \in Int /\ spent \in Int /\ ledger \in [Times -> Int] /\ now \in Times
          BY <4>2 DEF TypeOK
        <5> HIDE DEF n
        <5> QED  BY <5>1, <5>2, AddType
      <4>4. moved' \in [Bands -> [Times -> Nat]]
        BY <4>1, <4>2, AddType DEF Book, TypeOK
      <4>5. downgrade' \in [Agents -> Option(Downgrades)]  BY <4>1, RememberType
      <4> QED  BY <2>1, <3>1, <4>3, <4>4, <4>5 DEF TypeOK, Ask
    <3> QED  BY <2>1, <3>2, <3>3, AskSteps
  <2>2. CASE Kill  BY <2>2 DEF Kill, TypeOK
  <2>3. CASE Resume  BY <2>3 DEF Resume, TypeOK
  <2>4. CASE Tick  BY <2>4, TimesAssumption DEF Tick, TypeOK, Times
  <2>5. CASE UNCHANGED vars  BY <2>5 DEF vars, TypeOK
  <2> QED  BY <2>1, <2>2, <2>3, <2>4, <2>5 DEF Next
<1> QED  BY <1>1, <1>2, PTL DEF Spec

-----------------------------------------------------------------------------
(* The session's budget.                                                   *)

\* Whatever the policy, the downgrades and the signs of the amounts, a session
\* executes no more than its budget.
THEOREM BudgetKeptHolds == Spec => []BudgetKept
<1>1. Init => BudgetKept  BY SessionCapAssumption DEF Init, BudgetKept
<1>2. TypeOK /\ BudgetKept /\ [Next]_vars => BudgetKept'
  <2> SUFFICES ASSUME TypeOK, BudgetKept, [Next]_vars PROVE BudgetKept'  OBVIOUS
  <2>1. ASSUME NEW a \in Agents, NEW req \in Asked, Ask(a, req) PROVE BudgetKept'
    <3> DEFINE b == EffectiveBand(Policy, req, InForce(a))
    <3>1. CASE spent' = spent  BY <3>1 DEF BudgetKept
    <3>2. CASE Decide(req, InForce(a)) = "autonomous" /\ Book(b, req.amount)
      <4>1. ~NeedsOperator(Policy.bands[b], req, SessionCap - spent)
        BY <3>2, AutonomousPasses DEF Decide
      <4>2. req.amount \in Int  BY <2>1, AskSteps
      <4>3. req.amount <= SessionCap - spent
        BY <4>1, <4>2, SessionCapAssumption DEF NeedsOperator, Magnitude, TypeOK
      <4>4. spent' = spent + req.amount  BY <3>2 DEF Book
      <4> QED  BY <4>2, <4>3, <4>4, SessionCapAssumption DEF BudgetKept, TypeOK
    <3> QED  BY <2>1, <3>1, <3>2, AskSteps
  <2> QED  BY <2>1 DEF Next, Kill, Resume, Tick, vars, BudgetKept
<1> QED  BY <1>1, <1>2, TypeCorrect, PTL DEF Spec

\* While the kill switch is engaged no request moves money, is entered in the
\* ledger or changes a downgrade, whatever the policy and the agent's standing.
THEOREM KilledMovesNothing ==
  Spec => [][killed => UNCHANGED <<spent, ledger, moved, downgrade>>]_vars
<1>1. ASSUME [Next]_vars PROVE killed => UNCHANGED <<spent, ledger, moved, downgrade>>
  <2>1. ASSUME NEW a \in Agents, NEW req \in Asked, Ask(a, req), killed
        PROVE  UNCHANGED <<spent, ledger, moved, downgrade>>
    <3>1. Decide(req, InForce(a)) # "autonomous"
      BY <2>1, AutonomousPasses DEF Decide
    <3> QED
      BY <2>1, <3>1 DEF Ask
  <2> QED
    BY <1>1, <2>1 DEF Next, Kill, Resume, Tick, vars
<1> QED  BY <1>1, PTL DEF Spec

-----------------------------------------------------------------------------
(* Autorank.                                                               *)

\* Autorank adds no authority by itself, under every policy: what a downgrade
\* makes autonomous is allowed by a band that is lower on the ladder and that
\* the policy does not make the stricter one.
THEOREM WideningIsThePolicysHolds == Spec => []WideningIsThePolicys
<1>1. Init => WideningIsThePolicys  BY DEF Init, WideningIsThePolicys
<1>2. TypeOK /\ WideningIsThePolicys /\ [Next]_vars => WideningIsThePolicys'
  <2> SUFFICES ASSUME TypeOK, WideningIsThePolicys, [Next]_vars
               PROVE  WideningIsThePolicys'
    OBVIOUS
  <2>1. ASSUME NEW a \in Agents, NEW req \in Asked, Ask(a, req)
        PROVE  WideningIsThePolicys'
    <3> DEFINE low  == InForce(a)
               e    == EffectiveBand(Policy, req, low)
               b    == RoutedBand(Policy, req)
               c    == Policy.bands[e]
               d    == Policy.bands[b]
               rest == SessionCap - spent
    <3>1. req \in Requests /\ low \in Option(Bands) /\ SpentToday \in Int
      BY <2>1, AskSteps
    <3>2. /\ e \in Bands /\ b \in Bands /\ e <= b
          /\ EffectiveBand(Policy, req, None) = b
      BY <3>1, PolicyAssumption, EffectiveBandType, RoutedBandType
    <3>3. c \in BandConfigs /\ d \in BandConfigs
      BY <3>2, PolicyAssumption DEF Policies
    <3>4. rest \in Int  BY SessionCapAssumption DEF TypeOK
    <3>5. ASSUME c = d \/ Stricter(c, d)
          PROVE  /\ OverEnvelope(d, req, SpentToday) => OverEnvelope(c, req, SpentToday)
                 /\ NeedsOperator(d, req, rest) => NeedsOperator(c, req, rest)
      <4> HIDE DEF c, d, rest
      <4> QED  BY <3>1, <3>3, <3>4, <3>5, StricterObjects
    <3>6. ASSUME Decide(req, low) = "autonomous", c = d \/ Stricter(c, d)
          PROVE  Decide(req, None) = "autonomous"
      BY <3>2, <3>5, <3>6, AutonomousPasses DEF Decide
    <3>7. ASSUME Decide(req, low) = "autonomous", Decide(req, None) # "autonomous"
          PROVE  e < b /\ ~Stricter(c, d)
      <4>1. c # d /\ ~Stricter(c, d)
        BY <3>6, <3>7
      <4>2. e # b
        BY <4>1
      <4> HIDE DEF e, b
      <4> QED  BY <3>2, <4>1, <4>2 DEF Bands
    <3>8. last' = [verdict |-> Decide(req, low), plain |-> Decide(req, None),
                   band |-> e, routed |-> b]
      BY <2>1 DEF Ask
    <3> QED
      <4> HIDE DEF e, b, low
      <4> QED  BY <3>7, <3>8 DEF WideningIsThePolicys
  <2> QED  BY <2>1 DEF Next, Kill, Resume, Tick, vars, WideningIsThePolicys
<1> QED  BY <1>1, <1>2, TypeCorrect, PTL DEF Spec
-----------------------------------------------------------------------------
(* The daily envelope.  Why no 24 hours exceed it, though only the request *)
(* itself is checked, and only against the 24 hours that end with it: what *)
(* moved under a band in any interval is no more than what the audit       *)
(* entries of the interval sum to, and nothing is booked in the future.    *)

\* Nothing is booked after now.
NothingAhead ==
  \A t \in Times : now <= t => /\ ledger[t] = ledger[now]
                              /\ \A b \in Bands : moved[b][t] = moved[b][now]

\* Of two running sums, that l grows by no less than m in every interval.
Covers(m, l) ==
  \A t \in Times :
    /\ m[t] <= l[t]
    /\ \A u \in Times : t <= u => m[t] <= m[u] /\ m[u] - m[t] <= l[u] - l[t]

\* In every interval the audit entries sum to what moved under a band, or more.
EntriesCover == \A b \in Bands : Covers(moved[b], ledger)

EInv == NothingAhead /\ EntriesCover /\ EnvelopeKept

\* f2 is the running sum f after a charge of n at s.
Charged(f2, f, s, n) ==
  \A t \in Times : f2[t] = IF t < s THEN f[t] ELSE f[t] + n

\* The two lemmas about a charge, for one band's sum m and the ledger's l.
LEMMA ChargeKeepsCover ==
  ASSUME NEW m \in [Times -> Nat], NEW l \in [Times -> Int], Covers(m, l),
         NEW m2, NEW l2, NEW s \in Times, NEW n \in Nat,
         Charged(l2, l, s, n), Charged(m2, m, s, n) \/ m2 = m
  PROVE  Covers(m2, l2)
<1> SUFFICES ASSUME NEW t \in Times
             PROVE  /\ m2[t] <= l2[t]
                    /\ \A u \in Times : t <= u => /\ m2[t] <= m2[u]
                                                 /\ m2[u] - m2[t] <= l2[u] - l2[t]
  BY DEF Covers
<1>1. Times \subseteq Int  BY DEF Times
<1>2. m[t] \in Nat /\ l[t] \in Int /\ m[t] <= l[t]  BY DEF Covers
<1>3. /\ l2[t] = IF t < s THEN l[t] ELSE l[t] + n
      /\ m2[t] = m[t] \/ m2[t] = IF t < s THEN m[t] ELSE m[t] + n
  BY DEF Charged
<1>4. m2[t] <= l2[t]  BY <1>1, <1>2, <1>3
<1>5. ASSUME NEW u \in Times, t <= u
      PROVE  m2[t] <= m2[u] /\ m2[u] - m2[t] <= l2[u] - l2[t]
  <2>1. /\ m[u] \in Nat /\ l[u] \in Int /\ m[t] <= m[u]
        /\ m[u] - m[t] <= l[u] - l[t]
    BY <1>5 DEF Covers
  <2>2. l2[u] = IF u < s THEN l[u] ELSE l[u] + n  BY DEF Charged
  <2>3. CASE m2 = m  BY <1>1, <1>2, <1>3, <1>5, <2>1, <2>2, <2>3
  <2>4. CASE Charged(m2, m, s, n)
    <3>1. /\ m2[t] = IF t < s THEN m[t] ELSE m[t] + n
          /\ m2[u] = IF u < s THEN m[u] ELSE m[u] + n
      BY <2>4 DEF Charged
    <3> QED  BY <1>1, <1>2, <1>3, <1>5, <2>1, <2>2, <3>1
  <2> QED  BY <2>3, <2>4
<1> QED  BY <1>4, <1>5

LEMMA ChargeFits ==
  ASSUME NEW m \in [Times -> Nat], NEW l \in [Times -> Int], Covers(m, l),
         NEW s \in Times, \A u \in Times : s <= u => m[u] = m[s],
         NEW m2, NEW n \in Nat, Charged(m2, m, s, n),
         NEW e \in Nat, Within(l, s) + n <= e,
         NEW t \in Times, Within(m, t) <= e
  PROVE  Within(m2, t) <= e
<1>1. /\ Times = 0 .. MaxTime /\ MaxTime \in Nat /\ Day \in Nat
      /\ s \in Int /\ t \in Int
  BY TimesAssumption DEF Times
<1>2. PICK k \in Int : k = t - Day - 1  BY <1>1
<1>3. PICK j \in Int : j = s - Day - 1  BY <1>1
<1>4. /\ t - Day <= 0 => Before(m, t) = 0 /\ Before(m2, t) = 0
      /\ t - Day > 0  => Before(m, t) = m[k] /\ Before(m2, t) = m2[k] /\ k \in Times
      /\ s - Day <= 0 => Before(l, s) = 0
      /\ s - Day > 0  => Before(l, s) = l[j] /\ j \in Times
  BY <1>1, <1>2, <1>3 DEF Before
<1>5. /\ m2[t] = IF t < s THEN m[t] ELSE m[t] + n
      /\ k \in Times => m2[k] = IF k < s THEN m[k] ELSE m[k] + n
  BY DEF Charged
<1>6. m[s] \in Nat /\ l[s] \in Int /\ m[t] \in Nat /\ m[s] <= l[s]  BY DEF Covers
<1>7. k \in Times => m[k] \in Nat  OBVIOUS
<1>8. CASE t < s
  <2>1. Before(m2, t) = Before(m, t) /\ m2[t] = m[t]
    BY <1>1, <1>2, <1>4, <1>5, <1>8
  <2> QED  BY <2>1 DEF Within
<1>9. CASE s <= t /\ t - Day <= 0
  <2>1. Before(m2, t) = 0 /\ Before(l, s) = 0  BY <1>1, <1>4, <1>9
  <2>2. m2[t] = m[s] + n  BY <1>1, <1>5, <1>9
  <2> QED  BY <1>6, <2>1, <2>2 DEF Within
<1>10. CASE s <= t /\ t - Day > 0 /\ s <= k
  <2>1. m2[t] = m[s] + n  BY <1>1, <1>5, <1>10
  <2>2. m2[k] = m[s] + n  BY <1>1, <1>2, <1>4, <1>5, <1>10
  <2>3. Before(m2, t) = m2[k]  BY <1>4, <1>10
  <2> QED  BY <1>6, <2>1, <2>2, <2>3 DEF Within
<1>11. CASE s <= t /\ t - Day > 0 /\ k < s
  <2>1. k \in Times /\ k <= s  BY <1>1, <1>2, <1>4, <1>11
  <2>2. m2[t] = m[s] + n /\ Before(m2, t) = m[k]
    BY <1>1, <1>4, <1>5, <1>11, <2>1
  <2>3. m[k] \in Nat /\ m[k] <= m[s]  BY <2>1 DEF Covers
  <2>4. m[s] - m[k] <= l[s] - Before(l, s)
    <3>1. CASE s - Day <= 0  BY <1>4, <1>6, <2>3, <3>1
    <3>2. CASE s - Day > 0
      <4>1. j \in Times /\ j <= k /\ j <= s /\ Before(l, s) = l[j]
        BY <1>1, <1>2, <1>3, <1>4, <1>11, <3>2
      <4>2. /\ m[j] \in Nat /\ l[j] \in Int /\ m[j] <= m[k]
            /\ m[s] - m[j] <= l[s] - l[j]
        BY <2>1, <4>1 DEF Covers
      <4> QED  BY <1>6, <2>3, <4>1, <4>2
    <3> QED  BY <1>1, <3>1, <3>2
  <2>5. Before(l, s) \in Int  BY <1>1, <1>4
  <2>6. Within(m2, t) = m[s] + n - m[k] /\ Within(l, s) = l[s] - Before(l, s)
    BY <1>6, <2>2, <2>3, <2>5 DEF Within
  <2> QED  BY <1>6, <2>3, <2>4, <2>5, <2>6
<1> QED  BY <1>1, <1>2, <1>8, <1>9, <1>10, <1>11

\* What a charge of n changes, time by time.
LEMMA BookPointwise ==
  ASSUME TypeOK, NEW b \in Bands, NEW n \in Nat, Book(b, n), UNCHANGED now
  PROVE  /\ Charged(ledger', ledger, now, n) /\ Charged(moved'[b], moved[b], now, n)
         /\ \A c \in Bands \ {b} : moved'[c] = moved[c]
<1>1. Magnitude(n) = n  BY DEF Magnitude
<1>2. ledger' = Add(ledger, n) /\ moved' = [moved EXCEPT ![b] = Add(moved[b], n)]
  BY <1>1 DEF Book
<1>3. moved'[b] = Add(moved[b], n) /\ \A c \in Bands \ {b} : moved'[c] = moved[c]
  BY <1>2 DEF TypeOK
<1> QED  BY <1>2, <1>3 DEF Add, Charged

\* As long as there are only charges, no 24 hours move more under a band than
\* its daily_envelope, for every policy, whatever the downgrades and the clock do.
THEOREM EnvelopeKeptHolds ==
  ASSUME NoRefunds
  PROVE  Spec => []EnvelopeKept
<1>1. Init => EInv
  <2> SUFFICES ASSUME Init PROVE EInv  OBVIOUS
  <2>1. NothingAhead /\ EntriesCover
    BY TimesAssumption DEF Init, NothingAhead, EntriesCover, Covers, Times
  <2>2. \A b \in Bands, t \in Times : Within(moved[b], t) = 0
    BY TimesAssumption DEF Init, Within, Before, Times
  <2>3. \A b \in Bands : Policy.bands[b].envelope \in Option(Nat)
    BY PolicyAssumption DEF Policies, BandConfigs
  <2> QED  BY <2>1, <2>2, <2>3 DEF EInv, EnvelopeKept, Option
<1>2. TypeOK /\ EInv /\ [Next]_vars => EInv'
  <2> SUFFICES ASSUME TypeOK, EInv, [Next]_vars PROVE EInv'  OBVIOUS
  <2>1. CASE UNCHANGED <<now, ledger, moved>>
    BY <2>1 DEF EInv, NothingAhead, EntriesCover, EnvelopeKept, Within, Before
  <2>2. ASSUME NEW a \in Agents, NEW req \in Asked, Ask(a, req) PROVE EInv'
    <3> DEFINE b == EffectiveBand(Policy, req, InForce(a))
    <3>1. CASE UNCHANGED <<ledger, moved>>  BY <2>1, <2>2, <3>1 DEF Ask
    <3>2. CASE Decide(req, InForce(a)) = "autonomous" /\ Book(b, req.amount)
      <4>1. req.amount \in Nat /\ b \in Bands /\ SpentToday \in Int /\ UNCHANGED now
        BY <2>2, AskSteps DEF NoRefunds, Ask
      <4> DEFINE n == req.amount
      <4>5. /\ Charged(ledger', ledger, now, n) /\ Charged(moved'[b], moved[b], now, n)
            /\ \A c \in Bands \ {b} : moved'[c] = moved[c]
        <5> HIDE DEF b, n
        <5> QED  BY <3>2, <4>1, BookPointwise DEF n
      <4>6. /\ now \in Times /\ ledger \in [Times -> Int]
            /\ \A c \in Bands : moved[c] \in [Times -> Nat]
        BY DEF TypeOK
      <4>2. NothingAhead' /\ EntriesCover'
        <5> HIDE DEF b, n
        <5>1. EntriesCover'
          <6> SUFFICES ASSUME NEW c \in Bands PROVE Covers(moved'[c], ledger')
            BY DEF EntriesCover
          <6>1. Covers(moved[c], ledger)  BY DEF EInv, EntriesCover
          <6>2. Charged(moved'[c], moved[c], now, n) \/ moved'[c] = moved[c]  BY <4>5
          <6> QED  BY <4>1, <4>5, <4>6, <6>1, <6>2, ChargeKeepsCover DEF n
        <5>2. NothingAhead'
          <6>1. Times \subseteq Int  BY DEF Times
          <6>2. SUFFICES ASSUME NEW t \in Times, now <= t
                        PROVE  /\ ledger'[t] = ledger'[now]
                               /\ \A c \in Bands : moved'[c][t] = moved'[c][now]
            BY <4>1 DEF NothingAhead
          <6>3. ~(t < now) /\ ~(now < now)  BY <4>6, <6>1, <6>2
          <6>4. ledger'[t] = ledger'[now]
            BY <4>5, <4>6, <6>2, <6>3 DEF Charged, EInv, NothingAhead
          <6>5. \A c \in Bands : moved'[c][t] = moved'[c][now]
            BY <4>5, <4>6, <6>2, <6>3 DEF Charged, EInv, NothingAhead
          <6> QED  BY <6>4, <6>5
        <5> QED  BY <5>1, <5>2
      <4>3. ~OverEnvelope(Policy.bands[b], req, SpentToday)
        BY <3>2, AutonomousPasses DEF Decide
      <4>4. SpentToday # None  BY <4>1, NoneAssumption
      <4>7. EnvelopeKept'
        <5> SUFFICES ASSUME NEW c \in Bands, NEW t \in Times,
                            Policy.bands[c].envelope # None
                     PROVE  Within(moved'[c], t) <= Policy.bands[c].envelope
          BY DEF EnvelopeKept
        <5>1. Policy.bands[c].envelope \in Nat
          BY PolicyAssumption DEF Policies, BandConfigs, Option
        <5>2. Within(moved[c], t) <= Policy.bands[c].envelope
          BY DEF EInv, EnvelopeKept
        <5>3. CASE c # b
          <6> HIDE DEF b
          <6>1. moved'[c] = moved[c]  BY <4>5, <5>3
          <6> QED  BY <5>2, <6>1
        <5>4. CASE c = b
          <6>1. Within(ledger, now) + req.amount <= Policy.bands[c].envelope
            BY <4>1, <4>3, <4>4, <5>1, <5>4 DEF OverEnvelope, SpentToday
          <6>2. /\ Covers(moved[c], ledger)
                /\ \A u \in Times : now <= u => moved[c][u] = moved[c][now]
            BY DEF EInv, EntriesCover, NothingAhead
          <6>3. Charged(moved'[c], moved[c], now, n)  BY <4>5, <5>4
          <6> HIDE DEF b
          <6> QED  BY <4>1, <4>6, <5>1, <5>2, <6>1, <6>2, <6>3, ChargeFits
        <5> QED  BY <5>3, <5>4
      <4> QED  BY <4>2, <4>7 DEF EInv
    <3> QED  BY <2>2, <3>1, <3>2, AskSteps
  <2>3. CASE Tick
    <3>1. NothingAhead'
      BY <2>3, TimesAssumption DEF Tick, EInv, NothingAhead, TypeOK, Times
    <3>2. EntriesCover' /\ EnvelopeKept'
      BY <2>3 DEF Tick, EInv, EntriesCover, EnvelopeKept, Within, Before
    <3> QED  BY <3>1, <3>2 DEF EInv
  <2> QED  BY <2>1, <2>2, <2>3 DEF Next, Kill, Resume, vars
<1> QED  BY <1>1, <1>2, TypeCorrect, PTL DEF Spec, EInv

-----------------------------------------------------------------------------
(* GuardsGate.                                                             *)


-----------------------------------------------------------------------------
(* The inductive invariant.                                                *)

\* A command under way holds the lock, and works on a guard.
Locked ==
  \A o \in Operators : op[o].pc # "idle" => lock = o /\ op[o].guard \in Guards

\* Unless a file has rotted, no name holds anything but a state or nothing.
FilesAreWhole ==
  ~rotted => \A file \in {main, bak, synced.main, synced.bak} : Valid(file) \/ file = Missing

\* Read from this file, none of these guards is off in a state that is not
\* fail-closed.
Keeps(file, guards) == Valid(file) => \A g \in guards : g \in file.on \/ file.failClosed

FilesKeep ==
  \A guards \in {armed, kept} : Keeps(main, guards) /\ Keeps(bak, guards)

SyncedKeep == Keeps(synced.main, kept) /\ Keeps(synced.bak, kept)

\* A file that is gone would be read as dormant: once a guard is armed it is
\* there, on the disk as well.
MainIsThere ==
  /\ armed # {} \/ kept # {} => main # Missing
  /\ kept # {} => synced.main # Missing

\* What a command is about to write keeps the armed guards, the last sync having
\* kept no others; and a guard it has written and backed up may be armed.
CommandsKeep ==
  \A o \in Operators :
    /\ op[o].pc \in {"sync", "replace"} =>
         /\ Keeps(op[o].data, armed)
         /\ op[o].on => op[o].guard \in op[o].data.on
    /\ op[o].pc \in {"replace", "backup", "report"} => kept \subseteq armed
    /\ op[o].pc \in {"backup", "report"} =>
         main # Missing /\ (op[o].on => Keeps(main, {op[o].guard}))
    /\ IF op[o].pc = "report"
       THEN op[o].on /\ op[o].saved => Keeps(bak, {op[o].guard})
       ELSE ~op[o].saved

\* An undisturbed check that has found the state not to be fail-closed is right
\* about it still.
ChecksHold ==
  \A h \in held :
    /\ hook[h].pc = "first_bak" =>
         ~loose /\ (Load.failClosed => LoadBackup.failClosed)
    /\ hook[h].pc \in {"second", "second_bak"} => ~Load.failClosed
    /\ hook[h].pc = "second_bak" => Valid(bak) /\ ~bak.failClosed

GInv ==
  /\ GateTypeOK /\ Locked /\ FilesAreWhole
  /\ FilesKeep /\ SyncedKeep /\ MainIsThere /\ CommandsKeep /\ ChecksHold

-----------------------------------------------------------------------------
(* What load_state answers.                                                *)

\* Missing, Corrupt and Misshapen are no states.
LEMMA StatesAreValid ==
  /\ ~Valid(Missing) /\ ~Valid(Corrupt) /\ ~Valid(Misshapen)
  /\ \A file \in Files : Valid(file) => file \in States
  /\ \A state \in States : Valid(state) /\ state # Missing
  /\ Dormant \in States /\ FailClosed \in States
  /\ Dormant.on = {} /\ FailClosed.on = {}
  /\ Dormant.failClosed = FALSE /\ FailClosed.failClosed = TRUE
<1>1. Dormant \in States /\ FailClosed \in States  BY DEF Dormant, FailClosed, States
<1> QED  BY <1>1, GateStatesAssumption DEF Valid, Files, Dormant, FailClosed

\* The cases of load_state, in the terms the proofs need.
LoadFacts ==
  /\ Load \in States /\ LoadBackup \in States /\ LoadMain \in States
  /\ NeedsBackup => ~loose /\ ~Valid(main) /\ Load = LoadBackup
  /\ ~NeedsBackup => Load = LoadMain
  /\ loose => Load = FailClosed
  /\ ~loose /\ Valid(main) => Load = main
  /\ ~loose /\ main = Missing => Load = Dormant
  /\ ~loose /\ ~Valid(main) /\ main # Missing => Load = FailClosed \/ Load = LoadBackup
  /\ Valid(bak) => LoadBackup = bak
  /\ ~Valid(bak) => LoadBackup = FailClosed

LEMMA LoadCases ==
  ASSUME main \in Files, bak \in Files
  PROVE  LoadFacts
<1> USE StatesAreValid, GateFilesAssumption
<1>1. LoadMain \in States  BY DEF LoadMain
<1>2. LoadBackup \in States  BY DEF LoadBackup
<1>3. Load \in States  BY <1>1, <1>2 DEF Load
<1>4. NeedsBackup <=> ~loose /\ main = Corrupt  BY DEF NeedsBackup
<1>5. /\ loose => LoadMain = FailClosed
      /\ ~loose /\ main = Missing => LoadMain = Dormant
      /\ ~loose /\ Valid(main) => LoadMain = main
      /\ ~loose /\ ~Valid(main) /\ main # Missing => LoadMain = FailClosed
  BY DEF LoadMain
<1> QED  BY <1>1, <1>2, <1>3, <1>4, <1>5 DEF LoadFacts, Load, LoadBackup

LEMMA LoadCasesNext ==
  ASSUME main' \in Files, bak' \in Files
  PROVE  LoadFacts'
<1> USE StatesAreValid, GateFilesAssumption
<1>1. LoadMain' \in States  BY DEF LoadMain
<1>2. LoadBackup' \in States  BY DEF LoadBackup
<1>3. Load' \in States  BY <1>1, <1>2 DEF Load
<1>4. NeedsBackup' <=> ~loose' /\ main' = Corrupt  BY DEF NeedsBackup
<1>5. /\ loose' => LoadMain' = FailClosed
      /\ ~loose' /\ main' = Missing => LoadMain' = Dormant
      /\ ~loose' /\ Valid(main') => LoadMain' = main'
      /\ ~loose' /\ ~Valid(main') /\ main' # Missing => LoadMain' = FailClosed
  BY DEF LoadMain
<1> QED  BY <1>1, <1>2, <1>3, <1>4, <1>5 DEF LoadFacts, Load, LoadBackup, Valid

\* What a command is about to write: the loaded state with one guard changed.
LEMMA EditedState ==
  ASSUME NEW state \in States, NEW g \in Guards, NEW on \in BOOLEAN, NEW edited,
         edited = [state EXCEPT !.on = IF on THEN @ \cup {g} ELSE @ \ {g}]
  PROVE  /\ edited \in States
         /\ edited.failClosed = state.failClosed
         /\ \A x : x \in edited.on <=> IF x = g THEN on ELSE x \in state.on
BY DEF States

-----------------------------------------------------------------------------
(* Types.                                                                  *)

OpRecords ==
  [pc : {"idle", "sync", "replace", "backup", "report"},
   guard : Guards \cup {Nobody}, on : BOOLEAN, data : States, saved : BOOLEAN]
HookRecords ==
  [pc : {"idle", "first", "first_bak", "second", "second_bak", "deferred"},
   guard : Guards \cup {Nobody}]

LEMMA TypeInit == GateInit => GateTypeOK
<1> SUFFICES ASSUME GateInit PROVE GateTypeOK  OBVIOUS
<1>1. Idle \in OpRecords  BY StatesAreValid DEF Idle, OpRecords
<1>2. Resting \in HookRecords  BY DEF Resting, HookRecords
<1>3. op \in [Operators -> OpRecords] /\ hook \in [Hooks -> HookRecords]
  BY <1>1, <1>2 DEF GateInit
<1>4. loose \in BOOLEAN /\ rotted \in BOOLEAN  BY DEF GateInit
<1>5. synced \in [main : Files, bak : Files]  BY DEF GateInit, Files
<1>6. commands \in 0 .. MaxCommands /\ checks \in 0 .. MaxChecks /\ faults \in 0 .. MaxFaults
  BY GateBoundsAssumption DEF GateInit
<1> QED
  BY <1>3, <1>4, <1>5, <1>6 DEF GateInit, GateTypeOK, Files, OpRecords, HookRecords

\* An operator's record stays one when some of its fields are set.
LEMMA OpUpdate ==
  ASSUME NEW c \in OpRecords,
         NEW pc \in {"idle", "sync", "replace", "backup", "report"}
  PROVE  /\ [c EXCEPT !.pc = pc] \in OpRecords
         /\ [c EXCEPT !.pc = pc, !.saved = TRUE] \in OpRecords
BY DEF OpRecords

LEMMA HookUpdate ==
  ASSUME NEW c \in HookRecords,
         NEW pc \in {"idle", "first", "first_bak", "second", "second_bak", "deferred"}
  PROVE  [c EXCEPT !.pc = pc] \in HookRecords
BY DEF HookRecords

\* What a hook makes of a reading keeps its kind.
LEMMA SeesType ==
  ASSUME hook \in [Hooks -> HookRecords], NEW h \in Hooks, NEW reading, NEW data,
         Sees(h, reading, data)
  PROVE  hook' \in [Hooks -> HookRecords]
<1>1. Resting \in HookRecords  BY DEF Resting, HookRecords
<1>2. hook[h] \in HookRecords  OBVIOUS
<1>3. /\ [hook[h] EXCEPT !.pc = "second"] \in HookRecords
      /\ [hook[h] EXCEPT !.pc = "deferred"] \in HookRecords
  BY <1>2, HookUpdate
<1>4. PICK c \in HookRecords : hook' = [hook EXCEPT ![h] = c]
  BY <1>1, <1>3, Zenon DEF Sees
<1> QED  BY <1>4

LEMMA HeldType == Holds => held' \subseteq Hooks
BY DEF Holds

LEMMA FaultType ==
  ASSUME GateTypeOK, Fault
  PROVE  faults' \in 0 .. MaxFaults /\ commands' = commands /\ checks' = checks
BY GateBoundsAssumption DEF GateTypeOK, Fault

LEMMA TypeStep == GateTypeOK /\ Locked /\ [GateNext]_gateVars => GateTypeOK'
<1> SUFFICES ASSUME GateTypeOK, Locked, [GateNext]_gateVars PROVE GateTypeOK'  OBVIOUS
<1> DEFINE Typed == op \in [Operators -> OpRecords] /\ hook \in [Hooks -> HookRecords]
<1>a. Typed  BY DEF GateTypeOK, OpRecords, HookRecords
<1>b. LoadFacts  BY LoadCases DEF GateTypeOK
<1>c. /\ main \in Files /\ bak \in Files /\ loose \in BOOLEAN
      /\ synced \in [main : Files, bak : Files]
      /\ lock \in Operators \cup {Nobody}
      /\ commands \in 0 .. MaxCommands /\ checks \in 0 .. MaxChecks
      /\ faults \in 0 .. MaxFaults
      /\ rotted \in BOOLEAN /\ armed \subseteq Guards /\ kept \subseteq Guards
      /\ held \subseteq Hooks
  BY DEF GateTypeOK
<1> USE DEF fileVars, countVars, historyVars, Sets, Ends
<1>idle. Idle \in OpRecords  BY StatesAreValid DEF Idle, OpRecords
<1>rest. Resting \in HookRecords  BY DEF Resting, HookRecords
<1>1. ASSUME NEW o \in Operators, NEW g \in Guards, NEW on \in BOOLEAN, Begin(o, g, on)
      PROVE  GateTypeOK'
  <2> DEFINE data == [Load EXCEPT !.on = IF on THEN @ \cup {g} ELSE @ \ {g}]
             c == [pc |-> "sync", guard |-> g, on |-> on, saved |-> FALSE, data |-> data]
  <2>1. data \in States  BY <1>b, EditedState DEF LoadFacts
  <2>2. c \in OpRecords
    <3> HIDE DEF data
    <3> QED  BY <2>1 DEF OpRecords
  <2>3. op' \in [Operators -> OpRecords]
    <3>1. op' = [op EXCEPT ![o] = c]  BY <1>1 DEF Begin
    <3> HIDE DEF c
    <3> QED  BY <1>a, <2>2, <3>1
  <2>4. armed' \subseteq Guards  BY <1>1, <1>c DEF Begin
  <2>5. commands' \in 0 .. MaxCommands  BY <1>1, <1>c, GateBoundsAssumption DEF Begin
  <2>6. held' \subseteq Hooks  BY <1>1, HeldType DEF Begin
  <2> QED
    BY <1>1, <1>a, <1>c, <2>3, <2>4, <2>5, <2>6 DEF Begin, GateTypeOK, OpRecords, HookRecords
<1>2. ASSUME NEW o \in Operators, Sync(o) PROVE GateTypeOK'
  <2>1. op' \in [Operators -> OpRecords]  BY <1>2, <1>a, OpUpdate DEF Sync
  <2>2. held' \subseteq Hooks  BY <1>2, HeldType DEF Sync
  <2> QED  BY <1>2, <1>a, <1>c, <2>1, <2>2 DEF Sync, GateTypeOK, OpRecords, HookRecords
<1>3. ASSUME NEW o \in Operators, Replace(o) PROVE GateTypeOK'
  <2>1. op' \in [Operators -> OpRecords]  BY <1>3, <1>a, OpUpdate DEF Replace
  <2>2. main' \in Files
    <3>1. op[o].data \in States  BY <1>a DEF OpRecords
    <3> QED  BY <1>3, <3>1 DEF Replace, Files
  <2>3. held' \subseteq Hooks  BY <1>3, HeldType DEF Replace
  <2> QED
    BY <1>3, <1>a, <1>c, <2>1, <2>2, <2>3 DEF Replace, GateTypeOK, OpRecords, HookRecords
<1>4. ASSUME NEW o \in Operators, Backup(o) PROVE GateTypeOK'
  <2>1. op' \in [Operators -> OpRecords]
    <3>1. op[o] \in OpRecords  BY <1>a
    <3>2. PICK c \in OpRecords : op' = [op EXCEPT ![o] = c]
      <4>1. /\ [op[o] EXCEPT !.pc = "report"] \in OpRecords
            /\ [op[o] EXCEPT !.pc = "report", !.saved = TRUE] \in OpRecords
        BY <3>1, OpUpdate
      <4> QED  BY <1>4, <4>1 DEF Backup
    <3> QED  BY <1>a, <3>2
  <2>2. held' \subseteq Hooks  BY <1>4, HeldType DEF Backup
  <2>3. faults' \in 0 .. MaxFaults /\ bak' \in Files
    BY <1>4, <1>c, GateBoundsAssumption DEF Backup
  <2> QED
    BY <1>4, <1>a, <1>c, <2>1, <2>2, <2>3 DEF Backup, GateTypeOK, OpRecords, HookRecords
<1>5. ASSUME NEW o \in Operators, Report(o) PROVE GateTypeOK'
  <2>1. op' \in [Operators -> OpRecords]  BY <1>5, <1>a, <1>idle DEF Report
  <2>2. held' \subseteq Hooks  BY <1>5, HeldType DEF Report
  <2>3. armed' \subseteq Guards  BY <1>5, <1>c DEF Report, Locked
  <2> QED
    BY <1>5, <1>a, <1>c, <2>1, <2>2, <2>3 DEF Report, GateTypeOK, OpRecords, HookRecords
<1>6. ASSUME NEW h \in Hooks, NEW g \in Guards, Check(h, g) PROVE GateTypeOK'
  <2>1. [pc |-> "first", guard |-> g] \in HookRecords  BY DEF HookRecords
  <2>2. hook' \in [Hooks -> HookRecords]  BY <1>6, <1>a, <2>1 DEF Check
  <2>3. held' \subseteq Hooks  BY <1>6, HeldType DEF Check
  <2>4. checks' \in 0 .. MaxChecks  BY <1>6, <1>c, GateBoundsAssumption DEF Check
  <2> QED
    BY <1>6, <1>a, <1>c, <2>2, <2>3, <2>4 DEF Check, GateTypeOK, OpRecords, HookRecords
<1>7. ASSUME NEW h \in Hooks, ReadMain(h) PROVE GateTypeOK'
  <2>1. hook' \in [Hooks -> HookRecords]
    <3>1. CASE NeedsBackup
      <4>1. hook[h] \in HookRecords  BY <1>a
      <4>2. PICK pc \in {"first_bak", "second_bak"} :
              hook' = [hook EXCEPT ![h] = [hook[h] EXCEPT !.pc = pc]]
        BY <1>7, <3>1 DEF ReadMain
      <4>3. [hook[h] EXCEPT !.pc = pc] \in HookRecords  BY <4>1, HookUpdate
      <4> QED  BY <1>a, <4>2, <4>3
    <3>2. CASE ~NeedsBackup  BY <1>7, <1>a, <3>2, SeesType DEF ReadMain
    <3> QED  BY <3>1, <3>2
  <2>2. held' \subseteq Hooks  BY <1>7, HeldType DEF ReadMain
  <2> QED  BY <1>7, <1>a, <1>c, <2>1, <2>2 DEF ReadMain, GateTypeOK, OpRecords, HookRecords
<1>8. ASSUME NEW h \in Hooks, ReadBackup(h) PROVE GateTypeOK'
  <2>1. hook' \in [Hooks -> HookRecords]  BY <1>8, <1>a, SeesType DEF ReadBackup
  <2>2. held' \subseteq Hooks  BY <1>8, HeldType DEF ReadBackup
  <2> QED  BY <1>8, <1>a, <1>c, <2>1, <2>2 DEF ReadBackup, GateTypeOK, OpRecords, HookRecords
<1>9. ASSUME NEW h \in Hooks, Defer(h) PROVE GateTypeOK'
  <2>1. hook' \in [Hooks -> HookRecords]  BY <1>9, <1>a, <1>rest DEF Defer
  <2>2. held' \subseteq Hooks  BY <1>9, HeldType DEF Defer
  <2> QED  BY <1>9, <1>a, <1>c, <2>1, <2>2 DEF Defer, GateTypeOK, OpRecords, HookRecords
<1>10. ASSUME NEW file \in {"main", "bak"}, Rot(file) PROVE GateTypeOK'
  <2>1. held' \subseteq Hooks  BY <1>10, HeldType DEF Rot
  <2>2. /\ main' \in Files /\ bak' \in Files
        /\ synced' \in [main : Files, bak : Files]
    BY <1>10, <1>c DEF Rot, Files
  <2>3. faults' \in 0 .. MaxFaults /\ commands' = commands /\ checks' = checks
    BY <1>10, FaultType DEF Rot
  <2> QED
    BY <1>10, <1>a, <1>c, <2>1, <2>2, <2>3 DEF Rot, GateTypeOK, OpRecords, HookRecords
<1>11. CASE Loosen
  <2>1. held' \subseteq Hooks  BY <1>11, HeldType DEF Loosen
  <2>2. faults' \in 0 .. MaxFaults /\ commands' = commands /\ checks' = checks
    BY <1>11, FaultType DEF Loosen
  <2> QED  BY <1>11, <1>a, <1>c, <2>1, <2>2 DEF Loosen, GateTypeOK, OpRecords, HookRecords
<1>12. CASE Tighten
  <2>1. held' \subseteq Hooks  BY <1>12, HeldType DEF Tighten
  <2> QED  BY <1>12, <1>a, <1>c, <2>1 DEF Tighten, GateTypeOK, OpRecords, HookRecords
<1>13. ASSUME NEW o \in Operators, OperatorDies(o) PROVE GateTypeOK'
  <2>1. held' \subseteq Hooks  BY <1>13, HeldType DEF OperatorDies
  <2>2. faults' \in 0 .. MaxFaults /\ commands' = commands /\ checks' = checks
    BY <1>13, FaultType DEF OperatorDies
  <2>3. op' \in [Operators -> OpRecords]  BY <1>13, <1>a, <1>idle DEF OperatorDies
  <2> QED
    BY <1>13, <1>a, <1>c, <2>1, <2>2, <2>3 DEF OperatorDies, GateTypeOK, OpRecords, HookRecords
<1>14. CASE PowerFails
  <2>1. held' \subseteq Hooks  BY <1>14, HeldType DEF PowerFails
  <2>2. faults' \in 0 .. MaxFaults /\ commands' = commands /\ checks' = checks
    BY <1>14, FaultType DEF PowerFails
  <2>3. op' \in [Operators -> OpRecords] /\ hook' \in [Hooks -> HookRecords]
    BY <1>14, <1>idle, <1>rest DEF PowerFails
  <2>4. main' \in Files /\ bak' \in Files /\ synced' \in [main : Files, bak : Files]
    BY <1>14, <1>c DEF PowerFails
  <2>5. armed' \subseteq Guards  BY <1>14, <1>c DEF PowerFails
  <2> QED
    BY <1>14, <1>c, <2>1, <2>2, <2>3, <2>4, <2>5
    DEF PowerFails, GateTypeOK, OpRecords, HookRecords
<1>15. CASE UNCHANGED gateVars  BY <1>15, <1>a, <1>c DEF gateVars, GateTypeOK, OpRecords, HookRecords
<1> QED
  BY <1>1, <1>2, <1>3, <1>4, <1>5, <1>6, <1>7, <1>8, <1>9, <1>10, <1>11, <1>12, <1>13,
     <1>14, <1>15
  DEF GateNext, OperatorStep, HookStep, GoesWrong

-----------------------------------------------------------------------------
(* The lock, and whole files.                                              *)

LEMMA LockedStep == GateTypeOK /\ Locked /\ [GateNext]_gateVars => Locked'
<1> SUFFICES ASSUME GateTypeOK, Locked, [GateNext]_gateVars PROVE Locked'  OBVIOUS
<1> USE GateActorsAssumption DEF GateTypeOK, Locked, fileVars, countVars, historyVars, Sets, Ends
<1>1. ASSUME NEW o \in Operators, NEW g \in Guards, NEW on \in BOOLEAN, Begin(o, g, on)
      PROVE  Locked'
  <2>1. \A p \in Operators : op[p].pc = "idle"  BY <1>1 DEF Begin
  <2>2. /\ lock' = o /\ \A p \in Operators \ {o} : op'[p] = op[p]
        /\ op'[o].guard = g
    BY <1>1 DEF Begin
  <2> QED  BY <2>1, <2>2
<1>2. ASSUME NEW o \in Operators, Sync(o) \/ Replace(o) PROVE Locked'
  BY <1>2 DEF Sync, Replace
<1>3. ASSUME NEW o \in Operators, Backup(o) PROVE Locked'
  <2>1. op[o].pc # "idle" /\ lock' = lock  BY <1>3 DEF Backup
  <2>2. op'[o].guard = op[o].guard /\ \A p \in Operators \ {o} : op'[p] = op[p]
    <3>1. CASE Sets(o, [op[o] EXCEPT !.pc = "report", !.saved = TRUE])  BY <3>1
    <3>2. CASE Sets(o, [op[o] EXCEPT !.pc = "report"])  BY <3>2
    <3> QED  BY <1>3, <3>1, <3>2 DEF Backup
  <2> QED  BY <2>1, <2>2
<1>4. ASSUME NEW o \in Operators, Report(o) \/ OperatorDies(o) PROVE Locked'
  <2>1. op[o].pc # "idle" /\ op' = [op EXCEPT ![o] = Idle]  BY <1>4 DEF Report, OperatorDies
  <2>2. \A p \in Operators : op'[p].pc = "idle"  BY <2>1 DEF Idle
  <2> QED  BY <2>2
<1>5. CASE PowerFails  BY <1>5 DEF PowerFails, Idle
<1>6. CASE UNCHANGED <<op, lock>>  BY <1>6
<1>7. ASSUME NEW h \in Hooks, HookStep(h) PROVE UNCHANGED <<op, lock>>
  BY <1>7 DEF HookStep, Check, ReadMain, ReadBackup, Defer
<1> QED
  BY <1>1, <1>2, <1>3, <1>4, <1>5, <1>6, <1>7
  DEF GateNext, OperatorStep, GoesWrong, Rot, Loosen, Tighten, gateVars

LEMMA WholeStep == GateTypeOK /\ FilesAreWhole /\ [GateNext]_gateVars => FilesAreWhole'
<1> SUFFICES ASSUME GateTypeOK, FilesAreWhole, [GateNext]_gateVars, ~rotted' PROVE FilesAreWhole'
  BY DEF FilesAreWhole
<1> USE DEF FilesAreWhole, fileVars, countVars, historyVars
<1>1. ASSUME NEW o \in Operators, Replace(o) PROVE FilesAreWhole'
  <2>1. Valid(op[o].data)  BY GateStatesAssumption DEF GateTypeOK
  <2> QED  BY <1>1, <2>1 DEF Replace, Valid
<1>2. ASSUME NEW o \in Operators, Sync(o) PROVE FilesAreWhole'
  BY <1>2 DEF Sync, Valid
<1>3. ASSUME NEW o \in Operators, Backup(o) PROVE FilesAreWhole'
  BY <1>3 DEF Backup, Valid
<1>4. ASSUME NEW file \in {"main", "bak"}, Rot(file) PROVE FALSE
  BY <1>4 DEF Rot
<1>5. CASE PowerFails  BY <1>5 DEF PowerFails, Valid
<1>6. CASE UNCHANGED <<main, bak, synced, rotted>>  BY <1>6 DEF Valid
<1>7. ASSUME NEW h \in Hooks, HookStep(h) PROVE UNCHANGED <<main, bak, synced, rotted>>
  BY <1>7 DEF HookStep, Check, ReadMain, ReadBackup, Defer
<1>8. ASSUME NEW o \in Operators,
             Report(o) \/ OperatorDies(o) \/ \E g \in Guards, on \in BOOLEAN : Begin(o, g, on)
      PROVE  UNCHANGED <<main, bak, synced, rotted>>
  BY <1>8 DEF Report, OperatorDies, Begin
<1>9. CASE Loosen \/ Tighten  BY <1>9, <1>6 DEF Loosen, Tighten
<1> QED
  BY <1>1, <1>2, <1>3, <1>4, <1>5, <1>6, <1>7, <1>8, <1>9
  DEF GateNext, OperatorStep, GoesWrong, gateVars
-----------------------------------------------------------------------------
(* Armed guards stay on.                                                   *)

Kept == FilesKeep /\ SyncedKeep /\ MainIsThere /\ CommandsKeep

\* While the lock is held by one command, every other one is idle.
LEMMA OthersIdle ==
  ASSUME Locked, NEW o \in Operators, op[o].pc # "idle"
  PROVE  lock = o /\ op[o].guard \in Guards
         /\ \A p \in Operators \ {o} : op[p].pc = "idle"
BY GateActorsAssumption DEF Locked

\* To keep more guards is to keep fewer.
LEMMA KeepsFewer ==
  ASSUME NEW file, NEW more, NEW fewer, fewer \subseteq more, Keeps(file, more)
  PROVE  Keeps(file, fewer)
BY DEF Keeps

LEMMA KeepsBoth ==
  ASSUME NEW file, NEW some, NEW others, Keeps(file, some), Keeps(file, others)
  PROVE  Keeps(file, some \cup others)
BY DEF Keeps

LEMMA InvalidKeeps == ASSUME NEW file, NEW guards, ~Valid(file) PROVE Keeps(file, guards)
BY DEF Keeps

\* What load_state answers never has an armed guard off, unless it is fail-closed.
LEMMA LoadKeeps ==
  ASSUME GateTypeOK, FilesKeep, MainIsThere
  PROVE  Keeps(Load, armed)
<1>1. LoadFacts  BY LoadCases DEF GateTypeOK
<1>2. Keeps(FailClosed, armed)  BY StatesAreValid DEF Keeps
<1>3. Keeps(main, armed) /\ Keeps(bak, armed)  BY DEF FilesKeep
<1>4. main = Missing => Keeps(Dormant, armed)  BY DEF MainIsThere, Keeps
<1> QED  BY <1>1, <1>2, <1>3, <1>4 DEF LoadFacts

LEMMA KeepInit == GateInit => Kept
<1> SUFFICES ASSUME GateInit PROVE Kept  OBVIOUS
<1>1. ~Valid(Missing)  BY StatesAreValid
<1>2. \A o \in Operators : op[o].pc = "idle" /\ ~op[o].saved  BY DEF GateInit, Idle
<1> QED
  BY <1>1, <1>2 DEF GateInit, Kept, FilesKeep, SyncedKeep, MainIsThere, CommandsKeep, Keeps

LEMMA KeepStep == GateTypeOK /\ Locked /\ Kept /\ [GateNext]_gateVars => Kept'
<1> SUFFICES ASSUME GateTypeOK, Locked, Kept, [GateNext]_gateVars PROVE Kept'  OBVIOUS
<1> DEFINE Typed == op \in [Operators -> OpRecords]
<1>a. Typed  BY DEF GateTypeOK, OpRecords
<1> USE DEF fileVars, countVars, historyVars, Sets, Ends, Kept
<1>1. ASSUME NEW o \in Operators, NEW g \in Guards, NEW on \in BOOLEAN, Begin(o, g, on)
      PROVE  Kept'
  <2> DEFINE data == [Load EXCEPT !.on = IF on THEN @ \cup {g} ELSE @ \ {g}]
  <2>1. Keeps(Load, armed)  BY LoadKeeps
  <2>2. Load \in States  BY LoadCases DEF GateTypeOK, LoadFacts
  <2>3. Keeps(data, armed') /\ (on => g \in data.on)
    <3>1. data \in States /\ data.failClosed = Load.failClosed
          /\ \A x : x \in data.on <=> IF x = g THEN on ELSE x \in Load.on
      BY <2>2, EditedState
    <3>2. armed' = IF on THEN armed ELSE armed \ {g}  BY <1>1 DEF Begin
    <3>3. Valid(Load)  BY <2>2, StatesAreValid
    <3> HIDE DEF data
    <3> QED  BY <2>1, <3>1, <3>2, <3>3 DEF Keeps
  <2>4. armed' \subseteq armed /\ UNCHANGED <<main, bak, synced, kept>>  BY <1>1 DEF Begin
  <2>5. /\ \A p \in Operators \ {o} : op'[p] = op[p] /\ op[p].pc = "idle"
        /\ op'[o].pc = "sync" /\ op'[o].on = on /\ op'[o].guard = g /\ ~op'[o].saved
        /\ op'[o].data = data
    <3> DEFINE c == [pc |-> "sync", guard |-> g, on |-> on, saved |-> FALSE, data |-> data]
    <3>1. \A p \in Operators : op[p].pc = "idle"
      BY <1>1, GateActorsAssumption DEF Begin, Locked
    <3>2. op' = [op EXCEPT ![o] = c]  BY <1>1 DEF Begin
    <3> HIDE DEF data
    <3>3. c.pc = "sync" /\ c.on = on /\ c.guard = g /\ c.saved = FALSE /\ c.data = data
      OBVIOUS
    <3> HIDE DEF c
    <3> QED  BY <1>a, <3>1, <3>2, <3>3
  <2>6. CommandsKeep'
    <3> HIDE DEF data
    <3> QED  BY <2>3, <2>5 DEF CommandsKeep
  <2>7. (FilesKeep /\ SyncedKeep /\ MainIsThere)'
    BY <2>4, KeepsFewer DEF FilesKeep, SyncedKeep, MainIsThere
  <2> QED  BY <2>6, <2>7
<1>2. ASSUME NEW o \in Operators, Sync(o) PROVE Kept'
  <2>1. \A p \in Operators \ {o} : op[p].pc = "idle"  BY <1>2, OthersIdle DEF Sync
  <2>2. synced' = [main |-> main, bak |-> bak] /\ kept' = armed /\ UNCHANGED <<main, bak, armed>>
    BY <1>2 DEF Sync
  <2>3. /\ op[o].pc = "sync" /\ op'[o].pc = "replace"
        /\ op'[o].on = op[o].on /\ op'[o].guard = op[o].guard
        /\ op'[o].saved = op[o].saved /\ op'[o].data = op[o].data
        /\ \A p \in Operators \ {o} : op'[p] = op[p]
    BY <1>2, <1>a DEF Sync, OpRecords
  <2>4. CommandsKeep'  BY <2>1, <2>2, <2>3 DEF CommandsKeep
  <2>5. (FilesKeep /\ SyncedKeep /\ MainIsThere)'
    BY <2>2 DEF FilesKeep, SyncedKeep, MainIsThere
  <2> QED  BY <2>4, <2>5
<1>3. ASSUME NEW o \in Operators, Replace(o) PROVE Kept'
  <2>1. \A p \in Operators \ {o} : op[p].pc = "idle"  BY <1>3, OthersIdle DEF Replace
  <2>2. main' = op[o].data /\ UNCHANGED <<bak, synced, armed, kept>>  BY <1>3 DEF Replace
  <2>3. /\ op[o].pc = "replace" /\ op'[o].pc = "backup"
        /\ op'[o].on = op[o].on /\ op'[o].guard = op[o].guard
        /\ op'[o].saved = op[o].saved /\ op'[o].data = op[o].data
        /\ \A p \in Operators \ {o} : op'[p] = op[p]
    BY <1>3, <1>a DEF Replace, OpRecords
  <2>4. /\ Keeps(main', armed) /\ main' # Missing /\ kept \subseteq armed
        /\ op[o].on => op[o].guard \in main'.on
    <3>1. op[o].data \in States  BY <1>a DEF OpRecords
    <3> QED  BY <2>2, <2>3, <3>1, StatesAreValid DEF CommandsKeep
  <2>5. Keeps(main', kept)  BY <2>4, KeepsFewer
  <2>6. op[o].on => Keeps(main', {op[o].guard})  BY <2>4 DEF Keeps
  <2>7. CommandsKeep'  BY <2>1, <2>2, <2>3, <2>4, <2>6 DEF CommandsKeep
  <2>8. (FilesKeep /\ SyncedKeep /\ MainIsThere)'
    BY <2>2, <2>4, <2>5 DEF FilesKeep, SyncedKeep, MainIsThere
  <2> QED  BY <2>7, <2>8
<1>4. ASSUME NEW o \in Operators, Backup(o) PROVE Kept'
  <2>1. \A p \in Operators \ {o} : op[p].pc = "idle"  BY <1>4, OthersIdle DEF Backup
  <2>2. UNCHANGED <<main, synced, armed, kept>> /\ op[o].pc = "backup"  BY <1>4 DEF Backup
  <2>3. \/ bak' = main /\ op' = [op EXCEPT ![o] = [op[o] EXCEPT !.pc = "report", !.saved = TRUE]]
        \/ bak' = bak /\ op' = [op EXCEPT ![o] = [op[o] EXCEPT !.pc = "report"]]
    BY <1>4 DEF Backup
  <2>4. /\ op'[o].pc = "report" /\ op'[o].on = op[o].on /\ op'[o].guard = op[o].guard
        /\ \A p \in Operators \ {o} : op'[p] = op[p]
        /\ bak' \in {main, bak}
        /\ bak' = main \/ op'[o].saved = op[o].saved
    <3>1. CASE op' = [op EXCEPT ![o] = [op[o] EXCEPT !.pc = "report", !.saved = TRUE]]
               /\ bak' = main
      BY <1>a, <3>1 DEF OpRecords
    <3>2. CASE op' = [op EXCEPT ![o] = [op[o] EXCEPT !.pc = "report"]] /\ bak' = bak
      BY <1>a, <3>2 DEF OpRecords
    <3> QED  BY <2>3, <3>1, <3>2
  <2>5. CommandsKeep'  BY <2>1, <2>2, <2>4 DEF CommandsKeep
  <2>6. (FilesKeep /\ SyncedKeep /\ MainIsThere)'
    BY <2>2, <2>4 DEF FilesKeep, SyncedKeep, MainIsThere
  <2> QED  BY <2>5, <2>6
<1>5. ASSUME NEW o \in Operators, Report(o) PROVE Kept'
  <2>1. \A p \in Operators \ {o} : op[p].pc = "idle"  BY <1>5, OthersIdle DEF Report
  <2>2. /\ UNCHANGED <<main, bak, synced, kept>> /\ op[o].pc = "report"
        /\ op' = [op EXCEPT ![o] = Idle]
    BY <1>5 DEF Report
  <2>3. /\ main # Missing
        /\ op[o].on => Keeps(main, {op[o].guard})
        /\ op[o].on /\ op[o].saved => Keeps(bak, {op[o].guard})
    BY <2>2 DEF CommandsKeep
  <2>4. Keeps(main, armed') /\ Keeps(bak, armed')
    <3>1. Keeps(main, armed) /\ Keeps(bak, armed)  BY DEF FilesKeep
    <3>2. CASE op[o].on /\ op[o].saved
      <4>1. armed' = armed \cup {op[o].guard}  BY <1>5, <3>2 DEF Report
      <4> QED  BY <2>3, <3>1, <3>2, <4>1, KeepsBoth
    <3>3. CASE ~(op[o].on /\ op[o].saved)
      <4>1. armed' = armed  BY <1>5, <3>3 DEF Report
      <4> QED  BY <3>1, <4>1
    <3> QED  BY <3>2, <3>3
  <2>5. CommandsKeep'  BY <1>a, <2>1, <2>2 DEF CommandsKeep, Idle
  <2>6. (FilesKeep /\ SyncedKeep /\ MainIsThere)'
    BY <2>2, <2>3, <2>4 DEF FilesKeep, SyncedKeep, MainIsThere
  <2> QED  BY <2>5, <2>6
<1>6. ASSUME NEW h \in Hooks, HookStep(h) PROVE UNCHANGED <<main, bak, synced, op, armed, kept>>
  BY <1>6 DEF HookStep, Check, ReadMain, ReadBackup, Defer
<1>7. CASE UNCHANGED <<main, bak, synced, op, armed, kept>>
  BY <1>7 DEF FilesKeep, SyncedKeep, MainIsThere, CommandsKeep
<1>8. ASSUME NEW file \in {"main", "bak"}, Rot(file) PROVE Kept'
  <2>1. UNCHANGED <<op, armed, kept>>  BY <1>8 DEF Rot
  <2>2. /\ main' = main \/ (~Valid(main') /\ main' # Missing)
        /\ bak' = bak \/ ~Valid(bak')
        /\ synced.main' = synced.main \/ (~Valid(synced.main') /\ synced.main' # Missing)
        /\ synced.bak' = synced.bak \/ ~Valid(synced.bak')
    <3>1. ~Valid(Corrupt) /\ ~Valid(Misshapen) /\ Corrupt # Missing /\ Misshapen # Missing
      BY StatesAreValid, GateFilesAssumption
    <3>2. synced \in [main : Files, bak : Files]  BY DEF GateTypeOK
    <3>3. PICK to \in {Corrupt, Misshapen} :
            IF file = "main"
            THEN /\ main' = to /\ bak' = bak
                 /\ synced' = IF synced.main = main THEN [synced EXCEPT !.main = to] ELSE synced
            ELSE /\ bak' = to /\ main' = main
                 /\ synced' = IF synced.bak = bak THEN [synced EXCEPT !.bak = to] ELSE synced
      BY <1>8 DEF Rot
    <3>4. ~Valid(to) /\ to # Missing  BY <3>1
    <3>5. CASE file = "main"
      <4>1. main' = to /\ bak' = bak  BY <3>3, <3>5
      <4>2. synced' \in {synced, [synced EXCEPT !.main = to]}  BY <3>3, <3>5
      <4>3. synced'.bak = synced.bak /\ synced'.main \in {synced.main, to}  BY <3>2, <4>2
      <4> QED  BY <3>4, <4>1, <4>3
    <3>6. CASE file # "main"
      <4>1. main' = main /\ bak' = to  BY <3>3, <3>6
      <4>2. synced' \in {synced, [synced EXCEPT !.bak = to]}  BY <3>3, <3>6
      <4>3. synced'.main = synced.main /\ synced'.bak \in {synced.bak, to}  BY <3>2, <4>2
      <4> QED  BY <3>4, <4>1, <4>3
    <3> QED  BY <3>5, <3>6
  <2>3. CommandsKeep'  BY <2>1, <2>2, InvalidKeeps DEF CommandsKeep
  <2>4. (FilesKeep /\ SyncedKeep /\ MainIsThere)'
    BY <2>1, <2>2, InvalidKeeps DEF FilesKeep, SyncedKeep, MainIsThere
  <2> QED  BY <2>3, <2>4
<1>9. ASSUME NEW o \in Operators, OperatorDies(o) PROVE Kept'
  <2>1. \A p \in Operators \ {o} : op[p].pc = "idle"  BY <1>9, OthersIdle DEF OperatorDies
  <2>2. UNCHANGED <<main, bak, synced, armed, kept>> /\ op' = [op EXCEPT ![o] = Idle]
    BY <1>9 DEF OperatorDies
  <2>3. CommandsKeep'  BY <1>a, <2>1, <2>2 DEF CommandsKeep, Idle
  <2>4. (FilesKeep /\ SyncedKeep /\ MainIsThere)'
    BY <2>2 DEF FilesKeep, SyncedKeep, MainIsThere
  <2> QED  BY <2>3, <2>4
<1>10. CASE PowerFails
  <2>1. /\ main' \in {main, synced.main} /\ bak' \in {bak, synced.bak}
        /\ synced' = [main |-> main', bak |-> bak']
        /\ armed' = armed \cap kept /\ kept' = kept
        /\ op' = [o \in Operators |-> Idle]
    BY <1>10 DEF PowerFails
  <2>2. Keeps(main', kept) /\ Keeps(bak', kept)
    BY <2>1 DEF FilesKeep, SyncedKeep
  <2>3. Keeps(main', armed') /\ Keeps(bak', armed')  BY <2>1, <2>2, KeepsFewer
  <2>4. CommandsKeep'  BY <2>1 DEF CommandsKeep, Idle
  <2>5. synced'.main = main' /\ synced'.bak = bak'  BY <2>1
  <2>6. MainIsThere'  BY <2>1, <2>5 DEF MainIsThere
  <2>7. (FilesKeep /\ SyncedKeep)'
    BY <2>1, <2>2, <2>3, <2>5 DEF FilesKeep, SyncedKeep
  <2> QED  BY <2>4, <2>6, <2>7
<1> QED
  BY <1>1, <1>2, <1>3, <1>4, <1>5, <1>6, <1>7, <1>8, <1>9, <1>10
  DEF GateNext, OperatorStep, GoesWrong, Loosen, Tighten, gateVars
-----------------------------------------------------------------------------
(* Undisturbed checks.                                                     *)

\* What a hook makes of its first reading, and of its second.
LEMMA SeesCases ==
  ASSUME GateTypeOK, NEW h \in Hooks, NEW reading, NEW data, Sees(h, reading, data)
  PROVE  /\ \A k \in Hooks \ {h} : hook'[k] = hook[k]
         /\ reading = "first" /\ data.failClosed => hook'[h].pc = "idle"
         /\ reading = "first" /\ ~data.failClosed => hook'[h].pc = "second"
         /\ reading # "first" /\ hook[h].guard \in data.on => hook'[h].pc = "idle"
         /\ reading # "first" /\ hook[h].guard \notin data.on => hook'[h].pc = "deferred"
<1>1. hook \in [Hooks -> HookRecords] /\ hook[h] \in HookRecords
  BY DEF GateTypeOK, HookRecords
<1>2. /\ [hook[h] EXCEPT !.pc = "second"].pc = "second"
      /\ [hook[h] EXCEPT !.pc = "deferred"].pc = "deferred"
      /\ Resting.pc = "idle"
  BY <1>1 DEF HookRecords, Resting
<1>3. CASE reading = "first" /\ data.failClosed
  <2>1. hook' = [hook EXCEPT ![h] = Resting]  BY <1>3, Zenon DEF Sees
  <2> QED  BY <1>1, <1>2, <1>3, <2>1
<1>4. CASE reading = "first" /\ ~data.failClosed
  <2>1. hook' = [hook EXCEPT ![h] = [@ EXCEPT !.pc = "second"]]  BY <1>4, Zenon DEF Sees
  <2> QED  BY <1>1, <1>2, <1>4, <2>1
<1>5. CASE reading # "first" /\ hook[h].guard \in data.on
  <2>1. hook' = [hook EXCEPT ![h] = Resting]  BY <1>5, Zenon DEF Sees
  <2> QED  BY <1>1, <1>2, <1>5, <2>1
<1>6. CASE reading # "first" /\ hook[h].guard \notin data.on
  <2>1. hook' = [hook EXCEPT ![h] = [@ EXCEPT !.pc = "deferred"]]  BY <1>6, Zenon DEF Sees
  <2> QED  BY <1>1, <1>2, <1>6, <2>1
<1> QED  BY <1>3, <1>4, <1>5, <1>6

\* A hook that finds no JSON reads the backup next.
LEMMA TurnsToBackup ==
  ASSUME GateTypeOK, NEW h \in Hooks, ReadMain(h), NeedsBackup
  PROVE  /\ \A k \in Hooks \ {h} : hook'[k] = hook[k]
         /\ hook[h].pc = "first" => hook'[h].pc = "first_bak"
         /\ hook[h].pc # "first" => hook'[h].pc = "second_bak"
<1>1. hook \in [Hooks -> HookRecords] /\ hook[h] \in HookRecords
  BY DEF GateTypeOK, HookRecords
<1> DEFINE pc == IF hook[h].pc = "first" THEN "first_bak" ELSE "second_bak"
<1>2. hook' = [hook EXCEPT ![h] = [@ EXCEPT !.pc = pc]]  BY DEF ReadMain
<1> HIDE DEF pc
<1>3. hook'[h].pc = pc /\ \A k \in Hooks \ {h} : hook'[k] = hook[k]
  BY <1>1, <1>2 DEF HookRecords
<1> QED  BY <1>3 DEF pc

\* A check in hand after a step was one before it, unless it begins.
LEMMA HeldBefore ==
  ASSUME Holds, NEW h \in held'
  PROVE  /\ h \in Hooks /\ hook'[h].pc # "idle"
         /\ hook[h].pc # "idle" => h \in held
         /\ loose' => loose
         /\ Load'.failClosed => Load.failClosed
         /\ hook[h].pc \in {"first_bak", "second_bak"} /\ Valid(bak) => Valid(bak')
BY DEF Holds

\* ChecksHold, of one check.
Holding(h) ==
  /\ hook[h].pc = "first_bak" => ~loose /\ (Load.failClosed => LoadBackup.failClosed)
  /\ hook[h].pc \in {"second", "second_bak"} => ~Load.failClosed
  /\ hook[h].pc = "second_bak" => Valid(bak) /\ ~bak.failClosed

\* A check that does not move stays right: the backup is the same, no longer
\* a state, or what guards.json holds.
LEMMA StillHolding ==
  ASSUME GateTypeOK, GateTypeOK', ChecksHold, Holds, NEW h \in held', hook'[h] = hook[h],
         \/ bak' = bak
         \/ ~Valid(bak')
         \/ bak' = main /\ UNCHANGED <<main, loose>>
  PROVE  Holding(h)'
<1>1. /\ h \in held /\ (loose' => loose) /\ (Load'.failClosed => Load.failClosed)
      /\ hook[h].pc \in {"first_bak", "second_bak"} /\ Valid(bak) => Valid(bak')
  BY HeldBefore
<1>2. LoadFacts  BY LoadCases DEF GateTypeOK
<1>3. LoadFacts'  BY LoadCasesNext DEF GateTypeOK
<1>4. Holding(h)  BY <1>1 DEF ChecksHold, Holding
<1>5. FailClosed.failClosed = TRUE  BY StatesAreValid
<1>6. /\ LoadBackup' = IF Valid(bak') THEN bak' ELSE FailClosed
      /\ LoadBackup = IF Valid(bak) THEN bak ELSE FailClosed
  BY <1>2, <1>3 DEF LoadFacts
<1>7. loose => Load.failClosed  BY <1>2, <1>5 DEF LoadFacts
<1>8. ~loose /\ Valid(main) => Load = main  BY <1>2 DEF LoadFacts
<1>9. ASSUME hook'[h].pc = "first_bak"
      PROVE  ~loose' /\ (Load'.failClosed => LoadBackup'.failClosed)
  <2>1. ~loose /\ (Load.failClosed => LoadBackup.failClosed)  BY <1>4, <1>9 DEF Holding
  <2>2. CASE bak' = bak  BY <1>1, <1>6, <2>1, <2>2 DEF Valid
  <2>3. CASE ~Valid(bak')  BY <1>1, <1>5, <1>6, <2>1, <2>3
  <2>4. CASE bak' = main /\ UNCHANGED <<main, loose>>
    BY <1>1, <1>5, <1>6, <1>8, <2>1, <2>4 DEF Valid
  <2> QED  BY <2>2, <2>3, <2>4
<1>10. ASSUME hook'[h].pc \in {"second", "second_bak"} PROVE ~Load'.failClosed
  BY <1>1, <1>4, <1>10 DEF Holding
<1>11. ASSUME hook'[h].pc = "second_bak" PROVE Valid(bak') /\ ~bak'.failClosed
  <2>1. Valid(bak) /\ ~bak.failClosed /\ Valid(bak') /\ ~Load.failClosed
    BY <1>1, <1>4, <1>11 DEF Holding
  <2>2. CASE bak' = bak  BY <2>1, <2>2
  <2>3. CASE bak' = main
    <3>1. Valid(main)  BY <2>1, <2>3 DEF Valid
    <3> QED  BY <1>7, <1>8, <2>1, <2>3, <3>1
  <2> QED  BY <2>1, <2>2, <2>3
<1> QED  BY <1>9, <1>10, <1>11 DEF Holding

LEMMA ChecksStep ==
  GateTypeOK /\ GateTypeOK' /\ ChecksHold /\ [GateNext]_gateVars => ChecksHold'
<1> SUFFICES ASSUME GateTypeOK, GateTypeOK', ChecksHold, [GateNext]_gateVars, NEW h \in held'
             PROVE  Holding(h)'
  BY DEF ChecksHold, Holding
<1> USE DEF fileVars, countVars, historyVars
<1>a. LoadFacts  BY LoadCases DEF GateTypeOK
<1>1. CASE Holds /\ UNCHANGED hook
           /\ (bak' = bak \/ ~Valid(bak') \/ (bak' = main /\ UNCHANGED <<main, loose>>))
  BY <1>1, StillHolding
<1>2. ASSUME NEW o \in Operators, OperatorStep(o) PROVE Holding(h)'
  BY <1>1, <1>2 DEF OperatorStep, Begin, Sync, Replace, Backup, Report
<1>3. ASSUME NEW file \in {"main", "bak"}, Rot(file) PROVE Holding(h)'
  <2>1. Holds /\ UNCHANGED hook  BY <1>3 DEF Rot
  <2>2. bak' = bak \/ bak' \in {Corrupt, Misshapen}  BY <1>3 DEF Rot
  <2>3. bak' = bak \/ ~Valid(bak')  BY <2>2, StatesAreValid
  <2> QED  BY <1>1, <2>1, <2>3
<1>4. ASSUME \/ Loosen \/ Tighten \/ \E o \in Operators : OperatorDies(o) PROVE Holding(h)'
  BY <1>1, <1>4 DEF Loosen, Tighten, OperatorDies
<1>5. CASE PowerFails
  <2>1. h \in Hooks /\ hook'[h].pc # "idle"  BY <1>5, HeldBefore DEF PowerFails
  <2> QED  BY <1>5, <2>1 DEF PowerFails, Resting
<1>6. CASE UNCHANGED gateVars
  <2>1. h \in held /\ UNCHANGED <<main, bak, loose, hook>>  BY <1>6 DEF gateVars
  <2>2. Holding(h)  BY <2>1 DEF ChecksHold, Holding
  <2> QED  BY <2>1, <2>2 DEF Holding, Load, LoadBackup, LoadMain, NeedsBackup, Valid
<1>7. ASSUME NEW k \in Hooks, HookStep(k) PROVE Holding(h)'
  <2>1. Holds /\ UNCHANGED <<main, bak, loose>>
    BY <1>7 DEF HookStep, Check, ReadMain, ReadBackup, Defer
  <2>2. /\ h \in Hooks /\ hook'[h].pc # "idle"
        /\ hook[h].pc # "idle" => h \in held
    BY <2>1, HeldBefore
  <2>3. hook \in [Hooks -> HookRecords]  BY DEF GateTypeOK, HookRecords
  <2>4. CASE hook'[h] = hook[h]  BY <2>1, <2>4, StillHolding
  <2>5. h # k => hook'[h] = hook[h]
    <3>1. ASSUME NEW g \in Guards, Check(k, g), h # k PROVE hook'[h] = hook[h]
      BY <3>1, <2>2, <2>3 DEF Check
    <3>2. ASSUME Defer(k), h # k PROVE hook'[h] = hook[h]
      BY <3>2, <2>2, <2>3 DEF Defer
    <3>3. ASSUME ReadMain(k), h # k PROVE hook'[h] = hook[h]
      <4>1. CASE NeedsBackup  BY <3>3, <4>1, <2>2, TurnsToBackup
      <4>2. CASE ~NeedsBackup
        <5>1. Sees(k, hook[k].pc, LoadMain)  BY <3>3, <4>2 DEF ReadMain
        <5> QED  BY <3>3, <5>1, <2>2, SeesCases
      <4> QED  BY <4>1, <4>2
    <3>4. ASSUME ReadBackup(k), h # k PROVE hook'[h] = hook[h]
      <4>1. Sees(k, IF hook[k].pc = "first_bak" THEN "first" ELSE "second", LoadBackup)
        BY <3>4 DEF ReadBackup
      <4> QED  BY <3>4, <4>1, <2>2, SeesCases
    <3> QED  BY <1>7, <3>1, <3>2, <3>3, <3>4 DEF HookStep
  <2>6. ASSUME h = k PROVE Holding(h)'
    <3>a. Load' = Load /\ LoadBackup' = LoadBackup
      BY <2>1 DEF Load, LoadBackup, LoadMain, NeedsBackup, Valid
    <3>b. FailClosed.failClosed = TRUE  BY StatesAreValid
    <3>1. ASSUME NEW g \in Guards, Check(h, g) PROVE Holding(h)'
      <4>1. hook'[h].pc = "first"  BY <3>1, <2>2, <2>3 DEF Check
      <4> QED  BY <4>1 DEF Holding
    <3>2. ASSUME Defer(h) PROVE FALSE
      BY <3>2, <2>2, <2>3 DEF Defer, Resting
    <3>3. ASSUME ReadMain(h) PROVE Holding(h)'
      <4>0. hook[h].pc \in {"first", "second"} /\ h \in held  BY <3>3, <2>2 DEF ReadMain
      <4>1. CASE NeedsBackup
        <5>1. /\ hook[h].pc = "first" => hook'[h].pc = "first_bak"
              /\ hook[h].pc # "first" => hook'[h].pc = "second_bak"
          BY <3>3, <4>1, <2>2, TurnsToBackup
        <5>2. ~loose /\ Load = LoadBackup  BY <4>1, <1>a DEF LoadFacts
        <5>3. CASE hook[h].pc = "first"  BY <2>1, <3>a, <5>1, <5>2, <5>3 DEF Holding
        <5>4. CASE hook[h].pc = "second"
          <6>1. ~Load.failClosed  BY <4>0, <5>4 DEF ChecksHold
          <6>2. Valid(bak) /\ ~bak.failClosed  BY <5>2, <6>1, <3>b, <1>a DEF LoadFacts
          <6>3. hook'[h].pc = "second_bak"  BY <5>1, <5>4
          <6>4. Valid(bak') /\ ~bak'.failClosed  BY <2>1, <6>2
          <6> QED  BY <3>a, <6>1, <6>3, <6>4 DEF Holding
        <5> QED  BY <4>0, <5>3, <5>4
      <4>2. CASE ~NeedsBackup
        <5>1. Sees(h, hook[h].pc, LoadMain)  BY <3>3, <4>2 DEF ReadMain
        <5>2. Load = LoadMain  BY <4>2, <1>a DEF LoadFacts
        <5>3. CASE hook[h].pc = "first"
          <6>1. hook'[h].pc = "second" /\ ~Load.failClosed
            BY <2>2, <5>1, <5>2, <5>3, SeesCases
          <6> QED  BY <3>a, <6>1 DEF Holding
        <5>4. CASE hook[h].pc = "second"
          <6>1. hook'[h].pc = "deferred"  BY <2>2, <5>1, <5>4, SeesCases
          <6> QED  BY <6>1 DEF Holding
        <5> QED  BY <4>0, <5>3, <5>4
      <4> QED  BY <4>1, <4>2
    <3>4. ASSUME ReadBackup(h) PROVE Holding(h)'
      <4>0. hook[h].pc \in {"first_bak", "second_bak"} /\ h \in held
        BY <3>4, <2>2 DEF ReadBackup
      <4>1. Sees(h, IF hook[h].pc = "first_bak" THEN "first" ELSE "second", LoadBackup)
        BY <3>4 DEF ReadBackup
      <4>2. CASE hook[h].pc = "first_bak"
        <5>1. Sees(h, "first", LoadBackup)  BY <4>1, <4>2
        <5>2. hook'[h].pc = "second" /\ ~LoadBackup.failClosed  BY <2>2, <5>1, SeesCases
        <5>3. ~Load.failClosed  BY <4>0, <4>2, <5>2 DEF ChecksHold
        <5> QED  BY <3>a, <5>2, <5>3 DEF Holding
      <4>3. CASE hook[h].pc = "second_bak"
        <5>1. Sees(h, "second", LoadBackup)  BY <4>1, <4>3
        <5>2. hook'[h].pc = "deferred"  BY <2>2, <5>1, SeesCases
        <5> QED  BY <5>2 DEF Holding
      <4> QED  BY <4>0, <4>2, <4>3
    <3> QED  BY <1>7, <2>6, <3>1, <3>2, <3>3, <3>4 DEF HookStep
  <2> QED  BY <2>4, <2>5, <2>6
<1> QED
  BY <1>2, <1>3, <1>4, <1>5, <1>6, <1>7 DEF GateNext, GoesWrong

-----------------------------------------------------------------------------
(* The theorems.                                                           *)

LEMMA Invariant == GateSpec => []GInv
<1>1. GateInit => GInv
  <2> SUFFICES ASSUME GateInit PROVE GInv  OBVIOUS
  <2>1. GateTypeOK /\ Kept  BY TypeInit, KeepInit
  <2>2. Locked  BY DEF GateInit, Locked, Idle
  <2>3. FilesAreWhole  BY DEF GateInit, FilesAreWhole
  <2>4. ChecksHold  BY DEF GateInit, ChecksHold
  <2> QED  BY <2>1, <2>2, <2>3, <2>4 DEF GInv, Kept
<1>2. GInv /\ [GateNext]_gateVars => GInv'
  BY TypeStep, LockedStep, WholeStep, KeepStep, ChecksStep DEF GInv, Kept
<1> QED  BY <1>1, <1>2, PTL DEF GateSpec

(* Every variable of the gate keeps its kind (guards/gate.py).             *)
THEOREM GateTypeCorrect == GateSpec => []GateTypeOK
<1>1. GInv => GateTypeOK  BY DEF GInv
<1> QED  BY <1>1, Invariant, PTL

(* However many commands, deaths between any two writes and power failures *)
(* there are, no name ever holds a file the reader refuses, unless one has *)
(* rotted; and only the holder of the lock is under way (_write_state).    *)
THEOREM OwnWritesStayWholeHolds == GateSpec => []OwnWritesStayWhole
<1>1. GInv => OwnWritesStayWhole
  BY DEF GInv, OwnWritesStayWhole, FilesAreWhole, Locked
<1> QED  BY <1>1, Invariant, PTL

(* No hook of an armed guard defers to the harness, whatever else reads,   *)
(* writes, rots or fails meanwhile, but for a check during which the state *)
(* itself turned against it (load_state, _dormant_defer).                  *)
THEOREM ArmedGuardsAnswerHolds == GateSpec => ArmedGuardsAnswer
<1> DEFINE Answers ==
      \A h \in Hooks :
        hook[h].pc # "deferred" /\ hook'[h].pc = "deferred"
        => ~(h \in held /\ hook[h].guard \in armed)
<1>1. GInv /\ [GateNext]_gateVars => [Answers]_gateVars
  <2> SUFFICES ASSUME GInv, GateNext, NEW h \in Hooks,
                      hook[h].pc # "deferred", hook'[h].pc = "deferred",
                      h \in held, hook[h].guard \in armed
               PROVE  FALSE
    OBVIOUS
  <2> USE DEF fileVars, countVars, historyVars
  <2>a. LoadFacts /\ hook \in [Hooks -> HookRecords] /\ GateTypeOK
    BY LoadCases DEF GInv, GateTypeOK, HookRecords
  <2>b. Keeps(Load, armed) /\ Valid(Load)
    BY <2>a, LoadKeeps, StatesAreValid DEF GInv, LoadFacts
  <2>1. ASSUME NEW k \in Hooks, Defer(k) \/ \E g \in Guards : Check(k, g) PROVE FALSE
    BY <2>1, <2>a DEF Check, Defer, Resting
  <2>2. ASSUME NEW k \in Hooks, ReadMain(k) PROVE FALSE
    <3>1. CASE NeedsBackup  BY <2>2, <2>a, <3>1, TurnsToBackup
    <3>2. CASE ~NeedsBackup
      <4>1. Sees(k, hook[k].pc, LoadMain) /\ hook[k].pc \in {"first", "second"}
        BY <2>2, <3>2 DEF ReadMain
      <4>2. k = h /\ hook[h].pc = "second" /\ hook[h].guard \notin LoadMain.on
        BY <4>1, <2>a, SeesCases
      <4>3. Load = LoadMain  BY <2>a, <3>2 DEF LoadFacts
      <4>4. ~Load.failClosed  BY <4>2 DEF GInv, ChecksHold
      <4> QED  BY <2>b, <4>2, <4>3, <4>4 DEF Keeps
    <3> QED  BY <3>1, <3>2
  <2>3. ASSUME NEW k \in Hooks, ReadBackup(k) PROVE FALSE
    <3>1. /\ Sees(k, IF hook[k].pc = "first_bak" THEN "first" ELSE "second", LoadBackup)
          /\ hook[k].pc \in {"first_bak", "second_bak"}
      BY <2>3 DEF ReadBackup
    <3>2. k = h  BY <3>1, <2>a, SeesCases
    <3>3. CASE hook[h].pc = "first_bak"
      <4>1. Sees(h, "first", LoadBackup)  BY <3>1, <3>2, <3>3
      <4> QED  BY <4>1, <2>a, SeesCases
    <3>4. CASE hook[h].pc = "second_bak"
      <4>1. Sees(h, "second", LoadBackup)  BY <3>1, <3>2, <3>4
      <4>2. hook[h].guard \notin LoadBackup.on  BY <4>1, <2>a, SeesCases
      <4>3. Valid(bak) /\ ~bak.failClosed  BY <3>4 DEF GInv, ChecksHold
      <4>4. Keeps(bak, armed) /\ LoadBackup = bak
        BY <2>a, <4>3 DEF GInv, FilesKeep, LoadFacts
      <4> QED  BY <4>2, <4>3, <4>4 DEF Keeps
    <3> QED  BY <3>1, <3>2, <3>3, <3>4
  <2>4. CASE PowerFails  BY <2>4 DEF PowerFails, Resting
  <2>5. hook' # hook  OBVIOUS
  <2> QED
    BY <2>1, <2>2, <2>3, <2>4, <2>5
    DEF GateNext, OperatorStep, Begin, Sync, Replace, Backup, Report, HookStep, GoesWrong, Rot,
        Loosen, Tighten, OperatorDies
<1> QED  BY <1>1, Invariant, PTL DEF GateSpec, ArmedGuardsAnswer
=============================================================================
