--------------------------- MODULE PolicyKernel ---------------------------
(***************************************************************************)
(* The policy engine with the state it decides over: spent_this_session,   *)
(* the audit entries of executed spends, the kill switch and autorank's    *)
(* downgrade table.  The caller is the one the engine's comments ask for:  *)
(* it passes all of it to decide(), books what is autonomous in both       *)
(* accounts and reports the success to autorank.                           *)
(* No caller in the repository does all of that yet: the CLI (SpendCLI)    *)
(* passes neither ledger nor agent, and what interleaves between its       *)
(* statements is modelled there.  Here a request is one step.  The clock   *)
(* runs in units of which Day make 24 hours.                               *)
(***************************************************************************)
EXTENDS PolicyDecision

CONSTANTS
  Agents,
  Policy,       \* the policy in force
  Asked,        \* the requests agents make
  Day,          \* WINDOW_SECONDS
  DowngradeTTL, \* DOWNGRADE_TTL_SECONDS
  MaxTime       \* bound on the clock

ASSUME PolicyAssumption == Policy \in Policies
ASSUME AskedAssumption  == Asked \subseteq Requests
ASSUME TimesAssumption  == Day \in Nat /\ DowngradeTTL \in Nat /\ MaxTime \in Nat

VARIABLES
  now,
  killed,
  spent,      \* spent_this_session
  ledger,     \* the "executed" audit entries: their sum up to each time
  moved,      \* history: the money that moved under each band up to each time
  downgrade,  \* _downgrade_table: [band, until], or None
  last        \* history: the last decision with the band it was made under, and
              \* what they were without autorank

vars == <<now, killed, spent, ledger, moved, downgrade, last>>

Times      == 0 .. MaxTime
Downgrades == [band : Bands, until : Nat]

Init ==
  /\ now = 0 /\ killed = FALSE /\ spent = 0
  /\ ledger = [t \in Times |-> 0]
  /\ moved = [b \in Bands |-> [t \in Times |-> 0]]
  /\ downgrade = [a \in Agents |-> None]
  /\ last = [verdict |-> "denied", plain |-> "denied", band |-> 0, routed |-> 0]

\* Of a running sum, what the 24 hours up to t add to it.
Before(sum, t) == IF t - Day <= 0 THEN 0 ELSE sum[t - Day - 1]
Within(sum, t) == sum[t] - Before(sum, t)
Add(sum, n)    == [t \in Times |-> IF t < now THEN sum[t] ELSE sum[t] + n]

\* _sum_verified_24h: whatever band it was executed under.
SpentToday == Within(ledger, now)

\* The agent's entry of the downgrade table, unless it has expired.
InForce(a) ==
  IF downgrade[a] # None /\ now <= downgrade[a].until THEN downgrade[a].band ELSE None

Decide(req, low) ==
  Verdict(Policy, req, SessionCap - spent, killed, SpentToday, low)

\* record_spend and the audit entry.
Book(band, amount) ==
  /\ spent' = spent + amount
  /\ ledger' = Add(ledger, amount)
  /\ moved' = [moved EXCEPT ![band] = Add(@, Magnitude(amount))]

\* record_successful_request.
\* Mutant: the TTL is subtracted.
RememberBackdated(a, band) ==
  LET after == Policy.bands[band].after IN
  downgrade' = IF after = None THEN downgrade
               ELSE [downgrade EXCEPT ![a] = [band |-> after, until |-> now - DowngradeTTL]]
Remember(a, band) ==
  LET after == Policy.bands[band].after IN
  downgrade' = IF after = None THEN downgrade
               ELSE [downgrade EXCEPT ![a] = [band |-> after, until |-> now + DowngradeTTL]]

\* One request.
Ask(a, req) ==
  LET effective == EffectiveBand(Policy, req, InForce(a))
      verdict   == Decide(req, InForce(a))
  IN /\ last' = [verdict |-> verdict, plain |-> Decide(req, None),
                 band |-> effective, routed |-> RoutedBand(Policy, req)]
     /\ IF verdict = "autonomous"
        THEN Book(effective, req.amount) /\ Remember(a, effective)
        ELSE UNCHANGED <<spent, ledger, moved, downgrade>>
     /\ UNCHANGED <<now, killed>>

Kill   == killed' = TRUE  /\ UNCHANGED <<now, spent, ledger, moved, downgrade, last>>
Resume == killed' = FALSE /\ UNCHANGED <<now, spent, ledger, moved, downgrade, last>>

Tick == /\ now < MaxTime /\ now' = now + 1
        /\ UNCHANGED <<killed, spent, ledger, moved, downgrade, last>>

Next == \/ \E a \in Agents, req \in Asked : Ask(a, req)
        \/ Kill \/ Resume \/ Tick

Spec == Init /\ [][Next]_vars

-----------------------------------------------------------------------------

TypeOK ==
  /\ now \in Times /\ killed \in BOOLEAN /\ spent \in Int
  /\ ledger \in [Times -> Int] /\ moved \in [Bands -> [Times -> Nat]]
  /\ downgrade \in [Agents -> Option(Downgrades)]
  /\ last \in [verdict : Verdicts, plain : Verdicts, band : Bands, routed : Bands]

\* A session executes no more by itself than its budget, whatever bands,
\* downgrades and amounts its requests go through.
BudgetKept == spent <= SessionCap

\* daily_envelope is a rolling 24-hour cap per band: in no 24 hours does more
\* money move under a band than its envelope, also when requests of other
\* bands and downgraded ones come in between.
EnvelopeKept ==
  \A b \in Bands, t \in Times :
    Policy.bands[b].envelope # None =>
      Within(moved[b], t) <= Policy.bands[b].envelope

\* What the envelope is kept for: charges only.
NoRefunds == \A req \in Asked : req.amount >= 0

\* A band that allows no more than another.
Stricter(c, d) ==
  /\ d.approval => c.approval
  /\ d.cap # None => c.cap # None /\ c.cap <= d.cap
  /\ d.envelope # None => c.envelope # None /\ c.envelope <= d.envelope

\* A policy whose bands grow with the ladder.  (The shipped preset is none: its
\* L3 asks for an approval that L2 does not ask for.)
Graded == \A b, c \in Bands : c < b => Stricter(Policy.bands[c], Policy.bands[b])

\* Autorank adds no authority by itself, whatever an agent's earlier tasks left
\* in the table: where a downgrade makes autonomous what needs an operator
\* without it, the band it led to is lower on the ladder, and it is the policy
\* that does not make that band the stricter of the two.  (apply_autorank takes
\* "lower on the ladder" for "stricter" under every policy.)
WideningIsThePolicys ==
  last.verdict = "autonomous" /\ last.plain # "autonomous" =>
    /\ last.band < last.routed
    /\ ~Stricter(Policy.bands[last.band], Policy.bands[last.routed])
===========================================================================
