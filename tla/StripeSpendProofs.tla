------------------------- MODULE StripeSpendProofs -------------------------
(***************************************************************************)
(* Proofs about StripeSpend, for any number of agents and operators, any   *)
(* caps, any requests (NaN among their amounts) and any failures.  Only    *)
(* that no request is charged twice needs the operator to be the only one  *)
(* at work.                                                                *)
(***************************************************************************)
EXTENDS StripeSpend, FiniteSetTheorems, TLAPS

\* One `approve.py` at a time: it reads the pending record and the code, and
\* unlinks both, in steps of its own.
OneOperator == \A o, p \in Operators : o = p

-----------------------------------------------------------------------------
(* The inductive invariants.                                               *)

Steps == AgentSteps \cup OperSteps \cup PaySteps
Runs  == [pc : Steps, id : Ids \cup {None}, seen : Nat \cup {NaN}, pi : Nat]

\* Every request named anywhere was made, every payment named was charged, and
\* every code typed was sent.
Approving == {"expired", "check", "stale", "accept", "act"}

Known ==
  /\ \A p \in Procs : ~At(p, "idle") => proc[p].id \in DOMAIN req
  /\ pending # None => pending.id \in DOMAIN req
  /\ code # None => code.id \in DOMAIN req
  /\ sent \subseteq DOMAIN req
  /\ \A k \in DOMAIN intents : intents[k] \in DOMAIN req
  /\ \A p \in Procs : ~At(p, "idle") => proc[p].pi \in DOMAIN intents \cup {0}
  /\ \A p \in Procs : At(p, "log") => proc[p].pi # 0
  /\ \A o \in Operators : proc[o].pc \in Approving => proc[o].seen \in sent

\* While there is no authority.json, no request has come past reading it;
\* earn.py never does, and it has nothing to release.
NeedsNoFile(p) ==
  \/ proc[p].pc \in {"idle", "vet", "load", "create"}
  \/ proc[p].pc \in {"charge", "retry", "log"} /\ Request(p).script = "earn"

FileThere ==
  /\ spent = None => pending = None /\ \A p \in Procs : NeedsNoFile(p)
  /\ \A p \in Procs : At(p, "release") => Request(p).script # "earn"

\* What a run has reserved and not charged yet, nor given back.
Owed(p) ==
  IF /\ proc[p].pc \in {"charge", "retry", "release"}
     /\ proc[p].pi = 0 /\ Request(p).script # "earn"
  THEN Amount(p) ELSE 0
Debts == [p \in Procs |-> Owed(p)]
Lost  == unknown + forgotten + wiped

\* What is charged or still to be is in the total, but for what it has lost;
\* who is about to save a new total holds the lock and counts itself in.
Booked ==
  /\ IsFiniteSet(UnitsOf(Spends)) /\ IsFiniteSet(UnitsOf(Debts))
  /\ Charged + Cardinality(UnitsOf(Debts)) <= Total + Lost
  /\ Total <= SessionCap
Saving ==
  \A p \in Procs : At(p, "save") =>
    /\ lock = p
    /\ proc[p].seen # NaN => Total + Amount(p) <= proc[p].seen /\ proc[p].seen <= SessionCap

\* A request is in one place: with the agent that made it, pending, with the
\* operator who read it, or charged.
Vetting   == {"vet", "load", "create", "judge", "look", "write"}
Carrying  == {"refund", "refunding", "logging"} \cup PaySteps

Paid(i) == \E k \in DOMAIN intents : intents[k] = i
Unpaid(p) ==
  \/ proc[p].pc \in Vetting \cup Approving \cup {"reserve", "save"}
  \/ proc[p].pc \in {"charge", "retry"} /\ proc[p].pi = 0

ChargedOnce == \A k, l \in DOMAIN intents : intents[k] = intents[l] => k = l

OwnRequests ==
  \A a, b \in Agents : a # b /\ ~At(a, "idle") /\ ~At(b, "idle") => proc[a].id # proc[b].id

OnePlace ==
  /\ \A a \in Agents : proc[a].pc \notin {"idle", "send"} =>
       /\ pending # None => pending.id # proc[a].id
       /\ \A o \in Operators : ~At(o, "idle") => proc[o].id # proc[a].id
  /\ \A o \in Operators : proc[o].pc \in Carrying =>
       (pending # None => pending.id # proc[o].id)
  /\ pending # None => ~Paid(pending.id)
  /\ \A p \in Procs : Unpaid(p) => ~Paid(proc[p].id)

\* A refund that was vetted names a payment the log knows.
OfCharge(id) == req[id].script = "refund" => req[id].pi \in charges

Refundable ==
  /\ pending # None => OfCharge(pending.id)
  /\ \A p \in Procs : proc[p].pc \notin {"idle", "vet"} => OfCharge(proc[p].id)
  /\ \A p \in Procs : proc[p].pc \in {"refund", "refunding", "logging"} =>
       Request(p).script = "refund"

\* No refund goes beyond its payment, as the log counts it; the log counts them
\* all but those that left no record and the one being recorded.  Of a payment
\* that is not crossed one refund is under way at most.
AtRefund(o, pi)  == proc[o].pc \in {"refunding", "logging"} /\ Request(o).pi = pi
Uncounted(o, pi) == At(o, "logging") /\ Request(o).pi = pi

Counted(i) ==
  /\ i \notin DOMAIN intents => refunded[i] = 0 /\ refunds[i] = 0
  /\ i \in DOMAIN intents => refunds[i] <= Worth(intents[i])
  /\ \A o \in Operators : AtRefund(o, i) => refunds[i] + Amount(o) <= Worth(intents[i])
  /\ \A o, q \in Operators : AtRefund(o, i) /\ AtRefund(q, i) => o = q
  /\ \/ refunded[i] <= refunds[i] + unlogged[i]
     \/ \E o \in Operators :
          Uncounted(o, i) /\ refunded[i] <= refunds[i] + unlogged[i] + Amount(o)

RefundsCounted == \A i \in Payments \ crossed : Counted(i)

\* A code is in one place: with the agent that will send it, in its file, typed
\* by the operator, or used.
Used(i) == \E k \in DOMAIN used : used[k] = i

Holds(o, i) == proc[o].pc \in {"accept", "act"} /\ proc[o].seen = i

CodesInOnePlace ==
  /\ \A k \in DOMAIN used : used[k] \in sent
  /\ code # None /\ code.id \notin shared => ~Used(code.id)
  /\ \A a \in Agents : ~At(a, "idle") =>
       proc[a].id \notin sent /\ (code # None => code.id # proc[a].id)
  /\ \A o \in Operators, i \in Ids \ shared : Holds(o, i) =>
       /\ ~Used(i)
       /\ At(o, "act") /\ code # None => code.id # i
       /\ \A q \in Operators : Holds(q, i) => q = o

-----------------------------------------------------------------------------
(* Sums as cardinalities.                                                  *)

LEMMA UnitsOfOne ==
  ASSUME NEW x, NEW n \in Nat
  PROVE  IsFiniteSet({x} \X (1 .. n)) /\ Cardinality({x} \X (1 .. n)) = n
<1> DEFINE own == {x} \X (1 .. n)
<1>1. IsFiniteSet(1 .. n) /\ Cardinality(1 .. n) = n
  BY FS_Interval
<1>2. IsFiniteSet({x}) /\ Cardinality({x}) = 1
  BY FS_Singleton
<1>3. IsFiniteSet(own) /\ Cardinality(own) = Cardinality({x}) * Cardinality(1 .. n)
  BY <1>1, <1>2, FS_Product, Zenon
<1>4. Cardinality(own) = 1 * n
  BY <1>1, <1>2, <1>3, Zenon
<1> HIDE DEF own
<1>5. IsFiniteSet(own) /\ Cardinality(own) = n
  BY <1>3, <1>4
<1> QED
  BY <1>5 DEF own

LEMMA UnitsOfDisjoint ==
  ASSUME NEW rest, IsFiniteSet(rest), NEW own, IsFiniteSet(own), rest \cap own = {}
  PROVE  /\ IsFiniteSet(rest \cup own)
         /\ Cardinality(rest \cup own) = Cardinality(rest) + Cardinality(own)
<1>1. Cardinality({}) = 0 /\ Cardinality(rest) \in Nat /\ Cardinality(own) \in Nat
  BY FS_EmptySet, FS_CardinalityType
<1>2. IsFiniteSet(rest \cup own)
      /\ Cardinality(rest \cup own)
           = Cardinality(rest) + Cardinality(own) - Cardinality(rest \cap own)
  BY FS_Union
<1>3. Cardinality(rest \cap own) = 0
  BY <1>1, Zenon
<1>4. Cardinality(rest \cup own) = Cardinality(rest) + Cardinality(own) - 0
  BY <1>2, <1>3, Zenon
<1> QED
  BY <1>1, <1>2, <1>4

\* One more amount in a table.
LEMMA UnitsAdded ==
  ASSUME NEW f, NEW g, NEW x, x \notin DOMAIN f, DOMAIN g = DOMAIN f \cup {x}, g[x] \in Nat,
         \A y \in DOMAIN f : g[y] = f[y],
         IsFiniteSet(UnitsOf(f))
  PROVE  /\ IsFiniteSet(UnitsOf(g))
         /\ Cardinality(UnitsOf(g)) = Cardinality(UnitsOf(f)) + g[x]
<1> DEFINE own == {x} \X (1 .. g[x])
<1>1. UnitsOf(g) = UnitsOf(f) \cup own
  BY DEF UnitsOf
<1>2. UnitsOf(f) \cap own = {}
  BY DEF UnitsOf
<1>3. IsFiniteSet(own) /\ Cardinality(own) = g[x]
  BY UnitsOfOne
<1> HIDE DEF own
<1>4. /\ IsFiniteSet(UnitsOf(f) \cup own)
      /\ Cardinality(UnitsOf(f) \cup own) = Cardinality(UnitsOf(f)) + Cardinality(own)
  BY <1>2, <1>3, UnitsOfDisjoint
<1> QED
  BY <1>1, <1>3, <1>4

\* One amount changed.
LEMMA UnitsChanged ==
  ASSUME NEW f, NEW g, NEW x \in DOMAIN f, DOMAIN g = DOMAIN f, f[x] \in Nat, g[x] \in Nat,
         \A y \in DOMAIN f \ {x} : g[y] = f[y],
         IsFiniteSet(UnitsOf(f))
  PROVE  /\ IsFiniteSet(UnitsOf(g))
         /\ Cardinality(UnitsOf(g)) + f[x] = Cardinality(UnitsOf(f)) + g[x]
<1> DEFINE h == [y \in DOMAIN f \ {x} |-> f[y]]
<1>1. DOMAIN h = DOMAIN f \ {x} /\ \A y \in DOMAIN h : h[y] = f[y] /\ h[y] = g[y]
  OBVIOUS
<1> HIDE DEF h
<1>2. UnitsOf(h) \subseteq UnitsOf(f)
  BY <1>1 DEF UnitsOf
<1>3. IsFiniteSet(UnitsOf(h))
  BY <1>2, FS_Subset
<1>4. /\ IsFiniteSet(UnitsOf(f))
      /\ Cardinality(UnitsOf(f)) = Cardinality(UnitsOf(h)) + f[x]
  BY <1>1, <1>3, UnitsAdded
<1>5. /\ IsFiniteSet(UnitsOf(g))
      /\ Cardinality(UnitsOf(g)) = Cardinality(UnitsOf(h)) + g[x]
  BY <1>1, <1>3, UnitsAdded
<1>6. Cardinality(UnitsOf(h)) \in Nat
  BY <1>3, FS_CardinalityType
<1> QED
  BY <1>4, <1>5, <1>6

-----------------------------------------------------------------------------
(* Processes and requests.                                                 *)

\* A step of p makes this of its process, and of no other's.
Turns(p, step, id, seen, pi) ==
  /\ proc' \in [Procs -> Runs]
  /\ proc'[p].pc = step /\ proc'[p].id = id /\ proc'[p].seen = seen /\ proc'[p].pi = pi
  /\ \A q \in Procs \ {p} : proc'[q] = proc[q]
Stays(p, step) == Turns(p, step, proc[p].id, proc[p].seen, proc[p].pi)
Leaves(p) == Turns(p, "idle", None, 0, 0)

LEMMA Turn ==
  ASSUME proc \in [Procs -> Runs], NEW p \in Procs, NEW run \in Runs,
         proc' = [proc EXCEPT ![p] = run]
  PROVE  Turns(p, run.pc, run.id, run.seen, run.pi)
BY DEF Turns

LEMMA Moves ==
  ASSUME proc \in [Procs -> Runs]
  PROVE  /\ \A p \in Procs, step \in Steps : GoTo(p, step) => Stays(p, step)
         /\ \A p \in Procs : Exit(p) => Leaves(p)
<1>1. ASSUME NEW p \in Procs, NEW step \in Steps, GoTo(p, step) PROVE Stays(p, step)
  <2> DEFINE run == [proc[p] EXCEPT !.pc = step]
  <2>1. run \in Runs /\ run.pc = step /\ run.id = proc[p].id /\ run.seen = proc[p].seen
        /\ run.pi = proc[p].pi
    BY <1>1 DEF Runs
  <2>2. proc' = [proc EXCEPT ![p] = run]
    BY <1>1 DEF GoTo
  <2> HIDE DEF run
  <2> QED
    BY <2>1, <2>2, Turn DEF Stays
<1>2. ASSUME NEW p \in Procs, Exit(p) PROVE Leaves(p)
  <2>1. Idle \in Runs
    BY DEF Idle, Runs, Steps, AgentSteps
  <2> QED
    BY <1>2, <2>1, Turn DEF Exit, Leaves, Idle
<1> QED
  BY <1>1, <1>2

LEMMA AddedAt ==
  \A i : \A f \in [Payments -> Nat], m \in Nat : [f EXCEPT ![i] = @ + m] \in [Payments -> Nat]
<1> SUFFICES ASSUME NEW f \in [Payments -> Nat], NEW m \in Nat, NEW i
             PROVE  [f EXCEPT ![i] = @ + m] \in [Payments -> Nat]
  OBVIOUS
<1>1. CASE i \in Payments
  BY <1>1
<1>2. CASE i \notin Payments
  BY <1>2
<1> QED
  BY <1>1, <1>2

LEMMA RequestTypes ==
  ASSUME TypeOK, Known
  PROVE  /\ proc \in [Procs -> Runs]
         /\ DOMAIN req = 1 .. Len(req) /\ DOMAIN req \subseteq Ids
         /\ \A i \in DOMAIN req : req[i] \in Asked
         /\ \A i \in DOMAIN req : req[i].amount \in Nat \cup {NaN} /\ Worth(i) \in Nat
         /\ \A i \in DOMAIN req : req[i].pi \in Nat /\ req[i].pi \in Payments
         /\ \A i \in DOMAIN req : req[i].script \in Scripts
         /\ \A p \in Procs : ~At(p, "idle") => proc[p].id \in DOMAIN req /\ Amount(p) \in Nat
<1>1. proc \in [Procs -> Runs] /\ req \in Seq(Asked) /\ Len(req) <= MaxRequests
  BY DEF TypeOK, Runs, Steps
<1>2. DOMAIN req = 1 .. Len(req) /\ Len(req) \in Nat
  BY <1>1
<1>3. DOMAIN req \subseteq Ids
  BY <1>1, <1>2, BoundAssumption DEF Ids
<1>4. \A i \in DOMAIN req : req[i] \in Asked
  BY <1>1
<1>5. \A i \in DOMAIN req : /\ req[i].amount \in Nat \cup {NaN} /\ Worth(i) \in Nat
                             /\ req[i].pi \in Nat /\ req[i].pi \in Payments
                             /\ req[i].script \in Scripts
  BY <1>4, AskedAssumption DEF Worth, Payments
<1>6. \A p \in Procs : ~At(p, "idle") => proc[p].id \in DOMAIN req /\ Amount(p) \in Nat
  BY <1>5 DEF Known, Amount
<1> QED
  BY <1>1, <1>2, <1>3, <1>4, <1>5, <1>6

\* A new request, which nothing named before.
LEMMA NewRequest ==
  ASSUME TypeOK, NEW a \in Agents, NEW r \in Asked, Begin(a, r)
  PROVE  /\ DOMAIN req' = DOMAIN req \cup {Len(req) + 1} /\ Len(req) + 1 \notin DOMAIN req
         /\ Len(req) + 1 \in Ids /\ req'[Len(req) + 1] = r
         /\ \A i \in DOMAIN req : req'[i] = req[i]
         /\ req' \in Seq(Asked) /\ Len(req') <= MaxRequests
<1>1. req \in Seq(Asked) /\ Len(req) < MaxRequests /\ req' = Append(req, r)
  BY DEF TypeOK, Begin
<1>2. Len(req) \in Nat /\ DOMAIN req = 1 .. Len(req) /\ Len(req') = Len(req) + 1
      /\ DOMAIN req' = 1 .. Len(req')
  BY <1>1
<1> QED
  BY <1>1, <1>2, BoundAssumption DEF Ids

\* What was asked stays asked.
LEMMA RequestsStay ==
  ASSUME TypeOK, [Next]_vars
  PROVE  \A i \in DOMAIN req : i \in DOMAIN req' /\ req'[i] = req[i]
<1>1. ASSUME NEW a \in Agents, NEW r \in Asked, Begin(a, r)
      PROVE  \A i \in DOMAIN req : i \in DOMAIN req' /\ req'[i] = req[i]
  BY <1>1, NewRequest
<1>2. CASE UNCHANGED req
  BY <1>2
<1> QED
  BY <1>1, <1>2
  DEF Next, vars, AgentStep, Ask, Vet, Load, Create, Judge, LookPending, WritePending, SendCode,
      OperatorStep, Read, ReadPending, DropExpired, CheckCode, DropCode, Act, VetRefund, Refund,
      LogRefund, Pay, Reserve, Save, Charge, Release, Log, Die, Reset, Toggle, Tick

\* What load_state finds.
Seen == IF spent = None THEN 0 ELSE spent

\* The first step of a script.
Begun(a, r, step) ==
  /\ Turns(a, step, Len(req) + 1, 0, 0)
  /\ step = "charge" <=> r.script = "earn"
  /\ step = "vet" <=> r.script = "refund"

LEMMA Turning ==
  ASSUME TypeOK, Known, FileThere
  PROVE
    /\ \A a \in Agents, r \in Asked :
         Begin(a, r) => Leaves(a) \/ \E step \in {"vet", "load", "charge"} : Begun(a, r, step)
    /\ \A a \in Agents : Load(a) =>
         Turns(a, IF spent = None THEN "create" ELSE "judge", proc[a].id, Seen, proc[a].pi)
    /\ \A o \in Operators, typed \in sent : ReadPending(o, typed) =>
         Turns(o, IF Expired(pending) THEN "expired" ELSE "check", pending.id, typed, 0)
    /\ \A p \in Procs : Reserve(p) =>
         Leaves(p) \/ Turns(p, "save", proc[p].id, Plus(spent, Asks(p)), proc[p].pi)
    /\ \A p \in Procs : Charge(p) =>
         \/ /\ Land(p)
            /\ \E step \in {"log", NextTry(p)} :
                 Turns(p, step, proc[p].id, proc[p].seen, Landed(p))
         \/ UNCHANGED intents /\ Stays(p, NextTry(p))
<1>0. proc \in [Procs -> Runs] /\ Seen \in Nat \cup {NaN} /\ sent \subseteq Ids
      /\ Agents \subseteq Procs /\ Operators \subseteq Procs
  BY RequestTypes DEF TypeOK, Seen, Procs
<1>1. ASSUME NEW a \in Agents, NEW r \in Asked, Begin(a, r)
      PROVE  Leaves(a) \/ \E step \in {"vet", "load", "charge"} : Begun(a, r, step)
  <2>1. CASE killed /\ r.script # "spend_v2"
    <3>1. Exit(a)
      BY <1>1, <2>1 DEF Begin, Exit
    <3> QED
      BY <1>0, <3>1, Moves
  <2>2. CASE ~(killed /\ r.script # "spend_v2")
    <3> DEFINE step == CASE r.script = "earn"   -> "charge"
                         [] r.script = "refund" -> "vet"
                         [] OTHER               -> "load"
               run == [Idle EXCEPT !.id = Len(req) + 1, !.pc = step]
    <3>1. step \in {"vet", "load", "charge"} /\ (step = "charge" <=> r.script = "earn")
          /\ (step = "vet" <=> r.script = "refund")
      OBVIOUS
    <3>2. proc' = [proc EXCEPT ![a] = run]
      BY <1>1, <2>2 DEF Begin
    <3> HIDE DEF step
    <3>3. run \in Runs /\ run.pc = step /\ run.id = Len(req) + 1 /\ run.seen = 0 /\ run.pi = 0
      BY <1>1, <3>1, NewRequest DEF Runs, Idle, Steps, AgentSteps, PaySteps
    <3> HIDE DEF run
    <3>4. Turns(a, step, Len(req) + 1, 0, 0)
      BY <1>0, <3>2, <3>3, Turn
    <3> QED
      BY <3>1, <3>4 DEF Begun
  <2> QED
    BY <2>1, <2>2
<1>2. ASSUME NEW a \in Agents, Load(a)
      PROVE  Turns(a, IF spent = None THEN "create" ELSE "judge", proc[a].id, Seen, proc[a].pi)
  <2> DEFINE step == IF spent = None THEN "create" ELSE "judge"
             run == [proc[a] EXCEPT !.pc = step, !.seen = Seen]
  <2>1. proc' = [proc EXCEPT ![a] = run]
    BY <1>2 DEF Load, Seen
  <2>2. step \in Steps
    BY DEF Steps, AgentSteps
  <2> HIDE DEF step
  <2>3. run \in Runs /\ run.pc = step /\ run.id = proc[a].id /\ run.seen = Seen
        /\ run.pi = proc[a].pi
    BY <1>0, <2>2 DEF Runs
  <2> HIDE DEF run
  <2>4. Turns(a, step, proc[a].id, Seen, proc[a].pi)
    BY <1>0, <2>1, <2>3, Turn
  <2> QED
    BY <2>4 DEF step
<1>3. ASSUME NEW o \in Operators, NEW typed \in sent, ReadPending(o, typed)
      PROVE  Turns(o, IF Expired(pending) THEN "expired" ELSE "check", pending.id, typed, 0)
  <2> DEFINE step == IF Expired(pending) THEN "expired" ELSE "check"
             run == [Idle EXCEPT !.id = pending.id, !.seen = typed, !.pc = step]
  <2>1. proc' = [proc EXCEPT ![o] = run]
    BY <1>3 DEF ReadPending
  <2>2. step \in Steps
    BY DEF Steps, OperSteps
  <2>3. pending.id \in Ids /\ typed \in Nat
    <3>1. pending \in Stamped
      BY <1>3 DEF ReadPending, TypeOK
    <3> QED
      BY <1>0, <3>1 DEF Stamped, Ids
  <2> HIDE DEF step
  <2>4. run \in Runs /\ run.pc = step /\ run.id = pending.id /\ run.seen = typed /\ run.pi = 0
    BY <2>2, <2>3 DEF Runs, Idle
  <2> HIDE DEF run
  <2>5. Turns(o, step, pending.id, typed, 0)
    BY <1>0, <2>1, <2>4, Turn
  <2> QED
    BY <2>5 DEF step
<1>4. ASSUME NEW p \in Procs, Reserve(p)
      PROVE  Leaves(p) \/ Turns(p, "save", proc[p].id, Plus(spent, Asks(p)), proc[p].pi)
  <2>1. spent \in Nat \cup {NaN}
    BY <1>4 DEF Reserve, FileThere, NeedsNoFile, At, TypeOK
  <2>2. Asks(p) \in Nat \cup {NaN}
    BY <1>4, RequestTypes DEF Reserve, At, Asks, Request
  <2>3. CASE Exit(p)
    BY <1>0, <2>3, Moves
  <2>4. CASE ~Exit(p)
    <3> DEFINE seen == Plus(spent, Asks(p))
               run == [proc[p] EXCEPT !.pc = "save", !.seen = seen]
    <3>1. proc' = [proc EXCEPT ![p] = run]
      BY <1>4, <2>4 DEF Reserve
    <3>2. seen \in Nat \cup {NaN}
      BY <2>1, <2>2 DEF Plus
    <3> HIDE DEF seen
    <3>3. run \in Runs /\ run.pc = "save" /\ run.id = proc[p].id /\ run.seen = seen
          /\ run.pi = proc[p].pi
      BY <1>0, <3>2 DEF Runs, Steps, PaySteps
    <3> HIDE DEF run
    <3>4. Turns(p, "save", proc[p].id, seen, proc[p].pi)
      BY <1>0, <3>1, <3>3, Turn
    <3> QED
      BY <3>4 DEF seen
  <2> QED
    BY <2>3, <2>4
<1>5. ASSUME NEW p \in Procs, Charge(p)
      PROVE  \/ /\ Land(p)
                /\ \E step \in {"log", NextTry(p)} :
                     Turns(p, step, proc[p].id, proc[p].seen, Landed(p))
             \/ UNCHANGED intents /\ Stays(p, NextTry(p))
  <2>1. NextTry(p) \in Steps /\ "log" \in Steps
    BY DEF NextTry, Steps, PaySteps, AgentSteps
  <2>2. Landed(p) \in Nat
    BY <1>0 DEF TypeOK, Landed, Runs
  <2>3. ASSUME NEW step \in Steps,
               proc' = [proc EXCEPT ![p].pc = step, ![p].pi = Landed(p)]
        PROVE  Turns(p, step, proc[p].id, proc[p].seen, Landed(p))
    <3> DEFINE run == [proc[p] EXCEPT !.pc = step, !.pi = Landed(p)]
    <3>1. proc' = [proc EXCEPT ![p] = run]
      BY <2>3
    <3>2. run \in Runs /\ run.pc = step /\ run.id = proc[p].id /\ run.seen = proc[p].seen
          /\ run.pi = Landed(p)
      BY <1>0, <2>2 DEF Runs
    <3> HIDE DEF run
    <3> QED
      BY <1>0, <3>1, <3>2, Turn
  <2>4. GoTo(p, NextTry(p)) => Stays(p, NextTry(p))
    BY <1>0, <2>1, Moves
  <2> QED
    BY <1>5, <2>1, <2>3, <2>4 DEF Charge
<1> QED
  BY <1>1, <1>2, <1>3, <1>4, <1>5

-----------------------------------------------------------------------------
(* Types.                                                                  *)

FileTypes ==
  /\ spent \in Nat \cup {None, NaN} /\ lock \in Procs \cup {None}
  /\ pending \in Stamped \cup {None} /\ code \in Stamped \cup {None}
  /\ killed \in BOOLEAN /\ clock \in 0 .. MaxClock
AskTypes == req \in Seq(Asked) /\ Len(req) <= MaxRequests
StripeTypes ==
  /\ intents \in Seq(Ids) /\ refunded \in [Payments -> Nat]
  /\ charges \subseteq DOMAIN intents /\ refunds \in [Payments -> Nat]
HistoryTypes ==
  /\ sent \subseteq Ids /\ used \in Seq(Ids) /\ unknown \in Nat
  /\ unlogged \in [Payments -> Nat] /\ forgotten \in Nat /\ wiped \in Nat
  /\ crossed \subseteq Payments /\ shared \subseteq Ids

LEMMA TypesInGroups ==
  /\ TypeOK <=> FileTypes /\ AskTypes /\ StripeTypes /\ HistoryTypes /\ proc \in [Procs -> Runs]
  /\ TypeOK' <=> FileTypes' /\ AskTypes' /\ StripeTypes' /\ HistoryTypes' /\ proc' \in [Procs -> Runs]
BY DEF TypeOK, FileTypes, AskTypes, StripeTypes, HistoryTypes, Runs, Steps

LEMMA TypeInit == Init => TypeOK /\ Known /\ FileThere
<1> SUFFICES ASSUME Init PROVE TypeOK /\ Known /\ FileThere
  OBVIOUS
<1>1. Idle \in Runs /\ Idle.pc = "idle"
  BY DEF Idle, Runs, Steps, AgentSteps
<1>2. proc \in [Procs -> Runs] /\ \A p \in Procs : At(p, "idle")
  BY <1>1 DEF Init, At
<1>3. FileTypes /\ AskTypes /\ StripeTypes /\ HistoryTypes
  <2>1. FileTypes
    <3>1. clock \in 0 .. MaxClock
      BY BoundAssumption DEF Init
    <3> QED
      BY <3>1 DEF Init, FileTypes
  <2>2. AskTypes
    BY BoundAssumption DEF Init, AskTypes
  <2>3. StripeTypes
    BY DEF Init, StripeTypes
  <2>4. HistoryTypes
    BY DEF Init, HistoryTypes
  <2> QED
    BY <2>1, <2>2, <2>3, <2>4
<1>4. Known
  BY <1>2 DEF Init, Known, At, Approving, Procs
<1>5. FileThere
  BY <1>2 DEF Init, FileThere, NeedsNoFile, At
<1> QED
  BY <1>2, <1>3, <1>4, <1>5, TypesInGroups

LEMMA RunsStep ==
  ASSUME TypeOK, Known, FileThere, [Next]_vars
  PROVE  proc' \in [Procs -> Runs]
<1>0. proc \in [Procs -> Runs] /\ Agents \subseteq Procs /\ Operators \subseteq Procs
  BY RequestTypes DEF Procs
<1>a. {"load", "create", "judge", "look", "reserve", "write", "send", "stale", "accept", "act",
       "refund", "refunding", "logging", "charge"} \subseteq Steps
  BY DEF Steps, AgentSteps, OperSteps, PaySteps
<1>b. ASSUME NEW p \in Procs, NEW step \in Steps, GoTo(p, step) \/ Exit(p)
      PROVE  proc' \in [Procs -> Runs]
  BY <1>0, <1>b, Moves DEF Stays, Leaves, Turns
<1>1. ASSUME NEW a \in Agents, AgentStep(a) PROVE proc' \in [Procs -> Runs]
  <2>1. CASE Ask(a)
    BY <2>1, Turning DEF Ask, Begun, Leaves, Turns
  <2>2. CASE Load(a)
    BY <2>2, Turning DEF Turns
  <2>3. CASE Vet(a) \/ Create(a) \/ LookPending(a) \/ WritePending(a) \/ SendCode(a)
    BY <1>0, <1>a, <1>b, <2>3 DEF Vet, Create, LookPending, WritePending, SendCode
  <2>4. CASE Judge(a)
    BY <1>0, <1>a, <1>b, <2>4 DEF Judge
  <2> QED
    BY <1>1, <2>1, <2>2, <2>3, <2>4 DEF AgentStep
<1>2. ASSUME NEW o \in Operators, OperatorStep(o) PROVE proc' \in [Procs -> Runs]
  <2>1. CASE Read(o)
    BY <2>1, Turning DEF Read, Turns
  <2>2. CASE DropExpired(o) \/ CheckCode(o) \/ DropCode(o)
    BY <1>0, <1>a, <1>b, <2>2 DEF DropExpired, CheckCode, DropCode
  <2>3. CASE Act(o)
    <3>1. Exit(o) \/ GoTo(o, "refund") \/ GoTo(o, "reserve")
      BY <2>3 DEF Act
    <3> QED
      BY <1>0, <1>a, <1>b, <3>1
  <2>4. CASE VetRefund(o) \/ Refund(o) \/ LogRefund(o)
    BY <1>0, <1>a, <1>b, <2>4 DEF VetRefund, Refund, LogRefund
  <2> QED
    BY <1>2, <2>1, <2>2, <2>3, <2>4 DEF OperatorStep
<1>3. ASSUME NEW p \in Procs, Pay(p) \/ Die(p) PROVE proc' \in [Procs -> Runs]
  <2>1. CASE Reserve(p)
    BY <2>1, Turning DEF Leaves, Turns
  <2>2. CASE Charge(p)
    BY <2>2, Turning DEF Stays, Turns
  <2>3. CASE Save(p) \/ Release(p) \/ Log(p) \/ Die(p)
    BY <1>a, <1>b, <2>3 DEF Save, Release, Log, Die
  <2> QED
    BY <1>3, <2>1, <2>2, <2>3 DEF Pay
<1>4. CASE Reset \/ Toggle \/ Tick \/ UNCHANGED vars
  BY <1>0, <1>4 DEF Reset, Toggle, Tick, vars
<1> QED
  BY <1>1, <1>2, <1>3, <1>4 DEF Next

LEMMA FilesStep ==
  ASSUME TypeOK, Known, FileThere, [Next]_vars
  PROVE  FileTypes'
<1>0. FileTypes /\ DOMAIN req \subseteq Ids
  BY RequestTypes, TypesInGroups
<1>a. clock \in Nat /\ clock <= MaxClock
  BY <1>0, BoundAssumption DEF FileTypes
<1>b. \A p \in Procs : ~At(p, "idle") => [id |-> proc[p].id, born |-> clock] \in Stamped
  BY <1>0, <1>a, RequestTypes DEF Stamped
<1>1. ASSUME NEW a \in Agents, AgentStep(a) PROVE FileTypes'
  <2>1. CASE Create(a)
    BY <1>0, <2>1 DEF Create, FileTypes
  <2>2. CASE WritePending(a)
    BY <1>0, <1>b, <2>2 DEF WritePending, FileTypes, At, Procs
  <2>3. CASE SendCode(a)
    BY <1>0, <1>b, <2>3 DEF SendCode, FileTypes, At, Procs
  <2>4. CASE UNCHANGED <<files, clock>>
    BY <1>0, <2>4 DEF FileTypes, files
  <2> QED
    BY <1>1, <2>1, <2>2, <2>3, <2>4
    DEF AgentStep, Ask, Begin, Vet, Load, Judge, LookPending
<1>2. ASSUME NEW o \in Operators, OperatorStep(o) PROVE FileTypes'
  BY <1>0, <1>2
  DEF OperatorStep, Read, ReadPending, DropExpired, CheckCode, DropCode, Act, VetRefund, Refund,
      LogRefund, FileTypes, files
<1>3. ASSUME NEW p \in Procs, Pay(p) \/ Die(p) PROVE FileTypes'
  <2>1. CASE Save(p)
    <3>1. proc[p].seen \in Nat \cup {NaN}
      BY RequestTypes DEF Runs
    <3> QED
      BY <1>0, <2>1, <3>1 DEF Save, FileTypes
  <2>2. CASE Release(p)
    <3>1. spent \in Nat \cup {NaN} /\ Asks(p) \in Nat \cup {NaN}
      BY <1>0, <2>2, RequestTypes DEF Release, FileTypes, FileThere, NeedsNoFile, At, Asks, Request
    <3>2. spent' \in Nat
      BY <2>2, <3>1 DEF Release, Above
    <3> QED
      BY <1>0, <2>2, <3>2 DEF Release, FileTypes
  <2>3. CASE Reserve(p) \/ Charge(p) \/ Log(p) \/ Die(p)
    BY <1>0, <2>3 DEF Reserve, Charge, Log, Die, FileTypes, files
  <2> QED
    BY <1>3, <2>1, <2>2, <2>3 DEF Pay
<1>4. CASE Reset
  BY <1>0, <1>4 DEF Reset, FileTypes
<1>5. CASE Toggle
  BY <1>0, <1>5 DEF Toggle, FileTypes
<1>6. CASE Tick
  <2>1. clock' \in 0 .. MaxClock
    BY <1>0, <1>6, BoundAssumption DEF Tick, FileTypes
  <2> QED
    BY <1>0, <1>6, <2>1 DEF Tick, FileTypes, files
<1>7. CASE UNCHANGED vars
  BY <1>0, <1>7 DEF vars, FileTypes, files
<1> QED
  BY <1>1, <1>2, <1>3, <1>4, <1>5, <1>6, <1>7 DEF Next

LEMMA AsksStep ==
  ASSUME TypeOK, [Next]_vars
  PROVE  AskTypes'
<1>1. ASSUME NEW a \in Agents, NEW r \in Asked, Begin(a, r) PROVE AskTypes'
  BY <1>1, NewRequest DEF AskTypes
<1>2. CASE UNCHANGED req
  BY <1>2, TypesInGroups DEF AskTypes
<1> QED
  BY <1>1, <1>2
  DEF Next, vars, AgentStep, Ask, Vet, Load, Create, Judge, LookPending, WritePending, SendCode,
      OperatorStep, Read, ReadPending, DropExpired, CheckCode, DropCode, Act, VetRefund, Refund,
      LogRefund, Pay, Reserve, Save, Charge, Release, Log, Die, Reset, Toggle, Tick

\* A payment that lands comes after those that have.
LEMMA NewPayment ==
  ASSUME TypeOK, Known, NEW p \in Procs, ~At(p, "idle"), Land(p)
  PROVE  /\ intents' \in Seq(Ids)
         /\ \A k \in DOMAIN intents : k \in DOMAIN intents' /\ intents'[k] = intents[k]
         /\ Landed(p) \in DOMAIN intents' /\ Landed(p) # 0
         /\ proc[p].pi # 0 => intents' = intents
         /\ proc[p].pi = 0 =>
              /\ DOMAIN intents' = DOMAIN intents \cup {Landed(p)} /\ Landed(p) \notin DOMAIN intents
              /\ Landed(p) = Len(intents) + 1
              /\ intents'[Landed(p)] = proc[p].id
<1>1. intents \in Seq(Ids) /\ proc[p].id \in Ids
  BY RequestTypes DEF TypeOK
<1>2. Len(intents) \in Nat /\ DOMAIN intents = 1 .. Len(intents)
  BY <1>1
<1>3. CASE proc[p].pi # 0
  BY <1>1, <1>2, <1>3 DEF Known, Land, Landed
<1>4. CASE proc[p].pi = 0
  <2>1. intents' = Append(intents, proc[p].id) /\ Landed(p) = Len(intents) + 1
    BY <1>4 DEF Land, Landed
  <2>2. Len(intents') = Len(intents) + 1 /\ DOMAIN intents' = 1 .. Len(intents')
        /\ intents' \in Seq(Ids)
    BY <1>1, <2>1
  <2> QED
    BY <1>1, <1>2, <1>4, <2>1, <2>2
<1> QED
  BY <1>3, <1>4

LEMMA StripeStep ==
  ASSUME TypeOK, Known, FileThere, [Next]_vars
  PROVE  StripeTypes'
<1>0. StripeTypes
  BY TypesInGroups
<1>1. ASSUME NEW p \in Procs, Charge(p) PROVE StripeTypes'
  <2>1. CASE UNCHANGED intents
    BY <1>0, <1>1, <2>1 DEF Charge, StripeTypes, log
  <2>2. CASE ~UNCHANGED intents
    <3>1. Land(p) /\ ~At(p, "idle")
      BY <1>1, <2>2 DEF Charge, At
    <3>2. intents' \in Seq(Ids) /\ DOMAIN intents \subseteq DOMAIN intents'
      BY <3>1, NewPayment
    <3> QED
      BY <1>0, <1>1, <3>2 DEF Charge, StripeTypes, log
  <2> QED
    BY <2>1, <2>2
<1>2. ASSUME NEW p \in Procs, Log(p) PROVE StripeTypes'
  <2>1. proc[p].pi \in DOMAIN intents
    BY <1>2 DEF Log, Known, At
  <2> QED
    BY <1>0, <1>2, <2>1 DEF Log, StripeTypes, stripe
<1>3. ASSUME NEW o \in Operators, Refund(o) PROVE StripeTypes'
  <2>1. Amount(o) \in Nat
    BY <1>3, RequestTypes DEF Refund, At, Procs
  <2>2. PICK m \in Nat : m = Amount(o)
    BY <2>1
  <2>3. refunded' \in [Payments -> Nat]
    <3>1. \/ UNCHANGED refunded
          \/ refunded' = [refunded EXCEPT ![Request(o).pi] = @ + m]
      BY <1>3, <2>2 DEF Refund
    <3>2. [refunded EXCEPT ![Request(o).pi] = @ + m] \in [Payments -> Nat]
      BY <1>0, AddedAt, Zenon DEF StripeTypes
    <3> QED
      BY <1>0, <3>1, <3>2 DEF StripeTypes
  <2> QED
    BY <1>0, <1>3, <2>3 DEF Refund, StripeTypes, log
<1>4. ASSUME NEW o \in Operators, LogRefund(o) PROVE StripeTypes'
  <2>1. Amount(o) \in Nat
    BY <1>4, RequestTypes DEF LogRefund, At, Procs
  <2>2. PICK m \in Nat : m = Amount(o)
    BY <2>1
  <2>3. refunds' = [refunds EXCEPT ![Request(o).pi] = @ + m]
    BY <1>4, <2>2 DEF LogRefund
  <2>4. refunds' \in [Payments -> Nat]
    BY <1>0, <2>3, AddedAt, Zenon DEF StripeTypes
  <2> QED
    BY <1>0, <1>4, <2>4 DEF LogRefund, StripeTypes, stripe
<1>5. CASE UNCHANGED <<stripe, log>>
  BY <1>0, <1>5 DEF stripe, log, StripeTypes
<1> QED
  BY <1>1, <1>2, <1>3, <1>4, <1>5
  DEF Next, vars, AgentStep, Ask, Begin, Vet, Load, Create, Judge, LookPending, WritePending,
      SendCode, OperatorStep, Read, ReadPending, DropExpired, CheckCode, DropCode, Act, VetRefund,
      Pay, Reserve, Save, Release, Die, Reset, Toggle, Tick

LEMMA HistoryStep ==
  ASSUME TypeOK, Known, FileThere, [Next]_vars
  PROVE  HistoryTypes'
<1>0. HistoryTypes
  BY TypesInGroups
<1>a. Total \in Nat
  BY DEF TypeOK, Total
<1>1. ASSUME NEW a \in Agents, Create(a) PROVE HistoryTypes'
  BY <1>0, <1>1, <1>a DEF Create, HistoryTypes, codes, losses
<1>2. ASSUME NEW a \in Agents, SendCode(a) PROVE HistoryTypes'
  <2>1. proc[a].id \in Ids
    BY <1>2, RequestTypes DEF SendCode, At, Procs
  <2> QED
    BY <1>0, <1>2, <2>1 DEF SendCode, HistoryTypes, codes, losses
<1>3. ASSUME NEW o \in Operators, Act(o) PROVE HistoryTypes'
  <2>1. CASE UNCHANGED used
    BY <1>0, <1>3, <2>1 DEF Act, HistoryTypes, codes, losses
  <2>2. CASE ~UNCHANGED used
    <3>1. used' = Append(used, proc[o].seen)
      BY <1>3, <2>2 DEF Act
    <3>2. proc[o].seen \in Ids
      BY <1>0, <1>3 DEF Act, Known, At, Approving, HistoryTypes
    <3> QED
      BY <1>0, <1>3, <3>1, <3>2 DEF Act, HistoryTypes, codes, losses
  <2> QED
    BY <2>1, <2>2
<1>4. ASSUME NEW o \in Operators, Refund(o) PROVE HistoryTypes'
  <2>1. Amount(o) \in Nat
    BY <1>4, RequestTypes DEF Refund, At, Procs
  <2>2. PICK m \in Nat : m = Amount(o)
    BY <2>1
  <2>3. \/ UNCHANGED unlogged
        \/ unlogged' = [unlogged EXCEPT ![Request(o).pi] = @ + m]
    BY <1>4, <2>2 DEF Refund
  <2>4. unlogged' \in [Payments -> Nat]
    <3>1. [unlogged EXCEPT ![Request(o).pi] = @ + m] \in [Payments -> Nat]
      BY <1>0, AddedAt, Zenon DEF HistoryTypes
    <3> QED
      BY <1>0, <2>3, <3>1 DEF HistoryTypes
  <2> QED
    BY <1>0, <1>4, <2>4 DEF Refund, HistoryTypes, codes, losses
<1>5. ASSUME NEW p \in Procs, Release(p) PROVE HistoryTypes'
  <2>1. Amount(p) \in Nat
    BY <1>5, RequestTypes DEF Release, At
  <2>2. unknown' \in Nat /\ wiped' \in Nat
    BY <1>0, <1>5, <1>a, <2>1 DEF Release, HistoryTypes
  <2> QED
    BY <1>0, <1>5, <2>2 DEF Release, HistoryTypes, codes
<1>6. ASSUME NEW p \in Procs, Die(p) PROVE HistoryTypes'
  <2>1. Amount(p) \in Nat
    BY <1>6, RequestTypes DEF Die
  <2>2. PICK m \in Nat : m = Amount(p)
    BY <2>1
  <2>3. \/ UNCHANGED unlogged
        \/ unlogged' = [unlogged EXCEPT ![Request(p).pi] = @ + m]
    BY <1>6, <2>2 DEF Die
  <2>4. unlogged' \in [Payments -> Nat]
    <3>1. [unlogged EXCEPT ![Request(p).pi] = @ + m] \in [Payments -> Nat]
      BY <1>0, AddedAt, Zenon DEF HistoryTypes
    <3> QED
      BY <1>0, <2>3, <3>1 DEF HistoryTypes
  <2> QED
    BY <1>0, <1>6, <2>4 DEF Die, HistoryTypes, codes, losses
<1>7. CASE Reset
  BY <1>0, <1>7, <1>a DEF Reset, HistoryTypes, codes, losses
<1>8. CASE UNCHANGED ghosts
  BY <1>0, <1>8 DEF ghosts, codes, losses, HistoryTypes
<1>9. ASSUME NEW p \in Procs, Save(p) PROVE HistoryTypes'
  <2>1. Amount(p) \in Nat
    BY <1>9, RequestTypes DEF Save, At
  <2>2. wiped' \in Nat
    BY <1>0, <1>9, <1>a, <2>1 DEF Save, HistoryTypes
  <2> QED
    BY <1>0, <1>9, <2>2 DEF Save, HistoryTypes, codes
<1>10. ASSUME NEW o \in Operators, CheckCode(o) PROVE HistoryTypes'
  <2>1. code # None => code.id \in Ids
    BY DEF TypeOK, Stamped
  <2>2. shared' \subseteq Ids
    BY <1>0, <1>10, <2>1 DEF CheckCode, HistoryTypes
  <2> QED
    BY <1>0, <1>10, <2>2 DEF CheckCode, HistoryTypes, losses
<1>11. ASSUME NEW o \in Operators, VetRefund(o) PROVE HistoryTypes'
  <2>1. Request(o).pi \in Payments
    BY <1>11, RequestTypes DEF VetRefund, At, Request, Procs
  <2>2. crossed' \subseteq Payments
    BY <1>0, <1>11, <2>1 DEF VetRefund, HistoryTypes
  <2> QED
    BY <1>0, <1>11, <2>2 DEF VetRefund, HistoryTypes, codes, losses
<1> QED
  BY <1>1, <1>2, <1>3, <1>4, <1>5, <1>6, <1>7, <1>8, <1>9, <1>10, <1>11
  DEF Next, vars, AgentStep, Ask, Begin, Vet, Load, Judge, LookPending, WritePending,
      OperatorStep, Read, ReadPending, DropExpired, DropCode, LogRefund,
      Pay, Reserve, Charge, Log, Toggle, Tick

LEMMA FilesThereStep ==
  ASSUME TypeOK, Known, FileThere, [Next]_vars
  PROVE  FileThere'
<1>0. /\ \A i \in DOMAIN req : i \in DOMAIN req' /\ req'[i] = req[i]
      /\ \A q \in Procs : ~At(q, "idle") => proc[q].id \in DOMAIN req
      /\ Agents \subseteq Procs /\ Operators \subseteq Procs
      /\ spent \in Nat \cup {None, NaN} /\ None \notin Nat \cup {NaN}
  BY RequestsStay, ActorAssumption DEF Known, Procs, TypeOK
\* What a step of p leaves to show: the others stay as they were.
<1>a. ASSUME NEW p \in Procs, \A q \in Procs \ {p} : proc'[q] = proc[q],
             spent' = None => spent = None /\ pending' = None /\ NeedsNoFile(p)',
             At(p, "release")' => (Request(p).script # "earn")'
      PROVE  FileThere'
  <2>1. ASSUME NEW q \in Procs, spent' = None PROVE NeedsNoFile(q)'
    <3>1. CASE q = p
      BY <1>a, <2>1, <3>1
    <3>2. CASE q # p
      BY <1>0, <1>a, <2>1, <3>2 DEF FileThere, NeedsNoFile, Request, At
    <3> QED
      BY <3>1, <3>2
  <2>2. ASSUME NEW q \in Procs, At(q, "release")' PROVE (Request(q).script # "earn")'
    <3>1. CASE q = p
      BY <1>a, <2>2, <3>1
    <3>2. CASE q # p
      BY <1>0, <1>a, <2>2, <3>2 DEF FileThere, Request, At
    <3> QED
      BY <3>1, <3>2
  <2> QED
    BY <1>a, <2>1, <2>2 DEF FileThere
\* The steps that have the file before them, and do not take it away.
<1>b. ASSUME NEW p \in Procs, NEW step, ~NeedsNoFile(p), ~At(p, "idle"), step # "release",
             Leaves(p) \/ \E id, seen, pi : Turns(p, step, id, seen, pi),
             spent' = spent \/ spent' \in Nat \cup {NaN}
      PROVE  FileThere'
  <2>1. spent # None /\ spent' # None
    BY <1>0, <1>b DEF FileThere
  <2> QED
    BY <1>a, <1>b, <2>1 DEF Leaves, Turns, At

<1>c. ASSUME NEW p \in Procs, UNCHANGED <<spent, pending>>, Leaves(p) PROVE FileThere'
  <2>1. NeedsNoFile(p)' /\ ~At(p, "release")'
    BY <1>c DEF Leaves, Turns, NeedsNoFile, At
  <2> QED
    BY <1>a, <1>c, <2>1 DEF Leaves, Turns, FileThere
<1>d. proc \in [Procs -> Runs] /\ {"load", "judge", "look", "reserve", "write", "send", "stale",
        "accept", "act", "refund", "refunding", "logging", "charge"} \subseteq Steps
  BY RequestTypes DEF Steps, AgentSteps, OperSteps, PaySteps
<1>e. ASSUME NEW p \in Procs, NEW step \in Steps, GoTo(p, step) \/ Exit(p)
      PROVE  Leaves(p) \/ Stays(p, step)
  BY <1>d, <1>e, Moves
<1>1. ASSUME NEW a \in Agents, AgentStep(a) PROVE FileThere'
  <2>1. ASSUME NEW r \in Asked, Begin(a, r) PROVE FileThere'
    <3>1. CASE Leaves(a)
      BY <1>0, <1>c, <2>1, <3>1 DEF Begin, files
    <3>2. ASSUME NEW step \in {"vet", "load", "charge"}, Begun(a, r, step) PROVE FileThere'
      <4>1. NeedsNoFile(a)' /\ ~At(a, "release")'
        BY <2>1, <3>2, NewRequest DEF Begun, Turns, NeedsNoFile, At, Request
      <4> QED
        BY <1>0, <1>a, <2>1, <3>2, <4>1 DEF Begun, Turns, Begin, files, FileThere
    <3> QED
      BY <2>1, <3>1, <3>2, Turning
  <2>2. CASE Vet(a)
    <3>1. Leaves(a) \/ Stays(a, "load")
      BY <1>0, <1>d, <1>e, <2>2 DEF Vet
    <3>2. NeedsNoFile(a)' /\ ~At(a, "release")'
      BY <3>1 DEF Leaves, Stays, Turns, NeedsNoFile, At
    <3> QED
      BY <1>0, <1>a, <2>2, <3>1, <3>2 DEF Leaves, Stays, Turns, Vet, files, FileThere
  <2>3. CASE Load(a)
    <3>1. Turns(a, IF spent = None THEN "create" ELSE "judge", proc[a].id, Seen, proc[a].pi)
      BY <2>3, Turning
    <3>2. ~At(a, "release")' /\ (spent = None => NeedsNoFile(a)')
      BY <3>1 DEF Turns, NeedsNoFile, At
    <3> QED
      BY <1>0, <1>a, <2>3, <3>1, <3>2 DEF Turns, Load, files, FileThere
  <2>4. CASE Create(a)
    <3>1. Stays(a, "judge")
      BY <1>0, <1>d, <2>4, Moves DEF Create
    <3>2. spent' # None /\ ~At(a, "release")'
      BY <1>0, <2>4, <3>1 DEF Create, Stays, Turns, At
    <3> QED
      BY <1>0, <1>a, <3>1, <3>2 DEF Stays, Turns
  <2>5. CASE Judge(a)
    <3>1. GoTo(a, "look") \/ GoTo(a, "reserve")
      BY <2>5 DEF Judge
    <3>2. Leaves(a) \/ Stays(a, "look") \/ Stays(a, "reserve")
      BY <1>0, <1>d, <1>e, <3>1
    <3> QED
      BY <1>0, <1>b, <2>5, <3>2 DEF Judge, Stays, files, At, NeedsNoFile
  <2>6. CASE LookPending(a)
    <3>1. Leaves(a) \/ Stays(a, "write")
      BY <1>0, <1>d, <1>e, <2>6 DEF LookPending
    <3> QED
      BY <1>0, <1>b, <2>6, <3>1 DEF LookPending, Stays, files, At, NeedsNoFile
  <2>7. CASE WritePending(a)
    <3>1. Leaves(a) \/ Stays(a, "send")
      BY <1>0, <1>d, <1>e, <2>7 DEF WritePending
    <3> QED
      BY <1>0, <1>b, <2>7, <3>1 DEF WritePending, Stays, At, NeedsNoFile
  <2>8. CASE SendCode(a)
    <3>1. Leaves(a)
      BY <1>0, <1>d, <2>8, Moves DEF SendCode
    <3> QED
      BY <1>0, <1>c, <2>8, <3>1 DEF SendCode
  <2> QED
    BY <1>1, <2>1, <2>2, <2>3, <2>4, <2>5, <2>6, <2>7, <2>8 DEF AgentStep, Ask
<1>2. ASSUME NEW o \in Operators, OperatorStep(o) PROVE FileThere'
  <2>1. ASSUME NEW typed \in sent, ReadPending(o, typed) PROVE FileThere'
    <3>1. spent # None /\ UNCHANGED <<spent, pending>>
      BY <2>1 DEF ReadPending, files, FileThere
    <3>2. Turns(o, IF Expired(pending) THEN "expired" ELSE "check", pending.id, typed, 0)
      BY <2>1, Turning
    <3>3. ~At(o, "release")'
      BY <3>2 DEF Turns, At
    <3> QED
      BY <1>0, <1>a, <3>1, <3>2, <3>3 DEF Turns
  <2>2. ASSUME ~NeedsNoFile(o), ~At(o, "idle"), UNCHANGED spent,
               \/ Exit(o)
               \/ \E step \in Steps \ {"release"} : GoTo(o, step)
        PROVE  FileThere'
    <3>1. \/ Leaves(o)
          \/ \E step \in Steps \ {"release"} : Stays(o, step)
      BY <1>0, <1>d, <2>2, Moves
    <3>2. ASSUME NEW step \in Steps \ {"release"}, Leaves(o) \/ Stays(o, step) PROVE FileThere'
      BY <1>0, <1>b, <2>2, <3>2 DEF Stays
    <3> QED
      BY <1>d, <3>1, <3>2
  <2>3. CASE DropExpired(o) \/ CheckCode(o) \/ DropCode(o)
    BY <1>d, <2>2, <2>3 DEF DropExpired, CheckCode, DropCode, files, At, NeedsNoFile
  <2>4. CASE Act(o)
    <3>1. Exit(o) \/ GoTo(o, "refund") \/ GoTo(o, "reserve")
      BY <2>4 DEF Act
    <3> QED
      BY <1>d, <2>2, <2>4, <3>1 DEF Act, At, NeedsNoFile
  <2>5. CASE VetRefund(o) \/ Refund(o) \/ LogRefund(o)
    BY <1>d, <2>2, <2>5 DEF VetRefund, Refund, LogRefund, files, At, NeedsNoFile
  <2> QED
    BY <1>2, <2>1, <2>3, <2>4, <2>5 DEF OperatorStep, Read
<1>3. ASSUME NEW p \in Procs, Pay(p) \/ Die(p) PROVE FileThere'
  <2>1. CASE Reserve(p)
    <3>1. Leaves(p) \/ Turns(p, "save", proc[p].id, Plus(spent, Asks(p)), proc[p].pi)
      BY <2>1, Turning
    <3> QED
      BY <1>b, <2>1, <3>1 DEF Reserve, At, NeedsNoFile
  <2>2. CASE Save(p)
    <3>1. Stays(p, "charge")
      BY <1>d, <2>2, Moves DEF Save
    <3>2. spent' \in Nat \cup {NaN}
      BY <1>d, <2>2 DEF Save, Runs
    <3> QED
      BY <1>b, <2>2, <3>1, <3>2 DEF Save, Stays, At, NeedsNoFile
  <2>3. CASE Charge(p)
    <3>1. \E step \in {"log", NextTry(p)} :
            \/ Turns(p, step, proc[p].id, proc[p].seen, Landed(p))
            \/ Stays(p, step)
      BY <2>3, Turning
    <3>2. PICK step \in {"log", NextTry(p)} :
            /\ proc'[p].pc = step /\ proc'[p].id = proc[p].id
            /\ \A q \in Procs \ {p} : proc'[q] = proc[q]
      BY <3>1 DEF Stays, Turns
    <3>3. Request(p)' = Request(p) /\ UNCHANGED <<spent, pending>>
      BY <2>3, <3>2 DEF Charge, files, Request
    <3>4. step = "release" => Request(p).script # "earn"
      BY <3>2 DEF NextTry
    <3>5. spent = None => Request(p).script = "earn"
      BY <2>3 DEF Charge, FileThere, NeedsNoFile, At
    <3>6. Request(p).script = "earn" => step \in {"log", "retry", "idle"}
      BY <3>2 DEF NextTry
    <3>7. spent = None => NeedsNoFile(p)'
      BY <3>2, <3>3, <3>5, <3>6 DEF NeedsNoFile
    <3> QED
      BY <1>a, <3>2, <3>3, <3>4, <3>7 DEF At, FileThere
  <2>4. CASE Release(p)
    <3>1. Leaves(p) /\ spent # None
      BY <1>d, <2>4, Moves DEF Release, At, FileThere, NeedsNoFile
    <3>2. spent' \in Nat
      <4>1. spent \in Nat \cup {NaN} /\ Asks(p) \in Nat \cup {NaN}
        BY <1>0, <2>4, <3>1, RequestTypes DEF Release, At, Asks, Request
      <4> QED
        BY <2>4, <4>1 DEF Release, Above
    <3> QED
      BY <1>0, <1>a, <3>1, <3>2 DEF Leaves, Turns, At
  <2>5. CASE Log(p) \/ Die(p)
    BY <1>c, <1>d, <2>5, Moves DEF Log, Die, files
  <2> QED
    BY <1>3, <2>1, <2>2, <2>3, <2>4, <2>5 DEF Pay
<1>4. CASE Reset
  BY <1>0, <1>4 DEF Reset, FileThere, Request, At
<1>5. CASE UNCHANGED <<spent, pending, proc, req>>
  BY <1>5 DEF FileThere, NeedsNoFile, Request, At
<1> QED
  BY <1>1, <1>2, <1>3, <1>4, <1>5 DEF Next, Toggle, Tick, vars, files

\* What was charged stays charged, and what was sent stays sent.
LEMMA PaymentsStay ==
  ASSUME TypeOK, Known, [Next]_vars
  PROVE  /\ \A k \in DOMAIN intents : k \in DOMAIN intents' /\ intents'[k] = intents[k]
         /\ sent \subseteq sent'
<1>1. \A k \in DOMAIN intents : k \in DOMAIN intents' /\ intents'[k] = intents[k]
  <2>1. ASSUME NEW p \in Procs, Charge(p), NEW k \in DOMAIN intents
        PROVE  k \in DOMAIN intents' /\ intents'[k] = intents[k]
    <3>1. ~At(p, "idle") /\ (UNCHANGED intents \/ Land(p))
      BY <2>1 DEF Charge, At
    <3> QED
      BY <2>1, <3>1, NewPayment
  <2>2. CASE UNCHANGED intents
    BY <2>2
  <2> QED
    BY <2>1, <2>2
    DEF Next, vars, AgentStep, Ask, Begin, Vet, Load, Create, Judge, LookPending, WritePending,
        SendCode, OperatorStep, Read, ReadPending, DropExpired, CheckCode, DropCode, Act, VetRefund,
        Refund, LogRefund, Pay, Reserve, Save, Release, Log, Die, Reset, Toggle, Tick, stripe
<1>2. sent \subseteq sent'
  BY DEF Next, vars, AgentStep, Ask, Begin, Vet, Load, Create, Judge, LookPending, WritePending,
         SendCode, OperatorStep, Read, ReadPending, DropExpired, CheckCode, DropCode, Act, VetRefund,
         Refund, LogRefund, Pay, Reserve, Save, Charge, Release, Log, Die, Reset, Toggle, Tick, ghosts, codes
<1> QED
  BY <1>1, <1>2

\* What Known says of the files, and of a process.
FilesKnown ==
  /\ pending # None => pending.id \in DOMAIN req
  /\ code # None => code.id \in DOMAIN req
  /\ sent \subseteq DOMAIN req
  /\ \A k \in DOMAIN intents : intents[k] \in DOMAIN req
Knows(p) ==
  /\ ~At(p, "idle") => proc[p].id \in DOMAIN req /\ proc[p].pi \in DOMAIN intents \cup {0}
  /\ At(p, "log") => proc[p].pi # 0
  /\ p \in Operators /\ proc[p].pc \in Approving => proc[p].seen \in sent

LEMMA KnownInParts ==
  /\ Known <=> FilesKnown /\ \A p \in Procs : Knows(p)
  /\ Known' <=> FilesKnown' /\ \A p \in Procs : Knows(p)'
BY DEF Known, FilesKnown, Knows, Procs

LEMMA FilesKnownStep ==
  ASSUME TypeOK, Known, [Next]_vars
  PROVE  FilesKnown'
<1>0. /\ FilesKnown /\ DOMAIN req \subseteq DOMAIN req'
      /\ \A p \in Procs : ~At(p, "idle") => proc[p].id \in DOMAIN req
      /\ Agents \subseteq Procs /\ Operators \subseteq Procs
  BY RequestsStay, KnownInParts DEF Procs, Known
<1>1. ASSUME NEW a \in Agents, WritePending(a) PROVE FilesKnown'
  BY <1>0, <1>1 DEF WritePending, FilesKnown, At, stripe, ghosts, codes
<1>2. ASSUME NEW a \in Agents, SendCode(a) PROVE FilesKnown'
  BY <1>0, <1>2 DEF SendCode, FilesKnown, At, stripe
<1>3. ASSUME NEW o \in Operators, DropExpired(o) \/ DropCode(o) \/ Act(o) PROVE FilesKnown'
  BY <1>0, <1>3 DEF DropExpired, DropCode, Act, FilesKnown, stripe, ghosts, codes
<1>4. ASSUME NEW p \in Procs, Charge(p) PROVE FilesKnown'
  <2>1. ~At(p, "idle") /\ (UNCHANGED intents \/ Land(p))
    BY <1>4 DEF Charge, At
  <2>2. ASSUME NEW k \in DOMAIN intents' PROVE intents'[k] \in DOMAIN req
    <3>1. CASE UNCHANGED intents
      BY <1>0, <2>2, <3>1 DEF FilesKnown
    <3>2. CASE Land(p)
      <4>1. \/ k \in DOMAIN intents /\ intents'[k] = intents[k]
            \/ intents'[k] = proc[p].id
        <5>1. CASE proc[p].pi # 0
          <6>1. intents' = intents
            BY <2>1, <3>2, <5>1, NewPayment
          <6> QED
            BY <2>2, <6>1
        <5>2. CASE proc[p].pi = 0
          <6>1. /\ DOMAIN intents' = DOMAIN intents \cup {Landed(p)}
                /\ intents'[Landed(p)] = proc[p].id
                /\ \A l \in DOMAIN intents : intents'[l] = intents[l]
            BY <2>1, <3>2, <5>2, NewPayment
          <6> QED
            BY <2>2, <6>1
        <5> QED
          BY <5>1, <5>2
      <4> QED
        BY <1>0, <2>1, <4>1 DEF FilesKnown
    <3> QED
      BY <2>1, <3>1, <3>2
  <2> QED
    BY <1>0, <1>4, <2>2 DEF Charge, FilesKnown, files, ghosts, codes
<1>5. CASE UNCHANGED <<pending, code, sent, intents>>
  BY <1>0, <1>5 DEF FilesKnown
<1> QED
  BY <1>1, <1>2, <1>3, <1>4, <1>5
  DEF Next, vars, AgentStep, Ask, Begin, Vet, Load, Create, Judge, LookPending, OperatorStep, Read,
      ReadPending, CheckCode, VetRefund, Refund, LogRefund, Pay, Reserve, Save, Release, Log, Die,
      Reset, Toggle, Tick, files, stripe, ghosts, codes

LEMMA KnownStep ==
  ASSUME TypeOK, Known, FileThere, [Next]_vars
  PROVE  Known'
<1>0. /\ DOMAIN req \subseteq DOMAIN req' /\ DOMAIN intents \subseteq DOMAIN intents'
      /\ sent \subseteq sent' /\ \A p \in Procs : Knows(p)
      /\ proc \in [Procs -> Runs] /\ Agents \subseteq Procs /\ Operators \subseteq Procs
      /\ Agents \cap Operators = {}
  BY RequestsStay, PaymentsStay, RequestTypes, KnownInParts, ActorAssumption DEF Procs
<1> SUFFICES \A q \in Procs : Knows(q)'
  BY FilesKnownStep, KnownInParts
\* What a step of p leaves to show: the others stay as they were.
<1>a. ASSUME NEW p \in Procs, \A q \in Procs \ {p} : proc'[q] = proc[q], Knows(p)'
      PROVE  \A q \in Procs : Knows(q)'
  <2>1. ASSUME NEW q \in Procs \ {p} PROVE Knows(q)'
    BY <1>0, <1>a, <2>1 DEF Knows, At
  <2> QED
    BY <1>a, <2>1
<1>b. ASSUME NEW p \in Procs, Leaves(p) PROVE \A q \in Procs : Knows(q)'
  BY <1>a, <1>b DEF Leaves, Turns, Knows, At, Approving
<1>c. ASSUME NEW p \in Procs, ~At(p, "idle"), NEW step, Stays(p, step), step # "log",
             p \in Operators /\ step \in Approving => proc[p].pc \in Approving
      PROVE  \A q \in Procs : Knows(q)'
  <2>1. Knows(p)'
    BY <1>0, <1>c DEF Stays, Turns, Knows, At
  <2> QED
    BY <1>a, <1>c, <2>1 DEF Stays, Turns
<1>d. {"load", "judge", "look", "reserve", "write", "send", "stale", "accept", "act", "refund",
       "refunding", "logging", "charge"} \subseteq Steps
  BY DEF Steps, AgentSteps, OperSteps, PaySteps
<1>e. ASSUME NEW p \in Procs, ~At(p, "idle"), NEW step \in Steps, GoTo(p, step) \/ Exit(p),
             step # "log", p \in Operators /\ step \in Approving => proc[p].pc \in Approving
      PROVE  \A q \in Procs : Knows(q)'
  <2>1. Leaves(p) \/ Stays(p, step)
    BY <1>0, <1>e, Moves
  <2> QED
    BY <1>b, <1>c, <1>e, <2>1
<1>1. ASSUME NEW a \in Agents, AgentStep(a) PROVE \A q \in Procs : Knows(q)'
  <2>1. ASSUME NEW r \in Asked, Begin(a, r) PROVE \A q \in Procs : Knows(q)'
    <3>1. ASSUME NEW step \in {"vet", "load", "charge"}, Begun(a, r, step) PROVE Knows(a)'
      BY <1>0, <2>1, <3>1, NewRequest DEF Begun, Turns, Knows, At
    <3> QED
      BY <1>0, <1>a, <1>b, <2>1, <3>1, Turning DEF Begun, Turns
  <2>2. CASE Vet(a) \/ Create(a) \/ LookPending(a) \/ WritePending(a)
    BY <1>0, <1>d, <1>e, <2>2 DEF Vet, Create, LookPending, WritePending, At
  <2>3. CASE Load(a)
    <3>1. Turns(a, IF spent = None THEN "create" ELSE "judge", proc[a].id, Seen, proc[a].pi)
      BY <2>3, Turning
    <3>2. Knows(a)'
      BY <1>0, <2>3, <3>1 DEF Load, Turns, Knows, At
    <3> QED
      BY <1>0, <1>a, <3>1, <3>2 DEF Turns
  <2>4. CASE Judge(a)
    <3>1. (GoTo(a, "look") \/ GoTo(a, "reserve")) /\ ~At(a, "idle")
      BY <2>4 DEF Judge, At
    <3> QED
      BY <1>0, <1>d, <1>e, <3>1
  <2>5. CASE SendCode(a)
    BY <1>0, <1>b, <2>5, Moves DEF SendCode
  <2> QED
    BY <1>1, <2>1, <2>2, <2>3, <2>4, <2>5 DEF AgentStep, Ask
<1>2. ASSUME NEW o \in Operators, OperatorStep(o) PROVE \A q \in Procs : Knows(q)'
  <2>1. ASSUME NEW typed \in sent, ReadPending(o, typed) PROVE \A q \in Procs : Knows(q)'
    <3>1. Turns(o, IF Expired(pending) THEN "expired" ELSE "check", pending.id, typed, 0)
      BY <2>1, Turning
    <3>2. pending.id \in DOMAIN req
      BY <2>1 DEF ReadPending, Known
    <3>3. Knows(o)'
      BY <1>0, <2>1, <3>1, <3>2 DEF Turns, Knows, At
    <3> QED
      BY <1>0, <1>a, <3>1, <3>3 DEF Turns
  <2>2. CASE DropExpired(o) \/ CheckCode(o) \/ DropCode(o)
    BY <1>0, <1>b, <1>d, <1>e, <2>2, Moves DEF DropExpired, CheckCode, DropCode, At, Approving
  <2>3. CASE Act(o)
    <3>1. (Exit(o) \/ GoTo(o, "refund") \/ GoTo(o, "reserve")) /\ ~At(o, "idle")
      BY <2>3 DEF Act, At
    <3> QED
      BY <1>0, <1>d, <1>e, <3>1 DEF Approving
  <2>4. CASE VetRefund(o) \/ Refund(o) \/ LogRefund(o)
    BY <1>0, <1>b, <1>d, <1>e, <2>4, Moves DEF VetRefund, Refund, LogRefund, At, Approving
  <2> QED
    BY <1>2, <2>1, <2>2, <2>3, <2>4 DEF OperatorStep, Read
<1>3. ASSUME NEW p \in Procs, Pay(p) \/ Die(p) PROVE \A q \in Procs : Knows(q)'
  <2>1. CASE Reserve(p)
    <3>1. Leaves(p) \/ Turns(p, "save", proc[p].id, Plus(spent, Asks(p)), proc[p].pi)
      BY <2>1, Turning
    <3>2. ASSUME Turns(p, "save", proc[p].id, Plus(spent, Asks(p)), proc[p].pi) PROVE Knows(p)'
      BY <1>0, <2>1, <3>2 DEF Reserve, Turns, Knows, At, Approving
    <3> QED
      BY <1>a, <1>b, <3>1, <3>2 DEF Turns
  <2>2. CASE Charge(p)
    <3>1. CASE UNCHANGED intents /\ Stays(p, NextTry(p))
      <4>1. NextTry(p) \in {"retry", "idle", "release"} /\ ~At(p, "idle")
        BY <2>2 DEF NextTry, Charge, At
      <4> QED
        BY <1>c, <3>1, <4>1 DEF Approving
    <3>2. ASSUME Land(p), NEW step \in {"log", NextTry(p)},
                 Turns(p, step, proc[p].id, proc[p].seen, Landed(p))
          PROVE  \A q \in Procs : Knows(q)'
      <4>1. step \in {"log", "retry", "idle", "release"} /\ ~At(p, "idle")
        BY <2>2, <3>2 DEF NextTry, Charge, At
      <4>2. Landed(p) \in DOMAIN intents' /\ Landed(p) # 0
        BY <3>2, <4>1, NewPayment
      <4>3. Knows(p)'
        BY <1>0, <3>2, <4>1, <4>2 DEF Turns, Knows, At, Approving
      <4> QED
        BY <1>a, <3>2, <4>3 DEF Turns
    <3> QED
      BY <2>2, <3>1, <3>2, Turning
  <2>3. CASE Save(p)
    BY <1>0, <1>d, <1>e, <2>3 DEF Save, At, Approving
  <2>4. CASE Release(p) \/ Log(p) \/ Die(p)
    BY <1>0, <1>b, <2>4, Moves DEF Release, Log, Die
  <2> QED
    BY <1>3, <2>1, <2>2, <2>3, <2>4 DEF Pay
<1>4. CASE UNCHANGED proc
  BY <1>0, <1>4 DEF Knows, At
<1> QED
  BY <1>1, <1>2, <1>3, <1>4 DEF Next, Reset, Toggle, Tick, vars

LEMMA TypesHold == Spec => [](TypeOK /\ Known /\ FileThere)
<1>1. Init => TypeOK /\ Known /\ FileThere
  BY TypeInit
<1>2. TypeOK /\ Known /\ FileThere /\ [Next]_vars => (TypeOK /\ Known /\ FileThere)'
  BY RunsStep, FilesStep, AsksStep, StripeStep, HistoryStep, KnownStep, FilesThereStep,
     TypesInGroups
<1> QED
  BY <1>1, <1>2, PTL DEF Spec

-----------------------------------------------------------------------------
(* The cap.                                                                *)

Others(p) == \A q \in Procs \ {p} : proc'[q] = proc[q]
NotPaying(p) == proc'[p].pc \notin {"charge", "retry", "release"}

LEMMA TurnsOthers ==
  ASSUME NEW p \in Procs
  PROVE  /\ \A step, id, seen, pi : Turns(p, step, id, seen, pi) => Others(p)
         /\ \A step : Stays(p, step) => Others(p)
         /\ Leaves(p) => Others(p) /\ NotPaying(p)
BY DEF Turns, Stays, Leaves, Others, NotPaying

LEMMA OwedTypes ==
  ASSUME TypeOK, Known
  PROVE  \A p \in Procs : Owed(p) \in Nat
BY RequestTypes DEF Owed, At

LEMMA OthersOwe ==
  ASSUME TypeOK, Known, [Next]_vars, NEW p \in Procs, Others(p)
  PROVE  /\ \A q \in Procs \ {p} : Owed(q)' = Owed(q)
         /\ \A q \in Procs \ {p} : ~At(q, "idle") => Amount(q)' = Amount(q)
<1>1. ASSUME NEW q \in Procs \ {p}, ~At(q, "idle") PROVE Request(q)' = Request(q)
  BY <1>1, RequestsStay DEF Others, Known, Request
<1>2. ASSUME NEW q \in Procs \ {p} PROVE Owed(q)' = Owed(q)
  <2>1. CASE At(q, "idle")
    BY <1>2, <2>1 DEF Others, Owed, At
  <2>2. CASE ~At(q, "idle")
    BY <1>1, <1>2, <2>2 DEF Others, Owed, Amount, Worth, Request
  <2> QED
    BY <2>1, <2>2
<1> QED
  BY <1>1, <1>2 DEF Amount, Worth, Request

LEMMA TotalTypes ==
  ASSUME TypeOK, Known, FileThere, [Next]_vars
  PROVE  /\ Total \in Nat /\ Total' \in Nat /\ Lost \in Nat /\ Lost' \in Nat
         /\ unknown \in Nat /\ forgotten \in Nat /\ wiped \in Nat
<1>1. FileTypes' /\ HistoryTypes' /\ FileTypes /\ HistoryTypes
  BY FilesStep, HistoryStep, TypesInGroups
<1>2. Total \in Nat /\ Total' \in Nat
  BY <1>1 DEF FileTypes, Total
<1>3. /\ unknown \in Nat /\ forgotten \in Nat /\ wiped \in Nat
      /\ unknown' \in Nat /\ forgotten' \in Nat /\ wiped' \in Nat
  BY <1>1 DEF HistoryTypes
<1>4. \A u, f, w \in Nat : u + f + w \in Nat
  OBVIOUS
<1>5. Lost \in Nat
  BY <1>3, <1>4 DEF Lost
<1>6. Lost' \in Nat
  BY <1>3, <1>4 DEF Lost
<1> QED
  BY <1>2, <1>3, <1>5, <1>6

\* What was charged is charged as it was.
LEMMA SpendsStay ==
  ASSUME TypeOK, Known, [Next]_vars
  PROVE  \A k \in DOMAIN Spends : k \in DOMAIN Spends' /\ Spends'[k] = Spends[k]
<1> SUFFICES ASSUME NEW k \in DOMAIN intents
             PROVE  k \in DOMAIN intents' /\ Spends'[k] = Spends[k]
  BY DEF Spends
<1>1. k \in DOMAIN intents' /\ intents'[k] = intents[k]
  BY PaymentsStay
<1>2. req'[intents[k]] = req[intents[k]]
  BY RequestsStay DEF Known
<1> QED
  BY <1>1, <1>2 DEF Spends, Spent, Worth


\* A step of p that charges nothing, and moves the total as it moves p's debt.
LEMMA BookedMoves ==
  ASSUME TypeOK, Known, FileThere, [Next]_vars, Booked,
         NEW p \in Procs, Others(p), UNCHANGED intents, Owed(p)' \in Nat,
         Total + Lost + Owed(p)' <= Total' + Lost' + Owed(p), Total' <= SessionCap
  PROVE  Booked'
<1> DEFINE before == Debts
           after  == Debts'
<1>1. /\ DOMAIN before = Procs /\ DOMAIN after = Procs
      /\ before[p] = Owed(p) /\ after[p] = Owed(p)'
      /\ \A q \in Procs \ {p} : after[q] = before[q]
  BY OthersOwe DEF Debts
<1>2. Owed(p) \in Nat /\ IsFiniteSet(UnitsOf(before))
  BY OwedTypes DEF Booked
<1> HIDE DEF before, after
<1>3. /\ IsFiniteSet(UnitsOf(after))
      /\ Cardinality(UnitsOf(after)) + before[p] = Cardinality(UnitsOf(before)) + after[p]
  BY <1>1, <1>2, UnitsChanged
<1>4. Spends' = Spends
  BY SpendsStay DEF Spends
<1>5. /\ Charged \in Nat /\ Charged' = Charged /\ Cardinality(UnitsOf(before)) \in Nat
      /\ Cardinality(UnitsOf(after)) \in Nat
  BY <1>2, <1>3, <1>4, FS_CardinalityType DEF Booked, Charged
<1>6. PICK n \in Nat, m \in Nat : n = Owed(p) /\ m = Owed(p)'
  BY <1>2
<1>7. PICK t \in Nat, u \in Nat, t2 \in Nat, u2 \in Nat :
        t = Total /\ u = Lost /\ t2 = Total' /\ u2 = Lost'
  BY TotalTypes
<1>8. PICK c \in Nat, b \in Nat, a \in Nat :
        c = Charged /\ b = Cardinality(UnitsOf(before)) /\ a = Cardinality(UnitsOf(after))
  BY <1>5
<1>9. c + b <= t + u
  BY <1>7, <1>8 DEF Booked, before
<1>10. t + u + m <= t2 + u2 + n
  BY <1>6, <1>7
<1>11. a + n = b + m
  BY <1>1, <1>3, <1>6, <1>8
<1>12. c + a <= t2 + u2
  BY <1>9, <1>10, <1>11
<1>13. Charged' + Cardinality(UnitsOf(after)) <= Total' + Lost'
  BY <1>5, <1>7, <1>8, <1>12
<1> QED
  BY <1>3, <1>4, <1>13 DEF Booked, after

\* A step of p that moves neither money nor the total.
LEMMA BookedStays ==
  ASSUME TypeOK, Known, FileThere, [Next]_vars, Booked,
         NEW p \in Procs, Others(p), Owed(p)' = 0 \/ Owed(p)' = Owed(p),
         UNCHANGED <<spent, intents, unknown, forgotten, wiped>>
  PROVE  Booked'
<1>1. Owed(p) \in Nat /\ Total \in Nat /\ Lost \in Nat
  BY OwedTypes, TotalTypes
<1>2. Total' = Total /\ Lost' = Lost /\ Owed(p)' \in Nat /\ Owed(p)' <= Owed(p)
  BY <1>1 DEF Total, Lost
<1>3. Total' <= SessionCap
  BY <1>2 DEF Booked
<1>4. Total + Lost + Owed(p)' <= Total' + Lost' + Owed(p)
  <2>1. PICK n \in Nat, m \in Nat : n = Owed(p) /\ m = Owed(p)' /\ m <= n
    BY <1>1, <1>2
  <2>2. Total + Lost + m <= Total + Lost + n
    BY <1>1, <2>1
  <2> QED
    BY <1>2, <2>1, <2>2
<1> QED
  BY <1>2, <1>3, <1>4, BookedMoves

\* A payment that lands is owed before, and charged after.
LEMMA BookedLands ==
  ASSUME TypeOK, Known, FileThere, [Next]_vars, Booked,
         NEW p \in Procs, Others(p), proc[p].pc \in {"charge", "retry"}, proc[p].pi = 0,
         Land(p), Owed(p)' = 0, UNCHANGED <<spent, req, unknown, forgotten, wiped>>
  PROVE  Booked'
<1> DEFINE before == Debts
           after  == Debts'
           old == Spends
           new == Spends'
           k   == Landed(p)
<1>1. /\ DOMAIN before = Procs /\ DOMAIN after = Procs
      /\ before[p] = Owed(p) /\ after[p] = 0
      /\ \A q \in Procs \ {p} : after[q] = before[q]
  BY OthersOwe DEF Debts
<1>2. Owed(p) \in Nat /\ IsFiniteSet(UnitsOf(before)) /\ IsFiniteSet(UnitsOf(old))
  BY OwedTypes DEF Booked
<1>3. /\ DOMAIN intents' = DOMAIN intents \cup {k} /\ k \notin DOMAIN intents
      /\ intents'[k] = proc[p].id
  BY NewPayment DEF At
<1>4. new[k] = Owed(p)
  BY <1>3 DEF Spends, Spent, Owed, Amount, Request, Worth
<1>5. DOMAIN new = DOMAIN old \cup {k} /\ k \notin DOMAIN old
  BY <1>3 DEF Spends
<1>6. \A l \in DOMAIN old : new[l] = old[l]
  BY SpendsStay
<1> HIDE DEF before, after, old, new, k
<1>7. /\ IsFiniteSet(UnitsOf(after))
      /\ Cardinality(UnitsOf(after)) + before[p] = Cardinality(UnitsOf(before)) + after[p]
  BY <1>1, <1>2, UnitsChanged
<1>8. new[k] \in Nat
  BY <1>2, <1>4
<1>9. /\ IsFiniteSet(UnitsOf(new))
      /\ Cardinality(UnitsOf(new)) = Cardinality(UnitsOf(old)) + new[k]
  BY <1>2, <1>5, <1>6, <1>8, UnitsAdded
<1>10. PICK n \in Nat : n = Owed(p)
  BY <1>2
<1>11. PICK b \in Nat, a \in Nat, c \in Nat, d \in Nat :
         /\ b = Cardinality(UnitsOf(before)) /\ a = Cardinality(UnitsOf(after))
         /\ c = Cardinality(UnitsOf(old)) /\ d = Cardinality(UnitsOf(new))
  BY <1>2, <1>7, <1>9, FS_CardinalityType
<1>12. a + n = b /\ d = c + n
  BY <1>1, <1>4, <1>7, <1>9, <1>10, <1>11
<1>13. c + b <= Total + Lost
  BY <1>11 DEF Booked, Charged, before, old
<1>14. d + a <= Total + Lost
  BY <1>12, <1>13
<1>15. Total' = Total /\ Lost' = Lost
  BY DEF Total, Lost
<1>16. Charged' + Cardinality(UnitsOf(after)) <= Total' + Lost'
  BY <1>11, <1>14, <1>15 DEF Charged, new
<1> QED
  BY <1>7, <1>9, <1>15, <1>16 DEF Booked, after, new

LEMMA SavingStays ==
  ASSUME TypeOK, Known, FileThere, [Next]_vars, Saving,
         NEW p \in Procs, Others(p), proc'[p].pc # "save",
         lock \in {None, p} \/ (lock' = lock /\ Total' <= Total)
  PROVE  Saving'
<1> SUFFICES ASSUME NEW q \in Procs, At(q, "save")'
             PROVE  /\ lock' = q
                    /\ proc'[q].seen # NaN =>
                         /\ proc'[q].seen <= SessionCap
                         /\ Total' + Amount(q)' <= proc'[q].seen
  BY DEF Saving
<1>1. q # p
  BY DEF At
<1>2. proc'[q] = proc[q] /\ At(q, "save")
  BY <1>1 DEF Others, At
<1>3. lock = q
  BY <1>2 DEF Saving
<1>4. q # None
  BY ActorAssumption
<1>5. lock' = q /\ Total' <= Total
  BY <1>1, <1>3, <1>4
<1>6. Amount(q)' = Amount(q)
  BY <1>1, <1>2, OthersOwe DEF At
<1>7. ASSUME proc[q].seen # NaN
      PROVE  proc[q].seen <= SessionCap /\ Total' + Amount(q) <= proc[q].seen
  <2>1. Total + Amount(q) <= proc[q].seen /\ proc[q].seen <= SessionCap
    BY <1>2, <1>7 DEF Saving
  <2>2. Amount(q) \in Nat /\ Total \in Nat /\ Total' \in Nat /\ proc[q].seen \in Nat
    BY <1>2, <1>7, TotalTypes, RequestTypes DEF At, Runs
  <2> QED
    BY <1>5, <2>1, <2>2
<1> QED
  BY <1>2, <1>5, <1>6, <1>7

\* Before it pays, a run owes nothing, and only reserving leads to saving.
LEMMA AgentMoves ==
  ASSUME TypeOK, Known, FileThere, NEW a \in Agents, AgentStep(a)
  PROVE  Others(a) /\ proc'[a].pc # "save" /\ Owed(a)' = 0
<1>0. a \in Procs /\ proc \in [Procs -> Runs]
      /\ {"load", "judge", "look", "reserve", "write", "send"} \subseteq Steps
  BY RequestTypes DEF Procs, Steps, AgentSteps, PaySteps
<1>a. ASSUME NEW step \in {"load", "judge", "look", "reserve", "write", "send"},
             GoTo(a, step) \/ Exit(a)
      PROVE  Others(a) /\ NotPaying(a) /\ proc'[a].pc # "save"
  <2>1. Stays(a, step) \/ Leaves(a)
    BY <1>0, <1>a, Moves
  <2> QED
    BY <1>a, <2>1 DEF Stays, Leaves, Turns, Others, NotPaying
<1>b. NotPaying(a) => Owed(a)' = 0
  BY DEF NotPaying, Owed
<1>1. ASSUME NEW r \in Asked, Begin(a, r)
      PROVE  Others(a) /\ proc'[a].pc # "save" /\ Owed(a)' = 0
  <2>1. CASE Leaves(a)
    BY <1>b, <2>1 DEF Leaves, Turns, Others, NotPaying
  <2>2. ASSUME NEW step \in {"vet", "load", "charge"}, Begun(a, r, step)
        PROVE  Others(a) /\ proc'[a].pc # "save" /\ Owed(a)' = 0
    <3>1. step = "charge" => (Request(a).script = "earn")'
      BY <1>1, <2>2, NewRequest DEF Begun, Turns, Request
    <3> QED
      BY <2>2, <3>1 DEF Begun, Turns, Others, Owed
  <2> QED
    BY <1>1, <2>1, <2>2, Turning
<1>2. CASE Load(a)
  <2>1. Turns(a, IF spent = None THEN "create" ELSE "judge", proc[a].id, Seen, proc[a].pi)
    BY <1>2, Turning
  <2> QED
    BY <1>b, <2>1 DEF Turns, Others, NotPaying
<1>3. CASE Vet(a) \/ Create(a) \/ LookPending(a) \/ WritePending(a) \/ SendCode(a)
  BY <1>a, <1>b, <1>3 DEF Vet, Create, LookPending, WritePending, SendCode
<1>4. CASE Judge(a)
  <2>1. GoTo(a, "look") \/ GoTo(a, "reserve")
    BY <1>4 DEF Judge
  <2> QED
    BY <1>a, <1>b, <2>1
<1> QED
  BY <1>1, <1>2, <1>3, <1>4 DEF AgentStep, Ask

LEMMA OperatorMoves ==
  ASSUME TypeOK, Known, FileThere, NEW o \in Operators, OperatorStep(o)
  PROVE  Others(o) /\ proc'[o].pc # "save" /\ Owed(o)' = 0
<1>0. o \in Procs /\ proc \in [Procs -> Runs]
      /\ {"stale", "accept", "act", "refund", "refunding", "logging", "reserve"} \subseteq Steps
  BY RequestTypes DEF Procs, Steps, OperSteps, PaySteps
<1>a. ASSUME NEW step \in {"stale", "accept", "act", "refund", "refunding", "logging", "reserve"},
             GoTo(o, step) \/ Exit(o)
      PROVE  Others(o) /\ NotPaying(o) /\ proc'[o].pc # "save"
  <2>1. Stays(o, step) \/ Leaves(o)
    BY <1>0, <1>a, Moves
  <2> QED
    BY <1>a, <2>1 DEF Stays, Leaves, Turns, Others, NotPaying
<1>b. NotPaying(o) => Owed(o)' = 0
  BY DEF NotPaying, Owed
<1>1. ASSUME NEW typed \in sent, ReadPending(o, typed)
      PROVE  Others(o) /\ NotPaying(o) /\ proc'[o].pc # "save"
  <2>1. Turns(o, IF Expired(pending) THEN "expired" ELSE "check", pending.id, typed, 0)
    BY <1>1, Turning
  <2> QED
    BY <2>1 DEF Turns, Others, NotPaying
<1>2. CASE DropExpired(o) \/ CheckCode(o) \/ DropCode(o)
  BY <1>a, <1>b, <1>2 DEF DropExpired, CheckCode, DropCode
<1>3. CASE Act(o)
  <2>1. Exit(o) \/ GoTo(o, "refund") \/ GoTo(o, "reserve")
    BY <1>3 DEF Act
  <2> QED
    BY <1>a, <1>b, <2>1
<1>4. CASE VetRefund(o) \/ Refund(o) \/ LogRefund(o)
  BY <1>a, <1>b, <1>4 DEF VetRefund, Refund, LogRefund
<1> QED
  BY <1>b, <1>1, <1>2, <1>3, <1>4 DEF OperatorStep, Read

LEMMA CapStep ==
  ASSUME TypeOK, Known, FileThere, [Next]_vars, Booked, Saving
  PROVE  Booked' /\ Saving'
<1>0. /\ Agents \subseteq Procs /\ Operators \subseteq Procs /\ proc \in [Procs -> Runs]
      /\ Total \in Nat /\ Total' \in Nat /\ Lost \in Nat /\ Lost' \in Nat
      /\ unknown \in Nat /\ forgotten \in Nat /\ wiped \in Nat
      /\ Total <= SessionCap /\ SessionCap \in Nat
  BY RequestTypes, TotalTypes, CapAssumption DEF Procs, Booked
<1>1. ASSUME NEW a \in Agents, AgentStep(a) PROVE Booked' /\ Saving'
  <2>0. a \in Procs /\ Others(a) /\ proc'[a].pc # "save" /\ Owed(a)' = 0 /\ lock' = lock
        /\ Owed(a) \in Nat
    BY <1>0, <1>1, AgentMoves, OwedTypes
    DEF AgentStep, Ask, Begin, Vet, Load, Create, Judge, LookPending, WritePending, SendCode, files
  <2>1. CASE Create(a)
    <3>1. Total' = 0 /\ forgotten' = forgotten + Total /\ UNCHANGED <<unknown, wiped, intents>>
      BY <2>1 DEF Create, Total, stripe
    <3>a. Lost' = Lost + Total
      BY <1>0, <3>1 DEF Lost
    <3>2. Total + Lost + 0 <= Total' + Lost' + Owed(a)
      BY <1>0, <2>0, <3>1, <3>a
    <3>3. Booked'
      BY <1>0, <2>0, <3>1, <3>2, BookedMoves
    <3>4. Saving'
      BY <1>0, <2>0, <3>1, SavingStays
    <3> QED
      BY <3>3, <3>4
  <2>2. CASE ~Create(a)
    <3>1. UNCHANGED <<spent, intents, unknown, forgotten, wiped>>
      BY <1>1, <2>2
      DEF AgentStep, Ask, Begin, Vet, Load, Judge, LookPending, WritePending, SendCode, files,
          stripe, ghosts, losses
    <3>2. Total' <= Total
      BY <1>0, <3>1 DEF Total
    <3>3. Booked'
      BY <2>0, <3>1, BookedStays
    <3>4. Saving'
      BY <2>0, <3>2, SavingStays
    <3> QED
      BY <3>3, <3>4
  <2> QED
    BY <2>1, <2>2
<1>2. ASSUME NEW o \in Operators, OperatorStep(o) PROVE Booked' /\ Saving'
  <2>0. o \in Procs /\ Others(o) /\ proc'[o].pc # "save" /\ Owed(o)' = 0
    BY <1>0, <1>2, OperatorMoves
  <2>1. UNCHANGED <<spent, intents, unknown, forgotten, wiped, lock>>
    BY <1>2
    DEF OperatorStep, Read, ReadPending, DropExpired, CheckCode, DropCode, Act, VetRefund, Refund,
        LogRefund, files, stripe, ghosts, losses
  <2>2. Total' <= Total
    BY <1>0, <2>1 DEF Total
  <2>3. Booked'
    BY <2>0, <2>1, BookedStays
  <2>4. Saving'
    BY <2>0, <2>1, <2>2, SavingStays
  <2> QED
    BY <2>3, <2>4
<1>3. ASSUME NEW p \in Procs, Reserve(p) PROVE Booked' /\ Saving'
  <2>1. Leaves(p) \/ Turns(p, "save", proc[p].id, Plus(spent, Asks(p)), proc[p].pi)
    BY <1>3, Turning
  <2>2. Others(p) /\ NotPaying(p)
    BY <2>1 DEF Leaves, Turns, Others, NotPaying
  <2>3. Owed(p)' = 0
    BY <2>2 DEF NotPaying, Owed
  <2>4. Booked'
    BY <1>3, <2>2, <2>3, BookedStays DEF Reserve, stripe, ghosts, losses
  <2>5. CASE proc'[p].pc # "save"
    BY <1>3, <2>2, <2>4, <2>5, SavingStays DEF Reserve
  <2>6. CASE proc'[p].pc = "save"
    <3>1. proc'[p].seen = Plus(spent, Asks(p)) /\ proc'[p].id = proc[p].id /\ ~Exit(p)
      BY <1>0, <2>1, <2>6, Moves DEF Leaves, Turns
    <3>2. /\ lock' = p /\ Total' = Total /\ Amount(p)' = Amount(p)
          /\ ~Above(Plus(spent, Asks(p)), SessionCap)
      BY <1>3, <3>1 DEF Reserve, Amount, Worth, Total
    <3>3. ASSUME NEW q \in Procs, At(q, "save")' PROVE q = p
      <4>1. CASE q # p
        <5>1. At(q, "save")
          BY <2>2, <3>3, <4>1 DEF Others, At
        <5> QED
          BY <1>3, <5>1, ActorAssumption DEF Saving, Reserve
      <4> QED
        BY <4>1
    <3>4. ASSUME proc'[p].seen # NaN
          PROVE  Total' + Amount(p)' <= proc'[p].seen /\ proc'[p].seen <= SessionCap
      <4>1. spent # NaN /\ Asks(p) # NaN /\ proc'[p].seen = spent + Asks(p)
        BY <3>1, <3>4 DEF Plus
      <4>2. spent \in Nat /\ Total = spent
        BY <1>3, <4>1 DEF Reserve, FileThere, NeedsNoFile, At, Total, TypeOK
      <4>3. Amount(p) = Asks(p) /\ Amount(p) \in Nat
        BY <1>3, <4>1, RequestTypes DEF Reserve, At, Amount, Worth, Asks, Request
      <4>4. SessionCap # NaN /\ spent + Asks(p) # NaN
        BY <1>0, <4>2, <4>3, ActorAssumption
      <4>5. ~(spent + Asks(p) > SessionCap)
        BY <3>2, <4>1, <4>4 DEF Plus, Above
      <4> QED
        BY <1>0, <3>2, <4>1, <4>2, <4>3, <4>5
    <3>5. Saving'
      BY <3>2, <3>3, <3>4 DEF Saving
    <3> QED
      BY <2>4, <3>5
  <2> QED
    BY <2>5, <2>6
<1>4. ASSUME NEW p \in Procs, Save(p) PROVE Booked' /\ Saving'
  <2>1. Stays(p, "charge")
    BY <1>0, <1>4, Moves DEF Save, Steps, PaySteps
  <2>2. lock = p /\ Amount(p) \in Nat /\ proc[p].seen \in Nat \cup {NaN} /\ Owed(p) = 0
    BY <1>0, <1>4, RequestTypes DEF Save, Saving, At, Runs, Owed
  <2>3. Owed(p)' \in {0, Amount(p)}
    BY <1>4, <2>1 DEF Save, Stays, Turns, Owed, Amount, Worth
  <2>4. Others(p) /\ proc'[p].pc # "save" /\ UNCHANGED <<intents, unknown, forgotten>>
    BY <1>4, <2>1 DEF Save, Stays, Turns, Others, stripe
  <2>5. PICK n \in Nat, m \in Nat : n = Amount(p) /\ m = Owed(p)' /\ m <= n
    BY <2>2, <2>3
  <2>6. Total' <= SessionCap /\ Total + Lost + Owed(p)' <= Total' + Lost' + Owed(p)
    <3>1. CASE proc[p].seen # NaN
      <4>1. Total + n <= proc[p].seen /\ proc[p].seen <= SessionCap /\ proc[p].seen \in Nat
        BY <1>4, <2>2, <2>5, <3>1 DEF Save, Saving
      <4>2. Total' = proc[p].seen /\ wiped' = wiped
        BY <1>0, <1>4, <3>1, <4>1, ActorAssumption DEF Save, Total
      <4>3. Lost' = Lost
        BY <2>4, <4>2 DEF Lost
      <4> QED
        BY <1>0, <2>2, <2>5, <4>1, <4>2, <4>3
    <3>2. CASE proc[p].seen = NaN
      <4>1. Total' = 0 /\ wiped' = wiped + (Total + n)
        BY <1>4, <2>5, <3>2 DEF Save, Total
      <4>2. Lost' = Lost + (Total + n)
        BY <1>0, <2>4, <2>5, <4>1 DEF Lost
      <4> QED
        BY <1>0, <2>2, <2>5, <4>1, <4>2
    <3> QED
      BY <3>1, <3>2
  <2>7. Booked'
    BY <2>4, <2>5, <2>6, BookedMoves
  <2>8. Saving'
    BY <2>2, <2>4, SavingStays
  <2> QED
    BY <2>7, <2>8
<1>5. ASSUME NEW p \in Procs, Charge(p) PROVE Booked' /\ Saving'
  <2>0. /\ UNCHANGED <<spent, req, unknown, forgotten, wiped, lock>> /\ ~At(p, "idle")
        /\ proc[p].pc \in {"charge", "retry"}
        /\ NextTry(p) \in {"retry", "idle", "release"} /\ Total' <= Total
    BY <1>0, <1>5 DEF Charge, files, ghosts, losses, At, NextTry, Total
  <2>1. CASE UNCHANGED intents /\ Stays(p, NextTry(p))
    <3>1. Others(p) /\ proc'[p].pc # "save"
      BY <2>0, <2>1 DEF Stays, Turns, Others
    <3>2. Owed(p)' = 0 \/ Owed(p)' = Owed(p)
      BY <2>0, <2>1 DEF Stays, Turns, Owed, Amount, Worth, Request
    <3>3. Booked'
      BY <2>0, <2>1, <3>1, <3>2, BookedStays
    <3>4. Saving'
      BY <2>0, <3>1, SavingStays
    <3> QED
      BY <3>3, <3>4
  <2>2. ASSUME Land(p), NEW step \in {"log", NextTry(p)},
               Turns(p, step, proc[p].id, proc[p].seen, Landed(p))
        PROVE  Booked' /\ Saving'
    <3>1. Others(p) /\ proc'[p].pc # "save" /\ proc'[p].pi = Landed(p)
      BY <2>0, <2>2 DEF Turns, Others
    <3>2. Landed(p) # 0
      BY <2>0, <2>2, NewPayment
    <3>3. Owed(p)' = 0
      BY <3>1, <3>2 DEF Owed
    <3>4. CASE proc[p].pi = 0
      BY <2>0, <2>2, <3>1, <3>3, <3>4, BookedLands, SavingStays
    <3>5. CASE proc[p].pi # 0
      <4>1. UNCHANGED intents
        BY <2>2, <3>5 DEF Land
      <4> QED
        BY <2>0, <3>1, <3>3, <4>1, BookedStays, SavingStays
    <3> QED
      BY <3>4, <3>5
  <2> QED
    BY <1>5, <2>1, <2>2, Turning
<1>6. ASSUME NEW p \in Procs, Release(p) PROVE Booked' /\ Saving'
  <2>1. Leaves(p)
    BY <1>0, <1>6, Moves DEF Release
  <2>2. Others(p) /\ proc'[p].pc # "save" /\ Owed(p)' = 0
    BY <2>1 DEF Leaves, Turns, Others, Owed
  <2>3. /\ spent \in Nat \cup {NaN} /\ Amount(p) \in Nat /\ Request(p).script # "earn"
        /\ Asks(p) = NaN => Amount(p) = 0
        /\ Asks(p) # NaN => Amount(p) = Asks(p)
    BY <1>6, RequestTypes
    DEF Release, FileThere, NeedsNoFile, At, TypeOK, Amount, Worth, Asks, Request
  <2>4. PICK n \in Nat, t \in Nat : n = Amount(p) /\ t = Total
    BY <1>0, <2>3
  <2>5. Owed(p) = IF proc[p].pi = 0 THEN n ELSE 0
    BY <1>6, <2>3, <2>4 DEF Release, Owed, At
  <2>6. /\ spent' = (IF Above(spent, Asks(p)) THEN spent - Asks(p) ELSE 0)
        /\ unknown' = unknown + (IF proc[p].pi # 0 THEN n ELSE 0)
        /\ wiped' = wiped + (IF Asks(p) = NaN THEN t ELSE 0)
        /\ UNCHANGED <<intents, forgotten>>
    BY <1>6, <2>4 DEF Release, stripe
  <2>7. Total' <= SessionCap /\ Total + Lost + 0 <= Total' + Lost' + Owed(p)
    <3>1. CASE Asks(p) = NaN
      <4>1. Total' = 0 /\ n = 0
        BY <2>3, <2>4, <2>6, <3>1 DEF Above, Total
      <4>2. unknown' = unknown /\ wiped' = wiped + t
        BY <1>0, <2>6, <3>1, <4>1
      <4>3. Lost' = Lost + t
        BY <1>0, <2>4, <2>6, <4>2 DEF Lost
      <4> QED
        BY <1>0, <2>4, <2>5, <4>1, <4>3
    <3>2. CASE Asks(p) # NaN /\ spent = NaN
      <4>1. Total' = 0 /\ t = 0
        BY <2>4, <2>6, <3>2 DEF Above, Total
      <4>2. wiped' = wiped
        BY <1>0, <2>6, <3>2
      <4>3. Lost' = Lost + (IF proc[p].pi # 0 THEN n ELSE 0)
        BY <1>0, <2>4, <2>6, <4>2 DEF Lost
      <4> QED
        BY <1>0, <2>4, <2>5, <4>1, <4>3
    <3>3. CASE Asks(p) # NaN /\ spent # NaN
      <4>1. spent \in Nat /\ t = spent /\ n = Asks(p)
        BY <2>3, <2>4, <3>3, ActorAssumption DEF Total
      <4>2. spent' = IF t > n THEN t - n ELSE 0
        BY <2>6, <3>3, <4>1 DEF Above
      <4>3. spent' \in Nat /\ spent' <= t /\ t <= spent' + n
        BY <4>1, <4>2
      <4>4. Total' = spent'
        BY <4>3, ActorAssumption DEF Total
      <4>5. wiped' = wiped
        BY <1>0, <2>6, <3>3
      <4>6. Lost' = Lost + (IF proc[p].pi # 0 THEN n ELSE 0)
        BY <1>0, <2>4, <2>6, <4>5 DEF Lost
      <4> QED
        BY <1>0, <2>4, <2>5, <4>3, <4>4, <4>6
    <3> QED
      BY <3>1, <3>2, <3>3
  <2>8. Booked'
    BY <2>2, <2>6, <2>7, BookedMoves
  <2>9. Saving'
    BY <1>6, <2>2, SavingStays DEF Release
  <2> QED
    BY <2>8, <2>9
<1>7. ASSUME NEW p \in Procs, Log(p) \/ Die(p) PROVE Booked' /\ Saving'
  <2>1. Leaves(p)
    BY <1>0, <1>7, Moves DEF Log, Die
  <2>2. Others(p) /\ proc'[p].pc # "save" /\ Owed(p)' = 0
    BY <2>1 DEF Leaves, Turns, Others, Owed
  <2>3. UNCHANGED <<spent, intents, unknown, forgotten, wiped>> /\ (lock = p \/ lock' = lock)
    BY <1>7 DEF Log, Die, files, stripe, ghosts, losses
  <2>4. Total' <= Total
    BY <1>0, <2>3 DEF Total
  <2>5. Booked'
    BY <2>2, <2>3, BookedStays
  <2>6. Saving'
    BY <2>2, <2>3, <2>4, SavingStays
  <2> QED
    BY <2>5, <2>6
<1>8. CASE Reset
  <2>1. Total' = 0 /\ forgotten' = forgotten + Total
        /\ UNCHANGED <<lock, req, proc, intents, unknown, wiped>>
    BY <1>8 DEF Reset, Total, stripe
  <2>2. Debts' = Debts /\ Spends' = Spends
    BY <2>1 DEF Debts, Spends, Owed, Spent, Amount, Worth, Request
  <2>3. Total' + Lost' = Total + Lost
    BY <1>0, <2>1 DEF Lost
  <2>4. Booked'
    <3>1. Charged' = Charged /\ Cardinality(UnitsOf(Debts))' = Cardinality(UnitsOf(Debts))
          /\ IsFiniteSet(UnitsOf(Spends))' /\ IsFiniteSet(UnitsOf(Debts))'
      BY <2>2 DEF Charged, Booked
    <3>2. Charged' + Cardinality(UnitsOf(Debts))' <= Total' + Lost'
      BY <2>3, <3>1 DEF Booked
    <3>3. Total' <= SessionCap
      BY <1>0, <2>1
    <3> QED
      BY <3>1, <3>2, <3>3 DEF Booked
  <2>5. Saving'
    <3>1. ASSUME NEW q \in Procs, At(q, "save")
          PROVE  /\ lock = q
                 /\ proc[q].seen # NaN =>
                      0 + Amount(q) <= proc[q].seen /\ proc[q].seen <= SessionCap
      <4>1. Amount(q) \in Nat /\ proc[q].seen \in Nat \cup {NaN}
        BY <1>0, <3>1, RequestTypes DEF At, Runs
      <4> QED
        BY <1>0, <3>1, <4>1 DEF Saving
    <3> QED
      BY <2>1, <3>1 DEF Saving, At, Amount, Worth
  <2> QED
    BY <2>4, <2>5
<1>9. CASE UNCHANGED <<spent, lock, req, proc, intents, unknown, forgotten, wiped>>
  <2>1. Debts' = Debts /\ Spends' = Spends /\ Total' = Total /\ Lost' = Lost
    BY <1>9 DEF Debts, Spends, Owed, Spent, Amount, Worth, Request, Total, Lost
  <2> QED
    BY <1>9, <2>1 DEF Booked, Charged, Saving, At, Amount, Worth
<1> QED
  BY <1>1, <1>2, <1>3, <1>4, <1>5, <1>6, <1>7, <1>8, <1>9
  DEF Next, Pay, Toggle, Tick, vars, files, stripe, ghosts, losses

LEMMA CapInit == Init => Booked /\ Saving
<1> SUFFICES ASSUME Init PROVE Booked /\ Saving
  OBVIOUS
<1>1. \A p \in Procs : At(p, "idle") /\ Owed(p) = 0
  BY DEF Init, Idle, At, Owed
<1>2. UnitsOf(Debts) = {} /\ UnitsOf(Spends) = {}
  <2>1. \A p \in Procs : 1 .. Debts[p] = {}
    BY <1>1 DEF Debts
  <2>2. DOMAIN intents = {}
    BY DEF Init
  <2> QED
    BY <2>1, <2>2 DEF UnitsOf, Debts, Spends
<1>3. Total = 0 /\ Lost = 0
  BY DEF Init, Total, Lost
<1>4. IsFiniteSet({}) /\ Cardinality({}) = 0
  BY FS_EmptySet
<1> QED
  BY <1>1, <1>2, <1>3, <1>4, CapAssumption DEF Booked, Saving, Charged, At

\* What Stripe has charged for spends stays within the session cap, but for
\* charges whose answers were all lost and totals that were dropped, and every
\* variable keeps its kind: whoever runs, however many, however they fail.
THEOREM CapKeptHolds == Spec => []CapKept
<1>1. Init => Booked /\ Saving
  BY CapInit
<1>2. TypeOK /\ Known /\ FileThere /\ Booked /\ Saving /\ [Next]_vars => (Booked /\ Saving)'
  BY CapStep
<1>3. TypeOK /\ Known /\ FileThere /\ Booked => CapKept
  <2> SUFFICES ASSUME TypeOK, Known, FileThere, Booked PROVE CapKept
    OBVIOUS
  <2>1. Charged \in Nat /\ Cardinality(UnitsOf(Debts)) \in Nat
    BY FS_CardinalityType DEF Booked, Charged
  <2>2. /\ Total \in Nat /\ SessionCap \in Nat
        /\ unknown \in Nat /\ forgotten \in Nat /\ wiped \in Nat
    BY CapAssumption DEF TypeOK, Total
  <2>3. Charged <= SessionCap + unknown + forgotten + wiped
    BY <2>1, <2>2 DEF Booked, Lost
  <2> QED
    BY <2>3 DEF CapKept
<1> QED
  BY <1>1, <1>2, <1>3, TypesHold, PTL DEF Spec

-----------------------------------------------------------------------------
(* Requests.                                                               *)

\* A step of p, other than its first, goes on with the request it has.
Onward(p) ==
  /\ Others(p)
  /\ proc'[p].pc # "idle" =>
       /\ proc'[p].id = proc[p].id /\ ~At(p, "idle")
       /\ proc'[p].pc # "send" => ~At(p, "send")
       /\ proc'[p].pc \in Carrying => proc[p].pc \in Carrying \/ pending' = None \/ p \in Agents
       /\ Unpaid(p)' => Unpaid(p)

LEMMA AgentsOnward ==
  ASSUME TypeOK, Known, FileThere, NEW a \in Agents, AgentStep(a), ~Ask(a)
  PROVE  Onward(a)
<1>0. a \in Procs /\ proc \in [Procs -> Runs]
      /\ {"load", "judge", "look", "reserve", "write", "send"} \subseteq Steps
  BY RequestTypes DEF Procs, Steps, AgentSteps, PaySteps
<1>1. CASE Load(a)
  <2>1. Turns(a, IF spent = None THEN "create" ELSE "judge", proc[a].id, Seen, proc[a].pi)
    BY <1>1, Turning
  <2> QED
    BY <1>1, <2>1 DEF Load, At, Turns, Onward, Others, Unpaid, Vetting
<1>2. ASSUME NEW step \in {"load", "judge", "look", "reserve", "write", "send"},
             proc[a].pc \in Vetting, Stays(a, step) \/ Leaves(a)
      PROVE  Onward(a)
  BY <1>2 DEF Stays, Leaves, Turns, Onward, Others, Unpaid, Vetting, At
<1>3. ASSUME NEW step \in {"load", "judge", "look", "reserve", "write", "send"},
             proc[a].pc \in Vetting, GoTo(a, step) \/ Exit(a)
      PROVE  Onward(a)
  BY <1>0, <1>2, <1>3, Moves
<1>4. CASE Vet(a) \/ Create(a) \/ LookPending(a) \/ WritePending(a)
  BY <1>3, <1>4 DEF Vet, Create, LookPending, WritePending, At, Vetting
<1>5. CASE Judge(a)
  <2>1. (GoTo(a, "look") \/ GoTo(a, "reserve")) /\ proc[a].pc \in Vetting
    BY <1>5 DEF Judge, At, Vetting
  <2> QED
    BY <1>3, <2>1
<1>6. CASE SendCode(a)
  BY <1>0, <1>6, Moves DEF SendCode, Leaves, Turns, Onward, Others
<1> QED
  BY <1>1, <1>4, <1>5, <1>6 DEF AgentStep

LEMMA OperatorsOnward ==
  ASSUME TypeOK, Known, FileThere, NEW o \in Operators, OperatorStep(o), ~Read(o)
  PROVE  Onward(o)
<1>0. o \in Procs /\ proc \in [Procs -> Runs]
      /\ {"stale", "accept", "act", "refund", "refunding", "logging", "reserve"} \subseteq Steps
  BY RequestTypes DEF Procs, Steps, OperSteps, PaySteps
<1>1. ASSUME NEW step \in {"stale", "accept", "act"}, proc[o].pc \in Approving,
             GoTo(o, step) \/ Exit(o)
      PROVE  Onward(o)
  <2>1. Stays(o, step) \/ Leaves(o)
    BY <1>0, <1>1, Moves
  <2> QED
    BY <1>1, <2>1
    DEF Stays, Leaves, Turns, Onward, Others, Unpaid, Vetting, Approving, Carrying, PaySteps, At
<1>2. ASSUME NEW step \in {"refund", "refunding", "logging", "reserve"},
             proc[o].pc \in Approving \cup {"refund", "refunding", "logging"},
             step = "reserve" => proc[o].pc \in Approving,
             proc[o].pc \in Approving => pending' = None,
             GoTo(o, step) \/ Exit(o)
      PROVE  Onward(o)
  <2>1. Stays(o, step) \/ Leaves(o)
    BY <1>0, <1>2, Moves
  <2> QED
    BY <1>2, <2>1
    DEF Stays, Leaves, Turns, Onward, Others, Unpaid, Vetting, Approving, Carrying, PaySteps, At
<1>3. CASE DropExpired(o) \/ CheckCode(o) \/ DropCode(o)
  BY <1>1, <1>3 DEF DropExpired, CheckCode, DropCode, At, Approving
<1>4. CASE Act(o)
  <2>1. /\ proc[o].pc \in Approving /\ pending' = None
        /\ Exit(o) \/ GoTo(o, "refund") \/ GoTo(o, "reserve")
    BY <1>4 DEF Act, At, Approving
  <2> QED
    BY <1>1, <1>2, <2>1
<1>5. CASE VetRefund(o) \/ Refund(o) \/ LogRefund(o)
  BY <1>2, <1>5 DEF VetRefund, Refund, LogRefund, At, Approving
<1> QED
  BY <1>3, <1>4, <1>5 DEF OperatorStep

LEMMA PaymentsOnward ==
  ASSUME TypeOK, Known, FileThere, NEW p \in Procs, Pay(p) \/ Die(p)
  PROVE  Onward(p)
<1>0. proc \in [Procs -> Runs] /\ "charge" \in Steps
  BY RequestTypes DEF Steps, PaySteps
<1>a. Leaves(p) => Onward(p)
  BY DEF Leaves, Turns, Onward, Others
<1>1. CASE Reserve(p)
  <2>1. Leaves(p) \/ Turns(p, "save", proc[p].id, Plus(spent, Asks(p)), proc[p].pi)
    BY <1>1, Turning
  <2> QED
    BY <1>1, <1>a, <2>1 DEF Reserve, Turns, Onward, Others, Unpaid, Carrying, PaySteps, At
<1>2. CASE Save(p)
  <2>1. Stays(p, "charge")
    BY <1>0, <1>2, Moves DEF Save
  <2> QED
    BY <1>2, <2>1 DEF Save, Stays, Turns, Onward, Others, Unpaid, Carrying, PaySteps, At
<1>3. CASE Charge(p)
  <2>0. proc[p].pc \in {"charge", "retry"} /\ NextTry(p) \in {"retry", "idle", "release"}
    BY <1>3 DEF Charge, NextTry, At
  <2>1. ASSUME NEW step \in {"retry", "idle", "release", "log"}, Stays(p, step) PROVE Onward(p)
    BY <2>0, <2>1
    DEF Stays, Turns, Onward, Others, Unpaid, Vetting, Approving, Carrying, PaySteps, At
  <2>2. ASSUME Land(p), NEW step \in {"retry", "idle", "release", "log"},
               Turns(p, step, proc[p].id, proc[p].seen, Landed(p))
        PROVE  Onward(p)
    <3>1. Landed(p) # 0
      BY <2>0, <2>2, NewPayment DEF At
    <3> QED
      BY <2>0, <2>2, <3>1
      DEF Turns, Onward, Others, Unpaid, Vetting, Approving, Carrying, PaySteps, At
  <2> QED
    BY <1>3, <2>0, <2>1, <2>2, Turning
<1>4. CASE Release(p) \/ Log(p) \/ Die(p)
  BY <1>0, <1>4, <1>a, Moves DEF Release, Log, Die
<1> QED
  BY <1>1, <1>2, <1>3, <1>4 DEF Pay

\* No two agents ever have the same request.
LEMMA OwnRequestsStep ==
  ASSUME TypeOK, Known, FileThere, [Next]_vars, OwnRequests
  PROVE  OwnRequests'
<1>0. Agents \subseteq Procs /\ Operators \subseteq Procs /\ Agents \cap Operators = {}
      /\ \A p \in Procs : ~At(p, "idle") => proc[p].id \in DOMAIN req
  BY ActorAssumption DEF Procs, Known
<1>1. ASSUME NEW p \in Procs, Onward(p) PROVE OwnRequests'
  BY <1>0, <1>1 DEF Onward, Others, OwnRequests, At
<1>2. ASSUME NEW a \in Agents, NEW r \in Asked, Begin(a, r) PROVE OwnRequests'
  <2>1. CASE Leaves(a)
    BY <1>0, <2>1 DEF Leaves, Turns, OwnRequests, At
  <2>2. ASSUME NEW step \in {"vet", "load", "charge"}, Begun(a, r, step) PROVE OwnRequests'
    <3>1. Len(req) + 1 \notin DOMAIN req
      BY <1>2, NewRequest
    <3> QED
      BY <1>0, <2>2, <3>1 DEF Begun, Turns, OwnRequests, At
  <2> QED
    BY <1>2, <2>1, <2>2, Turning
<1>3. ASSUME NEW o \in Operators, NEW typed \in sent, ReadPending(o, typed) PROVE OwnRequests'
  <2>1. \A a \in Agents : proc'[a] = proc[a]
    BY <1>0, <1>3, Turning DEF Turns
  <2> QED
    BY <2>1 DEF OwnRequests, At
<1>4. CASE UNCHANGED proc
  BY <1>4 DEF OwnRequests, At
<1>5. ASSUME NEW a \in Agents, AgentStep(a) PROVE OwnRequests'
  BY <1>0, <1>1, <1>2, <1>5, AgentsOnward DEF Ask
<1>6. ASSUME NEW o \in Operators, OperatorStep(o) PROVE OwnRequests'
  BY <1>0, <1>1, <1>3, <1>6, OperatorsOnward DEF Read
<1> QED
  BY <1>1, <1>4, <1>5, <1>6, PaymentsOnward DEF Next, Reset, Toggle, Tick, vars

LEMMA OnePlaceStays ==
  ASSUME TypeOK, Known, FileThere, [Next]_vars, OnePlace, ChargedOnce,
         NEW p \in Procs, Onward(p), UNCHANGED intents, pending' = pending \/ pending' = None
  PROVE  OnePlace' /\ ChargedOnce'
<1>0. Agents \subseteq Procs /\ Operators \subseteq Procs /\ Agents \cap Operators = {}
  BY ActorAssumption DEF Procs
<1>1. ASSUME NEW q \in Procs, proc'[q].pc # "idle"
      PROVE  /\ proc'[q].id = proc[q].id /\ proc[q].pc # "idle"
             /\ proc'[q].pc # "send" => proc[q].pc # "send"
             /\ proc'[q].pc \in Carrying /\ pending' # None /\ q \notin Agents =>
                  proc[q].pc \in Carrying
             /\ Unpaid(q)' => Unpaid(q)
  BY <1>1 DEF Onward, Others, At, Unpaid
<1>2. \A i : Paid(i)' = Paid(i)
  BY DEF Paid
<1>3. ASSUME NEW a \in Agents, proc'[a].pc \notin {"idle", "send"}
      PROVE  /\ pending' # None => pending'.id # proc'[a].id
             /\ \A o \in Operators : ~At(o, "idle")' => proc'[o].id # proc'[a].id
  BY <1>0, <1>1, <1>3 DEF OnePlace, At
<1>4. ASSUME NEW o \in Operators, proc'[o].pc \in Carrying, pending' # None
      PROVE  pending'.id # proc'[o].id
  <2>1. proc[o].pc \in Carrying /\ proc'[o].id = proc[o].id
    BY <1>0, <1>1, <1>4 DEF Carrying, PaySteps
  <2> QED
    BY <1>4, <2>1 DEF OnePlace
<1>5. ASSUME NEW q \in Procs, Unpaid(q)' PROVE ~Paid(proc[q].id)'
  <2>1. Unpaid(q) /\ proc'[q].id = proc[q].id
    BY <1>1, <1>5 DEF Unpaid, Vetting, Approving
  <2>2. ~Paid(proc[q].id)
    BY <2>1 DEF OnePlace
  <2> QED
    BY <2>1, <2>2 DEF Paid
<1>6. pending' # None => ~Paid(pending.id)'
  BY DEF OnePlace, Paid
<1> QED
  BY <1>3, <1>4, <1>5, <1>6 DEF OnePlace, ChargedOnce, Paid

LEMMA OnePlaceLands ==
  ASSUME OneOperator, TypeOK, Known, FileThere, [Next]_vars, OwnRequests, OnePlace, ChargedOnce,
         NEW p \in Procs, Onward(p), proc[p].pc \in {"charge", "retry"}, proc[p].pi = 0,
         Land(p), ~Unpaid(p)', pending' = pending
  PROVE  OnePlace' /\ ChargedOnce'
<1> DEFINE i == proc[p].id
<1>0. Agents \subseteq Procs /\ Operators \subseteq Procs /\ Agents \cap Operators = {}
      /\ Procs = Agents \cup Operators
  BY ActorAssumption DEF Procs
<1>1. /\ DOMAIN intents' = DOMAIN intents \cup {Landed(p)} /\ Landed(p) \notin DOMAIN intents
      /\ intents'[Landed(p)] = i
      /\ \A k \in DOMAIN intents : intents'[k] = intents[k]
  BY NewPayment DEF At
<1>2. ~Paid(i)
  BY DEF OnePlace, Unpaid
<1>3. ASSUME NEW j, Paid(j)' PROVE Paid(j) \/ j = i
  BY <1>1, <1>3 DEF Paid
<1>4. ASSUME NEW q \in Procs, q # p, Unpaid(q) PROVE proc[q].id # i
  <2>0. proc[q].pc \notin {"idle", "send"} /\ proc[p].pc \notin {"idle", "send"}
    BY <1>4 DEF Unpaid, Vetting, Approving
  <2>1. CASE q \in Agents /\ p \in Agents
    BY <1>4, <2>0, <2>1 DEF OwnRequests, At
  <2>2. CASE q \in Agents /\ p \in Operators
    BY <2>0, <2>2 DEF OnePlace, At
  <2>3. CASE q \in Operators /\ p \in Agents
    BY <2>0, <2>3 DEF OnePlace, At
  <2>4. CASE q \in Operators /\ p \in Operators
    BY <1>4, <2>4 DEF OneOperator
  <2> QED
    BY <1>0, <2>1, <2>2, <2>3, <2>4
<1>5. pending # None => pending.id # i
  <2>1. CASE p \in Agents
    BY <2>1 DEF OnePlace
  <2>2. CASE p \in Operators
    BY <2>2 DEF OnePlace, Carrying, PaySteps
  <2> QED
    BY <1>0, <2>1, <2>2
<1>6. ASSUME NEW q \in Procs, proc'[q].pc # "idle"
      PROVE  /\ proc'[q].id = proc[q].id /\ proc[q].pc # "idle"
             /\ proc'[q].pc # "send" => proc[q].pc # "send"
             /\ proc'[q].pc \in Carrying /\ pending # None /\ q \notin Agents =>
                  proc[q].pc \in Carrying
             /\ Unpaid(q)' => Unpaid(q) /\ q # p
  BY <1>6 DEF Onward, Others, At, Unpaid
<1>7. ASSUME NEW a \in Agents, proc'[a].pc \notin {"idle", "send"}
      PROVE  /\ pending # None => pending.id # proc'[a].id
             /\ \A o \in Operators : ~At(o, "idle")' => proc'[o].id # proc'[a].id
  BY <1>0, <1>6, <1>7 DEF OnePlace, At
<1>8. ASSUME NEW o \in Operators, proc'[o].pc \in Carrying, pending # None
      PROVE  pending.id # proc'[o].id
  <2>1. proc[o].pc \in Carrying /\ proc'[o].id = proc[o].id
    BY <1>0, <1>6, <1>8 DEF Carrying, PaySteps
  <2> QED
    BY <1>8, <2>1 DEF OnePlace
<1>9. ASSUME NEW q \in Procs, Unpaid(q)' PROVE ~Paid(proc[q].id)'
  <2>1. Unpaid(q) /\ proc'[q].id = proc[q].id /\ q # p
    BY <1>6, <1>9 DEF Unpaid, Vetting, Approving
  <2>2. ~Paid(proc[q].id) /\ proc[q].id # i
    BY <1>4, <2>1 DEF OnePlace
  <2>3. PICK j : j = proc[q].id
    OBVIOUS
  <2>4. ~Paid(j)'
    BY <1>3, <2>2, <2>3
  <2> QED
    BY <2>1, <2>3, <2>4 DEF Paid
<1>10. pending # None => ~Paid(pending.id)'
  <2>1. PICK j : j = pending.id
    OBVIOUS
  <2>2. pending # None => ~Paid(j) /\ j # i
    BY <1>5, <2>1 DEF OnePlace
  <2>3. pending # None => ~Paid(j)'
    BY <1>3, <2>2
  <2> QED
    BY <2>1, <2>3 DEF Paid
<1>11. ChargedOnce'
  BY <1>1, <1>2 DEF ChargedOnce, Paid
<1> QED
  BY <1>7, <1>8, <1>9, <1>10, <1>11 DEF OnePlace

LEMMA OnePlaceStep ==
  ASSUME OneOperator, TypeOK, Known, FileThere, [Next]_vars, OwnRequests, OnePlace, ChargedOnce
  PROVE  OnePlace' /\ ChargedOnce'
<1>0. Agents \subseteq Procs /\ Operators \subseteq Procs /\ Agents \cap Operators = {}
      /\ \A p \in Procs : ~At(p, "idle") => proc[p].id \in DOMAIN req
  BY ActorAssumption DEF Procs, Known
<1>1. ASSUME NEW a \in Agents, NEW r \in Asked, Begin(a, r) PROVE OnePlace' /\ ChargedOnce'
  <2>0. UNCHANGED <<pending, intents>>
    BY <1>1 DEF Begin, files, stripe
  <2>1. CASE Leaves(a)
    BY <1>0, <2>0, <2>1, OnePlaceStays DEF Leaves, Turns, Onward, Others
  <2>2. ASSUME NEW step \in {"vet", "load", "charge"}, Begun(a, r, step)
        PROVE  OnePlace' /\ ChargedOnce'
    <3>1. Len(req) + 1 \notin DOMAIN req
      BY <1>1, NewRequest
    <3>2. proc'[a].id = Len(req) + 1 /\ \A q \in Procs \ {a} : proc'[q] = proc[q]
      BY <2>2 DEF Begun, Turns
    <3>3. \A k \in DOMAIN intents : intents[k] # Len(req) + 1
      BY <3>1 DEF Known
    <3>4. pending # None => pending.id # Len(req) + 1
      BY <3>1 DEF Known
    <3>5. \A q \in Procs \ {a} : ~At(q, "idle") => proc[q].id # Len(req) + 1
      BY <1>0, <3>1
    <3>6. ASSUME NEW b \in Agents, proc'[b].pc \notin {"idle", "send"}
          PROVE  /\ pending # None => pending.id # proc'[b].id
                 /\ \A o \in Operators : ~At(o, "idle")' => proc'[o].id # proc'[b].id
      BY <1>0, <3>2, <3>4, <3>5, <3>6 DEF OnePlace, At
    <3>7. ASSUME NEW o \in Operators, proc'[o].pc \in Carrying, pending # None
          PROVE  pending.id # proc'[o].id
      BY <1>0, <3>2, <3>7 DEF OnePlace
    <3>8. ASSUME NEW q \in Procs, Unpaid(q)' PROVE ~Paid(proc[q].id)'
      <4>1. CASE q = a
        BY <2>0, <3>2, <3>3, <4>1 DEF Paid
      <4>2. CASE q # a
        BY <2>0, <3>2, <3>8, <4>2 DEF OnePlace, Paid, Unpaid
      <4> QED
        BY <4>1, <4>2
    <3>9. pending # None => ~Paid(pending.id)'
      BY <2>0 DEF OnePlace, Paid
    <3> QED
      BY <2>0, <3>6, <3>7, <3>8, <3>9 DEF OnePlace, ChargedOnce
  <2> QED
    BY <1>1, <2>1, <2>2, Turning
<1>2. ASSUME NEW a \in Agents, WritePending(a) PROVE OnePlace' /\ ChargedOnce'
  <2>0. /\ At(a, "write") /\ pending'.id = proc[a].id /\ UNCHANGED intents
        /\ GoTo(a, "send")
    BY <1>2 DEF WritePending, stripe
  <2>1. proc'[a].pc = "send" /\ proc'[a].id = proc[a].id
        /\ \A q \in Procs \ {a} : proc'[q] = proc[q]
    BY <1>0, <2>0, RequestTypes, Moves DEF Stays, Turns, Steps, AgentSteps
  <2>2. \A i : Paid(i)' = Paid(i)
    BY <2>0 DEF Paid
  <2>3. ASSUME NEW b \in Agents, proc'[b].pc \notin {"idle", "send"}
        PROVE  /\ pending'.id # proc'[b].id
               /\ \A o \in Operators : ~At(o, "idle")' => proc'[o].id # proc'[b].id
    <3>1. b # a /\ proc'[b] = proc[b]
      BY <1>0, <2>1, <2>3
    <3>2. proc[b].id # proc[a].id
      BY <2>0, <2>3, <3>1 DEF OwnRequests, At
    <3> QED
      BY <1>0, <2>0, <2>1, <2>3, <3>1, <3>2 DEF OnePlace, At
  <2>4. ASSUME NEW o \in Operators, proc'[o].pc \in Carrying PROVE pending'.id # proc'[o].id
    <3>1. proc'[o] = proc[o] /\ proc[o].pc # "idle"
      BY <1>0, <2>1, <2>4 DEF Carrying, PaySteps
    <3> QED
      BY <2>0, <3>1 DEF OnePlace, At
  <2>5. ASSUME NEW q \in Procs, Unpaid(q)' PROVE ~Paid(proc[q].id)'
    <3>1. q # a
      BY <2>1, <2>5 DEF Unpaid, Vetting, Approving
    <3>2. Unpaid(q) /\ proc'[q] = proc[q]
      BY <2>1, <2>5, <3>1 DEF Unpaid
    <3> QED
      BY <2>0, <3>2 DEF OnePlace, Paid
  <2>6. ~Paid(pending.id)'
    BY <1>0, <2>0 DEF OnePlace, Unpaid, Vetting, At, Paid
  <2> QED
    BY <2>0, <2>3, <2>4, <2>5, <2>6 DEF OnePlace, ChargedOnce
<1>3. ASSUME NEW o \in Operators, NEW typed \in sent, ReadPending(o, typed)
      PROVE  OnePlace' /\ ChargedOnce'
  <2>0. UNCHANGED <<pending, intents>> /\ pending # None
    BY <1>3 DEF ReadPending, files, stripe
  <2>1. /\ proc'[o].pc \in {"expired", "check"} /\ proc'[o].id = pending.id
        /\ \A q \in Procs \ {o} : proc'[q] = proc[q]
    BY <1>3, Turning DEF Turns
  <2>2. ASSUME NEW a \in Agents, proc'[a].pc \notin {"idle", "send"}
        PROVE  /\ pending.id # proc'[a].id
               /\ \A p \in Operators : ~At(p, "idle")' => proc'[p].id # proc'[a].id
    BY <1>0, <2>0, <2>1, <2>2 DEF OnePlace, At
  <2>3. ASSUME NEW p \in Operators, proc'[p].pc \in Carrying PROVE pending.id # proc'[p].id
    BY <1>0, <2>0, <2>1, <2>3 DEF OnePlace, Carrying, PaySteps
  <2>4. ASSUME NEW q \in Procs, Unpaid(q)' PROVE ~Paid(proc[q].id)'
    <3>1. CASE q = o
      BY <2>0, <2>1, <3>1 DEF OnePlace, Paid
    <3>2. CASE q # o
      BY <2>0, <2>1, <2>4, <3>2 DEF OnePlace, Paid, Unpaid
    <3> QED
      BY <3>1, <3>2
  <2>5. ~Paid(pending.id)'
    BY <2>0 DEF OnePlace, Paid
  <2> QED
    BY <2>0, <2>2, <2>3, <2>4, <2>5 DEF OnePlace, ChargedOnce
<1>4. ASSUME NEW p \in Procs, Charge(p) PROVE OnePlace' /\ ChargedOnce'
  <2>0. Onward(p) /\ pending' = pending /\ proc[p].pc \in {"charge", "retry"}
    BY <1>4, PaymentsOnward DEF Pay, Charge, files, At
  <2>1. CASE UNCHANGED intents
    BY <2>0, <2>1, OnePlaceStays
  <2>2. CASE ~UNCHANGED intents
    <3>1. PICK step \in {"log", NextTry(p)} :
            Land(p) /\ Turns(p, step, proc[p].id, proc[p].seen, Landed(p))
      BY <1>4, <2>2, Turning
    <3>2. proc[p].pi = 0
      BY <2>2, <3>1 DEF Land
    <3>3. step \in {"log", "retry", "idle", "release"} /\ Landed(p) # 0
      BY <2>0, <3>1, NewPayment DEF NextTry, At
    <3>4. ~Unpaid(p)'
      BY <3>1, <3>3 DEF Turns, Unpaid, Vetting, Approving
    <3> QED
      BY <2>0, <3>1, <3>2, <3>4, OnePlaceLands
  <2> QED
    BY <2>1, <2>2
<1>5. ASSUME NEW a \in Agents, AgentStep(a) PROVE OnePlace' /\ ChargedOnce'
  <2>1. CASE Ask(a)
    BY <1>1, <2>1 DEF Ask
  <2>2. CASE ~Ask(a) /\ ~WritePending(a)
    <3>1. Onward(a) /\ UNCHANGED <<pending, intents>>
      BY <1>5, <2>2, AgentsOnward
      DEF AgentStep, Vet, Load, Create, Judge, LookPending, SendCode, files, stripe
    <3> QED
      BY <1>0, <3>1, OnePlaceStays
  <2> QED
    BY <1>2, <2>1, <2>2
<1>6. ASSUME NEW o \in Operators, OperatorStep(o) PROVE OnePlace' /\ ChargedOnce'
  <2>1. CASE Read(o)
    BY <1>3, <2>1 DEF Read
  <2>2. CASE ~Read(o)
    <3>1. Onward(o) /\ UNCHANGED intents /\ (pending' = pending \/ pending' = None)
      BY <1>6, <2>2, OperatorsOnward
      DEF OperatorStep, DropExpired, CheckCode, DropCode, Act, VetRefund, Refund, LogRefund, files,
          stripe
    <3> QED
      BY <1>0, <3>1, OnePlaceStays
  <2> QED
    BY <2>1, <2>2
<1>7. ASSUME NEW p \in Procs, Reserve(p) \/ Save(p) \/ Release(p) \/ Log(p) \/ Die(p)
      PROVE  OnePlace' /\ ChargedOnce'
  <2>1. Onward(p) /\ UNCHANGED <<pending, intents>>
    BY <1>7, PaymentsOnward DEF Pay, Reserve, Save, Release, Log, Die, files, stripe
  <2> QED
    BY <2>1, OnePlaceStays
<1>8. CASE UNCHANGED <<pending, intents, proc>>
  BY <1>8 DEF OnePlace, ChargedOnce, Paid, Unpaid, At
<1> QED
  BY <1>4, <1>5, <1>6, <1>7, <1>8 DEF Next, Pay, Reset, Toggle, Tick, vars, files, stripe

\* With one operator no request is charged twice, however often its approval is
\* tried and whatever is lost or dies on the way.
THEOREM RequestsChargedOnce ==
  ASSUME OneOperator
  PROVE  Spec => []ChargedOnce
<1>1. Init => OwnRequests /\ OnePlace /\ ChargedOnce
  BY DEF Init, Idle, At, OwnRequests, OnePlace, ChargedOnce, Unpaid, Vetting, Approving, Carrying,
         PaySteps, Procs
<1>2. /\ TypeOK /\ Known /\ FileThere /\ OwnRequests /\ OnePlace /\ ChargedOnce /\ [Next]_vars
      => (OwnRequests /\ OnePlace /\ ChargedOnce)'
  BY OwnRequestsStep, OnePlaceStep
<1> QED
  BY <1>1, <1>2, TypesHold, PTL DEF Spec

-----------------------------------------------------------------------------
(* Refunds.                                                                *)

\* What Refundable says of a process.
RefundVetted(p) ==
  /\ proc[p].pc \notin {"idle", "vet"} => OfCharge(proc[p].id)
  /\ proc[p].pc \in {"refund", "refunding", "logging"} => Request(p).script = "refund"

LEMMA ChargesStay ==
  ASSUME TypeOK, Known, [Next]_vars
  PROVE  /\ charges \subseteq charges'
         /\ \A i \in DOMAIN req : OfCharge(i) => OfCharge(i)'
<1>1. charges \subseteq charges'
  BY DEF Next, vars, AgentStep, Ask, Begin, Vet, Load, Create, Judge, LookPending, WritePending,
         SendCode, OperatorStep, Read, ReadPending, DropExpired, CheckCode, DropCode, Act, VetRefund,
         Refund, LogRefund, Pay, Reserve, Save, Charge, Release, Log, Die, Reset, Toggle, Tick, log
<1> QED
  BY <1>1, RequestsStay DEF OfCharge

LEMMA RefundableMoves ==
  ASSUME TypeOK, Known, FileThere, [Next]_vars, Refundable,
         NEW p \in Procs, Others(p), RefundVetted(p)',
         \/ pending' = pending \/ pending' = None
         \/ pending'.id = proc[p].id /\ proc[p].pc \notin {"idle", "vet"}
  PROVE  Refundable'
<1>0. \A q \in Procs : ~At(q, "idle") => proc[q].id \in DOMAIN req
  BY DEF Known
<1>1. ASSUME NEW q \in Procs, q # p PROVE RefundVetted(q)'
  <2>0. proc'[q] = proc[q]
    BY <1>1 DEF Others
  <2>1. PICK i : i = proc[q].id
    OBVIOUS
  <2>2. ASSUME proc[q].pc # "idle" PROVE i \in DOMAIN req /\ req'[i] = req[i]
    BY <1>0, <2>1, <2>2, RequestsStay DEF At
  <2>3. ASSUME proc[q].pc \notin {"idle", "vet"} PROVE OfCharge(i)'
    BY <2>1, <2>2, <2>3, ChargesStay DEF Refundable
  <2>4. ASSUME proc[q].pc \in {"refund", "refunding", "logging"} PROVE req'[i].script = "refund"
    BY <2>1, <2>2, <2>4 DEF Refundable, Request
  <2> QED
    BY <2>0, <2>1, <2>3, <2>4 DEF RefundVetted, OfCharge, Request
<1>2. ASSUME pending' # None PROVE OfCharge(pending.id)'
  <2>1. PICK i : i = pending'.id
    OBVIOUS
  <2>2. i \in DOMAIN req /\ OfCharge(i)
    BY <1>0, <1>2, <2>1 DEF Refundable, Known, At
  <2> QED
    BY <2>1, <2>2, ChargesStay DEF OfCharge
<1> QED
  BY <1>1, <1>2 DEF Refundable, RefundVetted

LEMMA RefundableStep ==
  ASSUME TypeOK, Known, FileThere, [Next]_vars, Refundable
  PROVE  Refundable'
<1>0. Agents \subseteq Procs /\ Operators \subseteq Procs
      /\ \A q \in Procs : ~At(q, "idle") => proc[q].id \in DOMAIN req
  BY DEF Procs, Known
\* A step that goes on with a vetted request.
<1>a. ASSUME NEW p \in Procs, Onward(p), ~At(p, "vet") \/ proc'[p].pc = "idle",
             proc'[p].pc \in {"refund", "refunding", "logging"} => Request(p).script = "refund"
      PROVE  Others(p) /\ RefundVetted(p)'
  <2>1. CASE proc'[p].pc = "idle"
    BY <1>a, <2>1 DEF Onward, RefundVetted
  <2>2. CASE proc'[p].pc # "idle"
    <3>1. PICK i : i = proc[p].id
      OBVIOUS
    <3>2. i \in DOMAIN req /\ req'[i] = req[i] /\ proc'[p].id = i /\ OfCharge(i)
      BY <1>0, <1>a, <2>2, <3>1, RequestsStay DEF Onward, Refundable, At
    <3>3. OfCharge(i)'
      BY <3>2, ChargesStay
    <3> QED
      BY <1>a, <3>1, <3>2, <3>3 DEF Onward, RefundVetted, OfCharge, Request
  <2> QED
    BY <2>1, <2>2
<1>1. ASSUME NEW a \in Agents, NEW r \in Asked, Begin(a, r) PROVE Refundable'
  <2>1. Others(a) /\ RefundVetted(a)'
    <3>1. CASE Leaves(a)
      BY <3>1 DEF Leaves, Turns, Others, RefundVetted
    <3>2. ASSUME NEW step \in {"vet", "load", "charge"}, Begun(a, r, step)
          PROVE  Others(a) /\ RefundVetted(a)'
      BY <1>1, <3>2, NewRequest DEF Begun, Turns, Others, RefundVetted, OfCharge
    <3> QED
      BY <1>1, <3>1, <3>2, Turning
  <2> QED
    BY <1>0, <1>1, <2>1, RefundableMoves DEF Begin, files
<1>2. ASSUME NEW a \in Agents, Vet(a) PROVE Refundable'
  <2>0. Onward(a) /\ UNCHANGED <<pending, charges, req>>
    BY <1>2, AgentsOnward DEF AgentStep, Ask, Begin, Vet, At, files, log
  <2>1. CASE proc'[a].pc = "idle"
    BY <1>0, <1>a, <2>0, <2>1, RefundableMoves
  <2>2. CASE proc'[a].pc # "idle"
    <3>1. Exit(a) => proc'[a].pc = "idle"
      BY <1>0, RequestTypes, Moves DEF Leaves, Turns
    <3>2. GoTo(a, "load") /\ Request(a).pi \in charges
      BY <1>2, <2>2, <3>1 DEF Vet
    <3>3. proc'[a].pc = "load" /\ proc'[a].id = proc[a].id
      BY <1>0, <3>2, RequestTypes, Moves DEF Stays, Turns, Steps, AgentSteps
    <3>4. RefundVetted(a)'
      BY <2>0, <3>2, <3>3 DEF RefundVetted, OfCharge, Request
    <3> QED
      BY <1>0, <2>0, <3>4, RefundableMoves DEF Onward
  <2> QED
    BY <2>1, <2>2
<1>3. ASSUME NEW a \in Agents, AgentStep(a), ~Ask(a), ~Vet(a) PROVE Refundable'
  <2>1. Onward(a) /\ proc[a].pc \notin {"idle", "vet"}
    BY <1>3, AgentsOnward
    DEF AgentStep, Load, Create, Judge, LookPending, WritePending, SendCode, At
  <2>2. proc'[a].pc \notin {"refund", "refunding", "logging"}
    <3>1. {"look", "reserve", "judge", "write", "send"} \subseteq Steps
      BY DEF Steps, AgentSteps, PaySteps
    <3>2. ASSUME NEW step \in {"look", "reserve", "judge", "write", "send"},
                 GoTo(a, step) \/ Exit(a)
          PROVE  proc'[a].pc \notin {"refund", "refunding", "logging"}
      BY <1>0, <3>1, <3>2, RequestTypes, Moves DEF Stays, Leaves, Turns
    <3>3. CASE Load(a)
      BY <3>3, Turning DEF Turns
    <3>4. CASE Judge(a)
      <4>1. GoTo(a, "look") \/ GoTo(a, "reserve")
        BY <3>4 DEF Judge
      <4> QED
        BY <3>2, <4>1
    <3>5. CASE Create(a) \/ LookPending(a) \/ WritePending(a) \/ SendCode(a)
      BY <3>2, <3>5 DEF Create, LookPending, WritePending, SendCode
    <3> QED
      BY <1>3, <3>3, <3>4, <3>5 DEF AgentStep
  <2>3. pending' = pending \/ pending'.id = proc[a].id
    BY <1>3 DEF AgentStep, Load, Create, Judge, LookPending, WritePending, SendCode, files
  <2> QED
    BY <1>0, <1>a, <2>1, <2>2, <2>3, RefundableMoves DEF At
<1>4. ASSUME NEW o \in Operators, NEW typed \in sent, ReadPending(o, typed) PROVE Refundable'
  <2>1. /\ proc'[o].pc \in {"expired", "check"} /\ proc'[o].id = pending.id /\ Others(o)
        /\ UNCHANGED <<pending, req, charges>> /\ pending # None
    BY <1>4, Turning DEF Turns, Others, ReadPending, files, log
  <2>2. RefundVetted(o)'
    BY <2>1 DEF RefundVetted, Refundable, OfCharge
  <2> QED
    BY <1>0, <2>1, <2>2, RefundableMoves
<1>5. ASSUME NEW o \in Operators, OperatorStep(o), ~Read(o) PROVE Refundable'
  <2>1. Onward(o) /\ ~At(o, "vet") /\ (pending' = pending \/ pending' = None)
    BY <1>5, OperatorsOnward
    DEF OperatorStep, DropExpired, CheckCode, DropCode, Act, VetRefund, Refund, LogRefund, At, files
  <2>2. ASSUME proc'[o].pc \in {"refund", "refunding", "logging"}
        PROVE  Request(o).script = "refund"
    <3>1. CASE proc[o].pc \in {"refund", "refunding", "logging"}
      BY <1>0, <3>1 DEF Refundable
    <3>2. CASE Act(o)
      <4>1. {"refund", "reserve"} \subseteq Steps /\ proc \in [Procs -> Runs]
        BY RequestTypes DEF Steps, OperSteps, PaySteps
      <4>2. Exit(o) => proc'[o].pc = "idle"
        BY <1>0, <4>1, Moves DEF Leaves, Turns
      <4>3. GoTo(o, "reserve") => proc'[o].pc = "reserve"
        BY <1>0, <4>1, Moves DEF Stays, Turns
      <4> QED
        BY <2>2, <3>2, <4>2, <4>3 DEF Act
    <3>3. CASE DropExpired(o) \/ CheckCode(o) \/ DropCode(o)
      <4>1. {"stale", "accept", "act"} \subseteq Steps /\ proc \in [Procs -> Runs]
        BY RequestTypes DEF Steps, OperSteps
      <4>2. Exit(o) \/ GoTo(o, "stale") \/ GoTo(o, "accept") \/ GoTo(o, "act")
        BY <3>3 DEF DropExpired, CheckCode, DropCode
      <4> QED
        BY <1>0, <2>2, <4>1, <4>2, Moves DEF Leaves, Stays, Turns
    <3> QED
      BY <1>5, <3>1, <3>2, <3>3 DEF OperatorStep, VetRefund, Refund, LogRefund, At
  <2> QED
    BY <1>0, <1>a, <2>1, <2>2, RefundableMoves
<1>6. ASSUME NEW p \in Procs, Pay(p) \/ Die(p) PROVE Refundable'
  <2>1. Onward(p) /\ (~At(p, "vet") \/ proc'[p].pc = "idle") /\ pending' = pending
    <3>1. Die(p) => proc'[p].pc = "idle"
      BY RequestTypes, Moves DEF Die, Leaves, Turns
    <3> QED
      BY <1>6, <3>1, PaymentsOnward
      DEF Pay, Reserve, Save, Charge, Release, Log, Die, At, files
  <2>2. proc'[p].pc \notin {"refund", "refunding", "logging"}
    <3>1. proc \in [Procs -> Runs] /\ {"charge"} \subseteq Steps
      BY RequestTypes DEF Steps, PaySteps
    <3>2. CASE Reserve(p)
      BY <3>2, Turning DEF Leaves, Turns
    <3>3. CASE Save(p) \/ Release(p) \/ Log(p) \/ Die(p)
      BY <3>1, <3>3, Moves DEF Save, Release, Log, Die, Leaves, Stays, Turns
    <3>4. CASE Charge(p)
      BY <3>4, Turning DEF NextTry, Stays, Turns
    <3> QED
      BY <1>6, <3>2, <3>3, <3>4 DEF Pay
  <2> QED
    BY <1>a, <2>1, <2>2, RefundableMoves
<1>7. CASE UNCHANGED <<pending, proc, req, charges>>
  BY <1>7 DEF Refundable, OfCharge, Request
<1> QED
  BY <1>1, <1>2, <1>3, <1>4, <1>5, <1>6, <1>7
  DEF Next, AgentStep, OperatorStep, Ask, Read, Reset, Toggle, Tick, vars, files, log

\* The request an operator is refunding, its payment and its amount.
LEMMA RefundOf ==
  ASSUME TypeOK, Known, Refundable, NEW o \in Operators,
         proc[o].pc \in {"refund", "refunding", "logging"}
  PROVE  /\ proc[o].id \in DOMAIN req /\ Amount(o) \in Nat
         /\ Request(o).pi \in DOMAIN intents /\ Request(o).pi \in Payments
<1>1. ~At(o, "idle") /\ o \in Procs
  BY DEF At, Procs
<1>2. OfCharge(proc[o].id) /\ Request(o).script = "refund"
  BY <1>1 DEF Refundable
<1>3. Request(o).pi \in charges
  BY <1>2 DEF OfCharge, Request
<1> QED
  BY <1>1, <1>3, RequestTypes DEF TypeOK, Request

\* What was paid with each payment.
LEMMA PaidAmounts ==
  ASSUME TypeOK, Known
  PROVE  \A i \in DOMAIN intents : intents[i] \in DOMAIN req /\ Worth(intents[i]) \in Nat
BY RequestTypes DEF Known

LEMMA PaidStays ==
  ASSUME TypeOK, Known, [Next]_vars
  PROVE  \A i \in DOMAIN intents :
           i \in DOMAIN intents' /\ Worth(intents[i])' = Worth(intents[i])
<1> SUFFICES ASSUME NEW i \in DOMAIN intents
             PROVE  i \in DOMAIN intents' /\ Worth(intents[i])' = Worth(intents[i])
  OBVIOUS
<1>1. i \in DOMAIN intents' /\ intents'[i] = intents[i] /\ intents[i] \in DOMAIN req
  BY PaymentsStay, PaidAmounts
<1>2. req'[intents[i]] = req[intents[i]]
  BY <1>1, RequestsStay
<1> QED
  BY <1>1, <1>2 DEF Worth

\* Whoever stays with its refund stays with its amount.
LEMMA RefundStays ==
  ASSUME TypeOK, Known, Refundable, [Next]_vars, NEW o \in Operators,
         proc[o].pc \in {"refund", "refunding", "logging"}, proc'[o].id = proc[o].id
  PROVE  Request(o)' = Request(o) /\ Amount(o)' = Amount(o)
<1>1. proc[o].id \in DOMAIN req
  BY RefundOf
<1>2. Request(o)' = Request(o)
  BY <1>1, RequestsStay DEF Request
<1> QED
  BY <1>2 DEF Request, Amount, Worth

\* A step that neither refunds a payment nor records it, and takes no operator
\* to or from doing so.
LEMMA CountsStay ==
  ASSUME TypeOK, Known, [Next]_vars, TypeOK', Known', Refundable,
         NEW i \in Payments, Counted(i),
         refunded'[i] = refunded[i], refunds'[i] = refunds[i], unlogged[i] <= unlogged'[i],
         \A o \in Operators : AtRefund(o, i)' => proc'[o] = proc[o],
         \A o \in Operators : Uncounted(o, i) => proc'[o] = proc[o]
  PROVE  Counted(i)'
<1>0. PICK f, g, u, v \in Nat :
        f = refunded[i] /\ g = refunds[i] /\ u = unlogged[i] /\ v = unlogged'[i] /\ u <= v
  BY DEF TypeOK
<1>a. i \in DOMAIN intents =>
        i \in DOMAIN intents' /\ Worth(intents[i])' = Worth(intents[i])
  BY PaidStays
<1>b. ASSUME NEW o \in Operators, proc'[o] = proc[o], proc[o].pc \in {"refunding", "logging"}
      PROVE  Request(o)' = Request(o) /\ Amount(o)' = Amount(o)
  BY <1>b, RefundStays
<1>1. ASSUME i \notin DOMAIN intents' PROVE refunded'[i] = 0 /\ refunds'[i] = 0
  BY <1>1, <1>a DEF Counted
<1>2. ASSUME i \in DOMAIN intents' PROVE refunds'[i] <= Worth(intents[i])'
  <2>1. CASE i \in DOMAIN intents
    BY <1>a, <2>1 DEF Counted
  <2>2. CASE i \notin DOMAIN intents
    <3>1. PICK m \in Nat : m = Worth(intents[i])'
      <4>1. intents'[i] \in DOMAIN req' /\ req' \in Seq(Asked)
        BY <1>2 DEF Known, TypeOK
      <4>2. req'[intents'[i]] \in Asked
        BY <4>1
      <4> QED
        BY <4>2, AskedAssumption DEF Worth
    <3>2. refunds'[i] = 0
      BY <2>2 DEF Counted
    <3> QED
      BY <3>1, <3>2
  <2> QED
    BY <2>1, <2>2
<1>c. ASSUME NEW o \in Operators, AtRefund(o, i)'
      PROVE  AtRefund(o, i) /\ Amount(o)' = Amount(o) /\ i \in DOMAIN intents
  <2>1. proc'[o] = proc[o] /\ proc[o].pc \in {"refunding", "logging"}
    BY <1>c DEF AtRefund
  <2>2. AtRefund(o, i) /\ Amount(o)' = Amount(o)
    BY <1>b, <1>c, <2>1 DEF AtRefund
  <2> QED
    BY <2>1, <2>2, RefundOf DEF AtRefund
<1>3. ASSUME NEW o \in Operators, AtRefund(o, i)'
      PROVE  refunds'[i] + Amount(o)' <= Worth(intents[i])'
  <2>1. refunds[i] + Amount(o) <= Worth(intents[i])
    BY <1>3, <1>c DEF Counted
  <2> QED
    BY <1>3, <1>a, <1>c, <2>1
<1>4. ASSUME NEW o \in Operators, NEW q \in Operators, AtRefund(o, i)', AtRefund(q, i)'
      PROVE  o = q
  BY <1>4, <1>c DEF Counted
<1>5. \/ refunded'[i] <= refunds'[i] + unlogged'[i]
      \/ \E o \in Operators :
           Uncounted(o, i)' /\ refunded'[i] <= refunds'[i] + unlogged'[i] + Amount(o)'
  <2>1. ASSUME NEW o \in Operators, Uncounted(o, i), f <= g + u + Amount(o)
        PROVE  Uncounted(o, i)' /\ refunded'[i] <= refunds'[i] + unlogged'[i] + Amount(o)'
    <3>1. Uncounted(o, i)' /\ Amount(o)' = Amount(o) /\ Amount(o) \in Nat
      BY <1>b, <2>1, RefundOf DEF Uncounted, At
    <3>2. PICK m \in Nat : m = Amount(o)
      BY <3>1
    <3>3. f <= g + v + m
      BY <1>0, <2>1, <3>2
    <3> QED
      BY <1>0, <3>1, <3>2, <3>3
  <2>2. f <= g + u => f <= g + v
    BY <1>0
  <2> QED
    BY <1>0, <2>1, <2>2 DEF Counted
<1> QED
  BY <1>1, <1>2, <1>3, <1>4, <1>5 DEF Counted

\* The one operator at work on a refund, when nothing is asked or paid meanwhile.
LEMMA CountsMove ==
  ASSUME TypeOK, Known, [Next]_vars, Refundable, NEW o \in Operators,
         proc[o].pc \in {"refund", "refunding", "logging"}, UNCHANGED <<intents, req>>,
         NEW i, i = Request(o).pi, \A q \in Operators \ {o} : ~AtRefund(q, i),
         NEW m \in Nat, m = Amount(o),
         NEW f \in Nat, f = refunded'[i], NEW g \in Nat, g = refunds'[i],
         NEW u \in Nat, u = unlogged'[i],
         g <= Worth(intents[i]),
         \/ Leaves(o) /\ f <= g + u
         \/ Stays(o, "refunding") /\ f <= g + u /\ g + m <= Worth(intents[i])
         \/ Stays(o, "logging") /\ f <= g + u + m /\ g + m <= Worth(intents[i])
  PROVE  Counted(i)'
<1>1. i \in DOMAIN intents' /\ Worth(intents[i])' = Worth(intents[i])
  BY RefundOf, PaidStays
<1>2. \A q \in Operators \ {o} : proc'[q] = proc[q]
  BY DEF Leaves, Stays, Turns, Procs
<1>3. ASSUME NEW q \in Operators \ {o} PROVE ~AtRefund(q, i)'
  <2>1. ~AtRefund(q, i)
    OBVIOUS
  <2> QED
    BY <1>2, <2>1, RefundStays DEF AtRefund
<1>4. proc'[o].pc \in {"refunding", "logging"} =>
        /\ Request(o)' = Request(o) /\ Amount(o)' = m /\ Request(o)'.pi = i
        /\ g + m <= Worth(intents[i])
  <2>1. proc'[o].pc \in {"refunding", "logging"} =>
          proc'[o].id = proc[o].id /\ g + m <= Worth(intents[i])
    BY DEF Leaves, Stays, Turns
  <2> QED
    BY <2>1, RefundStays
<1>5. f <= g + u \/ (Uncounted(o, i)' /\ f <= g + u + m)
  BY <1>4 DEF Stays, Turns, Uncounted, At
<1>6. \A q \in Operators : AtRefund(q, i)' => q = o /\ g + Amount(q)' <= Worth(intents[i])'
  BY <1>1, <1>3, <1>4 DEF AtRefund
<1>7. Uncounted(o, i)' => Amount(o)' = m
  BY <1>4 DEF Uncounted, At
<1>8. \/ refunded'[i] <= refunds'[i] + unlogged'[i]
      \/ \E q \in Operators :
           Uncounted(q, i)' /\ refunded'[i] <= refunds'[i] + unlogged'[i] + Amount(q)'
  BY <1>5, <1>7
<1>9. refunds'[i] <= Worth(intents[i])'
  BY <1>1
<1> QED
  BY <1>1, <1>6, <1>8, <1>9 DEF Counted

\* A payment once crossed stays so.
LEMMA CrossedStays ==
  ASSUME [Next]_vars
  PROVE  crossed \subseteq crossed'
BY DEF Next, vars, AgentStep, Ask, Begin, Vet, Load, Create, Judge, LookPending, WritePending,
       SendCode, OperatorStep, Read, ReadPending, DropExpired, CheckCode, DropCode, Act, VetRefund,
       Refund, LogRefund, Pay, Reserve, Save, Charge, Release, Log, Die, Reset, Toggle, Tick, ghosts

LEMMA RefundsCountedStep ==
  ASSUME TypeOK, Known, FileThere, [Next]_vars, TypeOK', Known', Refundable, RefundsCounted
  PROVE  RefundsCounted'
<1> SUFFICES ASSUME NEW i \in Payments, i \notin crossed'
             PROVE  Counted(i)'
  BY DEF RefundsCounted
<1>0. /\ Agents \subseteq Procs /\ Operators \subseteq Procs /\ proc \in [Procs -> Runs]
      /\ Agents \cap Operators = {} /\ {"refunding", "logging"} \subseteq Steps
  BY RequestTypes, ActorAssumption DEF Procs, Steps, OperSteps
<1>a. Counted(i)
  BY CrossedStays DEF RefundsCounted
<1>b. PICK f, g, u \in Nat : f = refunded[i] /\ g = refunds[i] /\ u = unlogged[i]
  BY DEF TypeOK
<1>c. /\ refunded \in [Payments -> Nat] /\ refunds \in [Payments -> Nat]
      /\ unlogged \in [Payments -> Nat]
  BY DEF TypeOK
<1>u. unlogged'[i] = unlogged[i] => unlogged[i] <= unlogged'[i]
  BY <1>b
\* A step of p that has nothing to do with a refund of this payment.
<1>d. ASSUME NEW p \in Procs, Others(p),
             refunded'[i] = refunded[i], refunds'[i] = refunds[i], unlogged[i] <= unlogged'[i],
             p \in Operators => ~AtRefund(p, i)' /\ ~Uncounted(p, i)
      PROVE  Counted(i)'
  <2>1. \A o \in Operators : o # p => proc'[o] = proc[o]
    BY <1>0, <1>d DEF Others
  <2>2. \A o \in Operators : AtRefund(o, i)' => proc'[o] = proc[o]
    BY <1>d, <2>1
  <2>3. \A o \in Operators : Uncounted(o, i) => proc'[o] = proc[o]
    BY <1>d, <2>1
  <2> QED
    BY <1>a, <1>d, <2>2, <2>3, CountsStay
\* What the counts say before a step of the operator at work on it.
<1>e. ASSUME NEW o \in Operators, AtRefund(o, i), NEW m \in Nat, m = Amount(o)
      PROVE  /\ i \in DOMAIN intents /\ g <= Worth(intents[i]) /\ g + m <= Worth(intents[i])
             /\ \A q \in Operators \ {o} : ~AtRefund(q, i)
             /\ f <= g + u \/ (At(o, "logging") /\ f <= g + u + m)
  <2>1. i \in DOMAIN intents /\ g <= Worth(intents[i]) /\ g + m <= Worth(intents[i])
    BY <1>a, <1>b, <1>e, RefundOf DEF Counted, AtRefund
  <2>2. \A q \in Operators : AtRefund(q, i) => q = o
    BY <1>a, <1>e DEF Counted
  <2>3. \A q \in Operators : Uncounted(q, i) => q = o
    BY <2>2 DEF Uncounted, AtRefund, At
  <2> QED
    BY <1>a, <1>b, <1>e, <2>1, <2>2, <2>3 DEF Counted, Uncounted
\* An operator's step on the refund of another payment.
<1>f. ASSUME NEW o \in Operators, proc[o].pc \in {"refund", "refunding", "logging"},
             Request(o).pi # i, Leaves(o) \/ (\E step \in Steps : Stays(o, step)),
             refunded'[i] = refunded[i], refunds'[i] = refunds[i], unlogged'[i] = unlogged[i]
      PROVE  Counted(i)'
  <2>1. Others(o) /\ (proc'[o].pc \in {"refunding", "logging"} => proc'[o].id = proc[o].id)
    BY <1>f DEF Leaves, Stays, Turns, Others
  <2>2. ~AtRefund(o, i)' /\ ~Uncounted(o, i)
    BY <1>f, <2>1, RefundStays DEF AtRefund, Uncounted
  <2> QED
    BY <1>0, <1>d, <1>f, <1>u, <2>1, <2>2
<1>1. ASSUME NEW o \in Operators, VetRefund(o) PROVE Counted(i)'
  <2>0. /\ proc[o].pc = "refund" /\ UNCHANGED <<intents, req, refunded, refunds, unlogged>>
        /\ Leaves(o) \/ Stays(o, "refunding")
    BY <1>0, <1>1, Moves DEF VetRefund, At, stripe, log, losses
  <2>1. CASE Request(o).pi # i
    BY <1>0, <1>f, <2>0, <2>1
  <2>2. CASE Leaves(o)
    <3>1. Others(o) /\ ~AtRefund(o, i)' /\ ~Uncounted(o, i)
      BY <2>0, <2>2 DEF Leaves, Turns, Others, AtRefund, Uncounted, At
    <3> QED
      BY <1>0, <1>d, <1>u, <2>0, <3>1
  <2>3. CASE Request(o).pi = i /\ ~Leaves(o)
    <3>1. PICK m \in Nat : m = Amount(o)
      BY <2>0, RefundOf
    <3>2. PICK w \in Nat : w = Worth(intents[i])
      BY <2>0, <2>3, RefundOf, PaidAmounts
    <3>3. ~Exit(o)
      BY <1>0, <2>3, Moves
    <3>4. ~Above(Plus(g, Asks(o)), w) /\ ~Refunding(o, i)
      BY <1>1, <1>b, <2>3, <3>2, <3>3 DEF VetRefund
    <3>5. \A q \in Operators \ {o} : ~AtRefund(q, i)
      BY <3>4 DEF Refunding, AtRefund
    <3>6. i \in DOMAIN intents /\ g <= w
      BY <1>a, <1>b, <2>0, <2>3, <3>2, RefundOf DEF Counted
    <3>7. g + m <= w
      <4>1. CASE Asks(o) = NaN
        <5>1. m = 0
          BY <3>1, <4>1 DEF Amount, Worth, Asks, Request
        <5> QED
          BY <3>6, <5>1
      <4>2. CASE Asks(o) # NaN
        <5>1. m = Asks(o)
          BY <3>1, <4>2 DEF Amount, Worth, Asks, Request
        <5>2. g # NaN /\ w # NaN /\ g + m # NaN
          BY ActorAssumption
        <5> QED
          BY <3>4, <4>2, <5>1, <5>2 DEF Above, Plus
      <4> QED
        BY <4>1, <4>2
    <3>8. \A q \in Operators : ~Uncounted(q, i)
      BY <2>0, <3>5 DEF Uncounted, AtRefund, At
    <3>9. f <= g + u
      BY <1>a, <1>b, <3>8 DEF Counted
    <3> QED
      BY <1>b, <2>0, <2>3, <3>1, <3>2, <3>5, <3>6, <3>7, <3>9, CountsMove
  <2> QED
    BY <2>1, <2>2, <2>3
<1>2. ASSUME NEW o \in Operators, Refund(o) PROVE Counted(i)'
  <2>0. /\ proc[o].pc = "refunding" /\ UNCHANGED <<intents, req, refunds>>
        /\ Leaves(o) \/ Stays(o, "logging")
    BY <1>0, <1>2, Moves DEF Refund, At, log
  <2>1. PICK k, m \in Nat : k = Request(o).pi /\ m = Amount(o)
    BY <2>0, RequestTypes, RefundOf DEF Request
  <2>2. CASE k # i
    <3>1. refunded'[i] = refunded[i] /\ unlogged'[i] = unlogged[i]
      BY <1>2, <1>c, <2>1, <2>2 DEF Refund
    <3> QED
      BY <1>0, <1>f, <2>0, <2>1, <2>2, <3>1
  <2>3. CASE k = i
    <3>1. AtRefund(o, i) /\ ~At(o, "logging")
      BY <2>0, <2>1, <2>3 DEF AtRefund, At
    <3>2. PICK w \in Nat : w = Worth(intents[i])
      BY <2>0, <2>1, <2>3, RefundOf, PaidAmounts
    <3>3. /\ g <= w /\ g + m <= w /\ f <= g + u
          /\ \A q \in Operators \ {o} : ~AtRefund(q, i)
      BY <1>e, <2>1, <3>1, <3>2
    <3>4. CASE GoTo(o, "logging") /\ refunded' = [refunded EXCEPT ![i] = @ + m] /\ UNCHANGED unlogged
      <4>1. refunded'[i] = f + m /\ unlogged'[i] = u /\ refunds'[i] = g
        BY <1>b, <1>c, <2>0, <3>4
      <4>2. Stays(o, "logging") /\ f + m <= g + u + m /\ f + m \in Nat
        BY <1>0, <3>3, <3>4, Moves
      <4> QED
        BY <2>0, <2>1, <2>3, <3>2, <3>3, <4>1, <4>2, CountsMove
    <3>5. CASE /\ Exit(o) /\ refunded' = [refunded EXCEPT ![i] = @ + m]
               /\ unlogged' = [unlogged EXCEPT ![i] = @ + m]
      <4>1. refunded'[i] = f + m /\ unlogged'[i] = u + m /\ refunds'[i] = g
        BY <1>b, <1>c, <2>0, <3>5
      <4>2. Leaves(o) /\ f + m <= g + (u + m) /\ f + m \in Nat /\ u + m \in Nat
        BY <1>0, <3>3, <3>5, Moves
      <4> QED
        BY <2>0, <2>1, <2>3, <3>2, <3>3, <4>1, <4>2, CountsMove
    <3>6. CASE Exit(o) /\ UNCHANGED <<refunded, unlogged>>
      <4>1. refunded'[i] = f /\ unlogged'[i] = u /\ refunds'[i] = g /\ Leaves(o)
        BY <1>0, <1>b, <2>0, <3>6, Moves
      <4> QED
        BY <2>0, <2>1, <2>3, <3>2, <3>3, <4>1, CountsMove
    <3> QED
      BY <1>2, <2>1, <2>3, <3>4, <3>5, <3>6 DEF Refund
  <2> QED
    BY <2>2, <2>3
<1>3. ASSUME NEW o \in Operators, LogRefund(o) PROVE Counted(i)'
  <2>0. /\ proc[o].pc = "logging" /\ UNCHANGED <<intents, req, refunded, unlogged>> /\ Leaves(o)
    BY <1>0, <1>3, Moves DEF LogRefund, At, stripe, ghosts, losses
  <2>1. PICK k, m \in Nat : k = Request(o).pi /\ m = Amount(o)
    BY <2>0, RequestTypes, RefundOf DEF Request
  <2>2. refunds' = [refunds EXCEPT ![k] = @ + m]
    BY <1>3, <2>1 DEF LogRefund
  <2>3. CASE k # i
    <3>1. refunds'[i] = refunds[i]
      BY <1>c, <2>2, <2>3
    <3> QED
      BY <1>0, <1>f, <2>0, <2>1, <2>3, <3>1
  <2>4. CASE k = i
    <3>1. AtRefund(o, i) /\ At(o, "logging")
      BY <2>0, <2>1, <2>4 DEF AtRefund, At
    <3>2. PICK w \in Nat : w = Worth(intents[i])
      BY <2>0, <2>1, <2>4, RefundOf, PaidAmounts
    <3>3. g + m <= w /\ f <= g + u + m /\ \A q \in Operators \ {o} : ~AtRefund(q, i)
      BY <1>e, <2>1, <3>1, <3>2
    <3>4. refunds'[i] = g + m /\ refunded'[i] = f /\ unlogged'[i] = u
      BY <1>b, <1>c, <2>0, <2>2, <2>4
    <3>5. f <= (g + m) + u /\ g + m \in Nat
      BY <3>3
    <3> QED
      BY <2>0, <2>1, <2>4, <3>2, <3>3, <3>4, <3>5, CountsMove
  <2> QED
    BY <2>3, <2>4
<1>4. ASSUME NEW o \in Operators, Die(o), At(o, "logging") PROVE Counted(i)'
  <2>0. /\ proc[o].pc = "logging" /\ UNCHANGED <<intents, req, refunded, refunds>> /\ Leaves(o)
    BY <1>0, <1>4, Moves DEF Die, At, stripe, log
  <2>1. PICK k, m \in Nat : k = Request(o).pi /\ m = Amount(o)
    BY <2>0, RequestTypes, RefundOf DEF Request
  <2>2. unlogged' = [unlogged EXCEPT ![k] = @ + m]
    BY <1>4, <2>1 DEF Die
  <2>3. CASE k # i
    <3>1. unlogged'[i] = unlogged[i]
      BY <1>c, <2>2, <2>3
    <3> QED
      BY <1>0, <1>f, <2>0, <2>1, <2>3, <3>1
  <2>4. CASE k = i
    <3>1. AtRefund(o, i)
      BY <2>0, <2>1, <2>4 DEF AtRefund
    <3>2. PICK w \in Nat : w = Worth(intents[i])
      BY <2>0, <2>1, <2>4, RefundOf, PaidAmounts
    <3>3. g <= w /\ f <= g + u + m /\ \A q \in Operators \ {o} : ~AtRefund(q, i)
      BY <1>e, <2>1, <3>1, <3>2
    <3>4. unlogged'[i] = u + m /\ refunded'[i] = f /\ refunds'[i] = g
      BY <1>b, <1>c, <2>0, <2>2, <2>4
    <3>5. f <= g + (u + m) /\ u + m \in Nat
      BY <3>3
    <3> QED
      BY <2>0, <2>1, <2>4, <3>2, <3>3, <3>4, <3>5, CountsMove
  <2> QED
    BY <2>3, <2>4
\* Any other death, and every other step.
<1>5. ASSUME NEW p \in Procs, Die(p), p \in Operators => ~At(p, "logging") PROVE Counted(i)'
  <2>1. UNCHANGED <<refunded, refunds>> /\ Leaves(p) /\ ~At(p, "idle")
    BY <1>0, <1>5, Moves DEF Die, stripe, log
  <2>2. unlogged[i] <= unlogged'[i]
    <3>1. CASE At(p, "logging")
      <4>1. PICK m \in Nat : m = Amount(p)
        BY <2>1, RequestTypes
      <4>2. PICK k : k = Request(p).pi
        OBVIOUS
      <4>3. unlogged' = [unlogged EXCEPT ![k] = @ + m]
        BY <1>5, <3>1, <4>1, <4>2 DEF Die
      <4> QED
        BY <1>c, <4>3
    <3>2. CASE ~At(p, "logging")
      BY <1>u, <1>5, <3>2 DEF Die
    <3> QED
      BY <3>1, <3>2
  <2>3. Others(p) /\ (p \in Operators => ~AtRefund(p, i)' /\ ~Uncounted(p, i))
    BY <1>5, <2>1 DEF Leaves, Turns, Others, AtRefund, Uncounted
  <2> QED
    BY <1>d, <2>1, <2>2, <2>3
<1>6. ASSUME NEW p \in Procs, Others(p), UNCHANGED <<refunded, refunds, unlogged>>,
             p \in Operators => /\ proc'[p].pc \notin {"refunding", "logging"}
                                /\ ~At(p, "logging")
      PROVE  Counted(i)'
  <2>1. p \in Operators => ~AtRefund(p, i)' /\ ~Uncounted(p, i)
    BY <1>6 DEF AtRefund, Uncounted
  <2> QED
    BY <1>d, <1>u, <1>6, <2>1
<1>7. ASSUME NEW a \in Agents, AgentStep(a) PROVE Counted(i)'
  <2>1. Others(a)
    <3>1. ASSUME NEW r \in Asked, Begin(a, r) PROVE Others(a)
      BY <1>7, <3>1, Turning DEF Begun, Leaves, Turns, Others
    <3> QED
      BY <1>7, <3>1, AgentsOnward DEF Ask, Onward
  <2>2. UNCHANGED <<refunded, refunds, unlogged>>
    BY <1>7 DEF AgentStep, Ask, Begin, Vet, Load, Create, Judge, LookPending, WritePending, SendCode,
                stripe, log, ghosts, losses
  <2> QED
    BY <1>0, <1>6, <2>1, <2>2
<1>8. ASSUME NEW o \in Operators, Read(o) \/ DropExpired(o) \/ CheckCode(o) \/ DropCode(o) \/ Act(o)
      PROVE  Counted(i)'
  <2>0. /\ UNCHANGED <<refunded, refunds, unlogged>> /\ ~At(o, "logging")
        /\ {"stale", "accept", "act", "refund", "reserve"} \subseteq Steps
    BY <1>8 DEF Read, ReadPending, DropExpired, CheckCode, DropCode, Act, At, stripe, log, ghosts, losses,
                Steps, OperSteps, PaySteps
  <2>1. ASSUME NEW step \in {"stale", "accept", "act", "refund", "reserve"}, GoTo(o, step) \/ Exit(o)
        PROVE  Others(o) /\ proc'[o].pc \notin {"refunding", "logging"}
    BY <1>0, <2>0, <2>1, Moves DEF Stays, Leaves, Turns, Others
  <2>2. Others(o) /\ proc'[o].pc \notin {"refunding", "logging"}
    <3>1. ASSUME NEW typed \in sent, ReadPending(o, typed)
          PROVE  Others(o) /\ proc'[o].pc \notin {"refunding", "logging"}
      BY <1>0, <3>1, Turning DEF Turns, Others
    <3>2. CASE DropExpired(o) \/ CheckCode(o) \/ DropCode(o)
      BY <2>1, <3>2 DEF DropExpired, CheckCode, DropCode
    <3>3. CASE Act(o)
      <4>1. Exit(o) \/ GoTo(o, "refund") \/ GoTo(o, "reserve")
        BY <3>3 DEF Act
      <4> QED
        BY <2>1, <4>1
    <3> QED
      BY <1>8, <3>1, <3>2, <3>3 DEF Read
  <2> QED
    BY <1>0, <1>6, <2>0, <2>2
<1>9. ASSUME NEW p \in Procs, Pay(p) PROVE Counted(i)'
  <2>1. /\ Others(p) /\ UNCHANGED <<refunded, refunds, unlogged>> /\ ~At(p, "logging")
    BY <1>9, PaymentsOnward
    DEF Onward, Pay, Reserve, Save, Charge, Release, Log, At, stripe, log, ghosts, losses
  <2>2. proc'[p].pc \notin {"refunding", "logging"}
    <3>1. "charge" \in Steps
      BY DEF Steps, PaySteps
    <3>2. CASE Reserve(p)
      BY <3>2, Turning DEF Leaves, Turns
    <3>3. CASE Save(p) \/ Release(p) \/ Log(p)
      BY <1>0, <3>1, <3>3, Moves DEF Save, Release, Log, Leaves, Stays, Turns
    <3>4. CASE Charge(p)
      BY <3>4, Turning DEF NextTry, Stays, Turns
    <3> QED
      BY <1>9, <3>2, <3>3, <3>4 DEF Pay
  <2> QED
    BY <1>6, <2>1, <2>2
<1>10. CASE UNCHANGED <<refunded, refunds, unlogged, proc>>
  BY <1>a, <1>u, <1>10, CountsStay
<1> QED
  BY <1>1, <1>2, <1>3, <1>4, <1>5, <1>7, <1>8, <1>9, <1>10
  DEF Next, OperatorStep, Reset, Toggle, Tick, vars, stripe, log, ghosts, losses

\* No payment is refunded by more than it was, but for refunds that left no
\* record and payments two approvals refunded at once: however many approve, and
\* however they fail.
THEOREM RefundsCoveredHolds == Spec => []RefundsCovered
<1>1. Init => Refundable /\ RefundsCounted
  BY DEF Init, Idle, At, Refundable, RefundsCounted, Counted, AtRefund, Procs
<1>2. /\ TypeOK /\ Known /\ FileThere /\ [Next]_vars /\ Refundable /\ RefundsCounted
      /\ TypeOK' /\ Known'
      => (Refundable /\ RefundsCounted)'
  BY RefundableStep, RefundsCountedStep
<1>3. TypeOK /\ Known /\ Refundable /\ RefundsCounted => RefundsCovered
  <2> SUFFICES ASSUME TypeOK, Known, Refundable, RefundsCounted,
                      NEW i \in (Payments \cap DOMAIN intents) \ crossed
               PROVE  refunded[i] <= Worth(intents[i]) + unlogged[i]
    BY DEF RefundsCovered
  <2>1. Counted(i)
    BY DEF RefundsCounted
  <2>2. PICK f, g, u, n \in Nat :
          /\ f = refunded[i] /\ g = refunds[i] /\ u = unlogged[i] /\ n = Worth(intents[i])
          /\ g <= n
    BY <2>1, PaidAmounts DEF TypeOK, Counted
  <2>3. CASE f <= g + u
    BY <2>2, <2>3
  <2>4. ASSUME NEW o \in Operators, Uncounted(o, i), f <= g + u + Amount(o)
        PROVE  f <= n + u
    <3>1. PICK m \in Nat : m = Amount(o)
      BY <2>4, RefundOf DEF Uncounted, At
    <3>2. g + m <= n
      BY <2>1, <2>2, <2>4, <3>1 DEF Counted, AtRefund, Uncounted, At
    <3> QED
      BY <2>2, <2>4, <3>1, <3>2
  <2>5. f <= n + u
    BY <2>1, <2>2, <2>3, <2>4 DEF Counted
  <2> QED
    BY <2>2, <2>5
<1> QED
  BY <1>1, <1>2, <1>3, TypesHold, PTL DEF Spec

-----------------------------------------------------------------------------
(* Codes.                                                                  *)

LEMMA CodeTypes ==
  ASSUME TypeOK, Known
  PROVE  /\ Agents \subseteq Procs /\ Operators \subseteq Procs /\ Agents \cap Operators = {}
         /\ proc \in [Procs -> Runs] /\ used \in Seq(Ids) /\ sent \subseteq DOMAIN req
         /\ code # None => code.id \in DOMAIN req
         /\ {"stale", "accept", "act", "refund", "reserve"} \subseteq Steps
BY RequestTypes, ActorAssumption DEF TypeOK, Known, Procs, Steps, OperSteps, PaySteps

\* A step that leaves the codes alone, of a process that goes on with its
\* request and accepts no code.
LEMMA CodesStay ==
  ASSUME TypeOK, Known, CodesInOnePlace, OneCodeOneRun,
         UNCHANGED <<code, sent, used, shared>>, NEW p \in Procs, Others(p),
         p \in Agents /\ proc'[p].pc # "idle" => proc'[p].id = proc[p].id /\ ~At(p, "idle"),
         p \in Operators => proc'[p].pc \notin {"accept", "act"}
  PROVE  CodesInOnePlace' /\ OneCodeOneRun'
<1>0. Agents \subseteq Procs /\ Operators \subseteq Procs /\ Agents \cap Operators = {}
  BY CodeTypes
<1>2. \A a \in Agents : proc'[a].pc # "idle" => proc'[a].id = proc[a].id /\ ~At(a, "idle")
  BY <1>0 DEF Others, At
<1>3. \A o \in Operators : proc'[o].pc \in {"accept", "act"} => proc'[o] = proc[o]
  BY <1>0 DEF Others
<1>4. \A a \in Agents : proc'[a].pc # "idle" =>
        proc'[a].id \notin sent /\ (code # None => code.id # proc'[a].id)
  BY <1>2 DEF CodesInOnePlace
<1>5. \A i : Used(i)' <=> Used(i)
  BY DEF Used
<1>6. \A o \in Operators : \A i : Holds(o, i)' => Holds(o, i) /\ (At(o, "act")' => At(o, "act"))
  BY <1>3 DEF Holds, At
<1>7. CodesInOnePlace'
  <2>1. ASSUME NEW o \in Operators, NEW i \in Ids \ shared, Holds(o, i)'
        PROVE  /\ ~Used(i)'
               /\ At(o, "act")' /\ code # None => code.id # i
               /\ \A q \in Operators : Holds(q, i)' => q = o
    BY <1>5, <1>6, <2>1 DEF CodesInOnePlace
  <2>2. \A a \in Agents : ~At(a, "idle")' =>
          proc'[a].id \notin sent /\ (code # None => code.id # proc'[a].id)
    BY <1>4 DEF At
  <2>3. code # None /\ code.id \notin shared => ~Used(code.id)'
    BY <1>5 DEF CodesInOnePlace
  <2> QED
    BY <2>1, <2>2, <2>3 DEF CodesInOnePlace, Used
<1>8. OneCodeOneRun'
  BY DEF OneCodeOneRun
<1> QED
  BY <1>7, <1>8

LEMMA CodesStep ==
  ASSUME TypeOK, Known, FileThere, [Next]_vars, OwnRequests,
         CodesInOnePlace, OneCodeOneRun
  PROVE  CodesInOnePlace' /\ OneCodeOneRun'
<1>0. /\ Agents \subseteq Procs /\ Operators \subseteq Procs /\ Agents \cap Operators = {}
      /\ proc \in [Procs -> Runs] /\ used \in Seq(Ids) /\ sent \subseteq DOMAIN req
      /\ code # None => code.id \in DOMAIN req
      /\ {"stale", "accept", "act", "refund", "reserve"} \subseteq Steps
  BY CodeTypes
\* The agents' requests when only operators move.
<1>a. ASSUME NEW o \in Operators, Others(o) PROVE \A a \in Agents : proc'[a] = proc[a]
  BY <1>0, <1>a DEF Others
\* The operators' codes when only agents move.
<1>b. ASSUME NEW a \in Agents, Others(a) PROVE \A o \in Operators : proc'[o] = proc[o]
  BY <1>0, <1>b DEF Others
<1>1. ASSUME NEW a \in Agents, NEW r \in Asked, Begin(a, r) PROVE CodesInOnePlace' /\ OneCodeOneRun'
  <2>0. UNCHANGED <<code, sent, used, shared>>
    BY <1>1 DEF Begin, files, ghosts, codes, losses
  <2>1. CASE Leaves(a)
    BY <1>0, <2>0, <2>1, CodesStay DEF Leaves, Turns, Others
  <2>2. ASSUME NEW step \in {"vet", "load", "charge"}, Begun(a, r, step)
        PROVE  CodesInOnePlace' /\ OneCodeOneRun'
    <3>1. Others(a) /\ proc'[a].id = Len(req) + 1 /\ Len(req) + 1 \notin DOMAIN req
      BY <1>1, <2>2, NewRequest DEF Begun, Turns, Others
    <3>2. \A o \in Operators : proc'[o] = proc[o]
      BY <1>b, <3>1
    <3>3. \A b \in Agents : proc'[b].pc # "idle" =>
            proc'[b].id \notin sent /\ (code # None => code.id # proc'[b].id)
      BY <1>0, <3>1 DEF Others, CodesInOnePlace, At
    <3> QED
      BY <2>0, <3>2, <3>3 DEF CodesInOnePlace, OneCodeOneRun, Used, Holds, At
  <2> QED
    BY <1>1, <2>1, <2>2, Turning
<1>2. ASSUME NEW a \in Agents, SendCode(a) PROVE CodesInOnePlace' /\ OneCodeOneRun'
  <2>0. Leaves(a) /\ Others(a) /\ ~At(a, "idle") /\ UNCHANGED <<used, shared>>
    BY <1>0, <1>2, Moves DEF SendCode, Leaves, Turns, Others, At
  <2>1. CASE UNCHANGED <<code, sent>>
    BY <1>0, <2>0, <2>1, CodesStay DEF Leaves, Turns
  <2>2. CASE ~UNCHANGED <<code, sent>>
    <3>1. PICK i : i = proc[a].id
      OBVIOUS
    <3>2. code'.id = i /\ sent' \subseteq sent \cup {i} /\ sent \subseteq sent'
      BY <1>2, <2>2, <3>1 DEF SendCode
    <3>3. i \notin sent /\ ~Used(i)
      BY <2>0, <3>1 DEF CodesInOnePlace, Used
    <3>4. \A o \in Operators : proc'[o] = proc[o]
      BY <1>b, <2>0
    <3>5. \A o \in Operators : \A j : Holds(o, j) => j \in sent
      BY DEF Known, Holds, Approving
    <3>6. ASSUME NEW b \in Agents, proc'[b].pc # "idle"
          PROVE  proc'[b].id \notin sent' /\ code'.id # proc'[b].id
      <4>1. b # a /\ proc'[b] = proc[b]
        BY <1>0, <2>0, <3>6 DEF Leaves, Turns, Others
      <4>2. proc[b].id # i /\ proc[b].id \notin sent
        BY <2>0, <3>1, <3>6, <4>1 DEF OwnRequests, CodesInOnePlace, At
      <4> QED
        BY <3>2, <4>1, <4>2
    <3>7. ~\E k \in DOMAIN used : used[k] = i
      BY <3>3 DEF Used
    <3>8. \A o \in Operators : \A j : Holds(o, j)' <=> Holds(o, j)
      BY <3>4 DEF Holds
    <3>9. CodesInOnePlace'
      <4>1. ASSUME NEW o \in Operators, NEW j \in Ids \ shared, Holds(o, j)
            PROVE  /\ ~Used(j)' /\ code'.id # j
                   /\ \A q \in Operators : Holds(q, j) => q = o
        BY <2>0, <3>2, <3>3, <3>5, <4>1 DEF CodesInOnePlace, Used
      <4> QED
        BY <2>0, <3>2, <3>6, <3>7, <3>8, <4>1 DEF CodesInOnePlace, Used, At
    <3> QED
      BY <2>0, <3>9 DEF OneCodeOneRun
  <2> QED
    BY <2>1, <2>2
<1>3. ASSUME NEW a \in Agents, AgentStep(a), ~Ask(a), ~SendCode(a)
      PROVE  CodesInOnePlace' /\ OneCodeOneRun'
  <2>1. Onward(a) /\ UNCHANGED <<code, sent, used, shared>>
    BY <1>3, AgentsOnward
    DEF AgentStep, Vet, Load, Create, Judge, LookPending, WritePending, files, ghosts, codes, losses
  <2> QED
    BY <1>0, <2>1, CodesStay DEF Onward
<1>4. ASSUME NEW o \in Operators, Read(o) \/ DropExpired(o) \/ VetRefund(o) \/ Refund(o) \/ LogRefund(o)
      PROVE  CodesInOnePlace' /\ OneCodeOneRun'
  <2>1. UNCHANGED <<code, sent, used, shared>>
    BY <1>4 DEF Read, ReadPending, DropExpired, VetRefund, Refund, LogRefund, files, ghosts, codes, losses
  <2>2. Others(o) /\ proc'[o].pc \notin {"accept", "act"}
    <3>1. ASSUME NEW typed \in sent, ReadPending(o, typed)
          PROVE  Others(o) /\ proc'[o].pc \notin {"accept", "act"}
      BY <1>0, <3>1, Turning DEF Turns, Others
    <3>2. {"refunding", "logging"} \subseteq Steps
      BY DEF Steps, OperSteps
    <3>3. ASSUME NEW step \in {"refunding", "logging"}, GoTo(o, step) \/ Exit(o)
          PROVE  Others(o) /\ proc'[o].pc \notin {"accept", "act"}
      BY <1>0, <3>2, <3>3, Moves DEF Stays, Leaves, Turns, Others
    <3> QED
      BY <1>4, <3>1, <3>3 DEF Read, DropExpired, VetRefund, Refund, LogRefund
  <2> QED
    BY <1>0, <2>1, <2>2, CodesStay
<1>5. ASSUME NEW o \in Operators, CheckCode(o) PROVE CodesInOnePlace' /\ OneCodeOneRun'
  <2>0. UNCHANGED <<code, sent, used>>
    BY <1>5 DEF CheckCode, files
  <2>1. CASE (Exit(o) \/ GoTo(o, "stale")) /\ UNCHANGED shared
    <3>1. Others(o) /\ proc'[o].pc \notin {"accept", "act"}
      BY <1>0, <2>1, Moves DEF Stays, Leaves, Turns, Others
    <3> QED
      BY <1>0, <2>0, <2>1, <3>1, CodesStay
  <2>2. CASE /\ code # None /\ code.id = proc[o].seen /\ GoTo(o, "accept")
             /\ shared' = IF Accepting(o, code.id) THEN shared \cup {code.id} ELSE shared
    <3>1. Others(o) /\ proc'[o].pc = "accept" /\ proc'[o].seen = proc[o].seen
      BY <1>0, <2>2, Moves DEF Stays, Turns, Others
    <3>2. PICK i : i = code.id
      OBVIOUS
    <3>3. \A a \in Agents : proc'[a] = proc[a]
      BY <1>a, <3>1
    <3>4. \A j : Used(j)' <=> Used(j)
      BY <2>0 DEF Used
    <3>5. \A q \in Operators : \A j : Holds(q, j)' <=>
            IF q = o THEN j = i ELSE Holds(q, j)
      BY <1>0, <2>2, <3>1, <3>2 DEF Others, Holds
    <3>6. ASSUME i \notin shared' PROVE \A q \in Operators \ {o} : ~Holds(q, i)
      <4>1. ~Accepting(o, i) /\ i \notin shared
        BY <2>2, <3>2, <3>6
      <4>2. ASSUME NEW q \in Operators \ {o}, Holds(q, i) PROVE FALSE
        <5>1. At(q, "act")
          BY <4>1, <4>2 DEF Holds, Accepting, At
        <5>2. i \in Ids
          BY <2>2, <3>2 DEF TypeOK, Stamped
        <5> QED
          BY <2>2, <3>2, <4>1, <4>2, <5>1, <5>2 DEF CodesInOnePlace
      <4> QED
        BY <4>2
    <3>7. ASSUME NEW q \in Operators, NEW j \in Ids \ shared', Holds(q, j)'
          PROVE  /\ ~Used(j)'
                 /\ At(q, "act")' /\ code' # None => code'.id # j
                 /\ \A r \in Operators : Holds(r, j)' => r = q
      <4>0. j \notin shared
        BY <2>2, <3>7
      <4>1. CASE q = o
        <5>1. j = i /\ ~At(o, "act")'
          BY <3>1, <3>5, <3>7, <4>1 DEF At
        <5>2. ~Used(i)
          BY <2>2, <3>2, <4>0, <5>1 DEF CodesInOnePlace
        <5> QED
          BY <3>4, <3>5, <3>6, <3>7, <4>1, <5>1, <5>2
      <4>2. CASE q # o
        <5>1. Holds(q, j) /\ (At(q, "act")' => At(q, "act"))
          BY <1>0, <3>1, <3>5, <3>7, <4>2 DEF Others, At
        <5>2. j # i
          BY <3>6, <3>7, <4>2, <5>1
        <5> QED
          BY <2>0, <3>4, <3>5, <4>0, <5>1, <5>2 DEF CodesInOnePlace
      <4> QED
        BY <4>1, <4>2
    <3>8. shared \subseteq shared'
      BY <2>2
    <3>9. CodesInOnePlace'
      <4>1. /\ \A k \in DOMAIN used' : used'[k] \in sent'
            /\ code' # None /\ code'.id \notin shared' => ~Used(code.id)'
        BY <2>0, <3>4, <3>8 DEF CodesInOnePlace
      <4>2. \A a \in Agents : ~At(a, "idle")' =>
              proc'[a].id \notin sent' /\ (code' # None => code'.id # proc'[a].id)
        BY <2>0, <3>3 DEF CodesInOnePlace, At
      <4> QED
        BY <3>7, <4>1, <4>2 DEF CodesInOnePlace, Used
    <3> QED
      BY <2>0, <3>8, <3>9 DEF OneCodeOneRun
  <2> QED
    BY <1>5, <2>1, <2>2 DEF CheckCode
<1>6. ASSUME NEW o \in Operators, DropCode(o) PROVE CodesInOnePlace' /\ OneCodeOneRun'
  <2>0. /\ code' = None /\ UNCHANGED <<sent, used, shared>>
        /\ Exit(o) \/ (At(o, "accept") /\ GoTo(o, "act"))
    BY <1>6 DEF DropCode, ghosts, codes
  <2>1. Others(o) /\ (Leaves(o) \/ (At(o, "accept") /\ Stays(o, "act")))
    BY <1>0, <2>0, Moves DEF Stays, Leaves, Turns, Others
  <2>2. \A a \in Agents : proc'[a] = proc[a]
    BY <1>a, <2>1
  <2>3. \A q \in Operators : \A j : Holds(q, j)' => Holds(q, j)
    BY <1>0, <2>1 DEF Leaves, Stays, Turns, Others, Holds, At
  <2>4. \A j : Used(j)' <=> Used(j)
    BY <2>0 DEF Used
  <2>5. CodesInOnePlace'
    <3>1. ASSUME NEW q \in Operators, NEW j \in Ids \ shared, Holds(q, j)'
          PROVE  ~Used(j)' /\ \A r \in Operators : Holds(r, j)' => r = q
      BY <2>3, <2>4, <3>1 DEF CodesInOnePlace
    <3> QED
      BY <2>0, <2>2, <3>1 DEF CodesInOnePlace, Used, At
  <2> QED
    BY <2>0, <2>5 DEF OneCodeOneRun
<1>7. ASSUME NEW o \in Operators, Act(o) PROVE CodesInOnePlace' /\ OneCodeOneRun'
  <2>0. UNCHANGED <<code, sent, shared>> /\ At(o, "act")
    BY <1>7 DEF Act
  <2>1. Others(o) /\ proc'[o].pc \notin {"accept", "act"}
    <3>1. Exit(o) \/ GoTo(o, "refund") \/ GoTo(o, "reserve")
      BY <1>7 DEF Act
    <3> QED
      BY <1>0, <3>1, Moves DEF Stays, Leaves, Turns, Others
  <2>2. CASE UNCHANGED used
    BY <1>0, <2>0, <2>1, <2>2, CodesStay
  <2>3. CASE used' = Append(used, proc[o].seen)
    <3>1. PICK i : i = proc[o].seen
      OBVIOUS
    <3>2. /\ i \in sent /\ i \in Ids /\ Holds(o, i)
          /\ i \notin shared => ~Used(i) /\ (code # None => code.id # i)
      BY <2>0, <3>1 DEF Known, CodesInOnePlace, Holds, At, Approving, TypeOK
    <3>3. Len(used) \in Nat /\ DOMAIN used = 1 .. Len(used)
      BY <1>0
    <3>4. /\ DOMAIN used' = DOMAIN used \cup {Len(used) + 1}
          /\ Len(used) + 1 \notin DOMAIN used /\ used'[Len(used) + 1] = i
          /\ \A k \in DOMAIN used : used'[k] = used[k]
      <4>1. i \in Ids
        BY <3>2 DEF TypeOK
      <4>2. Len(used') = Len(used) + 1 /\ DOMAIN used' = 1 .. Len(used')
        BY <1>0, <2>3, <3>1, <4>1
      <4> QED
        BY <1>0, <2>3, <3>1, <3>3, <4>1, <4>2
    <3>5. \A a \in Agents : proc'[a] = proc[a]
      BY <1>a, <2>1
    <3>6. \A q \in Operators : \A j : Holds(q, j)' => Holds(q, j) /\ q # o
      BY <1>0, <2>1 DEF Others, Holds
    <3>7. \A j : Used(j)' => Used(j) \/ j = i
      BY <3>4 DEF Used
    <3>8. OneCodeOneRun'
      <4>1. ASSUME NEW j \in DOMAIN used', NEW k \in DOMAIN used', used'[j] = used'[k],
                   used'[j] \notin shared'
            PROVE  j = k
        <5>1. CASE used'[j] = i
          <6>1. \A l \in DOMAIN used : used'[l] # i
            BY <2>0, <3>2, <3>4, <4>1, <5>1 DEF Used
          <6> QED
            BY <3>4, <4>1, <5>1, <6>1
        <5>2. CASE used'[j] # i
          BY <2>0, <3>4, <4>1, <5>2 DEF OneCodeOneRun
        <5> QED
          BY <5>1, <5>2
      <4> QED
        BY <4>1 DEF OneCodeOneRun
    <3>9. CodesInOnePlace'
      <4>1. /\ \A k \in DOMAIN used' : used'[k] \in sent'
            /\ code' # None /\ code'.id \notin shared' => ~Used(code.id)'
        BY <2>0, <3>2, <3>4, <3>7 DEF CodesInOnePlace
      <4>2. \A a \in Agents : ~At(a, "idle")' =>
              proc'[a].id \notin sent' /\ (code' # None => code'.id # proc'[a].id)
        BY <2>0, <3>5 DEF CodesInOnePlace, At
      <4>3. ASSUME NEW q \in Operators, NEW j \in Ids \ shared, Holds(q, j)'
            PROVE  /\ ~Used(j)'
                   /\ At(q, "act")' /\ code' # None => code'.id # j
                   /\ \A r \in Operators : Holds(r, j)' => r = q
        <5>1. Holds(q, j) /\ q # o /\ (At(q, "act")' => At(q, "act"))
          BY <1>0, <2>1, <3>6, <4>3 DEF Others, At
        <5>2. j # i
          BY <3>2, <4>3, <5>1 DEF CodesInOnePlace
        <5> QED
          BY <2>0, <3>6, <3>7, <4>3, <5>1, <5>2 DEF CodesInOnePlace
      <4> QED
        BY <2>0, <4>1, <4>2, <4>3 DEF CodesInOnePlace, Used
    <3> QED
      BY <3>8, <3>9
  <2> QED
    BY <1>7, <2>2, <2>3 DEF Act
<1>8. ASSUME NEW p \in Procs, Pay(p) \/ Die(p) PROVE CodesInOnePlace' /\ OneCodeOneRun'
  <2>1. Onward(p) /\ UNCHANGED <<code, sent, used, shared>>
    BY <1>8, PaymentsOnward DEF Pay, Reserve, Save, Charge, Release, Log, Die, files, ghosts, codes, losses
  <2>2. proc'[p].pc \notin {"accept", "act"}
    <3>1. "charge" \in Steps
      BY DEF Steps, PaySteps
    <3>2. CASE Reserve(p)
      BY <3>2, Turning DEF Leaves, Turns
    <3>3. CASE Save(p) \/ Release(p) \/ Log(p) \/ Die(p)
      BY <1>0, <3>1, <3>3, Moves DEF Save, Release, Log, Die, Leaves, Stays, Turns
    <3>4. CASE Charge(p)
      BY <3>4, Turning DEF NextTry, Stays, Turns
    <3> QED
      BY <1>8, <3>2, <3>3, <3>4 DEF Pay
  <2> QED
    BY <2>1, <2>2, CodesStay DEF Onward
<1>9. CASE UNCHANGED <<code, sent, used, shared, proc>>
  <2>1. (\A j : Used(j)' <=> Used(j)) /\ \A o \in Operators : \A j : Holds(o, j)' <=> Holds(o, j)
    BY <1>9 DEF Used, Holds
  <2>2. CodesInOnePlace'
    BY <1>9, <2>1 DEF CodesInOnePlace, At
  <2> QED
    BY <1>9, <2>2 DEF OneCodeOneRun
<1> QED
  BY <1>1, <1>2, <1>3, <1>4, <1>5, <1>6, <1>7, <1>8, <1>9
  DEF Next, AgentStep, OperatorStep, Ask, Reset, Toggle, Tick, vars, files, ghosts, codes, losses

\* A code that was sent authorises one execution, unless two approvals compared
\* it before either had unlinked it: however many approve.
THEOREM OneCodeOneRunHolds == Spec => []OneCodeOneRun
<1>1. Init => OwnRequests /\ CodesInOnePlace /\ OneCodeOneRun
  BY DEF Init, Idle, At, OwnRequests, CodesInOnePlace, OneCodeOneRun, Used, Holds, Procs
<1>2. /\ TypeOK /\ Known /\ FileThere /\ [Next]_vars /\ OwnRequests /\ CodesInOnePlace /\ OneCodeOneRun
      => (OwnRequests /\ CodesInOnePlace /\ OneCodeOneRun)'
  BY OwnRequestsStep, CodesStep
<1> QED
  BY <1>1, <1>2, TypesHold, PTL DEF Spec
=============================================================================
