---------------------------- MODULE StripeSpend ----------------------------
(***************************************************************************)
(* The stripe-spend skill.  Every run of spend.py, spend_v2.py, refund.py  *)
(* and earn.py (an agent's) and of approve.py (an operator's) is a process *)
(* of its own; they share the files of the skill's state directory:        *)
(* authority.json (under a lock), pending_approval.json, pending_code.json *)
(* and audit_log.jsonl.  One step is one read or replacement of a file, or *)
(* one call of Stripe or Twilio.                                           *)
(*                                                                         *)
(* Amounts are integers or NaN, which --amount takes for a number (Stripe's *)
(* minimum and the rounding to cents are left out: every other amount is   *)
(* payable; an infinite one is one too large for any cap).  Stripe charges *)
(* and refunds whatever it is asked to; a call may be refused, or be       *)
(* carried out and its answer lost; mock mode is left out.  A code is      *)
(* known by the request it was sent for: two codes never read the same.    *)
(***************************************************************************)
EXTENDS Integers, Sequences, FiniteSets

CONSTANTS
  Agents,       \* who run spend, refund and earn
  Operators,    \* who run approve
  Asked,        \* what agents ask: records of script, amount and pi
  SessionCap,   \* authority.json
  ActionCap,    \* authority.json
  Ttl,          \* PENDING_TTL_SECONDS and CODE_TTL
  MaxRequests,  \* bound on the requests
  MaxClock,     \* bound on the clock
  MayFail,      \* whether Stripe refuses, answers are lost and Twilio fails
  MayDie,       \* whether processes die
  MayReset,     \* whether `authority.py reset` is run
  NaN,          \* float("nan")
  None

Procs == Agents \cup Operators
Ids   == 1 .. MaxRequests
Scripts == {"spend", "spend_v2", "refund", "earn"}
Payments == {r.pi : r \in Asked}

ASSUME CapAssumption   == SessionCap \in Nat /\ ActionCap \in Nat
ASSUME BoundAssumption == Ttl \in Nat /\ MaxClock \in Nat /\ MaxRequests \in Nat
ASSUME ActorAssumption ==
  Agents \cap Operators = {} /\ None \notin Int \cup Procs \cup {NaN} /\ NaN \notin Int
ASSUME AskedAssumption ==
  Asked \subseteq [script : Scripts, amount : Nat \cup {NaN}, pi : Nat]

VARIABLES
  spent,      \* spent_this_session of authority.json; None: no file
  lock,       \* who holds .state.lock, or None
  pending,    \* pending_approval.json: a request's id and its time, or None
  code,       \* pending_code.json: whose code it is and until when, or None
  killed,     \* the kill_switch row
  clock,
  req,        \* the requests made so far
  proc,       \* each process
  intents,    \* Stripe: the payments charged, each by its request's id
  refunded,   \* Stripe: what was refunded of each
  charges,    \* audit log: the intents recorded "executed"
  refunds,    \* audit log: what "refund_executed" records sum to, per intent
  sent,       \* history: the requests codes were sent for
  used,       \* history: the codes approve has accepted and acted on
  unknown,    \* history: spends charged whose reservation was released
  unlogged,   \* history: what was refunded of each intent with no record of it
  forgotten,  \* history: reservations a default file or a reset has dropped
  wiped,      \* history: reservations NaN has dropped, or let through
  crossed,    \* history: intents a refund of which passed amid another's
  shared      \* history: codes an approval accepted while another was accepting

files  == <<spent, lock, pending, code, killed>>
stripe == <<intents, refunded>>
log    == <<charges, refunds>>
codes  == <<sent, used, shared>>
losses == <<unknown, unlogged, forgotten, wiped>>
ghosts == <<codes, losses, crossed>>
vars   == <<files, clock, req, proc, stripe, log, ghosts>>

AgentSteps == {"idle", "vet", "load", "create", "judge", "look", "write", "send"}
OperSteps  == {"idle", "expired", "check", "stale", "accept", "act", "refund", "refunding", "logging"}
PaySteps   == {"reserve", "save", "charge", "retry", "release", "log"}

Idle == [pc |-> "idle", id |-> None, seen |-> 0, pi |-> 0]

Init ==
  /\ spent = None /\ lock = None /\ pending = None /\ code = None
  /\ killed = FALSE /\ clock = 0
  /\ req = <<>> /\ proc = [p \in Procs |-> Idle]
  /\ intents = <<>> /\ refunded = [i \in Payments |-> 0]
  /\ charges = {} /\ refunds = [i \in Payments |-> 0]
  /\ sent = {} /\ used = <<>> /\ shared = {} /\ crossed = {}
  /\ unknown = 0 /\ unlogged = [i \in Payments |-> 0] /\ forgotten = 0 /\ wiped = 0

At(p, pc)   == proc[p].pc = pc
GoTo(p, pc) == proc' = [proc EXCEPT ![p].pc = pc]
Exit(p)     == proc' = [proc EXCEPT ![p] = Idle]
Request(p)  == req[proc[p].id]

\* No comparison with NaN holds, and what is added to it is lost.
Above(x, y) == NaN \notin {x, y} /\ x > y
Plus(x, y)  == IF NaN \in {x, y} THEN NaN ELSE x + y

\* What a request asks for, and what that comes to.
Asks(p)   == Request(p).amount
Worth(i)  == IF req[i].amount = NaN THEN 0 ELSE req[i].amount
Amount(p) == Worth(proc[p].id)
Total     == IF spent \in {None, NaN} THEN 0 ELSE spent

-----------------------------------------------------------------------------
(* spend.py, spend_v2.py, refund.py and earn.py                            *)

\* _check_kill_switch; spend_v2.py has none.  earn.py goes on to charge.  (A
\* spend.py that was stopped still calls load_state: Load and Create cover what
\* that may write.)
Begin(a, r) ==
  /\ At(a, "idle") /\ Len(req) < MaxRequests
  /\ req' = Append(req, r)
  /\ proc' = [proc EXCEPT ![a] =
       IF killed /\ r.script # "spend_v2" THEN Idle
       ELSE [Idle EXCEPT !.id = Len(req) + 1,
                         !.pc = CASE r.script = "earn"   -> "charge"
                                  [] r.script = "refund" -> "vet"
                                  [] OTHER               -> "load"]]
  /\ UNCHANGED <<files, clock, stripe, log, ghosts>>

\* _find_original_charge and refunded_amount: the payment was made, and the
\* amount is still to be refunded.
Vet(a) ==
  LET pi == Request(a).pi IN
  /\ At(a, "vet")
  /\ IF pi \in charges /\ ~Above(Asks(a), Worth(intents[pi]) - refunds[pi])
     THEN GoTo(a, "load") ELSE Exit(a)
  /\ UNCHANGED <<files, clock, req, stripe, log, ghosts>>

\* load_state, without the lock: a missing file is replaced by the defaults.
Load(a) ==
  /\ At(a, "load")
  /\ proc' = [proc EXCEPT ![a].pc = IF spent = None THEN "create" ELSE "judge",
                          ![a].seen = IF spent = None THEN 0 ELSE spent]
  /\ UNCHANGED <<files, clock, req, stripe, log, ghosts>>

Create(a) ==
  /\ At(a, "create")
  /\ spent' = 0
  /\ forgotten' = forgotten + Total
  /\ GoTo(a, "judge")
  /\ UNCHANGED <<lock, pending, code, killed, clock, req, stripe, log, codes, unknown, unlogged,
                 wiped, crossed>>

\* Every refund needs an operator; a spend over either cap does.
NeedsApproval(a) ==
  \/ Request(a).script = "refund"
  \/ Above(Asks(a), ActionCap)
  \/ Above(Plus(proc[a].seen, Asks(a)), SessionCap)

\* spend_v2.py asks custodian.policy, and takes every verdict but "escalate" for
\* leave to execute, DENIED (an amount that is not finite) among them.
Judge(a) ==
  /\ At(a, "judge")
  /\ GoTo(a, IF NeedsApproval(a) THEN "look" ELSE "reserve")
  /\ UNCHANGED <<files, clock, req, stripe, log, ghosts>>

Expired(record) == clock - record.born > Ttl

\* write_pending: _existing_pending_is_live, and the write.
LookPending(a) ==
  /\ At(a, "look")
  /\ IF pending # None /\ ~Expired(pending) THEN Exit(a) ELSE GoTo(a, "write")
  /\ UNCHANGED <<files, clock, req, stripe, log, ghosts>>

WritePending(a) ==
  /\ At(a, "write")
  /\ pending' = [id |-> proc[a].id, born |-> clock]
  /\ GoTo(a, "send")
  /\ UNCHANGED <<spent, lock, code, killed, clock, req, stripe, log, ghosts>>

\* send_approval_code: the code is stored, then sent.  The call may fail before
\* or after the code is stored.
SendCode(a) ==
  /\ At(a, "send")
  /\ \/ /\ code' = [id |-> proc[a].id, born |-> clock]
        /\ sent' = sent \cup {proc[a].id}
     \/ MayFail /\ code' = [id |-> proc[a].id, born |-> clock] /\ UNCHANGED sent
     \/ MayFail /\ UNCHANGED <<code, sent>>
  /\ Exit(a)
  /\ UNCHANGED <<spent, lock, pending, killed, clock, req, stripe, log, used, shared, losses, crossed>>

-----------------------------------------------------------------------------
(* approve.py                                                              *)

\* The record is read; the operator has typed in some code that was sent.
ReadPending(o, typed) ==
  /\ At(o, "idle") /\ pending # None
  /\ proc' = [proc EXCEPT ![o] =
       [Idle EXCEPT !.id = pending.id, !.seen = typed,
                    !.pc = IF Expired(pending) THEN "expired" ELSE "check"]]
  /\ UNCHANGED <<files, clock, req, stripe, log, ghosts>>

DropExpired(o) ==
  /\ At(o, "expired")
  /\ pending' = None /\ Exit(o)
  /\ UNCHANGED <<spent, lock, code, killed, clock, req, stripe, log, ghosts>>

\* check_approval_code: the stored code is read and compared, then unlinked if
\* it matches or has expired.
Accepting(o, i) == \E q \in Operators \ {o} : At(q, "accept") /\ proc[q].seen = i

CheckCode(o) ==
  /\ At(o, "check")
  /\ IF code = None THEN Exit(o) /\ UNCHANGED shared
     ELSE IF Expired(code) THEN GoTo(o, "stale") /\ UNCHANGED shared
     ELSE IF code.id # proc[o].seen THEN Exit(o) /\ UNCHANGED shared
     ELSE /\ GoTo(o, "accept")
          /\ shared' = IF Accepting(o, code.id) THEN shared \cup {code.id} ELSE shared
  /\ UNCHANGED <<files, clock, req, stripe, log, sent, used, losses, crossed>>

\* Mutant: an accepted code is left in its file.
DropCodeStale(o) ==
  \/ At(o, "stale") /\ code' = None /\ Exit(o)
     /\ UNCHANGED <<spent, lock, pending, killed, clock, req, stripe, log, ghosts>>
  \/ At(o, "accept") /\ GoTo(o, "act")
     /\ UNCHANGED <<files, clock, req, stripe, log, ghosts>>

DropCode(o) ==
  /\ \/ At(o, "stale") /\ Exit(o)
     \/ At(o, "accept") /\ GoTo(o, "act")
  /\ code' = None
  /\ UNCHANGED <<spent, lock, pending, killed, clock, req, stripe, log, ghosts>>

\* PENDING_FILE.unlink raises if the file is gone; then the request is carried
\* out.
Act(o) ==
  /\ At(o, "act")
  /\ IF pending = None THEN Exit(o) /\ UNCHANGED <<pending, used>>
     ELSE /\ pending' = None /\ used' = Append(used, proc[o].seen)
          /\ GoTo(o, IF Request(o).script = "refund" THEN "refund" ELSE "reserve")
  /\ UNCHANGED <<spent, lock, code, killed, clock, req, stripe, log, sent, shared, losses, crossed>>

-----------------------------------------------------------------------------
(* execute_spend and execute_earn                                          *)

\* Mutant: reserve_spend takes no lock.
ReserveUnlocked(p) ==
  /\ At(p, "reserve")
  /\ IF Above(Plus(spent, Asks(p)), SessionCap) THEN Exit(p)
     ELSE proc' = [proc EXCEPT ![p].pc = "save", ![p].seen = Plus(spent, Asks(p))]
  /\ UNCHANGED <<files, clock, req, stripe, log, ghosts>>

\* reserve_spend, under the lock: the state is read and the cap checked.
Reserve(p) ==
  /\ At(p, "reserve") /\ lock = None
  /\ IF Above(Plus(spent, Asks(p)), SessionCap) THEN Exit(p) /\ UNCHANGED lock
     ELSE /\ proc' = [proc EXCEPT ![p].pc = "save", ![p].seen = Plus(spent, Asks(p))]
          /\ lock' = p
  /\ UNCHANGED <<spent, pending, code, killed, clock, req, stripe, log, ghosts>>

\* ... and saved.  A reset in between is undone.
Save(p) ==
  /\ At(p, "save")
  /\ spent' = proc[p].seen
  /\ wiped' = wiped + (IF proc[p].seen = NaN THEN Total + Amount(p) ELSE 0)
  /\ lock' = None
  /\ GoTo(p, "charge")
  /\ UNCHANGED <<pending, code, killed, clock, req, stripe, log, codes, unknown, unlogged,
                 forgotten, crossed>>

\* create_payment_intent: two attempts under one idempotency key, so Stripe
\* charges for one of them at most.  NaN is no number of cents: the call raises
\* before the first.
Land(p) ==
  IF proc[p].pi # 0 THEN UNCHANGED intents ELSE intents' = Append(intents, proc[p].id)
Landed(p) == IF proc[p].pi # 0 THEN proc[p].pi ELSE Len(intents) + 1

NextTry(p) ==
  IF At(p, "charge") /\ Asks(p) # NaN THEN "retry"
  ELSE IF Request(p).script = "earn" THEN "idle" ELSE "release"

Charge(p) ==
  /\ At(p, "charge") \/ At(p, "retry")
  /\ \/ /\ Asks(p) # NaN /\ Land(p)
        /\ proc' = [proc EXCEPT ![p].pc = "log", ![p].pi = Landed(p)]
     \/ /\ Asks(p) # NaN /\ MayFail /\ Land(p)
        /\ proc' = [proc EXCEPT ![p].pc = NextTry(p), ![p].pi = Landed(p)]
     \/ (MayFail \/ Asks(p) = NaN) /\ UNCHANGED intents /\ GoTo(p, NextTry(p))
  /\ UNCHANGED <<files, clock, req, refunded, log, ghosts>>

\* release_spend, under the lock: "charge never happened".  Python's
\* max(0.0, nan) is 0.0.
Release(p) ==
  /\ At(p, "release") /\ lock = None
  /\ spent' = IF Above(spent, Asks(p)) THEN spent - Asks(p) ELSE 0
  /\ unknown' = unknown + (IF proc[p].pi # 0 THEN Amount(p) ELSE 0)
  /\ wiped' = wiped + (IF Asks(p) = NaN THEN Total ELSE 0)
  /\ Exit(p)
  /\ UNCHANGED <<lock, pending, code, killed, clock, req, stripe, log, codes, unlogged, forgotten,
                 crossed>>

\* append_log: "executed", or "earned", which no refund may name.
Log(p) ==
  /\ At(p, "log")
  /\ charges' = IF Request(p).script = "earn" THEN charges ELSE charges \cup {proc[p].pi}
  /\ Exit(p)
  /\ UNCHANGED <<files, clock, req, stripe, refunds, ghosts>>

-----------------------------------------------------------------------------
(* execute_refund                                                          *)

\* Another approval has passed its check of a refund of pi, and not logged it.
Refunding(o, pi) ==
  \E q \in Operators \ {o} : proc[q].pc \in {"refunding", "logging"} /\ Request(q).pi = pi

\* Mutant: the amount is compared with the charge alone, as refund.py did.
VetRefundSingle(o) ==
  LET pi == Request(o).pi IN
  /\ At(o, "refund")
  /\ IF Above(Asks(o), Worth(intents[pi])) THEN Exit(o) ELSE GoTo(o, "refunding")
  /\ crossed' = IF Refunding(o, pi) THEN crossed \cup {pi} ELSE crossed
  /\ UNCHANGED <<files, clock, req, stripe, log, codes, losses>>

\* charged_amount and refunded_amount: what the log says.
VetRefund(o) ==
  LET pi == Request(o).pi IN
  /\ At(o, "refund")
  /\ IF Above(Plus(refunds[pi], Asks(o)), Worth(intents[pi]))
     THEN Exit(o) /\ UNCHANGED crossed
     ELSE /\ GoTo(o, "refunding")
          /\ crossed' = IF Refunding(o, pi) THEN crossed \cup {pi} ELSE crossed
  /\ UNCHANGED <<files, clock, req, stripe, log, codes, losses>>

\* create_refund, one attempt.  An answer that is lost is logged as a failure,
\* as NaN, which is no number of cents, is.
Refund(o) ==
  LET pi == Request(o).pi IN
  /\ At(o, "refunding")
  /\ \/ /\ Asks(o) # NaN /\ GoTo(o, "logging")
        /\ refunded' = [refunded EXCEPT ![pi] = @ + Amount(o)]
        /\ UNCHANGED unlogged
     \/ /\ Asks(o) # NaN /\ MayFail /\ Exit(o)
        /\ refunded' = [refunded EXCEPT ![pi] = @ + Amount(o)]
        /\ unlogged' = [unlogged EXCEPT ![pi] = @ + Amount(o)]
     \/ (MayFail \/ Asks(o) = NaN) /\ Exit(o) /\ UNCHANGED <<refunded, unlogged>>
  /\ UNCHANGED <<files, clock, req, intents, log, codes, unknown, forgotten, wiped, crossed>>

LogRefund(o) ==
  /\ At(o, "logging")
  /\ refunds' = [refunds EXCEPT ![Request(o).pi] = @ + Amount(o)]
  /\ Exit(o)
  /\ UNCHANGED <<files, clock, req, stripe, charges, ghosts>>

-----------------------------------------------------------------------------
(* authority.py reset, kill_toggle.py, deaths and time                     *)

\* cmd_reset takes no lock.
Reset ==
  /\ MayReset /\ spent # None
  /\ spent' = 0 /\ forgotten' = forgotten + Total
  /\ UNCHANGED <<lock, pending, code, killed, clock, req, proc, stripe, log, codes, unknown,
                 unlogged, wiped, crossed>>

Toggle ==
  /\ killed' = ~killed
  /\ UNCHANGED <<spent, lock, pending, code, clock, req, proc, stripe, log, ghosts>>

\* The lock goes with its holder.  A refund made is left without a record.
Die(p) ==
  /\ MayDie /\ ~At(p, "idle")
  /\ lock' = IF lock = p THEN None ELSE lock
  /\ unlogged' = IF At(p, "logging")
                 THEN [unlogged EXCEPT ![Request(p).pi] = @ + Amount(p)] ELSE unlogged
  /\ Exit(p)
  /\ UNCHANGED <<spent, pending, code, killed, clock, req, stripe, log, codes, unknown, forgotten,
                 wiped, crossed>>

Tick ==
  /\ clock < MaxClock /\ clock' = clock + 1
  /\ UNCHANGED <<files, req, proc, stripe, log, ghosts>>

Ask(a) == \E r \in Asked : Begin(a, r)
Read(o) == \E typed \in sent : ReadPending(o, typed)

AgentStep(a) ==
  \/ Ask(a) \/ Vet(a) \/ Load(a) \/ Create(a) \/ Judge(a)
  \/ LookPending(a) \/ WritePending(a) \/ SendCode(a)
OperatorStep(o) ==
  \/ Read(o) \/ DropExpired(o) \/ CheckCode(o) \/ DropCode(o) \/ Act(o)
  \/ VetRefund(o) \/ Refund(o) \/ LogRefund(o)
Pay(p) == Reserve(p) \/ Save(p) \/ Charge(p) \/ Release(p) \/ Log(p)

Next ==
  \/ \E a \in Agents : AgentStep(a)
  \/ \E o \in Operators : OperatorStep(o)
  \/ \E p \in Procs : Pay(p) \/ Die(p)
  \/ Reset \/ Toggle \/ Tick

Spec == Init /\ [][Next]_vars

-----------------------------------------------------------------------------
(* Properties                                                              *)

Stamped == [id : Ids, born : Nat]

\* The types of the state.  authority.json never holds a negative total:
\* release_spend clamps what a reset has made too small.
TypeOK ==
  /\ spent \in Nat \cup {None, NaN} /\ lock \in Procs \cup {None}
  /\ pending \in Stamped \cup {None} /\ code \in Stamped \cup {None}
  /\ killed \in BOOLEAN /\ clock \in 0 .. MaxClock
  /\ req \in Seq(Asked) /\ Len(req) <= MaxRequests
  /\ proc \in [Procs -> [pc : AgentSteps \cup OperSteps \cup PaySteps,
                        id : Ids \cup {None}, seen : Nat \cup {NaN}, pi : Nat]]
  /\ intents \in Seq(Ids) /\ refunded \in [Payments -> Nat]
  /\ charges \subseteq DOMAIN intents /\ refunds \in [Payments -> Nat]
  /\ sent \subseteq Ids /\ used \in Seq(Ids) /\ unknown \in Nat
  /\ unlogged \in [Payments -> Nat] /\ forgotten \in Nat /\ wiped \in Nat
  /\ crossed \subseteq Payments /\ shared \subseteq Ids

\* The units a table of amounts is made of: they are as many as its sum.
UnitsOf(f) == UNION {{x} \X (1 .. f[x]) : x \in DOMAIN f}

\* What Stripe has charged for spends.
Spent(id) == IF req[id].script = "earn" THEN 0 ELSE Worth(id)
Spends  == [k \in DOMAIN intents |-> Spent(intents[k])]
Charged == Cardinality(UnitsOf(Spends))

\* However many run at once, fail and die, what Stripe has charged for spends
\* stays within the session cap, and every variable keeps its kind; but for
\* charges whose answers were all lost (their reservation is given back) and
\* totals dropped by a reset, by a default file written over a first
\* reservation, or by NaN, which also lets in what is asked while it lasts.
CapKept == TypeOK /\ Charged <= SessionCap + unknown + forgotten + wiped

\* However many approve, no payment is refunded by more than it was, but for
\* refunds that left no record (the answer was lost, or the process died before
\* it was logged) and payments two approvals refunded at once: execute_refund
\* reads the log, refunds and logs with no lock held.
RefundsCovered ==
  \A pi \in (Payments \cap DOMAIN intents) \ crossed :
    refunded[pi] <= Worth(intents[pi]) + unlogged[pi]

\* However many approve, a code that was sent authorises one execution, unless
\* two approvals compared it before either had unlinked it.
OneCodeOneRun ==
  \A j, k \in DOMAIN used : used[j] = used[k] /\ used[j] \notin shared => j = k
=============================================================================
