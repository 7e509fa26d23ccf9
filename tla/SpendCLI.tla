----------------------------- MODULE SpendCLI -----------------------------
(***************************************************************************)
(* The spend commands of the CLI on one workspace: every `custodian        *)
(* request` (a clerk's run), `approve`, `deny`, `kill` and `resume` is a   *)
(* process of its own, and they share the rows of custodian.db and the     *)
(* operator's phone.  One step is one SQLite statement (each commits by    *)
(* itself) or one call of Twilio Verify.                                   *)
(*                                                                         *)
(* The workspace is scaffolded (`custodian init` has written the authority *)
(* row).  The audit log, the universal ledger and the files the kill       *)
(* switch is mirrored to are only written here, so they are left out.      *)
(* decide() is given neither ledger nor agent: the CLI passes neither.     *)
(***************************************************************************)
EXTENDS PolicyDecision

CONSTANTS
  Clerks,       \* who runs `custodian request`, one run at a time
  Operators,    \* who runs the other commands
  Policy,       \* policy.yaml
  Asked,        \* the requests clerks make
  MaxRequests,  \* bound on the requests made
  MayFail,      \* whether processes die and SQLite or Twilio fail
  MayAge        \* whether a pending approval outlives CUSTODIAN_PENDING_TTL_SECONDS

ASSUME PolicyAssumption == Policy \in Policies
ASSUME AskedAssumption  == Asked \subseteq {r \in Requests : r.amount > 0}
ASSUME BoundAssumption  == MaxRequests \in Nat
ASSUME FlagsAssumption  == MayFail \in BOOLEAN /\ MayAge \in BOOLEAN

Ids == 1 .. MaxRequests

VARIABLES
  spent,     \* authority_state.spent_this_session
  killed,    \* kill_switch.killed
  pending,   \* the one row of pending_approval: a request's id, or None
  aged,      \* the requests whose pending approval has expired
  made,      \* how many requests were made
  req,       \* what each of them asks
  code,      \* Twilio's live verification code, or None
  codes,     \* how many codes were sent
  clerk,     \* each clerk's run
  oper,      \* each operator's run
  granted,   \* history: the amounts answered "autonomous"
  approved,  \* history: the amounts approved
  lost,      \* history: what of both was never booked, for a failure
  ruled,     \* history: each request's rulings
  halted,    \* history: the clerks whose run began under the kill switch as it
             \* is still engaged
  behind,    \* history: the clerks that loaded the budget before a grant that
             \* another had given, or has given since, was booked
  raced,     \* history: the amounts those clerks answered "autonomous"
  late,      \* history: the clerks that found the row free before another
             \* clerk's request was put there
  disputed   \* history: the requests two operators had in hand at once

db     == <<spent, killed, pending, aged>>
phone  == <<code, codes>>
races  == <<behind, raced, late, disputed>>
ghosts == <<granted, approved, lost, ruled, halted, races>>
vars   == <<db, made, req, phone, clerk, oper, ghosts>>

ClerkSteps == {"idle", "look", "book", "pending", "stale", "set", "challenge"}
OperSteps  == {"idle", "expired", "check", "clear", "approved", "book", "deny", "denied"}

Idle == [pc |-> "idle", id |-> None, seen |-> 0]
Free == [pc |-> "idle", id |-> None, code |-> 0]

Init ==
  /\ spent = 0 /\ killed = FALSE /\ pending = None /\ aged = {}
  /\ made = 0 /\ req = [i \in Ids |-> None]
  /\ code = None /\ codes = 0
  /\ clerk = [c \in Clerks |-> Idle]
  /\ oper = [o \in Operators |-> Free]
  /\ granted = 0 /\ approved = 0 /\ lost = 0
  /\ ruled = [i \in Ids |-> <<>>]
  /\ halted = {} /\ behind = {} /\ raced = 0 /\ late = {} /\ disputed = {}

Amount(i) == req[i].amount
At(c, pc) == clerk[c].pc = pc
On(o, pc) == oper[o].pc = pc
GoTo(c, pc)   == clerk' = [clerk EXCEPT ![c].pc = pc]
MoveTo(o, pc) == oper' = [oper EXCEPT ![o].pc = pc]
Lose(i)       == lost' = lost + Amount(i) /\ UNCHANGED spent
Leave(c)      == clerk' = [clerk EXCEPT ![c] = Idle]
Finish(o)     == oper' = [oper EXCEPT ![o] = Free]

-----------------------------------------------------------------------------
(* custodian request                                                       *)

\* load_authority_state.  The run is under way while the switch is engaged, if
\* it is.
Begin(c, r) ==
  /\ At(c, "idle") /\ made < MaxRequests
  /\ made' = made + 1
  /\ req' = [req EXCEPT ![made + 1] = r]
  /\ clerk' = [clerk EXCEPT ![c] = [pc |-> "look", id |-> made + 1, seen |-> spent]]
  /\ halted' = IF killed THEN halted \cup {c} ELSE halted \ {c}
  /\ behind' = IF \E d \in Clerks : At(d, "book") THEN behind \cup {c} ELSE behind \ {c}
  /\ UNCHANGED <<db, phone, oper, granted, approved, lost, ruled, raced, late, disputed>>

\* The answer "autonomous".
Grant(c) ==
  LET amount == Amount(clerk[c].id) IN
  /\ granted' = granted + amount
  /\ raced' = raced + (IF c \in behind THEN amount ELSE 0)
  /\ behind' = behind \cup {d \in Clerks \ {c} : At(d, "look")}

\* get_kill_switch, decide() on what was read, and the answer.
\* Mutant: the kill switch is not read.
LookBlind(c) ==
  LET verdict == Verdict(Policy, req[clerk[c].id], SessionCap - clerk[c].seen, FALSE, None, None)
  IN /\ At(c, "look")
     /\ \/ verdict = "denied" /\ Leave(c) /\ UNCHANGED <<granted, raced, behind>>
        \/ verdict = "escalation_required" /\ GoTo(c, "pending")
           /\ UNCHANGED <<granted, raced, behind>>
        \/ verdict = "autonomous" /\ GoTo(c, "book") /\ Grant(c)
     /\ UNCHANGED <<db, made, req, phone, oper, approved, lost, ruled, halted, late, disputed>>

Look(c) ==
  LET verdict == Verdict(Policy, req[clerk[c].id], SessionCap - clerk[c].seen, killed, None, None)
  IN /\ At(c, "look")
     /\ \/ verdict = "denied" /\ Leave(c) /\ UNCHANGED <<granted, raced, behind>>
        \/ verdict = "escalation_required" /\ GoTo(c, "pending")
           /\ UNCHANGED <<granted, raced, behind>>
        \/ verdict = "autonomous" /\ GoTo(c, "book") /\ Grant(c)
     /\ UNCHANGED <<db, made, req, phone, oper, approved, lost, ruled, halted, late, disputed>>

\* Mutant: the spend is subtracted, as from a balance.
BookBack(c) ==
  /\ At(c, "book")
  /\ spent' = spent - Amount(clerk[c].id) /\ Leave(c)
  /\ UNCHANGED <<killed, pending, aged, made, req, phone, oper, ghosts>>

\* Mutant: an autonomous verdict does not consume the budget.
BookNothing(c) ==
  /\ At(c, "book") /\ Leave(c)
  /\ UNCHANGED <<db, made, req, phone, oper, ghosts>>

\* Mutant: a load-modify-save with what was loaded at the start.
BookStale(c) ==
  /\ At(c, "book")
  /\ \/ spent' = clerk[c].seen + Amount(clerk[c].id) /\ UNCHANGED lost
     \/ MayFail /\ Lose(clerk[c].id)
  /\ Leave(c)
  /\ UNCHANGED <<killed, pending, aged, made, req, phone, oper, granted, approved, ruled, halted, races>>

\* record_spend, one UPDATE; its failure is a warning.
Book(c) ==
  /\ At(c, "book")
  /\ \/ spent' = spent + Amount(clerk[c].id) /\ UNCHANGED lost
     \/ MayFail /\ Lose(clerk[c].id)
  /\ Leave(c)
  /\ UNCHANGED <<killed, pending, aged, made, req, phone, oper, granted, approved, ruled, halted, races>>

\* get_pending_approval: an escalation is refused while one is outstanding.
\* Mutant: it is not refused.
ReadPendingAnyway(c) ==
  /\ At(c, "pending")
  /\ GoTo(c, IF pending = None THEN "set" ELSE "stale")
  /\ late' = late \ {c}
  /\ UNCHANGED <<db, made, req, phone, oper, granted, approved, lost, ruled, halted,
                 behind, raced, disputed>>
ReadPending(c) ==
  /\ At(c, "pending")
  /\ \/ pending = None /\ GoTo(c, "set")
     \/ pending # None /\ pending \in aged /\ GoTo(c, "stale")
     \/ pending # None /\ pending \notin aged /\ Leave(c)
  /\ late' = late \ {c}
  /\ UNCHANGED <<db, made, req, phone, oper, granted, approved, lost, ruled, halted,
                 behind, raced, disputed>>

\* clear_pending_approval: "stale; safe to replace".
ClearStale(c) ==
  /\ At(c, "stale")
  /\ pending' = None /\ GoTo(c, "set")
  /\ UNCHANGED <<spent, killed, aged, made, req, phone, oper, ghosts>>

\* set_pending_approval: INSERT OR REPLACE.
SetPending(c) ==
  /\ At(c, "set")
  /\ \/ /\ pending' = clerk[c].id /\ GoTo(c, "challenge")
        /\ late' = late \cup {d \in Clerks \ {c} : At(d, "stale") \/ At(d, "set")}
     \/ MayFail /\ Leave(c) /\ UNCHANGED <<pending, late>>
  /\ UNCHANGED <<spent, killed, aged, made, req, phone, oper, granted, approved, lost,
                 ruled, halted, behind, raced, disputed>>

\* send_challenge: Twilio sends the code that is live, or a new one.
SendChallenge(c) ==
  /\ At(c, "challenge")
  /\ \/ code = None /\ codes' = codes + 1 /\ code' = codes + 1
     \/ code # None /\ UNCHANGED phone
     \/ MayFail /\ UNCHANGED phone
  /\ Leave(c)
  /\ UNCHANGED <<db, made, req, oper, ghosts>>

-----------------------------------------------------------------------------
(* custodian approve, deny, kill, resume                                   *)

\* An operator's command reads the row; another may have it in hand.
Take ==
  /\ disputed' = IF \E p \in Operators : oper[p].id = pending /\ oper[p].pc \in {"check", "clear", "deny"}
                  THEN disputed \cup {pending} ELSE disputed
  /\ UNCHANGED <<db, made, req, phone, clerk, granted, approved, lost, ruled, halted,
                 behind, raced, late>>

\* approve, with a code the operator was once sent or (0) was never sent:
\* get_pending_approval and is_expired.
ReadToApprove(o, k) ==
  /\ On(o, "idle") /\ pending # None
  /\ oper' = [oper EXCEPT ![o] =
       [pc |-> IF pending \in aged THEN "expired" ELSE "check", id |-> pending, code |-> k]]
  /\ Take

ClearExpired(o) ==
  /\ On(o, "expired")
  /\ pending' = None /\ Finish(o)
  /\ UNCHANGED <<spent, killed, aged, made, req, phone, clerk, ghosts>>

\* check_response: an accepted code is spent, also when the answer is lost.
Check(o) ==
  /\ On(o, "check")
  /\ \/ code = oper[o].code /\ code' = None /\ MoveTo(o, "clear")
     \/ code = oper[o].code /\ code' = None /\ MayFail /\ Finish(o)
     \/ code # oper[o].code /\ code' = code /\ Finish(o)
  /\ UNCHANGED <<db, made, req, codes, clerk, ghosts>>

\* clear_pending_approval deletes the row, whatever is in it.
\* Mutant: approve leaves it there.
ClearNothing(o) ==
  /\ On(o, "clear")
  /\ MoveTo(o, "approved")
  /\ UNCHANGED <<db, made, req, phone, clerk, ghosts>>
Clear(o) ==
  /\ On(o, "clear")
  /\ pending' = None /\ MoveTo(o, "approved")
  /\ UNCHANGED <<spent, killed, aged, made, req, phone, clerk, ghosts>>

\* The entry "approved": from here on the request is.
Approve(o) ==
  LET i == oper[o].id IN
  /\ On(o, "approved")
  /\ ruled' = [ruled EXCEPT ![i] = Append(@, "approved")]
  /\ approved' = approved + Amount(i)
  /\ MoveTo(o, "book")
  /\ UNCHANGED <<db, made, req, phone, clerk, granted, lost, halted, races>>

BookApproved(o) ==
  /\ On(o, "book")
  /\ \/ spent' = spent + Amount(oper[o].id) /\ UNCHANGED lost
     \/ MayFail /\ Lose(oper[o].id)
  /\ Finish(o)
  /\ UNCHANGED <<killed, pending, aged, made, req, phone, clerk, granted, approved, ruled, halted, races>>

ReadToDeny(o) ==
  /\ On(o, "idle") /\ pending # None
  /\ oper' = [oper EXCEPT ![o] = [pc |-> "deny", id |-> pending, code |-> 0]]
  /\ Take

ClearDenied(o) ==
  /\ On(o, "deny")
  /\ pending' = None /\ MoveTo(o, "denied")
  /\ UNCHANGED <<spent, killed, aged, made, req, phone, clerk, ghosts>>

Deny(o) ==
  /\ On(o, "denied")
  /\ ruled' = [ruled EXCEPT ![oper[o].id] = Append(@, "denied")]
  /\ Finish(o)
  /\ UNCHANGED <<db, made, req, phone, clerk, granted, approved, lost, halted, races>>

Kill ==
  /\ killed' = TRUE
  /\ UNCHANGED <<spent, pending, aged, made, req, phone, clerk, oper, ghosts>>

\* resume does nothing when the switch is not engaged.
Resume ==
  /\ killed /\ killed' = FALSE /\ halted' = {}
  /\ UNCHANGED <<spent, pending, aged, made, req, phone, clerk, oper, granted, approved, lost, ruled, races>>

-----------------------------------------------------------------------------

\* The pending approval outlives its TTL; the live code lapses; a process dies.
Age ==
  /\ MayAge /\ pending # None
  /\ aged' = aged \cup {pending}
  /\ UNCHANGED <<spent, killed, pending, made, req, phone, clerk, oper, ghosts>>
Lapse ==
  /\ code # None /\ code' = None
  /\ UNCHANGED <<db, made, req, codes, clerk, oper, ghosts>>
Die(c) ==
  /\ MayFail /\ ~At(c, "idle") /\ Leave(c)
  /\ lost' = lost + (IF At(c, "book") THEN Amount(clerk[c].id) ELSE 0)
  /\ UNCHANGED <<db, made, req, phone, oper, granted, approved, ruled, halted, races>>
DieOper(o) ==
  /\ MayFail /\ ~On(o, "idle") /\ Finish(o)
  /\ lost' = lost + (IF On(o, "book") THEN Amount(oper[o].id) ELSE 0)
  /\ UNCHANGED <<db, made, req, phone, clerk, granted, approved, ruled, halted, races>>

ClerkStep(c) ==
  \/ \E r \in Asked : Begin(c, r)
  \/ Look(c) \/ Book(c) \/ ReadPending(c) \/ ClearStale(c) \/ SetPending(c)
  \/ SendChallenge(c) \/ Die(c)
OperStep(o) ==
  \/ \E k \in 0 .. codes : ReadToApprove(o, k)
  \/ ClearExpired(o) \/ Check(o) \/ Clear(o) \/ Approve(o) \/ BookApproved(o)
  \/ ReadToDeny(o) \/ ClearDenied(o) \/ Deny(o) \/ DieOper(o)

Next ==
  \/ \E c \in Clerks : ClerkStep(c)
  \/ \E o \in Operators : OperStep(o)
  \/ Kill \/ Resume \/ Age \/ Lapse

Spec == Init /\ [][Next]_vars

-----------------------------------------------------------------------------

TypeOK ==
  /\ spent \in Nat /\ killed \in BOOLEAN
  /\ pending \in Option(Ids) /\ aged \in SUBSET Ids
  /\ made \in 0 .. MaxRequests /\ req \in [Ids -> Option(Asked)]
  /\ code \in Option(Nat) /\ codes \in Nat
  /\ clerk \in [Clerks -> [pc : ClerkSteps, id : Option(Ids), seen : Nat]]
  /\ oper \in [Operators -> [pc : OperSteps, id : Option(Ids), code : Nat]]
  /\ granted \in Nat /\ approved \in Nat /\ lost \in Nat
  /\ ruled \in [Ids -> Seq({"approved", "denied"})]
  /\ halted \in SUBSET Clerks /\ behind \in SUBSET Clerks /\ late \in SUBSET Clerks
  /\ raced \in Nat /\ disputed \in SUBSET Ids

\* What the CLI answers "autonomous" stays within the session's budget, as
\* each such verdict must consume it, however many clerks and operators are at
\* work: only what a failure left unbooked can be granted a second time, and
\* what a clerk grants on a budget loaded before another's grant was booked.
GrantsWithinBudget == granted <= SessionCap + lost + raced

\* When no process is under way, spent_this_session is all that was granted or
\* approved, but for what failed: no process overwrites another's accounting.
SpendIsCounted ==
  (\A c \in Clerks : At(c, "idle")) /\ (\A o \in Operators : On(o, "idle")) =>
    spent + lost = granted + approved

\* An escalation that is outstanding is never discarded or replaced by another
\* request: only an operator's command takes it away.  It may be by a clerk that
\* found the row free before the escalation was put there, and by no other.
EscalationNotReplaced ==
  [][\A c \in Clerks \ late :
       pending # None /\ pending \notin aged /\ clerk'[c] # clerk[c] => pending' = pending]_vars

\* An escalation is approved or denied once at most, unless two operators'
\* commands had it in hand at once: both then rule on it.
RuledOnce == \A i \in Ids \ disputed : Len(ruled[i]) <= 1

\* As long as the switch stays engaged, no run that began under it grants.
HaltedGrantsNothing ==
  [][\A c \in Clerks : c \in halted /\ clerk'[c] # clerk[c] => granted' = granted]_vars
===========================================================================
