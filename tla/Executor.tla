------------------------------ MODULE Executor ------------------------------
(***************************************************************************)
(* The delegated executor (custodian/executor): a threaded socket server   *)
(* that re-derives the kernel's verdict for each request and runs the tool,*)
(* and the CapabilityStore it shares, through the file system, with the    *)
(* operator's `custodian executor approve | deny` processes.               *)
(*                                                                         *)
(* One step is one file-system operation or one decision: what another     *)
(* thread or process does between two of them is visible here.  Record     *)
(* files are replaced atomically (os.replace), so a read sees one whole    *)
(* record.  A digest binds tool, arguments, workspace and requester, and   *)
(* is collision free; an element of Actions is one such digest.            *)
(***************************************************************************)
EXTENDS Naturals, FiniteSets

CONSTANTS
  Actions,      \* digests of the proposals clients send
  Ungated,      \* those whose tool is in band L0 or L1: the kernel is not asked
  Autonomous,   \* gated ones the kernel's policy lets run without a human
  Caps,         \* capability ids (uuid4), each used for at most one record
  Handlers,     \* threads of the executor process
  Operators,    \* operator processes, each running one command at a time
  None,         \* "no capability"
  GateCanFail,  \* TRUE: authority.json or policy.yaml may be unreadable at times
  FilesFail,    \* TRUE: reads and writes of capability records may fail
  TTL,          \* default_ttl_seconds; 0: it ends with the unit it began in
  MaxTime,      \* bound: the clock stops here
  MaxCrashes    \* bound: crashes of the executor process

ASSUME ActionsAssumption ==
  Actions # {} /\ Ungated \subseteq Actions /\ Autonomous \subseteq Actions \ Ungated
ASSUME NoneAssumption == None \notin Caps /\ None \notin Actions
ASSUME BoundsAssumption ==
  /\ GateCanFail \in BOOLEAN /\ FilesFail \in BOOLEAN
  /\ TTL \in Nat /\ MaxTime \in Nat /\ MaxCrashes \in Nat

VARIABLES
  now,      \* the clock; it may stand still between two readings
  killed,   \* what kernel_gate reads from kill_switch.json
  rec,      \* executor-capabilities/<id>.json; status "absent": no file yet
  claims,   \* ids whose <id>.claim file exists
  pc,       \* where each handler thread stands
  act,      \* the action of the request it handles
  todo,     \* record files its scan listed and has not read yet
  asOf,     \* the clock when its scan began
  best,     \* the capability its scan prefers, or consumes
  seen,     \* the content it last read of that capability
  opc,      \* where each operator process stands
  target,   \* the capability it rules on
  copy,     \* the content it read of it
  crashes,  \* crashes of the executor so far
  ran,      \* history: executions each capability has paid for
  ranFor,   \* history: the action of the last of them
  approvals,  \* history: how often each capability was written as approved
  contested,  \* history: those that two operators had in hand at once
  halted    \* history: killed ever since the handler received its request

request      == <<act, todo, asOf, best, seen, halted>>
handlerVars  == <<pc, request>>
operatorVars == <<opc, target, copy>>
runs         == <<ran, ranFor>>
rulings      == <<approvals, contested>>
history      == <<runs, rulings>>
vars == <<now, killed, rec, claims, handlerVars, operatorVars, crashes, history>>

Statuses == {"absent", "pending", "approved", "denied", "consumed"}
Records  == [digest : Actions, created : Nat, expires : Nat, status : Statuses]
NoAction == CHOOSE a \in Actions : TRUE
Absent   == [digest |-> NoAction, created |-> 0, expires |-> 0, status |-> "absent"]

Steps == {"idle", "decide", "scan", "claim", "check", "write", "release",
          "commit", "run"}

Expired(r, t) == t > r.expires

Init ==
  /\ now = 0 /\ killed = FALSE /\ crashes = 0
  /\ rec = [c \in Caps |-> Absent]
  /\ claims = {}
  /\ pc = [h \in Handlers |-> "idle"]
  /\ act = [h \in Handlers |-> NoAction]
  /\ todo = [h \in Handlers |-> {}]
  /\ asOf = [h \in Handlers |-> 0]
  /\ best = [h \in Handlers |-> None]
  /\ seen = [h \in Handlers |-> Absent]
  /\ opc = [o \in Operators |-> "idle"]
  /\ target = [o \in Operators |-> None]
  /\ copy = [o \in Operators |-> Absent]
  /\ ran = [c \in Caps |-> 0]
  /\ ranFor = [c \in Caps |-> None]
  /\ approvals = [c \in Caps |-> 0] /\ contested = {}
  /\ halted = [h \in Handlers |-> FALSE]

-----------------------------------------------------------------------------
(* ExecutorService.handle, in a thread per connection.                     *)

GoTo(h, step) == pc' = [pc EXCEPT ![h] = step]
Continue(h, step) == GoTo(h, step) /\ UNCHANGED request

\* The thread answers and ends.
End(h) ==
  /\ GoTo(h, "idle")
  /\ act'    = [act EXCEPT ![h] = NoAction]
  /\ todo'   = [todo EXCEPT ![h] = {}]
  /\ asOf'   = [asOf EXCEPT ![h] = 0]
  /\ best'   = [best EXCEPT ![h] = None]
  /\ seen'   = [seen EXCEPT ![h] = Absent]
  /\ halted' = [halted EXCEPT ![h] = FALSE]

\* A client sends, or sends again, the request whose digest is a.  Requests
\* refused before the kernel is asked change nothing and are left out.
Receive(h, a) ==
  /\ pc[h] = "idle"
  /\ GoTo(h, "decide")
  /\ act' = [act EXCEPT ![h] = a]
  /\ halted' = [halted EXCEPT ![h] = killed]
  /\ UNCHANGED <<now, killed, rec, claims, todo, asOf, best, seen, operatorVars, crashes, history>>

\* Mutant: the policy is consulted before the kill switch.
VerdictsPolicyFirst(a) ==
  {v \in {"denied", "autonomous", "escalation_required"} :
     \/ v = "denied" /\ killed /\ a \notin Autonomous
     \/ v = "autonomous" /\ a \in Autonomous
     \/ v = "escalation_required" /\ ~killed /\ a \notin Autonomous}

\* kernel_gate: an engaged kill switch denies whatever the policy says; a
\* gate whose state or policy file cannot be read escalates instead.
Verdicts(a) ==
  {v \in {"denied", "autonomous", "escalation_required"} :
     \/ v = "denied" /\ killed
     \/ v = "autonomous" /\ ~killed /\ a \in Autonomous
     \/ v = "escalation_required" /\ (GateCanFail \/ (~killed /\ a \notin Autonomous))}

\* The verdict; an escalation starts find_pending_by_digest, which reads the
\* clock and lists the record files.
Decide(h) ==
  /\ pc[h] = "decide"
  /\ \/ act[h] \in Ungated /\ Continue(h, "run")
     \/ /\ act[h] \notin Ungated
        /\ \E v \in Verdicts(act[h]) :
             \/ v = "denied" /\ End(h)
             \/ v = "autonomous" /\ Continue(h, "run")
             \/ /\ v = "escalation_required"
                /\ GoTo(h, "scan")
                /\ todo' = [todo EXCEPT ![h] = {c \in Caps : rec[c].status # "absent"}]
                /\ asOf' = [asOf EXCEPT ![h] = now]
                /\ UNCHANGED <<act, best, seen, halted>>
  /\ UNCHANGED <<now, killed, rec, claims, operatorVars, crashes, history>>

\* Mutant: the scan looks for pending records only.
ScanPendingOnly(h, c) ==
  /\ pc[h] = "scan" /\ c \in todo[h]
  /\ todo' = [todo EXCEPT ![h] = @ \ {c}]
  /\ IF /\ rec[c].digest = act[h] /\ rec[c].status = "pending"
        /\ ~Expired(rec[c], asOf[h])
     THEN best' = [best EXCEPT ![h] = c] /\ seen' = [seen EXCEPT ![h] = rec[c]]
     ELSE UNCHANGED <<best, seen>>
  /\ UNCHANGED <<now, killed, rec, claims, pc, act, asOf, halted, operatorVars, crashes, history>>

\* One iteration of the scan, in any order: a live record of this action that
\* is newer than the best so far replaces it; one that cannot be read is
\* passed over.
Prefers(h, c) ==
  /\ rec[c].digest = act[h]
  /\ rec[c].status \notin {"consumed", "denied"}
  /\ ~Expired(rec[c], asOf[h])
  /\ best[h] = None \/ rec[c].created > seen[h].created

Scan(h, c) ==
  /\ pc[h] = "scan" /\ c \in todo[h]
  /\ todo' = [todo EXCEPT ![h] = @ \ {c}]
  /\ \/ /\ Prefers(h, c)
        /\ best' = [best EXCEPT ![h] = c] /\ seen' = [seen EXCEPT ![h] = rec[c]]
     \/ (Prefers(h, c) => FilesFail) /\ UNCHANGED <<best, seen>>
  /\ UNCHANGED <<now, killed, rec, claims, pc, act, asOf, halted, operatorVars, crashes, history>>

\* The scan ended with an approved capability: go and consume it.
Present(h) ==
  /\ pc[h] = "scan" /\ todo[h] = {}
  /\ best[h] # None /\ seen[h].status = "approved"
  /\ Continue(h, "claim")
  /\ UNCHANGED <<now, killed, rec, claims, operatorVars, crashes, history>>

\* It ended with a pending one: answer with its id.
AnswerPending(h) ==
  /\ pc[h] = "scan" /\ todo[h] = {}
  /\ best[h] # None /\ seen[h].status # "approved"
  /\ End(h)
  /\ UNCHANGED <<now, killed, rec, claims, operatorVars, crashes, history>>

\* It ended with none: CapabilityStore.request writes a fresh record, and the
\* answer carries its id.
Request(h, c) ==
  /\ pc[h] = "scan" /\ todo[h] = {} /\ best[h] = None
  /\ rec[c].status = "absent"
  /\ rec' = [rec EXCEPT ![c] = [digest |-> act[h], created |-> now,
                                expires |-> now + TTL, status |-> "pending"]]
  /\ End(h)
  /\ UNCHANGED <<now, killed, claims, operatorVars, crashes, history>>

-----------------------------------------------------------------------------
(* CapabilityStore.consume.                                                *)

\* Mutant: the claim file is created without O_EXCL.
ClaimShared(h) ==
  /\ pc[h] = "claim"
  /\ Continue(h, "check") /\ claims' = claims \cup {best[h]}
  /\ UNCHANGED <<now, killed, rec, operatorVars, crashes, history>>

\* O_CREAT | O_EXCL on the claim file: one caller creates it, the others are
\* answered "could not be consumed".
Claim(h) ==
  /\ pc[h] = "claim"
  /\ \/ best[h] \in claims /\ End(h) /\ UNCHANGED claims
     \/ best[h] \notin claims /\ Continue(h, "check") /\ claims' = claims \cup {best[h]}
  /\ UNCHANGED <<now, killed, rec, operatorVars, crashes, history>>

\* Mutant: the record the scan saw is used instead of a fresh read.
CheckFromScan(h) ==
  /\ pc[h] = "check"
  /\ Continue(h, IF seen[h].status = "approved" /\ ~Expired(seen[h], now)
                 THEN "write" ELSE "release")
  /\ UNCHANGED <<now, killed, rec, claims, operatorVars, crashes, history>>

\* Under the claim, read the record afresh and validate it.
Check(h) ==
  /\ pc[h] = "check"
  /\ LET r == rec[best[h]] IN
       /\ seen' = [seen EXCEPT ![h] = r]
       /\ \/ /\ r.status = "approved" /\ ~Expired(r, now) /\ r.digest = act[h]
             /\ GoTo(h, "write")
          \/ /\ FilesFail \/ r.status # "approved" \/ Expired(r, now) \/ r.digest # act[h]
             /\ GoTo(h, "release")
  /\ UNCHANGED <<now, killed, rec, claims, act, todo, asOf, best, halted, operatorVars,
                 crashes, history>>

\* Write back what was read, marked consumed.  The write may fail, and so may
\* the read-back that follows it: the request is then answered with an error.
WriteConsumed(h) ==
  /\ pc[h] = "write"
  /\ \/ /\ rec' = [rec EXCEPT ![best[h]] = [seen[h] EXCEPT !.status = "consumed"]]
        /\ \/ Continue(h, "commit")
           \/ FilesFail /\ Continue(h, "release")
     \/ FilesFail /\ Continue(h, "release") /\ UNCHANGED rec
  /\ UNCHANGED <<now, killed, claims, operatorVars, crashes, history>>

\* Mutant: a failed consume() is not told from a successful one.
UnclaimAndRun(h) ==
  /\ pc[h] \in {"release", "commit"}
  /\ claims' = claims \ {best[h]}
  /\ Continue(h, "run")
  /\ UNCHANGED <<now, killed, rec, operatorVars, crashes, history>>

\* The finally clause: the claim file goes whatever happened.
Unclaim(h) ==
  /\ \/ pc[h] = "commit" /\ Continue(h, "run")
     \/ pc[h] = "release" /\ End(h)
  /\ claims' = claims \ {best[h]}
  /\ UNCHANGED <<now, killed, rec, operatorVars, crashes, history>>

\* tool._run_script.  best[h] = None: no capability was needed.
Run(h) ==
  /\ pc[h] = "run"
  /\ ran' = [c \in Caps |-> ran[c] + (IF c = best[h] THEN 1 ELSE 0)]
  /\ ranFor' = [c \in Caps |-> IF c = best[h] THEN act[h] ELSE ranFor[c]]
  /\ End(h)
  /\ UNCHANGED <<now, killed, rec, claims, operatorVars, crashes, rulings>>

HandlerStep(h) ==
  \/ Decide(h)
  \/ \E c \in Caps : Scan(h, c) \/ Request(h, c)
  \/ Present(h) \/ AnswerPending(h)
  \/ Claim(h) \/ Check(h) \/ WriteConsumed(h) \/ Unclaim(h) \/ Run(h)

-----------------------------------------------------------------------------
(* The operator's processes, the clock, the kill switch and crashes.       *)

\* History: o takes up c while another operator's ruling on it is under way.
Contests(o, c) ==
  contested' = contested \cup
    {d \in {c} : \E p \in Operators \ {o} : opc[p] # "idle" /\ target[p] = d}

\* Mutant: the status is not checked, so a settled record can be ruled on.
ConsiderAny(o, c, verdict) ==
  /\ opc[o] = "idle"
  /\ rec[c].status # "absent"
  /\ verdict = "approved" => ~Expired(rec[c], now)
  /\ opc' = [opc EXCEPT ![o] = verdict]
  /\ target' = [target EXCEPT ![o] = c]
  /\ copy' = [copy EXCEPT ![o] = rec[c]]
  /\ Contests(o, c)
  /\ UNCHANGED <<now, killed, rec, claims, handlerVars, crashes, runs, approvals>>

\* CapabilityStore.approve and deny: a read and its checks...
Consider(o, c, verdict) ==
  /\ opc[o] = "idle"
  /\ rec[c].status = "pending"
  /\ verdict = "approved" => ~Expired(rec[c], now)
  /\ opc' = [opc EXCEPT ![o] = verdict]
  /\ target' = [target EXCEPT ![o] = c]
  /\ copy' = [copy EXCEPT ![o] = rec[c]]
  /\ Contests(o, c)
  /\ UNCHANGED <<now, killed, rec, claims, handlerVars, crashes, runs, approvals>>

\* Mutant: deny writes a status no other operation knows.
RuleRejected(o) ==
  /\ opc[o] # "idle"
  /\ rec' = [rec EXCEPT ![target[o]] =
       [copy[o] EXCEPT !.status = IF opc[o] = "denied" THEN "rejected" ELSE "approved"]]
  /\ opc' = [opc EXCEPT ![o] = "idle"]
  /\ target' = [target EXCEPT ![o] = None] /\ copy' = [copy EXCEPT ![o] = Absent]
  /\ approvals' = [approvals EXCEPT ![target[o]] = @ + (IF opc[o] = "approved" THEN 1 ELSE 0)]
  /\ UNCHANGED <<now, killed, claims, handlerVars, crashes, runs, contested>>

\* ...and, with nothing held in between, the write of what was read.
Rule(o) ==
  /\ opc[o] # "idle"
  /\ rec' = [rec EXCEPT ![target[o]] = [copy[o] EXCEPT !.status = opc[o]]]
  /\ opc' = [opc EXCEPT ![o] = "idle"]
  /\ target' = [target EXCEPT ![o] = None] /\ copy' = [copy EXCEPT ![o] = Absent]
  /\ approvals' = [approvals EXCEPT ![target[o]] = @ + (IF opc[o] = "approved" THEN 1 ELSE 0)]
  /\ UNCHANGED <<now, killed, claims, handlerVars, crashes, runs, contested>>

\* custodian kill and custodian resume.
SwitchKill ==
  /\ killed' = ~killed
  /\ halted' = [h \in Handlers |-> halted[h] /\ killed']
  /\ UNCHANGED <<now, rec, claims, pc, act, todo, asOf, best, seen, operatorVars, crashes, history>>

Tick ==
  /\ now < MaxTime
  /\ now' = now + 1
  /\ UNCHANGED <<killed, rec, claims, handlerVars, operatorVars, crashes, history>>

\* The executor process dies and is started again: its threads are gone, the
\* record and claim files are not.
Crash ==
  /\ crashes < MaxCrashes
  /\ crashes' = crashes + 1
  /\ pc' = [h \in Handlers |-> "idle"]
  /\ act' = [h \in Handlers |-> NoAction] /\ todo' = [h \in Handlers |-> {}]
  /\ asOf' = [h \in Handlers |-> 0] /\ best' = [h \in Handlers |-> None]
  /\ seen' = [h \in Handlers |-> Absent] /\ halted' = [h \in Handlers |-> FALSE]
  /\ UNCHANGED <<now, killed, rec, claims, operatorVars, history>>

Next ==
  \/ \E h \in Handlers : HandlerStep(h) \/ \E a \in Actions : Receive(h, a)
  \/ \E o \in Operators :
       \/ \E c \in Caps, verdict \in {"approved", "denied"} : Consider(o, c, verdict)
       \/ Rule(o)
  \/ SwitchKill \/ Tick \/ Crash

Spec == Init /\ [][Next]_vars

\* Threads get scheduled, and a client keeps re-sending a request it wants
\* run: the server takes any number of connections, so none is shut out.
\* Operators, the kill switch and the clock owe nothing.
FairSpec ==
  /\ Spec
  /\ \A h \in Handlers : WF_vars(HandlerStep(h))
  /\ \A a \in Actions : SF_vars(\E h \in Handlers : Receive(h, a))

-----------------------------------------------------------------------------
(* Properties.                                                             *)

TypeOK ==
  /\ now \in Nat /\ killed \in BOOLEAN /\ crashes \in Nat
  /\ rec \in [Caps -> Records]
  /\ claims \subseteq Caps
  /\ pc \in [Handlers -> Steps]
  /\ act \in [Handlers -> Actions]
  /\ todo \in [Handlers -> SUBSET Caps]
  /\ asOf \in [Handlers -> Nat]
  /\ best \in [Handlers -> Caps \cup {None}]
  /\ seen \in [Handlers -> Records]
  /\ opc \in [Operators -> {"idle", "approved", "denied"}]
  /\ target \in [Operators -> Caps \cup {None}]
  /\ copy \in [Operators -> Records]
  /\ ran \in [Caps -> Nat] /\ ranFor \in [Caps -> Actions \cup {None}]
  /\ approvals \in [Caps -> Nat] /\ contested \subseteq Caps
  /\ halted \in [Handlers -> BOOLEAN]

\* Each approval pays for one execution at most, whatever the interleaving of
\* the executor's threads and its crashes ("consuming it exactly once"); and
\* a capability is approved once, unless two operators had it in hand at once,
\* as approve() and deny() hold no lock between their read and their write.
SingleUse ==
  \A c \in Caps : ran[c] <= approvals[c] /\ (c \notin contested => ran[c] <= 1)

\* An execution the kernel did not allow by itself is paid for by an approved
\* capability of that very action, which is then consumed: no thread acts on
\* what its scan saw when the record has meanwhile been denied, or was for
\* something else.
RunsArePaidFor ==
  \A h \in Handlers :
    pc[h] = "run" /\ act[h] \notin Ungated /\ (best[h] # None \/ act[h] \notin Autonomous) =>
      /\ best[h] # None
      /\ rec[best[h]].digest = act[h]
      /\ ran[best[h]] < approvals[best[h]]
      /\ best[h] \notin contested => rec[best[h]].status = "consumed"

\* A denied or consumed capability never changes again, however many operators
\* and consumers there are, unless two operators had it in hand at once.
FinalStaysFinal ==
  [][\A c \in Caps \ contested :
       rec[c].status \in {"denied", "consumed"} => rec'[c] = rec[c]]_vars

\* While a thread is inside consume() its claim file exists, and no other
\* thread is inside consume() for the same capability.
InConsume(h) == pc[h] \in {"check", "write", "release", "commit"}
ClaimIsExclusive ==
  \A h \in Handlers : InConsume(h) =>
    /\ best[h] \in claims
    /\ \A g \in Handlers \ {h} : InConsume(g) => best[g] # best[h]

\* A gated request that arrives while the kill switch is engaged does not run
\* as long as the switch stays engaged, approved or not.
HaltedDoesNotRun ==
  \A h \in Handlers : pc[h] = "run" /\ halted[h] => act[h] \in Ungated

\* A re-send finds another live record of this action, at least as recent.
Hidden(c) ==
  \E d \in Caps \ {c} :
    /\ rec[d].digest = rec[c].digest /\ rec[d].status \in {"pending", "approved"}
    /\ rec[d].created >= rec[c].created /\ ~Expired(rec[d], now)

\* service.py: re-sending the request after a human has approved it executes
\* it.  Whatever a second thread does meanwhile, an approved capability is not
\* just consumed but eventually paid with, unless it expires, the kill switch
\* is engaged, or the request was sent twice at once and the other record is
\* the one that is found (while the records can be read and the executor lives).
ApprovedGetsExecuted ==
  \A c \in Caps :
    rec[c].status = "approved" ~>
      (ran[c] > 0 \/ Expired(rec[c], now) \/ killed \/ Hidden(c))

\* The executor keeps the abstract promise of an approval: a capability is
\* bound when its record appears, granted each time it is approved, used when
\* it pays.
Promise == INSTANCE OneShotGrant WITH
  Ids <- Caps,
  bound <- [c \in Caps |-> IF rec[c].status = "absent" THEN None ELSE rec[c].digest],
  granted <- approvals, count <- ran, usedFor <- ranFor
KeepsPromise == Promise!Spec
=============================================================================
