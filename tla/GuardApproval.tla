--------------------------- MODULE GuardApproval ---------------------------
(***************************************************************************)
(* The coding-agent guard (custodian/guards/codex): every tool call of an  *)
(* agent is evaluated by a hook or MCP process of its own.  A consequential*)
(* action needs an approval from the ApprovalStore, a directory of sealed  *)
(* records shared by all those processes and the operator's, and every     *)
(* verdict but a crash is written to the receipt chain before it is given. *)
(*                                                                         *)
(* One step is one file-system operation.  Record files are replaced       *)
(* atomically; a read may fail; a process may die anywhere.  A digest      *)
(* binds tool, kind, arguments, workspace, requester and policy version.   *)
(***************************************************************************)
EXTENDS Naturals, FiniteSets

CONSTANTS
  Digests,     \* the actions agents propose
  Forbidden,   \* those the guard itself denies
  Escalating,  \* those it escalates; the others are autonomous
  NeverAuto,   \* those of a kind in NEVER_AUTO, enforcement not "open"
  Ids,         \* approval ids (uuid4)
  Agents,      \* evaluating processes
  Operators,   \* operator processes
  None,
  TTL,         \* ttl_seconds of an approval
  MaxUses,     \* max_uses of an "auto" rule
  MaxTime,     \* bound on the clock
  MaxCrashes   \* bound on deaths of evaluating processes

ASSUME SetsAssumption ==
  /\ Digests # {}
  /\ Forbidden \subseteq Digests /\ Escalating \subseteq Digests \ Forbidden
  /\ NeverAuto \subseteq Digests
ASSUME NoneAssumption == None \notin Ids /\ None \notin Digests
ASSUME BoundsAssumption ==
  TTL \in Nat \ {0} /\ MaxUses \in Nat /\ MaxTime \in Nat /\ MaxCrashes \in Nat

VARIABLES
  now,
  rule,     \* mode of the operator's rule that matches each action
  uses,     \* how often the "auto" rule of each action has been used
  rec,      \* codex-approvals/<id>.json; status "absent": no file
  claims,   \* ids whose <id>.claim file exists
  pc,       \* where each evaluating process stands
  dig,      \* the action it evaluates
  auto,     \* the policy let it approve by itself
  todo,     \* record files find_approved has still to read
  asOf,     \* the clock when find_approved began
  cur,      \* the approval it found, was given, or issued
  seen,     \* what it last read of that approval
  verdict,  \* the verdict it is about to record and give
  opc,      \* where each operator process stands
  target, copy,  \* the approval it rules on and what it read of it
  crashes,
  granted,  \* history: approvals ever written as approved
  byHand,   \* history: those an operator approved
  autos,    \* history: approvals the policy granted, per action
  count,    \* history: "approved" verdicts given on each approval
  usedFor   \* history: the action of the last of them

agentVars    == <<pc, dig, auto, todo, asOf, cur, seen, verdict>>
operatorVars == <<opc, target, copy>>
grants       == <<granted, byHand, autos>>
given        == <<count, usedFor>>
vars == <<now, rule, uses, rec, claims, agentVars, operatorVars, crashes, grants, given>>

Statuses == {"absent", "pending", "approved", "denied", "consumed"}
Modes    == {"none", "ask", "deny", "auto"}
Verdicts == {"none", "denied", "autonomous", "escalation_required", "approved"}
Steps    == {"idle", "decide", "scan", "autoRead", "autoWrite", "claim", "check",
             "write", "readBack", "undo", "receipt"}
Records  == [digest : Digests, created : Nat, expires : Nat, status : Statuses]
Absent   == [digest |-> CHOOSE d \in Digests : TRUE,
             created |-> 0, expires |-> 0, status |-> "absent"]

Init ==
  /\ now = 0 /\ crashes = 0
  /\ rule \in [Digests -> Modes] /\ uses = [d \in Digests |-> 0]
  /\ rec = [i \in Ids |-> Absent] /\ claims = {}
  /\ pc = [p \in Agents |-> "idle"] /\ dig = [p \in Agents |-> Absent.digest]
  /\ auto = [p \in Agents |-> FALSE]
  /\ todo = [p \in Agents |-> {}] /\ asOf = [p \in Agents |-> 0]
  /\ cur = [p \in Agents |-> None] /\ seen = [p \in Agents |-> Absent]
  /\ verdict = [p \in Agents |-> "none"]
  /\ opc = [o \in Operators |-> "idle"]
  /\ target = [o \in Operators |-> None] /\ copy = [o \in Operators |-> Absent]
  /\ granted = {} /\ byHand = {} /\ autos = [d \in Digests |-> 0]
  /\ count = [i \in Ids |-> 0] /\ usedFor = [i \in Ids |-> None]

\* A process that is not evaluating anything: it has not started, has given
\* its verdict, or has died.
Blank == [pc |-> "idle", dig |-> Absent.digest, auto |-> FALSE, todo |-> {}, asOf |-> 0,
          cur |-> None, seen |-> Absent, verdict |-> "none"]
Exit(p) ==
  /\ pc' = [pc EXCEPT ![p] = Blank.pc] /\ dig' = [dig EXCEPT ![p] = Blank.dig]
  /\ auto' = [auto EXCEPT ![p] = Blank.auto] /\ todo' = [todo EXCEPT ![p] = Blank.todo]
  /\ asOf' = [asOf EXCEPT ![p] = Blank.asOf] /\ cur' = [cur EXCEPT ![p] = Blank.cur]
  /\ seen' = [seen EXCEPT ![p] = Blank.seen]
  /\ verdict' = [verdict EXCEPT ![p] = Blank.verdict]

GoTo(p, step) == pc' = [pc EXCEPT ![p] = step]
Conclude(p, v) == GoTo(p, "receipt") /\ verdict' = [verdict EXCEPT ![p] = v]

-----------------------------------------------------------------------------
(* evaluate_guard_action.                                                  *)

\* A tool call reaches the guard.  A hook never knows an approval id; a
\* caller of the MCP tool may pass any.
Propose(p, d, i) ==
  /\ pc[p] = "idle"
  /\ GoTo(p, "decide")
  /\ dig' = [dig EXCEPT ![p] = d]
  /\ cur' = [cur EXCEPT ![p] = i]
  /\ UNCHANGED <<now, rule, uses, rec, claims, auto, todo, asOf, seen, verdict, operatorVars,
                 crashes, grants, given>>

\* Mutant: an "auto" rule also applies to kinds that must never be automatic.
ModeOfAnyKind(d, below) ==
  IF rule[d] = "auto" /\ uses[d] >= MaxUses THEN below ELSE rule[d]

\* Mutant: max_uses is compared with > instead of >=.
ModeOnceMore(d, below) ==
  IF rule[d] # "auto" THEN rule[d]
  ELSE IF uses[d] > MaxUses THEN below
  ELSE IF d \in NeverAuto THEN "none" ELSE "auto"

\* ApprovalPolicy.decide, under its file lock: the newest rule that matches d
\* rules.  An "auto" rule that is used up matches no more, and what the older
\* rules say, "below", takes its place.  Bound: they hold no "auto" rule.
Mode(d, below) ==
  IF rule[d] # "auto" THEN rule[d]
  ELSE IF uses[d] >= MaxUses THEN below
  ELSE IF d \in NeverAuto THEN "none" ELSE "auto"

\* The guard's own verdict combined with the policy's mode; an "auto" rule is
\* charged whatever the verdict turns out to be.
Decide(p, below) ==
  LET d == dig[p]
      mode == Mode(d, below)
  IN /\ pc[p] = "decide"
     /\ uses' = [uses EXCEPT ![d] = @ + (IF mode = "auto" THEN 1 ELSE 0)]
     /\ auto' = [auto EXCEPT ![p] = mode = "auto"]
     /\ \/ /\ d \in Forbidden \/ mode = "deny"
           /\ Conclude(p, "denied") /\ UNCHANGED <<todo, asOf>>
        \/ /\ d \notin Forbidden \cup Escalating /\ mode \in {"none", "auto"}
           /\ Conclude(p, "autonomous") /\ UNCHANGED <<todo, asOf>>
        \/ /\ d \notin Forbidden /\ mode # "deny"
           /\ d \in Escalating \/ mode = "ask"
           /\ GoTo(p, IF cur[p] = None THEN "scan" ELSE "claim")
           /\ todo' = [todo EXCEPT ![p] =
                IF cur[p] = None THEN {i \in Ids : rec[i].status # "absent"} ELSE {}]
           /\ asOf' = [asOf EXCEPT ![p] = now]
           /\ UNCHANGED verdict
     /\ UNCHANGED <<now, rule, rec, claims, dig, cur, seen, operatorVars, crashes, grants, given>>

\* find_approved: the newest approved, unexpired record of this action.
Scan(p, i) ==
  /\ pc[p] = "scan" /\ i \in todo[p]
  /\ todo' = [todo EXCEPT ![p] = @ \ {i}]
  /\ IF /\ rec[i].status = "approved" /\ rec[i].digest = dig[p]
        /\ rec[i].expires > asOf[p]
        /\ cur[p] = None \/ rec[i].created > seen[p].created
     THEN cur' = [cur EXCEPT ![p] = i] /\ seen' = [seen EXCEPT ![p] = rec[i]]
     ELSE UNCHANGED <<cur, seen>>
  /\ UNCHANGED <<now, rule, uses, rec, claims, pc, dig, auto, asOf, verdict, operatorVars,
                 crashes, grants, given>>

Found(p) ==
  /\ pc[p] = "scan" /\ todo[p] = {} /\ cur[p] # None
  /\ GoTo(p, "claim")
  /\ UNCHANGED <<now, rule, uses, rec, claims, dig, auto, todo, asOf, cur, seen, verdict,
                 operatorVars, crashes, grants, given>>

\* ApprovalStore.request.  Under an "auto" rule the process goes on to approve
\* the record itself; otherwise the verdict is the escalation.  Here and
\* below, a read that fails makes the verdict "denied".
Request(p, i) ==
  /\ pc[p] = "scan" /\ todo[p] = {} /\ cur[p] = None
  /\ rec[i].status = "absent"
  /\ rec' = [rec EXCEPT ![i] = [digest |-> dig[p], created |-> now,
                                expires |-> now + TTL, status |-> "pending"]]
  /\ cur' = [cur EXCEPT ![p] = i]
  /\ \/ auto[p] /\ GoTo(p, "autoRead") /\ UNCHANGED verdict
     \/ ~auto[p] /\ Conclude(p, "escalation_required")
     \/ Conclude(p, "denied")
  /\ UNCHANGED <<now, rule, uses, claims, dig, auto, todo, asOf, seen, operatorVars,
                 crashes, grants, given>>

\* ApprovalStore.approve on behalf of the rule: read and check, then write.
AutoRead(p) ==
  /\ pc[p] = "autoRead"
  /\ seen' = [seen EXCEPT ![p] = rec[cur[p]]]
  /\ \/ /\ rec[cur[p]].status = "pending" /\ now <= rec[cur[p]].expires
        /\ GoTo(p, "autoWrite") /\ UNCHANGED verdict
     \/ Conclude(p, "denied")
  /\ UNCHANGED <<now, rule, uses, rec, claims, dig, auto, todo, asOf, cur, operatorVars,
                 crashes, grants, given>>

AutoWrite(p) ==
  /\ pc[p] = "autoWrite"
  /\ rec' = [rec EXCEPT ![cur[p]] = [seen[p] EXCEPT !.status = "approved"]]
  /\ granted' = granted \cup {cur[p]}
  /\ autos' = [autos EXCEPT ![dig[p]] = @ + 1]
  /\ \/ GoTo(p, "claim") /\ UNCHANGED verdict
     \/ Conclude(p, "denied")
  /\ UNCHANGED <<now, rule, uses, claims, dig, auto, todo, asOf, cur, seen,
                 operatorVars, crashes, byHand, given>>

-----------------------------------------------------------------------------
(* ApprovalStore.consume.                                                  *)

\* O_CREAT | O_EXCL on the claim file.
Claim(p) ==
  /\ pc[p] = "claim"
  /\ \/ cur[p] \in claims /\ Conclude(p, "denied") /\ UNCHANGED claims
     \/ /\ cur[p] \notin claims
        /\ claims' = claims \cup {cur[p]} /\ GoTo(p, "check") /\ UNCHANGED verdict
  /\ UNCHANGED <<now, rule, uses, rec, dig, auto, todo, asOf, cur, seen, operatorVars,
                 crashes, grants, given>>

\* Mutant: a record need not have been approved.
UsableUnapproved(r, d) == r.status # "absent" /\ now <= r.expires /\ r.digest = d

\* Mutant: the digest of the approval is not compared with the action's.
UsableForAny(r, d) == r.status = "approved" /\ now <= r.expires

Usable(r, d) == r.status = "approved" /\ now <= r.expires /\ r.digest = d

\* Read the record afresh and validate it.
Check(p) ==
  /\ pc[p] = "check"
  /\ seen' = [seen EXCEPT ![p] = rec[cur[p]]]
  /\ \/ Usable(rec[cur[p]], dig[p]) /\ GoTo(p, "write")
     \/ GoTo(p, "undo")
  /\ UNCHANGED <<now, rule, uses, rec, claims, dig, auto, todo, asOf, cur, verdict,
                 operatorVars, crashes, grants, given>>

\* Write back what was read, marked consumed; the write may fail.
Write(p) ==
  /\ pc[p] = "write"
  /\ \/ /\ rec' = [rec EXCEPT ![cur[p]] = [seen[p] EXCEPT !.status = "consumed"]]
        /\ GoTo(p, "readBack")
     \/ GoTo(p, "undo") /\ UNCHANGED rec
  /\ UNCHANGED <<now, rule, uses, claims, dig, auto, todo, asOf, cur, seen, verdict,
                 operatorVars, crashes, grants, given>>

\* Mutant: the claim file is removed after a success too, as the executor's
\* CapabilityStore does.
ReadBackUnclaims(p) ==
  /\ pc[p] = "readBack"
  /\ \/ Conclude(p, "approved") /\ claims' = claims \ {cur[p]}
     \/ GoTo(p, "undo") /\ UNCHANGED <<verdict, claims>>
  /\ UNCHANGED <<now, rule, uses, rec, dig, auto, todo, asOf, cur, seen,
                 operatorVars, crashes, grants, given>>

\* The record is read once more; success leaves the claim file for ever.
ReadBack(p) ==
  /\ pc[p] = "readBack"
  /\ \/ Conclude(p, "approved")
     \/ GoTo(p, "undo") /\ UNCHANGED verdict
  /\ UNCHANGED <<now, rule, uses, rec, claims, dig, auto, todo, asOf, cur, seen,
                 operatorVars, crashes, grants, given>>

\* The except clause: the claim file goes, unless the record is seen consumed.
Undo(p) ==
  /\ pc[p] = "undo"
  /\ \/ claims' = claims \ {cur[p]}
     \/ rec[cur[p]].status = "consumed" /\ UNCHANGED claims
  /\ Conclude(p, "denied")
  /\ UNCHANGED <<now, rule, uses, rec, dig, auto, todo, asOf, cur, seen, operatorVars,
                 crashes, grants, given>>

-----------------------------------------------------------------------------

\* ReceiptChain.append, and the verdict is given; when it fails, "denied" is.
Receipt(p) ==
  /\ pc[p] = "receipt"
  /\ Exit(p)
  /\ \/ /\ verdict[p] = "approved"
        /\ count' = [count EXCEPT ![cur[p]] = @ + 1]
        /\ usedFor' = [usedFor EXCEPT ![cur[p]] = dig[p]]
     \/ UNCHANGED given
  /\ UNCHANGED <<now, rule, uses, rec, claims, operatorVars, crashes, grants>>

AgentStep(p) ==
  \/ Found(p) \/ AutoRead(p) \/ AutoWrite(p)
  \/ \E below \in Modes \ {"auto"} : Decide(p, below)
  \/ \E i \in Ids : Scan(p, i) \/ Request(p, i)
  \/ Claim(p) \/ Check(p) \/ Write(p) \/ ReadBack(p) \/ Undo(p) \/ Receipt(p)

\* The process dies: what it did to the files stays.
Crash(p) ==
  /\ crashes < MaxCrashes /\ pc[p] # "idle"
  /\ crashes' = crashes + 1
  /\ Exit(p)
  /\ UNCHANGED <<now, rule, uses, rec, claims, operatorVars, grants, given>>

-----------------------------------------------------------------------------
(* The operator: approve, deny, and the approval policy.                   *)

\* approve() and deny() read and check...
Consider(o, i, ruling) ==
  /\ opc[o] = "idle"
  /\ rec[i].status = "pending"
  /\ ruling = "approved" => now <= rec[i].expires
  /\ opc' = [opc EXCEPT ![o] = ruling]
  /\ target' = [target EXCEPT ![o] = i]
  /\ copy' = [copy EXCEPT ![o] = rec[i]]
  /\ UNCHANGED <<now, rule, uses, rec, claims, agentVars, crashes, grants, given>>

\* Mutant: deny writes a status no other operation knows.
RuleRejected(o) ==
  /\ opc[o] # "idle"
  /\ rec' = [rec EXCEPT ![target[o]] =
       [copy[o] EXCEPT !.status = IF opc[o] = "denied" THEN "rejected" ELSE "approved"]]
  /\ opc' = [opc EXCEPT ![o] = "idle"]
  /\ target' = [target EXCEPT ![o] = None] /\ copy' = [copy EXCEPT ![o] = Absent]
  /\ LET new == IF opc[o] = "approved" THEN {target[o]} ELSE {} IN
       granted' = granted \cup new /\ byHand' = byHand \cup new
  /\ UNCHANGED <<now, rule, uses, claims, agentVars, crashes, autos, given>>

\* ...and write what they read, holding nothing in between.
Rule(o) ==
  /\ opc[o] # "idle"
  /\ rec' = [rec EXCEPT ![target[o]] = [copy[o] EXCEPT !.status = opc[o]]]
  /\ opc' = [opc EXCEPT ![o] = "idle"]
  /\ target' = [target EXCEPT ![o] = None] /\ copy' = [copy EXCEPT ![o] = Absent]
  /\ LET new == IF opc[o] = "approved" THEN {target[o]} ELSE {} IN
       granted' = granted \cup new /\ byHand' = byHand \cup new
  /\ UNCHANGED <<now, rule, uses, claims, agentVars, crashes, autos, given>>

\* ApprovalPolicy.add and remove: the rule in force changes.  Bound: no
\* second "auto" rule is added.
SetRule(d, mode) ==
  /\ rule' = [rule EXCEPT ![d] = mode]
  /\ UNCHANGED <<now, uses, rec, claims, agentVars, operatorVars, crashes, grants, given>>

Tick ==
  /\ now < MaxTime
  /\ now' = now + 1
  /\ UNCHANGED <<rule, uses, rec, claims, agentVars, operatorVars, crashes, grants, given>>

Next ==
  \/ \E p \in Agents :
       \/ AgentStep(p) \/ Crash(p)
       \/ \E d \in Digests, i \in Ids \cup {None} : Propose(p, d, i)
  \/ \E o \in Operators :
       \/ Rule(o)
       \/ \E i \in Ids, ruling \in {"approved", "denied"} : Consider(o, i, ruling)
  \/ \E d \in Digests, mode \in Modes \ {"auto"} : SetRule(d, mode)
  \/ Tick

Spec == Init /\ [][Next]_vars

-----------------------------------------------------------------------------
(* Properties.                                                             *)

TypeOK ==
  /\ now \in Nat /\ crashes \in Nat
  /\ rule \in [Digests -> Modes] /\ uses \in [Digests -> Nat]
  /\ rec \in [Ids -> Records] /\ claims \subseteq Ids
  /\ pc \in [Agents -> Steps] /\ dig \in [Agents -> Digests]
  /\ auto \in [Agents -> BOOLEAN]
  /\ todo \in [Agents -> SUBSET Ids] /\ asOf \in [Agents -> Nat]
  /\ cur \in [Agents -> Ids \cup {None}] /\ seen \in [Agents -> Records]
  /\ verdict \in [Agents -> Verdicts]
  /\ opc \in [Operators -> {"idle", "approved", "denied"}]
  /\ target \in [Operators -> Ids \cup {None}] /\ copy \in [Operators -> Records]
  /\ granted \subseteq Ids /\ byHand \subseteq Ids /\ autos \in [Digests -> Nat]
  /\ count \in [Ids -> Nat] /\ usedFor \in [Ids -> Digests \cup {None}]

\* However many operators rule on it at once, however processes die and
\* whatever reads and writes fail, an approval yields one "approved" verdict
\* at most: the claim file of a successful consumption is never removed.
SingleUse == \A i \in Ids : count[i] <= 1

\* An approval serves only the action whose digest it was issued for, and
\* only once an operator or an "auto" rule has granted it, even when the
\* caller names the approval id itself.
UsedAsGranted ==
  \A i \in Ids : usedFor[i] # None => i \in granted /\ rec[i].digest = usedFor[i]

\* An action of a NEVER_AUTO kind is approved by an operator or not at all.
NeverAutoNeedsOperator ==
  \A i \in Ids : usedFor[i] \in NeverAuto => i \in byHand

\* An "auto" rule grants no more approvals than it was charged uses, and is
\* charged no more than its max_uses.
RuleIsBounded ==
  \A d \in Digests : autos[d] <= uses[d] /\ uses[d] <= MaxUses

\* The store keeps the abstract promise of an approval.
Promise == INSTANCE OneShotGrant WITH
  Actions <- Digests,
  bound <- [i \in Ids |-> IF rec[i].status = "absent" THEN None ELSE rec[i].digest],
  granted <- [i \in Ids |-> IF i \in granted THEN 1 ELSE 0],
  count <- count, usedFor <- usedFor
KeepsPromise == Promise!Spec
=============================================================================
