------------------------ MODULE GuardApprovalProofs ------------------------
(***************************************************************************)
(* Proofs about GuardApproval, for any number of actions, approvals,       *)
(* evaluating processes and operators, and any rule set.  Nothing is       *)
(* assumed about how operators interleave: the claim file that a           *)
(* successful consumption leaves behind is enough.                         *)
(***************************************************************************)
EXTENDS GuardApproval, FiniteSetTheorems, TLAPS

Inside(p) == pc[p] \in {"check", "write", "readBack", "undo"}
Won(p)    == pc[p] = "receipt" /\ verdict[p] = "approved"
Owner(p)  == Inside(p) \/ Won(p)

\* A process past the search has an approval in hand.
Placed ==
  \A p \in Agents :
    pc[p] \in {"autoRead", "autoWrite", "claim"} \/ Owner(p) => cur[p] \in Ids

\* Whoever consumes, or has consumed and not yet answered, owns the claim file.
OwnersClaim ==
  \A p \in Agents : Owner(p) =>
    /\ cur[p] \in claims
    /\ \A q \in Agents : Owner(q) /\ cur[q] = cur[p] => q = p

\* The claim file of an approval that was used stays, with no owner to undo it.
UsedStaysClaimed ==
  \A i \in Ids :
    /\ count[i] <= 1
    /\ count[i] # 0 => i \in claims /\ \A p \in Agents : Owner(p) => cur[p] # i

-----------------------------------------------------------------------------
(* Typing.                                                                 *)

LEMMA StatusUpdate ==
  ASSUME NEW r \in Records, NEW s \in Statuses
  PROVE  [r EXCEPT !.status = s] \in Records
  BY DEF Records

LEMMA BlankTypes == Absent \in Records /\ Absent.digest \in Digests
<1>1. (CHOOSE d \in Digests : TRUE) \in Digests
  BY SetsAssumption
<1> QED
  BY <1>1 DEF Absent, Records, Statuses

LEMMA TypeInit == Init => TypeOK
<1> SUFFICES ASSUME Init PROVE TypeOK
  OBVIOUS
<1>1. /\ rec \in [Ids -> Records] /\ seen \in [Agents -> Records]
      /\ copy \in [Operators -> Records] /\ dig \in [Agents -> Digests]
  BY BlankTypes DEF Init
<1>2. auto \in [Agents -> BOOLEAN]
  BY DEF Init
<1> QED
  BY <1>1, <1>2 DEF Init, TypeOK, Steps, Verdicts

LEMMA TypeStep == TypeOK /\ Placed /\ [Next]_vars => TypeOK'
<1> SUFFICES ASSUME TypeOK, Placed, [Next]_vars PROVE TypeOK'
  OBVIOUS
<1> USE BoundsAssumption
    DEF TypeOK, Steps, Verdicts, agentVars, operatorVars, grants, given, GoTo, Conclude
<1>1. CASE UNCHANGED vars
  BY <1>1 DEF vars
<1>2. ASSUME NEW p \in Agents, NEW d \in Digests, NEW i \in Ids \cup {None}, Propose(p, d, i)
      PROVE  TypeOK'
  BY <1>2 DEF Propose
<1>3. ASSUME NEW p \in Agents, NEW below \in Modes \ {"auto"}, Decide(p, below) PROVE TypeOK'
  <2>1. uses' \in [Digests -> Nat]
    BY <1>3 DEF Decide
  <2>2. auto' \in [Agents -> BOOLEAN]
    BY <1>3, Zenon DEF Decide
  <2>3. todo' \in [Agents -> SUBSET Ids] /\ asOf' \in [Agents -> Nat]
    BY <1>3 DEF Decide
  <2>4. pc' \in [Agents -> Steps] /\ verdict' \in [Agents -> Verdicts]
    BY <1>3 DEF Decide
  <2> QED
    BY <1>3, <2>1, <2>2, <2>3, <2>4 DEF Decide
<1>4. ASSUME NEW p \in Agents, NEW i \in Ids, Scan(p, i) PROVE TypeOK'
  BY <1>4 DEF Scan
<1>5. ASSUME NEW p \in Agents, NEW i \in Ids, Request(p, i) PROVE TypeOK'
  <2>1. [digest |-> dig[p], created |-> now, expires |-> now + TTL,
         status |-> "pending"] \in Records
    BY DEF Records, Statuses
  <2> QED
    BY <1>5, <2>1 DEF Request
<1>6. ASSUME NEW p \in Agents, Found(p) \/ AutoRead(p) PROVE TypeOK'
  BY <1>6 DEF Found, AutoRead, Placed
<1>7. ASSUME NEW p \in Agents, AutoWrite(p) PROVE TypeOK'
  <2>1. [seen[p] EXCEPT !.status = "approved"] \in Records /\ cur[p] \in Ids
    BY <1>7, StatusUpdate DEF Statuses, AutoWrite, Placed
  <2> QED
    BY <1>7, <2>1 DEF AutoWrite
<1>8. ASSUME NEW p \in Agents, Claim(p) PROVE TypeOK'
  BY <1>8 DEF Claim, Placed
<1>9. ASSUME NEW p \in Agents, Check(p) PROVE TypeOK'
  BY <1>9 DEF Check, Placed, Owner, Inside
<1>10. ASSUME NEW p \in Agents, Write(p) PROVE TypeOK'
  <2>1. [seen[p] EXCEPT !.status = "consumed"] \in Records
    BY StatusUpdate DEF Statuses
  <2> QED
    BY <1>10, <2>1 DEF Write
<1>11. ASSUME NEW p \in Agents, ReadBack(p) \/ Undo(p) PROVE TypeOK'
  BY <1>11 DEF ReadBack, Undo
<1>12. ASSUME NEW p \in Agents, Receipt(p) PROVE TypeOK'
  BY <1>12, BlankTypes DEF Receipt, Exit, Blank
<1>13. ASSUME NEW p \in Agents, Crash(p) PROVE TypeOK'
  BY <1>13, BlankTypes DEF Crash, Exit, Blank
<1>14. ASSUME NEW o \in Operators, NEW i \in Ids,
              NEW ruling \in {"approved", "denied"}, Consider(o, i, ruling)
       PROVE  TypeOK'
  BY <1>14 DEF Consider
<1>15. ASSUME NEW o \in Operators, Rule(o) PROVE TypeOK'
  <2>1. copy[o] \in Records /\ opc[o] \in {"approved", "denied"}
    BY <1>15 DEF Rule
  <2>2. [copy[o] EXCEPT !.status = opc[o]] \in Records
    BY <2>1, StatusUpdate DEF Statuses
  <2>3. rec' \in [Ids -> Records]
    BY <1>15, <2>2 DEF Rule
  <2> QED
    BY <1>15, <2>3, BlankTypes DEF Rule
<1>16. ASSUME NEW d \in Digests, NEW mode \in Modes \ {"auto"}, SetRule(d, mode) PROVE TypeOK'
  BY <1>16 DEF SetRule
<1>17. CASE Tick
  BY <1>17 DEF Tick
<1> HIDE DEF TypeOK
<1> QED
  BY <1>1, <1>2, <1>3, <1>4, <1>5, <1>6, <1>7, <1>8, <1>9, <1>10, <1>11, <1>12,
     <1>13, <1>14, <1>15, <1>16, <1>17 DEF Next, AgentStep

-----------------------------------------------------------------------------
(* An approval is used once.                                               *)

IInv == TypeOK /\ Placed /\ OwnersClaim /\ UsedStaysClaimed

LEMMA InitIInv == Init => IInv
<1> SUFFICES ASSUME Init PROVE IInv
  OBVIOUS
<1>1. TypeOK
  BY TypeInit
<1>2. \A p \in Agents : pc[p] = "idle"
  BY DEF Init
<1>3. \A i \in Ids : count[i] = 0
  BY DEF Init
<1> QED
  BY <1>1, <1>2, <1>3 DEF IInv, Placed, OwnersClaim, UsedStaysClaimed, Owner, Inside, Won

\* What a step of p that neither makes p an owner nor touches a claim file or
\* a count leaves as it was.
LEMMA Harmless ==
  ASSUME IInv, NEW p \in Agents,
         \A q \in Agents : Owner(q)' => Owner(q) /\ cur'[q] = cur[q],
         claims' = claims, count' = count
  PROVE  OwnersClaim' /\ UsedStaysClaimed'
  BY DEF IInv, OwnersClaim, UsedStaysClaimed

LEMMA StepIInv == IInv /\ [Next]_vars => IInv'
<1> SUFFICES ASSUME IInv, [Next]_vars PROVE IInv'
  OBVIOUS
<1> USE DEF TypeOK, agentVars, operatorVars, grants, given, GoTo, Conclude
<1>1. TypeOK /\ TypeOK'
  BY TypeStep DEF IInv
<1>2. Placed /\ OwnersClaim /\ UsedStaysClaimed
  BY DEF IInv
<1> SUFFICES Placed' /\ OwnersClaim' /\ UsedStaysClaimed'
  BY <1>1 DEF IInv
<1>3. CASE UNCHANGED vars
  BY <1>2, <1>3 DEF vars, Placed, OwnersClaim, UsedStaysClaimed, Owner, Inside, Won
<1>4. CASE UNCHANGED <<agentVars, claims, given>>
  BY <1>2, <1>4 DEF Placed, OwnersClaim, UsedStaysClaimed, Owner, Inside, Won
<1>5. ASSUME NEW p \in Agents,
             \/ \E d \in Digests, i \in Ids \cup {None} : Propose(p, d, i)
             \/ \E below \in Modes \ {"auto"} : Decide(p, below)
             \/ Found(p) \/ AutoRead(p) \/ AutoWrite(p)
             \/ \E i \in Ids : Scan(p, i) \/ Request(p, i)
      PROVE  Placed' /\ OwnersClaim' /\ UsedStaysClaimed'
  <2>1. ~Owner(p) /\ ~Owner(p)'
    BY <1>1, <1>5 DEF Propose, Decide, Found, AutoRead, AutoWrite, Scan, Request,
       Owner, Inside, Won
  <2>2. \A q \in Agents \ {p} : pc'[q] = pc[q] /\ verdict'[q] = verdict[q] /\ cur'[q] = cur[q]
    BY <1>1, <1>5 DEF Propose, Decide, Found, AutoRead, AutoWrite, Scan, Request
  <2>3. claims' = claims /\ count' = count
    BY <1>5 DEF Propose, Decide, Found, AutoRead, AutoWrite, Scan, Request
  <2>4. pc'[p] \in {"autoRead", "autoWrite", "claim"} => cur'[p] \in Ids
    BY <1>1, <1>2, <1>5 DEF Propose, Decide, Found, AutoRead, AutoWrite, Scan, Request, Placed
  <2>5. Placed'
    BY <1>2, <2>1, <2>2, <2>4 DEF Placed, Owner, Inside, Won
  <2> QED
    BY <2>1, <2>2, <2>3, <2>5, Harmless DEF Owner, Inside, Won
<1>6. ASSUME NEW p \in Agents, Claim(p) PROVE Placed' /\ OwnersClaim' /\ UsedStaysClaimed'
  <2>1. ~Owner(p) /\ cur[p] \in Ids /\ count' = count /\ cur' = cur
    BY <1>2, <1>6 DEF Claim, Placed, Owner, Inside, Won
  <2>2. \A q \in Agents \ {p} : Owner(q)' <=> Owner(q)
    BY <1>1, <1>6 DEF Claim, Owner, Inside, Won
  <2>3. CASE cur[p] \in claims /\ Conclude(p, "denied") /\ UNCHANGED claims
    <3>1. ~Owner(p)' /\ pc'[p] = "receipt"
      BY <1>1, <2>3 DEF Owner, Inside, Won
    <3>2. Placed'
      BY <1>1, <1>2, <1>6, <2>1, <2>2, <2>3, <3>1 DEF Placed, Claim
    <3> QED
      BY <2>1, <2>2, <2>3, <3>1, <3>2, Harmless
  <2>4. CASE /\ cur[p] \notin claims
             /\ claims' = claims \cup {cur[p]} /\ GoTo(p, "check") /\ UNCHANGED verdict
    <3>1. Placed'
      BY <1>1, <1>2, <1>6, <2>1, <2>2, <2>4 DEF Placed, Claim
    <3>2. \A q \in Agents : Owner(q) => cur[q] # cur[p]
      BY <1>2, <2>4 DEF OwnersClaim
    <3>3. OwnersClaim'
      BY <1>2, <2>1, <2>2, <2>4, <3>2 DEF OwnersClaim
    <3>4. count[cur[p]] = 0
      BY <1>2, <2>1, <2>4 DEF UsedStaysClaimed
    <3>5. UsedStaysClaimed'
      BY <1>2, <2>1, <2>2, <2>4, <3>4 DEF UsedStaysClaimed
    <3> QED
      BY <3>1, <3>3, <3>5
  <2> QED
    BY <1>6, <2>3, <2>4 DEF Claim
<1>7. ASSUME NEW p \in Agents, Check(p) \/ Write(p) \/ ReadBack(p)
      PROVE  Placed' /\ OwnersClaim' /\ UsedStaysClaimed'
  <2>1. Owner(p) /\ claims' = claims /\ count' = count /\ cur' = cur
    BY <1>7 DEF Check, Write, ReadBack, Owner, Inside
  <2>2. \A q \in Agents \ {p} : pc'[q] = pc[q] /\ verdict'[q] = verdict[q]
    BY <1>1, <1>7 DEF Check, Write, ReadBack
  <2>3. Placed'
    BY <1>2, <2>1, <2>2 DEF Placed, Owner, Inside, Won
  <2> QED
    BY <2>1, <2>2, <2>3, Harmless DEF Owner, Inside, Won
<1>8. ASSUME NEW p \in Agents, Undo(p) PROVE Placed' /\ OwnersClaim' /\ UsedStaysClaimed'
  <2>1. Owner(p) /\ cur[p] \in Ids /\ count' = count /\ cur' = cur
    BY <1>2, <1>8 DEF Undo, Placed, Owner, Inside
  <2>2. ~Owner(p)' /\ pc'[p] = "receipt"
    BY <1>1, <1>8 DEF Undo, Owner, Inside, Won
  <2>3. \A q \in Agents \ {p} : pc'[q] = pc[q] /\ verdict'[q] = verdict[q]
    BY <1>1, <1>8 DEF Undo
  <2>4. \A q \in Agents : Owner(q)' => Owner(q) /\ cur[q] # cur[p]
    BY <1>2, <2>1, <2>2, <2>3 DEF OwnersClaim, Owner, Inside, Won
  <2>5. Placed'
    BY <1>2, <2>1, <2>2, <2>3 DEF Placed, Owner, Inside, Won
  <2>6. claims \ {cur[p]} \subseteq claims'
    BY <1>8 DEF Undo
  <2>7. OwnersClaim'
    BY <1>2, <2>1, <2>4, <2>6 DEF OwnersClaim
  <2>8. count[cur[p]] = 0
    BY <1>1, <1>2, <2>1 DEF UsedStaysClaimed
  <2>9. UsedStaysClaimed'
    BY <1>2, <2>1, <2>4, <2>6, <2>8 DEF UsedStaysClaimed
  <2> QED
    BY <2>5, <2>7, <2>9
<1>9. ASSUME NEW p \in Agents, Exit(p), claims' = claims,
             \/ UNCHANGED given
             \/ Won(p) /\ count' = [count EXCEPT ![cur[p]] = @ + 1]
      PROVE  Placed' /\ OwnersClaim' /\ UsedStaysClaimed'
  <2>1. pc'[p] = "idle"
    BY <1>1, <1>9 DEF Exit, Blank
  <2>2. \A q \in Agents \ {p} : pc'[q] = pc[q] /\ verdict'[q] = verdict[q] /\ cur'[q] = cur[q]
    BY <1>1, <1>9 DEF Exit
  <2>3. ~Owner(p)' /\ \A q \in Agents \ {p} : Owner(q)' <=> Owner(q)
    BY <2>1, <2>2 DEF Owner, Inside, Won
  <2>4. Placed'
    BY <1>2, <2>1, <2>2, <2>3 DEF Placed
  <2>5. CASE UNCHANGED given
    BY <1>9, <2>2, <2>3, <2>4, <2>5, Harmless
  <2>6. CASE Won(p) /\ count' = [count EXCEPT ![cur[p]] = @ + 1]
    <3>1. Owner(p) /\ cur[p] \in Ids /\ cur[p] \in claims /\ count[cur[p]] = 0
      BY <1>1, <1>2, <2>6 DEF Placed, Owner, OwnersClaim, UsedStaysClaimed
    <3>2. \A q \in Agents : Owner(q)' => Owner(q) /\ cur'[q] = cur[q] /\ cur[q] # cur[p]
      BY <1>2, <2>2, <2>3, <3>1 DEF OwnersClaim
    <3>3. OwnersClaim'
      BY <1>2, <1>9, <3>2 DEF OwnersClaim
    <3>4. /\ count'[cur[p]] = 1
          /\ \A i \in Ids \ {cur[p]} : count'[i] = count[i]
      BY <1>1, <2>6, <3>1
    <3>5. UsedStaysClaimed'
      BY <1>2, <1>9, <3>1, <3>2, <3>4 DEF UsedStaysClaimed
    <3> QED
      BY <2>4, <3>3, <3>5
  <2> QED
    BY <1>9, <2>5, <2>6
<1>10. ASSUME NEW p \in Agents, AgentStep(p) PROVE Placed' /\ OwnersClaim' /\ UsedStaysClaimed'
  <2>1. CASE Receipt(p)
    <3>1. Exit(p) /\ claims' = claims
      BY <2>1 DEF Receipt
    <3>2. \/ UNCHANGED given
          \/ Won(p) /\ count' = [count EXCEPT ![cur[p]] = @ + 1]
      BY <2>1 DEF Receipt, Won
    <3> QED
      BY <1>9, <3>1, <3>2
  <2> QED
    BY <1>5, <1>6, <1>7, <1>8, <1>10, <2>1 DEF AgentStep
<1>11. ASSUME NEW p \in Agents, Crash(p) PROVE Placed' /\ OwnersClaim' /\ UsedStaysClaimed'
  <2>1. Exit(p) /\ claims' = claims /\ UNCHANGED given
    BY <1>11 DEF Crash
  <2> QED
    BY <1>9, <2>1
<1>12. ASSUME NEW o \in Operators,
              \/ Rule(o)
              \/ \E i \in Ids, ruling \in {"approved", "denied"} : Consider(o, i, ruling)
       PROVE  Placed' /\ OwnersClaim' /\ UsedStaysClaimed'
  BY <1>4, <1>12 DEF Rule, Consider
<1>13. CASE (\E d \in Digests, mode \in Modes \ {"auto"} : SetRule(d, mode)) \/ Tick
  BY <1>4, <1>13 DEF SetRule, Tick
<1> QED
  BY <1>3, <1>5, <1>10, <1>11, <1>12, <1>13 DEF Next

LEMMA AlwaysIInv == Spec => []IInv
  BY InitIInv, StepIInv, PTL DEF Spec

\* Every variable of GuardApproval keeps its type.
THEOREM TypeCorrect == Spec => []TypeOK
<1>1. IInv => TypeOK
  BY DEF IInv
<1> QED
  BY <1>1, AlwaysIInv, PTL

\* However many agents and operators there are, and wherever they die or
\* fail, an approval yields one "approved" verdict at most.
THEOREM SingleUseHolds == Spec => []SingleUse
<1>1. IInv => SingleUse
  BY DEF IInv, UsedStaysClaimed, SingleUse
<1> QED
  BY <1>1, AlwaysIInv, PTL

-----------------------------------------------------------------------------
(* An approval is used as it was granted.                                  *)

Known(i) == rec[i].status # "absent"

\* What a process holds of an approval still agrees with the record.
AgentBound(p) ==
  /\ pc[p] \in {"autoRead", "autoWrite"} =>
       Known(cur[p]) /\ rec[cur[p]].digest = dig[p] /\ dig[p] \notin NeverAuto
  /\ pc[p] = "scan" /\ auto[p] => dig[p] \notin NeverAuto
  /\ pc[p] \in {"autoWrite", "write"} => seen[p].digest = rec[cur[p]].digest
  /\ pc[p] \in {"write", "readBack"} \/ Won(p) =>
       cur[p] \in granted /\ rec[cur[p]].digest = dig[p]

\* So does what an operator holds of the one it rules on.
OperatorBound(o) ==
  opc[o] # "idle" =>
    target[o] \in Ids /\ Known(target[o]) /\ copy[o].digest = rec[target[o]].digest

GrantBound(i) ==
  /\ rec[i].status \in {"approved", "consumed"} => i \in granted
  /\ i \in granted => Known(i)
  /\ i \in granted /\ rec[i].digest \in NeverAuto => i \in byHand

Bindings ==
  /\ \A p \in Agents : AgentBound(p)
  /\ \A o \in Operators : OperatorBound(o)
  /\ \A i \in Ids : GrantBound(i)
  /\ UsedAsGranted

BInv == IInv /\ Bindings

\* A record, once written, keeps its digest, and a grant is never taken back.
Lasting ==
  /\ \A i \in Ids : Known(i) => Known(i)' /\ rec'[i].digest = rec[i].digest
  /\ granted \subseteq granted' /\ byHand \subseteq byHand'

LEMMA InitBInv == Init => BInv
<1> SUFFICES ASSUME Init PROVE BInv
  OBVIOUS
<1>1. /\ \A i \in Ids : rec[i].status = "absent" /\ i \notin granted /\ usedFor[i] = None
      /\ \A p \in Agents : pc[p] = "idle"
      /\ \A o \in Operators : opc[o] = "idle"
  BY DEF Init, Absent
<1> QED
  BY <1>1, InitIInv
     DEF BInv, Bindings, AgentBound, OperatorBound, GrantBound, UsedAsGranted, Won

\* Writing back a copy that agrees with the record keeps the record's digest.
LEMMA WriteBack ==
  ASSUME NEW r \in Records, NEW old \in Records, r.digest = old.digest, NEW s \in Statuses
  PROVE  /\ [r EXCEPT !.status = s].digest = old.digest
         /\ [r EXCEPT !.status = s].status = s
  BY DEF Records

\* The record of i is replaced by a copy with another status.
Replaces(i, r, s) == rec' = [rec EXCEPT ![i] = [r EXCEPT !.status = s]]

LEMMA ReplacesKeeps ==
  ASSUME BInv, NEW i \in Ids, NEW r \in Records, r.digest = rec[i].digest,
         NEW s \in Statuses \ {"absent"}, Replaces(i, r, s),
         granted \subseteq granted', byHand \subseteq byHand'
  PROVE  Lasting /\ rec'[i].status = s /\ rec'[i].digest = rec[i].digest
<1>1. rec \in [Ids -> Records]
  BY DEF BInv, IInv, TypeOK
<1>2. rec'[i].digest = rec[i].digest /\ rec'[i].status = s
  BY <1>1, WriteBack DEF Replaces
<1>3. \A j \in Ids \ {i} : rec'[j] = rec[j]
  BY <1>1 DEF Replaces
<1>4. s # "absent"
  OBVIOUS
<1> QED
  BY <1>2, <1>3, <1>4 DEF Lasting, Known

\* An approval nobody writes stays bound, and so does its use.
LEMMA GrantsKept ==
  ASSUME BInv, Lasting, NEW i \in Ids, rec'[i] = rec[i],
         granted' \ granted \subseteq Ids \ {i}, UNCHANGED given
  PROVE  GrantBound(i)' /\ (usedFor[i] # None =>
           i \in granted' /\ rec'[i].digest = usedFor[i])
  BY DEF BInv, Bindings, GrantBound, UsedAsGranted, Lasting, Known

\* A process or operator that does not move stays bound.
LEMMA AgentKept ==
  ASSUME BInv, Lasting, NEW p \in Agents,
         pc'[p] = pc[p], dig'[p] = dig[p], auto'[p] = auto[p], cur'[p] = cur[p],
         seen'[p] = seen[p], verdict'[p] = verdict[p]
  PROVE  AgentBound(p)'
<1>1. /\ pc[p] \in {"autoRead", "autoWrite", "write", "readBack"} \/ Won(p)
         => cur[p] \in Ids /\ Known(cur[p])
  BY DEF BInv, IInv, Bindings, AgentBound, GrantBound, Placed, Owner, Inside
<1>2. AgentBound(p)
  BY DEF BInv, Bindings
<1> QED
  BY <1>1, <1>2 DEF AgentBound, Lasting, Won

LEMMA OperatorKept ==
  ASSUME BInv, Lasting, NEW o \in Operators,
         opc'[o] = opc[o], target'[o] = target[o], copy'[o] = copy[o]
  PROVE  OperatorBound(o)'
  BY DEF BInv, Bindings, OperatorBound, Lasting

\* A step that writes no approval and gives no verdict on one.
LEMMA NoWrite ==
  ASSUME BInv, UNCHANGED <<rec, grants, given>>
  PROVE  Lasting /\ UsedAsGranted' /\ \A i \in Ids : GrantBound(i)'
  BY DEF BInv, Bindings, Lasting, Known, UsedAsGranted, GrantBound, grants, given

\* A step that writes approval i, gives no verdict on it and grants no other.
LEMMA OneWrite ==
  ASSUME BInv, Lasting, TypeOK', NEW i \in Ids, GrantBound(i)',
         \A j \in Ids \ {i} : rec'[j] = rec[j],
         granted' \ granted \subseteq {i}, UNCHANGED given
  PROVE  UsedAsGranted' /\ \A j \in Ids : GrantBound(j)'
<1>1. \A j \in Ids \ {i} :
        GrantBound(j)' /\ (usedFor[j] # None => j \in granted' /\ rec'[j].digest = usedFor[j])
  BY GrantsKept
<1>2. usedFor[i] # None => i \in granted' /\ rec'[i].digest = usedFor[i]
  BY DEF BInv, Bindings, UsedAsGranted, GrantBound, Lasting
<1> QED
  BY <1>1, <1>2 DEF UsedAsGranted, given

LEMMA ReaderStep ==
  ASSUME BInv, TypeOK', NEW p \in Agents,
         \/ \E d \in Digests, i \in Ids \cup {None} : Propose(p, d, i)
         \/ \E below \in Modes \ {"auto"} : Decide(p, below)
         \/ Found(p) \/ AutoRead(p) \/ Claim(p) \/ Check(p)
         \/ ReadBack(p) \/ Undo(p) \/ Crash(p)
         \/ \E i \in Ids : Scan(p, i)
  PROVE  Bindings'
<1> USE DEF TypeOK, agentVars, operatorVars, grants, given, GoTo, Conclude
<1>1. TypeOK /\ Placed /\ AgentBound(p) /\ \A i \in Ids : GrantBound(i)
  BY DEF BInv, IInv, Bindings
<1>2. UNCHANGED <<rec, grants, given, operatorVars>>
  BY DEF Propose, Decide, Found, AutoRead, Claim, Check, ReadBack, Undo, Crash, Scan
<1>3. Lasting /\ UsedAsGranted' /\ \A i \in Ids : GrantBound(i)'
  BY <1>2, NoWrite
<1>4. ASSUME NEW o \in Operators PROVE OperatorBound(o)'
  BY <1>2, <1>3, OperatorKept
<1>5. ASSUME NEW q \in Agents, q # p PROVE AgentBound(q)'
  <2>1. /\ pc'[q] = pc[q] /\ dig'[q] = dig[q] /\ auto'[q] = auto[q] /\ cur'[q] = cur[q]
        /\ seen'[q] = seen[q] /\ verdict'[q] = verdict[q]
    BY <1>1, <1>5 DEF Propose, Decide, Found, AutoRead, Claim, Check, ReadBack, Undo,
       Crash, Exit, Scan
  <2> QED
    BY <1>3, <2>1, AgentKept
<1>6. AgentBound(p)'
  <2>1. CASE \E d \in Digests, i \in Ids \cup {None} : Propose(p, d, i)
    BY <1>1, <2>1 DEF Propose, AgentBound, Won
  <2>2. CASE \E below \in Modes \ {"auto"} : Decide(p, below)
    <3>0. PICK below \in Modes \ {"auto"} : Decide(p, below)
      BY <2>2
    <3>1. pc'[p] \in {"receipt", "scan", "claim"} /\ dig' = dig
      BY <1>1, <3>0 DEF Decide
    <3>2. pc'[p] = "receipt" => verdict'[p] # "approved"
      BY <1>1, <3>0 DEF Decide
    <3>3. auto'[p] <=> Mode(dig[p], below) = "auto"
      BY <1>1, <3>0, Zenon DEF Decide
    <3>4. Mode(dig[p], below) = "auto" => dig[p] \notin NeverAuto
      BY <3>0 DEF Mode
    <3> QED
      BY <3>1, <3>2, <3>3, <3>4 DEF AgentBound, Won
  <2>3. CASE Found(p) \/ Claim(p) \/ Undo(p)
    BY <1>1, <2>3 DEF Found, Claim, Undo, AgentBound, Won
  <2>4. CASE AutoRead(p)
    BY <1>1, <1>2, <2>4 DEF AutoRead, AgentBound, Won, Known
  <2>5. CASE Check(p)
    BY <1>1, <1>2, <2>5 DEF Check, AgentBound, Won, Usable, GrantBound, Placed, Owner, Inside
  <2>6. CASE ReadBack(p)
    BY <1>1, <1>2, <2>6 DEF ReadBack, AgentBound, Won
  <2>7. CASE Crash(p)
    BY <1>1, <2>7 DEF Crash, Exit, Blank, AgentBound, Won
  <2>8. CASE \E i \in Ids : Scan(p, i)
    BY <1>1, <1>2, <2>8 DEF Scan, AgentBound, Won
  <2> QED
    BY <2>1, <2>2, <2>3, <2>4, <2>5, <2>6, <2>7, <2>8
<1> QED
  BY <1>3, <1>4, <1>5, <1>6 DEF Bindings

LEMMA RequestStep ==
  ASSUME BInv, TypeOK', NEW p \in Agents, NEW i \in Ids, Request(p, i)
  PROVE  Bindings'
<1> USE DEF TypeOK, grants, given, GoTo, Conclude
<1>1. TypeOK /\ AgentBound(p) /\ GrantBound(i)
  BY DEF BInv, IInv, Bindings
<1>2. /\ rec'[i] = [digest |-> dig[p], created |-> now, expires |-> now + TTL,
                    status |-> "pending"]
      /\ \A j \in Ids \ {i} : rec'[j] = rec[j]
      /\ ~Known(i)
  BY <1>1 DEF Request, Known
<1>3. Lasting
  BY <1>2 DEF Lasting, Known, Request
<1>4. GrantBound(i)'
  BY <1>1, <1>2 DEF GrantBound, Known, Request
<1>5. UsedAsGranted' /\ \A j \in Ids : GrantBound(j)'
  BY <1>2, <1>3, <1>4, OneWrite DEF Request
<1>6. AgentBound(p)'
  BY <1>1, <1>2 DEF Request, AgentBound, Known, Won
<1>7. ASSUME NEW q \in Agents, q # p PROVE AgentBound(q)'
  BY <1>1, <1>3, <1>7, AgentKept DEF Request
<1>8. ASSUME NEW o \in Operators PROVE OperatorBound(o)'
  BY <1>3, OperatorKept DEF Request, operatorVars
<1> QED
  BY <1>5, <1>6, <1>7, <1>8 DEF Bindings

LEMMA AutoWriteStep ==
  ASSUME BInv, TypeOK', NEW p \in Agents, AutoWrite(p)
  PROVE  Bindings'
<1> USE DEF TypeOK, grants, given
<1>1. TypeOK /\ AgentBound(p) /\ cur[p] \in Ids /\ GrantBound(cur[p])
  BY DEF BInv, IInv, Bindings, Placed, AutoWrite
<1>2. /\ seen[p] \in Records /\ seen[p].digest = rec[cur[p]].digest
      /\ rec[cur[p]].digest = dig[p] /\ dig[p] \notin NeverAuto
      /\ Replaces(cur[p], seen[p], "approved")
      /\ granted \subseteq granted' /\ byHand \subseteq byHand'
      /\ "approved" \in Statuses \ {"absent"}
  BY <1>1 DEF AutoWrite, AgentBound, Replaces, Statuses
<1>3. Lasting /\ rec'[cur[p]].status = "approved" /\ rec'[cur[p]].digest = rec[cur[p]].digest
  BY <1>1, <1>2, ReplacesKeeps
<1>4. GrantBound(cur[p])'
  BY <1>1, <1>2, <1>3 DEF GrantBound, Known, AutoWrite
<1>5. \A j \in Ids \ {cur[p]} : rec'[j] = rec[j]
  BY <1>1 DEF AutoWrite
<1>6. UsedAsGranted' /\ \A j \in Ids : GrantBound(j)'
  BY <1>1, <1>3, <1>4, <1>5, OneWrite DEF AutoWrite
<1>7. (GoTo(p, "claim") /\ UNCHANGED verdict) \/ Conclude(p, "denied")
  BY Zenon DEF AutoWrite
<1>8. AgentBound(p)'
  <2>1. pc'[p] \in {"claim", "receipt"} /\ (pc'[p] = "receipt" => verdict'[p] = "denied")
    BY <1>1, <1>7 DEF GoTo, Conclude
  <2> QED
    BY <2>1 DEF AgentBound, Won
<1>9. ASSUME NEW q \in Agents, q # p PROVE AgentBound(q)'
  <2>1. pc'[q] = pc[q] /\ verdict'[q] = verdict[q]
    BY <1>1, <1>9, <1>7 DEF GoTo, Conclude
  <2> QED
    BY <1>3, <2>1, AgentKept DEF AutoWrite
<1>10. ASSUME NEW o \in Operators PROVE OperatorBound(o)'
  BY <1>3, OperatorKept DEF AutoWrite, operatorVars
<1> QED
  BY <1>6, <1>8, <1>9, <1>10 DEF Bindings

LEMMA WriteStep ==
  ASSUME BInv, TypeOK', NEW p \in Agents, Write(p)
  PROVE  Bindings'
<1> USE DEF TypeOK, grants, given
<1>1. TypeOK /\ AgentBound(p) /\ cur[p] \in Ids /\ GrantBound(cur[p])
  BY DEF BInv, IInv, Bindings, Placed, Write, Owner, Inside
<1>2. /\ seen[p] \in Records /\ seen[p].digest = rec[cur[p]].digest
      /\ cur[p] \in granted /\ rec[cur[p]].digest = dig[p]
      /\ "consumed" \in Statuses \ {"absent"}
      /\ UNCHANGED grants
  BY <1>1 DEF Write, AgentBound, Statuses
<1>3. \/ Replaces(cur[p], seen[p], "consumed") /\ GoTo(p, "readBack")
      \/ GoTo(p, "undo") /\ UNCHANGED rec
  BY Zenon DEF Write, Replaces
<1>4. /\ pc'[p] \in {"readBack", "undo"}
      /\ \A q \in Agents \ {p} : pc'[q] = pc[q]
      /\ UNCHANGED <<dig, auto, cur, seen, verdict, given, operatorVars>>
  BY <1>1, <1>3 DEF Write, GoTo
<1>5. CASE UNCHANGED rec
  <2>1. Lasting /\ UsedAsGranted' /\ \A i \in Ids : GrantBound(i)'
    BY <1>2, <1>4, <1>5, NoWrite
  <2>2. AgentBound(p)'
    BY <1>2, <1>4, <1>5 DEF AgentBound, Won
  <2>3. ASSUME NEW q \in Agents, q # p PROVE AgentBound(q)'
    BY <1>4, <2>1, <2>3, AgentKept
  <2>4. ASSUME NEW o \in Operators PROVE OperatorBound(o)'
    BY <1>4, <2>1, OperatorKept DEF operatorVars
  <2> QED
    BY <2>1, <2>2, <2>3, <2>4 DEF Bindings
<1>6. CASE Replaces(cur[p], seen[p], "consumed")
  <2>1. Lasting /\ rec'[cur[p]].status = "consumed" /\ rec'[cur[p]].digest = rec[cur[p]].digest
    <3>1. granted \subseteq granted' /\ byHand \subseteq byHand'
      BY <1>2
    <3>2. cur[p] \in Ids /\ seen[p] \in Records /\ seen[p].digest = rec[cur[p]].digest
      BY <1>1, <1>2
    <3> HIDE DEF TypeOK, grants, given
    <3> QED BY <1>2, <1>6, <3>1, <3>2, ReplacesKeeps
  <2>2. GrantBound(cur[p])'
    BY <1>1, <1>2, <1>4, <2>1 DEF GrantBound, Known
  <2>3. \A j \in Ids \ {cur[p]} : rec'[j] = rec[j]
    BY <1>1, <1>6 DEF Replaces
  <2>4. UsedAsGranted' /\ \A j \in Ids : GrantBound(j)'
    BY <1>1, <1>2, <1>4, <2>1, <2>2, <2>3, OneWrite
  <2>5. AgentBound(p)'
    BY <1>2, <1>4, <2>1 DEF AgentBound, Won
  <2>6. ASSUME NEW q \in Agents, q # p PROVE AgentBound(q)'
    BY <1>4, <2>1, <2>6, AgentKept
  <2>7. ASSUME NEW o \in Operators PROVE OperatorBound(o)'
    BY <1>4, <2>1, OperatorKept DEF operatorVars
  <2> QED
    BY <2>4, <2>5, <2>6, <2>7 DEF Bindings
<1> QED
  BY <1>3, <1>5, <1>6

LEMMA RuleStep ==
  ASSUME BInv, TypeOK', NEW o \in Operators, Rule(o)
  PROVE  Bindings'
<1> USE DEF TypeOK, grants, given
<1>1. TypeOK /\ OperatorBound(o) /\ opc[o] # "idle" /\ opc[o] \in Statuses \ {"absent"}
  BY DEF BInv, IInv, Bindings, Rule, Statuses
<1> PICK i \in Ids : i = target[o]
  BY <1>1 DEF OperatorBound
<1>2. /\ Known(i) /\ GrantBound(i)
      /\ copy[o] \in Records /\ copy[o].digest = rec[i].digest
  BY <1>1 DEF OperatorBound, BInv, Bindings
<1>3. /\ Replaces(i, copy[o], opc[o])
      /\ granted \subseteq granted' /\ byHand \subseteq byHand'
      /\ granted' \ granted \subseteq {i} /\ UNCHANGED <<agentVars, given>>
      /\ opc[o] = "approved" => i \in granted' /\ i \in byHand'
      /\ opc[o] # "approved" => granted' = granted
  BY Zenon DEF Rule, Replaces
<1>4. /\ Lasting /\ rec'[i].status = opc[o]
      /\ rec'[i].digest = rec[i].digest
  <2>1. /\ opc[o] \in Statuses \ {"absent"} /\ Replaces(i, copy[o], opc[o])
        /\ granted \subseteq granted' /\ byHand \subseteq byHand'
    BY <1>1, <1>3
  <2>2. copy[o] \in Records /\ copy[o].digest = rec[i].digest
    BY <1>2
  <2> HIDE DEF TypeOK, grants, given
  <2> QED BY <2>1, <2>2, ReplacesKeeps
<1>5. GrantBound(i)'
  BY <1>1, <1>2, <1>3, <1>4 DEF GrantBound, Known
<1>6. \A j \in Ids \ {i} : rec'[j] = rec[j]
  BY <1>1, <1>3 DEF Replaces
<1>7. UsedAsGranted' /\ \A j \in Ids : GrantBound(j)'
  BY <1>2, <1>3, <1>4, <1>5, <1>6, OneWrite
<1>8. OperatorBound(o)'
  BY <1>1 DEF OperatorBound, Rule
<1>9. ASSUME NEW u \in Operators, u # o PROVE OperatorBound(u)'
  BY <1>1, <1>4, <1>9, OperatorKept DEF Rule
<1>10. ASSUME NEW p \in Agents PROVE AgentBound(p)'
  BY <1>3, <1>4, AgentKept DEF agentVars
<1> QED
  BY <1>7, <1>8, <1>9, <1>10 DEF Bindings

LEMMA ReceiptStep ==
  ASSUME BInv, TypeOK', NEW p \in Agents, Receipt(p)
  PROVE  Bindings'
<1> USE DEF TypeOK, grants, operatorVars
<1>1. TypeOK /\ AgentBound(p) /\ UNCHANGED <<rec, grants, operatorVars>> /\ Exit(p)
  BY DEF BInv, IInv, Bindings, Receipt
<1>2. Lasting /\ \A i \in Ids : GrantBound(i)'
  BY <1>1 DEF BInv, Bindings, Lasting, Known, GrantBound
<1>3. UsedAsGranted'
  <2>1. CASE UNCHANGED given
    BY <1>1, <2>1 DEF BInv, Bindings, UsedAsGranted, given
  <2>2. CASE verdict[p] = "approved" /\ usedFor' = [usedFor EXCEPT ![cur[p]] = dig[p]]
    <3>1. cur[p] \in granted /\ rec[cur[p]].digest = dig[p]
      BY <2>2 DEF BInv, Bindings, AgentBound, Won, Receipt
    <3> QED
      BY <1>1, <2>2, <3>1 DEF BInv, Bindings, UsedAsGranted
  <2> QED
    BY <2>1, <2>2 DEF Receipt
<1>4. AgentBound(p)'
  BY <1>1 DEF Exit, Blank, AgentBound, Won
<1>5. ASSUME NEW q \in Agents, q # p PROVE AgentBound(q)'
  BY <1>1, <1>2, <1>5, AgentKept DEF Exit
<1>6. ASSUME NEW o \in Operators PROVE OperatorBound(o)'
  BY <1>1, <1>2, OperatorKept
<1> QED
  BY <1>2, <1>3, <1>4, <1>5, <1>6 DEF Bindings

LEMMA ConsiderStep ==
  ASSUME BInv, TypeOK', NEW o \in Operators, NEW i \in Ids,
         NEW ruling \in {"approved", "denied"}, Consider(o, i, ruling)
  PROVE  Bindings'
<1>1. UNCHANGED <<rec, grants, given, agentVars>> /\ TypeOK
  BY DEF Consider, BInv, IInv
<1>2. Lasting /\ UsedAsGranted' /\ \A j \in Ids : GrantBound(j)'
  BY <1>1, NoWrite
<1>3. OperatorBound(o)'
  BY <1>1 DEF Consider, OperatorBound, Known, TypeOK
<1>4. ASSUME NEW u \in Operators, u # o PROVE OperatorBound(u)'
  BY <1>1, <1>2, <1>4, OperatorKept DEF Consider, TypeOK
<1>5. ASSUME NEW p \in Agents PROVE AgentBound(p)'
  BY <1>1, <1>2, AgentKept DEF agentVars
<1> QED
  BY <1>2, <1>3, <1>4, <1>5 DEF Bindings

LEMMA IdleStep ==
  ASSUME BInv, UNCHANGED <<rec, grants, given, agentVars, operatorVars>>
  PROVE  Bindings'
<1>1. Lasting /\ UsedAsGranted' /\ \A j \in Ids : GrantBound(j)'
  BY NoWrite
<1>2. ASSUME NEW o \in Operators PROVE OperatorBound(o)'
  BY <1>1, OperatorKept DEF operatorVars
<1>3. ASSUME NEW p \in Agents PROVE AgentBound(p)'
  BY <1>1, AgentKept DEF agentVars
<1> QED
  BY <1>1, <1>2, <1>3 DEF Bindings

LEMMA StepBInv == BInv /\ [Next]_vars => BInv'
<1> SUFFICES ASSUME BInv, [Next]_vars PROVE BInv'
  OBVIOUS
<1>1. IInv' /\ TypeOK'
  BY StepIInv DEF BInv, IInv
<1>2. UNCHANGED vars => Bindings'
  BY IdleStep DEF vars
<1>3. ASSUME NEW p \in Agents,
             \/ AgentStep(p) \/ Crash(p)
             \/ \E d \in Digests, i \in Ids \cup {None} : Propose(p, d, i)
      PROVE  Bindings'
  BY <1>1, <1>3, ReaderStep, RequestStep, AutoWriteStep, WriteStep, ReceiptStep DEF AgentStep
<1>4. ASSUME NEW o \in Operators,
             \/ Rule(o)
             \/ \E i \in Ids, ruling \in {"approved", "denied"} : Consider(o, i, ruling)
      PROVE  Bindings'
  BY <1>1, <1>4, RuleStep, ConsiderStep
<1>5. (\E d \in Digests, mode \in Modes \ {"auto"} : SetRule(d, mode)) \/ Tick => Bindings'
  BY IdleStep DEF SetRule, Tick
<1>6. Bindings'
  BY <1>2, <1>3, <1>4, <1>5 DEF Next
<1> QED
  BY <1>1, <1>6 DEF BInv

LEMMA AlwaysBInv == Spec => []BInv
  BY InitBInv, StepBInv, PTL DEF Spec

\* An approval serves only the action it was issued for, and only once it has
\* been granted, whatever id the caller names.
THEOREM UsedAsGrantedHolds == Spec => []UsedAsGranted
<1>1. BInv => UsedAsGranted
  BY DEF BInv, Bindings
<1> QED
  BY <1>1, AlwaysBInv, PTL

\* What the policy must never approve by itself, an operator approved.
THEOREM NeverAutoHolds == Spec => []NeverAutoNeedsOperator
<1>1. BInv => NeverAutoNeedsOperator
  <2> SUFFICES ASSUME BInv, NEW i \in Ids, usedFor[i] \in NeverAuto PROVE i \in byHand
    BY DEF NeverAutoNeedsOperator
  <2>1. usedFor[i] # None
    BY SetsAssumption, NoneAssumption
  <2> QED
    BY <2>1 DEF BInv, Bindings, UsedAsGranted, GrantBound
<1> QED
  BY <1>1, AlwaysBInv, PTL

-----------------------------------------------------------------------------
(* The store implements the promise.                                       *)

\* Steps that grant and use nothing and only replace records by others with
\* the same digest stutter.
LEMMA SameView ==
  ASSUME Lasting, \A i \in Ids : ~Known(i) => ~Known(i)',
         UNCHANGED <<granted, count, usedFor>>
  PROVE  UNCHANGED Promise!vars
<1>1. (\A i \in Ids : (IF rec'[i].status = "absent" THEN None ELSE rec'[i].digest)
                      = (IF rec[i].status = "absent" THEN None ELSE rec[i].digest))
  BY DEF Lasting, Known
<1> QED
  BY <1>1 DEF Promise!vars

\* The records of the one approval that is newly granted keep their digests too.
LEMMA GrantView ==
  ASSUME BInv, Lasting, \A i \in Ids : ~Known(i) => ~Known(i)', NEW i \in Ids, Known(i),
         i \notin granted, granted' = granted \cup {i}, UNCHANGED <<count, usedFor>>
  PROVE  Promise!Grant(i)
<1>1. (\A j \in Ids : (IF rec'[j].status = "absent" THEN None ELSE rec'[j].digest)
                      = (IF rec[j].status = "absent" THEN None ELSE rec[j].digest))
  BY DEF Lasting, Known
<1>2. rec[i].digest # None
  BY NoneAssumption DEF BInv, IInv, TypeOK, Records
<1>3. [j \in Ids |-> IF j \in granted' THEN 1 ELSE 0]
        = [[j \in Ids |-> IF j \in granted THEN 1 ELSE 0] EXCEPT ![i] = @ + 1]
  <2>1. \A j \in Ids : (IF j \in granted' THEN 1 ELSE 0)
          = IF j = i THEN 0 + 1 ELSE (IF j \in granted THEN 1 ELSE 0)
    OBVIOUS
  <2>2. PICK f : f = [j \in Ids |-> IF j \in granted THEN 1 ELSE 0]
    OBVIOUS
  <2>3. [f EXCEPT ![i] = @ + 1] = [j \in Ids |-> IF j = i THEN 0 + 1 ELSE f[j]]
    BY <2>2
  <2>4. [j \in Ids |-> IF j \in granted' THEN 1 ELSE 0]
          = [j \in Ids |-> IF j = i THEN 0 + 1 ELSE (IF j \in granted THEN 1 ELSE 0)]
    BY <2>1, Zenon
  <2>5. [j \in Ids |-> IF j = i THEN 0 + 1 ELSE (IF j \in granted THEN 1 ELSE 0)]
          = [j \in Ids |-> IF j = i THEN 0 + 1 ELSE f[j]]
    BY <2>2
  <2> QED
    BY <2>2, <2>3, <2>4, <2>5
<1> QED
  BY <1>1, <1>2, <1>3 DEF Promise!Grant, Known

\* A write by a process or operator that holds a copy of approval i.
LEMMA ReplacesView ==
  ASSUME BInv, NEW i \in Ids, Known(i), NEW r \in Records, r.digest = rec[i].digest,
         NEW s \in Statuses \ {"absent"}, Replaces(i, r, s),
         granted \subseteq granted', byHand \subseteq byHand',
         granted' = granted \/ granted' = granted \cup {i}, UNCHANGED given
  PROVE  Promise!Next \/ UNCHANGED Promise!vars
<1>1. Lasting
  BY ReplacesKeeps
<1>2. \A j \in Ids \ {i} : rec'[j] = rec[j]
  BY DEF BInv, IInv, TypeOK, Replaces
<1>3. \A j \in Ids : ~Known(j) => ~Known(j)'
  BY <1>2 DEF Known
<1>4. CASE granted' = granted
  BY <1>1, <1>3, <1>4, SameView DEF given
<1>5. CASE granted' = granted \cup {i} /\ i \notin granted
  <2>1. Promise!Grant(i)
    BY <1>1, <1>3, <1>5, GrantView DEF given
  <2> QED
    BY <2>1 DEF Promise!Next
<1>6. granted' = granted \/ (granted' = granted \cup {i} /\ i \notin granted)
  OBVIOUS
<1> QED
  BY <1>4, <1>5, <1>6

\* Whatever the agents, the operators and the file system do, the store keeps
\* the abstract promise: issued, then granted, then used once, as issued.
THEOREM KeepsPromiseHolds == Spec => KeepsPromise
<1>1. Init => Promise!Init
  <2> SUFFICES ASSUME Init PROVE Promise!Init
    OBVIOUS
  <2>1. \A i \in Ids : rec[i].status = "absent"
    BY DEF Init, Absent
  <2> QED
    BY <2>1 DEF Init, Promise!Init
<1>2. BInv /\ [Next]_vars => [Promise!Next]_(Promise!vars)
  <2> SUFFICES ASSUME BInv, [Next]_vars
               PROVE  Promise!Next \/ UNCHANGED Promise!vars
    OBVIOUS
  <2>1. TypeOK
    BY DEF BInv, IInv
  <2>2. ASSUME NEW p \in Agents, NEW i \in Ids, NEW d \in Digests, d = dig[p], Request(p, i)
        PROVE  Promise!Issue(i, d)
    <3>1. rec[i].status = "absent" /\ UNCHANGED <<granted, count, usedFor>>
      BY <2>2 DEF Request, grants, given
    <3>2. /\ rec'[i].digest = d /\ rec'[i].status = "pending"
          /\ \A j \in Ids \ {i} : rec'[j] = rec[j]
      BY <2>1, <2>2 DEF Request, TypeOK
    <3> QED
      BY <3>1, <3>2 DEF Promise!Issue
  <2>3. ASSUME NEW p \in Agents, AutoWrite(p)
        PROVE  Promise!Next \/ UNCHANGED Promise!vars
    <3>1. PICK i \in Ids : i = cur[p] /\ Known(i) /\ seen[p].digest = rec[i].digest
      BY <2>3 DEF AutoWrite, BInv, IInv, Placed, Bindings, AgentBound
    <3>2. /\ Replaces(i, seen[p], "approved") /\ seen[p] \in Records
          /\ "approved" \in Statuses \ {"absent"}
          /\ granted' = granted \cup {i} /\ byHand' = byHand /\ UNCHANGED given
      BY <2>1, <2>3, <3>1 DEF AutoWrite, Replaces, TypeOK, Statuses
    <3> QED
      BY <3>1, <3>2, ReplacesView
  <2>4. ASSUME NEW p \in Agents, Write(p)
        PROVE  Promise!Next \/ UNCHANGED Promise!vars
    <3>1. PICK i \in Ids : i = cur[p] /\ Known(i) /\ seen[p].digest = rec[i].digest
      BY <2>4 DEF Write, BInv, IInv, Placed, Owner, Inside, Bindings, AgentBound, GrantBound
    <3>2. /\ Replaces(i, seen[p], "consumed") \/ UNCHANGED rec
          /\ seen[p] \in Records /\ "consumed" \in Statuses \ {"absent"}
          /\ granted' = granted /\ byHand' = byHand /\ UNCHANGED <<grants, given>>
      BY <2>1, <2>4, <3>1 DEF Write, Replaces, TypeOK, Statuses, grants
    <3>3. CASE Replaces(i, seen[p], "consumed")
      BY <3>1, <3>2, <3>3, ReplacesView
    <3>4. CASE UNCHANGED rec
      <4>1. Lasting /\ \A j \in Ids : ~Known(j) => ~Known(j)'
        BY <3>2, <3>4 DEF Lasting, Known
      <4> QED
        BY <3>2, <4>1, SameView DEF given
    <3> QED
      BY <3>2, <3>3, <3>4
  <2>5. ASSUME NEW o \in Operators, Rule(o)
        PROVE  Promise!Next \/ UNCHANGED Promise!vars
    <3>1. PICK i \in Ids : i = target[o] /\ Known(i) /\ copy[o].digest = rec[i].digest
      BY <2>5 DEF Rule, BInv, Bindings, OperatorBound
    <3>2. /\ Replaces(i, copy[o], opc[o]) /\ copy[o] \in Records
          /\ opc[o] \in Statuses \ {"absent"}
      BY <2>1, <2>5, <3>1 DEF Rule, Replaces, TypeOK, Statuses
    <3>3. /\ granted' = granted \/ granted' = granted \cup {i}
          /\ granted \subseteq granted' /\ byHand \subseteq byHand' /\ UNCHANGED given
      BY <2>5, <3>1, Zenon DEF Rule
    <3> QED
      BY <3>1, <3>2, <3>3, ReplacesView
  <2>6. ASSUME NEW p \in Agents, Receipt(p)
        PROVE  Promise!Next \/ UNCHANGED Promise!vars
    <3>1. Lasting /\ (\A j \in Ids : ~Known(j) => ~Known(j)') /\ UNCHANGED <<rec, granted>>
      BY <2>6 DEF Receipt, Lasting, Known, grants
    <3>2. CASE UNCHANGED given
      BY <3>1, <3>2, SameView DEF given
    <3>3. CASE /\ verdict[p] = "approved"
               /\ count' = [count EXCEPT ![cur[p]] = @ + 1]
               /\ usedFor' = [usedFor EXCEPT ![cur[p]] = dig[p]]
      <4>1. Won(p)
        BY <2>6, <3>3 DEF Receipt, Won
      <4>2. PICK i \in Ids : /\ i = cur[p] /\ i \in granted /\ rec[i].digest = dig[p]
                             /\ count[i] = 0 /\ Known(i)
        BY <2>1, <4>1 DEF BInv, IInv, Placed, Owner, Bindings, AgentBound, GrantBound,
           UsedStaysClaimed, TypeOK
      <4>3. count' = [count EXCEPT ![i] = 1] /\ usedFor' = [usedFor EXCEPT ![i] = rec[i].digest]
        BY <2>1, <3>3, <4>2 DEF TypeOK
      <4>5. count' = [count EXCEPT ![i] = @ + 1]
        BY <4>2, <4>3
      <4>6. [j \in Ids |-> IF j \in granted THEN 1 ELSE 0][i] = 1
        BY <4>2
      <4>7. [j \in Ids |-> IF rec[j].status = "absent" THEN None ELSE rec[j].digest][i]
              = rec[i].digest
        BY <4>2 DEF Known
      <4>8. count[i] < [j \in Ids |-> IF j \in granted THEN 1 ELSE 0][i]
        BY <4>2, <4>6
      <4>4. Promise!Use(i)
        BY <3>1, <4>3, <4>5, <4>7, <4>8, Zenon DEF Promise!Use
      <4> QED
        BY <4>4 DEF Promise!Next
    <3> QED
      BY <2>6, <3>2, <3>3 DEF Receipt
  <2>7. CASE \E p \in Agents, i \in Ids : Request(p, i)
    <3>1. PICK p \in Agents, i \in Ids : Request(p, i)
      BY <2>7
    <3>2. PICK d \in Digests : d = dig[p]
      BY <2>1 DEF TypeOK
    <3>3. Promise!Issue(i, d)
      BY <3>1, <3>2, <2>2
    <3> QED
      BY <3>3 DEF Promise!Next
  <2>8. CASE UNCHANGED <<rec, grants, given>>
    <3>1. Lasting /\ \A j \in Ids : ~Known(j) => ~Known(j)'
      BY <2>8 DEF Lasting, Known, grants
    <3> QED
      BY <2>8, <3>1, SameView DEF grants, given
  <2>9. ASSUME NEW p \in Agents,
               \/ AgentStep(p) \/ Crash(p)
               \/ \E d \in Digests, i \in Ids \cup {None} : Propose(p, d, i)
        PROVE  \/ \E i \in Ids : Request(p, i)
               \/ AutoWrite(p) \/ Write(p) \/ Receipt(p) \/ UNCHANGED <<rec, grants, given>>
    BY <2>9 DEF AgentStep, Decide, Found, AutoRead, Scan, Claim, Check, ReadBack, Undo,
       Crash, Propose
  <2>10. ASSUME NEW o \in Operators, NEW i \in Ids,
                NEW ruling \in {"approved", "denied"}, Consider(o, i, ruling)
         PROVE  UNCHANGED <<rec, grants, given>>
    BY <2>10 DEF Consider
  <2>11. CASE \/ \E d \in Digests, mode \in Modes \ {"auto"} : SetRule(d, mode)
              \/ Tick \/ UNCHANGED vars
    BY <2>8, <2>11 DEF SetRule, Tick, vars
  <2> QED
    BY <2>3, <2>4, <2>5, <2>6, <2>7, <2>8, <2>9, <2>10, <2>11 DEF Next
<1> QED
  BY <1>1, <1>2, AlwaysBInv, PTL DEF Spec, KeepsPromise, Promise!Spec

-----------------------------------------------------------------------------
(* What an "auto" rule grants, and what it was charged.                    *)

\* The processes that the rule of d was charged for and that have not granted
\* anything yet, but may.
Charged(d) ==
  {p \in Agents :
     /\ dig[p] = d
     /\ (pc[p] = "scan" /\ auto[p]) \/ pc[p] \in {"autoRead", "autoWrite"}}

\* Each grant and each process that may still grant has a use of its own.
Covered ==
  \A d \in Digests :
    /\ IsFiniteSet(Charged(d))
    /\ autos[d] + Cardinality(Charged(d)) <= uses[d]
    /\ uses[d] <= MaxUses

LEMMA FewerCharged ==
  ASSUME NEW S, IsFiniteSet(S), NEW T, T \subseteq S
  PROVE  /\ IsFiniteSet(T) /\ Cardinality(S) \in Nat /\ Cardinality(T) \in Nat
         /\ Cardinality(T) <= Cardinality(S)
BY FS_Subset, FS_CardinalityType

LEMMA OneMoreCharged ==
  ASSUME NEW S, IsFiniteSet(S), NEW p, NEW T, T \subseteq S \cup {p}
  PROVE  /\ IsFiniteSet(T) /\ Cardinality(S) \in Nat /\ Cardinality(T) \in Nat
         /\ Cardinality(T) <= Cardinality(S) + 1
<1>1. /\ IsFiniteSet(S \cup {p}) /\ Cardinality(S) \in Nat
      /\ Cardinality(S \cup {p}) = Cardinality(S) \/ Cardinality(S \cup {p}) = Cardinality(S) + 1
  BY FS_AddElement, FS_CardinalityType
<1>2. /\ IsFiniteSet(T) /\ Cardinality(T) \in Nat /\ Cardinality(S \cup {p}) \in Nat
      /\ Cardinality(T) <= Cardinality(S \cup {p})
  BY <1>1, FewerCharged
<1> QED  BY <1>1, <1>2

LEMMA OneLessCharged ==
  ASSUME NEW S, IsFiniteSet(S), NEW p \in S, NEW T, T \subseteq S \ {p}
  PROVE  /\ IsFiniteSet(T) /\ Cardinality(S) \in Nat /\ Cardinality(T) \in Nat
         /\ Cardinality(T) + 1 <= Cardinality(S)
<1>1. /\ IsFiniteSet(S \ {p}) /\ Cardinality(S) \in Nat
      /\ Cardinality(S \ {p}) = Cardinality(S) - 1
  BY FS_RemoveElement, FS_CardinalityType
<1>2. /\ IsFiniteSet(T) /\ Cardinality(T) \in Nat /\ Cardinality(S \ {p}) \in Nat
      /\ Cardinality(T) <= Cardinality(S \ {p})
  BY <1>1, FewerCharged
<1> QED  BY <1>1, <1>2

LEMMA CoveredStep == TypeOK /\ Covered /\ [Next]_vars => Covered'
<1> SUFFICES ASSUME TypeOK, Covered, [Next]_vars, NEW d \in Digests
             PROVE  /\ IsFiniteSet(Charged(d)')
                    /\ autos'[d] + Cardinality(Charged(d)') <= uses'[d]
                    /\ uses'[d] <= MaxUses
  BY DEF Covered
<1>a. /\ IsFiniteSet(Charged(d))
      /\ autos[d] + Cardinality(Charged(d)) <= uses[d] /\ uses[d] <= MaxUses
      /\ autos[d] \in Nat /\ uses[d] \in Nat /\ MaxUses \in Nat
  BY BoundsAssumption DEF Covered, TypeOK
<1> DEFINE Goal == /\ IsFiniteSet(Charged(d)')
                   /\ autos'[d] + Cardinality(Charged(d)') <= uses'[d]
                   /\ uses'[d] <= MaxUses
<1>1. ASSUME Charged(d)' \subseteq Charged(d), autos'[d] = autos[d], uses'[d] = uses[d]
      PROVE  Goal
  <2>1. /\ IsFiniteSet(Charged(d)')
        /\ Cardinality(Charged(d)) \in Nat /\ Cardinality(Charged(d)') \in Nat
        /\ Cardinality(Charged(d)') <= Cardinality(Charged(d))
    BY <1>1, <1>a, FewerCharged
  <2> QED  BY <1>1, <1>a, <2>1
<1> USE DEF agentVars, operatorVars, grants, given, GoTo, Conclude
<1>2. ASSUME NEW p \in Agents, NEW below \in Modes \ {"auto"}, Decide(p, below) PROVE Goal
  <2>1. autos'[d] = autos[d] /\ dig' = dig  BY <1>2 DEF Decide
  <2>2. /\ \A q \in Agents \ {p} : pc'[q] = pc[q] /\ auto'[q] = auto[q]
        /\ pc'[p] \notin {"autoRead", "autoWrite"} /\ pc[p] = "decide"
        /\ auto'[p] = (Mode(dig[p], below) = "auto")
    BY <1>2 DEF Decide, TypeOK
  <2>3. CASE dig[p] = d /\ Mode(d, below) = "auto"
    <3>1. uses[d] < MaxUses /\ uses'[d] = uses[d] + 1
      BY <1>2, <1>a, <2>3 DEF Decide, Mode, TypeOK
    <3>2. Charged(d)' \subseteq Charged(d) \cup {p}  BY <2>1, <2>2 DEF Charged
    <3>3. /\ IsFiniteSet(Charged(d)')
          /\ Cardinality(Charged(d)) \in Nat /\ Cardinality(Charged(d)') \in Nat
          /\ Cardinality(Charged(d)') <= Cardinality(Charged(d)) + 1
      BY <1>a, <3>2, OneMoreCharged
    <3> QED  BY <1>a, <2>1, <3>1, <3>3
  <2>4. CASE ~(dig[p] = d /\ Mode(d, below) = "auto")
    <3>1. uses'[d] = uses[d]  BY <1>2, <1>a, <2>4 DEF Decide, TypeOK
    <3>2. p \notin Charged(d)'
      <4>1. dig'[p] = d => ~auto'[p]  BY Zenon, <2>1, <2>2, <2>4
      <4>2. pc'[p] \notin {"autoRead", "autoWrite"}  BY <2>2
      <4> QED  BY <4>1, <4>2 DEF Charged
    <3>3. Charged(d)' \subseteq Charged(d) \cup {p}  BY <2>1, <2>2 DEF Charged
    <3>4. Charged(d)' \subseteq Charged(d)  BY <3>2, <3>3
    <3> QED  BY <1>1, <2>1, <3>1, <3>4
  <2> QED  BY <2>3, <2>4
<1>3. ASSUME NEW p \in Agents, AutoWrite(p) PROVE Goal
  <2>1. /\ UNCHANGED <<dig, auto, uses>> /\ pc[p] = "autoWrite"
        /\ \A q \in Agents \ {p} : pc'[q] = pc[q]
        /\ pc'[p] \in {"claim", "receipt"}
        /\ autos' = [autos EXCEPT ![dig[p]] = @ + 1]
    BY <1>3 DEF AutoWrite, TypeOK
  <2>2. CASE dig[p] = d
    <3>1. p \in Charged(d) /\ Charged(d)' \subseteq Charged(d) \ {p}
      BY <2>1, <2>2 DEF Charged
    <3>2. /\ IsFiniteSet(Charged(d)')
          /\ Cardinality(Charged(d)) \in Nat /\ Cardinality(Charged(d)') \in Nat
          /\ Cardinality(Charged(d)') + 1 <= Cardinality(Charged(d))
      BY <1>a, <3>1, OneLessCharged
    <3>3. autos'[d] = autos[d] + 1  BY <2>1, <2>2 DEF TypeOK
    <3> QED  BY <1>a, <2>1, <3>2, <3>3
  <2>3. CASE dig[p] # d
    <3>1. Charged(d)' \subseteq Charged(d)  BY <2>1 DEF Charged
    <3>2. autos'[d] = autos[d]  BY <2>1, <2>3 DEF TypeOK
    <3> QED  BY <1>1, <2>1, <3>1, <3>2
  <2> QED  BY <2>2, <2>3
<1>4. ASSUME NEW p \in Agents,
             \/ Found(p) \/ AutoRead(p) \/ Claim(p) \/ Check(p) \/ Write(p) \/ ReadBack(p)
             \/ Undo(p) \/ \E i \in Ids : Scan(p, i) \/ Request(p, i)
      PROVE  Goal
  <2>1. /\ UNCHANGED <<dig, auto, uses, autos>>
        /\ \A q \in Agents \ {p} : pc'[q] = pc[q]
    BY <1>4
    DEF Found, AutoRead, Claim, Check, Write, ReadBack, Undo, Scan, Request, TypeOK
  <2>2. \/ pc'[p] \notin {"scan", "autoRead", "autoWrite"}
        \/ pc[p] = "scan" /\ (pc'[p] = "scan" \/ (pc'[p] = "autoRead" /\ auto[p]))
        \/ pc[p] \in {"autoRead", "autoWrite"}
    BY <1>4
    DEF Found, AutoRead, Claim, Check, Write, ReadBack, Undo, Scan, Request, TypeOK
  <2>3. Charged(d)' \subseteq Charged(d)  BY <2>1, <2>2 DEF Charged
  <2> QED  BY <1>1, <2>1, <2>3
<1>5. ASSUME NEW p \in Agents, Receipt(p) \/ Crash(p) PROVE Goal
  <2>1. /\ UNCHANGED <<uses, autos>> /\ pc'[p] = "idle"
        /\ \A q \in Agents \ {p} : pc'[q] = pc[q] /\ dig'[q] = dig[q] /\ auto'[q] = auto[q]
    BY <1>5 DEF Receipt, Crash, Exit, Blank, TypeOK
  <2>2. Charged(d)' \subseteq Charged(d)  BY <2>1 DEF Charged
  <2> QED  BY <1>1, <2>1, <2>2
<1>6. ASSUME NEW p \in Agents, NEW e \in Digests, NEW i \in Ids \cup {None}, Propose(p, e, i)
      PROVE  Goal
  <2>1. /\ UNCHANGED <<auto, uses, autos>> /\ pc'[p] = "decide"
        /\ \A q \in Agents \ {p} : pc'[q] = pc[q] /\ dig'[q] = dig[q]
    BY <1>6 DEF Propose, TypeOK
  <2>2. Charged(d)' \subseteq Charged(d)  BY <2>1 DEF Charged
  <2> QED  BY <1>1, <2>1, <2>2
<1>7. CASE UNCHANGED <<pc, dig, auto, uses, autos>>  BY <1>1, <1>7 DEF Charged
<1> QED
  BY <1>2, <1>3, <1>4, <1>5, <1>6, <1>7
  DEF Next, AgentStep, Consider, Rule, SetRule, Tick, vars

(* However the processes of the guard interleave and die, an "auto" rule   *)
(* grants no more approvals than it was charged uses, and is charged no    *)
(* more than its max_uses (ApprovalPolicy.decide, ApprovalStore.approve).  *)
THEOREM RuleIsBoundedHolds == Spec => []RuleIsBounded
<1>1. Init => Covered
  <2> SUFFICES ASSUME Init, NEW d \in Digests
               PROVE  /\ IsFiniteSet(Charged(d))
                      /\ autos[d] + Cardinality(Charged(d)) <= uses[d]
                      /\ uses[d] <= MaxUses
    BY DEF Covered
  <2>1. Charged(d) = {}  BY DEF Init, Charged
  <2>2. IsFiniteSet({}) /\ Cardinality({}) = 0  BY FS_EmptySet
  <2> QED  BY <2>1, <2>2, BoundsAssumption DEF Init
<1>2. Covered /\ TypeOK => RuleIsBounded
  <2> SUFFICES ASSUME Covered, TypeOK, NEW d \in Digests
               PROVE  autos[d] <= uses[d] /\ uses[d] <= MaxUses
    BY DEF RuleIsBounded
  <2>1. Cardinality(Charged(d)) \in Nat  BY FS_CardinalityType DEF Covered
  <2>2. autos[d] \in Nat /\ uses[d] \in Nat  BY DEF TypeOK
  <2> QED  BY <2>1, <2>2 DEF Covered
<1> QED  BY <1>1, <1>2, CoveredStep, TypeCorrect, PTL DEF Spec

=============================================================================
