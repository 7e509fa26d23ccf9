--------------------------- MODULE ExecutorProofs ---------------------------
(***************************************************************************)
(* Proofs about Executor, for any number of actions, capabilities, threads *)
(* and operators, any time-to-live and any number of crashes.              *)
(***************************************************************************)
EXTENDS Executor, FiniteSetTheorems, TLAPS

(* The parts of the inductive invariant.                                   *)

\* A thread past the scan works on a capability, one before it on none.
BestFits ==
  \A h \in Handlers :
    /\ pc[h] = "claim" \/ InConsume(h) => best[h] \in Caps
    /\ pc[h] \in {"idle", "decide"} => best[h] = None

\* A run without a capability is one the kernel allowed.
FreeRunsAreAllowed ==
  \A h \in Handlers :
    pc[h] = "run" /\ best[h] = None => act[h] \in Ungated \/ act[h] \in Autonomous

\* h holds a capability it consumed and has not spent yet.
Holds(h) == pc[h] = "commit" \/ (pc[h] = "run" /\ best[h] # None)

\* It is past the check of consume() and has not spent the capability yet.
Entitled(h) == pc[h] = "write" \/ Holds(h)

\* Whatever is written over a record keeps the action it is bound to: an
\* operator's copy is of that record, a consumer's was approved for its action.
Bound ==
  /\ \A o \in Operators : opc[o] # "idle" =>
       /\ target[o] \in Caps /\ copy[o].status = "pending"
       /\ rec[target[o]].status # "absent" /\ copy[o].digest = rec[target[o]].digest
  /\ \A h \in Handlers : Entitled(h) =>
       /\ best[h] \in Caps
       /\ rec[best[h]].status # "absent" /\ rec[best[h]].digest = act[h]
       /\ pc[h] = "write" => seen[h].digest = act[h] /\ seen[h].status = "approved"

\* A record no two operators had in hand at once: what the operator read is
\* still there, it is approved once, and a consumer's copy is the record.
Calm ==
  \A c \in Caps \ contested :
    /\ \A o \in Operators : opc[o] # "idle" /\ target[o] = c =>
         /\ copy[o] = rec[c] /\ rec[c].status = "pending"
         /\ \A p \in Operators : opc[p] # "idle" /\ target[p] = c => p = o
    /\ approvals[c] <= 1
    /\ approvals[c] # 0 => rec[c].status \in {"approved", "consumed"}
    /\ \A h \in Handlers : best[h] = c =>
         /\ pc[h] = "write" => seen[h] = rec[c]
         /\ Holds(h) => rec[c].status = "consumed"

\* The threads entitled to spend c.
Tokens(c) == {h \in Handlers : Entitled(h) /\ best[h] = c}

\* An approved record that no consumer is about to write off can be checked.
Available(c) ==
  rec[c].status = "approved" /\ \A h \in Handlers : ~(pc[h] = "write" /\ best[h] = c)

\* Each approval is spent, held by one thread, or still to be had.
Paid ==
  \A c \in Caps :
    /\ IsFiniteSet(Tokens(c))
    /\ ran[c] + Cardinality(Tokens(c)) + (IF Available(c) THEN 1 ELSE 0) <= approvals[c]

Local == ClaimIsExclusive /\ BestFits /\ FreeRunsAreAllowed

IInv == TypeOK /\ Local /\ Bound /\ Calm /\ Paid

LEMMA StatusUpdate ==
  ASSUME NEW r \in Records, NEW s \in Statuses
  PROVE  /\ [r EXCEPT !.status = s] \in Records
         /\ [r EXCEPT !.status = s].status = s /\ [r EXCEPT !.status = s].digest = r.digest
  BY DEF Records

LEMMA Defaults == NoAction \in Actions /\ Absent \in Records
<1>1. NoAction \in Actions
  BY ActionsAssumption DEF NoAction
<1> QED
  BY <1>1 DEF Absent, Records, Statuses

LEMMA TypeInit == Init => TypeOK
<1>1. NoAction \in Actions /\ Absent \in Records
  BY Defaults
<1> SUFFICES ASSUME Init PROVE TypeOK
  OBVIOUS
<1>3. killed \in BOOLEAN /\ halted \in [Handlers -> BOOLEAN]
  BY DEF Init
<1>4. rec \in [Caps -> Records] /\ seen \in [Handlers -> Records]
      /\ copy \in [Operators -> Records] /\ act \in [Handlers -> Actions]
  BY <1>1 DEF Init
<1> QED
  BY <1>3, <1>4 DEF Init, TypeOK, Steps

LEMMA HaltedType ==
  ASSUME halted \in [Handlers -> BOOLEAN], killed \in BOOLEAN, [Next]_vars
  PROVE  halted' \in [Handlers -> BOOLEAN]
<1>1. ASSUME NEW h \in Handlers, End(h) PROVE halted' \in [Handlers -> BOOLEAN]
  BY <1>1, Zenon DEF End
<1>2. CASE UNCHANGED halted
  BY <1>2
<1>3. ASSUME NEW h \in Handlers, HandlerStep(h) PROVE UNCHANGED halted \/ End(h)
  BY <1>3 DEF HandlerStep, Decide, Scan, Request, Present, AnswerPending, Claim, Check,
     WriteConsumed, Unclaim, Run, Continue, request
<1>4. ASSUME NEW h \in Handlers, NEW a \in Actions, Receive(h, a)
      PROVE  halted' \in [Handlers -> BOOLEAN]
  BY <1>4, Zenon DEF Receive
<1>5. CASE SwitchKill
  <2>1. killed' \in BOOLEAN
    BY <1>5, Zenon DEF SwitchKill
  <2> QED
    BY <1>5, <2>1, Zenon DEF SwitchKill
<1>6. CASE Crash
  BY <1>6, Zenon DEF Crash
<1> QED
  BY <1>1, <1>2, <1>3, <1>4, <1>5, <1>6
  DEF Next, Consider, Rule, Tick, vars, handlerVars, request

LEMMA TypeStep == TypeOK /\ BestFits /\ [Next]_vars => TypeOK'
<1> SUFFICES ASSUME TypeOK, BestFits, [Next]_vars PROVE TypeOK'
  OBVIOUS
<1> USE BoundsAssumption, ActionsAssumption, Defaults DEF TypeOK, Steps, handlerVars, request, operatorVars, history, runs, rulings, Continue, End
<1>a. halted' \in [Handlers -> BOOLEAN]
  BY HaltedType
<1>1. CASE UNCHANGED vars
  BY <1>1, <1>a DEF vars
<1>2. ASSUME NEW h \in Handlers, NEW a \in Actions, Receive(h, a) PROVE TypeOK'
  BY <1>2, <1>a DEF Receive, GoTo
<1>3. ASSUME NEW h \in Handlers, Decide(h) PROVE TypeOK'
  BY <1>3, <1>a DEF Decide, GoTo
<1>4. ASSUME NEW h \in Handlers, NEW c \in Caps, Scan(h, c) PROVE TypeOK'
  BY <1>4, <1>a DEF Scan
<1>5. ASSUME NEW h \in Handlers, NEW c \in Caps, Request(h, c) PROVE TypeOK'
  <2>1. [digest |-> act[h], created |-> now, expires |-> now + TTL,
         status |-> "pending"] \in Records
    BY DEF Records, Statuses
  <2> QED
    BY <1>5, <2>1, <1>a DEF Request, GoTo
<1>6. ASSUME NEW h \in Handlers, Present(h) \/ AnswerPending(h) PROVE TypeOK'
  BY <1>6, <1>a DEF Present, AnswerPending, GoTo
<1>7. ASSUME NEW h \in Handlers, Claim(h) PROVE TypeOK'
  BY <1>7, <1>a DEF Claim, GoTo, BestFits
<1>8. ASSUME NEW h \in Handlers, Check(h) PROVE TypeOK'
  <2>1. best[h] \in Caps
    BY <1>8 DEF Check, BestFits, InConsume
  <2>2. PICK s \in {"write", "release"} : pc' = [pc EXCEPT ![h] = s]
    BY <1>8 DEF Check, GoTo
  <2> QED
    BY <1>8, <2>1, <2>2, <1>a DEF Check
<1>9. ASSUME NEW h \in Handlers, WriteConsumed(h) PROVE TypeOK'
  <2>1. [seen[h] EXCEPT !.status = "consumed"] \in Records
    BY StatusUpdate DEF Statuses
  <2> QED
    BY <1>9, <2>1, <1>a DEF WriteConsumed, GoTo
<1>10. ASSUME NEW h \in Handlers, Unclaim(h) PROVE TypeOK'
  BY <1>10, <1>a DEF Unclaim, GoTo
<1>11. ASSUME NEW h \in Handlers, Run(h) PROVE TypeOK'
  BY <1>11, <1>a DEF Run, GoTo
<1>12. ASSUME NEW o \in Operators, NEW c \in Caps,
              NEW v \in {"approved", "denied"}, Consider(o, c, v)
       PROVE  TypeOK'
  BY <1>12, <1>a DEF Consider, Contests
<1>13. ASSUME NEW o \in Operators, Rule(o) PROVE TypeOK'
  <2>1. copy[o] \in Records /\ opc[o] \in Statuses
    BY <1>13 DEF Rule, Statuses
  <2>2. [copy[o] EXCEPT !.status = opc[o]] \in Records
    BY <2>1, StatusUpdate
  <2>3. PICK k \in Nat : approvals' = [approvals EXCEPT ![target[o]] = @ + k]
    BY <1>13 DEF Rule
  <2>5. \A c \in Caps : approvals'[c] \in {approvals[c], approvals[c] + k}
    BY <2>3
  <2>6. approvals' = [c \in Caps |-> approvals'[c]]
    BY <2>3
  <2>7. \A c \in Caps : approvals'[c] \in Nat
    BY <2>5
  <2>4. approvals' \in [Caps -> Nat]
    BY <2>6, <2>7
  <2> QED
    BY <1>13, <2>2, <2>4, <1>a DEF Rule
<1>14. CASE SwitchKill
  <2>1. killed' \in BOOLEAN
    BY <1>14, Zenon DEF SwitchKill
  <2> QED
    BY <1>14, <2>1, <1>a DEF SwitchKill
<1>15. CASE Tick \/ Crash
  BY <1>15, <1>a DEF Tick, Crash
<1> QED
  BY <1>1, <1>2, <1>3, <1>4, <1>5, <1>6, <1>7, <1>8, <1>9, <1>10, <1>11, <1>12,
     <1>13, <1>14, <1>15 DEF Next, HandlerStep

-----------------------------------------------------------------------------
(* Every action keeps the rest of the invariant.                           *)

LEMMA RestInit == Init => Local /\ Bound /\ Calm /\ Paid
<1> SUFFICES ASSUME Init PROVE Local /\ Bound /\ Calm /\ Paid
  OBVIOUS
<1>1. Local /\ Bound /\ Calm
  BY DEF Init, Local, ClaimIsExclusive, BestFits, FreeRunsAreAllowed, Bound, Calm, InConsume,
     Entitled, Holds
<1>2. \A c \in Caps : Tokens(c) = {} /\ ~Available(c) /\ ran[c] = 0 /\ approvals[c] = 0
  BY DEF Init, Absent, Tokens, Entitled, Holds, Available
<1>3. Paid
  BY <1>2, FS_EmptySet DEF Paid
<1> QED
  BY <1>1, <1>3

LEMMA LocalStep == ASSUME TypeOK, Local, [Next]_vars PROVE Local'
<1> USE NoneAssumption
    DEF TypeOK, Steps, handlerVars, request, operatorVars, history, Continue, End, GoTo,
        Local, ClaimIsExclusive, BestFits, FreeRunsAreAllowed, InConsume
<1>1. ASSUME NEW h \in Handlers, Decide(h) PROVE Local'
  BY <1>1 DEF Decide, Verdicts
<1>2. ASSUME NEW h \in Handlers, HandlerStep(h), ~Decide(h) PROVE Local'
  BY <1>2 DEF HandlerStep, Scan, Prefers, Request, Present, AnswerPending, Claim, Check,
     WriteConsumed, Unclaim, Run
<1>3. ASSUME NEW h \in Handlers, NEW a \in Actions, Receive(h, a) PROVE Local'
  BY <1>3 DEF Receive
<1>4. CASE UNCHANGED vars
  BY <1>4 DEF vars
<1> QED
  BY <1>1, <1>2, <1>3, <1>4 DEF Next, Consider, Rule, SwitchKill, Tick, Crash

\* What a consumer's write may do to the records.
LEMMA ConsumerWrites ==
  ASSUME TypeOK, Local, Bound, NEW h \in Handlers, WriteConsumed(h)
  PROVE  /\ best[h] \in Caps
         /\ \A c \in Caps : rec'[c].digest = rec[c].digest
              /\ (rec'[c].status = "absent" <=> rec[c].status = "absent")
         /\ \A c \in Caps \ {best[h]} : rec'[c] = rec[c]
         /\ UNCHANGED rec \/ rec'[best[h]].status = "consumed"
         /\ pc'[h] = "commit" => rec'[best[h]].status = "consumed"
<1>1. /\ best[h] \in Caps /\ rec[best[h]].status # "absent"
      /\ seen[h] \in Records /\ seen[h].digest = rec[best[h]].digest
  BY DEF WriteConsumed, Bound, Entitled, TypeOK
<1>2. PICK q : q = [seen[h] EXCEPT !.status = "consumed"]
  OBVIOUS
<1>3. q.status = "consumed" /\ q.digest = rec[best[h]].digest
  BY <1>1, <1>2, StatusUpdate DEF Statuses
<1>4. rec' = [rec EXCEPT ![best[h]] = q] \/ (UNCHANGED rec /\ pc' = [pc EXCEPT ![h] = "release"])
  BY <1>2 DEF WriteConsumed, Continue, GoTo
<1> QED
  BY <1>1, <1>3, <1>4 DEF TypeOK, WriteConsumed

\* What an operator's write does to them.
LEMMA OperatorWrites ==
  ASSUME TypeOK, Bound, NEW o \in Operators, Rule(o)
  PROVE  /\ target[o] \in Caps /\ rec[target[o]].status # "absent"
         /\ opc[o] \in {"approved", "denied"}
         /\ \A c \in Caps : rec'[c].digest = rec[c].digest
              /\ (rec'[c].status = "absent" <=> rec[c].status = "absent")
         /\ \A c \in Caps \ {target[o]} : rec'[c] = rec[c]
         /\ rec'[target[o]].status = opc[o]
         /\ approvals' = [approvals EXCEPT ![target[o]] =
                             @ + (IF opc[o] = "approved" THEN 1 ELSE 0)]
<1>1. /\ target[o] \in Caps /\ rec[target[o]].status # "absent" /\ copy[o] \in Records
      /\ copy[o].digest = rec[target[o]].digest /\ opc[o] \in {"approved", "denied"}
  BY DEF Rule, Bound, TypeOK
<1>2. PICK q : q = [copy[o] EXCEPT !.status = opc[o]]
  OBVIOUS
<1>3. q.status = opc[o] /\ q.digest = rec[target[o]].digest
  BY <1>1, <1>2, StatusUpdate DEF Statuses
<1>4. rec' = [rec EXCEPT ![target[o]] = q]
  BY <1>2 DEF Rule
<1> QED
  BY <1>1, <1>3, <1>4 DEF TypeOK, Rule

LEMMA BoundStep == ASSUME TypeOK, Local, Bound, [Next]_vars PROVE Bound'
<1> USE NoneAssumption
    DEF TypeOK, Steps, handlerVars, request, operatorVars, history, runs, rulings, Continue,
        End, GoTo, Local, BestFits, InConsume, Bound, Entitled, Holds
<1>1. ASSUME NEW h \in Handlers, HandlerStep(h), UNCHANGED rec, ~Check(h) PROVE Bound'
  BY <1>1 DEF HandlerStep, Decide, Scan, Request, Present, AnswerPending, Claim,
     WriteConsumed, Unclaim, Run
<1>2. ASSUME NEW h \in Handlers, NEW c \in Caps, Request(h, c) PROVE Bound'
  BY <1>2 DEF Request
<1>3. ASSUME NEW h \in Handlers, Check(h) PROVE Bound'
  BY <1>3 DEF Check
<1>4. ASSUME NEW h \in Handlers, WriteConsumed(h) PROVE Bound'
  BY <1>4, ConsumerWrites DEF WriteConsumed
<1>5. ASSUME NEW h \in Handlers, NEW a \in Actions, Receive(h, a) PROVE Bound'
  BY <1>5 DEF Receive
<1>6. ASSUME NEW o \in Operators, NEW c \in Caps, NEW v \in {"approved", "denied"},
             Consider(o, c, v)
      PROVE  Bound'
  BY <1>6 DEF Consider
<1>7. ASSUME NEW o \in Operators, Rule(o) PROVE Bound'
  BY <1>7, OperatorWrites DEF Rule
<1>8. CASE UNCHANGED vars \/ SwitchKill \/ Tick \/ Crash
  BY <1>8 DEF vars, SwitchKill, Tick, Crash
<1>9. ASSUME NEW h \in Handlers, HandlerStep(h)
      PROVE  \/ UNCHANGED rec /\ ~Check(h)
             \/ Check(h)
             \/ WriteConsumed(h)
             \/ \E c \in Caps : Request(h, c)
  BY <1>9 DEF HandlerStep, Decide, Scan, Present, AnswerPending, Claim, Unclaim, Run
<1> QED
  BY <1>1, <1>2, <1>3, <1>4, <1>5, <1>6, <1>7, <1>8, <1>9 DEF Next

LEMMA CalmStep == ASSUME TypeOK, Local, Bound, Calm, [Next]_vars PROVE Calm'
<1> USE NoneAssumption
    DEF TypeOK, Steps, handlerVars, request, operatorVars, history, runs, rulings, Continue,
        End, GoTo, Local, ClaimIsExclusive, BestFits, InConsume, Bound, Entitled, Calm, Holds
<1>1. ASSUME NEW h \in Handlers, HandlerStep(h), UNCHANGED rec, ~Check(h), ~WriteConsumed(h)
      PROVE  Calm'
  <2>1. UNCHANGED <<operatorVars, approvals, contested>>
    BY <1>1 DEF HandlerStep, Decide, Scan, Request, Present, AnswerPending, Claim, Unclaim, Run
  <2>2. \A g \in Handlers \ {h} : pc'[g] = pc[g] /\ best'[g] = best[g] /\ seen'[g] = seen[g]
    BY <1>1 DEF HandlerStep, Decide, Scan, Request, Present, AnswerPending, Claim, Unclaim, Run
  <2>3. pc'[h] # "write"
    BY <1>1 DEF HandlerStep, Decide, Scan, Request, Present, AnswerPending, Claim, Unclaim, Run
  <2>4. Holds(h)' => Holds(h) /\ best'[h] = best[h]
    BY <1>1 DEF HandlerStep, Decide, Scan, Request, Present, AnswerPending, Claim, Unclaim, Run
  <2> QED
    BY <1>1, <2>1, <2>2, <2>3, <2>4
<1>2. ASSUME NEW h \in Handlers, NEW c \in Caps, Request(h, c) PROVE Calm'
  BY <1>2 DEF Request
<1>3. ASSUME NEW h \in Handlers, Check(h) PROVE Calm'
  BY <1>3 DEF Check
<1>4. ASSUME NEW h \in Handlers, WriteConsumed(h) PROVE Calm'
  <2>1. /\ UNCHANGED <<operatorVars, approvals, contested, best, seen>> /\ pc[h] = "write"
        /\ \A g \in Handlers \ {h} : pc'[g] = pc[g]
        /\ pc'[h] \in {"commit", "release"}
    BY <1>4 DEF WriteConsumed
  <2>2. PICK d \in Caps : d = best[h] /\ (rec'[d] = rec[d] \/ rec'[d].status = "consumed")
                          /\ (pc'[h] = "commit" => rec'[d].status = "consumed")
                          /\ \A c \in Caps \ {d} : rec'[c] = rec[c]
    BY <1>4, ConsumerWrites
  <2>3. ASSUME d \notin contested
        PROVE  /\ rec[d].status = "approved"
               /\ \A o \in Operators : ~(opc[o] # "idle" /\ target[o] = d)
               /\ \A g \in Handlers \ {h} : best[g] = d => pc[g] # "write" /\ ~Holds(g)
    BY <2>1, <2>2, <2>3
  <2> QED
    BY <2>1, <2>2, <2>3
<1>5. ASSUME NEW h \in Handlers, NEW a \in Actions, Receive(h, a) PROVE Calm'
  BY <1>5 DEF Receive
<1>6. ASSUME NEW o \in Operators, NEW c \in Caps, NEW v \in {"approved", "denied"},
             Consider(o, c, v)
      PROVE  Calm'
  BY <1>6 DEF Consider, Contests
<1>7. ASSUME NEW o \in Operators, Rule(o) PROVE Calm'
  BY <1>7, OperatorWrites DEF Rule
<1>8. CASE UNCHANGED vars \/ SwitchKill \/ Tick \/ Crash
  BY <1>8 DEF vars, SwitchKill, Tick, Crash
<1>9. ASSUME NEW h \in Handlers, HandlerStep(h)
      PROVE  \/ UNCHANGED rec /\ ~Check(h)
             \/ Check(h)
             \/ WriteConsumed(h)
             \/ \E c \in Caps : Request(h, c)
  BY <1>9 DEF HandlerStep, Decide, Scan, Present, AnswerPending, Claim, Unclaim, Run
<1> QED
  BY <1>1, <1>2, <1>3, <1>4, <1>5, <1>6, <1>7, <1>8, <1>9 DEF Next

\* A step that entitles nobody anew and makes nothing available keeps Paid.
LEMMA PaidStays ==
  ASSUME TypeOK, TypeOK', Paid,
         \A c \in Caps : /\ Tokens(c)' \subseteq Tokens(c)
                         /\ ran'[c] = ran[c] /\ approvals'[c] >= approvals[c]
                         /\ Available(c)' => \/ Available(c)
                                            \/ Tokens(c)' # Tokens(c)
                                            \/ approvals'[c] > approvals[c]
  PROVE  Paid'
<1> SUFFICES ASSUME NEW c \in Caps
             PROVE  /\ IsFiniteSet(Tokens(c)')
                    /\ ran'[c] + Cardinality(Tokens(c)') + (IF Available(c)' THEN 1 ELSE 0)
                         <= approvals'[c]
  BY DEF Paid
<1>1. PICK S : S = Tokens(c)
  OBVIOUS
<1>2. PICK T : T = Tokens(c)'
  OBVIOUS
<1>3. IsFiniteSet(S) /\ T \subseteq S
      /\ ran[c] + Cardinality(S) + (IF Available(c) THEN 1 ELSE 0) <= approvals[c]
  BY <1>1, <1>2 DEF Paid
<1>4. /\ IsFiniteSet(T) /\ Cardinality(T) \in Nat /\ Cardinality(S) \in Nat
      /\ Cardinality(T) <= Cardinality(S) /\ (T # S => Cardinality(T) # Cardinality(S))
  BY <1>3, FS_Subset, FS_CardinalityType
<1>5. PICK r \in Nat, a \in Nat, b \in Nat :
        r = ran[c] /\ r = ran'[c] /\ a = approvals[c] /\ b = approvals'[c] /\ b >= a
  BY DEF TypeOK
<1>6. Available(c)' => Available(c) \/ T # S \/ b > a
  BY <1>1, <1>2, <1>5
<1>7. PICK m \in Nat, n \in Nat : m = Cardinality(S) /\ n = Cardinality(T)
  BY <1>4
<1>8. r + n + (IF Available(c)' THEN 1 ELSE 0) <= b
  BY <1>3, <1>4, <1>5, <1>6, <1>7
<1> QED
  BY <1>2, <1>4, <1>5, <1>7, <1>8

LEMMA PaidStep == ASSUME TypeOK, TypeOK', Local, Bound, Paid, [Next]_vars PROVE Paid'
<1> USE NoneAssumption
    DEF handlerVars, request, operatorVars, history, runs, rulings, Continue, End, GoTo
<1>a. ASSUME NEW h \in Handlers, HandlerStep(h), UNCHANGED <<ran, approvals>>,
             ~Check(h), ~WriteConsumed(h), ~Run(h)
      PROVE  \A c \in Caps : Tokens(c)' = Tokens(c) /\ (Available(c)' => Available(c))
  <2> USE DEF TypeOK, Steps
  <2>1. \A g \in Handlers \ {h} : pc'[g] = pc[g] /\ best'[g] = best[g]
    BY <1>a DEF HandlerStep, Decide, Scan, Request, Present, AnswerPending, Claim, Unclaim, Run
  <2>2. Entitled(h)' <=> Entitled(h)
    BY <1>a DEF HandlerStep, Decide, Scan, Request, Present, AnswerPending, Claim, Unclaim, Run,
       Local, BestFits, Entitled, Holds, InConsume
  <2>3. /\ Entitled(h) => best'[h] = best[h]
        /\ pc[h] # "write" /\ pc'[h] # "write"
    BY <1>a DEF HandlerStep, Decide, Scan, Request, Present, AnswerPending, Claim, Unclaim, Run,
       Entitled, Holds
  <2>4. \A c \in Caps : rec'[c].status = "approved" => rec[c].status = "approved"
    BY <1>a DEF HandlerStep, Decide, Scan, Request, Present, AnswerPending, Claim, Unclaim, Run
  <2>5. \A g \in Handlers, c \in Caps :
          (Entitled(g) /\ best[g] = c <=> Entitled(g)' /\ best'[g] = c)
    BY <2>1, <2>2, <2>3 DEF Entitled, Holds
  <2> QED
    BY <2>1, <2>3, <2>4, <2>5 DEF Tokens, Available
<1>1. ASSUME NEW h \in Handlers, HandlerStep(h), ~Check(h), ~WriteConsumed(h), ~Run(h)
      PROVE  Paid'
  <2>1. UNCHANGED <<ran, approvals>>
    BY <1>1 DEF HandlerStep, Decide, Scan, Request, Present, AnswerPending, Claim, Unclaim
  <2> QED
    BY <1>1, <1>a, <2>1, PaidStays DEF TypeOK
<1>2. ASSUME NEW h \in Handlers, Check(h) PROVE Paid'
  <2>1. PICK d \in Caps : d = best[h]
    BY <1>2 DEF Check, Local, BestFits, InConsume
  <2>2. UNCHANGED <<ran, approvals, rec, best>> /\ pc' = [pc EXCEPT ![h] = pc'[h]]
        /\ pc[h] = "check" /\ pc'[h] \in {"write", "release"}
    BY <1>2 DEF Check, TypeOK
  <2>3. \A g \in Handlers \ {h} : InConsume(g) => best[g] # d
    BY <2>1, <2>2 DEF Local, ClaimIsExclusive, InConsume
  <2>4. \A c \in Caps \ {d} : Tokens(c)' = Tokens(c) /\ Available(c)' = Available(c)
    BY <2>1, <2>2 DEF Tokens, Entitled, Holds, Available, TypeOK
  <2>5. CASE pc'[h] = "release"
    <3>1. \A c \in Caps : Tokens(c)' = Tokens(c) /\ Available(c)' = Available(c)
      BY <2>1, <2>2, <2>5 DEF Tokens, Entitled, Holds, Available, TypeOK
    <3> QED
      BY <3>1, <2>2, PaidStays DEF TypeOK
  <2>6. CASE pc'[h] = "write"
    <3>1. rec[d].status = "approved"
      BY <1>2, <2>1, <2>2, <2>6 DEF Check, TypeOK
    <3>2. Available(d) /\ ~Available(d)' /\ h \notin Tokens(d)
      BY <2>1, <2>2, <2>3, <2>6, <3>1 DEF Available, Tokens, Entitled, Holds, InConsume
    <3>3. Tokens(d)' = Tokens(d) \cup {h}
      BY <2>1, <2>2, <2>6 DEF Tokens, Entitled, Holds, TypeOK
    <3>4. /\ IsFiniteSet(Tokens(d)')
          /\ ran'[d] + Cardinality(Tokens(d)') + (IF Available(d)' THEN 1 ELSE 0) <= approvals'[d]
      <4>1. PICK S : S = Tokens(d)
        OBVIOUS
      <4>2. IsFiniteSet(S) /\ ran[d] + Cardinality(S) + 1 <= approvals[d]
        BY <3>2, <4>1 DEF Paid
      <4>3. IsFiniteSet(S \cup {h}) /\ Cardinality(S \cup {h}) = Cardinality(S) + 1
        BY <3>2, <4>1, <4>2, FS_AddElement
      <4>4. PICK r \in Nat, a \in Nat, n \in Nat :
              r = ran[d] /\ a = approvals[d] /\ n = Cardinality(S)
        BY <4>2, FS_CardinalityType DEF TypeOK
      <4>5. ran'[d] = r /\ approvals'[d] = a /\ Tokens(d)' = S \cup {h}
        BY <2>2, <3>3, <4>1, <4>4
      <4> QED
        BY <3>2, <4>2, <4>3, <4>4, <4>5
    <3> QED
      BY <2>2, <2>4, <3>4 DEF Paid
  <2> QED
    BY <2>2, <2>5, <2>6
<1>3. ASSUME NEW h \in Handlers, WriteConsumed(h) PROVE Paid'
  <2>1. PICK d \in Caps : d = best[h]
    BY <1>3 DEF WriteConsumed, Local, BestFits, InConsume
  <2>2. /\ UNCHANGED <<ran, approvals, best>> /\ pc' = [pc EXCEPT ![h] = pc'[h]]
        /\ pc[h] = "write" /\ pc'[h] \in {"commit", "release"}
        /\ \A c \in Caps \ {d} : rec'[c] = rec[c]
        /\ pc'[h] = "commit" => rec'[d].status = "consumed"
    BY <1>3, <2>1, ConsumerWrites DEF WriteConsumed, TypeOK
  <2>3. \A c \in Caps \ {d} : Tokens(c)' = Tokens(c) /\ Available(c)' = Available(c)
    BY <2>1, <2>2 DEF Tokens, Entitled, Holds, Available, TypeOK
  <2>4. CASE pc'[h] = "commit"
    <3>1. Tokens(d)' = Tokens(d) /\ ~Available(d)'
      BY <2>1, <2>2, <2>4 DEF Tokens, Entitled, Holds, Available, TypeOK
    <3> QED
      BY <2>2, <2>3, <3>1, PaidStays DEF TypeOK
  <2>5. CASE pc'[h] = "release"
    <3>1. Tokens(d)' \subseteq Tokens(d) /\ Tokens(d)' # Tokens(d)
      BY <2>1, <2>2, <2>5 DEF Tokens, Entitled, Holds, TypeOK
    <3> QED
      BY <2>2, <2>3, <3>1, PaidStays DEF TypeOK
  <2> QED
    BY <2>2, <2>4, <2>5
<1>4. ASSUME NEW h \in Handlers, Run(h) PROVE Paid'
  <2>1. pc[h] = "run" /\ UNCHANGED <<rec, approvals>>
        /\ pc' = [pc EXCEPT ![h] = "idle"] /\ best' = [best EXCEPT ![h] = None]
    BY <1>4 DEF Run
  <2>2. ran' = [c \in Caps |-> ran[c] + (IF c = best[h] THEN 1 ELSE 0)]
    BY <1>4 DEF Run
  <2>3. \A c \in Caps : /\ Tokens(c)' = Tokens(c) \ {h} /\ Available(c)' = Available(c)
                        /\ h \in Tokens(c) <=> c = best[h]
    BY <2>1 DEF Tokens, Entitled, Holds, Available, TypeOK
  <2> SUFFICES ASSUME NEW c \in Caps
               PROVE  /\ IsFiniteSet(Tokens(c)')
                      /\ ran'[c] + Cardinality(Tokens(c)') + (IF Available(c)' THEN 1 ELSE 0)
                           <= approvals'[c]
    BY DEF Paid
  <2>4. PICK S : S = Tokens(c)
    OBVIOUS
  <2>5. IsFiniteSet(S)
        /\ ran[c] + Cardinality(S) + (IF Available(c) THEN 1 ELSE 0) <= approvals[c]
    BY <2>4 DEF Paid
  <2>6. IsFiniteSet(S \ {h})
        /\ Cardinality(S \ {h}) = IF h \in S THEN Cardinality(S) - 1 ELSE Cardinality(S)
    BY <2>5, FS_RemoveElement
  <2>7. PICK r \in Nat, a \in Nat, n \in Nat :
          r = ran[c] /\ a = approvals[c] /\ n = Cardinality(S)
    BY <2>5, FS_CardinalityType DEF TypeOK
  <2>8. /\ ran'[c] = r + (IF h \in S THEN 1 ELSE 0) /\ approvals'[c] = a
        /\ Tokens(c)' = S \ {h} /\ Available(c)' = Available(c)
    BY <2>1, <2>2, <2>3, <2>4, <2>7
  <2> QED
    BY <2>5, <2>6, <2>7, <2>8
<1>5. ASSUME NEW h \in Handlers, NEW a \in Actions, Receive(h, a) PROVE Paid'
  <2>1. \A c \in Caps : Tokens(c)' = Tokens(c) /\ Available(c)' = Available(c)
    BY <1>5 DEF Receive, TypeOK, Tokens, Entitled, Holds, Available
  <2> QED
    BY <1>5, <2>1, PaidStays DEF TypeOK, Receive
<1>6. ASSUME NEW o \in Operators, NEW c \in Caps, NEW v \in {"approved", "denied"},
             Consider(o, c, v)
      PROVE  Paid'
  <2>1. UNCHANGED <<ran, approvals, rec, pc, best>>
    BY <1>6 DEF Consider
  <2>2. \A d \in Caps : Tokens(d)' = Tokens(d) /\ Available(d)' = Available(d)
    BY <2>1 DEF Tokens, Entitled, Holds, Available
  <2> QED
    BY <2>1, <2>2, PaidStays DEF TypeOK
<1>7. ASSUME NEW o \in Operators, Rule(o) PROVE Paid'
  <2>1. PICK d \in Caps : d = target[o] /\ opc[o] \in {"approved", "denied"}
    BY <1>7 DEF Rule, Bound, TypeOK
  <2>2. /\ UNCHANGED <<ran, pc, best>> /\ \A c \in Caps \ {d} : rec'[c] = rec[c]
        /\ rec'[d].status = opc[o]
        /\ approvals' = [approvals EXCEPT ![d] = @ + (IF opc[o] = "approved" THEN 1 ELSE 0)]
    BY <1>7, <2>1, OperatorWrites DEF Rule
  <2>3. \A c \in Caps : Tokens(c)' = Tokens(c) /\ (c # d => Available(c)' = Available(c))
    BY <2>2 DEF Tokens, Entitled, Holds, Available
  <2>4. Available(d)' => opc[o] = "approved"
    BY <2>2 DEF Available
  <2>5. \A c \in Caps : approvals'[c] >= approvals[c]
                       /\ (c = d /\ opc[o] = "approved" => approvals'[c] > approvals[c])
    BY <2>2 DEF TypeOK
  <2> QED
    BY <2>2, <2>3, <2>4, <2>5, PaidStays
<1>8. CASE Crash
  <2>1. UNCHANGED <<ran, approvals, rec>> /\ \A h \in Handlers : pc'[h] = "idle"
    BY <1>8 DEF Crash
  <2>2. \A c \in Caps : Tokens(c)' = {}
    BY <2>1 DEF Tokens, Entitled, Holds
  <2>3. \A c \in Caps : Available(c)' => Available(c) \/ Tokens(c) # {}
    BY <2>1 DEF Tokens, Entitled, Available
  <2> QED
    BY <2>1, <2>2, <2>3, PaidStays DEF TypeOK
<1>9. CASE UNCHANGED vars \/ SwitchKill \/ Tick
  <2>1. UNCHANGED <<ran, approvals, rec, pc, best>>
    BY <1>9 DEF vars, SwitchKill, Tick
  <2>2. \A d \in Caps : Tokens(d)' = Tokens(d) /\ Available(d)' = Available(d)
    BY <2>1 DEF Tokens, Entitled, Holds, Available
  <2> QED
    BY <2>1, <2>2, PaidStays DEF TypeOK
<1> QED
  BY <1>1, <1>2, <1>3, <1>4, <1>5, <1>6, <1>7, <1>8, <1>9 DEF Next

LEMMA IInvHolds == Spec => []IInv
<1>1. Init => IInv
  BY TypeInit, RestInit DEF IInv
<1>2. IInv /\ [Next]_vars => IInv'
  <2> SUFFICES ASSUME IInv, [Next]_vars PROVE IInv'
    OBVIOUS
  <2>1. TypeOK /\ BestFits /\ Local /\ Bound /\ Calm /\ Paid
    BY DEF IInv, Local
  <2>2. TypeOK'
    BY <2>1, TypeStep
  <2> QED
    BY <2>1, <2>2, LocalStep, BoundStep, CalmStep, PaidStep DEF IInv
<1> QED
  BY <1>1, <1>2, PTL DEF Spec

-----------------------------------------------------------------------------
(* What follows from it.                                                   *)

\* Whoever is entitled to spend a capability has an approval left to spend.
LEMMA EntitledIsPaid ==
  ASSUME IInv, NEW h \in Handlers, Entitled(h)
  PROVE  best[h] \in Caps /\ ran[best[h]] < approvals[best[h]]
<1>1. PICK c \in Caps : c = best[h]
  BY DEF IInv, Bound
<1>2. PICK S : S = Tokens(c)
  OBVIOUS
<1>3. h \in S /\ IsFiniteSet(S)
      /\ ran[c] + Cardinality(S) + (IF Available(c) THEN 1 ELSE 0) <= approvals[c]
  BY <1>1, <1>2 DEF IInv, Paid, Tokens
<1>4. Cardinality(S) \in Nat /\ Cardinality(S) # 0
  BY <1>3, FS_EmptySet, FS_CardinalityType
<1>5. ran[c] \in Nat /\ approvals[c] \in Nat
  BY DEF IInv, TypeOK
<1> QED
  BY <1>1, <1>3, <1>4, <1>5

\* However many threads, operators and crashes: no more runs than approvals,
\* and one at most unless two operators had the record in hand at once.
THEOREM SingleUseHolds == Spec => []SingleUse
<1>1. IInv => SingleUse
  <2> SUFFICES ASSUME IInv, NEW c \in Caps
               PROVE  ran[c] <= approvals[c] /\ (c \notin contested => ran[c] <= 1)
    BY DEF SingleUse
  <2>1. PICK S : S = Tokens(c)
    OBVIOUS
  <2>2. IsFiniteSet(S)
        /\ ran[c] + Cardinality(S) + (IF Available(c) THEN 1 ELSE 0) <= approvals[c]
    BY <2>1 DEF IInv, Paid
  <2>3. Cardinality(S) \in Nat
    BY <2>2, FS_CardinalityType
  <2>4. ran[c] \in Nat /\ approvals[c] \in Nat /\ (c \notin contested => approvals[c] <= 1)
    BY DEF IInv, TypeOK, Calm
  <2> QED
    BY <2>2, <2>3, <2>4
<1> QED
  BY <1>1, IInvHolds, PTL

\* What runs without the kernel's leave was approved, for that very action,
\* and has an unspent approval to pay with.
THEOREM RunsArePaidForHolds == Spec => []RunsArePaidFor
<1>1. IInv => RunsArePaidFor
  <2> SUFFICES ASSUME IInv, NEW h \in Handlers, pc[h] = "run", act[h] \notin Ungated,
                      best[h] # None \/ act[h] \notin Autonomous
               PROVE  /\ best[h] # None
                      /\ rec[best[h]].digest = act[h]
                      /\ ran[best[h]] < approvals[best[h]]
                      /\ best[h] \notin contested => rec[best[h]].status = "consumed"
    BY DEF RunsArePaidFor
  <2>1. best[h] # None
    BY DEF IInv, Local, FreeRunsAreAllowed
  <2>2. Entitled(h) /\ Holds(h)
    BY <2>1 DEF Entitled, Holds
  <2>3. best[h] \in Caps /\ ran[best[h]] < approvals[best[h]]
    BY <2>2, EntitledIsPaid
  <2> QED
    BY <2>1, <2>2, <2>3 DEF IInv, Bound, Calm
<1> QED
  BY <1>1, IInvHolds, PTL

\* A denied or consumed record is never written again by anybody, unless two
\* operators had it in hand at once.
THEOREM FinalStaysFinalHolds == Spec => FinalStaysFinal
<1> DEFINE Kept == \A c \in Caps \ contested :
                     rec[c].status \in {"denied", "consumed"} => rec'[c] = rec[c]
<1>1. IInv /\ [Next]_vars => [Kept]_vars
  <2> SUFFICES ASSUME IInv, [Next]_vars PROVE Kept
    OBVIOUS
  <2> USE DEF IInv, TypeOK
  <2>1. ASSUME NEW h \in Handlers, WriteConsumed(h) PROVE Kept
    BY <2>1 DEF WriteConsumed, Bound, Calm, Entitled
  <2>2. ASSUME NEW h \in Handlers, NEW c \in Caps, Request(h, c) PROVE Kept
    BY <2>2 DEF Request
  <2>3. ASSUME NEW o \in Operators, Rule(o) PROVE Kept
    BY <2>3 DEF Rule, Bound, Calm
  <2>4. CASE UNCHANGED rec
    BY <2>4
  <2> QED
    BY <2>1, <2>2, <2>3, <2>4
    DEF Next, HandlerStep, vars, Receive, Decide, Scan, Present, AnswerPending, Claim,
        Check, Unclaim, Run, Consider, SwitchKill, Tick, Crash
<1> QED
  BY <1>1, IInvHolds, PTL DEF Spec, FinalStaysFinal

\* A step that changes no digest, no presence, no grant and no use is a stutter.
LEMMA SameView ==
  ASSUME \A c \in Caps : /\ rec'[c].digest = rec[c].digest
                         /\ rec'[c].status = "absent" <=> rec[c].status = "absent",
         UNCHANGED <<approvals, ran, ranFor>>
  PROVE  UNCHANGED Promise!vars
  BY DEF Promise!vars

\* The executor implements the abstract promise, whatever the operators do:
\* issued, granted, and each grant used once for the action it was issued for.
THEOREM KeepsPromiseHolds == Spec => KeepsPromise
<1>1. Init => Promise!Init
  <2> SUFFICES ASSUME Init PROVE Promise!Init
    OBVIOUS
  <2>1. \A c \in Caps : rec[c].status = "absent"
    BY DEF Init, Absent
  <2> QED
    BY <2>1 DEF Init, Promise!Init
<1>2. IInv /\ [Next]_vars => [Promise!Next]_(Promise!vars)
  <2> SUFFICES ASSUME IInv, [Next]_vars
               PROVE  Promise!Next \/ UNCHANGED Promise!vars
    OBVIOUS
  <2>t. TypeOK /\ Local /\ Bound
    BY DEF IInv
  <2> USE DEF history, runs, rulings
  <2>1. ASSUME NEW h \in Handlers, NEW c \in Caps, NEW a \in Actions, a = act[h],
               Request(h, c)
        PROVE  Promise!Issue(c, a)
    <3>1. rec[c].status = "absent" /\ UNCHANGED <<approvals, ran, ranFor>>
      BY <2>1 DEF Request
    <3>2. rec' = [rec EXCEPT ![c] = [digest |-> a, created |-> now,
                                     expires |-> now + TTL, status |-> "pending"]]
      BY <2>1 DEF Request
    <3>3. rec'[c].digest = a /\ rec'[c].status = "pending"
          /\ \A d \in Caps \ {c} : rec'[d] = rec[d]
      BY <3>2, <2>t DEF TypeOK
    <3> QED
      BY <3>1, <3>3 DEF Promise!Issue
  <2>2. ASSUME NEW h \in Handlers, WriteConsumed(h) PROVE UNCHANGED Promise!vars
    <3>2. \A c \in Caps : rec'[c].digest = rec[c].digest
          /\ (rec'[c].status = "absent" <=> rec[c].status = "absent")
      BY <2>2, <2>t, ConsumerWrites
    <3>3. UNCHANGED <<approvals, ran, ranFor>>
      BY <2>2 DEF WriteConsumed
    <3> QED
      BY <3>2, <3>3, SameView
  <2>3. ASSUME NEW h \in Handlers, Run(h)
        PROVE  Promise!Next \/ UNCHANGED Promise!vars
    <3>0. UNCHANGED <<rec, approvals>>
          /\ ran' = [c \in Caps |-> ran[c] + (IF c = best[h] THEN 1 ELSE 0)]
          /\ ranFor' = [c \in Caps |-> IF c = best[h] THEN act[h] ELSE ranFor[c]]
      BY <2>3 DEF Run
    <3>1. CASE best[h] = None
      <4>1. UNCHANGED <<ran, ranFor>>
        BY <3>0, <3>1, <2>t, NoneAssumption DEF TypeOK
      <4> QED
        BY <3>0, <4>1, SameView
    <3>2. CASE best[h] # None
      <4>1. Entitled(h)
        BY <2>3, <3>2 DEF Run, Entitled, Holds
      <4>2. PICK b \in Caps : b = best[h] /\ ran[b] < approvals[b]
        BY <4>1, EntitledIsPaid
      <4>3. rec[b].digest = act[h] /\ rec[b].status # "absent"
        BY <4>1, <4>2, <2>t DEF Bound
      <4>4. ran' = [ran EXCEPT ![b] = @ + 1]
        <5>1. \A c \in Caps : ran'[c] = IF c = b THEN ran[c] + 1 ELSE ran[c]
          BY <3>0, <4>2, <2>t DEF TypeOK
        <5>2. ran' = [c \in Caps |-> IF c = b THEN ran[c] + 1 ELSE ran[c]]
          BY <3>0, <5>1, Zenon
        <5> QED
          BY <5>2, <2>t DEF TypeOK
      <4>5. ranFor' = [ranFor EXCEPT ![b] = act[h]]
        BY <3>0, <4>2, <2>t DEF TypeOK
      <4>6. Promise!Use(b)
        BY <3>0, <4>2, <4>3, <4>4, <4>5 DEF Promise!Use
      <4> QED
        BY <4>6 DEF Promise!Next
    <3> QED
      BY <3>1, <3>2
  <2>4. ASSUME NEW o \in Operators, Rule(o)
        PROVE  Promise!Next \/ UNCHANGED Promise!vars
    <3>1. PICK c \in Caps : /\ c = target[o] /\ copy[o].digest = rec[c].digest
                            /\ rec[c].status # "absent"
                            /\ opc[o] \in {"approved", "denied"}
      BY <2>4, <2>t, OperatorWrites DEF Rule, Bound, TypeOK
    <3>2. \A d \in Caps : rec'[d].digest = rec[d].digest
          /\ (rec'[d].status = "absent" <=> rec[d].status = "absent")
      BY <2>4, <3>1, <2>t, OperatorWrites
    <3>3. UNCHANGED <<ran, ranFor>>
          /\ approvals' = [approvals EXCEPT ![c] = @ + (IF opc[o] = "approved" THEN 1 ELSE 0)]
      BY <2>4, <3>1 DEF Rule
    <3>4. CASE opc[o] = "approved"
      <4>1. rec[c].digest # None
        BY <2>t, NoneAssumption DEF Records, TypeOK
      <4>2. approvals' = [approvals EXCEPT ![c] = @ + 1]
        BY <3>3, <3>4
      <4>3. Promise!Grant(c)
        BY <3>1, <3>2, <3>3, <4>1, <4>2 DEF Promise!Grant
      <4> QED
        BY <4>3 DEF Promise!Next
    <3>5. CASE opc[o] = "denied"
      <4>1. UNCHANGED approvals
        BY <3>3, <3>5, <2>t DEF TypeOK
      <4> QED
        BY <3>2, <3>3, <4>1, SameView
    <3> QED
      BY <3>1, <3>4, <3>5
  <2>5. CASE UNCHANGED <<rec, approvals, ran, ranFor>>
    BY <2>5, SameView
  <2>6. CASE \E h \in Handlers, c \in Caps : Request(h, c)
    <3>1. PICK h \in Handlers, c \in Caps : Request(h, c)
      BY <2>6
    <3>2. PICK a \in Actions : a = act[h]
      BY <2>t DEF TypeOK
    <3>3. Promise!Issue(c, a)
      BY <3>1, <3>2, <2>1
    <3> QED
      BY <3>3 DEF Promise!Next
  <2>7. ASSUME NEW h \in Handlers, HandlerStep(h) \/ \E a \in Actions : Receive(h, a)
        PROVE  \/ \E c \in Caps : Request(h, c)
               \/ WriteConsumed(h) \/ Run(h) \/ UNCHANGED <<rec, approvals, ran, ranFor>>
    BY <2>7 DEF HandlerStep, Receive, Decide, Scan, Present, AnswerPending, Claim, Check,
       Unclaim
  <2>8. CASE SwitchKill \/ Tick \/ Crash \/ UNCHANGED vars
    BY <2>5, <2>8 DEF SwitchKill, Tick, Crash, vars
  <2>9. ASSUME NEW o \in Operators, NEW c \in Caps,
               NEW v \in {"approved", "denied"}, Consider(o, c, v)
        PROVE  UNCHANGED <<rec, approvals, ran, ranFor>>
    BY <2>9 DEF Consider
  <2> QED
    BY <2>2, <2>3, <2>4, <2>5, <2>6, <2>7, <2>8, <2>9 DEF Next
<1> QED
  BY <1>1, <1>2, IInvHolds, PTL DEF Spec, KeepsPromise, Promise!Spec

\* Typing, for every value of the constants.
THEOREM TypeCorrect == Spec => []TypeOK
  BY IInvHolds, PTL DEF IInv

\* The claim file excludes, whatever the operators do: two threads are never
\* inside consume() for one capability.
THEOREM ClaimIsExclusiveHolds == Spec => []ClaimIsExclusive
  BY IInvHolds, PTL DEF IInv, Local

\* When the gate can always be evaluated, a gated request received under the
\* kill switch does not run while the switch stays engaged.
THEOREM HaltedDoesNotRunHolds == ASSUME ~GateCanFail PROVE Spec => []HaltedDoesNotRun
<1> DEFINE Stopped ==
      \A h \in Handlers : halted[h] =>
        killed /\ (pc[h] \in {"idle", "decide"} \/ (pc[h] = "run" /\ act[h] \in Ungated))
<1>1. Init => Stopped
  BY DEF Init
<1>2. TypeOK /\ Stopped /\ [Next]_vars => Stopped'
  <2> SUFFICES ASSUME TypeOK, Stopped, [Next]_vars PROVE Stopped'
    OBVIOUS
  <2> USE DEF TypeOK, Steps, handlerVars, request, operatorVars, history, runs, rulings, Continue, End, GoTo
  <2>1. ASSUME NEW h \in Handlers, Decide(h) PROVE Stopped'
    BY <2>1 DEF Decide, Verdicts
  <2>2. ASSUME NEW h \in Handlers, NEW a \in Actions, Receive(h, a) PROVE Stopped'
    BY <2>2 DEF Receive
  <2>3. ASSUME NEW h \in Handlers, HandlerStep(h), ~Decide(h) PROVE Stopped'
    BY <2>3 DEF HandlerStep, Scan, Request, Present, AnswerPending, Claim, Check,
       WriteConsumed, Unclaim, Run
  <2>4. CASE SwitchKill
    BY <2>4, Zenon DEF SwitchKill
  <2>5. CASE UNCHANGED vars
    BY <2>5 DEF vars
  <2> QED
    BY <2>1, <2>2, <2>3, <2>4, <2>5 DEF Next, Consider, Rule, Tick, Crash
<1>3. Stopped => HaltedDoesNotRun
  BY DEF HaltedDoesNotRun
<1> QED
  BY <1>1, <1>2, <1>3, TypeCorrect, PTL DEF Spec
=============================================================================
