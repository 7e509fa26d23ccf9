--------------------------- MODULE SpendCLIProofs ---------------------------
(***************************************************************************)
(* Proofs about SpendCLI, for any policy, any requests, any failures, and  *)
(* any number of clerks and operators at work at once.                     *)
(***************************************************************************)
EXTENDS SpendCLI, FiniteSetTheorems, TLAPS

-----------------------------------------------------------------------------
(* Types.                                                                  *)

\* Every request named anywhere was made.
Known ==
  /\ \A i \in 1 .. made : req[i] \in Asked
  /\ \A c \in Clerks : ~At(c, "idle") => clerk[c].id \in 1 .. made
  /\ \A o \in Operators : ~On(o, "idle") => oper[o].id \in 1 .. made
  /\ pending # None => pending \in 1 .. made

\* The budget gate of decide(), and the kill switch before it.
LEMMA AutonomousFits ==
  ASSUME NEW r \in Requests, NEW rest \in Int, NEW halt \in BOOLEAN,
         Verdict(Policy, r, rest, halt, None, None) = "autonomous"
  PROVE  ~halt /\ r.amount <= rest
<1>1. ~halt
  BY DEF Verdict
<1>2. ~NeedsOperator(Policy.bands[EffectiveBand(Policy, r, None)], r, rest)
  BY DEF Verdict
<1>3. r.amount \in Int /\ Magnitude(r.amount) \in Int /\ r.amount <= Magnitude(r.amount)
  BY DEF Requests, Magnitude
<1> QED
  BY <1>1, <1>2, <1>3 DEF NeedsOperator

LEMMA AmountType ==
  ASSUME Known, NEW i \in 1 .. made
  PROVE  req[i] \in Requests /\ Amount(i) \in Nat /\ Amount(i) > 0
<1>1. req[i] \in Asked
  BY DEF Known
<1>2. req[i] \in Requests /\ req[i].amount > 0
  BY <1>1, AskedAssumption
<1> QED
  BY <1>2 DEF Requests, Amount

ClerkRuns == [pc : ClerkSteps, id : Option(Ids), seen : Nat]
OperRuns  == [pc : OperSteps, id : Option(Ids), code : Nat]

LEMMA RunUpdates ==
  /\ \A run \in ClerkRuns, step \in ClerkSteps : [run EXCEPT !.pc = step] \in ClerkRuns
  /\ \A run \in OperRuns, step \in OperSteps : [run EXCEPT !.pc = step] \in OperRuns
  /\ Idle \in ClerkRuns /\ Free \in OperRuns
BY DEF ClerkRuns, OperRuns, Idle, Free, ClerkSteps, OperSteps, Option

\* What the helpers make of a run, field by field.
ClerkAt(c, step) ==
  /\ clerk' \in [Clerks -> ClerkRuns]
  /\ clerk'[c].pc = step /\ clerk'[c].id = clerk[c].id /\ clerk'[c].seen = clerk[c].seen
  /\ \A d \in Clerks \ {c} : clerk'[d] = clerk[d]
ClerkLeft(c) ==
  /\ clerk' \in [Clerks -> ClerkRuns]
  /\ clerk'[c].pc = "idle"
  /\ \A d \in Clerks \ {c} : clerk'[d] = clerk[d]
OperAt(o, step) ==
  /\ oper' \in [Operators -> OperRuns]
  /\ oper'[o].pc = step /\ oper'[o].id = oper[o].id
  /\ \A p \in Operators \ {o} : oper'[p] = oper[p]
OperLeft(o) ==
  /\ oper' \in [Operators -> OperRuns]
  /\ oper'[o].pc = "idle"
  /\ \A p \in Operators \ {o} : oper'[p] = oper[p]

LEMMA Moves ==
  ASSUME TypeOK
  PROVE  /\ \A c \in Clerks, step \in ClerkSteps : GoTo(c, step) => ClerkAt(c, step)
         /\ \A c \in Clerks : Leave(c) => ClerkLeft(c)
         /\ \A o \in Operators, step \in OperSteps : MoveTo(o, step) => OperAt(o, step)
         /\ \A o \in Operators : Finish(o) => OperLeft(o)
<1>1. clerk \in [Clerks -> ClerkRuns] /\ oper \in [Operators -> OperRuns]
  BY DEF TypeOK, ClerkRuns, OperRuns
<1>2. ASSUME NEW c \in Clerks, NEW step \in ClerkSteps, GoTo(c, step) PROVE ClerkAt(c, step)
  <2>1. clerk' = [clerk EXCEPT ![c] = [clerk[c] EXCEPT !.pc = step]]
    BY <1>2 DEF GoTo
  <2>2. [clerk[c] EXCEPT !.pc = step] \in ClerkRuns
    BY <1>1, RunUpdates
  <2> QED
    BY <1>1, <2>1, <2>2 DEF ClerkAt, ClerkRuns
<1>3. ASSUME NEW c \in Clerks, Leave(c) PROVE ClerkLeft(c)
  BY <1>1, <1>3, RunUpdates DEF Leave, ClerkLeft, Idle
<1>4. ASSUME NEW o \in Operators, NEW step \in OperSteps, MoveTo(o, step) PROVE OperAt(o, step)
  <2>1. oper' = [oper EXCEPT ![o] = [oper[o] EXCEPT !.pc = step]]
    BY <1>4 DEF MoveTo
  <2>2. [oper[o] EXCEPT !.pc = step] \in OperRuns
    BY <1>1, RunUpdates
  <2> QED
    BY <1>1, <2>1, <2>2 DEF OperAt, OperRuns
<1>5. ASSUME NEW o \in Operators, Finish(o) PROVE OperLeft(o)
  BY <1>1, <1>5, RunUpdates DEF Finish, OperLeft, Free
<1> QED
  BY <1>2, <1>3, <1>4, <1>5

LEMMA TypeInit == Init => TypeOK /\ Known
<1> SUFFICES ASSUME Init PROVE TypeOK /\ Known
  OBVIOUS
<1>1. clerk \in [Clerks -> ClerkRuns] /\ oper \in [Operators -> OperRuns]
  BY RunUpdates DEF Init
<1>2. ruled \in [Ids -> Seq({"approved", "denied"})]
  BY DEF Init
<1>3. killed \in BOOLEAN /\ aged \in SUBSET Ids /\ halted \in SUBSET Clerks
  BY DEF Init
<1>4. made \in 0 .. MaxRequests /\ req \in [Ids -> Option(Asked)]
  BY BoundAssumption DEF Init, Option
<1>5. TypeOK
  BY <1>1, <1>2, <1>3, <1>4 DEF Init, TypeOK, ClerkRuns, OperRuns, Option
<1>6. Known
  BY DEF Init, Known, At, On, Idle, Free
<1> QED
  BY <1>5, <1>6

\* The histories of what ran at once.
LEMMA RacesType ==
  ASSUME TypeOK, Known, [Next]_vars
  PROVE  /\ raced' \in Nat /\ behind' \in SUBSET Clerks
         /\ late' \in SUBSET Clerks /\ disputed' \in SUBSET Ids
<1> DEFINE Typed == /\ raced' \in Nat /\ behind' \in SUBSET Clerks
                    /\ late' \in SUBSET Clerks /\ disputed' \in SUBSET Ids
<1>0. /\ raced \in Nat /\ behind \in SUBSET Clerks
      /\ late \in SUBSET Clerks /\ disputed \in SUBSET Ids
  BY DEF TypeOK
<1>1. ASSUME UNCHANGED races PROVE Typed
  BY <1>0, <1>1 DEF races
<1>2. ASSUME NEW c \in Clerks, NEW r \in Asked, Begin(c, r) PROVE Typed
  BY <1>0, <1>2 DEF Begin
<1>3. ASSUME NEW c \in Clerks, Look(c) PROVE Typed
  <2>1. PICK amount \in Nat : amount = Amount(clerk[c].id)
    BY <1>3, AmountType DEF Look, Known, At
  <2>2. raced' = raced \/ raced' = raced + amount \/ raced' = raced + 0
    BY <1>3, <2>1 DEF Look, Grant
  <2>3. behind' \in SUBSET Clerks /\ UNCHANGED <<late, disputed>>
    BY <1>0, <1>3 DEF Look, Grant
  <2> QED
    BY <1>0, <2>2, <2>3
<1>4. ASSUME NEW c \in Clerks, ReadPending(c) \/ SetPending(c) PROVE Typed
  BY <1>0, <1>4 DEF ReadPending, SetPending
<1>5. ASSUME Take, pending # None PROVE Typed
  BY <1>0, <1>5 DEF Take, TypeOK, Option
<1>6. ASSUME NEW o \in Operators, OperStep(o) PROVE Typed
  <2>1. (Take /\ pending # None) \/ UNCHANGED races
    BY <1>6 DEF OperStep, ReadToApprove, ReadToDeny, ClearExpired, Check, Clear, Approve,
       BookApproved, ClearDenied, Deny, DieOper, ghosts
  <2> QED
    BY <1>1, <1>5, <2>1
<1>7. ASSUME NEW c \in Clerks, ClerkStep(c) PROVE Typed
  <2>1. CASE Book(c) \/ ClearStale(c) \/ SendChallenge(c) \/ Die(c)
    BY <1>1, <2>1 DEF Book, ClearStale, SendChallenge, Die, ghosts
  <2> QED
    BY <1>2, <1>3, <1>4, <1>7, <2>1 DEF ClerkStep
<1>8. CASE Kill \/ Resume \/ Age \/ Lapse \/ UNCHANGED vars
  BY <1>1, <1>8 DEF Kill, Resume, Age, Lapse, vars, ghosts
<1> QED
  BY <1>6, <1>7, <1>8 DEF Next

LEMMA TypeStep ==
  ASSUME TypeOK, Known, [Next]_vars
  PROVE  TypeOK' /\ Known'
<1> DEFINE Typed == TypeOK' /\ Known'
<1>0. /\ spent \in Nat /\ killed \in BOOLEAN /\ pending \in Option(Ids) /\ aged \in SUBSET Ids
      /\ made \in 0 .. MaxRequests /\ req \in [Ids -> Option(Asked)]
      /\ code \in Option(Nat) /\ codes \in Nat
      /\ clerk \in [Clerks -> ClerkRuns] /\ oper \in [Operators -> OperRuns]
      /\ granted \in Nat /\ approved \in Nat /\ lost \in Nat
      /\ ruled \in [Ids -> Seq({"approved", "denied"})] /\ halted \in SUBSET Clerks
  BY DEF TypeOK, ClerkRuns, OperRuns
<1>a. (1 .. made) \subseteq Ids /\ (made < MaxRequests => made + 1 \in Ids)
  BY <1>0, BoundAssumption DEF Ids
<1>r. raced' \in Nat /\ behind' \in SUBSET Clerks /\ late' \in SUBSET Clerks /\ disputed' \in SUBSET Ids
  BY RacesType
<1>1. CASE UNCHANGED vars
  BY <1>1 DEF vars, db, phone, ghosts, races, TypeOK, Known, At, On
<1>2. ASSUME NEW c \in Clerks, NEW r \in Asked, Begin(c, r) PROVE Typed
  <2>1. /\ clerk' \in [Clerks -> ClerkRuns] /\ clerk'[c].id = made + 1
        /\ \A d \in Clerks \ {c} : clerk'[d] = clerk[d]
    BY <1>0, <1>a, <1>2 DEF Begin, ClerkRuns, ClerkSteps, Option
  <2>2. made' \in 0 .. MaxRequests /\ req' \in [Ids -> Option(Asked)]
    BY <1>0, <1>a, BoundAssumption, <1>2 DEF Begin, Option
  <2>3. TypeOK'
    BY <1>0, <1>r, <1>2, <2>1, <2>2 DEF Begin, db, phone, TypeOK, ClerkRuns, OperRuns
  <2>4. Known'
    BY <1>0, <1>2, <2>1, BoundAssumption DEF Begin, db, Known, At, On, Ids
  <2> QED
    BY <2>3, <2>4
<1>3. ASSUME NEW c \in Clerks, Look(c) PROVE Typed
  <2>1. ClerkLeft(c) \/ ClerkAt(c, "pending") \/ ClerkAt(c, "book")
    BY <1>3, Moves DEF Look, ClerkSteps
  <2>2. req[clerk[c].id].amount \in Nat
    BY <1>3, AmountType DEF Look, Known, At, Amount
  <2>3. granted' \in Nat
    BY <1>0, <1>3, <2>2 DEF Look, Grant, Amount
  <2>4. TypeOK'
    BY <1>0, <1>r, <1>3, <2>1, <2>3 DEF Look, db, phone, TypeOK, ClerkLeft, ClerkAt, ClerkRuns, OperRuns
  <2>5. Known'
    BY <1>3, <2>1 DEF Look, db, Known, ClerkLeft, ClerkAt, At, On
  <2> QED
    BY <2>4, <2>5
<1>4. ASSUME NEW c \in Clerks, Book(c) PROVE Typed
  <2>1. ClerkLeft(c)
    BY <1>4, Moves DEF Book
  <2>2. clerk[c].id \in 1 .. made /\ Amount(clerk[c].id) \in Nat
    BY <1>4, AmountType DEF Book, Known, At
  <2>3. spent' \in Nat /\ lost' \in Nat
    BY <1>0, <1>4, <2>2 DEF Book, Lose
  <2>4. TypeOK'
    BY <1>0, <1>r, <1>4, <2>1, <2>3 DEF Book, phone, TypeOK, ClerkLeft, ClerkRuns, OperRuns
  <2>5. Known'
    BY <1>4, <2>1 DEF Book, Known, ClerkLeft, At, On
  <2> QED
    BY <2>4, <2>5
<1>5. ASSUME NEW c \in Clerks, ReadPending(c) PROVE Typed
  <2>1. ClerkLeft(c) \/ ClerkAt(c, "set") \/ ClerkAt(c, "stale")
    BY <1>5, Moves DEF ReadPending, ClerkSteps
  <2>4. TypeOK'
    BY <1>0, <1>r, <1>5, <2>1 DEF ReadPending, db, phone, ghosts, races, TypeOK, Option,
       ClerkLeft, ClerkAt, OperLeft, OperAt, ClerkRuns, OperRuns
  <2>5. Known'
    BY <1>0, <1>5, <2>1 DEF ReadPending, db, phone, ghosts, races, Known, At, On,
       ClerkLeft, ClerkAt, OperLeft, OperAt
  <2> QED
    BY <2>4, <2>5
<1>6. ASSUME NEW c \in Clerks, ClearStale(c) PROVE Typed
  <2>1. ClerkAt(c, "set")
    BY <1>6, Moves DEF ClearStale, ClerkSteps
  <2>4. TypeOK'
    BY <1>0, <1>r, <1>6, <2>1 DEF ClearStale, db, phone, ghosts, races, TypeOK, Option,
       ClerkLeft, ClerkAt, OperLeft, OperAt, ClerkRuns, OperRuns
  <2>5. Known'
    BY <1>0, <1>6, <2>1 DEF ClearStale, db, phone, ghosts, races, Known, At, On,
       ClerkLeft, ClerkAt, OperLeft, OperAt
  <2> QED
    BY <2>4, <2>5
<1>7. ASSUME NEW c \in Clerks, SetPending(c) PROVE Typed
  <2>1. ClerkLeft(c) \/ ClerkAt(c, "challenge")
    BY <1>7, Moves DEF SetPending, ClerkSteps
  <2>2. clerk[c].id \in Ids
    BY <1>a, <1>7 DEF SetPending, Known, At
  <2>3. pending' \in Option(Ids)
    BY <1>0, <1>7, <2>2 DEF SetPending, Option
  <2>4. TypeOK'
    BY <1>0, <1>r, <1>7, <2>1, <2>3 DEF SetPending, db, phone, ghosts, races, TypeOK, Option,
       ClerkLeft, ClerkAt, OperLeft, OperAt, ClerkRuns, OperRuns
  <2>5. Known'
    BY <1>0, <1>7, <2>1 DEF SetPending, db, phone, ghosts, races, Known, At, On,
       ClerkLeft, ClerkAt, OperLeft, OperAt
  <2> QED
    BY <2>4, <2>5
<1>8. ASSUME NEW c \in Clerks, SendChallenge(c) PROVE Typed
  <2>1. ClerkLeft(c)
    BY <1>8, Moves DEF SendChallenge
  <2>3. code' \in Option(Nat) /\ codes' \in Nat
    BY <1>0, <1>8 DEF SendChallenge, phone, Option
  <2>4. TypeOK'
    BY <1>0, <1>r, <1>8, <2>1, <2>3 DEF SendChallenge, db, phone, ghosts, races, TypeOK, Option,
       ClerkLeft, ClerkAt, OperLeft, OperAt, ClerkRuns, OperRuns
  <2>5. Known'
    BY <1>0, <1>8, <2>1 DEF SendChallenge, db, phone, ghosts, races, Known, At, On,
       ClerkLeft, ClerkAt, OperLeft, OperAt
  <2> QED
    BY <2>4, <2>5
<1>9. ASSUME NEW c \in Clerks, Die(c) PROVE Typed
  <2>1. ClerkLeft(c)
    BY <1>9, Moves DEF Die
  <2>2. clerk[c].id \in 1 .. made /\ Amount(clerk[c].id) \in Nat
    BY <1>9, AmountType DEF Die, Known, At
  <2>3. lost' \in Nat
    BY <1>0, <1>9, <2>2 DEF Die
  <2>4. TypeOK'
    BY <1>0, <1>r, <1>9, <2>1, <2>3 DEF Die, db, phone, ghosts, races, TypeOK, Option,
       ClerkLeft, ClerkAt, OperLeft, OperAt, ClerkRuns, OperRuns
  <2>5. Known'
    BY <1>0, <1>9, <2>1 DEF Die, db, phone, ghosts, races, Known, At, On,
       ClerkLeft, ClerkAt, OperLeft, OperAt
  <2> QED
    BY <2>4, <2>5
<1>10. ASSUME NEW o \in Operators, NEW k \in 0 .. codes, ReadToApprove(o, k) PROVE Typed
  <2>1. /\ oper' \in [Operators -> OperRuns] /\ oper'[o].id = pending
        /\ \A p \in Operators \ {o} : oper'[p] = oper[p]
    BY <1>0, <1>10 DEF ReadToApprove, OperRuns, OperSteps
  <2>2. TypeOK'
    BY <1>0, <1>r, <1>10, <2>1 DEF ReadToApprove, Take, db, phone, TypeOK, ClerkRuns, OperRuns
  <2>3. Known'
    BY <1>10, <2>1 DEF ReadToApprove, Take, db, Known, At, On
  <2> QED
    BY <2>2, <2>3
<1>11. ASSUME NEW o \in Operators, ReadToDeny(o) PROVE Typed
  <2>1. /\ oper' \in [Operators -> OperRuns] /\ oper'[o].id = pending
        /\ \A p \in Operators \ {o} : oper'[p] = oper[p]
    BY <1>0, <1>11 DEF ReadToDeny, OperRuns, OperSteps
  <2>2. TypeOK'
    BY <1>0, <1>r, <1>11, <2>1 DEF ReadToDeny, Take, db, phone, TypeOK, ClerkRuns, OperRuns
  <2>3. Known'
    BY <1>11, <2>1 DEF ReadToDeny, Take, db, Known, At, On
  <2> QED
    BY <2>2, <2>3
<1>12. ASSUME NEW o \in Operators, ClearExpired(o) PROVE Typed
  <2>1. OperLeft(o)
    BY <1>12, Moves DEF ClearExpired
  <2>4. TypeOK'
    BY <1>0, <1>r, <1>12, <2>1 DEF ClearExpired, db, phone, ghosts, races, TypeOK, Option,
       ClerkLeft, ClerkAt, OperLeft, OperAt, ClerkRuns, OperRuns
  <2>5. Known'
    BY <1>0, <1>12, <2>1 DEF ClearExpired, db, phone, ghosts, races, Known, At, On,
       ClerkLeft, ClerkAt, OperLeft, OperAt
  <2> QED
    BY <2>4, <2>5
<1>13. ASSUME NEW o \in Operators, Check(o) PROVE Typed
  <2>1. OperLeft(o) \/ OperAt(o, "clear")
    BY <1>13, Moves DEF Check, OperSteps
  <2>4. TypeOK'
    BY <1>0, <1>r, <1>13, <2>1 DEF Check, db, phone, ghosts, races, TypeOK, Option,
       ClerkLeft, ClerkAt, OperLeft, OperAt, ClerkRuns, OperRuns
  <2>5. Known'
    BY <1>0, <1>13, <2>1 DEF Check, db, phone, ghosts, races, Known, At, On,
       ClerkLeft, ClerkAt, OperLeft, OperAt
  <2> QED
    BY <2>4, <2>5
<1>14. ASSUME NEW o \in Operators, Clear(o) PROVE Typed
  <2>1. OperAt(o, "approved")
    BY <1>14, Moves DEF Clear, OperSteps
  <2>4. TypeOK'
    BY <1>0, <1>r, <1>14, <2>1 DEF Clear, db, phone, ghosts, races, TypeOK, Option,
       ClerkLeft, ClerkAt, OperLeft, OperAt, ClerkRuns, OperRuns
  <2>5. Known'
    BY <1>0, <1>14, <2>1 DEF Clear, db, phone, ghosts, races, Known, At, On,
       ClerkLeft, ClerkAt, OperLeft, OperAt
  <2> QED
    BY <2>4, <2>5
<1>15. ASSUME NEW o \in Operators, ClearDenied(o) PROVE Typed
  <2>1. OperAt(o, "denied")
    BY <1>15, Moves DEF ClearDenied, OperSteps
  <2>4. TypeOK'
    BY <1>0, <1>r, <1>15, <2>1 DEF ClearDenied, db, phone, ghosts, races, TypeOK, Option,
       ClerkLeft, ClerkAt, OperLeft, OperAt, ClerkRuns, OperRuns
  <2>5. Known'
    BY <1>0, <1>15, <2>1 DEF ClearDenied, db, phone, ghosts, races, Known, At, On,
       ClerkLeft, ClerkAt, OperLeft, OperAt
  <2> QED
    BY <2>4, <2>5
<1>16. ASSUME NEW o \in Operators, Approve(o) PROVE Typed
  <2>1. OperAt(o, "book")
    BY <1>16, Moves DEF Approve, OperSteps
  <2>2. oper[o].id \in 1 .. made /\ oper[o].id \in Ids /\ Amount(oper[o].id) \in Nat
    BY <1>a, <1>16, AmountType DEF Approve, Known, On
  <2>3. approved' \in Nat /\ ruled' \in [Ids -> Seq({"approved", "denied"})]
    BY <1>0, <1>16, <2>2 DEF Approve
  <2>4. TypeOK'
    BY <1>0, <1>r, <1>16, <2>1, <2>3 DEF Approve, db, phone, ghosts, races, TypeOK, Option,
       ClerkLeft, ClerkAt, OperLeft, OperAt, ClerkRuns, OperRuns
  <2>5. Known'
    BY <1>0, <1>16, <2>1 DEF Approve, db, phone, ghosts, races, Known, At, On,
       ClerkLeft, ClerkAt, OperLeft, OperAt
  <2> QED
    BY <2>4, <2>5
<1>17. ASSUME NEW o \in Operators, BookApproved(o) PROVE Typed
  <2>1. OperLeft(o)
    BY <1>17, Moves DEF BookApproved
  <2>2. oper[o].id \in 1 .. made /\ oper[o].id \in Ids /\ Amount(oper[o].id) \in Nat
    BY <1>a, <1>17, AmountType DEF BookApproved, Known, On
  <2>3. spent' \in Nat /\ lost' \in Nat
    BY <1>0, <1>17, <2>2 DEF BookApproved, Lose
  <2>4. TypeOK'
    BY <1>0, <1>r, <1>17, <2>1, <2>3 DEF BookApproved, db, phone, ghosts, races, TypeOK, Option,
       ClerkLeft, ClerkAt, OperLeft, OperAt, ClerkRuns, OperRuns
  <2>5. Known'
    BY <1>0, <1>17, <2>1 DEF BookApproved, db, phone, ghosts, races, Known, At, On,
       ClerkLeft, ClerkAt, OperLeft, OperAt
  <2> QED
    BY <2>4, <2>5
<1>18. ASSUME NEW o \in Operators, Deny(o) PROVE Typed
  <2>1. OperLeft(o)
    BY <1>18, Moves DEF Deny
  <2>2. oper[o].id \in 1 .. made /\ oper[o].id \in Ids /\ Amount(oper[o].id) \in Nat
    BY <1>a, <1>18, AmountType DEF Deny, Known, On
  <2>3. ruled' \in [Ids -> Seq({"approved", "denied"})]
    BY <1>0, <1>18, <2>2 DEF Deny
  <2>4. TypeOK'
    BY <1>0, <1>r, <1>18, <2>1, <2>3 DEF Deny, db, phone, ghosts, races, TypeOK, Option,
       ClerkLeft, ClerkAt, OperLeft, OperAt, ClerkRuns, OperRuns
  <2>5. Known'
    BY <1>0, <1>18, <2>1 DEF Deny, db, phone, ghosts, races, Known, At, On,
       ClerkLeft, ClerkAt, OperLeft, OperAt
  <2> QED
    BY <2>4, <2>5
<1>19. ASSUME NEW o \in Operators, DieOper(o) PROVE Typed
  <2>1. OperLeft(o)
    BY <1>19, Moves DEF DieOper
  <2>2. oper[o].id \in 1 .. made /\ oper[o].id \in Ids /\ Amount(oper[o].id) \in Nat
    BY <1>a, <1>19, AmountType DEF DieOper, Known, On
  <2>3. lost' \in Nat
    BY <1>0, <1>19, <2>2 DEF DieOper
  <2>4. TypeOK'
    BY <1>0, <1>r, <1>19, <2>1, <2>3 DEF DieOper, db, phone, ghosts, races, TypeOK, Option,
       ClerkLeft, ClerkAt, OperLeft, OperAt, ClerkRuns, OperRuns
  <2>5. Known'
    BY <1>0, <1>19, <2>1 DEF DieOper, db, phone, ghosts, races, Known, At, On,
       ClerkLeft, ClerkAt, OperLeft, OperAt
  <2> QED
    BY <2>4, <2>5
<1>20. CASE Kill \/ Resume \/ Age \/ Lapse
  <2>1. killed' \in BOOLEAN /\ halted' \in SUBSET Clerks
    BY <1>0, <1>20, Zenon DEF Kill, Resume, Age, Lapse, db, ghosts
  <2>2. aged' \in SUBSET Ids /\ code' \in Option(Nat)
    BY <1>0, <1>20 DEF Kill, Resume, Age, Lapse, db, phone, Option
  <2>3. UNCHANGED <<spent, pending, made, req, codes, clerk, oper, granted, approved, lost, ruled>>
    BY <1>20 DEF Kill, Resume, Age, Lapse, db, phone, ghosts
  <2>4. TypeOK'
    BY <1>0, <1>r, <2>1, <2>2, <2>3 DEF TypeOK, ClerkRuns, OperRuns
  <2>5. Known'
    BY <2>3 DEF Known, At, On
  <2> QED
    BY <2>4, <2>5
<1> QED
  BY <1>1, <1>2, <1>3, <1>4, <1>5, <1>6, <1>7, <1>8, <1>9, <1>10, <1>11, <1>12, <1>13, <1>14, <1>15, <1>16, <1>17, <1>18, <1>19, <1>20
  DEF Next, ClerkStep, OperStep

LEMMA TypesHold == Spec => [](TypeOK /\ Known)
BY TypeInit, TypeStep, PTL DEF Spec

\* Every variable of SpendCLI keeps its type.
THEOREM TypeCorrect == Spec => []TypeOK
BY TypesHold, PTL

-----------------------------------------------------------------------------
(* Accounting.                                                             *)

\* One element for every cent that a process of P is about to book.
Owed(P, run, asks) ==
  {u \in P \X Nat : run[u[1]].pc = "book" /\ u[2] \in 1 .. asks[run[u[1]].id].amount}

\* What one process owes, next to what others do.
LEMMA OwedSplits ==
  ASSUME NEW rest, IsFiniteSet(rest), NEW c, NEW a \in Nat, rest \cap ({c} \X (1 .. a)) = {}
  PROVE  /\ IsFiniteSet(rest \cup ({c} \X (1 .. a)))
         /\ Cardinality(rest \cup ({c} \X (1 .. a))) = Cardinality(rest) + a
<1> DEFINE own == {c} \X (1 .. a)
<1>1. IsFiniteSet(1 .. a) /\ Cardinality(1 .. a) = a
  BY FS_Interval
<1>2. IsFiniteSet({c}) /\ Cardinality({c}) = 1
  BY FS_Singleton
<1>3. IsFiniteSet(own) /\ Cardinality(own) = Cardinality({c}) * Cardinality(1 .. a)
  BY <1>1, <1>2, FS_Product, Zenon
<1>4. Cardinality(own) = a
  <2>1. Cardinality(own) = 1 * a
    BY <1>1, <1>2, <1>3, Zenon
  <2> QED
    BY <2>1
<1>5. Cardinality({}) = 0 /\ Cardinality(rest) \in Nat
  BY FS_EmptySet, FS_CardinalityType
<1> HIDE DEF own
<1>6. IsFiniteSet(rest \cup own)
      /\ Cardinality(rest \cup own)
           = Cardinality(rest) + Cardinality(own) - Cardinality(rest \cap own)
  BY <1>3, FS_Union
<1>7. rest \cap own = {}
  BY DEF own
<1> QED
  <2>1. IsFiniteSet(rest \cup own) /\ Cardinality(rest \cup own) = Cardinality(rest) + a
    <3>1. Cardinality(rest \cap own) = 0
      BY <1>5, <1>7, Zenon
    <3>2. Cardinality(rest \cup own) = Cardinality(rest) + a - 0
      BY <1>4, <1>6, <3>1, Zenon
    <3> QED
      BY <1>5, <1>6, <3>2
  <2> QED
    BY <2>1 DEF own

\* What a step of c does to what is owed, when the requests named stay.
LEMMA OwedChanges ==
  ASSUME NEW P, NEW c \in P, NEW run, NEW run2, NEW asks, NEW asks2,
         \A d \in P \ {c} : run2[d] = run[d],
         \A d \in P : run[d].pc = "book" => asks2[run[d].id] = asks[run[d].id],
         IsFiniteSet(Owed(P, run, asks))
  PROVE  /\ run[c].pc # "book" /\ run2[c].pc # "book" =>
              Owed(P, run2, asks2) = Owed(P, run, asks)
         /\ run[c].pc # "book" /\ run2[c].pc = "book" /\ asks2[run2[c].id].amount \in Nat =>
              /\ IsFiniteSet(Owed(P, run2, asks2))
              /\ Cardinality(Owed(P, run2, asks2))
                   = Cardinality(Owed(P, run, asks)) + asks2[run2[c].id].amount
         /\ run[c].pc = "book" /\ run2[c].pc # "book" /\ asks[run[c].id].amount \in Nat =>
              /\ IsFiniteSet(Owed(P, run2, asks2))
              /\ Cardinality(Owed(P, run, asks))
                   = Cardinality(Owed(P, run2, asks2)) + asks[run[c].id].amount
<1> DEFINE owed == Owed(P, run, asks)
           owed2 == Owed(P, run2, asks2)
<1>1. ASSUME run[c].pc # "book", run2[c].pc # "book" PROVE owed2 = owed
  BY <1>1 DEF Owed
<1>2. ASSUME run[c].pc # "book", run2[c].pc = "book", asks2[run2[c].id].amount \in Nat
      PROVE  /\ IsFiniteSet(owed2)
             /\ Cardinality(owed2) = Cardinality(owed) + asks2[run2[c].id].amount
  <2>1. owed2 = owed \cup ({c} \X (1 .. asks2[run2[c].id].amount))
    BY <1>2 DEF Owed
  <2>2. owed \cap ({c} \X (1 .. asks2[run2[c].id].amount)) = {}
    BY <1>2 DEF Owed
  <2> QED
    <3> DEFINE all == owed \cup ({c} \X (1 .. asks2[run2[c].id].amount))
    <3>1. IsFiniteSet(all) /\ Cardinality(all) = Cardinality(owed) + asks2[run2[c].id].amount
      BY <1>2, <2>2, OwedSplits
    <3> QED
      BY <2>1, <3>1
<1>3. ASSUME run[c].pc = "book", run2[c].pc # "book", asks[run[c].id].amount \in Nat
      PROVE  /\ IsFiniteSet(owed2)
             /\ Cardinality(owed) = Cardinality(owed2) + asks[run[c].id].amount
  <2>1. owed = owed2 \cup ({c} \X (1 .. asks[run[c].id].amount))
    BY <1>3 DEF Owed
  <2>2. owed2 \cap ({c} \X (1 .. asks[run[c].id].amount)) = {}
    BY <1>3 DEF Owed
  <2>3. IsFiniteSet(owed2)
    BY <2>1, FS_Subset
  <2> QED
    <3> DEFINE all == owed2 \cup ({c} \X (1 .. asks[run[c].id].amount))
    <3>1. Cardinality(all) = Cardinality(owed2) + asks[run[c].id].amount
      BY <1>3, <2>2, <2>3, OwedSplits
    <3> QED
      BY <2>1, <2>3, <3>1
<1> QED
  BY <1>1, <1>2, <1>3

ClerksOwe == Owed(Clerks, clerk, req)
OpersOwe  == Owed(Operators, oper, req)
Balance(s, l, x, y, g, p) == s + l + x + y = g + p

\* All that is granted or approved is booked, lost, or about to be booked.
Counted ==
  /\ IsFiniteSet(ClerksOwe) /\ IsFiniteSet(OpersOwe)
  /\ Balance(spent, lost, Cardinality(ClerksOwe), Cardinality(OpersOwe), granted, approved)
  /\ Cardinality(OpersOwe) <= approved

LEMMA Balances ==
  \A s, l, x, y, g, p, a \in Nat :
    /\ Balance(s, l, x, y, g, p) =>
         Balance(s, l, x + a, y, g + a, p) /\ Balance(s, l, x, y + a, g, p + a)
    /\ Balance(s, l, x + a, y, g, p) =>
         Balance(s + a, l, x, y, g, p) /\ Balance(s, l + a, x, y, g, p)
    /\ Balance(s, l, x, y + a, g, p) =>
         Balance(s + a, l, x, y, g, p) /\ Balance(s, l + a, x, y, g, p)
BY DEF Balance

LEMMA CountedStep ==
  ASSUME TypeOK, Known, Counted, [Next]_vars
  PROVE  Counted'
<1>0. spent \in Nat /\ lost \in Nat /\ granted \in Nat /\ approved \in Nat
  BY DEF TypeOK
<1>1. Cardinality(ClerksOwe) \in Nat /\ Cardinality(OpersOwe) \in Nat
  BY FS_CardinalityType DEF Counted
<1>2. /\ \A c \in Clerks : ~At(c, "idle") => Amount(clerk[c].id) \in Nat
      /\ \A o \in Operators : ~On(o, "idle") => Amount(oper[o].id) \in Nat
  BY AmountType DEF Known
<1>3. ASSUME UNCHANGED <<spent, lost, granted, approved>>,
             ClerksOwe' = ClerksOwe, OpersOwe' = OpersOwe
      PROVE  Counted'
  BY <1>3 DEF Counted
<1>4. ASSUME req' = req, clerk' = clerk PROVE ClerksOwe' = ClerksOwe
  BY <1>4 DEF ClerksOwe
<1>5. ASSUME req' = req, oper' = oper PROVE OpersOwe' = OpersOwe
  BY <1>5 DEF OpersOwe
<1>6. ASSUME NEW c \in Clerks, NEW r \in Asked, Begin(c, r) PROVE Counted'
  <2>1. \A i \in 1 .. made : req'[i] = req[i]
    BY <1>6 DEF Begin, TypeOK, Ids
  <2>2. /\ ~At(c, "book") /\ ~At(c, "book")' /\ oper' = oper
        /\ \A d \in Clerks \ {c} : clerk'[d] = clerk[d]
    BY <1>6 DEF Begin, At, TypeOK
  <2>3. \A d \in Clerks : At(d, "book") => req'[clerk[d].id] = req[clerk[d].id]
    BY <2>1 DEF Known, At
  <2>4. \A o \in Operators : On(o, "book") => req'[oper[o].id] = req[oper[o].id]
    BY <2>1 DEF Known, On
  <2>5. ClerksOwe' = ClerksOwe
    <3>1. clerk[c].pc # "book" /\ clerk'[c].pc # "book"
      BY <2>2 DEF At
    <3>2. \A d \in Clerks : clerk[d].pc = "book" => req'[clerk[d].id] = req[clerk[d].id]
      BY <2>3 DEF At
    <3>4. \A d \in Clerks \ {c} : clerk'[d] = clerk[d]
      BY <2>2
    <3> QED
      BY <3>1, <3>2, <3>4 DEF ClerksOwe, Owed
  <2>6. OpersOwe' = OpersOwe
    BY <2>2, <2>4 DEF OpersOwe, Owed, On
  <2> QED
    BY <1>3, <1>6, <2>5, <2>6 DEF Begin, db
<1>7. ASSUME NEW c \in Clerks, req' = req, oper' = oper,
             UNCHANGED <<spent, lost, granted, approved>>, ~At(c, "book"),
             \/ ClerkLeft(c)
             \/ \E step \in {"pending", "stale", "set", "challenge"} : ClerkAt(c, step)
      PROVE  Counted'
  <2>1. ClerksOwe' = ClerksOwe
    <3>1. /\ clerk[c].pc # "book" /\ clerk'[c].pc # "book"
          /\ \A d \in Clerks \ {c} : clerk'[d] = clerk[d]
      BY <1>7 DEF At, ClerkLeft, ClerkAt
    <3> QED
      BY <1>7, <3>1 DEF ClerksOwe, Owed
  <2> QED
    BY <1>3, <1>5, <1>7, <2>1
<1>8. ASSUME NEW c \in Clerks, req' = req, oper' = oper, UNCHANGED <<spent, lost, approved>>,
             At(c, "look"), ClerkAt(c, "book"), granted' = granted + Amount(clerk[c].id)
      PROVE  Counted'
  <2>1. PICK a \in Nat : a = Amount(clerk[c].id)
    BY <1>2, <1>8 DEF At
  <2>2. IsFiniteSet(ClerksOwe') /\ Cardinality(ClerksOwe') = Cardinality(ClerksOwe) + a
    BY <1>8, <2>1, OwedChanges DEF ClerksOwe, Counted, At, ClerkAt, Amount
  <2>3. OpersOwe' = OpersOwe
    BY <1>5, <1>8
  <2>4. granted' = granted + a
    BY <1>8, <2>1
  <2>5. Balance(spent, lost, Cardinality(ClerksOwe) + a, Cardinality(OpersOwe),
                granted + a, approved)
    BY <1>0, <1>1, Balances DEF Counted
  <2> QED
    BY <1>8, <2>2, <2>3, <2>4, <2>5 DEF Counted
<1>9. ASSUME NEW c \in Clerks, req' = req, oper' = oper, UNCHANGED <<granted, approved>>,
              At(c, "book"), ClerkLeft(c),
              \/ spent' = spent + Amount(clerk[c].id) /\ lost' = lost
              \/ lost' = lost + Amount(clerk[c].id) /\ spent' = spent
       PROVE  Counted'
  <2>1. PICK a \in Nat : a = Amount(clerk[c].id)
    BY <1>2, <1>9 DEF At
  <2>2. IsFiniteSet(ClerksOwe') /\ Cardinality(ClerksOwe) = Cardinality(ClerksOwe') + a
    BY <1>9, <2>1, OwedChanges DEF ClerksOwe, Counted, At, ClerkLeft, Amount
  <2>3. PICK x \in Nat : x = Cardinality(ClerksOwe')
    BY <2>2, FS_CardinalityType
  <2>4. OpersOwe' = OpersOwe
    BY <1>5, <1>9
  <2>5. Balance(spent, lost, x + a, Cardinality(OpersOwe), granted, approved)
    BY <2>2, <2>3 DEF Counted
  <2>6. /\ Balance(spent + a, lost, x, Cardinality(OpersOwe), granted, approved)
        /\ Balance(spent, lost + a, x, Cardinality(OpersOwe), granted, approved)
    BY <1>0, <1>1, <2>5, Balances
  <2> QED
    BY <1>9, <2>1, <2>2, <2>3, <2>4, <2>6 DEF Counted
<1>10. ASSUME NEW c \in Clerks, ClerkStep(c) PROVE Counted'
  <2>1. CASE \E r \in Asked : Begin(c, r)
    BY <1>6, <2>1
  <2>2. CASE Look(c)
    <3>1. \/ (ClerkLeft(c) \/ ClerkAt(c, "pending")) /\ granted' = granted
          \/ ClerkAt(c, "book") /\ granted' = granted + Amount(clerk[c].id)
      BY <2>2, Moves DEF Look, Grant, ClerkSteps, Amount
    <3>2. /\ req' = req /\ oper' = oper /\ UNCHANGED <<spent, lost, approved>>
          /\ At(c, "look") /\ ~At(c, "book")
      BY <2>2 DEF Look, db, At
    <3> QED
      BY <1>7, <1>8, <3>1, <3>2
  <2>3. CASE Book(c)
    BY <1>9, <2>3, Moves DEF Book, Lose
  <2>4. CASE ReadPending(c) \/ ClearStale(c) \/ SetPending(c) \/ SendChallenge(c)
    <3>1. ClerkLeft(c) \/ \E step \in {"pending", "stale", "set", "challenge"} : ClerkAt(c, step)
      BY <2>4, Moves DEF ReadPending, ClearStale, SetPending, SendChallenge, ClerkSteps
    <3>2. /\ req' = req /\ oper' = oper /\ UNCHANGED <<spent, lost, granted, approved>>
          /\ ~At(c, "book")
      BY <2>4 DEF ReadPending, ClearStale, SetPending, SendChallenge, db, ghosts, At
    <3> QED
      BY <1>7, <3>1, <3>2
  <2>5. CASE Die(c)
    <3>1. ClerkLeft(c) /\ req' = req /\ oper' = oper /\ UNCHANGED <<spent, granted, approved>>
      BY <2>5, Moves DEF Die, db
    <3>2. CASE At(c, "book")
      BY <1>9, <2>5, <3>1, <3>2 DEF Die
    <3>3. CASE ~At(c, "book")
      <4>1. lost' = lost
        BY <1>0, <2>5, <3>3 DEF Die
      <4> QED
        BY <1>7, <3>1, <3>3, <4>1
    <3> QED
      BY <3>2, <3>3
  <2> QED
    BY <1>10, <2>1, <2>2, <2>3, <2>4, <2>5 DEF ClerkStep
<1>11. ASSUME NEW o \in Operators, req' = req, clerk' = clerk,
              UNCHANGED <<spent, lost, granted, approved>>,
              oper'[o].pc # "book", ~On(o, "book"),
              \A p \in Operators \ {o} : oper'[p] = oper[p]
       PROVE  Counted'
  <2>1. OpersOwe' = OpersOwe
    BY <1>11 DEF OpersOwe, Owed, On
  <2> QED
    BY <1>3, <1>4, <1>11, <2>1
<1>12. ASSUME NEW o \in Operators, Approve(o) PROVE Counted'
  <2>1. PICK a \in Nat : a = Amount(oper[o].id)
    BY <1>2, <1>12 DEF Approve, On
  <2>2. /\ req' = req /\ clerk' = clerk /\ UNCHANGED <<spent, lost, granted>>
        /\ On(o, "approved") /\ OperAt(o, "book") /\ approved' = approved + a
    BY <1>12, <2>1, Moves DEF Approve, db, OperSteps
  <2>3. IsFiniteSet(OpersOwe') /\ Cardinality(OpersOwe') = Cardinality(OpersOwe) + a
    BY <2>1, <2>2, OwedChanges DEF OpersOwe, Counted, On, OperAt, Amount
  <2>4. ClerksOwe' = ClerksOwe
    BY <1>4, <2>2
  <2>5. Balance(spent, lost, Cardinality(ClerksOwe), Cardinality(OpersOwe) + a,
                granted, approved + a)
    BY <1>0, <1>1, Balances DEF Counted
  <2>6. Cardinality(OpersOwe) + a <= approved + a
    BY <1>0, <1>1 DEF Counted
  <2> QED
    BY <2>2, <2>3, <2>4, <2>5, <2>6 DEF Counted
<1>13. ASSUME NEW o \in Operators, req' = req, clerk' = clerk, UNCHANGED <<granted, approved>>,
              On(o, "book"), OperLeft(o),
              \/ spent' = spent + Amount(oper[o].id) /\ lost' = lost
              \/ lost' = lost + Amount(oper[o].id) /\ spent' = spent
       PROVE  Counted'
  <2>1. PICK a \in Nat : a = Amount(oper[o].id)
    BY <1>2, <1>13 DEF On
  <2>2. IsFiniteSet(OpersOwe') /\ Cardinality(OpersOwe) = Cardinality(OpersOwe') + a
    BY <1>13, <2>1, OwedChanges DEF OpersOwe, Counted, On, OperLeft, Amount
  <2>3. PICK y \in Nat : y = Cardinality(OpersOwe')
    BY <2>2, FS_CardinalityType
  <2>4. ClerksOwe' = ClerksOwe
    BY <1>4, <1>13
  <2>5. Balance(spent, lost, Cardinality(ClerksOwe), y + a, granted, approved)
    BY <2>2, <2>3 DEF Counted
  <2>6. /\ Balance(spent + a, lost, Cardinality(ClerksOwe), y, granted, approved)
        /\ Balance(spent, lost + a, Cardinality(ClerksOwe), y, granted, approved)
    BY <1>0, <1>1, <2>5, Balances
  <2>7. y <= approved
    BY <1>0, <2>2, <2>3 DEF Counted
  <2> QED
    BY <1>13, <2>1, <2>2, <2>3, <2>4, <2>6, <2>7 DEF Counted
<1>14. ASSUME NEW o \in Operators, OperStep(o) PROVE Counted'
  <2>1. CASE ReadToDeny(o) \/ \E k \in 0 .. codes : ReadToApprove(o, k)
    <3>1. /\ req' = req /\ clerk' = clerk /\ UNCHANGED <<spent, lost, granted, approved>>
          /\ ~On(o, "book")
      BY <2>1 DEF ReadToApprove, ReadToDeny, Take, db, On
    <3>2. oper'[o].pc # "book" /\ \A p \in Operators \ {o} : oper'[p] = oper[p]
      BY <2>1 DEF ReadToApprove, ReadToDeny, TypeOK
    <3> QED
      BY <1>11, <3>1, <3>2
  <2>2. CASE ClearExpired(o) \/ Check(o) \/ Clear(o) \/ ClearDenied(o) \/ Deny(o)
    <3>1. /\ req' = req /\ clerk' = clerk /\ UNCHANGED <<spent, lost, granted, approved>>
          /\ ~On(o, "book")
      BY <2>2 DEF ClearExpired, Check, Clear, ClearDenied, Deny, db, ghosts, On
    <3>2. OperLeft(o) \/ \E step \in {"clear", "approved", "denied"} : OperAt(o, step)
      BY <2>2, Moves DEF ClearExpired, Check, Clear, ClearDenied, Deny, OperSteps
    <3> QED
      BY <1>11, <3>1, <3>2 DEF OperLeft, OperAt
  <2>3. CASE Approve(o)
    BY <1>12, <2>3
  <2>4. CASE BookApproved(o)
    BY <1>13, <2>4, Moves DEF BookApproved, Lose
  <2>5. CASE DieOper(o)
    <3>1. OperLeft(o) /\ req' = req /\ clerk' = clerk /\ UNCHANGED <<spent, granted, approved>>
      BY <2>5, Moves DEF DieOper, db
    <3>2. CASE On(o, "book")
      BY <1>13, <2>5, <3>1, <3>2 DEF DieOper
    <3>3. CASE ~On(o, "book")
      <4>1. lost' = lost
        BY <1>0, <2>5, <3>3 DEF DieOper
      <4> QED
        BY <1>11, <3>1, <3>3, <4>1 DEF OperLeft
    <3> QED
      BY <3>2, <3>3
  <2> QED
    BY <1>14, <2>1, <2>2, <2>3, <2>4, <2>5 DEF OperStep
<1>15. CASE Kill \/ Resume \/ Age \/ Lapse \/ UNCHANGED vars
  <2>1. UNCHANGED <<spent, lost, granted, approved, clerk, oper, req>>
    BY <1>15 DEF Kill, Resume, Age, Lapse, vars, db, ghosts
  <2> QED
    BY <1>3, <1>4, <1>5, <2>1
<1> QED
  BY <1>10, <1>14, <1>15 DEF Next

LEMMA CountedInit == Init => Counted
<1> SUFFICES ASSUME Init PROVE Counted
  OBVIOUS
<1>1. ClerksOwe = {} /\ OpersOwe = {}
  BY DEF Init, ClerksOwe, OpersOwe, Owed, Idle, Free
<1> QED
  BY <1>1, FS_EmptySet DEF Init, Counted, Balance

\* However many clerks and operators run side by side, die or fail to write,
\* no process's accounting overwrites another's: at rest, what was spent or
\* lost is what was granted and approved.
THEOREM SpendIsCountedHolds == Spec => []SpendIsCounted
<1>1. Init => Counted
  BY CountedInit
<1>2. TypeOK /\ Known /\ Counted /\ [Next]_vars => Counted'
  BY CountedStep
<1>3. TypeOK /\ Counted => SpendIsCounted
  <2> SUFFICES ASSUME TypeOK, Counted, \A c \in Clerks : At(c, "idle"),
                      \A o \in Operators : On(o, "idle")
               PROVE  spent + lost = granted + approved
    BY DEF SpendIsCounted
  <2>1. ClerksOwe = {} /\ OpersOwe = {}
    BY DEF ClerksOwe, OpersOwe, Owed, At, On
  <2>2. Balance(spent, lost, 0, 0, granted, approved)
    BY <2>1, FS_EmptySet DEF Counted
  <2> QED
    BY <2>2 DEF Balance, TypeOK
<1> QED
  BY <1>1, <1>2, <1>3, TypesHold, PTL DEF Spec

-----------------------------------------------------------------------------
(* The session's budget.                                                   *)

\* While a clerk that is not behind looks at what it loaded, that is all that
\* was granted, but for what was lost.
Fresh ==
  \A c \in Clerks \ behind : At(c, "look") => granted <= clerk[c].seen + lost

\* What has been granted is booked or lost when no clerk is about to book.
LEMMA AllBooked ==
  ASSUME TypeOK, Counted, \A c \in Clerks : ~At(c, "book")
  PROVE  granted <= spent + lost
<1>1. ClerksOwe = {}
  BY DEF ClerksOwe, Owed, At
<1>2. PICK y \in Nat : y = Cardinality(OpersOwe)
  BY FS_CardinalityType DEF Counted
<1>3. Balance(spent, lost, 0, y, granted, approved) /\ y <= approved
  BY <1>1, <1>2, FS_EmptySet DEF Counted
<1> QED
  BY <1>2, <1>3 DEF Balance, TypeOK

\* Failures only add to what is lost.
LEMMA LossesGrow ==
  ASSUME TypeOK, Known, [Next]_vars
  PROVE  lost' \in Nat /\ lost' >= lost
<1>0. lost \in Nat
  BY DEF TypeOK
<1>1. /\ \A c \in Clerks : ~At(c, "idle") => Amount(clerk[c].id) \in Nat
      /\ \A o \in Operators : ~On(o, "idle") => Amount(oper[o].id) \in Nat
  BY AmountType DEF Known
<1>2. ASSUME lost' = lost PROVE lost' \in Nat /\ lost' >= lost
  BY <1>0, <1>2
<1>3. ASSUME NEW c \in Clerks, Book(c) \/ Die(c) PROVE lost' \in Nat /\ lost' >= lost
  <2>1. PICK a \in Nat : a = Amount(clerk[c].id)
    BY <1>1, <1>3 DEF Book, Die, At
  <2>2. lost' = lost \/ lost' = lost + a \/ lost' = lost + 0
    BY <1>3, <2>1 DEF Book, Die, Lose
  <2> QED
    BY <1>0, <2>2
<1>4. ASSUME NEW o \in Operators, BookApproved(o) \/ DieOper(o)
      PROVE  lost' \in Nat /\ lost' >= lost
  <2>1. PICK a \in Nat : a = Amount(oper[o].id)
    BY <1>1, <1>4 DEF BookApproved, DieOper, On
  <2>2. lost' = lost \/ lost' = lost + a \/ lost' = lost + 0
    BY <1>4, <2>1 DEF BookApproved, DieOper, Lose
  <2> QED
    BY <1>0, <2>2
<1> QED
  BY <1>2, <1>3, <1>4
  DEF Next, ClerkStep, OperStep, Begin, Look, ReadPending, ClearStale, SetPending, SendChallenge,
      ReadToApprove, ReadToDeny, Take, ClearExpired, Check, Clear, Approve, ClearDenied, Deny,
      Kill, Resume, Age, Lapse, vars, db, ghosts

\* A step that grants nothing.
LEMMA NoGrant ==
  ASSUME TypeOK, Known, GrantsWithinBudget, Fresh, [Next]_vars,
         granted' = granted, raced' = raced, behind \subseteq behind',
         \A c \in Clerks : clerk'[c] = clerk[c] \/ clerk'[c].pc # "look"
  PROVE  GrantsWithinBudget' /\ Fresh'
<1>1. /\ granted \in Nat /\ lost \in Nat /\ raced \in Nat /\ SessionCap \in Nat
      /\ lost' \in Nat /\ lost' >= lost
  BY LossesGrow, SessionCapAssumption DEF TypeOK
<1>2. granted <= SessionCap + lost' + raced
  <2>1. \A g, k, l, m, n \in Nat : g <= k + l + n /\ m >= l => g <= k + m + n
    OBVIOUS
  <2> QED
    BY <1>1, <2>1 DEF GrantsWithinBudget
<1>3. ASSUME NEW c \in Clerks, c \notin behind', clerk'[c].pc = "look"
      PROVE  granted' <= clerk'[c].seen + lost'
  <2>1. PICK seen \in Nat : seen = clerk[c].seen
    BY DEF TypeOK
  <2>2. clerk'[c] = clerk[c] /\ granted <= seen + lost
    BY <1>3, <2>1 DEF Fresh, At
  <2>3. granted <= seen + lost'
    BY <1>1, <2>1, <2>2
  <2> QED
    BY <2>1, <2>2, <2>3
<1>4. Fresh'
  BY <1>3 DEF Fresh, At
<1> QED
  BY <1>2, <1>4 DEF GrantsWithinBudget

LEMMA BudgetStep ==
  ASSUME TypeOK, Known, Counted, GrantsWithinBudget, Fresh, [Next]_vars
  PROVE  GrantsWithinBudget' /\ Fresh'
<1>0. /\ spent \in Nat /\ granted \in Nat /\ lost \in Nat /\ raced \in Nat
      /\ SessionCap \in Nat /\ clerk \in [Clerks -> ClerkRuns] /\ killed \in BOOLEAN
  BY SessionCapAssumption DEF TypeOK, ClerkRuns
<1>1. ASSUME NEW c \in Clerks, NEW r \in Asked, Begin(c, r)
      PROVE  GrantsWithinBudget' /\ Fresh'
  <2>1. /\ UNCHANGED <<granted, lost, raced>> /\ clerk'[c].seen = spent
        /\ \A d \in Clerks \ {c} : clerk'[d] = clerk[d] /\ (d \in behind' <=> d \in behind)
    BY <1>0, <1>1 DEF Begin
  <2>2. ASSUME c \notin behind' PROVE granted <= spent + lost
    BY <1>1, <2>2, AllBooked DEF Begin
  <2> QED
    BY <2>1, <2>2 DEF GrantsWithinBudget, Fresh, At
<1>2. ASSUME NEW c \in Clerks, Look(c), Grant(c), GoTo(c, "book"),
             Verdict(Policy, req[clerk[c].id], SessionCap - clerk[c].seen, killed, None, None)
               = "autonomous"
      PROVE  GrantsWithinBudget' /\ Fresh'
  <2>1. PICK seen \in Nat : seen = clerk[c].seen
    BY <1>0 DEF ClerkRuns
  <2>2. PICK a \in Nat : a = Amount(clerk[c].id) /\ a = req[clerk[c].id].amount
    BY <1>2, AmountType DEF Look, Known, At, Amount
  <2>3. a <= SessionCap - seen
    <3>1. req[clerk[c].id] \in Requests
      BY <1>2, AmountType DEF Look, Known, At
    <3>2. SessionCap - clerk[c].seen \in Int
      BY <1>0, <2>1
    <3> QED
      BY <1>0, <1>2, <2>1, <2>2, <3>1, <3>2, AutonomousFits
  <2>4. lost' = lost /\ granted' = granted + a
    BY <1>2, <2>2 DEF Look, Grant
  <2>5. granted + a <= SessionCap + lost + raced'
    <3>1. CASE c \in behind
      <4>1. raced' = raced + a
        BY <1>2, <2>2, <3>1 DEF Grant
      <4> QED
        BY <1>0, <4>1 DEF GrantsWithinBudget
    <3>2. CASE c \notin behind
      <4>1. raced' = raced + 0
        BY <1>2, <3>2 DEF Grant
      <4>2. granted <= seen + lost
        BY <1>2, <2>1, <3>2 DEF Look, Fresh
      <4> QED
        BY <1>0, <2>1, <2>3, <4>1, <4>2
    <3> QED
      BY <3>1, <3>2
  <2>6. \A d \in Clerks : clerk'[d].pc = "look" => d \in behind'
    <3>1. ClerkAt(c, "book")
      BY <1>2, Moves DEF ClerkSteps
    <3> QED
      BY <1>2, <3>1 DEF Grant, ClerkAt, At
  <2> QED
    BY <2>4, <2>5, <2>6 DEF GrantsWithinBudget, Fresh, At
<1>3. ASSUME NEW c \in Clerks, Look(c) PROVE GrantsWithinBudget' /\ Fresh'
  <2>1. CASE /\ ClerkLeft(c) \/ ClerkAt(c, "pending")
             /\ UNCHANGED <<granted, raced, behind>>
    <3>1. \A d \in Clerks : clerk'[d] = clerk[d] \/ clerk'[d].pc # "look"
      BY <2>1 DEF ClerkLeft, ClerkAt
    <3> QED
      BY <2>1, <3>1, NoGrant
  <2> QED
    BY <1>2, <1>3, <2>1, Moves DEF Look, ClerkSteps
<1>4. ASSUME NEW c \in Clerks, ClerkStep(c) PROVE GrantsWithinBudget' /\ Fresh'
  <2>1. CASE Book(c) \/ ReadPending(c) \/ ClearStale(c) \/ SetPending(c) \/ SendChallenge(c)
             \/ Die(c)
    <3>1. UNCHANGED <<granted, raced, behind>>
      BY <2>1 DEF Book, ReadPending, ClearStale, SetPending, SendChallenge, Die, ghosts, races
    <3>2. \/ ClerkLeft(c)
          \/ \E step \in {"set", "stale", "challenge"} : ClerkAt(c, step)
      BY <2>1, Moves DEF Book, ReadPending, ClearStale, SetPending, SendChallenge, Die, ClerkSteps
    <3>3. \A d \in Clerks : clerk'[d] = clerk[d] \/ clerk'[d].pc # "look"
      BY <3>2 DEF ClerkLeft, ClerkAt
    <3> QED
      BY <3>1, <3>3, NoGrant
  <2> QED
    BY <1>1, <1>3, <1>4, <2>1 DEF ClerkStep
<1>5. ASSUME NEW o \in Operators, OperStep(o) PROVE GrantsWithinBudget' /\ Fresh'
  <2>1. UNCHANGED <<granted, raced, behind, clerk>>
    BY <1>5 DEF OperStep, ReadToApprove, ReadToDeny, Take, ClearExpired, Check, Clear, Approve,
       BookApproved, ClearDenied, Deny, DieOper, ghosts, races
  <2> QED
    BY <2>1, NoGrant
<1>6. CASE Kill \/ Resume \/ Age \/ Lapse \/ UNCHANGED vars
  <2>1. UNCHANGED <<granted, raced, behind, clerk>>
    BY <1>6 DEF Kill, Resume, Age, Lapse, vars, ghosts, races
  <2> QED
    BY <2>1, NoGrant
<1> QED
  BY <1>4, <1>5, <1>6 DEF Next

\* However many clerks and operators are at work, and whatever fails, what the
\* CLI grants stays within the session's budget, what failures left unbooked
\* and what was granted on a budget loaded before another's grant was booked.
THEOREM GrantsWithinBudgetHolds == Spec => []GrantsWithinBudget
<1>1. Init => Counted
  BY CountedInit
<1>2. TypeOK /\ Known /\ Counted /\ [Next]_vars => Counted'
  BY CountedStep
<1>3. Init => GrantsWithinBudget /\ Fresh
  BY SessionCapAssumption DEF Init, GrantsWithinBudget, Fresh, At, Idle
<1>4. /\ TypeOK /\ Known /\ Counted /\ GrantsWithinBudget /\ Fresh
      /\ [Next]_vars
      => GrantsWithinBudget' /\ Fresh'
  BY BudgetStep
<1> QED
  BY <1>1, <1>2, <1>3, <1>4, TypesHold, PTL DEF Spec

-----------------------------------------------------------------------------
(* The pending row.                                                        *)

\* A clerk that has found the row empty, or stale, finds it so still: an
\* operator may have emptied it, but no other clerk has filled it, or the clerk
\* is late.
FoundFree ==
  \A c \in Clerks \ late :
    /\ At(c, "set") => pending = None
    /\ At(c, "stale") => pending = None \/ pending \in aged

LEMMA FoundFreeStep ==
  ASSUME TypeOK, FoundFree, [Next]_vars
  PROVE  FoundFree'
<1>1. ASSUME NEW c \in Clerks, late' = late, aged' = aged,
             pending' = pending \/ pending' = None,
             \A d \in Clerks \ {c} : clerk'[d] = clerk[d],
             clerk'[c].pc = "set" => pending' = None, clerk'[c].pc # "stale"
      PROVE  FoundFree'
  BY <1>1 DEF FoundFree, At
<1>2. ASSUME NEW c \in Clerks, ReadPending(c) PROVE FoundFree'
  <2>1. /\ late' = late \ {c} /\ UNCHANGED <<pending, aged>>
        /\ \/ ClerkLeft(c)
           \/ ClerkAt(c, "set") /\ pending = None
           \/ ClerkAt(c, "stale") /\ pending \in aged
    BY <1>2, Moves DEF ReadPending, ClerkSteps, db
  <2> QED
    BY <2>1 DEF FoundFree, At, ClerkLeft, ClerkAt
<1>3. ASSUME NEW c \in Clerks, SetPending(c) PROVE FoundFree'
  <2>1. CASE /\ ClerkAt(c, "challenge")
             /\ late' = late \cup {d \in Clerks \ {c} : At(d, "stale") \/ At(d, "set")}
    BY <2>1 DEF FoundFree, At, ClerkAt
  <2>2. CASE ClerkLeft(c) /\ UNCHANGED <<pending, late, aged>>
    BY <2>2 DEF FoundFree, At, ClerkLeft
  <2> QED
    BY <1>3, <2>1, <2>2, Moves DEF SetPending, ClerkSteps
<1>4. ASSUME NEW c \in Clerks, ClerkStep(c) PROVE FoundFree'
  <2>1. CASE \E r \in Asked : Begin(c, r)
    <3>1. /\ late' = late /\ UNCHANGED <<pending, aged>> /\ clerk'[c].pc = "look"
          /\ \A d \in Clerks \ {c} : clerk'[d] = clerk[d]
      BY <2>1 DEF Begin, db, TypeOK
    <3> QED
      BY <1>1, <3>1
  <2>2. CASE Look(c) \/ Book(c) \/ SendChallenge(c) \/ Die(c)
    <3>1. late' = late /\ UNCHANGED <<pending, aged>>
      BY <2>2 DEF Look, Book, SendChallenge, Die, db, ghosts, races
    <3>2. ClerkLeft(c) \/ \E step \in {"pending", "book"} : ClerkAt(c, step)
      BY <2>2, Moves DEF Look, Book, SendChallenge, Die, ClerkSteps
    <3> QED
      BY <1>1, <3>1, <3>2 DEF ClerkLeft, ClerkAt
  <2>3. CASE ClearStale(c)
    <3>1. late' = late /\ aged' = aged /\ pending' = None /\ ClerkAt(c, "set")
      BY <2>3, Moves DEF ClearStale, ClerkSteps, ghosts, races
    <3> QED
      BY <1>1, <3>1 DEF ClerkAt
  <2> QED
    BY <1>2, <1>3, <1>4, <2>1, <2>2, <2>3 DEF ClerkStep
<1>5. ASSUME NEW o \in Operators, OperStep(o) PROVE FoundFree'
  <2>1. /\ clerk' = clerk /\ late' = late /\ aged' = aged
        /\ pending' = pending \/ pending' = None
    BY <1>5 DEF OperStep, ReadToApprove, ReadToDeny, Take, ClearExpired, Check, Clear, Approve,
       BookApproved, ClearDenied, Deny, DieOper, db, ghosts, races
  <2> QED
    BY <2>1 DEF FoundFree, At
<1>6. CASE Kill \/ Resume \/ Age \/ Lapse \/ UNCHANGED vars
  BY <1>6 DEF Kill, Resume, Age, Lapse, vars, db, ghosts, races, FoundFree, At
<1> QED
  BY <1>4, <1>5, <1>6 DEF Next

\* However many clerks and operators are at work, an outstanding escalation is
\* neither discarded nor replaced by another request, unless that request's
\* clerk found the row free before the escalation was put there.
THEOREM EscalationNotReplacedHolds == Spec => EscalationNotReplaced
<1> DEFINE Kept == \A c \in Clerks \ late :
      pending # None /\ pending \notin aged /\ clerk'[c] # clerk[c] => pending' = pending
<1>1. Init => FoundFree
  BY DEF Init, FoundFree, At, Idle
<1>2. TypeOK /\ FoundFree /\ [Next]_vars => FoundFree'
  BY FoundFreeStep
<1>3. TypeOK /\ FoundFree /\ [Next]_vars => [Kept]_vars
  <2> SUFFICES ASSUME TypeOK, FoundFree, Next, NEW c \in Clerks \ late,
                      pending # None, pending \notin aged, clerk'[c] # clerk[c]
               PROVE  pending' = pending
    BY DEF vars
  <2>1. ASSUME NEW d \in Clerks, ClerkStep(d) PROVE d = c
    <3>1. CASE \E r \in Asked : Begin(d, r)
      BY <3>1 DEF Begin, TypeOK
    <3>2. CASE ClerkLeft(d) \/ \E step \in ClerkSteps : ClerkAt(d, step)
      BY <3>2 DEF ClerkLeft, ClerkAt
    <3> QED
      BY <2>1, <3>1, <3>2, Moves DEF ClerkStep, Look, Book, ReadPending, ClearStale, SetPending,
         SendChallenge, Die, ClerkSteps
  <2>2. ClerkStep(c)
    <3>1. \E d \in Clerks : ClerkStep(d)
      BY DEF Next, OperStep, ReadToApprove, ReadToDeny, Take, ClearExpired, Check, Clear, Approve,
         BookApproved, ClearDenied, Deny, DieOper, Kill, Resume, Age, Lapse
    <3> QED
      BY <2>1, <3>1
  <2>3. ~At(c, "set") /\ ~At(c, "stale")
    BY DEF FoundFree
  <2> QED
    BY <2>2, <2>3 DEF ClerkStep, Begin, Look, Book, ReadPending, ClearStale, SetPending,
       SendChallenge, Die, db
<1> QED
  BY <1>1, <1>2, <1>3, TypesHold, PTL DEF Spec, EscalationNotReplaced

-----------------------------------------------------------------------------
(* The kill switch.                                                        *)

\* A run that began under the switch as it is engaged ends without a grant,
\* whatever else goes on.
THEOREM HaltedGrantsNothingHolds == Spec => HaltedGrantsNothing
<1> DEFINE Kept ==
      \A c \in Clerks : c \in halted /\ clerk'[c] # clerk[c] => granted' = granted
    Engaged == halted # {} => killed
<1>1. Init => Engaged
  BY DEF Init
<1>2. Engaged /\ [Next]_vars => Engaged'
  BY DEF Next, vars, db, ghosts, ClerkStep, OperStep, Begin, Look, Book, ReadPending, Take,
     ClearStale, SetPending, SendChallenge, Die, ReadToApprove, ClearExpired, Check, Clear,
     Approve, BookApproved, ReadToDeny, ClearDenied, Deny, DieOper, Kill, Resume, Age, Lapse
<1>3. TypeOK /\ Known /\ Engaged /\ [Next]_vars => [Kept]_vars
  <2> SUFFICES ASSUME TypeOK, Known, Engaged, [Next]_vars PROVE Kept
    OBVIOUS
  <2>1. ASSUME NEW c \in Clerks, Look(c) PROVE Kept
    <3>1. CASE ~killed
      BY <3>1
    <3>2. CASE killed
      <4>1. Verdict(Policy, req[clerk[c].id], SessionCap - clerk[c].seen, killed, None, None)
              = "denied"
        BY <3>2 DEF Verdict
      <4> QED
        BY <2>1, <4>1 DEF Look
    <3> QED
      BY <3>1, <3>2
  <2>2. CASE granted' = granted
    BY <2>2
  <2> QED
    BY <2>1, <2>2
    DEF Next, vars, db, ghosts, ClerkStep, OperStep, Begin, Book, ReadPending, Take,
        ClearStale, SetPending, SendChallenge, Die, ReadToApprove, ClearExpired, Check, Clear,
        Approve, BookApproved, ReadToDeny, ClearDenied, Deny, DieOper, Kill, Resume, Age, Lapse
<1> QED
  BY <1>1, <1>2, <1>3, TypesHold, PTL DEF Spec, HaltedGrantsNothing

-----------------------------------------------------------------------------
(* Rulings.                                                                *)

Asking(c) == clerk[c].pc \in {"look", "pending", "stale", "set"}
Ruling(o) == oper[o].pc \in {"check", "clear", "approved", "deny", "denied"}
Ruled(o)  == oper[o].pc \in {"approved", "denied"}

\* A request that is asked for or pending has not been ruled on, nor one that
\* is in the hands of an operator who will rule on it, unless two have had it
\* in hand; and the row is cleared before the ruling.
Unruled ==
  /\ RuledOnce
  /\ \A i \in Ids \ (1 .. made) : ruled[i] = <<>>
  /\ pending # None => ruled[pending] = <<>>
  /\ \A c, d \in Clerks : Asking(c) /\ Asking(d) /\ c # d => clerk[c].id # clerk[d].id
  /\ \A c \in Clerks : Asking(c) =>
       /\ ruled[clerk[c].id] = <<>> /\ pending # clerk[c].id
       /\ \A o \in Operators : ~On(o, "idle") => oper[o].id # clerk[c].id
  /\ \A o \in Operators :
       /\ Ruling(o) /\ oper[o].id \notin disputed => ruled[oper[o].id] = <<>>
       /\ Ruled(o) => pending # oper[o].id
  /\ \A o, p \in Operators :
       Ruling(o) /\ Ruling(p) /\ o # p /\ oper[o].id = oper[p].id => oper[o].id \in disputed

LEMMA UnruledStep ==
  ASSUME TypeOK, Known, Unruled, [Next]_vars
  PROVE  Unruled'
<1>0. /\ clerk \in [Clerks -> ClerkRuns] /\ oper \in [Operators -> OperRuns]
      /\ made \in Nat /\ ruled \in [Ids -> Seq({"approved", "denied"})]
      /\ None \notin Ids
  BY NoneAssumption DEF TypeOK, ClerkRuns, OperRuns, Ids
<1>b. (1 .. made) \subseteq Ids /\ (made < MaxRequests => made + 1 \in Ids)
  BY BoundAssumption DEF TypeOK, Ids
<1>1. ASSUME NEW c \in Clerks, NEW r \in Asked, Begin(c, r) PROVE Unruled'
  <2>1. /\ clerk'[c].id = made + 1 /\ made' = made + 1
        /\ \A d \in Clerks \ {c} : clerk'[d] = clerk[d]
        /\ UNCHANGED <<pending, ruled, oper, disputed>>
    BY <1>0, <1>1 DEF Begin, db
  <2>2. made + 1 \in Ids \ (1 .. made) /\ 1 .. made \subseteq 1 .. made'
    BY <1>0, <1>1, <1>b, <2>1 DEF Begin
  <2>3. ruled[made + 1] = <<>> /\ pending # made + 1
    BY <1>0, <2>2 DEF Unruled, Known
  <2>4. \A d \in Clerks : Asking(d) => clerk[d].id # made + 1
    BY <2>2 DEF Asking, Known, At
  <2>5. \A o \in Operators : ~On(o, "idle") => oper[o].id # made + 1
    BY <2>2 DEF Known
  <2>6. \A d, e \in Clerks :
          Asking(d)' /\ Asking(e)' /\ d # e => clerk'[d].id # clerk'[e].id
    BY <2>1, <2>4 DEF Unruled, Asking
  <2>7. \A d \in Clerks : Asking(d)' =>
          /\ ruled[clerk'[d].id] = <<>> /\ pending # clerk'[d].id
          /\ \A o \in Operators : ~On(o, "idle") => oper[o].id # clerk'[d].id
    BY <2>1, <2>3, <2>5 DEF Unruled, Asking
  <2>8. \A i \in Ids \ (1 .. made') : ruled[i] = <<>>
    BY <2>2 DEF Unruled
  <2> QED
    BY <2>1, <2>6, <2>7, <2>8 DEF Unruled, RuledOnce, Ruling, Ruled, On
<1>2. ASSUME NEW c \in Clerks, UNCHANGED <<pending, ruled, oper, made, disputed>>,
             ClerkLeft(c) \/ \E step \in {"book", "challenge"} : ClerkAt(c, step)
      PROVE  Unruled'
  BY <1>2 DEF Unruled, RuledOnce, Asking, Ruling, Ruled, On, ClerkLeft, ClerkAt
<1>3. ASSUME NEW c \in Clerks, Asking(c), UNCHANGED <<ruled, oper, made, disputed>>,
             pending' = pending \/ pending' = None,
             \E step \in {"pending", "stale", "set"} : ClerkAt(c, step)
      PROVE  Unruled'
  <2>1. clerk[c].id # None
    BY <1>0, <1>3, <1>b DEF Known, At, Asking
  <2>2. \A o \in Operators : Ruled(o) => oper[o].id # None
    BY <1>0, <1>b DEF Known, On, Ruled
  <2>3. \A d \in Clerks : Asking(d) => clerk[d].id # None
    BY <1>0, <1>b DEF Known, At, Asking
  <2> QED
    BY <1>3, <2>1, <2>2, <2>3 DEF Unruled, RuledOnce, Asking, Ruling, Ruled, On, ClerkAt
<1>4. ASSUME NEW c \in Clerks, SetPending(c), pending' = clerk[c].id PROVE Unruled'
  <2>1. CASE pending' # pending
    <3>1. ClerkAt(c, "challenge") \/ ClerkLeft(c)
      BY <1>4, Moves DEF SetPending, ClerkSteps
    <3>2. Asking(c) /\ UNCHANGED <<ruled, oper, made, disputed>>
      BY <1>4 DEF SetPending, Asking, At, ghosts, races
    <3>3. \A o \in Operators : Ruled(o) => oper[o].id # clerk[c].id
      BY <3>2 DEF Unruled, Ruled, On
    <3> QED
      BY <1>4, <3>1, <3>2, <3>3 DEF Unruled, RuledOnce, Asking, Ruling, Ruled, On,
         ClerkLeft, ClerkAt
  <2>2. CASE pending' = pending
    BY <1>4, <2>2 DEF SetPending, Unruled, Asking, At
  <2> QED
    BY <2>1, <2>2
<1>5. ASSUME NEW c \in Clerks, ClerkStep(c) PROVE Unruled'
  <2>1. CASE \E r \in Asked : Begin(c, r)
    BY <1>1, <2>1
  <2>2. CASE Look(c) \/ Book(c) \/ SendChallenge(c) \/ Die(c)
    <3>1. UNCHANGED <<pending, ruled, oper, made, disputed>>
      BY <2>2 DEF Look, Book, SendChallenge, Die, db, ghosts, races
    <3>2. \/ ClerkLeft(c)
          \/ (\E step \in {"book"} : ClerkAt(c, step))
          \/ Asking(c) /\ ClerkAt(c, "pending")
      BY <2>2, Moves DEF Look, Book, SendChallenge, Die, ClerkSteps, Asking, At
    <3> QED
      BY <1>2, <1>3, <3>1, <3>2
  <2>3. CASE ReadPending(c) \/ ClearStale(c)
    <3>1. Asking(c) /\ UNCHANGED <<ruled, oper, made, disputed>> /\ (pending' = pending \/ pending' = None)
      BY <2>3 DEF ReadPending, ClearStale, db, ghosts, races, Asking, At
    <3>2. \/ ClerkLeft(c) /\ pending' = pending
          \/ \E step \in {"stale", "set"} : ClerkAt(c, step)
      BY <2>3, Moves DEF ReadPending, ClearStale, ClerkSteps, db
    <3> QED
      BY <1>2, <1>3, <3>1, <3>2
  <2>4. CASE SetPending(c)
    <3>1. CASE pending' = clerk[c].id
      BY <1>4, <2>4, <3>1
    <3>2. CASE pending' = pending /\ Leave(c)
      BY <1>2, <2>4, <3>2, Moves DEF SetPending, ghosts, races
    <3> QED
      BY <2>4, <3>1, <3>2 DEF SetPending
  <2> QED
    BY <1>5, <2>1, <2>2, <2>3, <2>4 DEF ClerkStep
<1>6. ASSUME NEW o \in Operators, On(o, "idle"), oper'[o].id = pending, pending # None,
             oper'[o].pc \in {"expired", "check", "deny"},
             \A p \in Operators \ {o} : oper'[p] = oper[p],
             UNCHANGED <<pending, ruled, clerk, made>>, disputed \subseteq disputed',
             \A p \in Operators : oper[p].id = pending /\ oper[p].pc \in {"check", "clear", "deny"}
               => pending \in disputed'
      PROVE  Unruled'
  <2>1. \A p \in Operators : Ruling(p) /\ oper[p].id = pending => pending \in disputed'
    BY <1>6 DEF Unruled, Ruling, Ruled
  <2>2. \A p \in Operators \ {o} : Ruling(p)' => Ruling(p)
    BY <1>6 DEF Ruling
  <2>3. \A p, q \in Operators :
          Ruling(p)' /\ Ruling(q)' /\ p # q /\ oper'[p].id = oper'[q].id => oper'[p].id \in disputed'
    <3>1. ASSUME NEW p \in Operators, NEW q \in Operators, Ruling(p)', Ruling(q)', p # q,
                 oper'[p].id = oper'[q].id
          PROVE  oper'[p].id \in disputed'
      BY <1>6, <2>1, <2>2, <3>1 DEF Unruled
    <3> QED
      BY <3>1
  <2>4. \A p \in Operators :
          /\ Ruling(p)' /\ oper'[p].id \notin disputed' => ruled[oper'[p].id] = <<>>
          /\ Ruled(p)' => pending # oper'[p].id
    BY <1>6, <2>2 DEF Unruled, Ruling, Ruled
  <2>5. RuledOnce'
    BY <1>6 DEF Unruled, RuledOnce
  <2>6. \A c \in Clerks : Asking(c) =>
          \A p \in Operators : ~On(p, "idle")' => oper'[p].id # clerk[c].id
    BY <1>6 DEF Unruled, On
  <2> QED
    BY <1>6, <2>3, <2>4, <2>5, <2>6 DEF Unruled, Asking
<1>7. ASSUME NEW o \in Operators, OperLeft(o), UNCHANGED <<ruled, clerk, made, disputed>>,
             pending' = pending \/ pending' = None
      PROVE  Unruled'
  <2>1. \A c \in Clerks : Asking(c) => clerk[c].id # None
    BY <1>0, <1>b DEF Known, At, Asking
  <2>2. ~Ruling(o)' /\ \A p \in Operators \ {o} : oper'[p] = oper[p]
    BY <1>7 DEF OperLeft, Ruling
  <2>3. \A p \in Operators :
          /\ Ruling(p)' /\ oper'[p].id \notin disputed => ruled[oper'[p].id] = <<>>
          /\ Ruled(p)' => pending # oper'[p].id /\ oper'[p].id # None
    BY <1>0, <1>b, <2>2 DEF Unruled, Known, On, Ruling, Ruled
  <2>4. \A p, q \in Operators :
          Ruling(p)' /\ Ruling(q)' /\ p # q /\ oper'[p].id = oper'[q].id => oper'[p].id \in disputed
    BY <2>2 DEF Unruled, Ruling
  <2>5. \A c \in Clerks : Asking(c) =>
          \A p \in Operators : ~On(p, "idle")' => oper'[p].id # clerk[c].id
    BY <1>7 DEF OperLeft, Unruled, On
  <2> QED
    BY <1>7, <2>1, <2>3, <2>4, <2>5 DEF Unruled, RuledOnce, Asking
<1>8. ASSUME NEW o \in Operators, Ruling(o), UNCHANGED <<ruled, clerk, made, disputed>>,
             \/ pending' = pending /\ OperAt(o, "clear")
             \/ pending' = None /\ \E step \in {"approved", "denied"} : OperAt(o, step)
      PROVE  Unruled'
  <2>1. \A c \in Clerks : Asking(c) => clerk[c].id # None
    BY <1>0, <1>b DEF Known, At, Asking
  <2>2. oper[o].id # None
    BY <1>0, <1>8, <1>b DEF Known, On, Ruling
  <2>3. /\ \A p \in Operators \ {o} : oper'[p] = oper[p]
        /\ oper'[o].id = oper[o].id /\ (Ruled(o)' => pending' = None)
    BY <1>8 DEF OperAt, Ruled
  <2>4. \A p \in Operators : (Ruling(p)' => Ruling(p)) /\ oper'[p].id = oper[p].id
    BY <1>8, <2>3 DEF Ruling
  <2>4a. \A p \in Operators :
          Ruling(p)' /\ oper'[p].id \notin disputed => ruled[oper'[p].id] = <<>>
    BY <2>4 DEF Unruled
  <2>4b. ASSUME NEW p \in Operators, Ruled(p)' PROVE pending' # oper'[p].id
    <3>1. CASE p = o
      BY <2>2, <2>3, <2>4b, <3>1
    <3>2. CASE p # o
      <4>1. Ruled(p) /\ oper'[p].id = oper[p].id
        BY <2>3, <2>4b, <3>2 DEF Ruled
      <4>2. oper[p].id # None
        BY <1>0, <1>b, <4>1 DEF Known, On, Ruled
      <4> QED
        BY <1>8, <4>1, <4>2 DEF Unruled
    <3> QED
      BY <3>1, <3>2
  <2>5. \A p \in Operators :
          /\ Ruling(p)' /\ oper'[p].id \notin disputed => ruled[oper'[p].id] = <<>>
          /\ Ruled(p)' => pending' # oper'[p].id
    BY <2>4a, <2>4b
  <2>6. \A p, q \in Operators :
          Ruling(p)' /\ Ruling(q)' /\ p # q /\ oper'[p].id = oper'[q].id => oper'[p].id \in disputed
    BY <2>4 DEF Unruled
  <2>7. \A c \in Clerks : Asking(c) =>
          \A p \in Operators : ~On(p, "idle")' => oper'[p].id # clerk[c].id
    BY <1>8, <2>3 DEF Unruled, On, Ruling
  <2> QED
    BY <1>8, <2>1, <2>5, <2>6, <2>7 DEF Unruled, RuledOnce, Asking
<1>9. ASSUME NEW o \in Operators, Ruled(o), UNCHANGED <<pending, clerk, made, disputed>>,
             NEW ruling \in {"approved", "denied"},
             ruled' = [ruled EXCEPT ![oper[o].id] = Append(@, ruling)],
             OperLeft(o) \/ OperAt(o, "book")
      PROVE  Unruled'
  <2> DEFINE i == oper[o].id
  <2>1. i \in 1 .. made /\ i \in Ids /\ pending # i /\ Ruling(o)
    BY <1>9, <1>b DEF Unruled, Known, Ruling, Ruled, On
  <2>2. i \notin disputed => ruled[i] = <<>>
    BY <2>1 DEF Unruled
  <2>3. \A j \in Ids \ {i} : ruled'[j] = ruled[j]
    BY <1>0, <1>9, <2>1
  <2>4. i \notin disputed => ruled'[i] = <<ruling>>
    <3>1. ruled'[i] = Append(ruled[i], ruling)
      BY <1>0, <1>9, <2>1
    <3>2. Append(<<>>, ruling) = <<ruling>>
      OBVIOUS
    <3> QED
      BY <2>2, <3>1, <3>2
  <2>5. RuledOnce'
    <3>1. \A j \in Ids \ {i} : j \notin disputed => Len(ruled'[j]) <= 1
      BY <2>3 DEF RuledOnce, Unruled
    <3>2. Len(<<ruling>>) <= 1
      OBVIOUS
    <3>3. i \notin disputed => Len(ruled'[i]) <= 1
      BY <2>4, <3>2
    <3> QED
      BY <1>9, <3>1, <3>3 DEF RuledOnce
  <2>6. pending # None => pending \in Ids
    BY <1>b DEF Known
  <2>7. \A c \in Clerks : Asking(c) => clerk[c].id \in Ids /\ clerk[c].id # i
    BY <1>9, <1>b DEF Known, At, Asking, Unruled, Ruled, On
  <2>8. /\ pending' # None => ruled'[pending'] = <<>>
        /\ \A j \in Ids \ (1 .. made') : ruled'[j] = <<>>
    BY <1>9, <2>1, <2>3, <2>6 DEF Unruled
  <2>9. \A c \in Clerks : Asking(c) => ruled'[clerk[c].id] = <<>>
    BY <2>3, <2>7 DEF Unruled
  <2>10. ~Ruling(o)' /\ \A p \in Operators \ {o} : oper'[p] = oper[p]
    BY <1>9 DEF OperLeft, OperAt, Ruling
  <2>11. \A p \in Operators \ {o} : Ruling(p) /\ oper[p].id \notin disputed =>
           oper[p].id \in Ids /\ oper[p].id # i
    BY <1>b, <2>1 DEF Unruled, Known, On, Ruling
  <2>12. \A p \in Operators : Ruling(p)' /\ oper'[p].id \notin disputed =>
           ruled'[oper'[p].id] = <<>>
    BY <2>3, <2>10, <2>11 DEF Unruled, Ruling
  <2>13. \A p \in Operators : Ruled(p)' => pending # oper'[p].id
    BY <2>10 DEF Unruled, Ruled, Ruling
  <2>14. \A p, q \in Operators :
           Ruling(p)' /\ Ruling(q)' /\ p # q /\ oper'[p].id = oper'[q].id => oper'[p].id \in disputed
    BY <2>10 DEF Unruled, Ruling
  <2>15. \A c \in Clerks : Asking(c) =>
           \A p \in Operators : ~On(p, "idle")' => oper'[p].id # clerk[c].id
    BY <1>9, <2>7, <2>10 DEF OperLeft, OperAt, On, Unruled
  <2> QED
    BY <1>9, <2>5, <2>8, <2>9, <2>12, <2>13, <2>14, <2>15 DEF Unruled, Asking
<1>10. ASSUME NEW o \in Operators, OperStep(o) PROVE Unruled'
  <2>1. CASE ReadToDeny(o) \/ \E k \in 0 .. codes : ReadToApprove(o, k)
    <3>1. /\ UNCHANGED <<pending, ruled, clerk, made>> /\ disputed \subseteq disputed'
          /\ \A p \in Operators : oper[p].id = pending /\ oper[p].pc \in {"check", "clear", "deny"}
               => pending \in disputed'
      BY <2>1 DEF ReadToApprove, ReadToDeny, Take, db
    <3>2. /\ On(o, "idle") /\ pending # None /\ oper'[o].id = pending
          /\ oper'[o].pc \in {"expired", "check", "deny"}
          /\ \A p \in Operators \ {o} : oper'[p] = oper[p]
      BY <1>0, <2>1 DEF ReadToApprove, ReadToDeny
    <3> QED
      BY <1>6, <3>1, <3>2
  <2>2. CASE ClearExpired(o) \/ BookApproved(o) \/ DieOper(o)
    BY <1>7, <2>2, Moves DEF ClearExpired, BookApproved, DieOper, db, ghosts, races
  <2>3. CASE Check(o)
    <3>1. UNCHANGED <<pending, ruled, clerk, made, disputed>> /\ Ruling(o)
      BY <2>3 DEF Check, db, ghosts, races, Ruling, On
    <3>2. OperLeft(o) \/ OperAt(o, "clear")
      BY <2>3, Moves DEF Check, OperSteps
    <3> QED
      BY <1>7, <1>8, <3>1, <3>2
  <2>4. CASE Clear(o) \/ ClearDenied(o)
    <3>1. UNCHANGED <<ruled, clerk, made, disputed>> /\ pending' = None /\ Ruling(o)
      BY <2>4 DEF Clear, ClearDenied, ghosts, races, Ruling, On
    <3>2. \E step \in {"approved", "denied"} : OperAt(o, step)
      BY <2>4, Moves DEF Clear, ClearDenied, OperSteps
    <3> QED
      BY <1>8, <3>1, <3>2
  <2>5. CASE Approve(o) \/ Deny(o)
    <3>1. UNCHANGED <<pending, clerk, made, disputed>> /\ Ruled(o)
      BY <2>5 DEF Approve, Deny, db, races, Ruled, On
    <3>2. \E ruling \in {"approved", "denied"} :
            ruled' = [ruled EXCEPT ![oper[o].id] = Append(@, ruling)]
      BY <2>5 DEF Approve, Deny
    <3>3. OperLeft(o) \/ OperAt(o, "book")
      BY <2>5, Moves DEF Approve, Deny, OperSteps
    <3> QED
      BY <1>9, <3>1, <3>2, <3>3
  <2> QED
    BY <1>10, <2>1, <2>2, <2>3, <2>4, <2>5 DEF OperStep
<1>11. CASE Kill \/ Resume \/ Age \/ Lapse \/ UNCHANGED vars
  <2>1. UNCHANGED <<pending, ruled, clerk, oper, made, disputed>>
    BY <1>11 DEF Kill, Resume, Age, Lapse, vars, db, ghosts, races
  <2> QED
    BY <2>1 DEF Unruled, RuledOnce, Asking, Ruling, Ruled, On
<1> QED
  BY <1>5, <1>10, <1>11 DEF Next

\* However many clerks and operators are at work, an escalation is ruled on
\* once at most unless two had it in hand at once, whatever expires, dies or is
\* replaced meanwhile.
THEOREM RuledOnceHolds == Spec => []RuledOnce
<1>1. Init => Unruled
  <2> SUFFICES ASSUME Init PROVE Unruled
    OBVIOUS
  <2>1. \A i \in Ids : ruled[i] = <<>>
    BY DEF Init
  <2>2. RuledOnce
    BY <2>1 DEF RuledOnce
  <2> QED
    BY <2>1, <2>2 DEF Init, Unruled, Asking, Ruling, Ruled, Idle, Free
<1>2. TypeOK /\ Known /\ Unruled /\ [Next]_vars => Unruled'
  BY UnruledStep
<1>3. Unruled => RuledOnce
  BY DEF Unruled
<1> QED
  BY <1>1, <1>2, <1>3, TypesHold, PTL DEF Spec
=============================================================================
