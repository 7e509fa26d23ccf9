---------------------------- MODULE RecordsProofs ----------------------------
(***************************************************************************)
(* Proofs about ReceiptChain and the UniversalLedger it is mirrored to,    *)
(* for any number of guards and clerks, a ledger file new or old, and      *)
(* whatever fails, dies or is left incomplete.                             *)
(***************************************************************************)
EXTENDS ReceiptChain, FiniteSetTheorems, SequenceTheorems, TLAPS

-----------------------------------------------------------------------------
(* The inductive invariant.                                                *)

Opening == {"closed", "columns", "alter", "install", "select", "failed"}
Writing == {"tip", "number", "insert"}
RowSet  == [event : Int, num : Nat \cup {None}, exact : BOOLEAN, of : Nat \cup {None},
            prev : Int \cup Procs \cup {None}]
ConnSet == [pc : Opening \cup Writing \cup {"open"}, origin : Procs \cup {0, None},
            event : Nat, of : Nat \cup {None}, exact : BOOLEAN,
            tip : Int \cup Procs \cup {None}, num : Nat \cup {None}]

LedgerTypes ==
  /\ table \in {"none", "old", "new"} /\ genesis \in Procs \cup {0, None}
  /\ rows \in Seq(RowSet) /\ writer \in Procs \cup {None}
  /\ conn \in [Procs -> ConnSet] /\ made \in Nat

\* Whoever has the ledger open has read the one genesis.
OneGenesis ==
  /\ \A p \in Procs :
       /\ conn[p].pc \in Opening => conn[p].origin = None
       /\ conn[p].pc \notin Opening => conn[p].origin = genesis
       /\ conn[p].pc \notin Opening \/ On(p, "select") => genesis # None
  /\ rows # <<>> => genesis # None

\* What the holder of the write lock has read is still so.
TipNow == IF rows = <<>> THEN genesis ELSE rows[Len(rows)].event
WriterReads ==
  \A p \in Procs :
    /\ conn[p].pc \in Writing <=> writer = p
    /\ conn[p].pc \in Writing => conn[p].event > 0
    /\ conn[p].pc \in {"number", "insert"} => conn[p].tip = TipNow
    /\ On(p, "insert") => conn[p].num = NextNumber

\* The old file's rows come first, and the numbers count the others.
NumberedFrom(b) ==
  /\ b <= Len(rows)
  /\ \A k \in DOMAIN rows :
       /\ k <= b => rows[k].event < 0 /\ rows[k].num = None
       /\ k > b => rows[k].event > 0 /\ rows[k].num = k - b
Numbered == \E b \in Nat : NumberedFrom(b)

LedgerInv == LedgerTypes /\ OneGenesis /\ WriterReads /\ Linked(genesis) /\ Numbered

GuardSteps == {"idle", "lock", "records", "key", "fill", "write", "open", "mirror", "close",
               "unlock"}
GuardSet == [pc : GuardSteps, id : Nat, prev : Nat, mirror : Mirrored \cup {FALSE}]
LineSet  == [id : Nat, prev : Nat, whole : BOOLEAN]

ChainTypes ==
  /\ key \in {"none", "empty", "whole"} /\ chain \in Seq(LineSet) /\ ended \in BOOLEAN
  /\ flock \in Guards \cup {None} /\ guard \in [Guards -> GuardSet] /\ decided \in Nat
  /\ answered \subseteq 1 .. decided /\ joined \subseteq 1 .. decided /\ stalled \in BOOLEAN

\* No two guards decide the same; what is written was decided.
Decisions ==
  /\ \A g \in Guards : ~At(g, "idle") => guard[g].id \in 1 .. decided
  /\ \A g, h \in Guards : ~At(g, "idle") /\ ~At(h, "idle") /\ guard[g].id = guard[h].id => g = h
  /\ \A k \in DOMAIN chain : chain[k].id \in 1 .. decided
  /\ ~ended => chain # <<>>

\* Who holds the lock is at work on the files; and nobody else, until a guard
\* has gone on without it.
Unlocked(g) == At(g, "idle") \/ At(g, "lock")
Excluded ==
  \A g \in Guards :
    /\ flock = g => ~Unlocked(g)
    /\ ~stalled /\ ~Unlocked(g) => flock = g

\* The chain as ChainHolds states it, and what a guard about to write has read
\* of it.
LastId == IF chain = <<>> THEN 0 ELSE chain[Len(chain)].id
Writes(g) == guard[g].pc \in {"key", "fill", "write"}
Extends ==
  ~stalled => \A g \in Guards : Writes(g) => Readable /\ guard[g].prev = LastId

\* A chain that took two lines for one is never read again.
JoinedOnce ==
  ~stalled =>
    \/ joined = {}
    \/ ~Readable /\ \E d, e \in Nat : joined = {d, e}

\* What a guard has written, or has answered, is in the chain, or joined.
Written(g)  == guard[g].pc \in {"open", "mirror", "close", "unlock"}
Recorded(d) == d \in joined \/ \E k \in DOMAIN chain : chain[k].id = d /\ chain[k].whole
AllRecorded ==
  /\ \A d \in answered : Recorded(d)
  /\ \A g \in Guards : Written(g) => Recorded(guard[g].id)
  /\ \A k \in DOMAIN rows : rows[k].of # None =>
       rows[k].of \in joined \/ \E n \in DOMAIN chain : chain[n].id = rows[k].of
LastWritten ==
  ~stalled => \A g \in Guards : Written(g) => guard[g].id \in joined \/ guard[g].id = LastId

\* A guard mirrors its own decision, while it is at that, and clerks mirror none;
\* what a guard has not mirrored yet is in no row.
Unmirrored(g) ==
  ~At(g, "idle") /\ (At(g, "close") \/ At(g, "unlock") => conn[g].pc \in Writing)
Mirrors ==
  /\ \A g \in Guards : conn[g].pc \in Writing => At(g, "close") /\ conn[g].of = guard[g].id
  /\ \A c \in Clerks : conn[c].pc \in Writing => conn[c].of = None
  /\ \A k \in DOMAIN rows : rows[k].of # None => rows[k].of \in 1 .. decided
  /\ \A g \in Guards : Unmirrored(g) => \A k \in DOMAIN rows : rows[k].of # guard[g].id

ChainInv ==
  /\ ChainTypes /\ Decisions /\ Excluded /\ ChainHolds /\ Extends
  /\ JoinedOnce /\ AllRecorded /\ LastWritten /\ Mirrors /\ MirrorInOrder

RInv == LedgerInv /\ ChainInv

-----------------------------------------------------------------------------
(* The ledger.                                                             *)

LEMMA TopOfCount == \A n \in Nat \ {0} : Max(1 .. n) = n
BY DEF Max

\* The numbers given are 1 up to the count of the rows numbered.
LEMMA NextIsFree ==
  ASSUME LedgerTypes, NEW b \in Nat, NumberedFrom(b)
  PROVE  NextNumber = Len(rows) - b + 1
<1> DEFINE n == Len(rows) - b
<1>0. n \in Nat /\ Len(rows) \in Nat /\ DOMAIN rows = 1 .. Len(rows)
  BY DEF LedgerTypes, NumberedFrom
<1>1. \A k \in DOMAIN rows : k \in Nat /\ (rows[k].num # None => rows[k].num = k - b /\ k > b)
  BY <1>0 DEF NumberedFrom
<1>2. ASSUME NEW i \in 1 .. n PROVE \E k \in DOMAIN rows : rows[k].num = i /\ i # None
  <2>1. b + i \in DOMAIN rows /\ b + i > b /\ (b + i) - b = i
    BY <1>0
  <2> QED
    BY <2>1, LedgerAssumption DEF NumberedFrom
<1>3. Numbers = 1 .. n
  <2>1. Numbers \subseteq 1 .. n
    BY <1>0, <1>1 DEF Numbers
  <2>2. 1 .. n \subseteq Numbers
    BY <1>2 DEF Numbers
  <2> QED
    BY <2>1, <2>2
<1>4. CASE n = 0
  BY <1>3, <1>4, <1>0 DEF NextNumber
<1>5. CASE n # 0
  <2>1. Max(1 .. n) = n /\ 1 .. n # {}
    <3>1. n \in Nat /\ n # 0
      BY <1>0, <1>5
    <3> HIDE DEF n
    <3>2. n \in Nat \ {0} /\ 1 \in 1 .. n
      BY <3>1
    <3> QED
      BY <3>2, TopOfCount
  <2> QED
    BY <1>3, <2>1 DEF NextNumber
<1> QED
  BY <1>4, <1>5

LEMMA ConnUpdates ==
  ASSUME NEW c \in ConnSet
  PROVE  /\ \A pc \in Opening \cup Writing \cup {"open"} :
              /\ [c EXCEPT !.pc = pc] \in ConnSet
              /\ [Closed EXCEPT !.pc = pc, !.origin = c.origin] \in ConnSet
         /\ Closed \in ConnSet
<1>1. ASSUME NEW pc \in Opening \cup Writing \cup {"open"} PROVE [c EXCEPT !.pc = pc] \in ConnSet
  BY DEF ConnSet
<1>2. Closed \in ConnSet
  BY DEF ConnSet, Closed, Opening
<1>3. ASSUME NEW pc \in Opening \cup Writing \cup {"open"}
      PROVE  [Closed EXCEPT !.pc = pc, !.origin = c.origin] \in ConnSet
  <2>1. c.origin \in Procs \cup {0, None}
    BY DEF ConnSet
  <2> QED
    BY <1>2, <2>1 DEF ConnSet
<1> QED
  BY <1>1, <1>2, <1>3

\* A statement of p that leaves the rows as they are.
LEMMA QuietStep ==
  ASSUME LedgerInv, NEW p \in Procs, NEW c \in ConnSet, conn' = [conn EXCEPT ![p] = c],
         rows' = rows, table' \in {"none", "old", "new"}, made' \in Nat,
         genesis' \in Procs \cup {0, None}, writer' \in Procs \cup {None},
         genesis' = genesis \/ genesis = None,
         c.pc \in Opening => c.origin = None,
         c.pc \notin Opening => c.origin = genesis /\ genesis' = genesis,
         c.pc \notin Opening \/ c.pc = "select" => genesis' # None,
         \A q \in Procs \ {p} : writer' = q <=> writer = q,
         c.pc \in Writing <=> writer' = p,
         c.pc \in Writing => c.event > 0,
         c.pc \in {"number", "insert"} => c.tip = TipNow,
         c.pc = "insert" => c.num = NextNumber
  PROVE  LedgerInv'
<1>0. conn'[p] = c /\ \A q \in Procs \ {p} : conn'[q] = conn[q]
  BY DEF LedgerInv, LedgerTypes
<1>1. LedgerTypes'
  BY DEF LedgerInv, LedgerTypes
<1>2. genesis' # genesis => genesis = None /\ rows = <<>>
  BY DEF LedgerInv, OneGenesis
<1>3. OneGenesis'
  BY <1>0, <1>2 DEF LedgerInv, OneGenesis, On
<1>4. WriterReads'
  <2>1. NextNumber' = NextNumber
    BY DEF NextNumber, Numbers
  <2>2. ASSUME NEW q \in Procs, conn'[q].pc \in {"number", "insert"} PROVE TipNow' = TipNow
    <3>1. conn'[q].pc \notin Opening
      BY <2>2 DEF Opening
    <3>2. genesis' = genesis
      BY <1>0, <1>2, <3>1 DEF LedgerInv, OneGenesis
    <3> QED
      BY <3>2 DEF TipNow
  <2> QED
    BY <1>0, <2>1, <2>2 DEF LedgerInv, WriterReads, On
<1>5. Linked(genesis)'
  BY <1>2 DEF LedgerInv, Linked
<1>6. Numbered'
  BY DEF LedgerInv, Numbered, NumberedFrom
<1> QED
  BY <1>1, <1>3, <1>4, <1>5, <1>6 DEF LedgerInv

LEMMA InsertStep ==
  ASSUME LedgerInv, NEW p \in Procs, Insert(p)
  PROVE  LedgerInv'
<1> DEFINE c == conn[p]
           row == Row(c)
           rest == [Closed EXCEPT !.pc = "open", !.origin = c.origin]
<1>0. c \in ConnSet /\ rows \in Seq(RowSet) /\ c.pc = "insert" /\ writer = p
  BY DEF LedgerInv, LedgerTypes, Insert, On, WriterReads, Writing
<1>1. row \in RowSet /\ row.event > 0 /\ row.prev = TipNow /\ row.num = NextNumber
  BY <1>0 DEF LedgerInv, WriterReads, Row, RowSet, ConnSet, On, Writing
<1>2. rest \in ConnSet /\ rest.pc = "open" /\ rest.origin = genesis /\ genesis # None
  <2>1. c.origin = genesis /\ genesis # None
    BY <1>0 DEF LedgerInv, OneGenesis, Opening
  <2>2. rest \in ConnSet
    BY <1>0, ConnUpdates
  <2> QED
    BY <2>1, <2>2 DEF Closed
<1>3. conn' = [conn EXCEPT ![p] = rest] /\ rows' = Append(rows, row)
  BY DEF Insert, Rest
<1> HIDE DEF row, rest
<1>4. /\ rows' \in Seq(RowSet) /\ Len(rows') = Len(rows) + 1 /\ Len(rows) \in Nat
      /\ DOMAIN rows = 1 .. Len(rows) /\ DOMAIN rows' = 1 .. Len(rows')
      /\ \A k \in DOMAIN rows : rows'[k] = rows[k]
      /\ rows'[Len(rows')] = row
  BY <1>0, <1>1, <1>3
<1>5. conn'[p] = rest /\ \A q \in Procs \ {p} : conn'[q] = conn[q]
  BY <1>3 DEF LedgerInv, LedgerTypes
<1>6. LedgerTypes'
  BY <1>2, <1>3, <1>4 DEF LedgerInv, LedgerTypes, Insert
<1>7. OneGenesis'
  BY <1>2, <1>5 DEF LedgerInv, OneGenesis, Insert, On, Opening
<1>8. WriterReads'
  BY <1>0, <1>2, <1>5, LedgerAssumption DEF LedgerInv, WriterReads, Insert, On, Writing
<1>9. Linked(genesis)'
  <2>1. row.prev = IF Len(rows') = 1 THEN genesis ELSE rows[Len(rows') - 1].event
    BY <1>0, <1>1, <1>4 DEF TipNow
  <2> QED
    BY <1>4, <2>1 DEF LedgerInv, Linked, Insert
<1>10. Numbered'
  <2>1. PICK b \in Nat : NumberedFrom(b)
    BY DEF LedgerInv, Numbered
  <2>2. row.num = Len(rows) - b + 1
    BY <1>1, <2>1, NextIsFree DEF LedgerInv
  <2>3. NumberedFrom(b)'
    BY <1>1, <1>4, <2>1, <2>2 DEF NumberedFrom
  <2> QED
    BY <2>3 DEF Numbered
<1> QED
  BY <1>6, <1>7, <1>8, <1>9, <1>10 DEF LedgerInv

\* Whatever a process does with the ledger.
LedgerMove(p) ==
  \/ Connect(p) \/ Close(p) \/ Drop(p) \/ LedgerStep(p)
  \/ \E of \in Nat \cup {None}, exact \in BOOLEAN : Begin(p, of, exact)

LEMMA LedgerMoves ==
  ASSUME LedgerInv, NEW p \in Procs, LedgerMove(p)
  PROVE  LedgerInv'
<1>0. /\ conn \in [Procs -> ConnSet] /\ conn[p] \in ConnSet /\ p # None
      /\ table \in {"none", "old", "new"} /\ genesis \in Procs \cup {0, None}
      /\ writer \in Procs \cup {None} /\ made \in Nat /\ rows \in Seq(RowSet)
  BY LedgerAssumption DEF LedgerInv, LedgerTypes
<1>1. ASSUME NEW pc \in Opening \cup Writing \cup {"open"}, To(p, pc)
      PROVE  \E c \in ConnSet : /\ conn' = [conn EXCEPT ![p] = c]
                                /\ c = [conn[p] EXCEPT !.pc = pc]
  <2>1. [conn[p] EXCEPT !.pc = pc] \in ConnSet
    BY <1>0, ConnUpdates
  <2> QED
    BY <1>0, <1>1, <2>1 DEF To
<1>2. CASE Connect(p)
  <2>1. PICK c \in ConnSet : conn' = [conn EXCEPT ![p] = c] /\ c = [conn[p] EXCEPT !.pc = "columns"]
    BY <1>1, <1>2 DEF Connect, Opening
  <2>2. c.pc = "columns" /\ c.origin = None /\ writer # p
    BY <1>0, <1>2, <2>1 DEF Connect, On, LedgerInv, OneGenesis, WriterReads, Opening, Writing, ConnSet
  <2> QED
    BY <1>0, <1>2, <2>1, <2>2, QuietStep DEF Connect, Opening, Writing
<1>3. CASE Columns(p)
  <2>1. PICK pc \in {"alter", "install"} : To(p, pc)
    BY <1>3 DEF Columns
  <2>2. PICK c \in ConnSet : conn' = [conn EXCEPT ![p] = c] /\ c = [conn[p] EXCEPT !.pc = pc]
    BY <1>1, <2>1 DEF Opening
  <2>3. c.pc = pc /\ c.origin = None /\ writer # p
    BY <1>0, <1>3, <2>2 DEF Columns, On, LedgerInv, OneGenesis, WriterReads, Opening, Writing, ConnSet
  <2> QED
    BY <1>0, <1>3, <2>2, <2>3, QuietStep DEF Columns, Opening, Writing
<1>4. CASE Alter(p)
  <2>1. PICK pc \in {"failed", "install"} : To(p, pc)
    BY <1>4 DEF Alter
  <2>2. PICK c \in ConnSet : conn' = [conn EXCEPT ![p] = c] /\ c = [conn[p] EXCEPT !.pc = pc]
    BY <1>1, <2>1 DEF Opening
  <2>3. c.pc = pc /\ c.origin = None
    BY <1>0, <1>4, <2>2 DEF Alter, On, LedgerInv, OneGenesis, Opening, ConnSet
  <2> QED
    BY <1>0, <1>4, <2>2, <2>3, QuietStep DEF Alter, Opening, Writing
<1>5. CASE Install(p)
  <2>1. PICK c \in ConnSet : conn' = [conn EXCEPT ![p] = c] /\ c = [conn[p] EXCEPT !.pc = "select"]
    BY <1>1, <1>5 DEF Install, Opening
  <2>2. c.pc = "select" /\ c.origin = None
    BY <1>0, <1>5, <2>1 DEF Install, On, LedgerInv, OneGenesis, Opening, ConnSet
  <2>3. /\ genesis' \in Procs \cup {0, None} /\ genesis' # None
        /\ (genesis' = genesis \/ genesis = None)
    BY <1>0, <1>5 DEF Install
  <2> QED
    BY <1>0, <1>5, <2>1, <2>2, <2>3, QuietStep DEF Install, Opening, Writing
<1>6. CASE Select(p)
  <2> DEFINE c == [conn[p] EXCEPT !.pc = "open", !.origin = genesis]
  <2>1. conn' = [conn EXCEPT ![p] = c]
    BY <1>0, <1>6 DEF Select
  <2>2. c \in ConnSet /\ c.pc = "open" /\ c.origin = genesis
    BY <1>0 DEF ConnSet
  <2>3. genesis # None /\ writer # p
    BY <1>6 DEF Select, On, LedgerInv, OneGenesis, WriterReads, Writing
  <2> HIDE DEF c
  <2> QED
    BY <1>0, <1>6, <2>1, <2>2, <2>3, QuietStep DEF Select, Opening, Writing
<1>7. ASSUME NEW of \in Nat \cup {None}, NEW exact \in BOOLEAN, Begin(p, of, exact)
      PROVE  LedgerInv'
  <2>1. PICK e \in Nat : e = made + 1 /\ e > 0
    BY <1>0
  <2> DEFINE c == [conn[p] EXCEPT !.pc = "tip", !.event = e, !.of = of,
                                  !.exact = exact, !.num = None]
  <2>2. conn' = [conn EXCEPT ![p] = c] /\ made' = e /\ writer' = p /\ writer = None
    BY <1>0, <1>7, <2>1 DEF Begin
  <2>3. c \in ConnSet
    BY <1>0 DEF ConnSet, Writing
  <2>4. c.pc = "tip" /\ c.origin = conn[p].origin /\ c.event = e
    BY <1>0 DEF ConnSet
  <2>5. c.origin = genesis /\ genesis # None
    BY <1>7, <2>4 DEF Begin, On, LedgerInv, OneGenesis, Opening
  <2>6. rows' = rows /\ table' = table /\ genesis' = genesis
    BY <1>7 DEF Begin
  <2>7. \A q \in Procs \ {p} : writer' = q <=> writer = q
    BY <2>2, LedgerAssumption
  <2> HIDE DEF c
  <2> QED
    BY <1>0, <2>1, <2>2, <2>3, <2>4, <2>5, <2>6, <2>7, QuietStep DEF Opening, Writing
<1>8. CASE Tip(p)
  <2> DEFINE c == [conn[p] EXCEPT !.pc = "number", !.tip = TipNow]
  <2>1. conn[p].origin = genesis /\ genesis # None /\ writer = p /\ conn[p].event > 0
    BY <1>8 DEF Tip, On, LedgerInv, OneGenesis, WriterReads, Opening, Writing
  <2>2. conn' = [conn EXCEPT ![p] = c]
    BY <1>0, <1>8, <2>1 DEF Tip, TipNow
  <2>3. TipNow \in Int \cup Procs \cup {None}
    <3>1. CASE rows = <<>>
      BY <1>0, <3>1 DEF TipNow
    <3>2. CASE rows # <<>>
      <4>1. Len(rows) \in DOMAIN rows
        BY <1>0, <3>2
      <4>2. rows[Len(rows)] \in RowSet
        BY <1>0, <4>1
      <4> QED
        BY <3>2, <4>2 DEF TipNow, RowSet
    <3> QED
      BY <3>1, <3>2
  <2>4. /\ c \in ConnSet /\ c.pc = "number" /\ c.origin = genesis /\ c.event > 0
        /\ c.tip = TipNow
    BY <1>0, <2>1, <2>3 DEF ConnSet, Writing
  <2> HIDE DEF c
  <2> QED
    BY <1>0, <1>8, <2>1, <2>2, <2>4, QuietStep DEF Tip, Opening, Writing
<1>9. CASE Number(p)
  <2> DEFINE c == [conn[p] EXCEPT !.pc = "insert", !.num = NextNumber]
  <2>1. /\ conn[p].origin = genesis /\ genesis # None /\ writer = p
        /\ conn[p].event > 0 /\ conn[p].tip = TipNow
    BY <1>9 DEF Number, On, LedgerInv, OneGenesis, WriterReads, Opening, Writing
  <2>2. conn' = [conn EXCEPT ![p] = c]
    BY <1>0, <1>9 DEF Number
  <2>3. NextNumber \in Nat
    <3>1. PICK b \in Nat : NumberedFrom(b)
      BY DEF LedgerInv, Numbered
    <3>2. NextNumber = Len(rows) - b + 1 /\ Len(rows) \in Nat /\ b <= Len(rows)
      BY <1>0, <3>1, NextIsFree DEF LedgerInv, NumberedFrom
    <3> QED
      BY <3>2
  <2>4. /\ c \in ConnSet /\ c.pc = "insert" /\ c.origin = genesis /\ c.event > 0
        /\ c.tip = TipNow /\ c.num = NextNumber
    BY <1>0, <2>1, <2>3 DEF ConnSet, Writing
  <2> HIDE DEF c
  <2> QED
    BY <1>0, <1>9, <2>1, <2>2, <2>4, QuietStep DEF Number, Opening, Writing
<1>10. CASE Insert(p)
  BY <1>10, InsertStep
<1>11. CASE Fail(p)
  <2> DEFINE pc == IF conn[p].origin = None THEN "failed" ELSE "open"
             c == [Closed EXCEPT !.pc = pc, !.origin = conn[p].origin]
  <2>1. conn' = [conn EXCEPT ![p] = c]
    BY <1>11 DEF Fail, Rest
  <2>2. c \in ConnSet /\ c.origin = conn[p].origin /\ c.pc = pc
    <3>1. pc \in Opening \cup Writing \cup {"open"}
      BY DEF Opening
    <3>2. c \in ConnSet
      BY <1>0, <3>1, ConnUpdates
    <3> QED
      BY <3>2 DEF Closed
  <2>3. conn[p].origin # None => conn[p].origin = genesis
    BY DEF LedgerInv, OneGenesis
  <2>4. \A q \in Procs \ {p} : writer' = q <=> writer = q
    BY <1>0, <1>11, LedgerAssumption DEF Fail
  <2>5. writer' # p /\ writer' \in Procs \cup {None}
    BY <1>0, <1>11 DEF Fail
  <2> HIDE DEF c
  <2> QED
    BY <1>0, <1>11, <2>1, <2>2, <2>3, <2>4, <2>5, QuietStep DEF Fail, Opening, Writing
<1>12. CASE Close(p) \/ Drop(p)
  <2>1. conn' = [conn EXCEPT ![p] = Closed]
    BY <1>12 DEF Close, Drop
  <2>2. Closed \in ConnSet /\ Closed.pc = "closed" /\ Closed.origin = None
    BY <1>0, ConnUpdates DEF Closed
  <2>3. writer' # p /\ writer' \in Procs \cup {None}
    BY <1>0, <1>12 DEF Close, Drop, LedgerInv, WriterReads, Writing
  <2>4. \A q \in Procs \ {p} : writer' = q <=> writer = q
    BY <1>0, <1>12, LedgerAssumption DEF Close, Drop
  <2>5. rows' = rows /\ table' = table /\ made' = made /\ genesis' = genesis
    BY <1>12 DEF Close, Drop
  <2> QED
    BY <1>0, <2>1, <2>2, <2>3, <2>4, <2>5, QuietStep DEF Opening, Writing
<1> QED
  BY <1>2, <1>3, <1>4, <1>5, <1>6, <1>7, <1>8, <1>9, <1>10, <1>11, <1>12
  DEF LedgerMove, LedgerStep

LEMMA LedgerStutters ==
  ASSUME LedgerInv, UNCHANGED ledgerVars
  PROVE  LedgerInv'
<1>1. LedgerTypes' /\ OneGenesis' /\ Linked(genesis)' /\ Numbered'
  BY DEF ledgerVars, LedgerInv, LedgerTypes, OneGenesis, Linked, Numbered, NumberedFrom, On
<1>2. NextNumber' = NextNumber /\ TipNow' = TipNow
  BY DEF ledgerVars, NextNumber, Numbers, TipNow
<1>3. WriterReads'
  BY <1>2 DEF ledgerVars, LedgerInv, WriterReads, On
<1> QED
  BY <1>1, <1>3 DEF LedgerInv

LEMMA LedgerStarts == LedgerInit => LedgerInv
<1> SUFFICES ASSUME LedgerInit PROVE LedgerInv
  OBVIOUS
<1>1. conn \in [Procs -> ConnSet] /\ \A p \in Procs : conn[p].pc = "closed" /\ conn[p].origin = None
  BY DEF LedgerInit, Closed, ConnSet, Opening
<1>2. OneGenesis /\ WriterReads
  BY <1>1, LedgerAssumption DEF LedgerInit, OneGenesis, WriterReads, On, Opening, Writing
<1>3. CASE rows = <<>> /\ (genesis = None \/ genesis = 0)
  <2>1. rows \in Seq(RowSet) /\ Len(rows) = 0 /\ DOMAIN rows = {}
    BY <1>3
  <2>2. NumberedFrom(0) /\ Linked(genesis)
    BY <2>1 DEF NumberedFrom, Linked
  <2> QED
    BY <1>1, <1>2, <1>3, <2>1, <2>2 DEF LedgerInit, LedgerInv, LedgerTypes, Numbered
<1>4. CASE genesis = 0 /\ rows = [k \in 1 .. Old |-> OldRow(k)]
  <2>1. \A k \in 1 .. Old : OldRow(k) \in RowSet
    BY LedgerAssumption DEF OldRow, RowSet
  <2>2. /\ rows \in Seq(RowSet) /\ Len(rows) = Old /\ DOMAIN rows = 1 .. Old
        /\ \A k \in 1 .. Old : rows[k] = OldRow(k)
    BY <1>4, <2>1, LedgerAssumption
  <2>3. NumberedFrom(Old)
    BY <2>2, LedgerAssumption DEF NumberedFrom, OldRow
  <2>4. Linked(genesis)
    BY <1>4, <2>2, LedgerAssumption DEF Linked, OldRow
  <2> QED
    BY <1>1, <1>2, <1>4, <2>2, <2>3, <2>4, LedgerAssumption
    DEF LedgerInit, LedgerInv, LedgerTypes, Numbered
<1> QED
  BY <1>3, <1>4 DEF LedgerInit

-----------------------------------------------------------------------------
(* The chain.                                                              *)

LEMMA GuardUpdates ==
  /\ \A r \in GuardSet, pc \in GuardSteps : [r EXCEPT !.pc = pc] \in GuardSet
  /\ Resting \in GuardSet
BY DEF GuardSet, GuardSteps, Resting

\* A step of g that leaves the chain and the rows as they are.
LEMMA QuietGuardStep ==
  ASSUME ChainInv, NEW g \in Guards, NEW r \in GuardSet, guard' = [guard EXCEPT ![g] = r],
         UNCHANGED <<chain, joined, ended, rows, decided>>,
         stalled' \in BOOLEAN, stalled => stalled', key' \in {"none", "empty", "whole"},
         flock' \in Guards \cup {None}, answered' \subseteq answered \cup {guard[g].id},
         answered' # answered => At(g, "unlock"),
         r.pc # "idle" => ~At(g, "idle") /\ r.id = guard[g].id,
         \A h \in Guards \ {g} : flock' = h <=> flock = h,
         flock' = g => r.pc \notin {"idle", "lock"},
         ~stalled' /\ r.pc \notin {"idle", "lock"} => flock' = g,
         ~stalled' /\ r.pc \in {"key", "fill", "write"} => Readable /\ r.prev = LastId,
         r.pc \in {"open", "mirror", "close", "unlock"} => Written(g),
         \A p \in Procs \ {g} : conn'[p] = conn[p],
         conn'[g].pc \in Writing => r.pc = "close" /\ conn'[g].of = r.id,
         r.pc # "idle" /\ (r.pc \in {"close", "unlock"} => conn'[g].pc \in Writing) => Unmirrored(g)
  PROVE  ChainInv'
<1>0. guard'[g] = r /\ \A h \in Guards \ {g} : guard'[h] = guard[h]
  BY DEF ChainInv, ChainTypes
<1>1. ChainTypes'
  <2>1. guard[g].id \in 1 .. decided \/ answered' = answered
    BY DEF ChainInv, Decisions, At
  <2>2. guard' \in [Guards -> GuardSet]
    BY DEF ChainInv, ChainTypes
  <2> QED
    BY <2>1, <2>2 DEF ChainInv, ChainTypes
<1>2. Decisions'
  BY <1>0 DEF ChainInv, Decisions, At
<1>3. Excluded'
  BY <1>0 DEF ChainInv, Excluded, Unlocked, At
<1>4. ChainHolds' /\ JoinedOnce' /\ Readable' = Readable /\ LastId' = LastId
  BY DEF ChainInv, ChainHolds, JoinedOnce, Readable, LastId
<1>5. Extends'
  BY <1>0, <1>4 DEF ChainInv, Extends, Writes
<1>6. \A d : Recorded(d) = Recorded(d)'
  BY DEF Recorded
<1>7. AllRecorded'
  <2>1. \A d \in answered' : Recorded(d)
    BY DEF ChainInv, AllRecorded, Written, At
  <2>2. \A h \in Guards : Written(h)' => Recorded(guard'[h].id)
    BY <1>0 DEF ChainInv, AllRecorded, Written
  <2> QED
    BY <1>6, <2>1, <2>2 DEF ChainInv, AllRecorded
<1>8. LastWritten'
  BY <1>0, <1>4 DEF ChainInv, LastWritten, Written
<1>9. Mirrors'
  <2>1. \A c \in Clerks : conn'[c] = conn[c]
    BY DEF Clerks
  <2>2. \A h \in Guards : Unmirrored(h)' => Unmirrored(h) /\ guard'[h].id = guard[h].id
    BY <1>0, GuardAssumption DEF Unmirrored, At
  <2> QED
    BY <1>0, <2>1, <2>2, GuardAssumption DEF ChainInv, Mirrors, At
<1>10. MirrorInOrder'
  BY DEF ChainInv, MirrorInOrder
<1> QED
  BY <1>1, <1>2, <1>3, <1>4, <1>5, <1>7, <1>8, <1>9, <1>10 DEF ChainInv

\* What a write leaves of the chain.
LEMMA Extension ==
  ASSUME ChainInv, NEW g \in Guards, NEW whole \in BOOLEAN, At(g, "write"), Extend(g, whole),
         stalled' = stalled
  PROVE  /\ chain' \in Seq(LineSet) /\ chain' # <<>>
         /\ joined \subseteq joined' /\ joined' \subseteq 1 .. decided
         /\ \A k \in DOMAIN chain' : chain'[k].id \in 1 .. decided
         /\ \A k \in DOMAIN chain :
              /\ k \in DOMAIN chain' /\ chain'[k].id = chain[k].id
              /\ chain[k].whole => chain'[k].whole \/ chain[k].id \in joined'
         /\ ChainHolds' /\ JoinedOnce'
         /\ guard[g].id \in joined' \/ guard[g].id = LastId'
         /\ whole => \A d \in Nat : d = guard[g].id => Recorded(d)'
<1> DEFINE line == Line(g, whole)
           n == Len(chain)
<1>0. /\ chain \in Seq(LineSet) /\ guard[g] \in GuardSet /\ guard[g].id \in 1 .. decided
      /\ \A k \in DOMAIN chain : chain[k].id \in 1 .. decided
      /\ n \in Nat /\ DOMAIN chain = 1 .. n /\ decided \in Nat /\ joined \subseteq 1 .. decided
  BY DEF ChainInv, ChainTypes, Decisions, At
<1>1. ~stalled => Readable /\ guard[g].prev = LastId
  BY DEF ChainInv, Extends, Writes, At
<1>2. ~stalled => joined = {}
  BY <1>1 DEF ChainInv, JoinedOnce
<1>3. CASE ended
  <2>1. chain' = Append(chain, line) /\ joined' = joined
    BY <1>3 DEF Extend
  <2>2. /\ line \in LineSet /\ line.id = guard[g].id /\ line.prev = guard[g].prev
        /\ line.whole = whole
    BY <1>0 DEF Line, LineSet, GuardSet
  <2> HIDE DEF line
  <2>3. /\ chain' \in Seq(LineSet) /\ Len(chain') = n + 1 /\ DOMAIN chain' = 1 .. n + 1
        /\ chain'[n + 1] = line /\ \A k \in 1 .. n : chain'[k] = chain[k]
    BY <1>0, <2>1, <2>2
  <2> HIDE DEF n
  <2>4. chain' # <<>> /\ LastId' = line.id /\ n + 1 \in DOMAIN chain'
    BY <1>0, <2>3 DEF LastId
  <2>5. \A k \in DOMAIN chain' : chain'[k].id \in 1 .. decided
    BY <1>0, <2>2, <2>3
  <2>6. ChainHolds'
    <3> SUFFICES ASSUME ~stalled, NEW k \in 1 .. n + 1
                 PROVE  /\ chain'[k].prev = IF k = 1 THEN 0 ELSE chain'[k - 1].id
                        /\ chain'[k].whole \/ k = n + 1
      BY <2>3 DEF ChainHolds
    <3>1. CASE k = n + 1
      <4>1. LastId = IF k = 1 THEN 0 ELSE chain[k - 1].id
        BY <1>0, <3>1 DEF LastId, n
      <4>2. k # 1 => k - 1 \in 1 .. n
        BY <1>0, <3>1
      <4> QED
        BY <1>1, <2>2, <2>3, <3>1, <4>1, <4>2
    <3>2. CASE k # n + 1
      <4>1. k \in 1 .. n /\ (k # 1 => k - 1 \in 1 .. n)
        BY <1>0, <3>2
      <4>2. chain[k].prev = IF k = 1 THEN 0 ELSE chain[k - 1].id
        BY <1>0, <4>1 DEF ChainInv, ChainHolds
      <4>3. chain[k].whole
        BY <1>0, <1>1, <4>1 DEF Readable
      <4> QED
        BY <2>3, <4>1, <4>2, <4>3
    <3> QED
      BY <3>1, <3>2
  <2>7. JoinedOnce'
    BY <1>2, <2>1 DEF JoinedOnce
  <2>8. whole => \A d \in Nat : d = guard[g].id => Recorded(d)'
    BY <2>2, <2>3, <2>4 DEF Recorded
  <2> QED
    BY <1>0, <2>1, <2>2, <2>3, <2>4, <2>5, <2>6, <2>7, <2>8
<1>4. CASE ~ended
  <2>1. n \in 1 .. n /\ chain # <<>>
    BY <1>0, <1>4 DEF ChainInv, Decisions
  <2>2. /\ chain' = [chain EXCEPT ![n].whole = FALSE]
        /\ joined' = joined \cup {chain[n].id, guard[g].id}
    BY <1>4 DEF Extend
  <2>3. /\ chain' \in Seq(LineSet) /\ Len(chain') = n /\ DOMAIN chain' = 1 .. n
        /\ chain'[n].id = chain[n].id /\ chain'[n].prev = chain[n].prev /\ ~chain'[n].whole
        /\ \A k \in 1 .. n : k # n => chain'[k] = chain[k]
    <3>1. chain[n] \in LineSet
      BY <1>0, <2>1
    <3>2. PICK l \in LineSet : l = [chain[n] EXCEPT !.whole = FALSE]
      BY <3>1 DEF LineSet
    <3>3. chain' = [chain EXCEPT ![n] = l]
      BY <2>2, <3>2
    <3>4. l.id = chain[n].id /\ l.prev = chain[n].prev /\ ~l.whole
      BY <3>1, <3>2 DEF LineSet
    <3> QED
      <4>0. n = Len(chain)
        OBVIOUS
      <4> HIDE DEF n
      <4>1. /\ [chain EXCEPT ![n] = l] \in Seq(LineSet) /\ Len([chain EXCEPT ![n] = l]) = n
            /\ \A k \in 1 .. n : [chain EXCEPT ![n] = l][k] = IF k = n THEN l ELSE chain[k]
        BY <1>0, <2>1, <4>0, ExceptSeq
      <4> QED
        BY <1>0, <2>1, <3>3, <3>4, <4>1
  <2>4. chain' # <<>> /\ joined \subseteq joined' /\ joined' \subseteq 1 .. decided
    BY <1>0, <2>1, <2>2, <2>3
  <2>5. \A k \in 1 .. n : chain'[k].id = chain[k].id /\ chain'[k].prev = chain[k].prev
    BY <2>3
  <2>6. \A k \in 1 .. n : chain[k].whole => chain'[k].whole \/ chain[k].id \in joined'
    BY <2>2, <2>3
  <2>7. ChainHolds'
    <3> SUFFICES ASSUME ~stalled, NEW k \in 1 .. n
                 PROVE  /\ chain'[k].prev = IF k = 1 THEN 0 ELSE chain'[k - 1].id
                        /\ chain'[k].whole \/ k = n
      BY <2>3 DEF ChainHolds
    <3>1. k # 1 => k - 1 \in 1 .. n
      BY <1>0
    <3>2. chain[k].prev = IF k = 1 THEN 0 ELSE chain[k - 1].id
      BY <1>0 DEF ChainInv, ChainHolds
    <3>3. chain[k].whole
      BY <1>0, <1>1 DEF Readable
    <3> QED
      BY <2>3, <2>5, <3>1, <3>2, <3>3
  <2>8. JoinedOnce'
    <3>1. ~Readable'
      BY <2>1, <2>3 DEF Readable
    <3>2. chain[n].id \in Nat /\ guard[g].id \in Nat
      BY <1>0, <2>1
    <3>3. ~stalled => joined' = {chain[n].id, guard[g].id}
      BY <1>2, <2>2
    <3> QED
      BY <3>1, <3>2, <3>3 DEF JoinedOnce
  <2>9. guard[g].id \in joined'
    BY <2>2
  <2>10. \A d \in Nat : d = guard[g].id => Recorded(d)'
    BY <2>9 DEF Recorded
  <2> QED
    BY <1>0, <2>3, <2>4, <2>5, <2>6, <2>7, <2>8, <2>9, <2>10
<1> QED
  BY <1>3, <1>4

\* A write, whole or torn, and what becomes of its guard.
LEMMA WriteStep ==
  ASSUME ChainInv, NEW g \in Guards, NEW whole \in BOOLEAN, At(g, "write"), Extend(g, whole),
         NEW r \in GuardSet, guard' = [guard EXCEPT ![g] = r],
         UNCHANGED <<key, stalled, rows, conn, decided, answered>>, ended' \in BOOLEAN,
         r.pc \in {"idle", "open", "unlock"},
         r.pc # "idle" => whole /\ r.id = guard[g].id /\ flock' = flock,
         r.pc = "idle" => Release(g)
  PROVE  ChainInv'
<1>0. guard'[g] = r /\ \A h \in Guards \ {g} : guard'[h] = guard[h]
  BY DEF ChainInv, ChainTypes
<1>1. /\ chain' \in Seq(LineSet) /\ chain' # <<>>
      /\ joined \subseteq joined' /\ joined' \subseteq 1 .. decided
      /\ \A k \in DOMAIN chain' : chain'[k].id \in 1 .. decided
      /\ \A k \in DOMAIN chain :
           /\ k \in DOMAIN chain' /\ chain'[k].id = chain[k].id
           /\ chain[k].whole => chain'[k].whole \/ chain[k].id \in joined'
      /\ ChainHolds' /\ JoinedOnce'
      /\ guard[g].id \in joined' \/ guard[g].id = LastId'
      /\ whole => \A d \in Nat : d = guard[g].id => Recorded(d)'
  BY Extension
<1>2. flock' \in Guards \cup {None}
  BY DEF ChainInv, ChainTypes, Release
<1>3. ChainTypes'
  BY <1>1, <1>2 DEF ChainInv, ChainTypes
<1>4. Decisions'
  BY <1>0, <1>1 DEF ChainInv, Decisions, At
<1>5. \A h \in Guards \ {g} : flock' = h <=> flock = h
  BY GuardAssumption, LedgerAssumption DEF Release
<1>6. flock' = g => r.pc # "idle"
  BY GuardAssumption, LedgerAssumption DEF Release
<1>7. Excluded'
  BY <1>0, <1>5, <1>6 DEF ChainInv, Excluded, Unlocked, At
<1>8. ~stalled => \A h \in Guards \ {g} : Unlocked(h)
  BY DEF ChainInv, Excluded, Unlocked, At
<1>9. Extends' /\ LastWritten'
  <2>1. ~stalled => \A h \in Guards \ {g} : ~Writes(h)' /\ ~Written(h)'
    BY <1>0, <1>8 DEF Unlocked, At, Writes, Written
  <2>2. ~Writes(g)'
    BY <1>0 DEF Writes
  <2>3. Written(g)' => guard'[g].id \in joined' \/ guard'[g].id = LastId'
    BY <1>0, <1>1 DEF Written
  <2> QED
    BY <2>1, <2>2, <2>3 DEF Extends, LastWritten
<1>10. \A d : Recorded(d) => Recorded(d)'
  BY <1>1 DEF Recorded
<1>11. AllRecorded'
  <2>1. \A h \in Guards \ {g} : Written(h)' => \A d \in Nat : d = guard'[h].id => Recorded(d)'
    BY <1>0, <1>10 DEF ChainInv, AllRecorded, Written
  <2>2. Written(g)' => \A d \in Nat : d = guard'[g].id => Recorded(d)'
    BY <1>0, <1>1 DEF Written
  <2>5. \A h \in Guards : guard'[h].id \in Nat
    BY <1>3 DEF ChainTypes, GuardSet
  <2>3. \A k \in DOMAIN rows : rows[k].of # None =>
          rows[k].of \in joined' \/ \E m \in DOMAIN chain' : chain'[m].id = rows[k].of
    BY <1>1 DEF ChainInv, AllRecorded
  <2>4. \A d \in answered : Recorded(d)'
    BY <1>10 DEF ChainInv, AllRecorded
  <2> QED
    BY <2>1, <2>2, <2>3, <2>4, <2>5 DEF AllRecorded, Recorded
<1>12. Mirrors'
  <2>1. conn[g].pc \notin Writing
    BY DEF ChainInv, Mirrors, At
  <2>2. \A h \in Guards : Unmirrored(h)' => Unmirrored(h) /\ guard'[h].id = guard[h].id
    BY <1>0, <2>1 DEF Unmirrored, At
  <2> QED
    BY <1>0, <2>1, <2>2 DEF ChainInv, Mirrors, At
<1>13. MirrorInOrder'
  <2>2. rows' = rows /\ stalled' = stalled /\ \A d : d \notin joined' => d \notin joined
    BY <1>1
  <2> QED
    BY <1>1, <2>2 DEF ChainInv, MirrorInOrder
<1> QED
  BY <1>1, <1>3, <1>4, <1>7, <1>9, <1>11, <1>12, <1>13 DEF ChainInv

\* A statement of p on the ledger, its connection open already.
LEMMA StatementEffect ==
  ASSUME LedgerTypes, NEW p \in Procs, LedgerStep(p)
  PROVE  /\ \A q \in Procs \ {p} : conn'[q] = conn[q]
         /\ conn'[p].pc \in Writing => conn[p].pc \in Writing /\ conn'[p].of = conn[p].of
         /\ rows' = rows
            \/ (/\ conn'[p].pc \notin Writing /\ On(p, "insert")
                /\ rows' = Append(rows, Row(conn[p])))
<1>0. conn \in [Procs -> ConnSet] /\ conn[p] \in ConnSet
  BY DEF LedgerTypes
<1>1. ASSUME NEW pc \in Opening \cup {"open"}, To(p, pc) \/ Rest(p, pc)
      PROVE  conn'[p].pc \notin Writing /\ \A q \in Procs \ {p} : conn'[q] = conn[q]
  <2>1. pc \notin Writing
    BY DEF Opening, Writing
  <2>2. CASE To(p, pc)
    <3>1. PICK c \in ConnSet : conn' = [conn EXCEPT ![p] = c] /\ c = [conn[p] EXCEPT !.pc = pc]
      BY <1>0, <2>2, ConnUpdates DEF To
    <3>2. c.pc = pc
      BY <1>0, <3>1 DEF ConnSet
    <3> QED
      BY <1>0, <2>1, <3>1, <3>2
  <2>3. CASE Rest(p, pc)
    <3> DEFINE c == [Closed EXCEPT !.pc = pc, !.origin = conn[p].origin]
    <3>1. conn' = [conn EXCEPT ![p] = c]
      BY <2>3 DEF Rest
    <3>2. c.pc = pc
      BY DEF Closed
    <3> HIDE DEF c
    <3> QED
      BY <1>0, <2>1, <3>1, <3>2
  <2> QED
    BY <1>1, <2>2, <2>3
<1>2. ASSUME NEW pc \in Opening \cup {"open"}, To(p, pc) \/ Rest(p, pc), rows' = rows
      PROVE  /\ \A q \in Procs \ {p} : conn'[q] = conn[q]
             /\ conn'[p].pc \notin Writing /\ rows' = rows
  BY <1>1, <1>2
<1>3. CASE Columns(p) \/ Alter(p) \/ Install(p) \/ Fail(p)
  <2>1. rows' = rows
    BY <1>3 DEF Columns, Alter, Install, Fail
  <2>2. PICK pc \in {"alter", "install", "failed", "select", "open"} : To(p, pc) \/ Rest(p, pc)
    BY <1>3 DEF Columns, Alter, Install, Fail
  <2>3. pc \in Opening \cup {"open"}
    BY DEF Opening
  <2> QED
    BY <1>2, <2>1, <2>2, <2>3
<1>4. CASE Select(p)
  <2> DEFINE c == [conn[p] EXCEPT !.pc = "open", !.origin = genesis]
  <2>1. conn' = [conn EXCEPT ![p] = c] /\ rows' = rows
    BY <1>0, <1>4 DEF Select
  <2>2. c.pc = "open"
    BY <1>0 DEF ConnSet
  <2> HIDE DEF c
  <2> QED
    BY <1>0, <2>1, <2>2 DEF Writing
<1>5. CASE Tip(p)
  <2> DEFINE tip == IF rows = <<>> THEN conn[p].origin ELSE rows[Len(rows)].event
             c == [conn[p] EXCEPT !.pc = "number", !.tip = tip]
  <2>1. conn' = [conn EXCEPT ![p] = c] /\ rows' = rows /\ conn[p].pc \in Writing
    BY <1>0, <1>5 DEF Tip, On, Writing
  <2>2. c.of = conn[p].of
    BY <1>0 DEF ConnSet
  <2> HIDE DEF c
  <2> QED
    BY <1>0, <2>1, <2>2
<1>6. CASE Number(p)
  <2> DEFINE c == [conn[p] EXCEPT !.pc = "insert", !.num = NextNumber]
  <2>1. conn' = [conn EXCEPT ![p] = c] /\ rows' = rows /\ conn[p].pc \in Writing
    BY <1>0, <1>6 DEF Number, On, Writing
  <2>2. c.of = conn[p].of
    BY <1>0 DEF ConnSet
  <2> HIDE DEF c
  <2> QED
    BY <1>0, <2>1, <2>2
<1>7. CASE Insert(p)
  BY <1>1, <1>7 DEF Insert
<1> QED
  BY <1>3, <1>4, <1>5, <1>6, <1>7 DEF LedgerStep

\* A step on the ledger only, by a guard or by a clerk.
LEMMA LedgerOnlyStep ==
  ASSUME ChainInv, NEW p \in Procs, UNCHANGED chainVars,
         \A q \in Procs \ {p} : conn'[q] = conn[q],
         conn'[p].pc \in Writing =>
           \/ conn[p].pc \in Writing /\ conn'[p].of = conn[p].of
           \/ p \in Clerks /\ conn'[p].of = None
  PROVE  /\ ChainTypes' /\ Decisions' /\ Excluded' /\ ChainHolds' /\ Extends'
         /\ JoinedOnce' /\ LastWritten'
         /\ rows' = rows => ChainInv'
<1>1. ChainTypes' /\ Decisions' /\ Excluded' /\ JoinedOnce' /\ ChainHolds'
  BY DEF chainVars, ChainInv, ChainTypes, Decisions, Excluded, JoinedOnce, ChainHolds, At,
     Unlocked, Readable
<1>2. Extends' /\ LastWritten'
  BY DEF chainVars, ChainInv, Extends, LastWritten, LastId, Readable, Writes, Written
<1>3. ASSUME rows' = rows PROVE ChainInv'
  <2>1. AllRecorded' /\ MirrorInOrder'
    BY <1>3 DEF chainVars, ChainInv, AllRecorded, MirrorInOrder, Recorded, Written
  <2>2. \A h \in Guards : conn'[h].pc \in Writing =>
          conn[h].pc \in Writing /\ conn'[h].of = conn[h].of
    BY GuardAssumption DEF Clerks
  <2>3. \A h \in Guards : Unmirrored(h)' => Unmirrored(h)
    BY <2>2 DEF chainVars, Unmirrored, At
  <2>4. \A c \in Clerks : conn'[c].pc \in Writing => conn'[c].of = None
    BY DEF ChainInv, Mirrors, Clerks
  <2>5. Mirrors'
    BY <1>3, <2>2, <2>3, <2>4 DEF chainVars, ChainInv, Mirrors, At
  <2> QED
    BY <1>1, <1>2, <2>1, <2>5 DEF ChainInv
<1> QED
  BY <1>1, <1>2, <1>3

\* A row is inserted: a clerk's, or that of the guard that holds the lock.
LEMMA NewRowStep ==
  ASSUME ChainInv, LedgerInv, NEW p \in Procs, UNCHANGED chainVars, LedgerStep(p)
  PROVE  ChainInv'
<1>0. /\ \A q \in Procs \ {p} : conn'[q] = conn[q]
      /\ conn'[p].pc \in Writing => conn[p].pc \in Writing /\ conn'[p].of = conn[p].of
      /\ rows' = rows
         \/ (/\ conn'[p].pc \notin Writing /\ On(p, "insert")
             /\ rows' = Append(rows, Row(conn[p])))
  BY StatementEffect DEF LedgerInv
<1>1. /\ ChainTypes' /\ Decisions' /\ Excluded' /\ ChainHolds' /\ Extends'
      /\ JoinedOnce' /\ LastWritten'
      /\ rows' = rows => ChainInv'
  BY <1>0, LedgerOnlyStep
<1>2. CASE rows' = rows
  BY <1>1, <1>2
<1>3. CASE conn'[p].pc \notin Writing /\ On(p, "insert") /\ rows' = Append(rows, Row(conn[p]))
  <2> DEFINE of == conn[p].of
             n == Len(rows) + 1
  <2>1. conn[p].pc \in Writing /\ rows \in Seq(RowSet)
    BY <1>3 DEF On, Writing, LedgerInv, LedgerTypes
  <2>2. /\ DOMAIN rows' = (DOMAIN rows) \cup {n} /\ rows'[n].of = of
        /\ \A k \in DOMAIN rows : k < n /\ rows'[k] = rows[k]
    BY <1>3, <2>1 DEF Row
  <2> HIDE DEF n
  <2>3. /\ p \in Clerks => of = None
        /\ p \in Guards => At(p, "close") /\ of = guard[p].id
    BY <2>1 DEF ChainInv, Mirrors
  <2> HIDE DEF of
  <2>4. p \in Guards \/ p \in Clerks
    BY DEF Clerks
  <2>5. of # None => /\ p \in Guards /\ At(p, "close") /\ of = guard[p].id /\ of \in 1 .. decided
                     /\ \A k \in DOMAIN rows : rows[k].of # of
    <3>1. ASSUME p \in Guards PROVE Unmirrored(p) /\ guard[p].id \in 1 .. decided
      BY <2>1, <2>3, <3>1 DEF Unmirrored, At, ChainInv, Decisions
    <3> QED
      BY <2>3, <2>4, <3>1 DEF ChainInv, Mirrors
  <2>6. of # None => \/ of \in joined
                     \/ \E m \in DOMAIN chain : chain[m].id = of
    BY <2>5 DEF ChainInv, AllRecorded, Recorded, Written, At
  <2>7. AllRecorded'
    BY <2>2, <2>6 DEF chainVars, ChainInv, AllRecorded, Recorded, Written
  <2>8. Mirrors'
    <3>1. \A h \in Guards : conn'[h].pc \in Writing =>
            conn[h].pc \in Writing /\ conn'[h].of = conn[h].of
      BY <1>0, GuardAssumption
    <3>2. \A c \in Clerks : conn'[c].pc \in Writing =>
            conn[c].pc \in Writing /\ conn'[c].of = conn[c].of
      BY <1>0 DEF Clerks
    <3>3. \A h \in Guards : Unmirrored(h)' => Unmirrored(h) /\ guard[h].id # of
      <4> SUFFICES ASSUME NEW h \in Guards, Unmirrored(h)'
                   PROVE  Unmirrored(h) /\ guard[h].id # of
        OBVIOUS
      <4>1. Unmirrored(h)
        BY <3>1 DEF chainVars, Unmirrored, At
      <4>2. ASSUME guard[h].id = of PROVE FALSE
        <5>0. guard[h].id \in Nat
          BY DEF ChainInv, ChainTypes, GuardSet
        <5>1. of # None
          BY <4>2, <5>0, LedgerAssumption
        <5>2. h = p
          BY <2>5, <4>1, <4>2, <5>1 DEF ChainInv, Decisions, Unmirrored, At
        <5> QED
          BY <1>3, <2>5, <5>1, <5>2 DEF chainVars, Unmirrored, At
      <4> QED
        BY <4>1, <4>2
    <3> QED
      BY <2>2, <2>5, <3>1, <3>2, <3>3 DEF chainVars, ChainInv, Mirrors, At
  <2>9. MirrorInOrder'
    <3> SUFFICES ASSUME NEW j \in DOMAIN rows', NEW k \in DOMAIN rows', j < k,
                        rows'[j].of # None, rows'[k].of # None
                 PROVE  /\ rows'[j].of # rows'[k].of
                        /\ ~stalled /\ rows'[j].of \notin joined /\ rows'[k].of \notin joined =>
                             \E i, m \in DOMAIN chain :
                               i < m /\ chain[i].id = rows'[j].of /\ chain[m].id = rows'[k].of
      BY DEF chainVars, MirrorInOrder
    <3>0. j \in Int /\ k \in Int /\ n \in Int
      BY <2>1, <2>2 DEF n
    <3>1. CASE k \in DOMAIN rows
      <4>1. j \in DOMAIN rows
        BY <2>2, <3>0, <3>1
      <4> QED
        BY <2>2, <3>1, <4>1 DEF ChainInv, MirrorInOrder
    <3>2. CASE k = n
      <4>1. j \in DOMAIN rows
        BY <2>2, <3>0, <3>2
      <4>2. rows'[k].of = of /\ of # None /\ rows'[j].of = rows[j].of
        BY <2>2, <3>2, <4>1
      <4>3. rows[j].of # of
        BY <2>5, <4>1, <4>2
      <4>4. ASSUME ~stalled, rows[j].of \notin joined, of \notin joined
            PROVE  \E i, m \in DOMAIN chain : i < m /\ chain[i].id = rows[j].of /\ chain[m].id = of
        <5>1. of = LastId /\ chain # <<>>
          BY <2>5, <2>6, <4>2, <4>4 DEF ChainInv, LastWritten, Written, At
        <5>2. PICK i \in DOMAIN chain : chain[i].id = rows[j].of
          BY <4>1, <4>2, <4>4 DEF ChainInv, AllRecorded
        <5>3. chain \in Seq(LineSet)
          BY DEF ChainInv, ChainTypes
        <5>4. Len(chain) \in DOMAIN chain /\ chain[Len(chain)].id = of
          BY <5>1, <5>3 DEF LastId
        <5>5. i # Len(chain)
          BY <4>3, <5>2, <5>4
        <5>6. i < Len(chain)
          BY <5>2, <5>3, <5>5
        <5> QED
          BY <5>2, <5>4, <5>6
      <4> QED
        BY <4>2, <4>3, <4>4
    <3> QED
      BY <2>2, <3>1, <3>2
  <2> QED
    BY <1>1, <2>7, <2>8, <2>9 DEF ChainInv
<1> QED
  BY <1>0, <1>2, <1>3

-----------------------------------------------------------------------------
(* Every step.                                                             *)

\* A guard decides anew.
LEMMA DecideStep ==
  ASSUME ChainInv, NEW g \in Guards, NEW mirror \in Mirrored, Decide(g, mirror)
  PROVE  ChainInv'
<1>p. PICK next \in Nat : next = decided + 1
  BY DEF ChainInv, ChainTypes
<1> DEFINE r == [Resting EXCEPT !.pc = "lock", !.id = next, !.mirror = mirror]
<1>0. /\ guard \in [Guards -> GuardSet] /\ decided \in Nat /\ flock # g
      /\ At(g, "idle") /\ decided' = decided + 1
      /\ UNCHANGED <<ledgerVars, key, chain, ended, flock, answered, joined, stalled>>
  BY DEF Decide, ChainInv, ChainTypes, Excluded, Unlocked
<1>1. guard' = [guard EXCEPT ![g] = r]
  BY <1>p DEF Decide
<1>2. r \in GuardSet /\ r.pc = "lock" /\ r.id = decided + 1
  <2>1. r \in GuardSet
    BY DEF Resting, GuardSet, GuardSteps
  <2>2. r.pc = "lock" /\ r.id = next
    BY DEF Resting
  <2> QED
    BY <1>p, <2>1, <2>2
<1> HIDE DEF r
<1>3. guard'[g] = r /\ \A h \in Guards \ {g} : guard'[h] = guard[h]
  BY <1>0, <1>1
<1>4. 1 .. decided \subseteq 1 .. decided' /\ decided + 1 \in 1 .. decided'
      /\ decided + 1 \notin 1 .. decided
  BY <1>0
<1>5. guard' \in [Guards -> GuardSet] /\ decided' \in Nat
  BY <1>0, <1>1, <1>2
<1>6. ChainTypes'
  BY <1>0, <1>4, <1>5 DEF ChainInv, ChainTypes
<1>7. Decisions'
  BY <1>0, <1>2, <1>3, <1>4 DEF ChainInv, Decisions, At
<1>8. Excluded'
  BY <1>0, <1>2, <1>3 DEF ChainInv, Excluded, Unlocked, At
<1>9. ChainHolds' /\ JoinedOnce' /\ MirrorInOrder'
  BY <1>0 DEF ledgerVars, ChainInv, ChainHolds, JoinedOnce, Readable, MirrorInOrder
<1>10. Extends' /\ LastWritten'
  BY <1>0, <1>2, <1>3 DEF ChainInv, Extends, LastWritten, Writes, Written, Readable, LastId
<1>11. AllRecorded'
  <2>1. \A h \in Guards : Written(h)' => Written(h) /\ guard'[h].id = guard[h].id
    BY <1>2, <1>3 DEF Written
  <2> QED
    BY <1>0, <2>1 DEF ledgerVars, ChainInv, AllRecorded, Recorded
<1>12. Mirrors'
  <2>1. rows' = rows /\ conn' = conn
    BY <1>0 DEF ledgerVars
  <2>2. \A k \in DOMAIN rows : rows[k].of # decided + 1
    BY <1>0, <1>4, LedgerAssumption DEF ChainInv, Mirrors
  <2>3. \A h \in Guards \ {g} : Unmirrored(h)' => Unmirrored(h)
    BY <1>3, <2>1 DEF Unmirrored, At
  <2>4. conn[g].pc \notin Writing
    BY <1>0 DEF ChainInv, Mirrors, At
  <2> QED
    BY <1>2, <1>3, <1>4, <2>1, <2>2, <2>3, <2>4 DEF ChainInv, Mirrors, At
<1> QED
  BY <1>6, <1>7, <1>8, <1>9, <1>10, <1>11, <1>12 DEF ChainInv

\* A guard's steps on the lock, the key and the mirror.
LEMMA GuardAtWork ==
  ASSUME ChainInv, NEW g \in Guards,
         \/ Lock(g) \/ Records(g) \/ Key(g) \/ Fill(g) \/ WriteFails(g)
         \/ MirrorOpen(g) \/ MirrorWrite(g) \/ MirrorClose(g) \/ Unlock(g)
         \/ Die(g),
         LedgerTypes
  PROVE  ChainInv'
<1>0. /\ guard \in [Guards -> GuardSet] /\ guard[g] \in GuardSet /\ g \in Procs /\ g # None
      /\ conn \in [Procs -> ConnSet] /\ flock \in Guards \cup {None}
      /\ stalled \in BOOLEAN /\ key \in {"none", "empty", "whole"} /\ LastId \in Nat
  <2>1. LastId \in Nat
    <3>1. CASE chain = <<>>
      BY <3>1 DEF LastId
    <3>2. CASE chain # <<>>
      <4>1. chain \in Seq(LineSet) /\ Len(chain) \in DOMAIN chain
        BY <3>2 DEF ChainInv, ChainTypes
      <4>2. chain[Len(chain)] \in LineSet
        BY <4>1
      <4> QED
        BY <3>2, <4>2 DEF LastId, LineSet
    <3> QED
      BY <3>1, <3>2
  <2> QED
    BY <2>1, GuardAssumption, LedgerAssumption DEF ChainInv, ChainTypes, LedgerTypes
<1>1. ~Unlocked(g) /\ ~stalled => flock = g
  BY DEF ChainInv, Excluded
<1>2. ASSUME NEW pc \in GuardSteps, GoTo(g, pc)
      PROVE  \E r \in GuardSet : /\ guard' = [guard EXCEPT ![g] = r]
                                 /\ r.pc = pc /\ r.id = guard[g].id /\ r.prev = guard[g].prev
  <2>1. [guard[g] EXCEPT !.pc = pc] \in GuardSet
    BY <1>0, GuardUpdates
  <2>2. PICK r \in GuardSet : r = [guard[g] EXCEPT !.pc = pc]
    BY <2>1
  <2>3. r.pc = pc /\ r.id = guard[g].id /\ r.prev = guard[g].prev
    BY <1>0, <2>2 DEF GuardSet
  <2>4. guard' = [guard EXCEPT ![g] = r]
    BY <1>2, <2>2 DEF GoTo
  <2> QED
    BY <2>3, <2>4
<1>3. Release(g) => /\ flock' \in Guards \cup {None} /\ flock' # g
                    /\ \A h \in Guards \ {g} : flock' = h <=> flock = h
  BY <1>0, GuardAssumption, LedgerAssumption DEF Release
<1>4. flock' = flock => \A h \in Guards \ {g} : flock' = h <=> flock = h
  OBVIOUS
\* The append ends, one way or the other.
<1>5. ASSUME Raise(g), UNCHANGED <<chain, joined, ended, rows, decided, key, stalled>>,
             answered' \subseteq answered \cup {guard[g].id},
             answered' # answered => At(g, "unlock"),
             \A p \in Procs \ {g} : conn'[p] = conn[p], conn'[g].pc \notin Writing
      PROVE  ChainInv'
  <2>1. Resting \in GuardSet /\ Resting.pc = "idle" /\ guard' = [guard EXCEPT ![g] = Resting]
    BY <1>5, GuardUpdates DEF Raise, Resting
  <2>2. Release(g)
    BY <1>5 DEF Raise
  <2> QED
    BY <1>0, <1>3, <1>5, <2>1, <2>2, QuietGuardStep
<1>6. ~At(g, "close") => conn[g].pc \notin Writing
  BY DEF ChainInv, Mirrors
<1>7. CASE Lock(g)
  <2>1. PICK r \in GuardSet : guard' = [guard EXCEPT ![g] = r] /\ r.pc = "records" /\ r.id = guard[g].id
    BY <1>2, <1>7 DEF Lock, GuardSteps
  <2>2. /\ flock' = g \/ (stalled' /\ flock' = flock)
        /\ flock' \in Guards \cup {None} /\ stalled' \in BOOLEAN /\ (stalled => stalled')
        /\ \A h \in Guards \ {g} : flock' = h <=> flock = h
    <3>1. CASE flock = None /\ flock' = g /\ UNCHANGED stalled
      <4>1. \A h \in Guards \ {g} : flock' # h /\ flock # h
        BY <3>1, GuardAssumption, LedgerAssumption
      <4> QED
        BY <1>0, <3>1, <4>1
    <3>2. CASE stalled' = TRUE /\ UNCHANGED flock
      BY <1>0, <3>2
    <3> QED
      BY <1>7, <3>1, <3>2 DEF Lock
  <2>3. UNCHANGED <<conn, chain, joined, ended, rows, decided, key, answered>> /\ At(g, "lock")
    BY <1>7 DEF Lock, ledgerVars
  <2>4. conn[g].pc \notin Writing /\ Unmirrored(g)
    BY <1>6, <2>3 DEF At, Unmirrored
  <2> QED
    BY <1>0, <2>1, <2>2, <2>3, <2>4, QuietGuardStep DEF At
<1>8. CASE Records(g)
  <2>0. UNCHANGED <<conn, chain, joined, ended, rows, decided, key, answered, stalled>>
        /\ At(g, "records")
    BY <1>8 DEF Records, ledgerVars
  <2>1. CASE Readable
    <3> DEFINE r == [guard[g] EXCEPT !.pc = "key", !.prev = LastId]
    <3>1. guard' = [guard EXCEPT ![g] = r] /\ flock' = flock
      BY <1>8, <2>1 DEF Records, LastId
    <3>2. r \in GuardSet /\ r.pc = "key" /\ r.id = guard[g].id /\ r.prev = LastId
      BY <1>0 DEF GuardSet, GuardSteps
    <3> HIDE DEF r
    <3>3. Unmirrored(g) /\ conn[g].pc \notin Writing /\ ~Unlocked(g)
      BY <1>6, <2>0 DEF Unmirrored, At, Unlocked
    <3> QED
      BY <1>0, <1>1, <1>4, <2>0, <2>1, <3>1, <3>2, <3>3, QuietGuardStep DEF At
  <2>2. CASE ~Readable
    BY <1>5, <1>6, <1>8, <2>0, <2>2 DEF Records, At
  <2> QED
    BY <2>1, <2>2
\* From one stage to the next, under the lock.
<1>9. ASSUME NEW pc \in {"fill", "write", "mirror", "close", "unlock"}, GoTo(g, pc),
             UNCHANGED <<chain, joined, ended, rows, decided, answered, stalled, flock>>,
             key' \in {"none", "empty", "whole"}, ~Unlocked(g),
             pc \in {"fill", "write"} => Writes(g),
             pc \in {"mirror", "close", "unlock"} => Written(g),
             \A p \in Procs \ {g} : conn'[p] = conn[p],
             conn'[g].pc \in Writing => pc = "close" /\ conn'[g].of = guard[g].id,
             pc = "unlock" \/ Unmirrored(g)
      PROVE  ChainInv'
  <2>1. PICK r \in GuardSet : /\ guard' = [guard EXCEPT ![g] = r]
                              /\ r.pc = pc /\ r.id = guard[g].id /\ r.prev = guard[g].prev
    BY <1>2, <1>9 DEF GuardSteps
  <2>2. ~stalled' /\ r.pc \in {"key", "fill", "write"} => Readable /\ r.prev = LastId
    BY <1>9, <2>1 DEF ChainInv, Extends
  <2>3. r.pc # "idle" /\ (r.pc \in {"close", "unlock"} => conn'[g].pc \in Writing) => Unmirrored(g)
    BY <1>9, <2>1
  <2>4. ~At(g, "idle") /\ ~At(g, "lock")
    BY <1>9 DEF Unlocked
  <2> QED
    BY <1>0, <1>1, <1>4, <1>9, <2>1, <2>2, <2>3, <2>4, QuietGuardStep
<1>10. CASE Key(g)
  <2>1. /\ UNCHANGED <<conn, chain, joined, ended, rows, decided, answered, stalled>>
        /\ At(g, "key") /\ conn[g].pc \notin Writing /\ Unmirrored(g) /\ ~Unlocked(g) /\ Writes(g)
    BY <1>6, <1>10 DEF Key, ledgerVars, At, Unmirrored, Unlocked, Writes
  <2>2. \/ Raise(g) /\ key' = key
        \/ \E pc \in {"fill", "write"} :
             GoTo(g, pc) /\ flock' = flock /\ key' \in {"none", "empty", "whole"}
    BY <1>0, <1>10 DEF Key
  <2>3. CASE Raise(g) /\ key' = key
    BY <1>5, <2>1, <2>3
  <2>4. ASSUME NEW pc \in {"fill", "write"}, GoTo(g, pc), flock' = flock,
               key' \in {"none", "empty", "whole"}
        PROVE  ChainInv'
    BY <1>9, <2>1, <2>4
  <2> QED
    BY <2>2, <2>3, <2>4
<1>11. CASE Fill(g)
  <2>1. /\ UNCHANGED <<conn, chain, joined, ended, rows, decided, answered, stalled, flock>>
        /\ conn[g].pc \notin Writing /\ Unmirrored(g) /\ ~Unlocked(g) /\ Writes(g)
        /\ GoTo(g, "write") /\ key' = "whole"
    BY <1>6, <1>11 DEF Fill, ledgerVars, At, Unmirrored, Unlocked, Writes
  <2> QED
    BY <1>9, <2>1
<1>12. CASE WriteFails(g)
  <2>1. UNCHANGED <<conn, chain, joined, ended, rows, decided, answered, stalled, key>>
        /\ conn[g].pc \notin Writing /\ Raise(g)
    BY <1>6, <1>12 DEF WriteFails, ledgerVars, At
  <2> QED
    BY <1>5, <2>1
<1>13. CASE MirrorOpen(g)
  <2>1. /\ UNCHANGED <<chain, joined, ended, rows, decided, answered, stalled, flock, key>>
        /\ Unmirrored(g) /\ ~Unlocked(g) /\ Written(g) /\ GoTo(g, "mirror")
    BY <1>13 DEF MirrorOpen, Connect, At, Unmirrored, Unlocked, Written
  <2>2. conn'[g].pc = "columns" /\ \A p \in Procs \ {g} : conn'[p] = conn[p]
    BY <1>0, <1>13 DEF MirrorOpen, Connect, To, ConnSet
  <2>3. conn'[g].pc \notin Writing
    BY <2>2 DEF Writing
  <2> QED
    BY <1>0, <1>9, <2>1, <2>2, <2>3
<1>14. CASE MirrorWrite(g)
  <2>1. /\ UNCHANGED <<chain, joined, ended, rows, decided, answered, stalled, flock, key>>
        /\ Unmirrored(g) /\ ~Unlocked(g) /\ Written(g) /\ GoTo(g, "close")
    BY <1>14 DEF MirrorWrite, Begin, At, Unmirrored, Unlocked, Written
  <2>2. conn'[g].of = guard[g].id /\ \A p \in Procs \ {g} : conn'[p] = conn[p]
    BY <1>0, <1>14 DEF MirrorWrite, Begin, ConnSet
  <2> QED
    BY <1>0, <1>9, <2>1, <2>2
<1>15. CASE MirrorClose(g)
  <2>1. /\ UNCHANGED <<chain, joined, ended, rows, decided, answered, stalled, flock, key>>
        /\ ~Unlocked(g) /\ Written(g) /\ GoTo(g, "unlock")
    BY <1>15 DEF MirrorClose, Close, At, Unlocked, Written
  <2>2. conn'[g].pc = "closed" /\ \A p \in Procs \ {g} : conn'[p] = conn[p]
    BY <1>0, <1>15 DEF MirrorClose, Close, Closed
  <2>3. conn'[g].pc \notin Writing
    BY <2>2 DEF Writing
  <2> QED
    BY <1>0, <1>9, <2>1, <2>2, <2>3
<1>16. CASE Unlock(g)
  <2>1. /\ UNCHANGED <<conn, chain, joined, ended, rows, decided, stalled, key>>
        /\ conn[g].pc \notin Writing /\ Raise(g) /\ At(g, "unlock")
        /\ answered' = answered \cup {guard[g].id}
    BY <1>6, <1>16 DEF Unlock, ledgerVars, At
  <2> QED
    BY <1>5, <2>1
<1>17. CASE Die(g)
  <2>1. UNCHANGED <<chain, joined, ended, rows, decided, stalled, key, answered>> /\ Raise(g)
    BY <1>17 DEF Die, Drop
  <2>2. conn'[g].pc = "closed" /\ \A p \in Procs \ {g} : conn'[p] = conn[p]
    BY <1>0, <1>17 DEF Die, Drop, Closed
  <2>3. conn'[g].pc \notin Writing
    BY <2>2 DEF Writing
  <2> QED
    BY <1>5, <2>1, <2>2, <2>3
<1> QED
  BY <1>7, <1>8, <1>10, <1>11, <1>12, <1>13, <1>14, <1>15, <1>16, <1>17

LEMMA RecordsStart == Init => LedgerInv /\ ChainInv
<1> SUFFICES ASSUME Init PROVE LedgerInv /\ ChainInv
  OBVIOUS
<1>1. LedgerInv
  BY LedgerStarts DEF Init
<1>2. /\ chain = <<>> /\ Len(chain) = 0 /\ DOMAIN chain = {} /\ ended /\ joined = {} /\ answered = {}
      /\ flock = None /\ decided = 0 /\ \A g \in Guards : guard[g] = Resting
      /\ \A p \in Procs : conn[p] = Closed
  BY DEF Init, LedgerInit
<1>3. guard \in [Guards -> GuardSet]
  BY GuardUpdates DEF Init
<1>4. ChainTypes
  <2>1. chain \in Seq(LineSet) /\ answered \subseteq 1 .. decided /\ joined \subseteq 1 .. decided
    BY <1>2
  <2>2. key = "none" /\ ended = TRUE /\ stalled = FALSE /\ decided \in Nat
    BY DEF Init
  <2> QED
    BY <1>2, <1>3, <2>1, <2>2 DEF ChainTypes
<1>5. Decisions /\ Excluded /\ ChainHolds /\ Extends /\ JoinedOnce /\ LastWritten
  BY <1>2, GuardAssumption, LedgerAssumption DEF Decisions, Excluded, ChainHolds, Extends,
     JoinedOnce, LastWritten, At, Unlocked, Writes, Written, Resting
<1>6. \A k \in DOMAIN rows : rows[k].of = None
  BY LedgerAssumption DEF Init, LedgerInit, OldRow
<1>7. AllRecorded /\ MirrorInOrder
  BY <1>2, <1>6 DEF AllRecorded, MirrorInOrder, Written, Resting
<1>8. Mirrors
  BY <1>2, <1>6, GuardAssumption DEF Mirrors, Unmirrored, At, Resting, Closed, Writing, Clerks
<1> QED
  BY <1>1, <1>4, <1>5, <1>7, <1>8 DEF ChainInv

LEMMA RecordsStep ==
  ASSUME LedgerInv, ChainInv, [Next]_vars
  PROVE  LedgerInv' /\ ChainInv'
<1>0. LedgerTypes /\ Guards \subseteq Procs
  BY GuardAssumption DEF LedgerInv
<1>1. ASSUME UNCHANGED ledgerVars PROVE LedgerInv'
  BY <1>1, LedgerStutters
<1>2. ASSUME NEW g \in Guards, GuardStep(g) PROVE LedgerInv' /\ ChainInv'
  <2>1. CASE Verdict(g)
    BY <1>1, <2>1, DecideStep DEF Verdict, Decide
  <2>2. CASE Lock(g) \/ Records(g) \/ Key(g) \/ Fill(g) \/ WriteFails(g) \/ Unlock(g)
    <3>1. UNCHANGED ledgerVars
      BY <2>2 DEF Lock, Records, Key, Fill, WriteFails, Unlock
    <3> QED
      BY <1>0, <1>1, <2>2, <3>1, GuardAtWork
  <2>3. CASE MirrorOpen(g) \/ MirrorWrite(g) \/ MirrorClose(g)
    <3>1. guard[g].id \in Nat /\ TRUE \in BOOLEAN
      BY DEF ChainInv, ChainTypes, GuardSet
    <3>2. LedgerMove(g)
      BY <2>3, <3>1 DEF MirrorOpen, MirrorWrite, MirrorClose, LedgerMove
    <3> QED
      BY <1>0, <2>3, <3>2, LedgerMoves, GuardAtWork
  <2>4. CASE Write(g)
    <3>1. /\ At(g, "write") /\ Extend(g, TRUE) /\ ended' = TRUE
          /\ UNCHANGED <<ledgerVars, key, decided, answered, stalled>>
      BY <2>4 DEF Write
    <3>2. \E r \in GuardSet : /\ guard' = [guard EXCEPT ![g] = r]
                              /\ r.pc \in {"idle", "open", "unlock"}
                              /\ r.pc # "idle" => r.id = guard[g].id /\ flock' = flock
                              /\ r.pc = "idle" => Release(g)
      <4>1. CASE Raise(g)
        BY <4>1, GuardUpdates DEF Raise, Resting
      <4>2. ASSUME NEW pc \in {"open", "unlock"}, GoTo(g, pc), UNCHANGED flock
            PROVE  \E r \in GuardSet : /\ guard' = [guard EXCEPT ![g] = r]
                                       /\ r.pc = pc /\ r.id = guard[g].id
        <5>1. guard[g] \in GuardSet /\ pc \in GuardSteps
          BY DEF ChainInv, ChainTypes, GuardSteps
        <5>2. PICK r \in GuardSet : r = [guard[g] EXCEPT !.pc = pc]
          BY <5>1, GuardUpdates
        <5>3. r.pc = pc /\ r.id = guard[g].id
          BY <5>1, <5>2 DEF GuardSet
        <5> QED
          BY <4>2, <5>2, <5>3 DEF GoTo
      <4>3. Raise(g) \/ \E pc \in {"open", "unlock"} : GoTo(g, pc) /\ UNCHANGED flock
        BY <2>4 DEF Write
      <4> QED
        BY <4>1, <4>2, <4>3
    <3>3. UNCHANGED <<rows, conn>>
      BY <3>1 DEF ledgerVars
    <3>4. ChainInv'
      BY <3>1, <3>2, <3>3, WriteStep
    <3> QED
      BY <1>1, <3>1, <3>4
  <2>5. CASE Tear(g)
    <3>1. PICK whole \in BOOLEAN : Extend(g, whole)
      BY <2>5 DEF Tear
    <3>2. /\ At(g, "write") /\ ended' = FALSE /\ Release(g)
          /\ guard' = [guard EXCEPT ![g] = Resting]
          /\ UNCHANGED <<ledgerVars, key, decided, answered, stalled>>
      BY <2>5 DEF Tear, Raise
    <3>3. UNCHANGED <<rows, conn>> /\ Resting \in GuardSet /\ Resting.pc = "idle"
      BY <3>2, GuardUpdates DEF ledgerVars, Resting
    <3>4. ChainInv'
      BY <3>1, <3>2, <3>3, WriteStep
    <3> QED
      BY <1>1, <3>2, <3>4
  <2> QED
    BY <1>2, <2>1, <2>2, <2>3, <2>4, <2>5 DEF GuardStep
<1>3. ASSUME NEW c \in Clerks, Enter(c) \/ Record(c) \/ Leave(c) PROVE LedgerInv' /\ ChainInv'
  <2>0. c \in Procs /\ conn \in [Procs -> ConnSet]
    BY <1>0 DEF Clerks, LedgerTypes
  <2>1. LedgerMove(c)
    BY <1>3 DEF Enter, Record, Leave, LedgerMove
  <2>2. UNCHANGED chainVars /\ rows' = rows
    BY <1>3 DEF Enter, Record, Leave, Connect, Begin, Close
  <2>3. \A q \in Procs \ {c} : conn'[q] = conn[q]
    BY <1>3, <2>0 DEF Enter, Record, Leave, Connect, To, Begin, Close
  <2>4. conn'[c].pc \in Writing => conn'[c].of = None
    <3>1. CASE Enter(c)
      BY <2>0, <3>1 DEF Enter, Connect, To, ConnSet, Writing
    <3>2. CASE Record(c)
      BY <2>0, <3>2 DEF Record, Begin, ConnSet
    <3>3. CASE Leave(c)
      BY <2>0, <3>3 DEF Leave, Close, Closed, Writing
    <3> QED
      BY <1>3, <3>1, <3>2, <3>3
  <2> QED
    BY <2>0, <2>1, <2>2, <2>3, <2>4, LedgerMoves, LedgerOnlyStep
<1>4. ASSUME NEW p \in Procs, Statement(p) PROVE LedgerInv' /\ ChainInv'
  BY <1>4, LedgerMoves, NewRowStep DEF Statement, LedgerMove
<1>5. ASSUME NEW p \in Procs, Die(p) PROVE LedgerInv' /\ ChainInv'
  <2>1. Drop(p) /\ LedgerInv'
    BY <1>5, LedgerMoves DEF Die, LedgerMove
  <2>2. CASE p \in Guards
    BY <1>0, <1>5, <2>1, <2>2, GuardAtWork
  <2>3. CASE p \notin Guards
    <3>1. UNCHANGED chainVars /\ rows' = rows
      BY <1>5, <2>1, <2>3 DEF Die, Drop, chainVars
    <3>2. conn'[p] = Closed /\ \A q \in Procs \ {p} : conn'[q] = conn[q]
      BY <1>0, <2>1 DEF Drop, LedgerTypes
    <3>3. conn'[p].pc \notin Writing
      BY <3>2 DEF Closed, Writing
    <3> QED
      BY <2>1, <3>1, <3>2, <3>3, LedgerOnlyStep
  <2> QED
    BY <2>2, <2>3
<1>6. CASE UNCHANGED vars
  <2>1. UNCHANGED ledgerVars /\ UNCHANGED chainVars
    BY <1>6 DEF vars
  <2>2. rows' = rows /\ conn' = conn
    BY <2>1 DEF ledgerVars
  <2>3. ChainInv'
    <3>1. CASE Procs = {}
      <4>1. Guards = {} /\ Clerks = {}
        BY <1>0, <3>1 DEF Clerks
      <4> QED
        BY <2>1, <2>2, <4>1 DEF chainVars, ChainInv, ChainTypes, Decisions, Excluded, ChainHolds,
           Extends, JoinedOnce, AllRecorded, LastWritten, Mirrors, MirrorInOrder, Recorded, Readable
    <3>2. CASE \E p \in Procs : TRUE
      BY <2>1, <2>2, <3>2, LedgerOnlyStep
    <3> QED
      BY <3>1, <3>2
  <2> QED
    BY <1>1, <2>1, <2>3
<1> QED
  BY <1>2, <1>3, <1>4, <1>5, <1>6 DEF Next

LEMMA RecordsHold == Spec => [](LedgerInv /\ ChainInv)
BY RecordsStart, RecordsStep, PTL DEF Spec

-----------------------------------------------------------------------------
(* What it gives.                                                          *)

LEMMA RecordsTyped == LedgerInv /\ ChainInv => TypeOK
<1> SUFFICES ASSUME LedgerInv, ChainInv PROVE TypeOK
  OBVIOUS
<1>1. \A k \in DOMAIN rows : rows[k].event \in Int /\ rows[k].exact \in BOOLEAN
  <2>1. \A k \in DOMAIN rows : rows[k] \in RowSet
    BY DEF LedgerInv, LedgerTypes
  <2> QED
    BY <2>1 DEF RowSet
<1>2. \A p \in Procs : conn[p].origin \in Procs \cup {0, None}
  BY DEF LedgerInv, LedgerTypes, ConnSet
<1>3. /\ \A g \in Guards : flock = g => ~At(g, "idle") /\ ~At(g, "lock")
      /\ \A p \in Procs : writer = p => conn[p].pc \in {"tip", "number", "insert"}
  BY DEF ChainInv, Excluded, Unlocked, LedgerInv, WriterReads, Writing
<1> QED
  BY <1>1, <1>2, <1>3 DEF TypeOK, LedgerInv, LedgerTypes, ChainInv, ChainTypes, LineSet

\* The ledger is sound: whatever openings, upgrades, appends, failures and
\* deaths interleave, verify() raises only for a number SQLite does not give
\* back, and the receipt numbers have no gap.
THEOREM LedgerSoundHolds == Spec => []LedgerSound
<1>1. LedgerInv => LedgerVerifies
  BY DEF LedgerInv, OneGenesis, LedgerVerifies, Verifies
<1>2. LedgerInv => NumbersConsecutive
  <2> SUFFICES ASSUME LedgerInv, NEW k \in DOMAIN rows
               PROVE  rows[k].num = IF rows[k].event < 0 THEN None
                                    ELSE Cardinality({j \in 1 .. k : rows[j].event > 0})
    BY DEF NumbersConsecutive
  <2>0. rows \in Seq(RowSet) /\ DOMAIN rows = 1 .. Len(rows) /\ k \in 1 .. Len(rows)
    BY DEF LedgerInv, LedgerTypes
  <2>1. PICK b \in Nat : NumberedFrom(b)
    BY DEF LedgerInv, Numbered
  <2>2. CASE k <= b
    BY <2>1, <2>2 DEF NumberedFrom
  <2>3. CASE k > b
    <3>1. \A j \in 1 .. k : /\ j \in DOMAIN rows /\ rows[j].event \in Int
                            /\ (j <= b => rows[j].event < 0) /\ (j > b => rows[j].event > 0)
      <4> SUFFICES ASSUME NEW j \in 1 .. k
                   PROVE  /\ j \in DOMAIN rows /\ rows[j].event \in Int
                          /\ (j <= b => rows[j].event < 0) /\ (j > b => rows[j].event > 0)
        OBVIOUS
      <4>1. j \in DOMAIN rows
        BY <2>0
      <4>2. rows[j] \in RowSet
        BY <2>0, <4>1
      <4> QED
        BY <2>1, <4>1, <4>2 DEF NumberedFrom, RowSet
    <3>2. {j \in 1 .. k : rows[j].event > 0} = (b + 1) .. k
      BY <2>0, <3>1
    <3>3. Cardinality((b + 1) .. k) = k - b
      <4>1. b + 1 \in Int /\ k \in Int /\ ~(b + 1 > k) /\ k - (b + 1) + 1 = k - b
        BY <2>0, <2>3
      <4> QED
        BY <4>1, FS_Interval
    <3>4. rows[k].event > 0 /\ rows[k].event \in Int /\ rows[k].num = k - b
      BY <2>0, <2>1, <2>3, <3>1 DEF NumberedFrom
    <3> QED
      <4>1. ~(rows[k].event < 0)
        BY <3>4
      <4> QED
        BY <3>2, <3>3, <3>4, <4>1, Zenon
  <2> QED
    BY <2>0, <2>1, <2>2, <2>3
<1> QED
  BY <1>1, <1>2, RecordsTyped, RecordsHold, PTL DEF LedgerSound

\* Unless a guard has gone on without the lock, the lines form one chain and
\* only the last may be unreadable.
THEOREM ChainHoldsAlways == Spec => []ChainHolds
<1>1. ChainInv => ChainHolds
  BY DEF ChainInv
<1> QED
  BY <1>1, RecordsHold, PTL

\* What a guard has answered its chain holds, but for the lines that were taken
\* for one; and those are two at most.
THEOREM AnsweredIsRecordedHolds == Spec => []AnsweredIsRecorded
<1>1. ChainInv => AnsweredIsRecorded
  <2> SUFFICES ASSUME ChainInv PROVE AnsweredIsRecorded
    OBVIOUS
  <2>1. \A d \in answered \ joined : \E k \in DOMAIN chain : chain[k].id = d /\ chain[k].whole
    BY DEF ChainInv, AllRecorded, Recorded
  <2>2. ASSUME ~stalled PROVE Cardinality(joined) <= 2
    <3>1. CASE joined = {}
      BY <3>1, FS_EmptySet
    <3>2. ASSUME NEW d \in Nat, NEW e \in Nat, joined = {d, e} PROVE Cardinality(joined) <= 2
      <4>1. IsFiniteSet({d}) /\ Cardinality({d}) = 1
        BY FS_Singleton
      <4>2. Cardinality({d} \cup {e}) = IF e \in {d} THEN Cardinality({d}) ELSE Cardinality({d}) + 1
        BY <4>1, FS_AddElement
      <4>3. joined = {d} \cup {e}
        BY <3>2
      <4> QED
        BY <4>1, <4>2, <4>3
    <3> QED
      BY <2>2, <3>1, <3>2 DEF ChainInv, JoinedOnce
  <2> QED
    BY <2>1, <2>2 DEF AnsweredIsRecorded
<1> QED
  BY <1>1, RecordsHold, PTL

\* The ledger has each decision of a guard once at most, and in the order of the
\* guards' chain.
THEOREM MirrorInOrderHolds == Spec => []MirrorInOrder
<1>1. ChainInv => MirrorInOrder
  BY DEF ChainInv
<1> QED
  BY <1>1, RecordsHold, PTL
=============================================================================
