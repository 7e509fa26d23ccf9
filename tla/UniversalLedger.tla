-------------------------- MODULE UniversalLedger --------------------------
(***************************************************************************)
(* The universal ledger: one SQLite file, opened by every process that     *)
(* records something, and appended to under BEGIN IMMEDIATE.  One step is  *)
(* one statement.  Each process opens the ledger anew (tables, a column    *)
(* old files lack, the genesis), and may then append and verify.           *)
(*                                                                         *)
(* A digest is known by the event it was computed for, and a genesis by    *)
(* the process that drew it: SHA-256 and uuid4 do not collide.             *)
(***************************************************************************)
EXTENDS Integers, Sequences, FiniteSets, FiniteSetsExt

CONSTANTS
  Procs,      \* the processes
  Old,        \* how many rows an old file, without receipt numbers, holds
  MaxEvents,  \* bound on the events appended
  MayFail,    \* whether statements fail
  MayDie,     \* whether processes die
  None

ASSUME LedgerAssumption == Old \in Nat /\ MaxEvents \in Nat /\ None \notin Int \cup Procs

VARIABLES
  table,    \* ledger_events: absent, "old" (no receipt_number) or "new"
  genesis,  \* ledger_installation
  rows,     \* ledger_events, in the order of their ids
  writer,   \* who holds SQLite's write lock, or None
  conn,     \* each process's UniversalLedger
  made      \* the events appended so far, committed or not

ledgerVars == <<table, genesis, rows, writer, conn, made>>

\* The old file's rows carry the event ids -Old .. -1, and were chained from 0.
OldRow(k) == [event |-> k - Old - 1, num |-> None, exact |-> TRUE, of |-> None,
              prev |-> IF k = 1 THEN 0 ELSE k - Old - 2]

Closed == [pc |-> "closed", origin |-> None, event |-> 0, of |-> None,
           exact |-> TRUE, tip |-> 0, num |-> None]

LedgerInit ==
  /\ \/ table = "none" /\ genesis = None /\ rows = <<>>
     \/ table = "old" /\ genesis = 0 /\ rows = [k \in 1 .. Old |-> OldRow(k)]
  /\ writer = None
  /\ conn = [p \in Procs |-> Closed]
  /\ made = 0

On(p, pc) == conn[p].pc = pc
To(p, pc) == conn' = [conn EXCEPT ![p].pc = pc]
\* What a statement had read for the append goes with it.
Rest(p, pc) == conn' = [conn EXCEPT ![p] = [Closed EXCEPT !.pc = pc, !.origin = conn[p].origin]]

-----------------------------------------------------------------------------
(* UniversalLedger.__init__                                                *)

\* executescript: the tables are created unless they exist.
Connect(p) ==
  /\ On(p, "closed")
  /\ table' = IF table = "none" THEN "new" ELSE table
  /\ To(p, "columns")
  /\ UNCHANGED <<genesis, rows, writer, made>>

Columns(p) ==
  /\ On(p, "columns")
  /\ To(p, IF table = "old" THEN "alter" ELSE "install")
  /\ UNCHANGED <<table, genesis, rows, writer, made>>

\* ALTER TABLE fails if another process has added the column meanwhile.
Alter(p) ==
  /\ On(p, "alter") /\ writer = None
  /\ To(p, IF table = "old" THEN "install" ELSE "failed")
  /\ table' = "new"
  /\ UNCHANGED <<genesis, rows, writer, made>>

\* INSERT OR IGNORE, and commit.
Install(p) ==
  /\ On(p, "install") /\ writer = None
  /\ genesis' = IF genesis = None THEN p ELSE genesis
  /\ To(p, "select")
  /\ UNCHANGED <<table, rows, writer, made>>

Select(p) ==
  /\ On(p, "select")
  /\ conn' = [conn EXCEPT ![p].pc = "open", ![p].origin = genesis]
  /\ UNCHANGED <<table, genesis, rows, writer, made>>

-----------------------------------------------------------------------------
(* append_with_receipt                                                     *)

\* Mutant: the tip is read before the write lock is taken.
BeginDeferred(p, of, exact) ==
  /\ On(p, "open") /\ made < MaxEvents
  /\ made' = made + 1
  /\ conn' = [conn EXCEPT ![p] = [@ EXCEPT !.pc = "tip", !.event = made', !.of = of,
                                           !.exact = exact, !.num = None]]
  /\ UNCHANGED <<table, genesis, rows, writer>>

\* BEGIN IMMEDIATE.  "of" is what the event is about; "exact" whether its
\* numbers are read back as they were given (SQLite keeps a NaN as NULL, and
\* an integer put into a REAL column as a float).
Begin(p, of, exact) ==
  /\ On(p, "open") /\ writer = None /\ made < MaxEvents
  /\ made' = made + 1
  /\ writer' = p
  /\ conn' = [conn EXCEPT ![p] = [@ EXCEPT !.pc = "tip", !.event = made', !.of = of,
                                           !.exact = exact, !.num = None]]
  /\ UNCHANGED <<table, genesis, rows>>

Tip(p) ==
  /\ On(p, "tip")
  /\ conn' = [conn EXCEPT ![p].pc = "number",
                          ![p].tip = IF rows = <<>> THEN conn[p].origin ELSE rows[Len(rows)].event]
  /\ UNCHANGED <<table, genesis, rows, writer, made>>

Numbers == {rows[k].num : k \in DOMAIN rows} \ {None}
NextNumber == IF Numbers = {} THEN 1 ELSE Max(Numbers) + 1

Number(p) ==
  /\ On(p, "number")
  /\ conn' = [conn EXCEPT ![p].pc = "insert", ![p].num = NextNumber]
  /\ UNCHANGED <<table, genesis, rows, writer, made>>

Row(c) == [event |-> c.event, num |-> c.num, prev |-> c.tip, exact |-> c.exact, of |-> c.of]

\* INSERT, whose number must be new, and commit.
Insert(p) ==
  /\ On(p, "insert") /\ writer \in {None, p} /\ conn[p].num \notin Numbers
  /\ rows' = Append(rows, Row(conn[p]))
  /\ writer' = None
  /\ Rest(p, "open")
  /\ UNCHANGED <<table, genesis, made>>

\* A statement fails (or waits too long for the write lock): an append is
\* rolled back and the ledger stays open, an opening is given up.
Fail(p) ==
  /\ \/ MayFail /\ conn[p].pc \notin {"closed", "failed", "open"}
     \/ On(p, "insert") /\ conn[p].num \in Numbers
  /\ writer' = IF writer = p THEN None ELSE writer
  /\ Rest(p, IF conn[p].origin = None THEN "failed" ELSE "open")
  /\ UNCHANGED <<table, genesis, rows, made>>

Close(p) ==
  /\ conn[p].pc \in {"open", "failed"}
  /\ conn' = [conn EXCEPT ![p] = Closed]
  /\ UNCHANGED <<table, genesis, rows, writer, made>>

\* The connection goes with its process, and what it had not committed.
Drop(p) ==
  /\ writer' = IF writer = p THEN None ELSE writer
  /\ conn' = [conn EXCEPT ![p] = Closed]
  /\ UNCHANGED <<table, genesis, rows, made>>

\* The statements that follow of themselves.
LedgerStep(p) ==
  \/ Columns(p) \/ Alter(p) \/ Install(p) \/ Select(p)
  \/ Tip(p) \/ Number(p) \/ Insert(p) \/ Fail(p)

-----------------------------------------------------------------------------
(* verify                                                                  *)

Linked(origin) ==
  \A k \in DOMAIN rows : rows[k].prev = IF k = 1 THEN origin ELSE rows[k - 1].event

\* verify() raises nothing: each row names the one before it and its digest
\* can be computed again from what the row holds.
Verifies(origin) == Linked(origin) /\ \A k \in DOMAIN rows : rows[k].exact

-----------------------------------------------------------------------------
(* Properties                                                              *)

\* Whoever has the ledger open, and however openings, appends, failures and
\* deaths interleave, verify() raises if and only if a row holds a number that
\* SQLite does not give back.
LedgerVerifies ==
  \A p \in Procs : conn[p].origin # None =>
    (Verifies(conn[p].origin) <=> \A k \in DOMAIN rows : rows[k].exact)

\* Receipt numbers count the rows appended since the column exists, with no
\* gap: what a failed append or a process that died had taken is given again.
NumbersConsecutive ==
  \A k \in DOMAIN rows :
    rows[k].num = IF rows[k].event < 0 THEN None
                  ELSE Cardinality({j \in 1 .. k : rows[j].event > 0})
=============================================================================
