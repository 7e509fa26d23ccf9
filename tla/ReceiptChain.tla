---------------------------- MODULE ReceiptChain ----------------------------
(***************************************************************************)
(* The codex guard's receipts, with the universal ledger they are mirrored *)
(* to.  Each guard process appends a line for each of its decisions to     *)
(* codex-guard-receipts.jsonl, a chain under a keyed digest, and then a    *)
(* row to the ledger, holding the receipts' lock throughout.  The clerks   *)
(* (the CLI's commands, the tool registry, the inference router) write to  *)
(* the ledger only.  One step is one operation on a file, or one statement *)
(* of UniversalLedger.                                                     *)
(*                                                                         *)
(* A line is known by the decision it records; its digest is collision     *)
(* free.  The file's directory is private and exists.                      *)
(***************************************************************************)
EXTENDS UniversalLedger

CONSTANTS
  Guards,        \* those of Procs that are guards
  Mirrored,      \* whether a guard's verdict is one the ledger takes
  MaxDecisions,  \* bound on the guards' decisions
  MayTear,       \* whether a line may be left incomplete
  MayStall       \* whether a guard may go on without the lock (Windows)

ASSUME GuardAssumption == Guards \subseteq Procs /\ MaxDecisions \in Nat

VARIABLES
  key,      \* codex-guard.key: "none", "empty" or "whole"
  chain,    \* the lines of codex-guard-receipts.jsonl
  ended,    \* whether the last line has its newline
  flock,    \* who holds the receipts' lock, or None
  guard,    \* each guard's append
  decided,  \* the decisions made so far
  \* history:
  answered, \* the decisions whose append has returned
  joined,   \* the decisions written onto a line without an end
  stalled   \* whether a guard has gone on without the lock

chainVars == <<key, chain, ended, flock, guard, decided, answered, joined, stalled>>
vars == <<ledgerVars, chainVars>>

Clerks == Procs \ Guards
Resting == [pc |-> "idle", id |-> 0, prev |-> 0, mirror |-> FALSE]

Init ==
  /\ LedgerInit
  /\ key = "none" /\ chain = <<>> /\ ended = TRUE /\ flock = None
  /\ guard = [g \in Guards |-> Resting] /\ decided = 0
  /\ answered = {} /\ joined = {} /\ stalled = FALSE

At(g, pc)   == guard[g].pc = pc
GoTo(g, pc) == guard' = [guard EXCEPT ![g].pc = pc]
Release(g)  == flock' = IF flock = g THEN None ELSE flock

\* The append raises: the lock is released, the decision is not answered.
Raise(g) == Release(g) /\ guard' = [guard EXCEPT ![g] = Resting]

-----------------------------------------------------------------------------
(* ReceiptChain.append                                                     *)

Decide(g, mirror) ==
  /\ At(g, "idle") /\ decided < MaxDecisions
  /\ decided' = decided + 1
  /\ guard' = [guard EXCEPT ![g] = [Resting EXCEPT !.pc = "lock", !.id = decided',
                                                   !.mirror = mirror]]
  /\ UNCHANGED <<ledgerVars, key, chain, ended, flock, answered, joined, stalled>>

\* Mutant: a lock among the threads of one process.
LockThreads(g) ==
  /\ At(g, "lock")
  /\ GoTo(g, "records")
  /\ UNCHANGED <<ledgerVars, key, chain, ended, flock, decided, answered, joined, stalled>>

\* On Windows the wait ends after two seconds, with the lock or without it.
Lock(g) ==
  /\ At(g, "lock")
  /\ \/ flock = None /\ flock' = g /\ UNCHANGED stalled
     \/ flock # None /\ MayStall /\ stalled' = TRUE /\ UNCHANGED flock
  /\ GoTo(g, "records")
  /\ UNCHANGED <<ledgerVars, key, chain, ended, decided, answered, joined>>

Readable == \A k \in DOMAIN chain : chain[k].whole

\* _records reads every line; one that is not JSON raises.
Records(g) ==
  /\ At(g, "records")
  /\ IF Readable
     THEN /\ guard' = [guard EXCEPT ![g].pc = "key",
                         ![g].prev = IF chain = <<>> THEN 0 ELSE chain[Len(chain)].id]
          /\ UNCHANGED flock
     ELSE Raise(g)
  /\ UNCHANGED <<ledgerVars, key, chain, ended, decided, answered, joined, stalled>>

\* _key: the file is created, then filled; a file of another length raises.
Key(g) ==
  /\ At(g, "key")
  /\ \/ key = "none" /\ key' = "empty" /\ GoTo(g, "fill") /\ UNCHANGED flock
     \/ key = "empty" /\ Raise(g) /\ UNCHANGED key
     \/ key = "whole" /\ GoTo(g, "write") /\ UNCHANGED <<key, flock>>
  /\ UNCHANGED <<ledgerVars, chain, ended, decided, answered, joined, stalled>>

Fill(g) ==
  /\ At(g, "fill")
  /\ key' = "whole" /\ GoTo(g, "write")
  /\ UNCHANGED <<ledgerVars, chain, ended, flock, decided, answered, joined, stalled>>

Line(g, whole) == [id |-> guard[g].id, prev |-> guard[g].prev, whole |-> whole]

\* What O_APPEND makes of the chain.  On a last line without a newline the
\* record ends up, and neither it nor that line can be read again.
Extend(g, whole) ==
  IF ended THEN chain' = Append(chain, Line(g, whole)) /\ UNCHANGED joined
  ELSE /\ chain' = [chain EXCEPT ![Len(chain)].whole = FALSE]
       /\ joined' = joined \cup {chain[Len(chain)].id, guard[g].id}

\* The line is written and fsynced; fsync may fail, and the append then raises.
Write(g) ==
  /\ At(g, "write")
  /\ Extend(g, TRUE) /\ ended' = TRUE
  /\ \/ GoTo(g, IF guard[g].mirror THEN "open" ELSE "unlock") /\ UNCHANGED flock
     \/ MayFail /\ Raise(g)
  /\ UNCHANGED <<ledgerVars, key, decided, answered, stalled>>

\* Mutant: a failure to write is passed over.
WriteFailsUnseen(g) ==
  /\ At(g, "write") /\ MayFail
  /\ GoTo(g, "unlock")
  /\ UNCHANGED <<ledgerVars, key, chain, ended, flock, decided, answered, joined, stalled>>

\* Nothing is written: the disk is full.
WriteFails(g) ==
  /\ At(g, "write") /\ MayFail
  /\ Raise(g)
  /\ UNCHANGED <<ledgerVars, key, chain, ended, decided, answered, joined, stalled>>

\* The guard dies having written all but the newline, or less.
Tear(g) ==
  /\ At(g, "write") /\ MayTear
  /\ \E whole \in BOOLEAN : Extend(g, whole)
  /\ ended' = FALSE
  /\ Raise(g)
  /\ UNCHANGED <<ledgerVars, key, decided, answered, stalled>>

\* _mirror_to_universal_ledger: a ledger is opened and appended to; whatever
\* fails is passed over, an event that does not validate included.
MirrorOpen(g) ==
  /\ At(g, "open") /\ Connect(g)
  /\ GoTo(g, "mirror")
  /\ UNCHANGED <<key, chain, ended, flock, decided, answered, joined, stalled>>

MirrorWrite(g) ==
  /\ At(g, "mirror") /\ Begin(g, guard[g].id, TRUE)
  /\ GoTo(g, "close")
  /\ UNCHANGED <<key, chain, ended, flock, decided, answered, joined, stalled>>

MirrorClose(g) ==
  /\ At(g, "close") \/ At(g, "mirror")
  /\ Close(g)
  /\ GoTo(g, "unlock")
  /\ UNCHANGED <<key, chain, ended, flock, decided, answered, joined, stalled>>

\* Mutant: the lock is released before the mirror is written.
UnlockEarly(g) ==
  \/ /\ At(g, "open") /\ flock = g /\ flock' = None
     /\ UNCHANGED <<ledgerVars, key, chain, ended, guard, decided, answered, joined, stalled>>
  \/ /\ At(g, "unlock")
     /\ Raise(g) /\ answered' = answered \cup {guard[g].id}
     /\ UNCHANGED <<ledgerVars, key, chain, ended, decided, joined, stalled>>

Unlock(g) ==
  /\ At(g, "unlock")
  /\ Raise(g) /\ answered' = answered \cup {guard[g].id}
  /\ UNCHANGED <<ledgerVars, key, chain, ended, decided, joined, stalled>>

Die(p) ==
  /\ MayDie
  /\ Drop(p)
  /\ IF p \in Guards THEN Raise(p) ELSE UNCHANGED <<flock, guard>>
  /\ UNCHANGED <<key, chain, ended, decided, answered, joined, stalled>>

-----------------------------------------------------------------------------
(* The clerks                                                              *)

\* _ledger_write, its ledger opened before it.
Enter(c) == Connect(c) /\ UNCHANGED chainVars
Record(c) == (\E exact \in BOOLEAN : Begin(c, None, exact)) /\ UNCHANGED chainVars
Leave(c) == Close(c) /\ UNCHANGED chainVars

Statement(p) == LedgerStep(p) /\ UNCHANGED chainVars

Verdict(g) == \E mirror \in Mirrored : Decide(g, mirror)

GuardStep(g) ==
  \/ Verdict(g) \/ Lock(g) \/ Records(g) \/ Key(g) \/ Fill(g)
  \/ Write(g) \/ WriteFails(g) \/ Tear(g)
  \/ MirrorOpen(g) \/ MirrorWrite(g) \/ MirrorClose(g) \/ Unlock(g)

Next ==
  \/ \E g \in Guards : GuardStep(g)
  \/ \E c \in Clerks : Enter(c) \/ Record(c) \/ Leave(c)
  \/ \E p \in Procs : Statement(p) \/ Die(p)

Spec == Init /\ [][Next]_vars

-----------------------------------------------------------------------------
(* Properties                                                              *)

\* The types of the state; a lock that is held is held by somebody at work.
TypeOK ==
  /\ table \in {"none", "old", "new"}
  /\ genesis \in Procs \cup {0, None} /\ writer \in Procs \cup {None}
  /\ \A k \in DOMAIN rows : rows[k].event \in Int /\ rows[k].exact \in BOOLEAN
  /\ \A p \in Procs : conn[p].origin \in Procs \cup {0, None}
  /\ key \in {"none", "empty", "whole"} /\ ended \in BOOLEAN
  /\ chain \in Seq([id : Nat, prev : Nat, whole : BOOLEAN])
  /\ flock \in Guards \cup {None} /\ stalled \in BOOLEAN
  /\ \A g \in Guards : flock = g => ~At(g, "idle") /\ ~At(g, "lock")
  /\ \A p \in Procs : writer = p => conn[p].pc \in {"tip", "number", "insert"}
  /\ answered \subseteq 1 .. decided /\ joined \subseteq 1 .. decided

\* The ledger both parties write is sound: on top of the types, verify() tells
\* what it should and the numbers have no gap.
LedgerSound == TypeOK /\ LedgerVerifies /\ NumbersConsecutive

\* The chain holds: every line names the one before it and can be read, but for
\* the last (whose writer died), for what was written onto a line without an
\* end, and unless a guard has gone on without the lock.
ChainHolds ==
  ~stalled => \A k \in DOMAIN chain :
    /\ chain[k].prev = IF k = 1 THEN 0 ELSE chain[k - 1].id
    /\ chain[k].whole \/ k = Len(chain)

\* A guard answers nothing that its chain does not hold; a line that lacks its
\* end takes at most the next answer with it.
AnsweredIsRecorded ==
  /\ \A d \in answered \ joined :
       \E k \in DOMAIN chain : chain[k].id = d /\ chain[k].whole
  /\ ~stalled => Cardinality(joined) <= 2

\* The ledger has the guards' decisions each at most once, and in the order of
\* the chain, but for what was written onto a line without an end.
MirrorInOrder ==
  \A j, k \in DOMAIN rows :
    j < k /\ rows[j].of # None /\ rows[k].of # None =>
      /\ rows[j].of # rows[k].of
      /\ ~stalled /\ rows[j].of \notin joined /\ rows[k].of \notin joined =>
           \E m, n \in DOMAIN chain : m < n /\ chain[m].id = rows[j].of /\ chain[n].id = rows[k].of
=============================================================================
