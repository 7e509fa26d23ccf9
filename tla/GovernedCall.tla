--------------------------- MODULE GovernedCall ---------------------------
(***************************************************************************)
(* The calls the kernel stands in front of, while the kill switch is       *)
(* turned and the code of a governed function is edited.                   *)
(*                                                                         *)
(* A function under @govern (govern.py) first compares the hash of its     *)
(* source with the snapshot of an earlier call, and takes the snapshot if  *)
(* there is none.  It is then decided like a request of a session          *)
(* (session.py) or of the ASGI middleware (middleware.py), which come here *)
(* directly: the kill switch's mirror is read in the caller's state        *)
(* directory, and the policy answers.  A tool of the registry              *)
(* (tools/registry.py) of band L2 or higher asks kernel_gate               *)
(* (policy/gate.py), which reads the mirror of CUSTODIAN_STATE_DIR or of   *)
(* the home directory; one of a lower band runs unasked, and its calls are *)
(* left out.  The dashboard's panel, before it has a payment run, reads     *)
(* the home directory's mirror in a way of its own.                        *)
(*                                                                         *)
(* What the policy decides for a live call is either answer here; it has a *)
(* specification of its own, PolicyDecision.                               *)
(***************************************************************************)
EXTENDS KillSwitch

CONSTANTS
  Callers,   \* threads, of one process or of several
  MaxCalls, MaxEdits  \* bounds

ASSUME CallBoundsAssumption ==
  MaxCalls \in Nat /\ MaxEdits \in Nat

VARIABLES
  source,    \* the version of the governed function's file
  snapshot,  \* the version <key>.bk.sha names, or None
  call,      \* where each caller stands
  calls,
  trusted    \* history: the snapshot once no first run, or what passes for
             \* one, was under way

vars == <<switchVars, source, snapshot, call, calls, trusted>>

Resting == [pc |-> "idle", at |-> None, sha |-> 0]

Init ==
  /\ SwitchInit
  /\ source = 0 /\ snapshot = None /\ trusted = None
  /\ call = [c \in Callers |-> Resting] /\ calls = 0

At(c, pc)   == call[c].pc = pc
GoTo(c, pc) == call' = [call EXCEPT ![c].pc = pc]
Checked(c)  == call' = [call EXCEPT ![c] = [Resting EXCEPT !.pc = "evaluate"]]
Answers(c)  == call' = [call EXCEPT ![c] = Resting]

EditSource ==
  /\ source < MaxEdits
  /\ source' = source + 1
  /\ UNCHANGED <<switchVars, snapshot, call, calls, trusted>>
---------------------------------------------------------------------------
(* Beginning a call.                                                       *)

Enters(c, pc, sha) ==
  /\ At(c, "idle") /\ calls < MaxCalls
  /\ calls' = calls + 1
  /\ call' = [call EXCEPT ![c] = [pc |-> pc, at |-> None, sha |-> sha]]
  /\ UNCHANGED <<switchVars, source, snapshot, trusted>>

\* _source_sha
Govern(c) == Enters(c, "compare", source)

\* CustodianSession.request, CustodianMiddleware, CustodianTool.invoke
Ask(c) == Enters(c, "evaluate", 0)

\* The panel's spend asks the file of the home directory alone.
PanelSpend(c) ==
  /\ At(c, "idle") /\ calls < MaxCalls
  /\ calls' = calls + 1
  /\ IF PanelStops THEN UNCHANGED call
     ELSE call' = [call EXCEPT ![c] = [pc |-> "run", at |-> Home, sha |-> 0]]
  /\ UNCHANGED <<switchVars, source, snapshot, trusted>>
---------------------------------------------------------------------------
(* _tamper_check                                                           *)

\* Mutant: a snapshot that does not match is taken again.
CompareLeniently(c) ==
  /\ At(c, "compare")
  /\ IF snapshot = call[c].sha THEN Checked(c) ELSE GoTo(c, "prepare")
  /\ UNCHANGED <<switchVars, source, snapshot, calls, trusted>>

\* A snapshot that stays locked through every retry is taken for none: another
\* first run is under way.
Compare(c) ==
  /\ At(c, "compare")
  /\ \/ GoTo(c, "prepare") /\ trusted' = None
     \/ snapshot = call[c].sha /\ Checked(c) /\ UNCHANGED trusted
     \/ snapshot \notin {None, call[c].sha} /\ GoTo(c, "drift") /\ UNCHANGED trusted
  /\ UNCHANGED <<switchVars, source, snapshot, calls>>

\* Mutant: the snapshot is written in place, and a part of it is no version's.
PrepareInPlace(c) ==
  /\ At(c, "prepare")
  /\ snapshot' = MaxEdits + 1 /\ GoTo(c, "replace")
  /\ UNCHANGED <<switchVars, source, calls, trusted>>

PrepareSnapshot(c) ==
  /\ At(c, "prepare")
  /\ GoTo(c, "replace")
  /\ UNCHANGED <<switchVars, source, snapshot, calls, trusted>>

(* History: a snapshot is trusted once nobody is about to replace it.      *)
FirstRunning(calling) == \E c \in Callers : calling[c].pc \in {"prepare", "replace"}
Trusts ==
  trusted' = IF trusted = None /\ ~FirstRunning(call') THEN snapshot' ELSE trusted

ReplaceSnapshot(c) ==
  /\ At(c, "replace")
  /\ snapshot' = call[c].sha /\ Checked(c)
  /\ Trusts
  /\ UNCHANGED <<switchVars, source, calls>>

\* A snapshot that cannot be written denies the call.
SnapshotFails(c) ==
  /\ call[c].pc \in {"prepare", "replace"} /\ faults < MaxFaults
  /\ faults' = faults + 1
  /\ UNCHANGED snapshot /\ Answers(c)
  /\ Trusts
  /\ UNCHANGED <<row, mirror, op, commands, settled, source, calls>>
---------------------------------------------------------------------------
(* _evaluate, kernel_gate: the caller reads the mirror of the state         *)
(* directory it is configured with.  A call the switch does not stop is    *)
(* granted, or not, as the policy has it.                                  *)
Evaluate(c) ==
  /\ At(c, "evaluate")
  /\ \/ Answers(c)
     \/ \E f \in Places :
          ~Stops(f) /\ call' = [call EXCEPT ![c].pc = "run", ![c].at = f]
  /\ UNCHANGED <<switchVars, source, snapshot, calls, trusted>>

\* The function or script has run, or the tamper check's denial is given.
Return(c) ==
  /\ call[c].pc \in {"run", "drift"}
  /\ Answers(c)
  /\ UNCHANGED <<switchVars, source, snapshot, calls, trusted>>

(* A process dies with its call.                                           *)
CallerDies(c) ==
  /\ ~At(c, "idle") /\ faults < MaxFaults
  /\ faults' = faults + 1
  /\ Answers(c)
  /\ UNCHANGED snapshot /\ Trusts
  /\ UNCHANGED <<row, mirror, op, commands, settled, source, calls>>

CallerStep(c) ==
  \/ Govern(c) \/ Ask(c) \/ PanelSpend(c)
  \/ Compare(c) \/ PrepareSnapshot(c) \/ ReplaceSnapshot(c) \/ SnapshotFails(c)
  \/ Evaluate(c) \/ Return(c) \/ CallerDies(c)

Turning(o) ==
  OperatorStep(o) /\ UNCHANGED <<source, snapshot, call, calls, trusted>>

Next ==
  \/ \E o \in Operators : Turning(o)
  \/ \E c \in Callers : CallerStep(c)
  \/ EditSource

Spec == Init /\ [][Next]_vars
----------------------------------------------------------------------------
Versions == 0 .. MaxEdits
Commands == [pc : {"idle", "row", "open", "write", "report"},
             ws : Places \cup {None}, kill : BOOLEAN, at : Places \cup {None},
             missed : SUBSET Places, contested : SUBSET Places]

(* Every variable keeps its kind: a snapshot is missing or whole, and a    *)
(* command is at a mirror exactly until it reports.                        *)
TypeOK ==
  /\ row \in [Workspaces -> BOOLEAN]
  /\ mirror \in [Places -> {"missing", "torn", "killed", "live"}]
  /\ op \in [Operators -> Commands]
  /\ \A o \in Operators : op[o].at # None <=> op[o].pc \in {"row", "open", "write"}
  /\ commands \in 0 .. MaxCommands /\ faults \in 0 .. MaxFaults
  /\ calls \in 0 .. MaxCalls
  /\ settled \in [Places -> BOOLEAN \cup {None}]
  /\ source \in Versions /\ snapshot \in Versions \cup {None}
  /\ trusted \in Versions \cup {None}
  /\ \A c \in Callers : call[c].sha \in Versions /\ call[c].at \in Places \cup {None}

(* Once a kill has reported that no other command disturbed (none that     *)
(* began earlier and was still at it, or began meanwhile, was a resume), no *)
(* call that then asks is let run on a state directory whose mirror the    *)
(* kill reached, until somebody begins to resume: not during a second kill *)
(* either, nor after one that died.  The panel lets its own run only while *)
(* the file is truncated and not yet filled, or was left so                *)
(* (SqliteStorage._mirror_kill_switch, _evaluate, kernel_gate,             *)
(* _read_flask_kill_switch).                                               *)
NothingRunsUnderAKill ==
  [][\A c \in Callers :
       /\ call[c].pc = "evaluate" /\ call'[c].pc = "run" => settled[call'[c].at] # TRUE
       /\ call[c].pc = "idle" /\ call'[c].pc = "run" =>
            settled[Home] # TRUE \/ mirror[Home] = "torn"]_vars

(* A command that reported, undisturbed by another, left the row and every *)
(* mirror it reached saying the same: what the operator was told holds on  *)
(* every surface (SqliteStorage.set_kill_switch).  On top of the types.    *)
SettledStoresAgree ==
  /\ TypeOK
  /\ \A w \in Workspaces : settled[w] # None => row[w] = settled[w]
  /\ \A f \in Places : settled[f] # None => Stops(f) = settled[f]

(* While nobody edits the function, no call is denied for drift, however   *)
(* many first runs race and wherever one dies (_tamper_check's own         *)
(* temporary file and os.replace).                                         *)
NoFalseDrift == source = 0 => \A c \in Callers : call[c].pc # "drift"

(* Once the first runs are over, a call of an edited function is never     *)
(* run: the snapshot they left is the one every later call is held to,     *)
(* until a call finds it locked through every retry and takes its own      *)
(* instead (_tamper_check).                                                *)
EditsAreCaught ==
  [][\A c \in Callers :
       call[c].pc \in {"compare", "prepare", "replace"} /\ call'[c].pc = "evaluate"
       /\ trusted # None => call[c].sha = trusted]_vars
============================================================================
