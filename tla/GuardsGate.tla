---------------------------- MODULE GuardsGate ----------------------------
(***************************************************************************)
(* The gate that says which harness guards are on (guards/gate.py): one    *)
(* state file, guards.json, and its backup, which `custodian guards        *)
(* enable` and `disable` rewrite and every hook of a guard reads.          *)
(*                                                                         *)
(* A command holds a lock on a sibling file from its reading to its last   *)
(* write.  Each file is written to a temporary file of its own, synced and *)
(* renamed into place; the directory is synced before the rename and not   *)
(* after it.  A hook reads without the lock, and reads the state twice:    *)
(* is it fail-closed, and is my guard on?                                  *)
(*                                                                         *)
(* Around it, files rot (to no JSON, or to JSON of another shape), the     *)
(* directory's mode is loosened, processes die and the power fails.  The   *)
(* lock is POSIX's, which waits; a symbolic link is left out, being to the *)
(* reader what a loose mode is.                                            *)
(***************************************************************************)
EXTENDS Naturals

CONSTANTS
  Guards,     \* GUARD_NAMES
  Operators,  \* shells, each running one command at a time
  Hooks,      \* processes of the harnesses
  Nobody,
  Missing, Corrupt, Misshapen,  \* files without a valid state
  MaxCommands, MaxChecks,       \* bounds on the commands and on the hooks' checks,
  MaxFaults                     \* and on everything that goes wrong

ASSUME GateFilesAssumption ==
  Missing # Corrupt /\ Missing # Misshapen /\ Corrupt # Misshapen
ASSUME GateActorsAssumption == Nobody \notin Operators
ASSUME GateBoundsAssumption ==
  MaxCommands \in Nat /\ MaxChecks \in Nat /\ MaxFaults \in Nat

VARIABLES
  main, bak,  \* guards.json and guards.json.bak
  synced,     \* what their names held when the directory was last synced
  loose,      \* is the directory writable for others?
  lock, op,   \* who holds .guards.lock; where each command stands
  hook,       \* where each hook's check stands
  commands, checks, faults,
  rotted,     \* history: has a file rotted?
  armed,      \* history: guards whose enabling was reported and backed up
  kept,       \* history: those at the last sync
  held        \* history: the checks of an armed guard that nothing disturbed

fileVars    == <<main, bak, synced, loose>>
countVars   == <<commands, checks, faults>>
historyVars == <<rotted, armed, kept>>
gateVars == <<fileVars, lock, op, hook, countVars, historyVars, held>>

States == [on : SUBSET Guards, failClosed : BOOLEAN]
Files  == States \cup {Missing, Corrupt, Misshapen}
Valid(file) == file \notin {Missing, Corrupt, Misshapen}

ASSUME GateStatesAssumption == \A state \in States : Valid(state)

Dormant    == [on |-> {}, failClosed |-> FALSE]
FailClosed == [on |-> {}, failClosed |-> TRUE]

Idle    == [pc |-> "idle", guard |-> Nobody, on |-> FALSE, data |-> Dormant, saved |-> FALSE]
Resting == [pc |-> "idle", guard |-> Nobody]

GateInit ==
  /\ main = Missing /\ bak = Missing
  /\ synced = [main |-> Missing, bak |-> Missing] /\ loose = FALSE
  /\ lock = Nobody /\ op = [o \in Operators |-> Idle]
  /\ hook = [h \in Hooks |-> Resting]
  /\ commands = 0 /\ checks = 0 /\ faults = 0
  /\ rotted = FALSE /\ armed = {} /\ kept = {} /\ held = {}
---------------------------------------------------------------------------
(* load_state.  The backup stands in for a file that cannot be parsed, and *)
(* not for one of the wrong shape.                                         *)

NeedsBackup == ~loose /\ main = Corrupt

LoadMain ==
  IF ~loose /\ main = Missing THEN Dormant
  ELSE IF ~loose /\ Valid(main) THEN main ELSE FailClosed

LoadBackup == IF Valid(bak) THEN bak ELSE FailClosed

Load == IF NeedsBackup THEN LoadBackup ELSE LoadMain
---------------------------------------------------------------------------
(* A check of an armed guard holds until the directory is loosened, the    *)
(* state turns fail-closed, or the backup it is about to read turns bad.   *)
Holds ==
  held' = {h \in Hooks :
    /\ hook'[h].pc # "idle"
    /\ IF hook[h].pc = "idle" THEN hook'[h].guard \in armed ELSE h \in held
    /\ loose' => loose
    /\ Load'.failClosed => Load.failClosed
    /\ hook[h].pc \in {"first_bak", "second_bak"} /\ Valid(bak) => Valid(bak')}
---------------------------------------------------------------------------
(* enable and disable                                                      *)

Sets(o, fields) == op' = [op EXCEPT ![o] = fields]
Ends(o) == Sets(o, Idle) /\ lock' = Nobody

\* Mutant: nobody locks.
BeginUnlocked(o, g, on) ==
  /\ op[o].pc = "idle" /\ commands < MaxCommands
  /\ commands' = commands + 1
  /\ (g \in Load.on) # on
  /\ lock' = o
  /\ Sets(o, [pc |-> "sync", guard |-> g, on |-> on, saved |-> FALSE,
              data |-> [Load EXCEPT !.on = IF on THEN @ \cup {g} ELSE @ \ {g}]])
  /\ armed' = IF on THEN armed ELSE armed \ {g}
  /\ UNCHANGED <<fileVars, hook, checks, faults, rotted, kept>>
  /\ Holds

(* A guard that is as asked already is left alone.  What was loaded is     *)
(* written back with the one guard changed, its fail-closed mark included. *)
Begin(o, g, on) ==
  /\ op[o].pc = "idle" /\ lock = Nobody /\ commands < MaxCommands
  /\ commands' = commands + 1
  /\ (g \in Load.on) # on
  /\ lock' = o
  /\ Sets(o, [pc |-> "sync", guard |-> g, on |-> on, saved |-> FALSE,
              data |-> [Load EXCEPT !.on = IF on THEN @ \cup {g} ELSE @ \ {g}]])
  /\ armed' = IF on THEN armed ELSE armed \ {g}
  /\ UNCHANGED <<fileVars, hook, checks, faults, rotted, kept>>
  /\ Holds

\* Mutant: the file is written in place.
SyncInPlace(o) ==
  /\ op[o].pc = "sync"
  /\ main' = Corrupt
  /\ Sets(o, [op[o] EXCEPT !.pc = "replace"])
  /\ UNCHANGED <<bak, synced, loose, lock, hook, countVars, historyVars>>
  /\ Holds

\* The temporary file is whole; with its name every earlier rename is durable.
Sync(o) ==
  /\ op[o].pc = "sync"
  /\ synced' = [main |-> main, bak |-> bak] /\ kept' = armed
  /\ Sets(o, [op[o] EXCEPT !.pc = "replace"])
  /\ UNCHANGED <<main, bak, loose, lock, hook, countVars, rotted, armed>>
  /\ Holds

Replace(o) ==
  /\ op[o].pc = "replace"
  /\ main' = op[o].data
  /\ Sets(o, [op[o] EXCEPT !.pc = "backup"])
  /\ UNCHANGED <<bak, synced, loose, lock, hook, countVars, historyVars>>
  /\ Holds

\* The backup is a copy of the file as it is found; it may fail in silence.
Backup(o) ==
  /\ op[o].pc = "backup"
  /\ \/ bak' = main /\ UNCHANGED faults
        /\ Sets(o, [op[o] EXCEPT !.pc = "report", !.saved = TRUE])
     \/ faults < MaxFaults /\ faults' = faults + 1 /\ UNCHANGED bak
        /\ Sets(o, [op[o] EXCEPT !.pc = "report"])
  /\ UNCHANGED <<main, synced, loose, lock, hook, commands, checks, historyVars>>
  /\ Holds

Report(o) ==
  /\ op[o].pc = "report"
  /\ Ends(o)
  /\ armed' = IF op[o].on /\ op[o].saved THEN armed \cup {op[o].guard} ELSE armed
  /\ UNCHANGED <<fileVars, hook, countVars, rotted, kept>>
  /\ Holds
---------------------------------------------------------------------------
(* A hook: fail-closed denies, a guard that is off defers to the harness,  *)
(* and one that is on decides.                                             *)

Check(h, g) ==
  /\ hook[h].pc = "idle" /\ checks < MaxChecks
  /\ checks' = checks + 1
  /\ hook' = [hook EXCEPT ![h] = [pc |-> "first", guard |-> g]]
  /\ UNCHANGED <<fileVars, lock, op, commands, faults, historyVars>>
  /\ Holds

Sees(h, reading, data) ==
  hook' = [hook EXCEPT ![h] =
    IF reading = "first" THEN IF data.failClosed THEN Resting ELSE [@ EXCEPT !.pc = "second"]
    ELSE IF @.guard \in data.on THEN Resting ELSE [@ EXCEPT !.pc = "deferred"]]

ReadMain(h) ==
  /\ hook[h].pc \in {"first", "second"}
  /\ IF NeedsBackup
     THEN hook' = [hook EXCEPT ![h].pc = IF @ = "first" THEN "first_bak" ELSE "second_bak"]
     ELSE Sees(h, hook[h].pc, LoadMain)
  /\ UNCHANGED <<fileVars, lock, op, countVars, historyVars>>
  /\ Holds

ReadBackup(h) ==
  /\ hook[h].pc \in {"first_bak", "second_bak"}
  /\ Sees(h, IF hook[h].pc = "first_bak" THEN "first" ELSE "second", LoadBackup)
  /\ UNCHANGED <<fileVars, lock, op, countVars, historyVars>>
  /\ Holds

Defer(h) ==
  /\ hook[h].pc = "deferred"
  /\ hook' = [hook EXCEPT ![h] = Resting]
  /\ UNCHANGED <<fileVars, lock, op, countVars, historyVars>>
  /\ Holds
---------------------------------------------------------------------------
(* What goes wrong.                                                        *)

Fault == faults < MaxFaults /\ faults' = faults + 1 /\ UNCHANGED <<commands, checks>>

\* The file rots where it lies, under its name on the disk too.
Rot(file) ==
  /\ Fault
  /\ \E to \in {Corrupt, Misshapen} :
       IF file = "main"
       THEN /\ main # Missing /\ main' = to /\ UNCHANGED bak
            /\ synced' = IF synced.main = main THEN [synced EXCEPT !.main = to] ELSE synced
       ELSE /\ bak # Missing /\ bak' = to /\ UNCHANGED main
            /\ synced' = IF synced.bak = bak THEN [synced EXCEPT !.bak = to] ELSE synced
  /\ rotted' = TRUE
  /\ UNCHANGED <<loose, lock, op, hook, armed, kept>>
  /\ Holds

Loosen ==
  /\ Fault /\ ~loose /\ loose' = TRUE
  /\ UNCHANGED <<main, bak, synced, lock, op, hook, historyVars>>
  /\ Holds

Tighten ==
  /\ loose /\ loose' = FALSE
  /\ UNCHANGED <<main, bak, synced, lock, op, hook, countVars, historyVars>>
  /\ Holds

OperatorDies(o) ==
  /\ Fault /\ op[o].pc # "idle" /\ Ends(o)
  /\ UNCHANGED <<fileVars, hook, historyVars>>
  /\ Holds

\* Each rename that was not synced is there after the restart, or is not.
PowerFails ==
  /\ Fault
  /\ main' \in {main, synced.main} /\ bak' \in {bak, synced.bak}
  /\ synced' = [main |-> main', bak |-> bak']
  /\ lock' = Nobody /\ op' = [o \in Operators |-> Idle]
  /\ hook' = [h \in Hooks |-> Resting]
  /\ armed' = armed \cap kept
  /\ UNCHANGED <<loose, rotted, kept>>
  /\ Holds

OperatorStep(o) ==
  \/ \E g \in Guards, on \in BOOLEAN : Begin(o, g, on)
  \/ Sync(o) \/ Replace(o) \/ Backup(o) \/ Report(o)
HookStep(h) ==
  \/ \E g \in Guards : Check(h, g)
  \/ ReadMain(h) \/ ReadBackup(h) \/ Defer(h)
GoesWrong ==
  \/ \E file \in {"main", "bak"} : Rot(file)
  \/ \E o \in Operators : OperatorDies(o)
  \/ Loosen \/ Tighten \/ PowerFails

GateNext ==
  \/ \E o \in Operators : OperatorStep(o)
  \/ \E h \in Hooks : HookStep(h)
  \/ GoesWrong

GateSpec == GateInit /\ [][GateNext]_gateVars
----------------------------------------------------------------------------
GateTypeOK ==
  /\ main \in Files /\ bak \in Files /\ loose \in BOOLEAN
  /\ synced \in [main : Files, bak : Files]
  /\ lock \in Operators \cup {Nobody}
  /\ op \in [Operators ->
       [pc : {"idle", "sync", "replace", "backup", "report"},
        guard : Guards \cup {Nobody}, on : BOOLEAN, data : States, saved : BOOLEAN]]
  /\ hook \in [Hooks ->
       [pc : {"idle", "first", "first_bak", "second", "second_bak", "deferred"},
        guard : Guards \cup {Nobody}]]
  /\ commands \in 0 .. MaxCommands /\ checks \in 0 .. MaxChecks
  /\ faults \in 0 .. MaxFaults
  /\ rotted \in BOOLEAN /\ armed \subseteq Guards /\ kept \subseteq Guards
  /\ held \subseteq Hooks

(* Every variable keeps its kind; and unless a file has rotted, guards.json*)
(* and its backup are whole or not there, and only a loose directory makes *)
(* a hook fail closed: two commands, a death between any two writes and a  *)
(* power failure never produce a file the reader refuses (_write_state).   *)
OwnWritesStayWhole ==
  /\ GateTypeOK
  /\ ~rotted =>
       /\ \A file \in {main, bak, synced.main, synced.bak} : Valid(file) \/ file = Missing
       /\ \A o \in Operators : op[o].pc # "idle" => lock = o

(* Once an enabling was reported and backed up, and until a disabling of   *)
(* the guard begins, no hook of it defers to the harness: not while other  *)
(* commands rewrite the file or die, not when the file or its backup has   *)
(* rotted, nor after a power failure when the directory was synced since   *)
(* (load_state, enable, disable, _dormant_defer).  Only a check during     *)
(* which the state turns fail-closed, the directory is loosened or the     *)
(* backup it reads next turns bad, may miss that between its readings.     *)
ArmedGuardsAnswer ==
  [][\A h \in Hooks :
       hook[h].pc # "deferred" /\ hook'[h].pc = "deferred"
       => ~(h \in held /\ hook[h].guard \in armed)]_gateVars

(* An enabling that is reported, with its state in place and the directory *)
(* tight, leaves a gate that is not fail-closed: to re-run it is how a     *)
(* damaged state is rebuilt (the messages of load_state).                  *)
EnableRebuilds ==
  [][\A o \in Operators :
       op[o].pc = "report" /\ op'[o].pc = "idle" /\ faults' = faults
       /\ op[o].on /\ ~loose /\ main = op[o].data
       => ~Load.failClosed]_gateVars
============================================================================
