---------------------------- MODULE KillSwitch ----------------------------
(***************************************************************************)
(* `custodian kill` and `custodian resume` (cli/cmd_kill.py,               *)
(* cli/cmd_resume.py) over the stores of the kill switch                   *)
(* (storage/sqlite.py): the row of a workspace's database, and two mirror  *)
(* files, one in the workspace and one in the home directory, which every  *)
(* workspace of the user shares.                                           *)
(*                                                                         *)
(* set_kill_switch commits the row and then writes the mirrors in place,   *)
(* each first truncated and then filled.  A mirror that cannot be written  *)
(* is passed over in silence.  Nothing keeps two commands apart, and one   *)
(* may die anywhere.  What the reason and the names say is left out, but   *)
(* not that they give the files' contents different lengths.               *)
(*                                                                         *)
(* The dashboard's operator panel (dashboard/api/operator.py) writes the   *)
(* home directory's file too, on its own: it knows of no row.              *)
(***************************************************************************)
EXTENDS Naturals, FiniteSets

CONSTANTS
  Workspaces,  \* state directories
  Home,        \* ~/.custodian, the one whose mirror they share
  Operators,   \* shells and requests of the panel, each a command at a time
  None,
  MaxCommands, \* bound on the commands that are run
  MaxFaults    \* bound on the writes that fail and the processes that die

ASSUME PlacesAssumption ==
  Home \notin Workspaces /\ None \notin Workspaces \cup {Home} /\ None \notin BOOLEAN
ASSUME KillBoundsAssumption ==
  MaxCommands \in Nat /\ MaxFaults \in Nat

VARIABLES
  row,      \* is the switch engaged, by a workspace's database
  mirror,   \* and by each kill_switch.json: "missing", "torn", "killed", "live"
  op,       \* where each operator's command stands
  commands, faults,
  settled   \* history: what the last command that was done with a mirror,
            \* undisturbed, made of it; None when there is no such command

storeVars  == <<row, mirror>>
switchVars == <<row, mirror, op, commands, faults, settled>>

Places == Workspaces \cup {Home}
Idle == [pc |-> "idle", ws |-> None, kill |-> FALSE, at |-> None,
         missed |-> {}, contested |-> {}]

SwitchInit ==
  /\ row = [w \in Workspaces |-> FALSE]
  /\ mirror = [f \in Places |-> "missing"]
  /\ op = [o \in Operators |-> Idle]
  /\ commands = 0 /\ faults = 0
  /\ settled = [f \in Places |-> None]

Busy(o) == op[o].pc # "idle"

\* The mirrors a command of w writes; one of the panel is Home's.
Targets(w) == {w, Home}

\* The mirror a command of w writes after f: the workspace's, then the home's.
\* Mutant: the home directory is forgotten.
AfterAlone(f) == None
After(f) == IF f = Home THEN None ELSE Home
---------------------------------------------------------------------------
(* A kill asks nothing.  A resume reads the row first, and has nothing to  *)
(* do when it is clear, whatever the mirrors say.                          *)

(* History: when two commands overlap and one is a resume, neither may     *)
(* claim a mirror the other writes.                                        *)
Clashing(kill) == {o \in Operators : Busy(o) /\ ~(kill /\ op[o].kill)}

Begins(o, w, kill) ==
  /\ ~Busy(o) /\ commands < MaxCommands
  /\ commands' = commands + 1
  /\ op' = [x \in Operators |->
       IF x = o
       THEN [Idle EXCEPT !.pc = IF w = Home THEN "open" ELSE "row", !.ws = w, !.kill = kill, !.at = w,
              !.contested = Targets(w) \cap UNION {Targets(op[y].ws) : y \in Clashing(kill)}]
       ELSE IF x \in Clashing(kill) THEN [op[x] EXCEPT !.contested = @ \cup (Targets(w) \cap Targets(op[x].ws))]
       ELSE op[x]]
  /\ settled' = [f \in Places |->
       IF f \in Targets(w) /\ ~(kill /\ settled[f] = TRUE) THEN None ELSE settled[f]]
  /\ UNCHANGED <<storeVars, faults>>

Kill(o, w) == Begins(o, w, TRUE)

Resume(o, w) == row[w] /\ Begins(o, w, FALSE)

(* The panel's kill button, and those that clear: resume, reset, and the   *)
(* demonstration's first spend, which releases the switch it finds.        *)
PanelKill(o) == Begins(o, Home, TRUE)

PanelResume(o) == Begins(o, Home, FALSE)

\* The panel's own reader takes a file it cannot parse for a released switch.
PanelStops == mirror[Home] = "killed"

PanelAutoRelease(o) == PanelStops /\ Begins(o, Home, FALSE)
---------------------------------------------------------------------------
(* set_kill_switch                                                         *)

Sets(o, fields) == op' = [op EXCEPT ![o] = fields]

\* On to the next mirror, or to what the command says.
Proceeds(o, failed) ==
  Sets(o, [op[o] EXCEPT !.at = After(op[o].at),
             !.pc = IF After(op[o].at) = None THEN "report" ELSE "open",
             !.missed = @ \cup failed])

CommitRow(o) ==
  /\ op[o].pc = "row"
  /\ row' = [row EXCEPT ![op[o].ws] = op[o].kill]
  /\ Sets(o, [op[o] EXCEPT !.pc = "open"])
  /\ UNCHANGED <<mirror, commands, faults, settled>>

OpenMirror(o) ==
  /\ op[o].pc = "open"
  /\ mirror' = [mirror EXCEPT ![op[o].at] = "torn"]
  /\ Sets(o, [op[o] EXCEPT !.pc = "write"])
  /\ UNCHANGED <<row, commands, faults, settled>>

Content(o) == IF op[o].kill THEN "killed" ELSE "live"

\* What another command wrote since may be longer, and its end is then left.
FillMirror(o) ==
  /\ op[o].pc = "write"
  /\ \E text \in {Content(o)} \cup (IF mirror[op[o].at] = "torn" THEN {} ELSE {"torn"}) :
       mirror' = [mirror EXCEPT ![op[o].at] = text]
  /\ Proceeds(o, {})
  /\ UNCHANGED <<row, commands, faults, settled>>

\* The file cannot be opened, or the disk is full: it is left as it is.  To
\* the panel this is an error, with which its command ends (OperatorDies).
MirrorFails(o) ==
  /\ op[o].pc \in {"open", "write"} /\ op[o].ws # Home /\ faults < MaxFaults
  /\ faults' = faults + 1
  /\ Proceeds(o, {op[o].at})
  /\ UNCHANGED <<storeVars, commands, settled>>

\* The audit entry and the ledger's event are written, or warned about.
Report(o) ==
  /\ op[o].pc = "report"
  /\ Sets(o, Idle)
  /\ settled' = [f \in Places |->
       IF f \in Targets(op[o].ws) \ (op[o].missed \cup op[o].contested) THEN op[o].kill ELSE settled[f]]
  /\ UNCHANGED <<storeVars, commands, faults>>

OperatorDies(o) ==
  /\ Busy(o) /\ faults < MaxFaults
  /\ faults' = faults + 1
  /\ Sets(o, Idle)
  /\ UNCHANGED <<storeVars, commands, settled>>

OperatorStep(o) ==
  \/ \E w \in Workspaces : Kill(o, w) \/ Resume(o, w)
  \/ PanelKill(o) \/ PanelResume(o) \/ PanelAutoRelease(o)
  \/ CommitRow(o) \/ OpenMirror(o) \/ FillMirror(o) \/ MirrorFails(o)
  \/ Report(o) \/ OperatorDies(o)
---------------------------------------------------------------------------
(* What the kernel's readers make of a mirror: one that is not there stops *)
(* nothing, one that cannot be parsed stops everything.                    *)

\* Mutant: only a file that says so stops a call.
StopsIfReadable(f) == mirror[f] = "killed"

Stops(f) == mirror[f] \in {"killed", "torn"}
===========================================================================
