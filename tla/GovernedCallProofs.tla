------------------------- MODULE GovernedCallProofs -------------------------
(***************************************************************************)
(* Proofs about GovernedCall, and with it about KillSwitch, for any number *)
(* of workspaces, operators and callers, and any number of commands,       *)
(* calls, edits and faults.                                                *)
(***************************************************************************)
EXTENDS GovernedCall, TLAPS

-----------------------------------------------------------------------------
(* The inductive invariant of the kill switch.                             *)

\* A command works on a place, and is at one of the mirrors it writes.
CommandsTargeted ==
  \A o \in Operators : Busy(o) =>
    /\ op[o].ws \in Places
    /\ op[o].at # None => op[o].at \in Targets(op[o].ws)
    /\ op[o].pc = "row" => op[o].ws \in Workspaces /\ op[o].at = op[o].ws

\* Two commands of which one is a resume both know what they contend for.
Contended ==
  \A o, p \in Operators :
    o # p /\ Busy(o) /\ Busy(p) /\ ~(op[o].kill /\ op[p].kill)
    => Targets(op[o].ws) \cap Targets(op[p].ws) \subseteq op[o].contested

\* The mirrors a command has behind it.
Passed(o) == {f \in Targets(op[o].ws) : op[o].pc = "report" \/ (op[o].at = Home /\ f # Home)}

\* What a command has behind it, uncontested, is as it left it; and a mirror a
\* resume has truncated is still empty when it fills it.
Left(o) ==
  Busy(o) =>
    /\ op[o].pc # "row" /\ op[o].ws \in Workspaces \ op[o].contested =>
         row[op[o].ws] = op[o].kill
    /\ \A f \in Passed(o) \ (op[o].missed \cup op[o].contested) :
         (Stops(f) <=> op[o].kill)
    /\ op[o].pc = "write" /\ ~op[o].kill /\ op[o].at \notin op[o].contested =>
         mirror[op[o].at] = "torn"

LeftAsMade == \A o \in Operators : Left(o)

\* A settled mirror is only in the hands of commands that say the same: kills,
\* where it stops.
SettledUndisturbed ==
  \A f \in Places, o \in Operators :
    Busy(o) /\ f \in Targets(op[o].ws) =>
      /\ settled[f] # FALSE
      /\ settled[f] = TRUE => op[o].kill

Agreed ==
  /\ \A w \in Workspaces : settled[w] # None => row[w] = settled[w]
  /\ \A f \in Places :
       (settled[f] = TRUE => Stops(f)) /\ (settled[f] = FALSE => ~Stops(f))

SwitchTypes ==
  /\ row \in [Workspaces -> BOOLEAN]
  /\ mirror \in [Places -> {"missing", "torn", "killed", "live"}]
  /\ op \in [Operators -> Commands]
  /\ \A o \in Operators : op[o].at # None <=> op[o].pc \in {"row", "open", "write"}
  /\ settled \in [Places -> BOOLEAN \cup {None}]

SwitchInv ==
  /\ CommandsTargeted /\ Contended /\ LeftAsMade /\ SettledUndisturbed /\ Agreed

(* And of the calls.                                                       *)

Calls ==
  [pc : {"idle", "compare", "prepare", "replace", "drift", "evaluate", "run"},
   at : Places \cup {None}, sha : Versions]

\* No hash and no snapshot is of a version to come.
NoneAhead ==
  /\ \A c \in Callers : call[c].sha <= source
  /\ snapshot # None => snapshot <= source

\* A trusted snapshot is the snapshot, and nobody is about to replace it.
TrustedStays == trusted # None => snapshot = trusted /\ ~FirstRunning(call)

CallTypes ==
  /\ call \in [Callers -> Calls]
  /\ source \in Versions /\ snapshot \in Versions \cup {None}
  /\ trusted \in Versions \cup {None}

CountTypes ==
  /\ commands \in 0 .. MaxCommands /\ faults \in 0 .. MaxFaults
  /\ calls \in 0 .. MaxCalls

CInv ==
  /\ SwitchTypes /\ CallTypes /\ CountTypes
  /\ SwitchInv /\ NoneAhead /\ NoFalseDrift

-----------------------------------------------------------------------------
(* What a step makes of the commands.                                      *)

\* A command that begins: what it is, and who learns that it contends.
LEMMA Began ==
  ASSUME op \in [Operators -> Commands], NEW o \in Operators, NEW w \in Places,
         NEW kill \in BOOLEAN, Begins(o, w, kill)
  PROVE  /\ op' \in [Operators -> Commands]
         /\ op[o].pc = "idle"
         /\ op'[o].pc = IF w = Home THEN "open" ELSE "row"
         /\ op'[o].ws = w /\ op'[o].kill = kill /\ op'[o].at = w
         /\ \A p \in Operators \ {o} :
              /\ op'[p].pc = op[p].pc /\ op'[p].ws = op[p].ws /\ op'[p].kill = op[p].kill
              /\ op'[p].at = op[p].at /\ op'[p].missed = op[p].missed
              /\ op[p].contested \subseteq op'[p].contested
              /\ Busy(p) /\ ~(kill /\ op[p].kill) =>
                   /\ Targets(w) \cap Targets(op[p].ws) \subseteq op'[p].contested
                   /\ Targets(w) \cap Targets(op[p].ws) \subseteq op'[o].contested
<1>1. Targets(w) \subseteq Places  BY DEF Targets, Places
<1> DEFINE meets == Targets(w) \cap UNION {Targets(op[y].ws) : y \in Clashing(kill)}
           mine == [Idle EXCEPT !.pc = IF w = Home THEN "open" ELSE "row",
                      !.ws = w, !.kill = kill, !.at = w, !.contested = meets]
           warned(p) == [op[p] EXCEPT !.contested =
                           @ \cup (Targets(w) \cap Targets(op[p].ws))]
<1>2. /\ op' = [x \in Operators |->
                  IF x = o THEN mine ELSE IF x \in Clashing(kill) THEN warned(x) ELSE op[x]]
      /\ op[o].pc = "idle"
  BY DEF Begins, Busy
<1>3. meets \in SUBSET Places
      /\ \A p \in Clashing(kill) : Targets(w) \cap Targets(op[p].ws) \subseteq meets
  BY <1>1
<1>4. /\ mine \in Commands
      /\ mine.pc = IF w = Home THEN "open" ELSE "row"
      /\ mine.ws = w /\ mine.kill = kill /\ mine.at = w /\ mine.contested = meets
  <2> DEFINE pc == IF w = Home THEN "open" ELSE "row"
  <2>a. mine = [Idle EXCEPT !.pc = pc, !.ws = w, !.kill = kill, !.at = w, !.contested = meets]
        /\ pc \in {"open", "row"}
    OBVIOUS
  <2> HIDE DEF meets, pc, mine
  <2>1. mine = [pc |-> pc, ws |-> w, kill |-> kill, at |-> w,
                missed |-> {}, contested |-> meets]
    BY <2>a DEF Idle
  <2>2. /\ mine \in Commands /\ mine.pc = pc
        /\ mine.ws = w /\ mine.kill = kill /\ mine.at = w /\ mine.contested = meets
    BY <1>3, <2>a, <2>1 DEF Commands
  <2> QED  BY <2>2 DEF pc
<1>5. ASSUME NEW p \in Operators
      PROVE  /\ warned(p) \in Commands
             /\ warned(p).pc = op[p].pc /\ warned(p).ws = op[p].ws
             /\ warned(p).kill = op[p].kill /\ warned(p).at = op[p].at
             /\ warned(p).missed = op[p].missed
             /\ op[p].contested \subseteq warned(p).contested
             /\ Targets(w) \cap Targets(op[p].ws) \subseteq warned(p).contested
  <2> DEFINE both == op[p].contested \cup (Targets(w) \cap Targets(op[p].ws))
  <2>1. op[p] \in Commands  OBVIOUS
  <2>2. both \in SUBSET Places  BY <1>1, <2>1 DEF Commands
  <2>3. warned(p) = [op[p] EXCEPT !.contested = both]  OBVIOUS
  <2>4. op[p].contested \subseteq both /\ Targets(w) \cap Targets(op[p].ws) \subseteq both
    OBVIOUS
  <2> HIDE DEF both, warned
  <2> QED  BY <2>1, <2>2, <2>3, <2>4 DEF Commands
<1>6. \A p \in Operators : Busy(p) /\ ~(kill /\ op[p].kill) <=> p \in Clashing(kill)
  BY DEF Clashing
<1> HIDE DEF mine, warned, meets
<1>7. op'[o] = mine
      /\ \A p \in Operators \ {o} :
           op'[p] = IF p \in Clashing(kill) THEN warned(p) ELSE op[p]
  BY <1>2
<1>8. op' \in [Operators -> Commands]  BY <1>2, <1>4, <1>5
<1> QED  BY <1>2, <1>3, <1>4, <1>5, <1>6, <1>7, <1>8

\* The next mirror, and what a command is when it goes on to it.
LEMMA Proceeded ==
  ASSUME op \in [Operators -> Commands], NEW o \in Operators,
         NEW failed \in SUBSET Places, Proceeds(o, failed)
  PROVE  /\ op' \in [Operators -> Commands]
         /\ op[o].at = Home => op'[o].pc = "report" /\ op'[o].at = None
         /\ op[o].at # Home => op'[o].pc = "open" /\ op'[o].at = Home
         /\ op'[o].ws = op[o].ws /\ op'[o].kill = op[o].kill
         /\ op'[o].missed = op[o].missed \cup failed
         /\ op'[o].contested = op[o].contested
         /\ \A p \in Operators \ {o} : op'[p] = op[p]
<1> DEFINE next == After(op[o].at)
           pc == IF next = None THEN "report" ELSE "open"
           missed == op[o].missed \cup failed
           c == [op[o] EXCEPT !.at = next, !.pc = pc, !.missed = missed]
<1>1. op[o] \in Commands  OBVIOUS
<1>2. /\ next \in Places \cup {None} /\ pc \in {"report", "open"}
      /\ op[o].at = Home => pc = "report" /\ next = None
      /\ op[o].at # Home => pc = "open" /\ next = Home
  BY PlacesAssumption DEF After, Places
<1>3. missed \in SUBSET Places  BY <1>1 DEF Commands
<1>4. op' = [op EXCEPT ![o] = c]  BY DEF Proceeds, Sets
<1> HIDE DEF next, pc, missed
<1>5. /\ c \in Commands
      /\ c.at = next /\ c.pc = pc /\ c.missed = missed /\ c.ws = op[o].ws
      /\ c.kill = op[o].kill /\ c.contested = op[o].contested
  BY <1>1, <1>2, <1>3 DEF Commands
<1> HIDE DEF c
<1>6. op' \in [Operators -> Commands] /\ op'[o] = c /\ \A p \in Operators \ {o} : op'[p] = op[p]
  BY <1>4, <1>5
<1> QED  BY <1>2, <1>5, <1>6 DEF missed

\* A command that moves on within a mirror's writing.
LEMMA PcMoved ==
  ASSUME op \in [Operators -> Commands], NEW o \in Operators, NEW pc \in {"open", "write"},
         op' = [op EXCEPT ![o] = [op[o] EXCEPT !.pc = pc]]
  PROVE  /\ op' \in [Operators -> Commands]
         /\ op'[o].pc = pc /\ op'[o].at = op[o].at
         /\ op'[o].ws = op[o].ws /\ op'[o].kill = op[o].kill
         /\ op'[o].missed = op[o].missed /\ op'[o].contested = op[o].contested
         /\ \A p \in Operators \ {o} : op'[p] = op[p]
<1>1. op[o] \in Commands  OBVIOUS
<1> DEFINE c == [op[o] EXCEPT !.pc = pc]
<1>a. op' = [op EXCEPT ![o] = c]  OBVIOUS
<1>2. /\ c \in Commands /\ c.pc = pc /\ c.at = op[o].at /\ c.ws = op[o].ws
      /\ c.kill = op[o].kill /\ c.missed = op[o].missed /\ c.contested = op[o].contested
  BY <1>1 DEF Commands
<1> HIDE DEF c
<1>3. op' \in [Operators -> Commands] /\ op'[o] = c /\ \A p \in Operators \ {o} : op'[p] = op[p]
  BY <1>a, <1>2
<1> QED  BY <1>2, <1>3

LEMMA WentIdle ==
  ASSUME op \in [Operators -> Commands], NEW o \in Operators, Sets(o, Idle)
  PROVE  /\ op' \in [Operators -> Commands]
         /\ op'[o].pc = "idle" /\ op'[o].at = None
         /\ \A p \in Operators \ {o} : op'[p] = op[p]
<1>1. Idle \in Commands /\ Idle.pc = "idle" /\ Idle.at = None  BY DEF Idle, Commands
<1> QED  BY <1>1 DEF Sets

\* Every way of beginning.
LEMMA Beginnings ==
  ASSUME NEW o \in Operators,
         \/ \E w \in Workspaces : Kill(o, w) \/ Resume(o, w)
         \/ PanelKill(o) \/ PanelResume(o) \/ PanelAutoRelease(o)
  PROVE  \E w \in Places, kill \in BOOLEAN : Begins(o, w, kill)
<1>1. Home \in Places /\ Workspaces \subseteq Places  BY DEF Places
<1> QED  BY <1>1 DEF Kill, Resume, PanelKill, PanelResume, PanelAutoRelease

-----------------------------------------------------------------------------
(* The kill switch: a settled mirror says what its command said.           *)

\* Who writes an uncontested mirror of another command agrees with it.
LEMMA WritersAgree ==
  ASSUME Contended, NEW o \in Operators, NEW p \in Operators, o # p, Busy(o), Busy(p),
         NEW f \in Targets(op[o].ws) \cap Targets(op[p].ws), f \notin op[p].contested
  PROVE  op[o].kill /\ op[p].kill
BY DEF Contended

\* What a command that does not move has behind it stays as it made it when
\* another writes a mirror, or the row.
LEMMA OthersLeft ==
  ASSUME SwitchTypes, SwitchInv, NEW o \in Operators, Busy(o),
         NEW p \in Operators, p # o, op'[p] = op[p],
         NEW f \in Targets(op[o].ws), NEW text \in {"torn", "killed", "live"},
         op[o].kill => text # "live",
         \/ UNCHANGED mirror
         \/ mirror' = [mirror EXCEPT ![f] = text],
         \/ UNCHANGED row
         \/ op[o].ws \in Workspaces /\ row' = [row EXCEPT ![op[o].ws] = op[o].kill]
  PROVE  Left(p)'
<1> SUFFICES ASSUME Busy(p)
             PROVE  /\ op[p].pc # "row" /\ op[p].ws \in Workspaces \ op[p].contested =>
                         row'[op[p].ws] = op[p].kill
                    /\ \A g \in Passed(p) \ (op[p].missed \cup op[p].contested) :
                         (mirror'[g] \in {"killed", "torn"} <=> op[p].kill)
                    /\ op[p].pc = "write" /\ ~op[p].kill /\ op[p].at \notin op[p].contested =>
                         mirror'[op[p].at] = "torn"
  BY DEF Left, Busy, Passed, Stops
<1>1. /\ op[p].pc # "row" /\ op[p].ws \in Workspaces \ op[p].contested =>
           row[op[p].ws] = op[p].kill
      /\ \A g \in Passed(p) \ (op[p].missed \cup op[p].contested) :
           (mirror[g] \in {"killed", "torn"} <=> op[p].kill)
      /\ op[p].pc = "write" /\ ~op[p].kill /\ op[p].at \notin op[p].contested =>
           mirror[op[p].at] = "torn"
  BY DEF SwitchInv, LeftAsMade, Left, Stops
<1>2. op[o] \in Commands /\ op[p] \in Commands /\ mirror \in [Places -> {"missing", "torn", "killed", "live"}]
      /\ row \in [Workspaces -> BOOLEAN]
  BY DEF SwitchTypes
<1>3. op[o].ws \in Places /\ op[p].ws \in Places /\ f \in Places
  BY DEF SwitchInv, CommandsTargeted, Targets, Places
<1>4. f \in Targets(op[p].ws) \ op[p].contested => op[o].kill /\ op[p].kill
  BY WritersAgree DEF SwitchInv
<1>5. op[o].ws = op[p].ws /\ op[p].ws \notin op[p].contested => op[o].kill /\ op[p].kill
  BY WritersAgree DEF SwitchInv, Targets
<1>6. ASSUME op[p].pc # "row", op[p].ws \in Workspaces \ op[p].contested
      PROVE  row'[op[p].ws] = op[p].kill
  <2>1. CASE op[o].ws = op[p].ws
    <3>1. op[o].kill = TRUE /\ op[p].kill = TRUE  BY <1>2, <1>5, <1>6, <2>1 DEF Commands
    <3> QED  BY <1>1, <1>2, <1>6, <2>1, <3>1
  <2>2. CASE op[o].ws # op[p].ws  BY <1>1, <1>2, <1>6, <2>2
  <2> QED  BY <2>1, <2>2
<1>7. ASSUME NEW g \in Passed(p) \ (op[p].missed \cup op[p].contested)
      PROVE  mirror'[g] \in {"killed", "torn"} <=> op[p].kill
  <2>1. g \in Targets(op[p].ws) /\ g \in Places
    BY <1>3 DEF Passed, Targets, Places
  <2>2. CASE g = f  BY <1>1, <1>2, <1>3, <1>4, <2>1, <2>2
  <2>3. CASE g # f  BY <1>1, <1>2, <1>3, <2>1, <2>3
  <2> QED  BY <2>2, <2>3
<1>8. ASSUME op[p].pc = "write", ~op[p].kill, op[p].at \notin op[p].contested
      PROVE  mirror'[op[p].at] = "torn"
  <2>1. op[p].at \in Targets(op[p].ws)
    BY <1>8 DEF SwitchTypes, SwitchInv, CommandsTargeted
  <2>2. op[p].at # f /\ op[p].at \in Places
    BY <1>3, <1>4, <1>8, <2>1 DEF Targets, Places
  <2> QED  BY <1>1, <1>2, <1>3, <1>8, <2>2
<1> QED  BY <1>6, <1>7, <1>8

\* And what is settled stays so.
LEMMA StaysAgreed ==
  ASSUME SwitchTypes, SwitchInv, NEW o \in Operators, Busy(o), UNCHANGED settled,
         NEW f \in Targets(op[o].ws), NEW text \in {"torn", "killed", "live"},
         op[o].kill => text # "live",
         \/ UNCHANGED mirror
         \/ mirror' = [mirror EXCEPT ![f] = text],
         \/ UNCHANGED row
         \/ op[o].ws \in Workspaces /\ row' = [row EXCEPT ![op[o].ws] = op[o].kill]
  PROVE  Agreed'
<1>1. op[o] \in Commands /\ mirror \in [Places -> {"missing", "torn", "killed", "live"}]
      /\ row \in [Workspaces -> BOOLEAN] /\ settled \in [Places -> BOOLEAN \cup {None}]
  BY DEF SwitchTypes
<1>2. op[o].ws \in Places /\ f \in Places  BY DEF SwitchInv, CommandsTargeted, Targets, Places
<1>3. \A g \in Targets(op[o].ws) : settled[g] # FALSE /\ (settled[g] = TRUE => op[o].kill)
  BY <1>2 DEF SwitchInv, SettledUndisturbed, Targets, Places
<1>4. /\ \A w \in Workspaces : settled[w] # None => row[w] = settled[w]
      /\ \A g \in Places :
           /\ settled[g] = TRUE => mirror[g] \in {"killed", "torn"}
           /\ settled[g] = FALSE => mirror[g] \notin {"killed", "torn"}
  BY DEF SwitchInv, Agreed, Stops
<1>5. ASSUME NEW w \in Workspaces, settled[w] # None PROVE row'[w] = settled[w]
  <2>1. w \in Places  BY DEF Places
  <2>2. CASE w = op[o].ws
    <3>1. settled[w] = TRUE /\ op[o].kill = TRUE
      BY <1>1, <1>3, <1>5, <2>1, <2>2 DEF Targets, Commands
    <3> QED  BY <1>1, <1>4, <1>5, <2>2, <3>1
  <2>3. CASE w # op[o].ws  BY <1>1, <1>4, <1>5, <2>3
  <2> QED  BY <2>2, <2>3
<1>6. ASSUME NEW g \in Places
      PROVE  /\ settled[g] = TRUE => mirror'[g] \in {"killed", "torn"}
             /\ settled[g] = FALSE => mirror'[g] \notin {"killed", "torn"}
  <2>1. CASE g = f  BY <1>1, <1>2, <1>3, <1>4, <2>1
  <2>2. CASE g # f  BY <1>1, <1>2, <1>4, <2>2
  <2> QED  BY <2>1, <2>2
<1> QED  BY <1>5, <1>6 DEF Agreed, Stops

\* Whom a command contends with does not change while it is under way.
LEMMA StaysContended ==
  ASSUME SwitchInv, UNCHANGED settled, NEW o \in Operators, Busy(o),
         op'[o].ws = op[o].ws, op'[o].kill = op[o].kill, op'[o].contested = op[o].contested,
         \A p \in Operators \ {o} : op'[p] = op[p]
  PROVE  Contended' /\ SettledUndisturbed'
<1>1. \A p \in Operators :
        /\ op'[p].ws = op[p].ws /\ op'[p].kill = op[p].kill
        /\ op'[p].contested = op[p].contested
        /\ Busy(p)' => Busy(p)
  BY DEF Busy
<1>2. Contended'
  <2> SUFFICES ASSUME NEW p \in Operators, NEW q \in Operators, p # q, Busy(p)', Busy(q)',
                      ~(op'[p].kill /\ op'[q].kill)
               PROVE  Targets(op'[p].ws) \cap Targets(op'[q].ws) \subseteq op'[p].contested
    BY DEF Contended, Targets
  <2>1. Targets(op[p].ws) \cap Targets(op[q].ws) \subseteq op[p].contested
    BY <1>1 DEF SwitchInv, Contended
  <2> QED  BY <1>1, <2>1
<1>3. SettledUndisturbed'
  <2> SUFFICES ASSUME NEW f \in Places, NEW p \in Operators, Busy(p)', f \in Targets(op'[p].ws)
               PROVE  settled'[f] # FALSE /\ (settled'[f] = TRUE => op'[p].kill)
    BY DEF SettledUndisturbed, Targets
  <2>1. settled[f] # FALSE /\ (settled[f] = TRUE => op[p].kill)
    BY <1>1 DEF SwitchInv, SettledUndisturbed
  <2> QED  BY <1>1, <2>1
<1> QED  BY <1>2, <1>3

LEMMA BeginsKeeps ==
  ASSUME SwitchTypes, SwitchInv, NEW o \in Operators, NEW w \in Places, NEW kill \in BOOLEAN,
         Begins(o, w, kill)
  PROVE  SwitchTypes' /\ SwitchInv'
<1>1. op \in [Operators -> Commands]  BY DEF SwitchTypes
<1>2. /\ op' \in [Operators -> Commands]
      /\ op[o].pc = "idle"
      /\ op'[o].pc = IF w = Home THEN "open" ELSE "row"
      /\ op'[o].ws = w /\ op'[o].kill = kill /\ op'[o].at = w
      /\ \A p \in Operators \ {o} :
           /\ op'[p].pc = op[p].pc /\ op'[p].ws = op[p].ws /\ op'[p].kill = op[p].kill
           /\ op'[p].at = op[p].at /\ op'[p].missed = op[p].missed
           /\ op[p].contested \subseteq op'[p].contested
           /\ Busy(p) /\ ~(kill /\ op[p].kill) =>
                /\ Targets(w) \cap Targets(op[p].ws) \subseteq op'[p].contested
                /\ Targets(w) \cap Targets(op[p].ws) \subseteq op'[o].contested
  BY <1>1, Began
<1>3. UNCHANGED <<row, mirror>>  BY DEF Begins, storeVars
<1>4. /\ settled' = [f \in Places |->
           IF f \in Targets(w) /\ ~(kill /\ settled[f] = TRUE) THEN None ELSE settled[f]]
  BY DEF Begins
<1>5. settled \in [Places -> BOOLEAN \cup {None}] /\ None # TRUE /\ None # FALSE
  BY PlacesAssumption DEF SwitchTypes
<1>6. \A f \in Places :
        /\ settled'[f] \in {None, settled[f]}
        /\ f \in Targets(w) => settled'[f] = None \/ (kill /\ settled'[f] = TRUE)
  BY <1>4
<1>7. SwitchTypes'
  <2>1. settled' \in [Places -> BOOLEAN \cup {None}]  BY <1>4, <1>5
  <2>2. \A p \in Operators : op'[p].at # None <=> op'[p].pc \in {"row", "open", "write"}
    BY <1>2, PlacesAssumption DEF SwitchTypes, Places
  <2> QED  BY <1>2, <1>3, <2>1, <2>2 DEF SwitchTypes
<1>8. CommandsTargeted'
  BY <1>2 DEF SwitchInv, CommandsTargeted, Busy, Targets, Places
<1>9. Contended'
  <2> SUFFICES ASSUME NEW p \in Operators, NEW q \in Operators, p # q, Busy(p)', Busy(q)',
                      ~(op'[p].kill /\ op'[q].kill)
               PROVE  Targets(op'[p].ws) \cap Targets(op'[q].ws) \subseteq op'[p].contested
    BY DEF Contended, Targets
  <2>1. CASE p = o  BY <1>2, <2>1 DEF Busy, Targets
  <2>2. CASE q = o  BY <1>2, <2>2 DEF Busy, Targets
  <2>3. CASE p # o /\ q # o
    <3>1. Targets(op[p].ws) \cap Targets(op[q].ws) \subseteq op[p].contested
      BY <1>2, <2>3 DEF SwitchInv, Contended, Busy
    <3> QED  BY <1>2, <2>3, <3>1
  <2> QED  BY <2>1, <2>2, <2>3
<1>10. LeftAsMade'
  <2> SUFFICES ASSUME NEW p \in Operators PROVE Left(p)'  BY DEF LeftAsMade
  <2>1. CASE p = o
    <3>1. w = Home => w \notin Workspaces  BY PlacesAssumption
    <3>2. Passed(o)' = {}  BY <1>2 DEF Passed, Targets
    <3> QED  BY <1>2, <2>1, <3>1, <3>2 DEF Left
  <2>2. CASE p # o
    <3>1. Passed(p)' = Passed(p)  BY <1>2, <2>2 DEF Passed, Targets
    <3>2. Left(p)  BY DEF SwitchInv, LeftAsMade
    <3> QED  BY <1>2, <1>3, <2>2, <3>1, <3>2 DEF Left, Busy, Stops
  <2> QED  BY <2>1, <2>2
<1>11. SettledUndisturbed'
  <2> SUFFICES ASSUME NEW f \in Places, NEW p \in Operators, Busy(p)', f \in Targets(op'[p].ws)
               PROVE  settled'[f] # FALSE /\ (settled'[f] = TRUE => op'[p].kill)
    BY DEF SettledUndisturbed, Targets
  <2>1. CASE p = o  BY <1>2, <1>5, <1>6, <2>1
  <2>2. CASE p # o
    <3>1. settled[f] # FALSE /\ (settled[f] = TRUE => op[p].kill)
      BY <1>2, <2>2 DEF SwitchInv, SettledUndisturbed, Busy
    <3> QED  BY <1>2, <1>5, <1>6, <2>2, <3>1
  <2> QED  BY <2>1, <2>2
<1>12. Agreed'
  <2>1. \A g \in Places : settled'[g] # None => settled'[g] = settled[g]  BY <1>6
  <2> QED  BY <1>3, <1>5, <1>6, <2>1 DEF SwitchInv, Agreed, Stops, Places
<1> QED  BY <1>7, <1>8, <1>9, <1>10, <1>11, <1>12 DEF SwitchInv

LEMMA CommitKeeps ==
  ASSUME SwitchTypes, SwitchInv, NEW o \in Operators, CommitRow(o)
  PROVE  SwitchTypes' /\ SwitchInv'
<1>1. op \in [Operators -> Commands] /\ op[o] \in Commands
      /\ row \in [Workspaces -> BOOLEAN]
  BY DEF SwitchTypes
<1>2. /\ op' \in [Operators -> Commands]
      /\ op[o].pc = "row" /\ op'[o].pc = "open" /\ op'[o].at = op[o].at
      /\ op'[o].ws = op[o].ws /\ op'[o].kill = op[o].kill
      /\ op'[o].missed = op[o].missed /\ op'[o].contested = op[o].contested
      /\ \A p \in Operators \ {o} : op'[p] = op[p]
  <2>1. op' = [op EXCEPT ![o] = [op[o] EXCEPT !.pc = "open"]] /\ op[o].pc = "row"
    BY DEF CommitRow, Sets
  <2> QED  BY <1>1, <2>1, PcMoved
<1>3. row' = [row EXCEPT ![op[o].ws] = op[o].kill] /\ UNCHANGED <<mirror, settled>>
  BY DEF CommitRow
<1>4. op[o].ws \in Workspaces /\ op[o].at = op[o].ws /\ Busy(o)
  BY <1>2 DEF SwitchInv, CommandsTargeted, Busy
<1>5. SwitchTypes'
  BY <1>1, <1>2, <1>3, <1>4 DEF SwitchTypes, Commands
<1>6. CommandsTargeted'
  BY <1>2, <1>4 DEF SwitchInv, CommandsTargeted, Busy, Targets
<1>9. Contended' /\ SettledUndisturbed'  BY <1>2, <1>3, <1>4, StaysContended
<1>7. LeftAsMade'
  <2>1. Left(o)'
    <3>1. row'[op[o].ws] = op[o].kill  BY <1>1, <1>3, <1>4
    <3>2. Passed(o)' = {}
      BY <1>2, <1>4, PlacesAssumption DEF Passed, Targets
    <3> QED  BY <1>2, <3>1, <3>2 DEF Left
  <2>2. ASSUME NEW p \in Operators, p # o PROVE Left(p)'
    <3>1. op[o].ws \in Targets(op[o].ws)  BY DEF Targets
    <3>2. op'[p] = op[p]  BY <1>2, <2>2
    <3> QED  BY <1>3, <1>4, <2>2, <3>1, <3>2, OthersLeft
  <2> QED  BY <2>1, <2>2 DEF LeftAsMade
<1>8. Agreed'
  <2>1. op[o].ws \in Targets(op[o].ws)  BY DEF Targets
  <2> QED  BY <1>3, <1>4, <2>1, StaysAgreed
<1> QED  BY <1>5, <1>6, <1>9, <1>7, <1>8 DEF SwitchInv

LEMMA OpenKeeps ==
  ASSUME SwitchTypes, SwitchInv, NEW o \in Operators, OpenMirror(o)
  PROVE  SwitchTypes' /\ SwitchInv'
<1>1. op \in [Operators -> Commands] /\ op[o] \in Commands
      /\ mirror \in [Places -> {"missing", "torn", "killed", "live"}]
  BY DEF SwitchTypes
<1>2. /\ op' \in [Operators -> Commands]
      /\ op[o].pc = "open" /\ op'[o].pc = "write" /\ op'[o].at = op[o].at
      /\ op'[o].ws = op[o].ws /\ op'[o].kill = op[o].kill
      /\ op'[o].missed = op[o].missed /\ op'[o].contested = op[o].contested
      /\ \A p \in Operators \ {o} : op'[p] = op[p]
  <2>1. op' = [op EXCEPT ![o] = [op[o] EXCEPT !.pc = "write"]] /\ op[o].pc = "open"
    BY DEF OpenMirror, Sets
  <2> QED  BY <1>1, <2>1, PcMoved
<1>3. mirror' = [mirror EXCEPT ![op[o].at] = "torn"] /\ UNCHANGED <<row, settled>>
  BY DEF OpenMirror
<1>4. Busy(o) /\ op[o].at \in Targets(op[o].ws) /\ op[o].at \in Places
  BY <1>2 DEF SwitchTypes, SwitchInv, CommandsTargeted, Busy, Targets, Places
<1>5. SwitchTypes'
  BY <1>1, <1>2, <1>3, <1>4 DEF SwitchTypes
<1>6. CommandsTargeted'
  BY <1>2, <1>4 DEF SwitchInv, CommandsTargeted, Busy, Targets
<1>9. Contended' /\ SettledUndisturbed'  BY <1>2, <1>3, <1>4, StaysContended
<1>7. LeftAsMade'
  <2>1. Left(o)'
    <3>1. Passed(o)' = Passed(o) /\ op[o].at \notin Passed(o)
      BY <1>2, <1>4 DEF Passed, Targets
    <3>2. mirror'[op[o].at] = "torn"
          /\ \A f \in Places \ {op[o].at} : mirror'[f] = mirror[f]
      BY <1>1, <1>3, <1>4
    <3>3. Passed(o) \subseteq Places
      BY <1>4 DEF Passed, SwitchInv, CommandsTargeted, Targets, Places
    <3>4. Left(o)  BY DEF SwitchInv, LeftAsMade
    <3> QED  BY <1>2, <1>3, <3>1, <3>2, <3>3, <3>4 DEF Left, Busy, Stops
  <2>2. ASSUME NEW p \in Operators, p # o PROVE Left(p)'
    <3>1. op'[p] = op[p]  BY <1>2, <2>2
    <3> QED  BY <1>3, <1>4, <2>2, <3>1, OthersLeft
  <2> QED  BY <2>1, <2>2 DEF LeftAsMade
<1>8. Agreed'  BY <1>3, <1>4, StaysAgreed
<1> QED  BY <1>5, <1>6, <1>9, <1>7, <1>8 DEF SwitchInv

\* What goes on from a mirror: with the mirror filled, or passed over.
LEMMA ProceedsKeeps ==
  ASSUME SwitchTypes, SwitchInv, NEW o \in Operators, FillMirror(o) \/ MirrorFails(o)
  PROVE  SwitchTypes' /\ SwitchInv'
<1>1. op \in [Operators -> Commands] /\ op[o] \in Commands
      /\ mirror \in [Places -> {"missing", "torn", "killed", "live"}]
  BY DEF SwitchTypes
<1>2. op[o].pc \in {"open", "write"} /\ UNCHANGED <<row, settled>>
  BY DEF FillMirror, MirrorFails, storeVars
<1>3. Busy(o) /\ op[o].at \in Targets(op[o].ws) /\ op[o].at \in Places
  BY <1>2 DEF SwitchTypes, SwitchInv, CommandsTargeted, Busy, Targets, Places
<1>4. PICK failed \in SUBSET Places, text \in {"torn", "killed", "live"} :
        /\ Proceeds(o, failed)
        /\ op[o].kill => text # "live"
        /\ \/ UNCHANGED mirror /\ op[o].at \in failed
           \/ /\ mirror' = [mirror EXCEPT ![op[o].at] = text] /\ op[o].pc = "write"
              /\ ~op[o].kill /\ mirror[op[o].at] = "torn" => text = "live"
  <2>1. CASE FillMirror(o)
    <3>1. PICK text \in {Content(o)} \cup (IF mirror[op[o].at] = "torn" THEN {} ELSE {"torn"}) :
            mirror' = [mirror EXCEPT ![op[o].at] = text]
      BY <2>1 DEF FillMirror
    <3>2. /\ text \in {"torn", "killed", "live"} /\ (op[o].kill => text # "live")
          /\ ~op[o].kill /\ mirror[op[o].at] = "torn" => text = "live"
      BY <1>1, <3>1 DEF Content
    <3> QED  BY <2>1, <3>1, <3>2 DEF FillMirror
  <2>2. CASE MirrorFails(o)
    <3>1. {op[o].at} \in SUBSET Places  BY <1>3
    <3> QED  BY <2>2, <3>1 DEF MirrorFails, storeVars
  <2> QED  BY <2>1, <2>2
<1>5. /\ op' \in [Operators -> Commands]
      /\ op[o].at = Home => op'[o].pc = "report" /\ op'[o].at = None
      /\ op[o].at # Home => op'[o].pc = "open" /\ op'[o].at = Home
      /\ op'[o].ws = op[o].ws /\ op'[o].kill = op[o].kill
      /\ op'[o].missed = op[o].missed \cup failed
      /\ op'[o].contested = op[o].contested
      /\ \A p \in Operators \ {o} : op'[p] = op[p]
  BY <1>1, <1>4, Proceeded
<1>6. SwitchTypes'
  <2>1. mirror' \in [Places -> {"missing", "torn", "killed", "live"}]  BY <1>1, <1>3, <1>4
  <2>2. \A p \in Operators : op'[p].at # None <=> op'[p].pc \in {"row", "open", "write"}
    BY <1>5, PlacesAssumption DEF SwitchTypes
  <2> QED  BY <1>2, <1>5, <2>1, <2>2 DEF SwitchTypes
<1>7. CommandsTargeted'
  BY <1>3, <1>5 DEF SwitchInv, CommandsTargeted, Busy, Targets
<1>8. Contended' /\ SettledUndisturbed'
  BY <1>2, <1>3, <1>5, StaysContended
<1>9. LeftAsMade'
  <2>1. Left(o)'
    <3>1. Passed(o)' \subseteq Passed(o) \cup {op[o].at} /\ Passed(o)' \subseteq Places
      BY <1>3, <1>5 DEF Passed, Targets, SwitchInv, CommandsTargeted, Places
    <3>2. Left(o)  BY DEF SwitchInv, LeftAsMade
    <3>3. op'[o].pc # "write" /\ op[o].pc # "row"  BY <1>2, <1>5
    <3>4. ASSUME NEW f \in Passed(o)' \ (op'[o].missed \cup op'[o].contested)
          PROVE  mirror'[f] \in {"killed", "torn"} <=> op[o].kill
      <4>1. f \in Places /\ f \notin op[o].missed /\ f \notin op[o].contested /\ f \notin failed
        BY <1>5, <3>1
      <4>2. CASE f = op[o].at
        <5>1. mirror'[f] = text /\ op[o].pc = "write"
              /\ (~op[o].kill /\ mirror[op[o].at] = "torn" => text = "live")
          BY <1>1, <1>4, <4>1, <4>2
        <5>2. ~op[o].kill => mirror[op[o].at] = "torn"
          BY <1>3, <3>2, <4>1, <4>2, <5>1 DEF Left
        <5> QED  BY <1>4, <5>1, <5>2
      <4>3. CASE f # op[o].at
        <5>1. f \in Passed(o)  BY <3>1, <4>3
        <5>2. mirror[f] \in {"killed", "torn"} <=> op[o].kill
          BY <1>3, <3>2, <4>1, <5>1 DEF Left, Stops
        <5>3. mirror'[f] = mirror[f]  BY <1>1, <1>4, <4>1, <4>3
        <5> QED  BY <5>2, <5>3
      <4> QED  BY <4>2, <4>3
    <3> QED  BY <1>2, <1>3, <1>5, <3>2, <3>3, <3>4 DEF Left, Stops
  <2>2. ASSUME NEW p \in Operators, p # o PROVE Left(p)'
    <3>1. op'[p] = op[p]  BY <1>5, <2>2
    <3> QED  BY <1>2, <1>3, <1>4, <2>2, <3>1, OthersLeft
  <2> QED  BY <2>1, <2>2 DEF LeftAsMade
<1>10. Agreed'  BY <1>2, <1>3, <1>4, StaysAgreed
<1> QED  BY <1>6, <1>7, <1>8, <1>9, <1>10 DEF SwitchInv

LEMMA ReportKeeps ==
  ASSUME SwitchTypes, SwitchInv, NEW o \in Operators, Report(o)
  PROVE  SwitchTypes' /\ SwitchInv'
<1>1. op \in [Operators -> Commands] /\ op[o] \in Commands
      /\ settled \in [Places -> BOOLEAN \cup {None}] /\ None # TRUE /\ None # FALSE
  BY PlacesAssumption DEF SwitchTypes
<1>2. /\ op' \in [Operators -> Commands]
      /\ op[o].pc = "report" /\ op'[o].pc = "idle" /\ op'[o].at = None
      /\ \A p \in Operators \ {o} : op'[p] = op[p]
  BY <1>1, WentIdle DEF Report
<1> DEFINE mine == Targets(op[o].ws) \ (op[o].missed \cup op[o].contested)
<1>3. /\ settled' = [f \in Places |-> IF f \in mine THEN op[o].kill ELSE settled[f]]
      /\ UNCHANGED <<row, mirror>>
  BY DEF Report, storeVars
<1>4. Busy(o) /\ op[o].ws \in Places /\ op[o].kill \in BOOLEAN
  BY <1>1, <1>2 DEF SwitchInv, CommandsTargeted, Busy, Commands
<1>5. Left(o)  BY DEF SwitchInv, LeftAsMade
<1>6. /\ op[o].ws \in Workspaces \ op[o].contested => row[op[o].ws] = op[o].kill
      /\ \A f \in mine : Stops(f) <=> op[o].kill
  BY <1>2, <1>4, <1>5 DEF Left, Passed
<1>7. /\ \A f \in Places : f \in mine => settled'[f] = op[o].kill
      /\ \A f \in Places : f \notin mine => settled'[f] = settled[f]
  BY <1>3
<1>8. SwitchTypes'
  <2>1. settled' \in [Places -> BOOLEAN \cup {None}]
    <3> HIDE DEF mine
    <3> QED  BY <1>1, <1>3, <1>4
  <2> QED  BY <1>2, <1>3, <2>1 DEF SwitchTypes
<1>9. CommandsTargeted' /\ Contended'
  BY <1>2 DEF SwitchInv, CommandsTargeted, Contended, Busy, Targets
<1>10. LeftAsMade'
  BY <1>2, <1>3 DEF SwitchInv, LeftAsMade, Left, Busy, Passed, Targets, Stops
<1>11. SettledUndisturbed'
  <2> SUFFICES ASSUME NEW f \in Places, NEW p \in Operators, Busy(p)', f \in Targets(op'[p].ws)
               PROVE  settled'[f] # FALSE /\ (settled'[f] = TRUE => op'[p].kill)
    BY DEF SettledUndisturbed, Targets
  <2>1. p # o /\ op'[p] = op[p] /\ Busy(p)  BY <1>2 DEF Busy
  <2>2. CASE f \in mine
    <3>1. op[o].kill /\ op[p].kill  BY <1>4, <2>1, <2>2 DEF SwitchInv, Contended
    <3> QED  BY <1>4, <1>7, <2>1, <2>2, <3>1
  <2>3. CASE f \notin mine
    <3>1. settled[f] # FALSE /\ (settled[f] = TRUE => op[p].kill)
      BY <2>1 DEF SwitchInv, SettledUndisturbed
    <3> QED  BY <1>7, <2>1, <2>3, <3>1
  <2> QED  BY <2>2, <2>3
<1>12. Agreed'
  <2>1. ASSUME NEW w \in Workspaces, settled'[w] # None PROVE row'[w] = settled'[w]
    <3>1. w \in Places  BY DEF Places
    <3>2. CASE w \in mine
      <4>1. w = op[o].ws /\ w \notin op[o].contested  BY <3>2, PlacesAssumption DEF Targets
      <4> QED  BY <1>3, <1>6, <1>7, <3>1, <3>2, <4>1
    <3>3. CASE w \notin mine  BY <1>3, <1>7, <2>1, <3>1, <3>3 DEF SwitchInv, Agreed
    <3> QED  BY <3>2, <3>3
  <2>2. ASSUME NEW f \in Places
        PROVE  /\ settled'[f] = TRUE => Stops(f)'
               /\ settled'[f] = FALSE => ~Stops(f)'
    <3>0. Stops(f)' = Stops(f)  BY <1>3 DEF Stops
    <3>1. CASE f \in mine  BY <1>4, <1>6, <1>7, <3>0, <3>1
    <3>2. CASE f \notin mine  BY <1>7, <3>0, <3>2 DEF SwitchInv, Agreed
    <3> QED  BY <3>1, <3>2
  <2> QED  BY <2>1, <2>2 DEF Agreed
<1> QED  BY <1>8, <1>9, <1>10, <1>11, <1>12 DEF SwitchInv

LEMMA DiesKeeps ==
  ASSUME SwitchTypes, SwitchInv, NEW o \in Operators, OperatorDies(o)
  PROVE  SwitchTypes' /\ SwitchInv'
<1>1. /\ op' \in [Operators -> Commands] /\ op'[o].pc = "idle" /\ op'[o].at = None
      /\ \A p \in Operators \ {o} : op'[p] = op[p]
  BY WentIdle DEF SwitchTypes, OperatorDies
<1>2. UNCHANGED <<row, mirror, settled>>  BY DEF OperatorDies, storeVars
<1>3. SwitchTypes'  BY <1>1, <1>2 DEF SwitchTypes
<1>4. CommandsTargeted' /\ Contended' /\ SettledUndisturbed'
  <2>1. \A p \in Operators : Busy(p)' => p # o /\ op'[p] = op[p] /\ Busy(p)
    BY <1>1 DEF Busy
  <2>2. CommandsTargeted'  BY <1>1, <2>1 DEF SwitchInv, CommandsTargeted, Busy, Targets
  <2>3. Contended'  BY <2>1 DEF SwitchInv, Contended, Targets
  <2>4. SettledUndisturbed'  BY <1>2, <2>1 DEF SwitchInv, SettledUndisturbed, Targets
  <2> QED  BY <2>2, <2>3, <2>4
<1>5. LeftAsMade'
  BY <1>1, <1>2 DEF SwitchInv, LeftAsMade, Left, Busy, Passed, Targets, Stops
<1>6. Agreed'  BY <1>2 DEF SwitchInv, Agreed, Stops
<1> QED  BY <1>3, <1>4, <1>5, <1>6 DEF SwitchInv

LEMMA SwitchStep ==
  ASSUME SwitchTypes, SwitchInv,
         (\E o \in Operators : OperatorStep(o)) \/ UNCHANGED <<row, mirror, op, settled>>
  PROVE  SwitchTypes' /\ SwitchInv'
<1>1. CASE UNCHANGED <<row, mirror, op, settled>>
  BY <1>1
  DEF SwitchTypes, SwitchInv, CommandsTargeted, Contended, LeftAsMade, Left,
      SettledUndisturbed, Agreed, Busy, Passed, Targets, Stops
<1>2. ASSUME NEW o \in Operators, OperatorStep(o) PROVE SwitchTypes' /\ SwitchInv'
  <2>1. CASE \/ \E w \in Workspaces : Kill(o, w) \/ Resume(o, w)
             \/ PanelKill(o) \/ PanelResume(o) \/ PanelAutoRelease(o)
    BY <2>1, Beginnings, BeginsKeeps
  <2> QED
    BY <1>2, <2>1, CommitKeeps, OpenKeeps, ProceedsKeeps, ReportKeeps, DiesKeeps
    DEF OperatorStep
<1> QED  BY <1>1, <1>2

-----------------------------------------------------------------------------
(* The calls: snapshots, and counts.                                       *)

\* Where a caller's step leaves it.
Move(c, r) == call' = [call EXCEPT ![c] = r]

\* A caller's step moves that caller only, with no hash of a version to come; to
\* a drift only if it has compared another version with the snapshot.
LEMMA CallMoves ==
  ASSUME CallTypes, NoneAhead, NEW c \in Callers, CallerStep(c)
  PROVE  \E r \in Calls :
           /\ Move(c, r)
           /\ r.sha = call[c].sha \/ r.sha \in {0, source}
           /\ r.pc = "drift" => snapshot \notin {None, call[c].sha}
           /\ r.pc = "prepare" => trusted' = None
           /\ r.pc = "replace" => call[c].pc = "prepare"
<1> DEFINE Good(r) ==
      /\ Move(c, r)
      /\ r.sha = call[c].sha \/ r.sha \in {0, source}
      /\ r.pc = "drift" => snapshot \notin {None, call[c].sha}
      /\ r.pc = "prepare" => trusted' = None
      /\ r.pc = "replace" => call[c].pc = "prepare"
<1>1. call[c] \in Calls /\ 0 \in Versions /\ source \in Versions
  BY CallBoundsAssumption DEF CallTypes, Versions
<1>2. /\ Resting \in Calls /\ Resting.sha = 0 /\ Resting.pc = "idle"
      /\ [Resting EXCEPT !.pc = "evaluate"] \in Calls
      /\ [Resting EXCEPT !.pc = "evaluate"].sha = 0
      /\ [Resting EXCEPT !.pc = "evaluate"].pc = "evaluate"
  BY <1>1 DEF Resting, Calls
<1>3. Answers(c) => Good(Resting)  BY <1>2 DEF Answers, Move
<1>4. Checked(c) => Good([Resting EXCEPT !.pc = "evaluate"])  BY <1>2 DEF Checked, Move
<1>5. \A pc \in {"prepare", "replace", "drift"} :
        /\ [call[c] EXCEPT !.pc = pc] \in Calls
        /\ [call[c] EXCEPT !.pc = pc].sha = call[c].sha
        /\ [call[c] EXCEPT !.pc = pc].pc = pc
        /\ GoTo(c, pc) => Move(c, [call[c] EXCEPT !.pc = pc])
  BY <1>1 DEF Calls, GoTo, Move
<1>6. CASE Govern(c) \/ Ask(c)
  <2>1. PICK pc \in {"compare", "evaluate"}, sha \in {0, source} : Enters(c, pc, sha)
    BY <1>6 DEF Govern, Ask
  <2>2. [pc |-> pc, at |-> None, sha |-> sha] \in Calls  BY <1>1 DEF Calls
  <2>3. Good([pc |-> pc, at |-> None, sha |-> sha])  BY <2>1 DEF Enters, Move
  <2> QED  BY <2>2, <2>3
<1>p. CASE PanelSpend(c)
  <2>1. CASE UNCHANGED call
    <3>1. Move(c, call[c])  BY <2>1 DEF CallTypes, Move
    <3>2. call[c].pc = "idle"  BY <1>p DEF PanelSpend, At
    <3>3. Good(call[c])  BY <3>1, <3>2
    <3> QED  BY <1>1, <3>3
  <2>2. CASE call' = [call EXCEPT ![c] = [pc |-> "run", at |-> Home, sha |-> 0]]
    <3>1. [pc |-> "run", at |-> Home, sha |-> 0] \in Calls  BY <1>1 DEF Calls, Places
    <3>2. Good([pc |-> "run", at |-> Home, sha |-> 0])  BY <2>2 DEF Move
    <3> QED  BY <3>1, <3>2
  <2> QED  BY <1>p, <2>1, <2>2 DEF PanelSpend
<1>7. CASE Compare(c)
  <2>1. CASE GoTo(c, "prepare") /\ trusted' = None
    <3>1. Good([call[c] EXCEPT !.pc = "prepare"])  BY <1>5, <2>1
    <3> QED  BY <1>5, <3>1
  <2>2. CASE Checked(c)  BY <1>2, <1>4, <2>2
  <2>3. CASE snapshot \notin {None, call[c].sha} /\ GoTo(c, "drift")
    <3>1. Good([call[c] EXCEPT !.pc = "drift"])  BY <1>5, <2>3
    <3> QED  BY <1>5, <3>1
  <2> QED  BY <1>7, <2>1, <2>2, <2>3 DEF Compare
<1>8. CASE PrepareSnapshot(c)
  <2>1. call[c].pc = "prepare" /\ GoTo(c, "replace")  BY <1>8 DEF PrepareSnapshot, At
  <2>2. Good([call[c] EXCEPT !.pc = "replace"])  BY <1>5, <2>1
  <2> QED  BY <1>5, <2>2
<1>9. CASE ReplaceSnapshot(c)  BY <1>2, <1>4, <1>9 DEF ReplaceSnapshot
<1>10. CASE SnapshotFails(c) \/ Return(c) \/ CallerDies(c)
  BY <1>2, <1>3, <1>10 DEF SnapshotFails, Return, CallerDies
<1>11. CASE Evaluate(c)
  <2>1. CASE Answers(c)  BY <1>2, <1>3, <2>1
  <2>2. ASSUME NEW f \in Places, call' = [call EXCEPT ![c].pc = "run", ![c].at = f]
        PROVE  \E r \in Calls : Good(r)
    <3> DEFINE r == [call[c] EXCEPT !.pc = "run", !.at = f]
    <3>1. r \in Calls /\ r.sha = call[c].sha /\ r.pc = "run"  BY <1>1 DEF Calls
    <3>2. Move(c, r)
      <4>1. call \in [Callers -> Calls]  BY DEF CallTypes
      <4>2. call' = [call EXCEPT ![c] = [call[c] EXCEPT !.pc = "run", !.at = f]]
        BY <2>2, <4>1
      <4> QED  BY <4>2 DEF Move
    <3> QED  BY <3>1, <3>2
  <2> QED  BY <1>11, <2>1, <2>2 DEF Evaluate
<1> QED
  BY <1>6, <1>p, <1>7, <1>8, <1>9, <1>10, <1>11 DEF CallerStep

\* What a caller's step may touch of the rest.
LEMMA CallTouches ==
  ASSUME NEW c \in Callers, CallerStep(c)
  PROVE  /\ UNCHANGED <<row, mirror, op, commands, settled, source>>
         /\ snapshot' = snapshot \/ (call[c].pc = "replace" /\ snapshot' = call[c].sha)
         /\ \/ trusted' = trusted
            \/ trusted = None /\ ~FirstRunning(call') /\ trusted' = snapshot'
            \/ trusted' = None
         /\ calls' = calls \/ (calls < MaxCalls /\ calls' = calls + 1)
         /\ faults' = faults \/ (faults < MaxFaults /\ faults' = faults + 1)
<1> USE DEF switchVars
<1>1. CASE Govern(c) \/ Ask(c) \/ PanelSpend(c)
  BY <1>1 DEF Govern, Ask, Enters, PanelSpend
<1>2. CASE Compare(c) \/ PrepareSnapshot(c) \/ Evaluate(c) \/ Return(c)
  BY <1>2 DEF Compare, PrepareSnapshot, Evaluate, Return
<1>3. Trusts => trusted' = trusted
                \/ (trusted = None /\ ~FirstRunning(call') /\ trusted' = snapshot')
  BY DEF Trusts
<1>4. CASE ReplaceSnapshot(c)  BY <1>3, <1>4 DEF ReplaceSnapshot, At
<1>5. CASE SnapshotFails(c)  BY <1>3, <1>5 DEF SnapshotFails
<1>6. CASE CallerDies(c)  BY <1>3, <1>6 DEF CallerDies
<1> QED  BY <1>1, <1>2, <1>4, <1>5, <1>6 DEF CallerStep

\* What an operator's step may touch.
LEMMA TurningTouches ==
  ASSUME NEW o \in Operators, Turning(o)
  PROVE  /\ OperatorStep(o) /\ UNCHANGED <<source, snapshot, call, calls, trusted>>
         /\ commands' = commands \/ (commands < MaxCommands /\ commands' = commands + 1)
         /\ faults' = faults \/ (faults < MaxFaults /\ faults' = faults + 1)
<1>1. CASE \/ \E w \in Workspaces : Kill(o, w) \/ Resume(o, w)
           \/ PanelKill(o) \/ PanelResume(o) \/ PanelAutoRelease(o)
  <2>1. PICK w \in Places, kill \in BOOLEAN : Begins(o, w, kill)  BY <1>1, Beginnings
  <2> QED  BY <2>1 DEF Turning, Begins
<1>2. CASE \/ CommitRow(o) \/ OpenMirror(o) \/ FillMirror(o) \/ MirrorFails(o)
           \/ Report(o) \/ OperatorDies(o)
  BY <1>2
  DEF Turning, CommitRow, OpenMirror, FillMirror, MirrorFails, Report, OperatorDies
<1> QED  BY <1>1, <1>2 DEF Turning, OperatorStep

LEMMA Counting ==
  ASSUME NEW max \in Nat, NEW n \in 0 .. max, NEW m, m = n \/ (n < max /\ m = n + 1)
  PROVE  m \in 0 .. max
OBVIOUS

LEMMA CallStep == CInv /\ [Next]_vars => CInv'
<1> SUFFICES ASSUME CInv, [Next]_vars PROVE CInv'  OBVIOUS
<1> USE DEF CInv
<1>a. MaxCommands \in Nat /\ MaxFaults \in Nat /\ MaxCalls \in Nat /\ MaxEdits \in Nat
  BY CallBoundsAssumption, KillBoundsAssumption
<1>b. \A c \in Callers : call[c] \in Calls /\ call[c].sha \in Versions /\ call[c].sha <= source
  BY DEF CallTypes, Calls, NoneAhead
<1>1. ASSUME NEW o \in Operators, Turning(o) PROVE CInv'
  <2>1. OperatorStep(o) /\ UNCHANGED <<source, snapshot, call, calls, trusted>>
    BY <1>1, TurningTouches
  <2>2. CountTypes'
    <3>1. commands' \in 0 .. MaxCommands
      BY <1>1, <1>a, TurningTouches, Counting DEF CountTypes
    <3>2. faults' \in 0 .. MaxFaults
      BY <1>1, <1>a, TurningTouches, Counting DEF CountTypes
    <3> QED  BY <2>1, <3>1, <3>2 DEF CountTypes
  <2>3. CallTypes' /\ NoneAhead' /\ NoFalseDrift'
    BY <2>1 DEF CallTypes, NoneAhead, NoFalseDrift
  <2>4. SwitchTypes' /\ SwitchInv'  BY <2>1, SwitchStep
  <2> QED  BY <2>2, <2>3, <2>4
<1>2. ASSUME NEW c \in Callers, CallerStep(c) PROVE CInv'
  <2>1. PICK r \in Calls :
          /\ Move(c, r)
          /\ r.sha = call[c].sha \/ r.sha \in {0, source}
          /\ r.pc = "drift" => snapshot \notin {None, call[c].sha}
    BY <1>2, CallMoves
  <2>2. /\ UNCHANGED <<row, mirror, op, commands, settled, source>>
        /\ snapshot' = snapshot \/ snapshot' = call[c].sha
        /\ trusted' = trusted \/ trusted' = snapshot' \/ trusted' = None
        /\ calls' = calls \/ (calls < MaxCalls /\ calls' = calls + 1)
        /\ faults' = faults \/ (faults < MaxFaults /\ faults' = faults + 1)
    BY <1>2, CallTouches
  <2>3. CountTypes'
    <3>1. calls' \in 0 .. MaxCalls  BY <1>a, <2>2, Counting DEF CountTypes
    <3>2. faults' \in 0 .. MaxFaults  BY <1>a, <2>2, Counting DEF CountTypes
    <3> QED  BY <2>2, <3>1, <3>2 DEF CountTypes
  <2>4. /\ call' \in [Callers -> Calls] /\ call'[c] = r
        /\ \A d \in Callers \ {c} : call'[d] = call[d]
    BY <2>1 DEF CallTypes, Move
  <2>5. CallTypes'  BY <1>b, <2>2, <2>4 DEF CallTypes
  <2>6. r.sha <= source /\ source \in Nat /\ source' = source
    BY <1>a, <1>b, <2>1, <2>2 DEF CallTypes, Versions
  <2>7. NoneAhead'
    BY <1>b, <2>2, <2>4, <2>6 DEF NoneAhead
  <2>8. NoFalseDrift'
    <3> SUFFICES ASSUME source = 0 PROVE \A d \in Callers : call'[d].pc # "drift"
      BY <2>6 DEF NoFalseDrift
    <3>1. call[c].sha = 0  BY <1>a, <1>b DEF Versions
    <3>2. snapshot # None => snapshot = 0
      BY <1>a DEF NoneAhead, CallTypes, Versions
    <3>3. r.pc # "drift"  BY <2>1, <3>1, <3>2
    <3> QED  BY <2>4, <3>3 DEF NoFalseDrift
  <2>9. SwitchTypes' /\ SwitchInv'  BY <2>2, SwitchStep
  <2> QED  BY <2>3, <2>5, <2>7, <2>8, <2>9
<1>3. CASE EditSource
  <2>1. UNCHANGED <<row, mirror, op, commands, faults, settled, snapshot, call, calls, trusted>>
    BY <1>3 DEF EditSource, switchVars
  <2>2. source' \in Versions /\ source' # 0 /\ \A n \in Versions : n <= source => n <= source'
    BY <1>3, <1>a DEF EditSource, CallTypes, Versions
  <2>3. NoneAhead'  BY <1>b, <2>1, <2>2 DEF NoneAhead, CallTypes
  <2>4. SwitchTypes' /\ SwitchInv'  BY <2>1, SwitchStep
  <2> QED  BY <2>1, <2>2, <2>3, <2>4 DEF CallTypes, CountTypes, NoFalseDrift
<1>4. CASE UNCHANGED vars
  <2>1. SwitchTypes' /\ SwitchInv'  BY <1>4, SwitchStep DEF vars, switchVars
  <2> QED
    BY <1>4, <2>1 DEF vars, switchVars, CallTypes, CountTypes, NoneAhead, NoFalseDrift
<1> QED  BY <1>1, <1>2, <1>3, <1>4 DEF Next

LEMMA CallInit == Init => CInv
<1> SUFFICES ASSUME Init PROVE CInv  OBVIOUS
<1> USE DEF Init, SwitchInit
<1>1. Idle \in Commands /\ Idle.at = None /\ Idle.pc = "idle"  BY DEF Idle, Commands
<1>2. op \in [Operators -> Commands] /\ \A o \in Operators : op[o] = Idle  BY <1>1
<1>3. SwitchTypes  BY <1>1, <1>2 DEF SwitchTypes
<1>4. SwitchInv
  <2>1. \A f \in Places : settled[f] = None  OBVIOUS
  <2>2. \A w \in Workspaces : settled[w] = None  BY DEF Places
  <2> QED
    BY <1>1, <1>2, <2>1, <2>2, PlacesAssumption
    DEF SwitchInv, CommandsTargeted, Contended, LeftAsMade, Left, SettledUndisturbed, Agreed, Busy
<1>5. 0 \in Versions /\ 0 \in 0 .. MaxCommands /\ 0 \in 0 .. MaxFaults /\ 0 \in 0 .. MaxCalls
  BY CallBoundsAssumption, KillBoundsAssumption DEF Versions
<1>6. Resting \in Calls /\ Resting.pc = "idle" /\ Resting.sha = 0
  BY <1>5 DEF Resting, Calls
<1>7. CallTypes /\ CountTypes  BY <1>5, <1>6 DEF CallTypes, CountTypes
<1>8. NoneAhead /\ NoFalseDrift  BY <1>6 DEF NoneAhead, NoFalseDrift
<1> QED  BY <1>3, <1>4, <1>7, <1>8 DEF CInv

LEMMA Invariant == Spec => []CInv
BY CallInit, CallStep, PTL DEF Spec

LEMMA TypesHold == CInv => TypeOK
BY DEF CInv, SwitchTypes, CallTypes, CountTypes, TypeOK, Calls

-----------------------------------------------------------------------------
(* The theorems.                                                           *)

(* The kill switch's stores, the commands and the calls keep their kinds   *)
(* (SqliteStorage, _tamper_check).                                         *)
THEOREM TypeCorrect == Spec => []TypeOK
BY Invariant, TypesHold, PTL

(* What the operator was told by a command that nobody disturbed holds on  *)
(* the row and on every mirror it reached, whatever other commands begin,  *)
(* fail or die before and after (SqliteStorage.set_kill_switch).           *)
THEOREM SettledStoresAgreeHolds == Spec => []SettledStoresAgree
<1>1. CInv => SettledStoresAgree
  <2> SUFFICES ASSUME CInv PROVE SettledStoresAgree  OBVIOUS
  <2>1. \A f \in Places : settled[f] # None => settled[f] \in BOOLEAN
    BY DEF CInv, SwitchTypes
  <2>2. \A f \in Places : Stops(f) \in BOOLEAN  BY DEF Stops
  <2>3. \A f \in Places : settled[f] # None => Stops(f) = settled[f]
    BY <2>1, <2>2 DEF CInv, SwitchInv, Agreed
  <2> QED  BY <2>3, TypesHold DEF CInv, SwitchInv, Agreed, SettledStoresAgree
<1> QED  BY <1>1, Invariant, PTL

(* After a kill that reported undisturbed by another command, nothing that  *)
(* then asks is let run on a state directory it reached, until a resume    *)
(* begins, and the panel lets its own run only over a file that is not     *)
(* filled: with any number of commands and calls (_evaluate, kernel_gate,  *)
(* _read_flask_kill_switch).                                               *)
THEOREM NothingRunsUnderAKillHolds == Spec => NothingRunsUnderAKill
<1> DEFINE Stopped ==
      \A c \in Callers :
        /\ call[c].pc = "evaluate" /\ call'[c].pc = "run" => settled[call'[c].at] # TRUE
        /\ call[c].pc = "idle" /\ call'[c].pc = "run" =>
             settled[Home] # TRUE \/ mirror[Home] = "torn"
<1>1. CInv /\ [Next]_vars => [Stopped]_vars
  <2> SUFFICES ASSUME CInv, Next, NEW c \in Callers,
                      call[c].pc \in {"evaluate", "idle"}, call'[c].pc = "run"
               PROVE  /\ call[c].pc = "evaluate" => settled[call'[c].at] # TRUE
                      /\ call[c].pc = "idle" => settled[Home] # TRUE \/ mirror[Home] = "torn"
    BY DEF vars
  <2>1. call \in [Callers -> Calls] /\ \A d \in Callers : call[d] \in Calls
    BY DEF CInv, CallTypes
  <2>2. PICK d \in Callers : CallerStep(d)
    BY DEF Next, Turning, EditSource
  <2>3. d = c  BY <2>1, <2>2, CallMoves DEF CInv, Move
  <2>4. ~Answers(c)  BY <2>1 DEF Answers, Resting
  <2>5. CASE call[c].pc = "evaluate"
    <3>1. Evaluate(c)
      BY <2>2, <2>3, <2>4, <2>5
      DEF CallerStep, Govern, Ask, PanelSpend, Enters, Compare, PrepareSnapshot,
          ReplaceSnapshot, SnapshotFails, Return, CallerDies, At
    <3>2. PICK f \in Places : ~Stops(f) /\ call' = [call EXCEPT ![c].pc = "run", ![c].at = f]
      BY <2>4, <3>1 DEF Evaluate
    <3>3. call'[c].at = f  BY <2>1, <3>2 DEF Calls
    <3> QED  BY <2>5, <3>2, <3>3 DEF CInv, SwitchInv, Agreed
  <2>6. CASE call[c].pc = "idle"
    <3>1. ~Govern(c) /\ ~Ask(c)  BY <2>1 DEF Govern, Ask, Enters
    <3>2. PanelSpend(c)
      BY <2>2, <2>3, <2>4, <2>6, <3>1
      DEF CallerStep, Evaluate, Compare, PrepareSnapshot, ReplaceSnapshot, SnapshotFails,
          Return, CallerDies, At
    <3>3. mirror[Home] # "killed"
      BY <2>6, <3>2 DEF PanelSpend, PanelStops
    <3>4. settled[Home] = TRUE => Stops(Home)
      BY DEF CInv, SwitchInv, Agreed, Places
    <3> QED  BY <2>6, <3>3, <3>4 DEF Stops
  <2> QED  BY <2>5, <2>6
<1> QED  BY <1>1, Invariant, PTL DEF Spec, NothingRunsUnderAKill

(* While the function is as it was, no call is denied for drift, however   *)
(* many first runs race, fail or die (_tamper_check).                      *)
THEOREM NoFalseDriftHolds == Spec => []NoFalseDrift
<1>1. CInv => NoFalseDrift  BY DEF CInv
<1> QED  BY <1>1, Invariant, PTL

(* Once the first runs are over, a call of an edited function is never let *)
(* through to the policy, until one finds the snapshot locked through every *)
(* retry and takes its own in its stead (_tamper_check).                   *)
THEOREM EditsAreCaughtHolds == Spec => EditsAreCaught
<1> DEFINE Caught ==
      \A c \in Callers :
        call[c].pc \in {"compare", "prepare", "replace"} /\ call'[c].pc = "evaluate"
        /\ trusted # None => call[c].sha = trusted
<1>1. Init => TrustedStays  BY DEF Init, TrustedStays
<1>2. CInv /\ TrustedStays /\ [Next]_vars => TrustedStays'
  <2> SUFFICES ASSUME CInv, TrustedStays, [Next]_vars, trusted' # None
               PROVE  snapshot' = trusted' /\ ~FirstRunning(call')
    BY DEF TrustedStays, FirstRunning
  <2>1. CASE UNCHANGED <<snapshot, call, trusted>>
    BY <2>1 DEF TrustedStays
  <2>2. ASSUME NEW c \in Callers, CallerStep(c)
        PROVE  snapshot' = trusted' /\ ~FirstRunning(call')
    <3>1. CASE trusted = None
      BY <2>2, <3>1, CallTouches
    <3>2. CASE trusted # None
      <4>1. /\ snapshot = trusted /\ \A d \in Callers : call[d].pc \notin {"prepare", "replace"}
        BY <3>2 DEF TrustedStays, FirstRunning
      <4>2. snapshot' = snapshot /\ trusted' = trusted  BY <2>2, <3>2, <4>1, CallTouches
      <4>3. PICK r \in Calls :
              /\ Move(c, r)
              /\ r.pc = "prepare" => trusted' = None
              /\ r.pc = "replace" => call[c].pc = "prepare"
        BY <2>2, CallMoves DEF CInv
      <4>4. call'[c] = r /\ \A d \in Callers \ {c} : call'[d] = call[d]
        BY <4>3 DEF Move, CInv, CallTypes
      <4>5. r.pc \notin {"prepare", "replace"}  BY <3>2, <4>1, <4>3
      <4>6. ~FirstRunning(call')  BY <4>1, <4>4, <4>5 DEF FirstRunning
      <4> QED  BY <4>1, <4>2, <4>6
    <3> QED  BY <3>1, <3>2
  <2> QED
    BY <2>1, <2>2 DEF Next, Turning, EditSource, vars
<1>3. CInv /\ TrustedStays /\ [Next]_vars => [Caught]_vars
  <2> SUFFICES ASSUME CInv, TrustedStays, Next, NEW c \in Callers,
                      call[c].pc \in {"compare", "prepare", "replace"},
                      call'[c].pc = "evaluate", trusted # None
               PROVE  call[c].sha = trusted
    BY DEF vars
  <2>1. call \in [Callers -> Calls] /\ \A d \in Callers : call[d] \in Calls
    BY DEF CInv, CallTypes
  <2>2. snapshot = trusted /\ \A d \in Callers : call[d].pc \notin {"prepare", "replace"}
    BY DEF TrustedStays, FirstRunning
  <2>3. PICK d \in Callers : CallerStep(d)
    BY DEF Next, Turning, EditSource
  <2>4. d = c  BY <2>1, <2>3, CallMoves DEF CInv, Move
  <2>5. call[c].pc = "compare"  BY <2>2
  <2>6. ~Answers(c)  BY <2>1 DEF Answers, Resting
  <2>7. Compare(c)
    BY <2>3, <2>4, <2>5, <2>6
    DEF CallerStep, Govern, Ask, PanelSpend, Enters, Evaluate, PrepareSnapshot, ReplaceSnapshot,
        SnapshotFails, Return, CallerDies, At
  <2>8. ~GoTo(c, "prepare") /\ ~GoTo(c, "drift")  BY <2>1 DEF GoTo, Calls
  <2> QED  BY <2>2, <2>7, <2>8 DEF Compare
<1>4. Spec => []TrustedStays  BY <1>1, <1>2, Invariant, PTL DEF Spec
<1> QED  BY <1>3, <1>4, Invariant, PTL DEF Spec, EditsAreCaught

=============================================================================
