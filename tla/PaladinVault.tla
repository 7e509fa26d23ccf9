--------------------------- MODULE PaladinVault ---------------------------
(***************************************************************************)
(* The credential vault of paladin (paladin/vault.py): one encrypted file  *)
(* that every `paladin` command opens, changes in memory and saves.        *)
(*                                                                         *)
(* A command is a process of its own.  It reads the file with no lock, and *)
(* save() holds an exclusive lock on a sibling file only while it writes a *)
(* temporary file, of a fixed name, and renames it over the vault.  What   *)
(* another command saved between the two is overwritten.  A process may    *)
(* die anywhere: the lock goes with it, the temporary file stays.          *)
(*                                                                         *)
(* A vault holds entries under names and the grants that let the one agent *)
(* of the model resolve a name.  Values, profiles, hosts and bands change  *)
(* nothing here, so an edit that renames nothing only saves.               *)
(***************************************************************************)
EXTENDS Naturals, Sequences, FiniteSets

CONSTANTS
  Names,     \* what entries are called
  Entries,   \* the identities of entries, each made by one `add`
  Keys,      \* master keys
  FirstKey,  \* the one `init` derived
  Clerks,    \* operators' shells, each running one command at a time
  None,
  Missing,   \* a file that is not there
  Torn,      \* one that is not a whole sealed document
  MaxCommands,  \* bound on the commands that are run
  MaxDeaths     \* bound on the commands that die

ASSUME KeysAssumption == FirstKey \in Keys
ASSUME AbsentAssumption ==
  None \notin Entries \cup Keys \cup Clerks /\ Missing # Torn
ASSUME VaultBoundsAssumption == MaxCommands \in Nat /\ MaxDeaths \in Nat

VARIABLES
  vault,     \* vault.paladin: Missing, Torn, or [key, doc]
  temp,      \* vault.tmp
  lock,      \* who holds the flock on vault.lock
  pc,        \* where each clerk's command stands
  mem,       \* the document it holds in memory, and will save
  key,       \* the master key it holds
  commands, deaths,
  made       \* history: entries and keys ever made

vaultVars == <<vault, temp, lock, pc, mem, key, commands, deaths, made>>

(* A grant names its ref; "of" remembers, for the properties only, which   *)
(* entry bore that name when it was given.                                 *)
Grants    == [ref : Names, of : Entries \cup {None}]
Documents == [at : [Names -> Entries \cup {None}], grants : SUBSET Grants]
Blobs     == [key : Keys, doc : Documents]
Empty     == [at |-> [n \in Names |-> None], grants |-> {}]
Whole(file) == file \notin {Missing, Torn}

ASSUME FilesAssumption == Missing \notin Blobs /\ Torn \notin Blobs

VaultInit ==
  /\ vault = [key |-> FirstKey, doc |-> Empty]
  /\ temp = Missing /\ lock = None
  /\ pc = [p \in Clerks |-> "idle"]
  /\ mem = [p \in Clerks |-> Empty]
  /\ key = [p \in Clerks |-> FirstKey]
  /\ commands = 0 /\ deaths = 0 /\ made = {FirstKey}
---------------------------------------------------------------------------
(* What a command makes of the document it opened.                         *)

Added(d, n, e) == [d EXCEPT !.at[n] = e]

Deleted(d, n) == [d EXCEPT !.at[n] = None]

Moved(g, n, m) == IF g.ref = n THEN [g EXCEPT !.ref = m] ELSE g

\* Mutant: a rename leaves the grants under the old name.
RenamedAlone(d, n, m) ==
  [d EXCEPT !.at = [[d.at EXCEPT ![n] = None] EXCEPT ![m] = d.at[n]]]

Renamed(d, n, m) ==
  [at     |-> [[d.at EXCEPT ![n] = None] EXCEPT ![m] = d.at[n]],
   grants |-> {Moved(g, n, m) : g \in d.grants}]

Granted(d, n) ==
  [d EXCEPT !.grants = @ \cup {[ref |-> n, of |-> d.at[n]]}]

Revoked(d, n) == [d EXCEPT !.grants = {g \in @ : g.ref # n}]
---------------------------------------------------------------------------
(* The commands.  A name that is unknown, or taken, ends one at once.      *)

At(p, label) == pc[p] = label
Goto(p, label) == pc' = [pc EXCEPT ![p] = label]

Starts(p) == pc[p] = "idle" /\ commands < MaxCommands
             /\ commands' = commands + 1

Holds(p, d, k) == mem' = [mem EXCEPT ![p] = d] /\ key' = [key EXCEPT ![p] = k]
Forgets(p) == Holds(p, Empty, FirstKey)  \* its memory goes with the process

(* Vault.open reads the file with the key it was sealed with, the command  *)
(* changes the copy, and save() is what is left to do.                     *)
Opens(p, d, k) ==
  /\ Starts(p) /\ Whole(vault)
  /\ Holds(p, d, k) /\ pc' = [pc EXCEPT ![p] = "save"]
  /\ UNCHANGED <<vault, temp, lock, deaths>>

Add(p, n) ==
  /\ Whole(vault) /\ vault.doc.at[n] = None
  /\ \E e \in Entries \ made :
       Opens(p, Added(vault.doc, n, e), vault.key) /\ made' = made \cup {e}

(* `add --force` over a name that is taken is an edit that renames nothing: *)
(* the entry keeps its age and what was granted on it, its value is new.   *)
Edit(p, n, m) ==
  /\ Whole(vault) /\ vault.doc.at[n] # None
  /\ m = n \/ vault.doc.at[m] = None
  /\ Opens(p, Renamed(vault.doc, n, m), vault.key)
  /\ UNCHANGED made

Delete(p, n) ==
  /\ Whole(vault) /\ vault.doc.at[n] # None
  /\ Opens(p, Deleted(vault.doc, n), vault.key)
  /\ UNCHANGED made

Grant(p, n) ==
  /\ Whole(vault)
  /\ Opens(p, Granted(vault.doc, n), vault.key)
  /\ UNCHANGED made

(* Nothing to revoke is nothing to save, but it is still recorded.         *)
Revoke(p, n) ==
  /\ Starts(p) /\ Whole(vault)
  /\ IF \E g \in vault.doc.grants : g.ref = n
     THEN Holds(p, Revoked(vault.doc, n), vault.key) /\ Goto(p, "save")
     ELSE Holds(p, Empty, vault.key) /\ Goto(p, "record")
  /\ UNCHANGED <<vault, temp, lock, deaths, made>>

RotateMaster(p) ==
  /\ Whole(vault)
  /\ \E k \in Keys \ made : Opens(p, vault.doc, k) /\ made' = made \cup {k}
---------------------------------------------------------------------------
(* save(): under the lock, truncate the temporary file, fill it, rename it.*)

\* Mutant: the lock is not taken.
BeginSaveUnlocked(p) ==
  /\ At(p, "save")
  /\ lock' = p /\ temp' = Torn /\ Goto(p, "fill")
  /\ UNCHANGED <<vault, mem, key, commands, deaths, made>>

BeginSave(p) ==
  /\ At(p, "save") /\ lock = None
  /\ lock' = p /\ temp' = Torn /\ Goto(p, "fill")
  /\ UNCHANGED <<vault, mem, key, commands, deaths, made>>

FillTemp(p) ==
  /\ At(p, "fill")
  /\ temp' = [key |-> key[p], doc |-> mem[p]] /\ Goto(p, "rename")
  /\ UNCHANGED <<vault, lock, mem, key, commands, deaths, made>>

FinishSave(p) ==
  /\ At(p, "rename")
  /\ vault' = temp /\ temp' = Missing /\ lock' = None /\ Goto(p, "record")
  /\ Holds(p, Empty, key[p])
  /\ UNCHANGED <<commands, deaths, made>>

(* A process that dies gives up its flock.                                 *)
Die(p) ==
  /\ ~At(p, "idle") /\ deaths < MaxDeaths
  /\ deaths' = deaths + 1 /\ Goto(p, "idle")
  /\ lock' = IF lock = p THEN None ELSE lock
  /\ Forgets(p)
  /\ UNCHANGED <<vault, temp, commands, made>>

Command(p) ==
  \/ \E n \in Names : Add(p, n) \/ Delete(p, n) \/ Grant(p, n) \/ Revoke(p, n)
  \/ \E n, m \in Names : Edit(p, n, m)
  \/ RotateMaster(p)
Save(p) == BeginSave(p) \/ FillTemp(p) \/ FinishSave(p)
===========================================================================
