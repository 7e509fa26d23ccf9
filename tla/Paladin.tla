------------------------------ MODULE Paladin ------------------------------
(***************************************************************************)
(* Paladin as a whole: the vault's commands, the audit log each of them    *)
(* and the egress gateway append to, and backup and restore, which take    *)
(* both files.                                                             *)
(*                                                                         *)
(* The audit log (paladin/audit.py) is a chain: a record holds the MAC of  *)
(* the record before it and its own MAC, made with a key derived from the  *)
(* master key.  append() reads the tail and writes the record under a lock *)
(* of its process alone, so the gateway's threads take turns, and commands *)
(* do not.  A call of the gateway that is refused before any grant is      *)
(* looked up, or whose upstream fails, leaves no record.                   *)
(***************************************************************************)
EXTENDS PaladinVault

CONSTANTS
  Restorers,  \* the clerks who restore, one of them at a time
  Threads,    \* the gateway's connection threads
  Gateway,    \* the gateway's process
  MaxCalls    \* bound on the calls it records

ASSUME ActorsAssumption ==
  /\ Restorers \subseteq Clerks /\ Clerks \cap Threads = {}
  /\ Gateway \notin Clerks /\ None \notin Threads
ASSUME CallsAssumption == MaxCalls \in Nat

VARIABLES
  log,     \* audit.jsonl; empty when it is not there
  macs,    \* how many MACs have been made: a MAC is its number
  prev,    \* the tail each process or thread last read
  missed,  \* history: those since whose reading a restore replaced the log
  gkey,    \* the master key the gateway opened the vault with; None: not yet
  glock,   \* AuditLog._lock of the gateway
  tpc,     \* where each of its threads stands
  calls,
  held,    \* the archive each clerk's backup is making, or restore has read
  backup,  \* the one archive on disk: None, or [seal, blob, log]
  aside    \* the vaults moved to .pre-restore paths

auditVars  == <<log, macs, prev, missed>>
gateVars   == <<gkey, glock, tpc, calls>>
backupVars == <<held, backup, aside>>
vars == <<vaultVars, auditVars, gateVars, backupVars>>

Init ==
  /\ VaultInit
  /\ log = <<>> /\ macs = 0
  /\ prev = [x \in Clerks \cup Threads |-> 0] /\ missed = {}
  /\ gkey = None /\ glock = None /\ calls = 0
  /\ tpc = [t \in Threads |-> "idle"]
  /\ held = [p \in Clerks |-> None]
  /\ backup = None /\ aside = {}
---------------------------------------------------------------------------
(* AuditLog.append                                                         *)

TailMac == IF log = <<>> THEN 0 ELSE log[Len(log)].mac

Reads(x) == prev' = [prev EXCEPT ![x] = TailMac] /\ missed' = missed \ {x}

Writes(x, by, k) ==
  /\ log' = Append(log, [prev |-> prev[x], mac |-> macs + 1, key |-> k, by |-> by,
                         blind |-> x \in missed])
  /\ macs' = macs + 1
  /\ prev' = [prev EXCEPT ![x] = 0]
  /\ missed' = missed \ {x}

(* A command records what it did once its save is done, with the key it    *)
(* then holds.  Not modelled: a line torn by a death or a full disk, whose *)
(* reading fails every later append until a restore replaces the log.      *)
ReadTail(p) ==
  /\ At(p, "record")
  /\ Reads(p) /\ Goto(p, "append")
  /\ UNCHANGED <<vault, temp, lock, mem, key, commands, deaths, made,
                 log, macs, gateVars, backupVars>>

AppendRecord(p) ==
  /\ At(p, "append")
  /\ Writes(p, p, key[p]) /\ Goto(p, "idle") /\ Forgets(p)
  /\ UNCHANGED <<vault, temp, lock, commands, deaths, made,
                 gateVars, backupVars>>

(* `paladin exec --sandbox` opens the vault once and serves from that.     *)
StartGateway ==
  /\ gkey = None /\ Threads # {} /\ Whole(vault)
  /\ gkey' = vault.key
  /\ UNCHANGED <<vaultVars, auditVars, glock, tpc, calls, backupVars>>

\* Mutant: the threads do not take turns.
ThreadReadTailFreely(t) ==
  /\ gkey # None /\ tpc[t] = "idle" /\ calls < MaxCalls
  /\ glock' = t /\ tpc' = [tpc EXCEPT ![t] = "append"] /\ calls' = calls + 1
  /\ Reads(t)
  /\ UNCHANGED <<vaultVars, log, macs, gkey, backupVars>>

(* A call that is denied, or answered, changes nothing until its thread    *)
(* has the lock and records it.                                            *)
ThreadReadTail(t) ==
  /\ gkey # None /\ tpc[t] = "idle" /\ calls < MaxCalls
  /\ glock = None
  /\ glock' = t /\ tpc' = [tpc EXCEPT ![t] = "append"] /\ calls' = calls + 1
  /\ Reads(t)
  /\ UNCHANGED <<vaultVars, log, macs, gkey, backupVars>>

ThreadAppend(t) ==
  /\ tpc[t] = "append"
  /\ Writes(t, Gateway, gkey)
  /\ glock' = None /\ tpc' = [tpc EXCEPT ![t] = "idle"]
  /\ UNCHANGED <<vaultVars, gkey, calls, backupVars>>
---------------------------------------------------------------------------
(* create_backup: the vault is opened, then its file read again under the  *)
(* lock, then the log, and all of it sealed with the key it was opened by. *)

Backup(p) ==
  /\ Starts(p) /\ Whole(vault)
  /\ Holds(p, Empty, vault.key) /\ Goto(p, "copy")
  /\ UNCHANGED <<vault, temp, lock, deaths, made, auditVars, gateVars, backupVars>>

(* A vault moved away in between is an error, and no archive.              *)
CopyVault(p) ==
  /\ At(p, "copy") /\ lock = None
  /\ IF Whole(vault)
     THEN /\ held' = [held EXCEPT ![p] = [seal |-> key[p], blob |-> vault]]
          /\ Goto(p, "seal")
     ELSE Goto(p, "idle") /\ UNCHANGED held
  /\ Forgets(p)
  /\ UNCHANGED <<vault, temp, lock, commands, deaths, made,
                 auditVars, gateVars, backup, aside>>

Seal(p) ==
  /\ At(p, "seal")
  /\ backup' = [seal |-> held[p].seal, blob |-> held[p].blob, log |-> log]
  /\ held' = [held EXCEPT ![p] = None] /\ Goto(p, "idle")
  /\ UNCHANGED <<vault, temp, lock, mem, key, commands, deaths, made,
                 auditVars, gateVars, aside>>

(* restore_backup: the archive must open, and the vault in it, with the    *)
(* one key at hand.  Then the live files go to fresh .pre-restore paths    *)
(* and the archive's take their place.  None of it takes the vault's lock. *)
(* Without --force a vault in the way is an error; legacy archives, which  *)
(* are checked and put in place alike, are left out.                       *)
Restore(p) ==
  /\ p \in Restorers /\ Starts(p)
  /\ backup # None /\ backup.seal = backup.blob.key
  /\ held' = [held EXCEPT ![p] = backup] /\ Goto(p, "aside")
  /\ UNCHANGED <<vault, temp, lock, mem, key, deaths, made,
                 auditVars, gateVars, backup, aside>>

MoveVaultAside(p) ==
  /\ At(p, "aside")
  /\ vault' = Missing
  /\ aside' = IF vault = Missing THEN aside ELSE aside \cup {vault}
  /\ Goto(p, "aside_log")
  /\ UNCHANGED <<temp, lock, mem, key, commands, deaths, made,
                 auditVars, gateVars, held, backup>>

Reading == {p \in Clerks : pc[p] = "append"} \cup {t \in Threads : tpc[t] = "append"}

(* The log's own .pre-restore copy is not looked at again.                 *)
MoveLogAside(p) ==
  /\ At(p, "aside_log")
  /\ log' = <<>> /\ missed' = Reading /\ Goto(p, "put")
  /\ UNCHANGED <<vault, temp, lock, mem, key, commands, deaths, made,
                 macs, prev, gateVars, backupVars>>

PutVault(p) ==
  /\ At(p, "put")
  /\ vault' = held[p].blob /\ Goto(p, "put_log")
  /\ UNCHANGED <<temp, lock, mem, key, commands, deaths, made,
                 auditVars, gateVars, backupVars>>

(* An archive made when there was no log brings none.                      *)
PutLog(p) ==
  /\ At(p, "put_log")
  /\ IF held[p].log = <<>> THEN UNCHANGED <<log, missed>>
     ELSE log' = held[p].log /\ missed' = Reading
  /\ held' = [held EXCEPT ![p] = None] /\ Goto(p, "idle")
  /\ UNCHANGED <<vault, temp, lock, mem, key, commands, deaths, made,
                 macs, prev, gateVars, backup, aside>>
---------------------------------------------------------------------------
VaultStep(p) ==
  /\ Command(p) \/ Save(p)
  /\ UNCHANGED <<auditVars, gateVars, backupVars>>
Death(p) ==
  /\ Die(p)
  /\ prev' = [prev EXCEPT ![p] = 0] /\ missed' = missed \ {p}
  /\ held' = [held EXCEPT ![p] = None]
  /\ UNCHANGED <<log, macs, gateVars, backup, aside>>
Recording(p) == ReadTail(p) \/ AppendRecord(p)
BackingUp(p) == Backup(p) \/ CopyVault(p) \/ Seal(p)
Restoring(p) ==
  \/ Restore(p) \/ MoveVaultAside(p) \/ MoveLogAside(p)
  \/ PutVault(p) \/ PutLog(p)
Serving(t) == ThreadReadTail(t) \/ ThreadAppend(t)

Next ==
  \/ \E p \in Clerks :
       VaultStep(p) \/ Death(p) \/ Recording(p) \/ BackingUp(p) \/ Restoring(p)
  \/ StartGateway
  \/ \E t \in Threads : Serving(t)

Spec == Init /\ [][Next]_vars
----------------------------------------------------------------------------
Places == {"idle", "save", "fill", "rename", "record", "append", "copy", "seal",
           "aside", "aside_log", "put", "put_log"}
Records == [prev : Nat, mac : Nat, key : Keys, by : Clerks \cup {Gateway},
            blind : BOOLEAN]

(* Every variable keeps its kind; what an archive holds, and what a restore *)
(* moved aside, is a whole vault.                                          *)
TypeOK ==
  /\ vault \in Blobs \cup {Missing, Torn} /\ temp \in Blobs \cup {Missing, Torn}
  /\ lock \in Clerks \cup {None}
  /\ pc \in [Clerks -> Places] /\ tpc \in [Threads -> {"idle", "append"}]
  /\ mem \in [Clerks -> Documents] /\ key \in [Clerks -> Keys]
  /\ commands \in 0 .. MaxCommands /\ deaths \in 0 .. MaxDeaths
  /\ calls \in 0 .. MaxCalls
  /\ made \subseteq Entries \cup Keys
  /\ log \in Seq(Records) /\ macs \in Nat
  /\ prev \in [Clerks \cup Threads -> Nat]
  /\ gkey \in Keys \cup {None} /\ glock \in Threads \cup {None}
  /\ \A h \in {held[p] : p \in Clerks} \cup {backup} : h # None =>
       h.seal \in Keys /\ h.blob \in Blobs
  /\ backup # None => backup.log \in Seq(Records)
  /\ aside \subseteq Blobs

(* Whatever commands run at once and wherever one dies, every variable     *)
(* keeps its kind (an archive holds a whole vault), and the vault file is  *)
(* one that opens; it is gone only between a restore's two renames, or     *)
(* after one that died there, and then what it was is kept aside           *)
(* (Vault.save's lock and rename, restore_backup's order).                 *)
VaultIsWhole ==
  /\ TypeOK
  /\ vault # Torn
  /\ vault = Missing => aside # {}

(* A grant that was given for an entry is, in every vault file, every      *)
(* archive and every document about to be saved, a grant for the name that *)
(* entry bears now: a rename takes its exact grants along in the same save,*)
(* and no overwritten or restored document separates the two.              *)
Follows(d) == \A g \in d.grants, n \in Names : g.of = d.at[n] /\ g.of # None => g.ref = n
GrantsFollowTheEntry ==
  /\ Whole(vault) => Follows(vault.doc)
  /\ Whole(temp) => Follows(temp.doc)
  /\ \A p \in Clerks : Follows(mem[p])
  /\ backup # None => Follows(backup.blob.doc)

(* No two records of one process follow the same record: the gateway's     *)
(* threads extend the chain one after the other, although each reads the   *)
(* tail before it writes and commands append in between (AuditLog.append's *)
(* lock).  Only a restore that replaces the log between a thread's reading *)
(* and its writing can fork the chain within a process.                    *)
NoForkWithin ==
  \A i, j \in DOMAIN log :
    /\ log[i].by = log[j].by /\ log[i].prev = log[j].prev
    /\ ~log[i].blind /\ ~log[j].blind
    => i = j
============================================================================
