--------------------------- MODULE PaladinProofs ---------------------------
(***************************************************************************)
(* What holds of the vault, the audit log and the archives of paladin for  *)
(* any number of names, entries, keys, clerks and gateway threads, and     *)
(* however often commands run, die, back up and restore.                   *)
(*                                                                         *)
(* Shape and Turns are inductive by themselves.  DocsInv (about documents) *)
(* and ChainInv (about the logs) are each inductive given those.           *)
(***************************************************************************)
EXTENDS Paladin, TLAPS
-----------------------------------------------------------------------------
(* The inductive invariants.                                               *)

Holding   == {"seal", "aside", "aside_log", "put", "put_log"}
Replacing == {"aside", "aside_log", "put", "put_log"}

\* The lock, the temporary file under it, and what is kept of the vault.
FilesInv ==
  /\ \A p \in Clerks :
       /\ pc[p] \in {"fill", "rename"} <=> lock = p
       /\ At(p, "rename") => Whole(temp)
  /\ vault # Torn
  /\ vault = Missing => aside # {}

\* What a backup or a restore has in its hands.
HeldInv ==
  /\ held = [p \in Clerks |-> held[p]]
  /\ \A p \in Clerks :
       /\ pc[p] \in Holding => held[p].seal \in Keys /\ held[p].blob \in Blobs
       /\ pc[p] \in Replacing => held[p].log \in Seq(Records)

Shape == TypeOK /\ FilesInv /\ HeldInv

\* The gateway's threads take turns, and none works before the vault is opened.
Turns ==
  \A t \in Threads :
    /\ tpc[t] = "append" <=> glock = t
    /\ tpc[t] = "append" => gkey # None

\* A document fit to be the vault's, when `known` is all that was ever made: no
\* entry under two names, none that was not made, and grants that follow.
Sound(d, known) ==
  /\ Follows(d)
  /\ \A n, m \in Names : d.at[n] = d.at[m] /\ d.at[n] # None => n = m
  /\ \A n \in Names : d.at[n] \in known \cup {None}
  /\ \A g \in d.grants : g.of \in known \cup {None}

DocsInv ==
  /\ Whole(vault) => Sound(vault.doc, made)
  /\ Whole(temp) => Sound(temp.doc, made)
  /\ \A p \in Clerks : Sound(mem[p], made)
  /\ backup # None => Sound(backup.blob.doc, made)
  /\ \A p \in Clerks : pc[p] \in Holding => Sound(held[p].blob.doc, made)

\* A log whose MACs, up to the n-th made, are in the order they were made in, and
\* in which whoever read its tail read no less than its process had written.
Ordered(l, n) ==
  /\ \A i \in DOMAIN l : l[i].prev < l[i].mac /\ l[i].mac <= n
  /\ \A i, j \in DOMAIN l : i < j =>
       /\ l[i].mac < l[j].mac
       /\ l[i].by = l[j].by /\ ~l[j].blind => l[i].mac <= l[j].prev

LogsInv ==
  /\ Ordered(log, macs)
  /\ backup # None => Ordered(backup.log, macs)
  /\ \A p \in Clerks : pc[p] \in Replacing => Ordered(held[p].log, macs)

\* Who has read the tail, and has not missed a restore since, has read past all
\* that its process wrote.
Ahead(x, by) == \A i \in DOMAIN log : log[i].by = by => log[i].mac <= prev[x]

ReadersInv ==
  /\ \A x \in Clerks \cup Threads : prev[x] <= macs
  /\ \A t \in Threads : tpc[t] = "append" /\ t \notin missed => Ahead(t, Gateway)
  /\ \A p \in Clerks : At(p, "append") /\ p \notin missed => Ahead(p, p)

ChainInv == LogsInv /\ ReadersInv
-----------------------------------------------------------------------------
(* What the commands make of a document.                                   *)

\* An edited document is a document.
LEMMA EditedDocument ==
  ASSUME NEW d \in Documents, NEW n \in Names, NEW m \in Names
  PROVE  /\ Empty \in Documents
         /\ \A e \in Entries : Added(d, n, e) \in Documents
         /\ Deleted(d, n) \in Documents
         /\ Renamed(d, n, m) \in Documents
         /\ Granted(d, n) \in Documents
         /\ Revoked(d, n) \in Documents
<1>1. Empty \in Documents
  BY DEF Empty, Documents
<1>2. Deleted(d, n) \in Documents /\ \A e \in Entries : Added(d, n, e) \in Documents
  BY DEF Added, Deleted, Documents
<1>3. Renamed(d, n, m) \in Documents
  <2>1. \A g \in Grants : Moved(g, n, m) \in Grants
    BY DEF Moved, Grants
  <2>2. {Moved(g, n, m) : g \in d.grants} \in SUBSET Grants
    BY <2>1 DEF Documents
  <2>3. [[d.at EXCEPT ![n] = None] EXCEPT ![m] = d.at[n]] \in [Names -> Entries \cup {None}]
    BY DEF Documents
  <2> QED BY <2>2, <2>3 DEF Renamed, Documents
<1>4. Granted(d, n) \in Documents
  <2>1. [ref |-> n, of |-> d.at[n]] \in Grants
    BY DEF Documents, Grants
  <2> QED BY <2>1 DEF Granted, Documents
<1>5. Revoked(d, n) \in Documents
  BY DEF Revoked, Documents
<1> QED BY <1>1, <1>2, <1>3, <1>4, <1>5

\* What is known only grows, and no document becomes unfit by it.
LEMMA SoundGrows ==
  ASSUME NEW d, NEW known, NEW more, known \subseteq more, Sound(d, known)
  PROVE  Sound(d, more)
BY DEF Sound

LEMMA EmptyIsSound ==
  ASSUME NEW known
  PROVE  Sound(Empty, known)
BY DEF Sound, Follows, Empty

\* A new entry takes a free name, and no grant is for it yet.
LEMMA AddedIsSound ==
  ASSUME NEW d \in Documents, NEW n \in Names, NEW e \in Entries, NEW known,
         Sound(d, known), e \notin known
  PROVE  Sound(Added(d, n, e), known \cup {e})
<1>1. None # e
  BY AbsentAssumption
<1> DEFINE c == Added(d, n, e)
<1>2. /\ c.grants = d.grants
      /\ \A x \in Names : c.at[x] = IF x = n THEN e ELSE d.at[x]
  BY DEF Added, Documents
<1> SUFFICES Sound(c, known \cup {e})
  OBVIOUS
<1> HIDE DEF c
<1> QED BY <1>1, <1>2 DEF Sound, Follows

LEMMA DeletedIsSound ==
  ASSUME NEW d \in Documents, NEW n \in Names, NEW known, Sound(d, known)
  PROVE  Sound(Deleted(d, n), known)
<1> DEFINE c == Deleted(d, n)
<1>1. /\ c.grants = d.grants
      /\ \A x \in Names : c.at[x] = IF x = n THEN None ELSE d.at[x]
  BY DEF Deleted, Documents
<1> SUFFICES Sound(c, known)
  OBVIOUS
<1> HIDE DEF c
<1> QED BY <1>1 DEF Sound, Follows

\* A rename takes the entry and its grants along, and does nothing when the
\* name stays.
LEMMA RenamedIsSound ==
  ASSUME NEW d \in Documents, NEW n \in Names, NEW m \in Names, NEW known,
         m = n \/ d.at[m] = None, Sound(d, known)
  PROVE  Sound(Renamed(d, n, m), known)
<1> DEFINE c == Renamed(d, n, m)
<1>1. \A x \in Names : c.at[x] = IF x = m THEN d.at[n]
                                 ELSE IF x = n THEN None ELSE d.at[x]
  BY DEF Renamed, Documents
<1>2. c.grants = {Moved(g, n, m) : g \in d.grants}
  BY DEF Renamed
<1>3. ASSUME NEW g \in c.grants
      PROVE  \E h \in d.grants : /\ g.of = h.of
                                 /\ g.ref = IF h.ref = n THEN m ELSE h.ref
  <2>1. PICK h \in d.grants : g = Moved(h, n, m)
    BY <1>2
  <2>2. h \in Grants
    BY DEF Documents
  <2> QED BY <2>1, <2>2 DEF Moved, Grants
<1> SUFFICES Sound(c, known)
  OBVIOUS
<1> HIDE DEF c
<1>4. Follows(c)
  <2> SUFFICES ASSUME NEW g \in c.grants, NEW x \in Names, g.of = c.at[x], g.of # None
               PROVE  g.ref = x
    BY DEF Follows
  <2>1. PICK h \in d.grants : /\ g.of = h.of
                              /\ g.ref = IF h.ref = n THEN m ELSE h.ref
    BY <1>3
  <2> QED BY <1>1, <2>1 DEF Sound, Follows
<1>5. \A x, y \in Names : c.at[x] = c.at[y] /\ c.at[x] # None => x = y
  BY <1>1 DEF Sound
<1>6. \A x \in Names : c.at[x] \in known \cup {None}
  BY <1>1 DEF Sound
<1>7. \A g \in c.grants : g.of \in known \cup {None}
  BY <1>3 DEF Sound
<1> QED BY <1>4, <1>5, <1>6, <1>7 DEF Sound

\* A grant is given for what the name stands for now.
LEMMA GrantedIsSound ==
  ASSUME NEW d \in Documents, NEW n \in Names, NEW known, Sound(d, known)
  PROVE  Sound(Granted(d, n), known)
<1> DEFINE c == Granted(d, n)
           g0 == [ref |-> n, of |-> d.at[n]]
<1>1. c.at = d.at /\ c.grants = d.grants \cup {g0}
  BY DEF Granted, Documents
<1>2. g0.ref = n /\ g0.of = d.at[n]
  OBVIOUS
<1> SUFFICES Sound(c, known)
  OBVIOUS
<1> HIDE DEF c, g0
<1> QED BY <1>1, <1>2 DEF Sound, Follows

LEMMA RevokedIsSound ==
  ASSUME NEW d \in Documents, NEW n \in Names, NEW known, Sound(d, known)
  PROVE  Sound(Revoked(d, n), known)
<1> DEFINE c == Revoked(d, n)
<1>1. c.at = d.at /\ c.grants \subseteq d.grants
  BY DEF Revoked, Documents
<1> SUFFICES Sound(c, known)
  OBVIOUS
<1> HIDE DEF c
<1> QED BY <1>1 DEF Sound, Follows
-----------------------------------------------------------------------------
(* Shape: what the variables are.                                          *)

VaultTypes ==
  /\ vault \in Blobs \cup {Missing, Torn} /\ temp \in Blobs \cup {Missing, Torn}
  /\ lock \in Clerks \cup {None} /\ pc \in [Clerks -> Places]
  /\ mem \in [Clerks -> Documents] /\ key \in [Clerks -> Keys]
  /\ commands \in 0 .. MaxCommands /\ deaths \in 0 .. MaxDeaths
  /\ made \subseteq Entries \cup Keys

AuditTypes ==
  log \in Seq(Records) /\ macs \in Nat /\ prev \in [Clerks \cup Threads -> Nat]

GateTypes ==
  /\ tpc \in [Threads -> {"idle", "append"}] /\ calls \in 0 .. MaxCalls
  /\ gkey \in Keys \cup {None} /\ glock \in Threads \cup {None}

ArchiveTypes ==
  /\ \A p \in Clerks : held[p] # None => held[p].seal \in Keys /\ held[p].blob \in Blobs
  /\ backup # None =>
       backup.seal \in Keys /\ backup.blob \in Blobs /\ backup.log \in Seq(Records)
  /\ aside \subseteq Blobs

LEMMA TypesInGroups ==
  /\ TypeOK <=> VaultTypes /\ AuditTypes /\ GateTypes /\ ArchiveTypes
  /\ TypeOK' <=> VaultTypes' /\ AuditTypes' /\ GateTypes' /\ ArchiveTypes'
BY DEF TypeOK, VaultTypes, AuditTypes, GateTypes, ArchiveTypes

\* A whole file is a vault: a key and a document.
LEMMA WholeIsABlob ==
  ASSUME NEW file \in Blobs \cup {Missing, Torn}, Whole(file)
  PROVE  file \in Blobs /\ file.key \in Keys /\ file.doc \in Documents
BY DEF Whole, Blobs

\* Files that nothing touches stay as they are, whatever a clerk does that is
\* neither saving nor begins to.
LEMMA FilesStay ==
  ASSUME FilesInv, VaultTypes, NEW p \in Clerks, NEW place,
         pc[p] \notin {"fill", "rename"}, place \notin {"fill", "rename"},
         Goto(p, place), UNCHANGED <<vault, temp, lock, aside>>
  PROVE  FilesInv'
BY DEF FilesInv, VaultTypes, Goto, At, Whole

\* Nor does what a clerk holds change by a step to a place where it needs none.
LEMMA HeldStays ==
  ASSUME HeldInv, VaultTypes, NEW p \in Clerks, NEW place,
         place \notin Holding, Goto(p, place), UNCHANGED held
  PROVE  HeldInv'
BY DEF HeldInv, VaultTypes, Goto, Holding, Replacing

LEMMA OpensKeepsShape ==
  ASSUME Shape, NEW p \in Clerks, NEW d \in Documents, NEW k \in Keys,
         Opens(p, d, k), made' \subseteq Entries \cup Keys,
         UNCHANGED <<auditVars, gateVars, backupVars>>
  PROVE  Shape'
<1>1. VaultTypes /\ AuditTypes /\ GateTypes /\ ArchiveTypes
  BY TypesInGroups DEF Shape
<1>2. VaultTypes'
  BY <1>1, VaultBoundsAssumption DEF VaultTypes, Opens, Starts, Holds, Places
<1>3. AuditTypes' /\ GateTypes' /\ ArchiveTypes'
  BY <1>1 DEF AuditTypes, GateTypes, ArchiveTypes, auditVars, gateVars, backupVars
<1>4. Goto(p, "save") /\ pc[p] = "idle" /\ UNCHANGED <<vault, temp, lock, aside, held>>
  BY DEF Opens, Starts, Goto, backupVars
<1>5. FilesInv'
  BY <1>1, <1>4, FilesStay DEF Shape
<1>6. HeldInv'
  BY <1>1, <1>4, HeldStays DEF Shape, Holding
<1> QED BY <1>2, <1>3, <1>5, <1>6, TypesInGroups DEF Shape

LEMMA CommandKeepsShape ==
  ASSUME Shape, NEW p \in Clerks, Command(p), UNCHANGED <<auditVars, gateVars, backupVars>>
  PROVE  Shape'
<1>1. VaultTypes /\ AuditTypes /\ GateTypes /\ ArchiveTypes /\ made \subseteq Entries \cup Keys
  BY TypesInGroups DEF Shape, VaultTypes
<1>2. Whole(vault) => vault.key \in Keys /\ vault.doc \in Documents
  BY <1>1, WholeIsABlob DEF VaultTypes
<1>3. ASSUME NEW n \in Names, Add(p, n) PROVE Shape'
  <2>1. PICK e \in Entries \ made :
          Opens(p, Added(vault.doc, n, e), vault.key) /\ made' = made \cup {e}
    BY <1>3 DEF Add
  <2>2. Added(vault.doc, n, e) \in Documents /\ vault.key \in Keys
    BY <1>2, <2>1, EditedDocument DEF Opens
  <2> QED BY <1>1, <2>1, <2>2, OpensKeepsShape
<1>4. ASSUME NEW n \in Names, NEW m \in Names, Edit(p, n, m) PROVE Shape'
  <2>1. Opens(p, Renamed(vault.doc, n, m), vault.key) /\ made' = made
    BY <1>4 DEF Edit
  <2>2. Renamed(vault.doc, n, m) \in Documents /\ vault.key \in Keys
    BY <1>2, <2>1, EditedDocument DEF Opens
  <2> QED BY <1>1, <2>1, <2>2, OpensKeepsShape
<1>5. ASSUME NEW n \in Names, Delete(p, n) PROVE Shape'
  <2>1. Opens(p, Deleted(vault.doc, n), vault.key) /\ made' = made
    BY <1>5 DEF Delete
  <2>2. Deleted(vault.doc, n) \in Documents /\ vault.key \in Keys
    BY <1>2, <2>1, EditedDocument DEF Opens
  <2> QED BY <1>1, <2>1, <2>2, OpensKeepsShape
<1>6. ASSUME NEW n \in Names, Grant(p, n) PROVE Shape'
  <2>1. Opens(p, Granted(vault.doc, n), vault.key) /\ made' = made
    BY <1>6 DEF Grant
  <2>2. Granted(vault.doc, n) \in Documents /\ vault.key \in Keys
    BY <1>2, <2>1, EditedDocument DEF Opens
  <2> QED BY <1>1, <2>1, <2>2, OpensKeepsShape
<1>7. ASSUME NEW n \in Names, Revoke(p, n) PROVE Shape'
  <2>1. Revoked(vault.doc, n) \in Documents /\ Empty \in Documents /\ vault.key \in Keys
    BY <1>2, <1>7, EditedDocument DEF Revoke
  <2>2. PICK place \in {"save", "record"} :
          Goto(p, place) /\ pc[p] = "idle" /\ UNCHANGED <<vault, temp, lock, aside, held>>
    BY <1>7 DEF Revoke, Starts, backupVars
  <2>3. FilesInv' /\ HeldInv'
    BY <1>1, <2>2, FilesStay, HeldStays DEF Shape, Holding
  <2>4. VaultTypes'
    BY <1>1, <1>7, <2>1, VaultBoundsAssumption
       DEF VaultTypes, Revoke, Starts, Holds, Goto, Places
  <2>5. AuditTypes' /\ GateTypes' /\ ArchiveTypes'
    BY <1>1 DEF AuditTypes, GateTypes, ArchiveTypes, auditVars, gateVars, backupVars
  <2> QED BY <2>3, <2>4, <2>5, TypesInGroups DEF Shape
<1>8. CASE RotateMaster(p)
  <2>1. PICK k \in Keys \ made : Opens(p, vault.doc, k) /\ made' = made \cup {k}
    BY <1>8 DEF RotateMaster
  <2> QED BY <1>1, <1>2, <2>1, OpensKeepsShape DEF Opens
<1> QED BY <1>3, <1>4, <1>5, <1>6, <1>7, <1>8 DEF Command

LEMMA SaveKeepsShape ==
  ASSUME Shape, NEW p \in Clerks, Save(p), UNCHANGED <<auditVars, gateVars, backupVars>>
  PROVE  Shape'
<1>1. VaultTypes /\ AuditTypes /\ GateTypes /\ ArchiveTypes /\ FilesInv /\ HeldInv
  BY TypesInGroups DEF Shape
<1>2. AuditTypes' /\ GateTypes' /\ ArchiveTypes'
  BY <1>1 DEF AuditTypes, GateTypes, ArchiveTypes, auditVars, gateVars, backupVars
<1>3. UNCHANGED <<aside, held>>
  BY DEF backupVars
<1>4. CASE BeginSave(p)
  <2>1. VaultTypes'
    BY <1>1, <1>4 DEF VaultTypes, BeginSave, Goto, Places
  <2>2. FilesInv'
    BY <1>1, <1>3, <1>4, AbsentAssumption DEF VaultTypes, FilesInv, BeginSave, Goto, At, Whole
  <2>3. HeldInv'
    BY <1>1, <1>3, <1>4, HeldStays DEF BeginSave, Holding
  <2> QED BY <1>2, <2>1, <2>2, <2>3, TypesInGroups DEF Shape
<1>5. CASE FillTemp(p)
  <2>1. [key |-> key[p], doc |-> mem[p]] \in Blobs
    BY <1>1 DEF VaultTypes, Blobs
  <2>2. temp' \in Blobs /\ Whole(temp')
    BY <1>5, <2>1, FilesAssumption DEF FillTemp, Whole
  <2>3. VaultTypes'
    BY <1>1, <1>5, <2>2 DEF VaultTypes, FillTemp, Goto, Places
  <2>4. FilesInv'
    BY <1>1, <1>3, <1>5, <2>2 DEF VaultTypes, FilesInv, FillTemp, Goto, At, Whole
  <2>5. HeldInv'
    BY <1>1, <1>3, <1>5, HeldStays DEF FillTemp, Holding
  <2> QED BY <1>2, <2>3, <2>4, <2>5, TypesInGroups DEF Shape
<1>6. CASE FinishSave(p)
  <2>1. Whole(temp) /\ lock = p
    BY <1>1, <1>6 DEF FilesInv, FinishSave, At
  <2>2. temp \in Blobs
    BY <1>1, <2>1, WholeIsABlob DEF VaultTypes
  <2>3. Empty \in Documents
    BY DEF Empty, Documents
  <2>4. VaultTypes'
    BY <1>1, <1>6, <2>2, <2>3 DEF VaultTypes, FinishSave, Holds, Goto, Places
  <2>5. FilesInv'
    BY <1>1, <1>3, <1>6, <2>1, AbsentAssumption
       DEF VaultTypes, FilesInv, FinishSave, Goto, At, Whole
  <2>6. HeldInv'
    BY <1>1, <1>3, <1>6, HeldStays DEF FinishSave, Holding
  <2> QED BY <1>2, <2>4, <2>5, <2>6, TypesInGroups DEF Shape
<1> QED BY <1>4, <1>5, <1>6 DEF Save

LEMMA DeathKeepsShape ==
  ASSUME Shape, NEW p \in Clerks, Death(p)
  PROVE  Shape'
<1>1. VaultTypes /\ AuditTypes /\ GateTypes /\ ArchiveTypes /\ FilesInv /\ HeldInv
  BY TypesInGroups DEF Shape
<1>2. Empty \in Documents /\ FirstKey \in Keys
  BY KeysAssumption DEF Empty, Documents
<1>3. VaultTypes'
  BY <1>1, <1>2, VaultBoundsAssumption
     DEF VaultTypes, Death, Die, Forgets, Holds, Goto, Places
<1>4. AuditTypes' /\ GateTypes'
  BY <1>1 DEF AuditTypes, GateTypes, Death, gateVars
<1>5. \A c \in Clerks : held'[c] = IF c = p THEN None ELSE held[c]
  BY <1>1 DEF HeldInv, Death
<1>6. ArchiveTypes'
  BY <1>1, <1>5 DEF ArchiveTypes, Death
<1>7. FilesInv'
  BY <1>1, AbsentAssumption DEF VaultTypes, FilesInv, Death, Die, Goto, At, Whole
<1>8. HeldInv'
  BY <1>1, <1>5 DEF VaultTypes, HeldInv, Death, Die, Goto, Holding, Replacing
<1> QED BY <1>3, <1>4, <1>6, <1>7, <1>8, TypesInGroups DEF Shape

\* A record fit for the log makes the log one record longer.
LEMMA WritesKeepsTypes ==
  ASSUME AuditTypes, NEW x \in Clerks \cup Threads, NEW by \in Clerks \cup {Gateway},
         NEW k \in Keys, Writes(x, by, k)
  PROVE  AuditTypes'
<1> DEFINE r == [prev |-> prev[x], mac |-> macs + 1, key |-> k, by |-> by,
                 blind |-> x \in missed]
<1>1. r \in Records
  <2>1. prev[x] \in Nat /\ macs + 1 \in Nat
    BY DEF AuditTypes
  <2>2. (x \in missed) \in BOOLEAN
    OBVIOUS
  <2> QED BY <2>1, <2>2 DEF Records
<1>2. log' = Append(log, r)
  BY DEF Writes
<1> HIDE DEF r
<1>3. log' \in Seq(Records)
  BY <1>1, <1>2 DEF AuditTypes
<1>4. macs' \in Nat /\ prev' \in [Clerks \cup Threads -> Nat]
  BY DEF AuditTypes, Writes
<1> QED BY <1>3, <1>4 DEF AuditTypes

LEMMA TailMacType ==
  ASSUME log \in Seq(Records)
  PROVE  TailMac \in Nat
<1>1. CASE log = <<>>
  BY <1>1 DEF TailMac
<1>2. CASE log # <<>>
  <2>1. Len(log) \in DOMAIN log /\ log[Len(log)] \in Records
    BY <1>2
  <2>2. log[Len(log)].mac \in Nat
    BY <2>1 DEF Records
  <2> QED BY <1>2, <2>2 DEF TailMac
<1> QED BY <1>1, <1>2

LEMMA ReadsKeepsTypes ==
  ASSUME AuditTypes, NEW x \in Clerks \cup Threads, Reads(x), UNCHANGED <<log, macs>>
  PROVE  AuditTypes'
BY TailMacType DEF AuditTypes, Reads

LEMMA RecordingKeepsShape ==
  ASSUME Shape, NEW p \in Clerks, Recording(p)
  PROVE  Shape'
<1>1. VaultTypes /\ AuditTypes /\ GateTypes /\ ArchiveTypes /\ FilesInv /\ HeldInv
  BY TypesInGroups DEF Shape
<1>2. CASE ReadTail(p)
  <2>1. Goto(p, "append") /\ pc[p] = "record" /\ UNCHANGED <<vault, temp, lock, aside, held>>
    BY <1>2 DEF ReadTail, At, backupVars
  <2>2. FilesInv' /\ HeldInv'
    BY <1>1, <2>1, FilesStay, HeldStays DEF Holding
  <2>3. VaultTypes'
    BY <1>1, <1>2 DEF VaultTypes, ReadTail, Goto, Places
  <2>4. AuditTypes'
    BY <1>1, <1>2, ReadsKeepsTypes DEF ReadTail
  <2>5. GateTypes' /\ ArchiveTypes'
    BY <1>1, <1>2 DEF GateTypes, ArchiveTypes, ReadTail, gateVars, backupVars
  <2> QED BY <2>2, <2>3, <2>4, <2>5, TypesInGroups DEF Shape
<1>3. CASE AppendRecord(p)
  <2>1. Goto(p, "idle") /\ pc[p] = "append" /\ UNCHANGED <<vault, temp, lock, aside, held>>
    BY <1>3 DEF AppendRecord, At, backupVars
  <2>2. FilesInv' /\ HeldInv'
    BY <1>1, <2>1, FilesStay, HeldStays DEF Holding
  <2>3. Empty \in Documents /\ FirstKey \in Keys
    BY KeysAssumption DEF Empty, Documents
  <2>4. VaultTypes'
    BY <1>1, <1>3, <2>3 DEF VaultTypes, AppendRecord, Forgets, Holds, Goto, Places
  <2>5. key[p] \in Keys
    BY <1>1 DEF VaultTypes
  <2>6. AuditTypes'
    BY <1>1, <1>3, <2>5, WritesKeepsTypes DEF AppendRecord
  <2>7. GateTypes' /\ ArchiveTypes'
    BY <1>1, <1>3 DEF GateTypes, ArchiveTypes, AppendRecord, gateVars, backupVars
  <2> QED BY <2>2, <2>4, <2>6, <2>7, TypesInGroups DEF Shape
<1> QED BY <1>2, <1>3 DEF Recording

\* What the gateway does leaves the vault and the archives alone.
LEMMA GatewayKeepsShape ==
  ASSUME Shape, Turns, StartGateway \/ \E t \in Threads : Serving(t)
  PROVE  Shape'
<1>1. VaultTypes /\ AuditTypes /\ GateTypes /\ ArchiveTypes /\ FilesInv /\ HeldInv
  BY TypesInGroups DEF Shape
<1>2. UNCHANGED <<vaultVars, backupVars>>
  BY DEF StartGateway, Serving, ThreadReadTail, ThreadAppend
<1>3. VaultTypes' /\ ArchiveTypes' /\ FilesInv' /\ HeldInv'
  BY <1>1, <1>2
     DEF VaultTypes, ArchiveTypes, FilesInv, HeldInv, At, Whole, vaultVars, backupVars
<1>4. CASE StartGateway
  <2>1. vault.key \in Keys
    BY <1>1, <1>4, WholeIsABlob DEF VaultTypes, StartGateway
  <2>2. AuditTypes' /\ GateTypes'
    BY <1>1, <1>4, <2>1 DEF AuditTypes, GateTypes, StartGateway, auditVars
  <2> QED BY <1>3, <2>2, TypesInGroups DEF Shape
<1>5. ASSUME NEW t \in Threads, ThreadReadTail(t) PROVE Shape'
  <2>1. AuditTypes'
    BY <1>1, <1>5, ReadsKeepsTypes DEF ThreadReadTail
  <2>2. GateTypes'
    BY <1>1, <1>5, CallsAssumption DEF GateTypes, ThreadReadTail
  <2> QED BY <1>3, <2>1, <2>2, TypesInGroups DEF Shape
<1>6. ASSUME NEW t \in Threads, ThreadAppend(t) PROVE Shape'
  <2>1. gkey \in Keys
    BY <1>1, <1>6 DEF Turns, GateTypes, ThreadAppend
  <2>2. AuditTypes'
    BY <1>1, <1>6, <2>1, WritesKeepsTypes DEF ThreadAppend
  <2>3. GateTypes'
    BY <1>1, <1>6 DEF GateTypes, ThreadAppend
  <2> QED BY <1>3, <2>2, <2>3, TypesInGroups DEF Shape
<1> QED BY <1>4, <1>5, <1>6 DEF Serving

LEMMA BackingUpKeepsShape ==
  ASSUME Shape, NEW p \in Clerks, BackingUp(p)
  PROVE  Shape'
<1>1. VaultTypes /\ AuditTypes /\ GateTypes /\ ArchiveTypes /\ FilesInv /\ HeldInv
  BY TypesInGroups DEF Shape
<1>2. AuditTypes' /\ GateTypes'
  BY <1>1 DEF BackingUp, Backup, CopyVault, Seal, AuditTypes, GateTypes, auditVars, gateVars
<1>3. Empty \in Documents /\ FirstKey \in Keys
  BY KeysAssumption DEF Empty, Documents
<1>4. Whole(vault) => vault \in Blobs /\ vault.key \in Keys
  BY <1>1, WholeIsABlob DEF VaultTypes
<1>5. CASE Backup(p)
  <2>1. Goto(p, "copy") /\ pc[p] = "idle" /\ UNCHANGED <<vault, temp, lock, aside, held>>
    BY <1>5 DEF Backup, Starts, backupVars
  <2>2. FilesInv' /\ HeldInv'
    BY <1>1, <2>1, FilesStay, HeldStays DEF Holding
  <2>3. VaultTypes'
    BY <1>1, <1>3, <1>4, <1>5, VaultBoundsAssumption
       DEF VaultTypes, Backup, Starts, Holds, Goto, Places
  <2>4. ArchiveTypes'
    BY <1>1, <1>5 DEF ArchiveTypes, Backup, backupVars
  <2> QED BY <1>2, <2>2, <2>3, <2>4, TypesInGroups DEF Shape
<1>6. CASE CopyVault(p)
  <2>1. PICK place \in {"seal", "idle"} :
          /\ Goto(p, place) /\ pc[p] = "copy" /\ UNCHANGED <<vault, temp, lock, aside>>
          /\ place = "seal" => /\ vault \in Blobs
                               /\ held' = [held EXCEPT ![p] = [seal |-> key[p], blob |-> vault]]
          /\ place = "idle" => UNCHANGED held
    BY <1>4, <1>6 DEF CopyVault, At
  <2>2. FilesInv'
    BY <1>1, <2>1, FilesStay
  <2>3. VaultTypes'
    BY <1>1, <1>3, <1>6 DEF VaultTypes, CopyVault, Forgets, Holds, Goto, Places
  <2>4. CASE place = "idle"
    <3>1. HeldInv'
      BY <1>1, <2>1, <2>4, HeldStays DEF Holding
    <3>2. ArchiveTypes'
      BY <1>1, <1>6, <2>1, <2>4 DEF ArchiveTypes, CopyVault
    <3> QED BY <1>2, <2>2, <2>3, <3>1, <3>2, TypesInGroups DEF Shape
  <2>5. CASE place = "seal"
    <3>1. \A c \in Clerks : held'[c] = IF c = p THEN [seal |-> key[p], blob |-> vault]
                                       ELSE held[c]
      BY <1>1, <2>1, <2>5 DEF HeldInv
    <3>2. held'[p].seal \in Keys /\ held'[p].blob \in Blobs
      BY <1>1, <2>1, <2>5, <3>1 DEF VaultTypes
    <3>3. pc'[p] = "seal" /\ \A c \in Clerks : c # p => pc'[c] = pc[c] /\ held'[c] = held[c]
      BY <1>1, <2>1, <2>5, <3>1 DEF VaultTypes, Goto
    <3>4. HeldInv'
      BY <1>1, <2>1, <2>5, <3>2, <3>3 DEF HeldInv, Holding, Replacing
    <3>5. ArchiveTypes'
      BY <1>1, <1>6, <3>2, <3>3 DEF ArchiveTypes, CopyVault
    <3> QED BY <1>2, <2>2, <2>3, <3>4, <3>5, TypesInGroups DEF Shape
  <2> QED BY <2>4, <2>5
<1>7. CASE Seal(p)
  <2>1. pc[p] = "seal" /\ held[p].seal \in Keys /\ held[p].blob \in Blobs
    BY <1>1, <1>7 DEF Seal, At, HeldInv, Holding
  <2>2. Goto(p, "idle") /\ UNCHANGED <<vault, temp, lock, aside>>
    BY <1>7 DEF Seal
  <2>3. FilesInv'
    BY <1>1, <2>1, <2>2, FilesStay
  <2>4. VaultTypes'
    BY <1>1, <1>7 DEF VaultTypes, Seal, Goto, Places
  <2>5. \A c \in Clerks : held'[c] = IF c = p THEN None ELSE held[c]
    BY <1>1, <1>7 DEF HeldInv, Seal
  <2>6. HeldInv'
    BY <1>1, <1>7, <2>2, <2>5 DEF VaultTypes, HeldInv, Goto, Holding, Replacing, Seal
  <2>7. ArchiveTypes'
    BY <1>1, <1>7, <2>1, <2>5 DEF ArchiveTypes, AuditTypes, Seal
  <2> QED BY <1>2, <2>3, <2>4, <2>6, <2>7, TypesInGroups DEF Shape
<1> QED BY <1>5, <1>6, <1>7 DEF BackingUp

LEMMA RestoringKeepsShape ==
  ASSUME Shape, NEW p \in Clerks, Restoring(p)
  PROVE  Shape'
<1>1. VaultTypes /\ AuditTypes /\ GateTypes /\ ArchiveTypes /\ FilesInv /\ HeldInv
  BY TypesInGroups DEF Shape
<1>2. GateTypes'
  BY <1>1 DEF Restoring, Restore, MoveVaultAside, MoveLogAside, PutVault, PutLog,
              GateTypes, gateVars
<1>3. CASE Restore(p)
  <2>1. Goto(p, "aside") /\ pc[p] = "idle" /\ UNCHANGED <<vault, temp, lock, aside>>
    BY <1>3 DEF Restore, Starts
  <2>2. FilesInv'
    BY <1>1, <2>1, FilesStay
  <2>3. VaultTypes'
    BY <1>1, <1>3, VaultBoundsAssumption DEF VaultTypes, Restore, Starts, Goto, Places
  <2>4. \A c \in Clerks : held'[c] = IF c = p THEN backup ELSE held[c]
    BY <1>1, <1>3 DEF HeldInv, Restore
  <2>5. backup.seal \in Keys /\ backup.blob \in Blobs /\ backup.log \in Seq(Records)
    BY <1>1, <1>3 DEF ArchiveTypes, Restore
  <2>6. HeldInv'
    BY <1>1, <1>3, <2>1, <2>4, <2>5 DEF VaultTypes, HeldInv, Goto, Holding, Replacing, Restore
  <2>7. AuditTypes' /\ ArchiveTypes'
    BY <1>1, <1>3, <2>4, <2>5 DEF AuditTypes, ArchiveTypes, Restore, auditVars
  <2> QED BY <1>2, <2>2, <2>3, <2>6, <2>7, TypesInGroups DEF Shape
<1>4. CASE MoveVaultAside(p)
  <2>1. vault # Missing => vault \in Blobs
    BY <1>1, WholeIsABlob DEF VaultTypes, FilesInv, Whole
  <2>2. VaultTypes'
    BY <1>1, <1>4 DEF VaultTypes, MoveVaultAside, Goto, Places
  <2>3. FilesInv'
    BY <1>1, <1>4, AbsentAssumption DEF VaultTypes, FilesInv, MoveVaultAside, Goto, At, Whole
  <2>4. HeldInv'
    BY <1>1, <1>4 DEF VaultTypes, HeldInv, MoveVaultAside, At, Goto, Holding, Replacing
  <2>5. AuditTypes' /\ ArchiveTypes'
    BY <1>1, <1>4, <2>1 DEF AuditTypes, ArchiveTypes, MoveVaultAside, auditVars
  <2> QED BY <1>2, <2>2, <2>3, <2>4, <2>5, TypesInGroups DEF Shape
<1>5. CASE MoveLogAside(p)
  <2>1. Goto(p, "put") /\ pc[p] = "aside_log" /\ UNCHANGED <<vault, temp, lock, aside>>
    BY <1>5 DEF MoveLogAside, At, backupVars
  <2>2. FilesInv'
    BY <1>1, <2>1, FilesStay
  <2>3. VaultTypes'
    BY <1>1, <1>5 DEF VaultTypes, MoveLogAside, Goto, Places
  <2>4. HeldInv'
    BY <1>1, <1>5, <2>1 DEF VaultTypes, HeldInv, MoveLogAside, Goto, Holding, Replacing, backupVars
  <2>5. AuditTypes' /\ ArchiveTypes'
    BY <1>1, <1>5 DEF AuditTypes, ArchiveTypes, MoveLogAside, backupVars
  <2> QED BY <1>2, <2>2, <2>3, <2>4, <2>5, TypesInGroups DEF Shape
<1>6. CASE PutVault(p)
  <2>1. held[p].blob \in Blobs
    BY <1>1, <1>6 DEF HeldInv, PutVault, At, Holding
  <2>2. VaultTypes'
    BY <1>1, <1>6, <2>1 DEF VaultTypes, PutVault, Goto, Places
  <2>3. FilesInv'
    BY <1>1, <1>6, <2>1, FilesAssumption
       DEF VaultTypes, FilesInv, PutVault, Goto, At, Whole
  <2>4. HeldInv'
    BY <1>1, <1>6 DEF VaultTypes, HeldInv, PutVault, At, Goto, Holding, Replacing, backupVars
  <2>5. AuditTypes' /\ ArchiveTypes'
    BY <1>1, <1>6 DEF AuditTypes, ArchiveTypes, PutVault, auditVars, backupVars
  <2> QED BY <1>2, <2>2, <2>3, <2>4, <2>5, TypesInGroups DEF Shape
<1>7. CASE PutLog(p)
  <2>1. Goto(p, "idle") /\ pc[p] = "put_log" /\ UNCHANGED <<vault, temp, lock, aside>>
    BY <1>7 DEF PutLog, At
  <2>2. FilesInv'
    BY <1>1, <2>1, FilesStay
  <2>3. VaultTypes'
    BY <1>1, <1>7 DEF VaultTypes, PutLog, Goto, Places
  <2>4. \A c \in Clerks : held'[c] = IF c = p THEN None ELSE held[c]
    BY <1>1, <1>7 DEF HeldInv, PutLog
  <2>5. HeldInv'
    BY <1>1, <1>7, <2>1, <2>4 DEF VaultTypes, HeldInv, PutLog, Goto, Holding, Replacing
  <2>6. held[p].log \in Seq(Records)
    BY <1>1, <2>1 DEF HeldInv, Replacing
  <2>7. AuditTypes' /\ ArchiveTypes'
    BY <1>1, <1>7, <2>4, <2>6 DEF AuditTypes, ArchiveTypes, PutLog
  <2> QED BY <1>2, <2>2, <2>3, <2>5, <2>7, TypesInGroups DEF Shape
<1> QED BY <1>3, <1>4, <1>5, <1>6, <1>7 DEF Restoring

\* The gateway's lock is the working thread's.
LEMMA TurnsAreKept ==
  ASSUME Turns, TypeOK, [Next]_vars
  PROVE  Turns'
<1>1. GateTypes
  BY TypesInGroups
<1>2. CASE UNCHANGED gateVars
  BY <1>2 DEF Turns, gateVars
<1>3. CASE StartGateway
  BY <1>1, <1>3, AbsentAssumption, WholeIsABlob, TypesInGroups
     DEF Turns, GateTypes, VaultTypes, StartGateway
<1>4. ASSUME NEW t \in Threads, ThreadReadTail(t) PROVE Turns'
  BY <1>1, <1>4, ActorsAssumption DEF Turns, GateTypes, ThreadReadTail
<1>5. ASSUME NEW t \in Threads, ThreadAppend(t) PROVE Turns'
  BY <1>1, <1>5, ActorsAssumption DEF Turns, GateTypes, ThreadAppend
<1> QED
  <2>1. ASSUME NEW p \in Clerks,
               VaultStep(p) \/ Death(p) \/ Recording(p) \/ BackingUp(p) \/ Restoring(p)
        PROVE  UNCHANGED gateVars
    BY <2>1 DEF VaultStep, Death, Recording, ReadTail, AppendRecord, BackingUp, Backup,
                CopyVault, Seal, Restoring, Restore, MoveVaultAside, MoveLogAside,
                PutVault, PutLog
  <2> QED BY <1>2, <1>3, <1>4, <1>5, <2>1 DEF Next, Serving, vars

LEMMA ShapeHolds ==
  Spec => [](Shape /\ Turns)
<1>1. Init => Shape /\ Turns
  <2> SUFFICES ASSUME Init PROVE Shape /\ Turns
    OBVIOUS
  <2>1. Empty \in Documents /\ FirstKey \in Keys
    BY KeysAssumption DEF Empty, Documents
  <2>2. [key |-> FirstKey, doc |-> Empty] \in Blobs
    BY <2>1 DEF Blobs
  <2>3. VaultTypes
    BY <2>1, <2>2, VaultBoundsAssumption DEF Init, VaultInit, VaultTypes, Places
  <2>4. AuditTypes /\ GateTypes /\ ArchiveTypes
    BY CallsAssumption DEF Init, AuditTypes, GateTypes, ArchiveTypes
  <2>5. FilesInv
    BY <2>2, AbsentAssumption, FilesAssumption DEF Init, VaultInit, FilesInv, At
  <2>6. HeldInv
    BY DEF Init, VaultInit, HeldInv, Holding, Replacing
  <2>7. Turns
    BY ActorsAssumption DEF Init, Turns
  <2> QED BY <2>3, <2>4, <2>5, <2>6, <2>7, TypesInGroups DEF Shape
<1>2. Shape /\ Turns /\ [Next]_vars => Shape' /\ Turns'
  <2> SUFFICES ASSUME Shape, Turns, [Next]_vars PROVE Shape' /\ Turns'
    OBVIOUS
  <2>1. Turns'
    BY TurnsAreKept DEF Shape
  <2>2. CASE UNCHANGED vars
    <3>1. UNCHANGED <<vaultVars, auditVars, gateVars, backupVars>>
      BY <2>2 DEF vars
    <3>2. VaultTypes' /\ AuditTypes' /\ GateTypes' /\ ArchiveTypes'
      BY <3>1, TypesInGroups DEF Shape, VaultTypes, AuditTypes, GateTypes, ArchiveTypes,
                                 vaultVars, auditVars, gateVars, backupVars
    <3>3. FilesInv' /\ HeldInv'
      BY <3>1 DEF Shape, FilesInv, HeldInv, At, Whole, vaultVars, backupVars
    <3> QED BY <2>1, <3>2, <3>3, TypesInGroups DEF Shape
  <2>3. ASSUME NEW p \in Clerks, VaultStep(p) PROVE Shape'
    BY <2>3, CommandKeepsShape, SaveKeepsShape DEF VaultStep
  <2> QED BY <2>1, <2>2, <2>3, DeathKeepsShape, RecordingKeepsShape, BackingUpKeepsShape,
             RestoringKeepsShape, GatewayKeepsShape DEF Next
<1> QED BY <1>1, <1>2, PTL DEF Spec

(* Whatever commands run at once and wherever one dies, every variable     *)
(* keeps its kind, and the vault file opens, or is gone while what it was  *)
(* is kept aside (Vault.save's lock and rename, restore_backup's order).   *)
THEOREM VaultIsWholeHolds == Spec => []VaultIsWhole
<1>1. Shape => VaultIsWhole
  BY DEF Shape, FilesInv, VaultIsWhole
<1> QED BY <1>1, ShapeHolds, PTL
-----------------------------------------------------------------------------
(* The documents.                                                          *)

\* A command that opens the vault brings a sound document, and makes an entry
\* or a key more known at most.
LEMMA OpensKeepsDocs ==
  ASSUME DocsInv, Shape, NEW p \in Clerks, NEW d, NEW k, Opens(p, d, k),
         made \subseteq made', Sound(d, made'), UNCHANGED backupVars
  PROVE  DocsInv'
<1>1. VaultTypes
  BY TypesInGroups DEF Shape
<1>2. \A doc : Sound(doc, made) => Sound(doc, made')
  BY SoundGrows
<1>3. \A c \in Clerks : mem'[c] = IF c = p THEN d ELSE mem[c]
  BY <1>1 DEF VaultTypes, Opens, Holds
<1>4. \A c \in Clerks : pc'[c] \in Holding => pc[c] \in Holding
  BY <1>1 DEF VaultTypes, Opens, Holding
<1>5. UNCHANGED <<vault, temp, backup, held>>
  BY DEF Opens, backupVars
<1> QED BY <1>2, <1>3, <1>4, <1>5 DEF DocsInv, Whole

\* A step that brings no document keeps what it leaves.
LEMMA DocsStay ==
  ASSUME DocsInv, UNCHANGED made,
         \/ vault' \in {vault, Missing}
         \/ Whole(vault') /\ Sound(vault'.doc, made),
         \/ temp' \in {temp, Missing, Torn}
         \/ Whole(temp') /\ Sound(temp'.doc, made),
         \A c \in Clerks : mem'[c] \in {mem[c], Empty},
         UNCHANGED backup \/ Sound(backup'.blob.doc, made),
         \A c \in Clerks : pc'[c] \in Holding =>
           \/ pc[c] \in Holding /\ held'[c] = held[c]
           \/ Sound(held'[c].blob.doc, made)
  PROVE  DocsInv'
<1>1. Sound(Empty, made)
  BY EmptyIsSound
<1> QED BY <1>1 DEF DocsInv, Whole

LEMMA CommandKeepsDocs ==
  ASSUME DocsInv, Shape, NEW p \in Clerks, Command(p), UNCHANGED backupVars
  PROVE  DocsInv'
<1>1. VaultTypes
  BY TypesInGroups DEF Shape
<1>2. Whole(vault) => vault.doc \in Documents /\ Sound(vault.doc, made)
  BY <1>1, WholeIsABlob DEF VaultTypes, DocsInv
<1>3. ASSUME NEW n \in Names, Add(p, n) PROVE DocsInv'
  <2>1. PICK e \in Entries \ made :
          Opens(p, Added(vault.doc, n, e), vault.key) /\ made' = made \cup {e}
    BY <1>3 DEF Add
  <2>2. Sound(Added(vault.doc, n, e), made')
    BY <1>2, <2>1, AddedIsSound DEF Opens
  <2> QED BY <2>1, <2>2, OpensKeepsDocs
<1>4. ASSUME NEW n \in Names, NEW m \in Names, Edit(p, n, m) PROVE DocsInv'
  <2>1. Sound(Renamed(vault.doc, n, m), made)
    BY <1>2, <1>4, RenamedIsSound DEF Edit
  <2> QED BY <1>4, <2>1, OpensKeepsDocs DEF Edit
<1>5. ASSUME NEW n \in Names, Delete(p, n) PROVE DocsInv'
  <2>1. Sound(Deleted(vault.doc, n), made)
    BY <1>2, <1>5, DeletedIsSound DEF Delete
  <2> QED BY <1>5, <2>1, OpensKeepsDocs DEF Delete
<1>6. ASSUME NEW n \in Names, Grant(p, n) PROVE DocsInv'
  <2>1. Sound(Granted(vault.doc, n), made)
    BY <1>2, <1>6, GrantedIsSound DEF Grant
  <2> QED BY <1>6, <2>1, OpensKeepsDocs DEF Grant
<1>7. ASSUME NEW n \in Names, Revoke(p, n) PROVE DocsInv'
  <2>1. Sound(Revoked(vault.doc, n), made) /\ Sound(Empty, made)
    BY <1>2, <1>7, RevokedIsSound, EmptyIsSound DEF Revoke
  <2>2. \A c \in Clerks : mem'[c] = mem[c] \/ Sound(mem'[c], made)
    BY <1>1, <1>7, <2>1 DEF VaultTypes, Revoke, Holds
  <2>3. \A c \in Clerks : pc'[c] \in Holding => pc[c] \in Holding
    BY <1>1, <1>7 DEF VaultTypes, Revoke, Goto, Holding
  <2>4. UNCHANGED <<vault, temp, made, backup, held>>
    BY <1>7 DEF Revoke, backupVars
  <2> QED BY <2>2, <2>3, <2>4 DEF DocsInv, Whole
<1>8. CASE RotateMaster(p)
  <2>1. PICK k \in Keys \ made : Opens(p, vault.doc, k) /\ made' = made \cup {k}
    BY <1>8 DEF RotateMaster
  <2>2. Sound(vault.doc, made')
    BY <1>2, <2>1, SoundGrows DEF Opens
  <2> QED BY <2>1, <2>2, OpensKeepsDocs
<1> QED BY <1>3, <1>4, <1>5, <1>6, <1>7, <1>8 DEF Command

LEMMA SaveKeepsDocs ==
  ASSUME DocsInv, Shape, NEW p \in Clerks, Save(p), UNCHANGED backupVars
  PROVE  DocsInv'
<1>1. VaultTypes /\ FilesInv
  BY TypesInGroups DEF Shape
<1>2. UNCHANGED <<made, backup, held>>
  BY DEF Save, BeginSave, FillTemp, FinishSave, backupVars
<1>3. \A c \in Clerks : pc'[c] \in Holding => pc[c] \in Holding
  BY <1>1 DEF VaultTypes, Save, BeginSave, FillTemp, FinishSave, Goto, Holding
<1>4. CASE BeginSave(p)
  <2>1. temp' = Torn /\ UNCHANGED <<vault, mem>>
    BY <1>4 DEF BeginSave
  <2> QED BY <1>2, <1>3, <2>1, DocsStay
<1>5. CASE FillTemp(p)
  <2>1. [key |-> key[p], doc |-> mem[p]] \in Blobs
    BY <1>1 DEF VaultTypes, Blobs
  <2>2. temp' = [key |-> key[p], doc |-> mem[p]] /\ UNCHANGED <<vault, mem>>
    BY <1>5 DEF FillTemp
  <2>3. Whole(temp') /\ temp'.doc = mem[p]
    BY <2>1, <2>2, FilesAssumption DEF Whole
  <2>4. Sound(temp'.doc, made)
    BY <2>3 DEF DocsInv
  <2> QED BY <1>2, <1>3, <2>2, <2>3, <2>4, DocsStay
<1>6. CASE FinishSave(p)
  <2>1. Whole(temp)
    BY <1>1, <1>6 DEF FilesInv, FinishSave
  <2>2. vault' = temp /\ temp' = Missing
    BY <1>6 DEF FinishSave
  <2>3. Whole(vault') /\ Sound(vault'.doc, made)
    BY <2>1, <2>2 DEF DocsInv, Whole
  <2>4. \A c \in Clerks : mem'[c] \in {mem[c], Empty}
    BY <1>1, <1>6 DEF VaultTypes, FinishSave, Holds
  <2> QED BY <1>2, <1>3, <2>2, <2>3, <2>4, DocsStay
<1> QED BY <1>4, <1>5, <1>6 DEF Save

\* Nor does dying, recording, serving, backing up or restoring: a document only
\* goes from the vault to an archive, or from one back.
LEMMA OthersKeepDocs ==
  ASSUME DocsInv, Shape, NEW p \in Clerks,
         Death(p) \/ Recording(p) \/ BackingUp(p) \/ Restoring(p)
  PROVE  DocsInv'
<1>1. VaultTypes /\ FilesInv /\ HeldInv
  BY TypesInGroups DEF Shape
<1>2. UNCHANGED <<temp, made>>
  BY DEF Death, Die, Recording, ReadTail, AppendRecord, BackingUp, Backup, CopyVault, Seal,
         Restoring, Restore, MoveVaultAside, MoveLogAside, PutVault, PutLog
<1>3. \A c \in Clerks : mem'[c] \in {mem[c], Empty}
  BY <1>1 DEF VaultTypes, Death, Die, Recording, ReadTail, AppendRecord, BackingUp, Backup,
              CopyVault, Seal, Restoring, Restore, MoveVaultAside, MoveLogAside, PutVault,
              PutLog, Forgets, Holds
<1>4. \A c \in Clerks : c # p => pc'[c] = pc[c] /\ held'[c] = held[c]
  BY <1>1 DEF VaultTypes, HeldInv, Death, Die, Recording, ReadTail, AppendRecord, BackingUp,
              Backup, CopyVault, Seal, Restoring, Restore, MoveVaultAside, MoveLogAside,
              PutVault, PutLog, Goto, backupVars
<1> DEFINE Fit == pc'[p] \in Holding => \/ pc[p] \in Holding /\ held'[p] = held[p]
                                        \/ Sound(held'[p].blob.doc, made)
<1>5. ASSUME \/ vault' \in {vault, Missing}
             \/ Whole(vault') /\ Sound(vault'.doc, made),
             UNCHANGED backup \/ Sound(backup'.blob.doc, made), Fit
      PROVE  DocsInv'
  <2>1. \A c \in Clerks : pc'[c] \in Holding =>
          \/ pc[c] \in Holding /\ held'[c] = held[c]
          \/ Sound(held'[c].blob.doc, made)
    BY <1>4, <1>5
  <2> QED BY <1>2, <1>3, <1>5, <2>1, DocsStay
<1>6. CASE Death(p) \/ Recording(p) \/ Backup(p)
  <2>1. UNCHANGED <<vault, backup>> /\ pc'[p] \notin Holding
    BY <1>1, <1>6 DEF VaultTypes, Death, Die, Recording, ReadTail, AppendRecord, Backup, Goto,
                      Holding, backupVars
  <2> QED BY <1>5, <2>1
<1>7. CASE CopyVault(p)
  <2>1. UNCHANGED <<vault, backup>>
    BY <1>7 DEF CopyVault
  <2>2. Fit
    <3>1. CASE Whole(vault)
      <4>1. held'[p] = [seal |-> key[p], blob |-> vault]
        BY <1>1, <1>7, <3>1 DEF HeldInv, CopyVault
      <4>2. held'[p].blob = vault
        BY <4>1
      <4> QED BY <3>1, <4>2 DEF DocsInv
    <3>2. CASE ~Whole(vault)
      BY <1>1, <1>7, <3>2 DEF VaultTypes, CopyVault, Goto, Holding
    <3> QED BY <3>1, <3>2
  <2> QED BY <1>5, <2>1, <2>2
<1>8. CASE Seal(p)
  <2>1. Sound(held[p].blob.doc, made)
    BY <1>8 DEF DocsInv, Seal, At, Holding
  <2>2. backup'.blob = held[p].blob
    BY <1>8 DEF Seal
  <2>3. UNCHANGED vault /\ pc'[p] \notin Holding
    BY <1>1, <1>8 DEF VaultTypes, Seal, Goto, Holding
  <2> QED BY <1>5, <2>1, <2>2, <2>3
<1>9. CASE Restore(p)
  <2>1. held'[p] = backup /\ Sound(backup.blob.doc, made)
    BY <1>1, <1>9 DEF HeldInv, DocsInv, Restore
  <2>2. UNCHANGED <<vault, backup>>
    BY <1>9 DEF Restore
  <2> QED BY <1>5, <2>1, <2>2
<1>10. CASE MoveVaultAside(p) \/ MoveLogAside(p)
  <2>1. vault' \in {vault, Missing} /\ UNCHANGED <<backup, held>> /\ pc[p] \in Holding
    BY <1>10 DEF MoveVaultAside, MoveLogAside, At, Holding, backupVars
  <2> QED BY <1>5, <2>1
<1>11. CASE PutVault(p)
  <2>1. pc[p] \in Holding /\ vault' = held[p].blob /\ UNCHANGED <<backup, held>>
    BY <1>11 DEF PutVault, At, Holding, backupVars
  <2>2. Whole(vault')
    BY <1>1, <2>1, FilesAssumption DEF HeldInv, Whole
  <2> QED BY <1>5, <2>1, <2>2 DEF DocsInv
<1>12. CASE PutLog(p)
  <2>1. UNCHANGED <<vault, backup>> /\ pc'[p] \notin Holding
    BY <1>1, <1>12 DEF VaultTypes, PutLog, Goto, Holding
  <2> QED BY <1>5, <2>1
<1> QED BY <1>6, <1>7, <1>8, <1>9, <1>10, <1>11, <1>12 DEF BackingUp, Restoring

LEMMA DocsHold ==
  Spec => []DocsInv
<1>1. Init => DocsInv
  <2> SUFFICES ASSUME Init PROVE DocsInv
    OBVIOUS
  <2>1. \A known : Sound(Empty, known)
    BY EmptyIsSound
  <2> QED BY <2>1 DEF Init, VaultInit, DocsInv, Whole, Holding
<1>2. Shape /\ DocsInv /\ [Next]_vars => DocsInv'
  <2> SUFFICES ASSUME Shape, DocsInv, [Next]_vars PROVE DocsInv'
    OBVIOUS
  <2>1. CASE UNCHANGED <<vaultVars, backupVars>>
    BY <2>1 DEF DocsInv, Whole, vaultVars, backupVars
  <2>2. ASSUME NEW p \in Clerks, VaultStep(p) PROVE DocsInv'
    BY <2>2, CommandKeepsDocs, SaveKeepsDocs DEF VaultStep
  <2>3. CASE StartGateway \/ \E t \in Threads : Serving(t)
    BY <2>1, <2>3 DEF StartGateway, Serving, ThreadReadTail, ThreadAppend
  <2> QED BY <2>1, <2>2, <2>3, OthersKeepDocs DEF Next, vars
<1> QED BY <1>1, <1>2, ShapeHolds, PTL DEF Spec

(* A grant given for an entry is, in the vault, its temporary file, the    *)
(* archive and every document about to be saved, a grant for the name that *)
(* entry bears there (Vault.edit takes the grants along).                  *)
THEOREM GrantsFollowTheEntryHolds == Spec => []GrantsFollowTheEntry
<1>1. DocsInv => GrantsFollowTheEntry
  BY DEF DocsInv, Sound, GrantsFollowTheEntry
<1> QED BY <1>1, DocsHold, PTL
-----------------------------------------------------------------------------
(* The audit log.                                                          *)

LEMMA LogsHoldRecords ==
  ASSUME NEW l \in Seq(Records)
  PROVE  \A i \in DOMAIN l : l[i].mac \in Nat /\ l[i].prev \in Nat
<1>1. \A i \in DOMAIN l : l[i] \in Records
  OBVIOUS
<1> QED BY <1>1 DEF Records

\* MACs made since put no log out of order.
LEMMA OrderedGrows ==
  ASSUME NEW l \in Seq(Records), NEW n \in Nat, NEW m \in Nat, n <= m, Ordered(l, n)
  PROVE  Ordered(l, m)
<1>1. \A i \in DOMAIN l : l[i].mac \in Nat
  BY LogsHoldRecords
<1> QED BY <1>1 DEF Ordered

\* One record more, by someone who read past what its process had written, or
\* who missed a restore.
LEMMA AppendedIsOrdered ==
  ASSUME NEW l \in Seq(Records), NEW n \in Nat, NEW r \in Records, Ordered(l, n),
         r.mac = n + 1, r.prev <= n,
         ~r.blind => \A i \in DOMAIN l : l[i].by = r.by => l[i].mac <= r.prev
  PROVE  Ordered(Append(l, r), n + 1)
<1> DEFINE c == Append(l, r)
<1>1. /\ DOMAIN c = 1 .. Len(l) + 1 /\ DOMAIN l = 1 .. Len(l) /\ Len(l) \in Nat
      /\ \A i \in 1 .. Len(l) : c[i] = l[i]
      /\ c[Len(l) + 1] = r
  OBVIOUS
<1>2. \A i \in DOMAIN l : l[i].mac \in Nat /\ l[i].prev \in Nat
  BY LogsHoldRecords
<1>3. r.mac \in Nat /\ r.prev \in Nat
  BY DEF Records
<1> SUFFICES Ordered(c, n + 1)
  OBVIOUS
<1> HIDE DEF c
<1>4. \A i \in DOMAIN c : c[i].prev < c[i].mac /\ c[i].mac <= n + 1
  BY <1>1, <1>2, <1>3 DEF Ordered
<1>5. \A i, j \in DOMAIN c : i < j =>
        /\ c[i].mac < c[j].mac
        /\ c[i].by = c[j].by /\ ~c[j].blind => c[i].mac <= c[j].prev
  <2> SUFFICES ASSUME NEW i \in DOMAIN c, NEW j \in DOMAIN c, i < j
               PROVE  /\ c[i].mac < c[j].mac
                      /\ c[i].by = c[j].by /\ ~c[j].blind => c[i].mac <= c[j].prev
    OBVIOUS
  <2>1. i \in DOMAIN l /\ c[i] = l[i]
    BY <1>1
  <2>2. CASE j \in DOMAIN l
    BY <1>1, <2>1, <2>2 DEF Ordered
  <2>3. CASE j \notin DOMAIN l
    <3>1. c[j] = r
      BY <1>1, <2>3
    <3>2. l[i].mac <= n
      BY <2>1 DEF Ordered
    <3> QED BY <1>2, <1>3, <2>1, <3>1, <3>2
  <2> QED BY <2>2, <2>3
<1> QED BY <1>4, <1>5 DEF Ordered

\* The tail of an ordered log is past all of it.
LEMMA TailIsLast ==
  ASSUME AuditTypes, Ordered(log, macs)
  PROVE  TailMac \in Nat /\ TailMac <= macs /\ \A i \in DOMAIN log : log[i].mac <= TailMac
<1>1. TailMac \in Nat /\ \A i \in DOMAIN log : log[i].mac \in Nat
  BY TailMacType, LogsHoldRecords DEF AuditTypes
<1>2. CASE log = <<>>
  BY <1>1, <1>2 DEF AuditTypes, TailMac
<1>3. CASE log # <<>>
  <2>1. Len(log) \in DOMAIN log /\ \A i \in DOMAIN log : i \in Nat /\ i <= Len(log)
    BY <1>3 DEF AuditTypes
  <2>2. TailMac = log[Len(log)].mac
    BY <1>3 DEF TailMac
  <2> QED BY <1>1, <2>1, <2>2 DEF AuditTypes, Ordered
<1> QED BY <1>2, <1>3

\* A step that appends nothing, reads no tail and replaces no log.
LEMMA ChainStays ==
  ASSUME ChainInv, UNCHANGED <<log, macs, tpc, backup>>,
         \A x \in Clerks \cup Threads :
           \/ prev'[x] = prev[x] /\ (x \in missed => x \in missed')
           \/ prev'[x] = 0 /\ x \in Clerks \ Threads /\ pc'[x] # "append",
         AuditTypes,
         \A c \in Clerks : pc'[c] = "append" => pc[c] = "append",
         \A c \in Clerks : pc'[c] \in Replacing => \/ pc[c] \in Replacing /\ held'[c] = held[c]
                                                   \/ Ordered(held'[c].log, macs)
  PROVE  ChainInv'
<1>1. LogsInv'
  BY DEF ChainInv, LogsInv
<1>2. \A x \in Clerks \cup Threads : prev'[x] <= macs'
  BY DEF ChainInv, ReadersInv, AuditTypes
<1>3. \A t \in Threads : tpc'[t] = "append" /\ t \notin missed' => Ahead(t, Gateway)'
  BY DEF ChainInv, ReadersInv, Ahead
<1>4. \A c \in Clerks : At(c, "append")' /\ c \notin missed' => Ahead(c, c)'
  BY DEF ChainInv, ReadersInv, Ahead, At
<1> QED BY <1>1, <1>2, <1>3, <1>4 DEF ChainInv, ReadersInv

\* Every log that is kept stays in order while others are written.
LEMMA KeptLogsStayOrdered ==
  ASSUME LogsInv, Shape, NEW m \in Nat, macs <= m
  PROVE  /\ backup # None => Ordered(backup.log, m)
         /\ \A c \in Clerks : pc[c] \in Replacing => Ordered(held[c].log, m)
<1>1. AuditTypes /\ ArchiveTypes /\ HeldInv
  BY TypesInGroups DEF Shape
<1> QED BY <1>1, OrderedGrows DEF LogsInv, AuditTypes, ArchiveTypes, HeldInv

\* Writing ends x's turn, and disturbs no reader of another process.
LEMMA WritesKeepsChain ==
  ASSUME ChainInv, Shape, NEW x \in Clerks \cup Threads, NEW by \in Clerks \cup {Gateway},
         NEW k \in Keys, Writes(x, by, k), x \notin missed => Ahead(x, by),
         UNCHANGED <<backup, held>>,
         \A c \in Clerks : pc'[c] \in Replacing => pc[c] \in Replacing,
         \A c \in Clerks : pc'[c] = "append" => pc[c] = "append" /\ c # by /\ c # x,
         \A t \in Threads : tpc'[t] = "append" => tpc[t] = "append" /\ Gateway # by /\ t # x
  PROVE  ChainInv'
<1>1. AuditTypes
  BY TypesInGroups DEF Shape
<1> DEFINE r == [prev |-> prev[x], mac |-> macs + 1, key |-> k, by |-> by,
                 blind |-> x \in missed]
<1>2. /\ r.mac = macs + 1 /\ r.prev = prev[x] /\ r.by = by /\ (r.blind <=> x \in missed)
      /\ log' = Append(log, r)
  BY DEF Writes
<1>3. r \in Records
  <2>1. prev[x] \in Nat /\ macs + 1 \in Nat
    BY <1>1 DEF AuditTypes
  <2>2. (x \in missed) \in BOOLEAN
    OBVIOUS
  <2> QED BY <2>1, <2>2 DEF Records
<1> HIDE DEF r
<1>4. Ordered(log', macs')
  <2>1. Ordered(Append(log, r), macs + 1)
    BY <1>1, <1>2, <1>3, AppendedIsOrdered DEF AuditTypes, ChainInv, LogsInv, ReadersInv, Ahead
  <2> QED BY <1>2, <2>1 DEF Writes
<1>5. LogsInv'
  <2>1. PICK m \in Nat : m = macs + 1 /\ macs <= m
    BY <1>1 DEF AuditTypes
  <2>2. macs' = m
    BY <2>1 DEF Writes
  <2> QED BY <1>4, <2>1, <2>2, KeptLogsStayOrdered DEF ChainInv, LogsInv
<1>6. \A y \in Clerks \cup Threads : prev'[y] = IF y = x THEN 0 ELSE prev[y]
  BY <1>1 DEF AuditTypes, Writes
<1>7. \A y \in Clerks \cup Threads : prev'[y] <= macs'
  BY <1>1, <1>6 DEF AuditTypes, ChainInv, ReadersInv, Writes
<1>8. ASSUME NEW y \in Clerks \cup Threads, NEW of, y # x, of # by, Ahead(y, of)
      PROVE  Ahead(y, of)'
  <2>1. /\ DOMAIN log' = 1 .. Len(log) + 1 /\ DOMAIN log = 1 .. Len(log) /\ Len(log) \in Nat
        /\ \A i \in 1 .. Len(log) : log'[i] = log[i]
        /\ log'[Len(log) + 1] = r
    BY <1>1, <1>2, <1>3 DEF AuditTypes
  <2> QED BY <1>2, <1>6, <1>8, <2>1 DEF Ahead
<1>9. \A y : y \notin missed' => y \notin missed \/ y = x
  BY DEF Writes
<1>10. \A t \in Threads : tpc'[t] = "append" /\ t \notin missed' => Ahead(t, Gateway)'
  BY <1>8, <1>9 DEF ChainInv, ReadersInv
<1>11. \A c \in Clerks : At(c, "append")' /\ c \notin missed' => Ahead(c, c)'
  BY <1>8, <1>9 DEF ChainInv, ReadersInv, At
<1> QED BY <1>5, <1>7, <1>10, <1>11 DEF ChainInv, ReadersInv

\* Reading the tail puts x past all there is.
LEMMA ReadsKeepsChain ==
  ASSUME ChainInv, Shape, NEW x \in Clerks \cup Threads, Reads(x),
         UNCHANGED <<log, macs, backup, held>>,
         \A c \in Clerks : pc'[c] \in Replacing => pc[c] \in Replacing,
         \A c \in Clerks : pc'[c] = "append" => pc[c] = "append" \/ c = x,
         \A t \in Threads : tpc'[t] = "append" => tpc[t] = "append" \/ t = x
  PROVE  ChainInv'
<1>1. AuditTypes
  BY TypesInGroups DEF Shape
<1>2. TailMac \in Nat /\ TailMac <= macs /\ \A i \in DOMAIN log : log[i].mac <= TailMac
  BY <1>1, TailIsLast DEF ChainInv, LogsInv
<1>3. PICK tail : tail = TailMac
  OBVIOUS
<1>4. \A y \in Clerks \cup Threads : prev'[y] = IF y = x THEN tail ELSE prev[y]
  BY <1>1, <1>3 DEF AuditTypes, Reads
<1>5. LogsInv'
  BY DEF ChainInv, LogsInv
<1>6. \A y \in Clerks \cup Threads : prev'[y] <= macs'
  BY <1>2, <1>3, <1>4 DEF ChainInv, ReadersInv
<1>7. \A of : Ahead(x, of)'
  BY <1>2, <1>3, <1>4 DEF Ahead
<1>8. ASSUME NEW y \in Clerks \cup Threads, NEW of, y # x, Ahead(y, of)
      PROVE  Ahead(y, of)'
  BY <1>4, <1>8 DEF Ahead
<1>9. \A y : y \notin missed' => y \notin missed \/ y = x
  BY DEF Reads
<1>10. \A t \in Threads : tpc'[t] = "append" /\ t \notin missed' => Ahead(t, Gateway)'
  BY <1>7, <1>8, <1>9 DEF ChainInv, ReadersInv
<1>11. \A c \in Clerks : At(c, "append")' /\ c \notin missed' => Ahead(c, c)'
  BY <1>7, <1>8, <1>9 DEF ChainInv, ReadersInv, At
<1> QED BY <1>5, <1>6, <1>10, <1>11 DEF ChainInv, ReadersInv

\* A log put in the place of the log is missed by all who had read that one.
LEMMA ReplacedKeepsChain ==
  ASSUME ChainInv, Shape, Ordered(log', macs), missed' = Reading,
         UNCHANGED <<macs, prev, backup, tpc>>,
         \A c \in Clerks : pc'[c] = "append" => pc[c] = "append",
         \A c \in Clerks : pc'[c] \in Replacing => pc[c] \in Replacing /\ held'[c] = held[c]
  PROVE  ChainInv'
<1>1. LogsInv'
  BY DEF ChainInv, LogsInv
<1>2. \A y \in Clerks \cup Threads : prev'[y] <= macs'
  BY DEF ChainInv, ReadersInv
<1>3. \A t \in Threads : tpc'[t] = "append" => t \in missed'
  BY DEF Reading
<1>4. \A c \in Clerks : pc'[c] = "append" => c \in missed'
  BY DEF Reading
<1> QED BY <1>1, <1>2, <1>3, <1>4 DEF ChainInv, ReadersInv, At

LEMMA VaultKeepsChain ==
  ASSUME ChainInv, Shape, NEW p \in Clerks, VaultStep(p)
  PROVE  ChainInv'
<1>1. VaultTypes /\ AuditTypes
  BY TypesInGroups DEF Shape
<1>2. PICK place \in Places \ ({"append"} \cup Replacing) : Goto(p, place)
  <2>1. CASE Command(p)
    <3>1. \E place \in {"save", "record"} : Goto(p, place)
      BY <2>1 DEF Command, Add, Edit, Delete, Grant, Revoke, RotateMaster, Opens, Goto
    <3> QED BY <3>1 DEF Places, Replacing
  <2>2. CASE Save(p)
    <3>1. \E place \in {"fill", "rename", "record"} : Goto(p, place)
      BY <2>2 DEF Save, BeginSave, FillTemp, FinishSave
    <3> QED BY <3>1 DEF Places, Replacing
  <2> QED BY <2>1, <2>2 DEF VaultStep
<1>3. \A c \in Clerks : pc'[c] \in {"append"} \cup Replacing => pc'[c] = pc[c]
  BY <1>1, <1>2 DEF VaultTypes, Goto
<1>4. UNCHANGED <<log, macs, prev, missed, tpc, backup, held>>
  BY DEF VaultStep, auditVars, gateVars, backupVars
<1> QED BY <1>1, <1>3, <1>4, ChainStays

LEMMA DeathKeepsChain ==
  ASSUME ChainInv, Shape, NEW p \in Clerks, Death(p)
  PROVE  ChainInv'
<1>1. VaultTypes /\ AuditTypes /\ HeldInv
  BY TypesInGroups DEF Shape
<1>2. /\ UNCHANGED <<log, macs, tpc, backup>> /\ pc'[p] = "idle" /\ prev'[p] = 0
      /\ missed' = missed \ {p}
  BY <1>1 DEF VaultTypes, AuditTypes, Death, Die, Goto, gateVars
<1>3. /\ \A x \in Clerks \cup Threads : x # p => prev'[x] = prev[x]
      /\ \A c \in Clerks : c # p => pc'[c] = pc[c] /\ held'[c] = held[c]
  BY <1>1 DEF VaultTypes, AuditTypes, HeldInv, Death, Die, Goto
<1>4. p \notin Threads
  BY ActorsAssumption
<1>5. \A c \in Clerks : pc'[c] \in {"append"} \cup Replacing => pc'[c] = pc[c] /\ held'[c] = held[c]
  BY <1>2, <1>3 DEF Replacing
<1> QED BY <1>1, <1>2, <1>3, <1>4, <1>5, ChainStays

LEMMA RecordingKeepsChain ==
  ASSUME ChainInv, Shape, NEW p \in Clerks, Recording(p)
  PROVE  ChainInv'
<1>1. VaultTypes
  BY TypesInGroups DEF Shape
<1>2. UNCHANGED <<tpc, backup, held>> /\ p \notin Threads /\ Gateway # p
  BY ActorsAssumption DEF Recording, ReadTail, AppendRecord, gateVars, backupVars
<1>3. CASE ReadTail(p)
  <2>1. \A c \in Clerks : pc'[c] = IF c = p THEN "append" ELSE pc[c]
    BY <1>1, <1>3 DEF VaultTypes, ReadTail, Goto
  <2>2. /\ \A c \in Clerks : pc'[c] \in Replacing => pc[c] \in Replacing
        /\ \A c \in Clerks : pc'[c] = "append" => pc[c] = "append" \/ c = p
    BY <2>1 DEF Replacing
  <2> QED BY <1>2, <1>3, <2>2, ReadsKeepsChain DEF ReadTail
<1>4. CASE AppendRecord(p)
  <2>1. \A c \in Clerks : pc'[c] = IF c = p THEN "idle" ELSE pc[c]
    BY <1>1, <1>4 DEF VaultTypes, AppendRecord, Goto
  <2>2. /\ \A c \in Clerks : pc'[c] \in Replacing => pc[c] \in Replacing
        /\ \A c \in Clerks : pc'[c] = "append" => pc[c] = "append" /\ c # p
    BY <2>1 DEF Replacing
  <2>3. p \notin missed => Ahead(p, p)
    BY <1>4 DEF ChainInv, ReadersInv, AppendRecord
  <2>4. key[p] \in Keys
    BY <1>1 DEF VaultTypes
  <2>5. Writes(p, p, key[p])
    BY <1>4 DEF AppendRecord
  <2>6. \A t \in Threads : tpc'[t] = "append" => tpc[t] = "append" /\ Gateway # p /\ t # p
    BY <1>2
  <2> QED BY <1>2, <2>2, <2>3, <2>4, <2>5, <2>6, WritesKeepsChain
<1> QED BY <1>3, <1>4 DEF Recording

LEMMA GatewayKeepsChain ==
  ASSUME ChainInv, Shape, Turns, StartGateway \/ \E t \in Threads : Serving(t)
  PROVE  ChainInv'
<1>1. AuditTypes /\ GateTypes
  BY TypesInGroups DEF Shape
<1>2. UNCHANGED <<pc, backup, held>>
  BY DEF StartGateway, Serving, ThreadReadTail, ThreadAppend, vaultVars, backupVars
<1>3. CASE StartGateway
  BY <1>1, <1>2, <1>3, ChainStays DEF StartGateway, auditVars
<1>4. ASSUME NEW t \in Threads, ThreadReadTail(t) PROVE ChainInv'
  <2>1. \A u \in Threads : tpc'[u] = "append" => tpc[u] = "append" \/ u = t
    BY <1>1, <1>4 DEF GateTypes, ThreadReadTail
  <2> QED BY <1>2, <1>4, <2>1, ReadsKeepsChain DEF ThreadReadTail
<1>5. ASSUME NEW t \in Threads, ThreadAppend(t) PROVE ChainInv'
  <2>1. t \notin missed => Ahead(t, Gateway)
    BY <1>5 DEF ChainInv, ReadersInv, ThreadAppend
  <2>2. \A u \in Threads : tpc'[u] # "append"
    BY <1>1, <1>5 DEF GateTypes, Turns, ThreadAppend
  <2>3. gkey \in Keys /\ Writes(t, Gateway, gkey)
    BY <1>1, <1>5 DEF GateTypes, Turns, ThreadAppend
  <2>4. \A c \in Clerks : c # Gateway /\ c # t
    BY ActorsAssumption
  <2> QED BY <1>2, <2>1, <2>2, <2>3, <2>4, WritesKeepsChain
<1> QED BY <1>3, <1>4, <1>5 DEF Serving

LEMMA BackingUpKeepsChain ==
  ASSUME ChainInv, Shape, NEW p \in Clerks, BackingUp(p)
  PROVE  ChainInv'
<1>1. VaultTypes /\ AuditTypes /\ HeldInv
  BY TypesInGroups DEF Shape
<1>2. /\ UNCHANGED <<log, macs, prev, missed, tpc>>
      /\ \A c \in Clerks : c # p => pc'[c] = pc[c] /\ held'[c] = held[c]
      /\ pc'[p] \in {"copy", "seal", "idle"}
  BY <1>1 DEF VaultTypes, HeldInv, BackingUp, Backup, CopyVault, Seal, Goto,
              auditVars, gateVars, backupVars
<1>3. \A c \in Clerks : pc'[c] \in {"append"} \cup Replacing => pc'[c] = pc[c] /\ held'[c] = held[c]
  BY <1>2 DEF Replacing
<1>4. CASE Backup(p) \/ CopyVault(p)
  <2>1. UNCHANGED backup
    BY <1>4 DEF Backup, CopyVault, backupVars
  <2> QED BY <1>1, <1>2, <1>3, <2>1, ChainStays
<1>5. CASE Seal(p)
  <2>1. backup'.log = log
    BY <1>5 DEF Seal
  <2>2. LogsInv'
    BY <1>2, <1>3, <2>1 DEF ChainInv, LogsInv
  <2>3. ReadersInv'
    BY <1>2, <1>3 DEF ChainInv, ReadersInv, Ahead, At
  <2> QED BY <2>2, <2>3 DEF ChainInv
<1> QED BY <1>4, <1>5 DEF BackingUp

LEMMA RestoringKeepsChain ==
  ASSUME ChainInv, Shape, NEW p \in Clerks, Restoring(p)
  PROVE  ChainInv'
<1>1. VaultTypes /\ AuditTypes /\ HeldInv
  BY TypesInGroups DEF Shape
<1>2. /\ UNCHANGED <<macs, prev, tpc, backup>>
      /\ \A c \in Clerks : c # p => pc'[c] = pc[c] /\ held'[c] = held[c]
  BY <1>1 DEF VaultTypes, HeldInv, Restoring, Restore, MoveVaultAside, MoveLogAside, PutVault,
              PutLog, Goto, auditVars, gateVars, backupVars
<1>3. CASE Restore(p)
  <2>1. UNCHANGED <<log, missed>> /\ pc'[p] = "aside" /\ held'[p] = backup
    BY <1>1, <1>3 DEF VaultTypes, HeldInv, Restore, Goto, auditVars
  <2>2. Ordered(held'[p].log, macs)
    BY <1>3, <2>1 DEF ChainInv, LogsInv, Restore
  <2>3. \A c \in Clerks : pc'[c] = "append" => pc[c] = "append"
    BY <1>2, <2>1
  <2> QED BY <1>1, <1>2, <2>1, <2>2, <2>3, ChainStays
<1>4. CASE MoveVaultAside(p) \/ PutVault(p)
  <2>1. /\ UNCHANGED <<log, missed, held>> /\ pc[p] \in Replacing
        /\ pc'[p] \in {"aside_log", "put_log"}
    BY <1>1, <1>4 DEF VaultTypes, MoveVaultAside, PutVault, At, Goto, Replacing, auditVars, backupVars
  <2>2. \A c \in Clerks : pc'[c] = "append" => pc[c] = "append"
    BY <1>2, <2>1
  <2>3. \A c \in Clerks : pc'[c] \in Replacing => pc[c] \in Replacing /\ held'[c] = held[c]
    BY <1>2, <2>1
  <2> QED BY <1>1, <1>2, <2>1, <2>2, <2>3, ChainStays
<1>5. CASE MoveLogAside(p)
  <2>1. /\ log' = <<>> /\ missed' = Reading /\ UNCHANGED held /\ pc[p] \in Replacing
        /\ pc'[p] = "put"
    BY <1>1, <1>5 DEF VaultTypes, MoveLogAside, At, Goto, Replacing, backupVars
  <2>2. Ordered(log', macs)
    BY <2>1 DEF Ordered
  <2>3. /\ \A c \in Clerks : pc'[c] = "append" => pc[c] = "append"
        /\ \A c \in Clerks : pc'[c] \in Replacing => pc[c] \in Replacing /\ held'[c] = held[c]
    BY <1>2, <2>1
  <2> QED BY <1>2, <2>1, <2>2, <2>3, ReplacedKeepsChain
<1>6. CASE PutLog(p)
  <2>1. pc[p] = "put_log" /\ pc'[p] = "idle"
    BY <1>1, <1>6 DEF VaultTypes, PutLog, At, Goto
  <2>2. /\ \A c \in Clerks : pc'[c] = "append" => pc[c] = "append"
        /\ \A c \in Clerks : pc'[c] \in Replacing => pc[c] \in Replacing /\ held'[c] = held[c]
    BY <1>2, <2>1 DEF Replacing
  <2>3. CASE held[p].log = <<>>
    BY <1>1, <1>2, <1>6, <2>2, <2>3, ChainStays DEF PutLog
  <2>4. CASE held[p].log # <<>>
    <3>1. Ordered(log', macs) /\ missed' = Reading
      BY <1>6, <2>1, <2>4 DEF ChainInv, LogsInv, PutLog, Replacing
    <3> QED BY <1>2, <2>2, <3>1, ReplacedKeepsChain
  <2> QED BY <2>3, <2>4
<1> QED BY <1>3, <1>4, <1>5, <1>6 DEF Restoring

LEMMA ChainHolds ==
  Spec => []ChainInv
<1>1. Init => ChainInv
  BY DEF Init, VaultInit, ChainInv, LogsInv, ReadersInv, Ordered, At, Replacing
<1>2. Shape /\ Turns /\ ChainInv /\ [Next]_vars => ChainInv'
  <2> SUFFICES ASSUME Shape, Turns, ChainInv, [Next]_vars PROVE ChainInv'
    OBVIOUS
  <2>1. CASE UNCHANGED vars
    <3>1. AuditTypes
      BY TypesInGroups DEF Shape
    <3>2. UNCHANGED <<log, macs, prev, missed, tpc, backup, held, pc>>
      BY <2>1 DEF vars, vaultVars, auditVars, gateVars, backupVars
    <3> QED BY <3>1, <3>2, ChainStays
  <2> QED BY <2>1, VaultKeepsChain, DeathKeepsChain, RecordingKeepsChain,
             BackingUpKeepsChain, RestoringKeepsChain, GatewayKeepsChain DEF Next
<1> QED BY <1>1, <1>2, ShapeHolds, PTL DEF Spec

(* No two records of one process follow the same record, however its       *)
(* threads, the commands and restores interleave, unless a restore replaced*)
(* the log between reading and writing (AuditLog.append's lock).           *)
THEOREM NoForkWithinHolds == Spec => []NoForkWithin
<1>1. Shape /\ ChainInv => NoForkWithin
  <2> SUFFICES ASSUME Shape, ChainInv PROVE NoForkWithin
    OBVIOUS
  <2>1. log \in Seq(Records) /\ Ordered(log, macs)
    BY TypesInGroups DEF Shape, AuditTypes, ChainInv, LogsInv
  <2>2. \A i \in DOMAIN log : i \in Nat /\ log[i].mac \in Nat /\ log[i].prev \in Nat
    BY <2>1, LogsHoldRecords
  <2>3. ASSUME NEW i \in DOMAIN log, NEW j \in DOMAIN log, i < j,
               log[i].by = log[j].by, log[i].prev = log[j].prev, ~log[j].blind
        PROVE  FALSE
    <3>1. log[i].mac <= log[j].prev /\ log[i].prev < log[i].mac
      BY <2>1, <2>3 DEF Ordered
    <3> QED BY <2>2, <2>3, <3>1
  <2>4. \A i, j \in DOMAIN log : i < j \/ j < i \/ i = j
    BY <2>2
  <2> QED BY <2>3, <2>4 DEF NoForkWithin
<1> QED BY <1>1, ShapeHolds, ChainHolds, PTL
============================================================================
