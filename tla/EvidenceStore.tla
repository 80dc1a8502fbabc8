--------------------------- MODULE EvidenceStore ---------------------------
(***************************************************************************)
(* The SQLite evidence store as a sequence of commands uses it: schema     *)
(* migration, the key verifier and the sealing of existing evidence,       *)
(* scans that write evidence, the encrypted backup and the destructive     *)
(* restore.  Each process runs one command on the shared database file and *)
(* may crash between two of its database transactions or file operations.  *)
(*                                                                         *)
(* A stored field is a pair of the key it is sealed under (NoKey for       *)
(* plaintext) and its value; evidence that itself starts with the prefix   *)
(* of a sealed field is not considered.                                    *)
(***************************************************************************)
EXTENDS Naturals, FiniteSets

CONSTANTS
  Proc,          \* processes that run a command on the database file
  Key, NoKey,    \* AES keys an operator may configure, and none
  Scan, Val,     \* scan identifiers and evidence values
  Table,         \* evidence tables of the model
  Latest,        \* number of schema migrations
  MaxRows,       \* bound: evidence rows of the database
  MaxSessions    \* bound: commands started

ASSUME EvidenceAssumption ==
  /\ NoKey \notin Key
  /\ Table \subseteq {"assets", "findings", "events", "checkpoints"}
  /\ Latest \in Nat \ {0}
  /\ {MaxRows, MaxSessions} \subseteq Nat

VARIABLES
  db,        \* contents of the live database file
  live,      \* the live file: whole, truncated by a restore, or half copied
  backup,    \* the encrypted backup file: the snapshot it holds, or none
  leftover,  \* a crash has left a temporary plaintext snapshot behind
  proc,      \* per process: its command, key, step and local values
  sessions   \* commands started so far

vars == <<db, live, backup, leftover, proc, sessions>>

AnyKey == Key \cup {NoKey}

Row == [tab: Table, scan: Scan, key: AnyKey, val: Val]

\* Tables with a uniqueness constraint over a sealed column.
Unique == {"assets", "checkpoints"}

(***************************************************************************)
(* unchecked is a history variable that becomes TRUE when a command writes *)
(* evidence although the verifier never vouched for its key: it did not    *)
(* migrate, or has no key and the database has a verifier.                 *)
(***************************************************************************)
EmptyDB ==
  [schema |-> 0, verifier |-> NoKey, rows |-> {}, unchecked |-> FALSE]

Database ==
  [schema: 0..Latest, verifier: AnyKey, rows: SUBSET Row, unchecked: BOOLEAN]

\* intact: the records of the file still authenticate.
NoBackup == [made |-> FALSE, intact |-> FALSE, of |-> EmptyDB]

Commands == {"init-db", "run", "git-secrets", "monitor", "import-report",
             "server", "backup-encrypted", "restore-encrypted"}

\* The commands of main that call Migrate first; the server calls it whenever a
\* scan is dispatched, the others never do.
Migrating == {"init-db", "run", "git-secrets"}

Steps == {"closed", "migrate", "apply", "verify", "insert", "seal", "ready",
          "writing", "encrypt", "decrypted", "truncated", "copied"}

\* copy is the temporary snapshot of a backup or restore.
Command(cmd, key, step) ==
  [cmd |-> cmd, key |-> key, step |-> step, cur |-> 0, migrated |-> FALSE, scans |-> {}, copy |-> EmptyDB]

NoCommand == Command("init-db", NoKey, "closed")

Closed(p) == [proc EXCEPT ![p] = NoCommand]

Goto(p, step) == [proc EXCEPT ![p].step = step]

At(p, step) == proc[p].step = step

Ready(p, cmds) == At(p, "ready") /\ proc[p].cmd \in cmds

\* The server keeps serving while a scan of its own writes.
Serving(p) == proc[p].cmd = "server" /\ proc[p].step \in {"ready", "writing"}

\* An error ends a command; the server answers it and stays.
Failed(p) == IF proc[p].cmd = "server" THEN Goto(p, "ready") ELSE Closed(p)

Restoring == {"decrypted", "truncated", "copied"}

----------------------------------------------------------------------------
(***************************************************************************)
(* Field encryption: SealString leaves an already sealed field alone,      *)
(* OpenString passes plaintext through.                                    *)
(***************************************************************************)

SealString(key, row) ==
  IF key = NoKey \/ row.key # NoKey THEN row ELSE [row EXCEPT !.key = key]

CanOpen(key, row) == row.key \in {NoKey, key}

----------------------------------------------------------------------------
(***************************************************************************)
(* Commands open the store; an empty file is a new database, a half copied *)
(* one is refused by Ping.  Nobody is assumed to open the file while it is *)
(* being restored.                                                         *)
(***************************************************************************)

OpenStore(p) ==
  /\ At(p, "closed") /\ sessions < MaxSessions /\ live # "partial"
  /\ \A q \in Proc : proc[q].step \notin Restoring
  /\ \E c \in Commands, k \in AnyKey :
       proc' = [proc EXCEPT ![p] = Command(c, k, IF c \in Migrating THEN "migrate" ELSE "ready")]
  /\ live' = "whole"
  /\ sessions' = sessions + 1
  /\ UNCHANGED <<db, backup, leftover>>

\* handleScanStart migrates before it starts the engine.
DispatchScan(p) ==
  /\ Ready(p, {"server"})
  /\ proc' = Goto(p, "migrate")
  /\ UNCHANGED <<db, live, backup, leftover, sessions>>

\* RunMigrations reads the version once and then applies what it found pending.
ReadVersion(p) ==
  /\ At(p, "migrate")
  /\ proc' = [Goto(p, "apply") EXCEPT ![p].cur = db.schema]
  /\ UNCHANGED <<db, live, backup, leftover, sessions>>

\* One migration, one transaction; a version that another process has recorded
\* meanwhile conflicts and the command ends.
RunMigration(p) ==
  /\ At(p, "apply") /\ proc[p].cur < Latest
  /\ IF db.schema > proc[p].cur
     THEN proc' = Failed(p) /\ UNCHANGED db
     ELSE /\ db' = [db EXCEPT !.schema = proc[p].cur + 1]
          /\ proc' = [proc EXCEPT ![p].cur = @ + 1]
  /\ UNCHANGED <<live, backup, leftover, sessions>>

Migrated(p) ==
  /\ At(p, "apply") /\ proc[p].cur = Latest
  /\ proc' = [Goto(p, IF proc[p].key = NoKey THEN "ready" ELSE "verify")
              EXCEPT ![p].migrated = (proc[p].key = NoKey)]
  /\ UNCHANGED <<db, live, backup, leftover, sessions>>

\* Mutant: a verifier that is there ends the initialisation; only its inserter seals.
CheckVerifierOnce(p) ==
  /\ At(p, "verify")
  /\ proc' = CASE db.verifier = NoKey       -> Goto(p, "insert")
               [] db.verifier = proc[p].key -> [Goto(p, "ready") EXCEPT ![p].migrated = TRUE]
               [] OTHER                     -> Failed(p)
  /\ UNCHANGED <<db, live, backup, leftover, sessions>>

\* initializeEvidenceEncryption: read the verifier, insert it if there is none.
CheckVerifier(p) ==
  /\ At(p, "verify")
  /\ proc' = CASE db.verifier = NoKey       -> Goto(p, "insert")
               [] db.verifier = proc[p].key -> Goto(p, "seal")
               [] OTHER                     -> Failed(p)
  /\ UNCHANGED <<db, live, backup, leftover, sessions>>

InsertVerifier(p) ==
  /\ At(p, "insert")
  /\ IF db.verifier # NoKey
     THEN proc' = Failed(p) /\ UNCHANGED db
     ELSE db' = [db EXCEPT !.verifier = proc[p].key] /\ proc' = Goto(p, "seal")
  /\ UNCHANGED <<live, backup, leftover, sessions>>

\* Sealing two rows of a unique table onto one stored value breaks the constraint.
SealConflict(key) ==
  \E r, q \in db.rows : r # q /\ r.tab \in Unique /\ SealString(key, r) = SealString(key, q)

EncryptExistingEvidence(p) ==
  /\ At(p, "seal")
  /\ IF SealConflict(proc[p].key)
     THEN proc' = Failed(p) /\ UNCHANGED db
     ELSE /\ db' = [db EXCEPT !.rows = {SealString(proc[p].key, r) : r \in db.rows}]
          /\ proc' = [Goto(p, "ready") EXCEPT ![p].migrated = TRUE]
  /\ UNCHANGED <<live, backup, leftover, sessions>>

----------------------------------------------------------------------------
(***************************************************************************)
(* Scans.  Engine.Run lists the events of the scan before it writes any    *)
(* evidence, so it stops at events it cannot open.  The git-secrets        *)
(* command lists nothing, import-report adds findings without a scan, and  *)
(* a server stores what agents submit without having migrated.             *)
(***************************************************************************)

Readable(p, s) == \A r \in db.rows : r.tab = "events" /\ r.scan = s => CanOpen(proc[p].key, r)

StartScan(p, s) ==
  /\ Ready(p, {"run", "git-secrets", "monitor", "server"})
  /\ proc[p].cmd = "monitor" => \A r \in db.rows : r.scan # s
  /\ proc[p].cmd = "server" => proc[p].migrated
  /\ IF db.schema = 0 \/ (proc[p].cmd # "git-secrets" /\ ~Readable(p, s))
     THEN proc' = Failed(p)
     ELSE proc' = [Goto(p, "writing") EXCEPT ![p].scans = {s}]
  /\ UNCHANGED <<db, live, backup, leftover, sessions>>

\* protectAsset and its kind.
Protect(p, row) == SealString(proc[p].key, row)

\* INSERT OR IGNORE, an upsert or a plain insert of protected evidence.
Insert(p, row) ==
  [schema    |-> db.schema,
   verifier  |-> db.verifier,
   rows      |-> db.rows \cup {Protect(p, row)},
   unchecked |-> \/ db.unchecked
                 \/ proc[p].key # NoKey /\ ~proc[p].migrated
                 \/ proc[p].key = NoKey /\ db.verifier # NoKey]

WriteEvidence(p) ==
  /\ Cardinality(db.rows) < MaxRows /\ db.schema > 0
  /\ \E t \in Table, s \in Scan, v \in Val :
       /\ \/ At(p, "writing") /\ s \in proc[p].scans
             /\ (proc[p].cmd = "git-secrets" => t \in {"assets", "findings"})
          \/ Ready(p, {"import-report"}) /\ t = "findings"
          \/ Serving(p) /\ t # "checkpoints"
       /\ db' = Insert(p, [tab |-> t, scan |-> s, key |-> NoKey, val |-> v])
  /\ UNCHANGED <<live, backup, leftover, proc, sessions>>

FinishScan(p) ==
  /\ At(p, "writing")
  /\ proc' = IF proc[p].cmd \in {"server", "monitor"} THEN [Goto(p, "ready") EXCEPT ![p].scans = {}] ELSE Closed(p)
  /\ UNCHANGED <<db, live, backup, leftover, sessions>>

\* The command ends and closes its handle, or its process dies at any step.
CloseStore(p) ==
  /\ proc[p].step \in {"ready", "writing"}
  /\ proc' = Closed(p)
  /\ UNCHANGED <<db, live, backup, leftover, sessions>>

Crash(p) ==
  /\ proc[p].step \notin {"closed", "ready", "writing"}
  /\ proc' = Closed(p)
  /\ leftover' = (leftover \/ proc[p].step \in Restoring \cup {"encrypt"})
  /\ UNCHANGED <<db, live, backup, sessions>>

----------------------------------------------------------------------------
(***************************************************************************)
(* Backup and restore.  BackupEncrypted takes a plaintext snapshot, writes *)
(* the sealed stream to a temporary file and renames it over the target.   *)
(* RestoreEncrypted authenticates the whole stream into a temporary file   *)
(* before Restore truncates the live file and copies.                      *)
(***************************************************************************)

TakeSnapshot(p) ==
  /\ Ready(p, {"backup-encrypted"})
  /\ proc' = [Goto(p, "encrypt") EXCEPT ![p].copy = db]
  /\ UNCHANGED <<db, live, backup, leftover, sessions>>

\* The sealed records of a snapshot.
EncryptBackupFile(d) == [made |-> TRUE, intact |-> TRUE, of |-> d]

\* Mutant: the records are copied without authenticating each of them first.
DecryptBackupFileUnchecked(b) == b.made

\* Every record, and the last one's mark, must authenticate.
DecryptBackupFile(b) == b.intact

\* encryptBackupFile, the rename and the deferred removal of the snapshot; a
\* failure before the rename leaves the old backup.
EncryptBackup(p) ==
  /\ At(p, "encrypt")
  /\ \/ backup' = EncryptBackupFile(proc[p].copy)
     \/ UNCHANGED backup
  /\ proc' = Closed(p)
  /\ UNCHANGED <<db, live, leftover, sessions>>

\* The stored file is damaged, but not once a restore has begun.
DamageBackup ==
  /\ backup.intact /\ live = "whole" /\ \A p \in Proc : proc[p].step \notin Restoring
  /\ backup' = [backup EXCEPT !.intact = FALSE]
  /\ UNCHANGED <<db, live, leftover, proc, sessions>>

\* RestoreEncrypted: a damaged record, or a wrong backup key, ends the command here.
DecryptBackup(p) ==
  /\ Ready(p, {"restore-encrypted"})
  /\ \A q \in Proc \ {p} : At(q, "closed")
  /\ \/ DecryptBackupFile(backup) /\ proc' = [Goto(p, "decrypted") EXCEPT ![p].copy = backup.of]
     \/ proc' = Closed(p)
  /\ UNCHANGED <<db, live, backup, leftover, sessions>>

\* OpenFile with O_TRUNC: an empty file is an empty database.
TruncateLive(p) ==
  /\ At(p, "decrypted")
  /\ live' = "empty" /\ db' = EmptyDB
  /\ proc' = Goto(p, "truncated")
  /\ UNCHANGED <<backup, leftover, sessions>>

CopyLive(p) ==
  /\ At(p, "truncated")
  /\ \/ live' = "whole" /\ db' = proc[p].copy /\ proc' = Goto(p, "copied")
     \/ live' = "partial" /\ proc' = Closed(p) /\ UNCHANGED db
  /\ UNCHANGED <<backup, leftover, sessions>>

\* The reopened handle replaces the old one; the command ends without Migrate.
ReopenRestored(p) ==
  /\ At(p, "copied")
  /\ proc' = Closed(p)
  /\ UNCHANGED <<db, live, backup, leftover, sessions>>

----------------------------------------------------------------------------

Init ==
  /\ db = EmptyDB /\ live = "whole" /\ backup = NoBackup /\ leftover = FALSE
  /\ proc = [p \in Proc |-> NoCommand]
  /\ sessions = 0

Next ==
  \/ \E p \in Proc :
       \/ OpenStore(p) \/ DispatchScan(p) \/ ReadVersion(p) \/ RunMigration(p) \/ Migrated(p)
       \/ CheckVerifier(p) \/ InsertVerifier(p) \/ EncryptExistingEvidence(p)
       \/ \E s \in Scan : StartScan(p, s)
       \/ WriteEvidence(p) \/ FinishScan(p) \/ CloseStore(p) \/ Crash(p)
       \/ TakeSnapshot(p) \/ EncryptBackup(p)
       \/ DecryptBackup(p) \/ TruncateLive(p) \/ CopyLive(p) \/ ReopenRestored(p)
  \/ DamageBackup

Spec == Init /\ [][Next]_vars

----------------------------------------------------------------------------
(***************************************************************************)
(* Properties.                                                             *)
(***************************************************************************)

\* Every variable has its type.
TypeOK ==
  /\ db \in Database
  /\ live \in {"whole", "empty", "partial"}
  /\ backup \in [made: BOOLEAN, intact: BOOLEAN, of: Database]
  /\ leftover \in BOOLEAN
  /\ proc \in [Proc -> [cmd: Commands, key: AnyKey, step: Steps, cur: 0..Latest,
                         migrated: BOOLEAN, scans: SUBSET Scan, copy: Database]]
  /\ sessions \in 0..MaxSessions

\* While a command that migrated with a key works on the database, all evidence
\* in it is sealed under that key, whatever crashed between the insertion of the
\* verifier and the sealing of existing rows, whichever other command raced it
\* and whichever backup was restored before (initializeEvidenceEncryption),
\* unless evidence was written by a command the verifier never vouched for.
EncryptedAtRest ==
  ~db.unchecked =>
    \A p \in Proc : proc[p].migrated /\ proc[p].key # NoKey =>
      /\ db.verifier = proc[p].key
      /\ \A r \in db.rows : r.key = proc[p].key

\* A database never reaches a state in which every later start with its key
\* fails because sealing two rows of a unique table collides
\* (encryptExistingEvidence), unless unvouched evidence was written.
MigrateNeverStuck ==
  ~db.unchecked => \A k \in Key : ~SealConflict(k)

\* Whenever the live file is truncated or half copied, the encrypted backup it
\* was to be restored from still authenticates: a wrong key, a damaged backup or
\* a crash never destroys both (RestoreEncrypted decrypts before Restore).
RestoreKeepsSource ==
  live # "whole" => backup.intact

\* The sealed store: EncryptedAtRest and MigrateNeverStuck together, the second
\* because a database that no key can open again protects nothing.
StoreSealed == TypeOK /\ EncryptedAtRest /\ MigrateNeverStuck

============================================================================
