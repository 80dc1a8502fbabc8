--------------------------- MODULE EvidenceProofs ---------------------------
(***************************************************************************)
(* The evidence database, for every set of processes, keys, scans, values  *)
(* and reviewers, any number of schema migrations, rows and commands:      *)
(* encryption at rest, backup and restore, the review trail of findings    *)
(* and the lifecycle purge.                                                *)
(***************************************************************************)
EXTENDS EvidenceStore, EvidenceRetention, FiniteSetTheorems, SequenceTheorems, TLAPS

ProcRow == [cmd: Commands, key: AnyKey, step: Steps, cur: 0..Latest,
            migrated: BOOLEAN, scans: SUBSET Scan, copy: Database]

BackupRow == [made: BOOLEAN, intact: BOOLEAN, of: Database]

\* Evidence of a database is plaintext throughout or sealed throughout under the
\* key of its verifier, unless unvouched evidence was written to it.
Uniform(d) ==
  ~d.unchecked => \/ \A r \in d.rows : r.key = NoKey
                  \/ d.verifier # NoKey /\ \A r \in d.rows : r.key = d.verifier

Migration == {"migrate", "apply", "verify", "insert", "seal"}

\* What a process's own record says: only a command that migrates is in a
\* migration or has migrated, and only with a key does it come to the verifier.
RowOK(r) ==
  /\ r.step \in Migration => r.cmd \in Migrating \cup {"server"}
  /\ r.migrated => r.cmd \in Migrating \cup {"server"}
  /\ r.step \in {"verify", "insert", "seal"} => r.key # NoKey
  /\ r.step \in Restoring => r.cmd = "restore-encrypted"
  /\ r.step = "closed" => ~r.migrated
  /\ Uniform(r.copy)

\* The verifier stands behind a key that seals and behind one that has migrated.
Claims(r) == r.step = "seal" \/ (r.migrated /\ r.key # NoKey)

KeyVouched == \A p \in Proc : Claims(proc[p]) => db.verifier = proc[p].key

\* Who restores is alone on the database file.
RestoresAlone ==
  \A p \in Proc : proc[p].step \in Restoring => \A q \in Proc \ {p} : proc[q].step = "closed"

\* A restore under way has authenticated the backup it reads.
SourceIntact == \A p \in Proc : proc[p].step \in {"decrypted", "truncated"} => backup.intact

Sealed ==
  ~db.unchecked =>
    \A p \in Proc : proc[p].migrated /\ proc[p].key # NoKey => \A r \in db.rows : r.key = proc[p].key

\* The inductive invariant of the database file and the commands on it.
StoreInv ==
  /\ TypeOK
  /\ \A p \in Proc : RowOK(proc[p])
  /\ KeyVouched /\ RestoresAlone /\ SourceIntact /\ RestoreKeepsSource
  /\ Uniform(db) /\ Uniform(backup.of) /\ Sealed

-----------------------------------------------------------------------------
\* Rows that agree on their key collide under no sealing.
LEMMA UniformNoConflict ==
  ASSUME TypeOK, Uniform(db), ~db.unchecked, NEW k \in Key
  PROVE  ~SealConflict(k)
<1> SUFFICES ASSUME NEW r \in db.rows, NEW q \in db.rows, r # q, SealString(k, r) = SealString(k, q)
             PROVE  FALSE
  BY DEF SealConflict
<1>1. r \in Row /\ q \in Row /\ k # NoKey
  BY EvidenceAssumption DEF TypeOK, Database
<1>2. r.key = q.key
  BY DEF Uniform
<1>3. CASE r.key # NoKey
  BY <1>2, <1>3 DEF SealString
<1>4. CASE r.key = NoKey
  <2>1. [r EXCEPT !.key = k] = [q EXCEPT !.key = k]
    BY <1>1, <1>2, <1>4 DEF SealString
  <2>2. \A x \in Row : /\ [x EXCEPT !.key = k].tab = x.tab /\ [x EXCEPT !.key = k].scan = x.scan
                       /\ [x EXCEPT !.key = k].val = x.val
    BY DEF Row
  <2>3. r.tab = q.tab /\ r.scan = q.scan /\ r.val = q.val
    BY <1>1, <2>1, <2>2
  <2> QED BY <1>1, <1>2, <2>3 DEF Row
<1> QED BY <1>3, <1>4

\* The invariant says what the runs check.
LEMMA StoreInvImplies == StoreInv => StoreSealed /\ RestoreKeepsSource
<1> SUFFICES ASSUME StoreInv PROVE StoreSealed
  BY DEF StoreInv
<1>1. EncryptedAtRest
  BY DEF StoreInv, EncryptedAtRest, KeyVouched, Claims, Sealed
<1>2. MigrateNeverStuck
  BY UniformNoConflict DEF StoreInv, MigrateNeverStuck
<1> QED BY <1>1, <1>2 DEF StoreSealed, StoreInv

\* A new database and a new command.
LEMMA EmptyUniform == EmptyDB \in Database /\ Uniform(EmptyDB)
BY EvidenceAssumption DEF EmptyDB, Database, AnyKey, Uniform

LEMMA CommandRow ==
  ASSUME NEW c \in Commands, NEW k \in AnyKey, NEW st \in Steps
  PROVE  /\ Command(c, k, st) \in ProcRow
         /\ Command(c, k, st).cmd = c /\ Command(c, k, st).key = k /\ Command(c, k, st).step = st
         /\ ~Command(c, k, st).migrated /\ Uniform(Command(c, k, st).copy)
<1>1. 0 \in 0..Latest
  BY EvidenceAssumption
<1> QED BY <1>1, EmptyUniform DEF Command, ProcRow

LEMMA NoCommandRow ==
  /\ NoCommand \in ProcRow /\ NoCommand.step = "closed" /\ ~NoCommand.migrated /\ NoCommand.key = NoKey
  /\ RowOK(NoCommand) /\ ~Claims(NoCommand)
<1>1. "init-db" \in Commands /\ NoKey \in AnyKey /\ "closed" \in Steps
  BY DEF Commands, AnyKey, Steps
<1>2. /\ NoCommand \in ProcRow /\ NoCommand.step = "closed" /\ ~NoCommand.migrated
      /\ NoCommand.key = NoKey /\ Uniform(NoCommand.copy)
  BY <1>1, CommandRow DEF NoCommand
<1> QED BY <1>2 DEF RowOK, Claims, Migration, Restoring

LEMMA InitStoreInv == Init => StoreInv
<1> SUFFICES ASSUME Init PROVE StoreInv
  OBVIOUS
<1>1. \A p \in Proc : proc[p] = NoCommand
  BY DEF Init
<1>2. proc \in [Proc -> ProcRow]
  BY NoCommandRow DEF Init
<1>3. backup \in BackupRow /\ backup.of = EmptyDB
  BY EmptyUniform DEF Init, NoBackup, BackupRow
<1>4. sessions \in 0..MaxSessions
  BY EvidenceAssumption DEF Init
<1>5. TypeOK
  BY <1>2, <1>3, <1>4, EmptyUniform DEF Init, TypeOK, ProcRow, BackupRow
<1>6. KeyVouched /\ RestoresAlone /\ SourceIntact
  BY <1>1, NoCommandRow DEF KeyVouched, RestoresAlone, SourceIntact, Restoring
<1>7. RestoreKeepsSource
  BY DEF Init, RestoreKeepsSource
<1>8. Sealed
  BY <1>1, NoCommandRow DEF Sealed
<1>9. Uniform(db) /\ Uniform(backup.of)
  BY <1>3, EmptyUniform DEF Init
<1> QED BY <1>1, <1>5, <1>6, <1>7, <1>8, <1>9, NoCommandRow DEF StoreInv

(***************************************************************************)
(* A step that changes only one process's record keeps the invariant if    *)
(* the new record is sound, claims no key the verifier does not stand      *)
(* behind, claims to have migrated only if it had, and does not appear     *)
(* while another process restores.                                         *)
(***************************************************************************)
LEMMA LocalStep ==
  ASSUME StoreInv, NEW p \in Proc, NEW r \in ProcRow,
         proc' = [proc EXCEPT ![p] = r], RowOK(r),
         UNCHANGED <<db, backup>>, live' \in {live, "whole"}, leftover' \in BOOLEAN, sessions' \in 0..MaxSessions,
         Claims(r) => db.verifier = r.key,
         r.migrated /\ r.key # NoKey => proc[p].migrated /\ proc[p].key = r.key,
         r.step \in Restoring => \A q \in Proc \ {p} : proc[q].step = "closed",
         r.step \in {"decrypted", "truncated"} => backup.intact,
         \A q \in Proc \ {p} : proc[q].step \in Restoring => r.step = "closed"
  PROVE  StoreInv'
<1>1. /\ proc' \in [Proc -> ProcRow] /\ proc'[p] = r
      /\ \A q \in Proc \ {p} : proc'[q] = proc[q]
  BY DEF StoreInv, TypeOK, ProcRow
<1>2. TypeOK'
  BY <1>1 DEF StoreInv, TypeOK, ProcRow
<1>3. \A q \in Proc : RowOK(proc'[q])
  BY <1>1 DEF StoreInv
<1>4. (\A q \in Proc : RowOK(proc[q]))'
  BY <1>3
<1>5. KeyVouched'
  BY <1>1 DEF StoreInv, KeyVouched, Claims
<1>6. RestoresAlone'
  BY <1>1 DEF StoreInv, RestoresAlone
<1>7. SourceIntact' /\ RestoreKeepsSource'
  BY <1>1 DEF StoreInv, SourceIntact, RestoreKeepsSource
<1>8. Sealed'
  BY <1>1 DEF StoreInv, Sealed
<1>9. Uniform(db)' /\ Uniform(backup.of)'
  BY DEF StoreInv, Uniform
<1> QED BY <1>2, <1>4, <1>5, <1>6, <1>7, <1>8, <1>9 DEF StoreInv

(***************************************************************************)
(* What the updates of a process's record leave alone.                     *)
(***************************************************************************)

\* Going to a step.
LEMMA StepUpdate ==
  ASSUME NEW r \in ProcRow, NEW v \in Steps
  PROVE  /\ [r EXCEPT !.step = v] \in ProcRow /\ [r EXCEPT !.step = v].step = v
         /\ [r EXCEPT !.step = v].cmd = r.cmd /\ [r EXCEPT !.step = v].key = r.key
         /\ [r EXCEPT !.step = v].migrated = r.migrated /\ [r EXCEPT !.step = v].copy = r.copy
BY DEF ProcRow

\* Reading the schema version, or counting a migration.
LEMMA CurUpdate ==
  ASSUME NEW r \in ProcRow, NEW v \in 0..Latest
  PROVE  /\ [r EXCEPT !.cur = v] \in ProcRow
         /\ [r EXCEPT !.cur = v].cmd = r.cmd /\ [r EXCEPT !.cur = v].key = r.key
         /\ [r EXCEPT !.cur = v].step = r.step /\ [r EXCEPT !.cur = v].migrated = r.migrated
         /\ [r EXCEPT !.cur = v].copy = r.copy
BY DEF ProcRow

\* Ending a migration.
LEMMA MigratedUpdate ==
  ASSUME NEW r \in ProcRow, NEW v \in BOOLEAN
  PROVE  /\ [r EXCEPT !.migrated = v] \in ProcRow /\ [r EXCEPT !.migrated = v].migrated = v
         /\ [r EXCEPT !.migrated = v].cmd = r.cmd /\ [r EXCEPT !.migrated = v].key = r.key
         /\ [r EXCEPT !.migrated = v].step = r.step /\ [r EXCEPT !.migrated = v].copy = r.copy
BY DEF ProcRow

\* Taking up or dropping a scan.
LEMMA ScansUpdate ==
  ASSUME NEW r \in ProcRow, NEW v \in SUBSET Scan
  PROVE  /\ [r EXCEPT !.scans = v] \in ProcRow
         /\ [r EXCEPT !.scans = v].cmd = r.cmd /\ [r EXCEPT !.scans = v].key = r.key
         /\ [r EXCEPT !.scans = v].step = r.step /\ [r EXCEPT !.scans = v].migrated = r.migrated
         /\ [r EXCEPT !.scans = v].copy = r.copy
BY DEF ProcRow

\* Taking a temporary snapshot.
LEMMA CopyUpdate ==
  ASSUME NEW r \in ProcRow, NEW v \in Database
  PROVE  /\ [r EXCEPT !.copy = v] \in ProcRow /\ [r EXCEPT !.copy = v].copy = v
         /\ [r EXCEPT !.copy = v].cmd = r.cmd /\ [r EXCEPT !.copy = v].key = r.key
         /\ [r EXCEPT !.copy = v].step = r.step /\ [r EXCEPT !.copy = v].migrated = r.migrated
BY DEF ProcRow

\* The processes' records are a function: two updates of one record are one.
LEMMA TwoUpdates ==
  ASSUME TypeOK, NEW p \in Proc, NEW st
  PROVE  /\ Goto(p, st)[p] = [proc[p] EXCEPT !.step = st]
         /\ \A w : [Goto(p, st) EXCEPT ![p] = w] = [proc EXCEPT ![p] = w]
<1>1. proc \in [Proc -> ProcRow]
  BY DEF TypeOK, ProcRow
<1> DEFINE u == [proc[p] EXCEPT !.step = st]
<1>2. Goto(p, st) = [proc EXCEPT ![p] = u]
  BY DEF Goto
<1> HIDE DEF u
<1>3. \A w : [[proc EXCEPT ![p] = u] EXCEPT ![p] = w] = [proc EXCEPT ![p] = w]
  BY <1>1
<1> QED BY <1>1, <1>2, <1>3 DEF u

\* While a process is in a command, nobody else restores.
LEMMA NobodyElse ==
  ASSUME StoreInv, NEW p \in Proc, proc[p].step # "closed"
  PROVE  \A q \in Proc \ {p} : proc[q].step \notin Restoring
BY DEF StoreInv, RestoresAlone

\* What the invariant says of one process.
LEMMA RowFacts ==
  ASSUME StoreInv, NEW p \in Proc
  PROVE  /\ proc[p] \in ProcRow /\ RowOK(proc[p]) /\ (Claims(proc[p]) => db.verifier = proc[p].key)
         /\ live \in {"whole", "empty", "partial"} /\ leftover \in BOOLEAN /\ sessions \in 0..MaxSessions
BY DEF StoreInv, TypeOK, ProcRow, KeyVouched

\* A command ends, whatever its step.
LEMMA ClosedInv ==
  ASSUME StoreInv, NEW p \in Proc, proc' = Closed(p), UNCHANGED <<db, backup, live, sessions>>, leftover' \in BOOLEAN
  PROVE  StoreInv'
<1>1. proc' = [proc EXCEPT ![p] = NoCommand]
  BY DEF Closed
<1>2. NoCommand.step \notin Restoring /\ NoCommand.step \notin {"decrypted", "truncated"}
  BY NoCommandRow DEF Restoring
<1> QED BY <1>1, <1>2, NoCommandRow, RowFacts, LocalStep

\* A process goes on to another step and changes nothing else.
LEMMA GotoInv ==
  ASSUME StoreInv, NEW p \in Proc, NEW st \in Steps \ Restoring, proc' = Goto(p, st),
         UNCHANGED <<db, backup, live, leftover, sessions>>,
         proc[p].step # "closed", st # "closed",
         st \in Migration => proc[p].cmd \in Migrating \cup {"server"},
         st \in {"verify", "insert", "seal"} => proc[p].key # NoKey,
         st = "seal" => db.verifier = proc[p].key
  PROVE  StoreInv'
<1> DEFINE r == [proc[p] EXCEPT !.step = st]
<1>2. proc' = [proc EXCEPT ![p] = r]
  BY DEF Goto
<1>3. /\ r \in ProcRow /\ r.step = st /\ r.cmd = proc[p].cmd /\ r.key = proc[p].key
      /\ r.migrated = proc[p].migrated /\ r.copy = proc[p].copy
  BY RowFacts, StepUpdate
<1> HIDE DEF r
<1>4. RowOK(r)
  BY <1>3, RowFacts DEF RowOK
<1>5. Claims(r) => db.verifier = r.key
  BY <1>3, RowFacts DEF Claims
<1>6. st \notin {"decrypted", "truncated"}
  BY DEF Restoring
<1> QED BY <1>2, <1>3, <1>4, <1>5, <1>6, RowFacts, NobodyElse, LocalStep

\* An error ends a command or sends the server back to its requests.
LEMMA FailedInv ==
  ASSUME StoreInv, NEW p \in Proc, proc[p].step # "closed", proc' = Failed(p),
         UNCHANGED <<db, backup, live, leftover, sessions>>
  PROVE  StoreInv'
<1>1. CASE proc[p].cmd = "server"
  <2>1. proc' = Goto(p, "ready")
    BY <1>1 DEF Failed
  <2>2. "ready" \in Steps \ Restoring /\ "ready" \notin Migration
    BY DEF Steps, Restoring, Migration
  <2> QED BY <2>1, <2>2, GotoInv
<1>2. CASE proc[p].cmd # "server"
  <2>1. proc' = Closed(p)
    BY <1>2 DEF Failed
  <2> QED BY <2>1, RowFacts, ClosedInv
<1> QED BY <1>1, <1>2

-----------------------------------------------------------------------------
\* A command opens the database: it has migrated nothing yet.
LEMMA OpenStoreInv ==
  ASSUME StoreInv, NEW p \in Proc, OpenStore(p)
  PROVE  StoreInv'
<1>1. PICK c \in Commands, k \in AnyKey :
        proc' = [proc EXCEPT ![p] = Command(c, k, IF c \in Migrating THEN "migrate" ELSE "ready")]
  BY DEF OpenStore
<1> DEFINE st == IF c \in Migrating THEN "migrate" ELSE "ready"
           r == Command(c, k, st)
<1>2. st \in Steps /\ st \in {"migrate", "ready"} /\ (st = "migrate" => c \in Migrating)
  BY DEF Steps
<1> HIDE DEF st
<1>3. r \in ProcRow /\ r.cmd = c /\ r.key = k /\ r.step = st /\ ~r.migrated /\ Uniform(r.copy)
  BY <1>2, CommandRow
<1>4. proc' = [proc EXCEPT ![p] = r]
  BY <1>1 DEF st
<1> HIDE DEF r
<1>5. RowOK(r) /\ ~Claims(r) /\ r.step \notin Restoring /\ r.step \notin {"decrypted", "truncated"}
  BY <1>2, <1>3 DEF RowOK, Claims, Restoring, Migration
<1>6. sessions' \in 0..MaxSessions
  BY RowFacts, EvidenceAssumption DEF OpenStore
<1>7. /\ UNCHANGED <<db, backup, leftover>> /\ live' = "whole"
      /\ \A q \in Proc : proc[q].step \notin Restoring
  BY DEF OpenStore
<1> QED BY <1>3, <1>4, <1>5, <1>6, <1>7, RowFacts, LocalStep

LEMMA DispatchScanInv ==
  ASSUME StoreInv, NEW p \in Proc, DispatchScan(p)
  PROVE  StoreInv'
<1>1. /\ proc[p].cmd = "server" /\ proc[p].step = "ready" /\ proc' = Goto(p, "migrate")
      /\ UNCHANGED <<db, backup, live, leftover, sessions>>
  BY DEF DispatchScan, Ready, At
<1>2. "migrate" \in Steps \ Restoring
  BY DEF Steps, Restoring
<1> QED BY <1>1, <1>2, GotoInv

\* Two updates of one record in one step.
LEMMA ReadVersionInv ==
  ASSUME StoreInv, NEW p \in Proc, ReadVersion(p)
  PROVE  StoreInv'
<1> DEFINE u == [proc[p] EXCEPT !.step = "apply"]
           r == [u EXCEPT !.cur = db.schema]
<1>1. /\ proc[p].step = "migrate" /\ proc' = [Goto(p, "apply") EXCEPT ![p].cur = db.schema]
      /\ UNCHANGED <<db, backup, live, leftover, sessions>>
  BY DEF ReadVersion, At
<1>a. Goto(p, "apply")[p] = u /\ \A w : [Goto(p, "apply") EXCEPT ![p] = w] = [proc EXCEPT ![p] = w]
  BY TwoUpdates DEF StoreInv
<1>2. proc' = [proc EXCEPT ![p] = r]
  BY <1>1, <1>a
<1>3. "apply" \in Steps /\ db.schema \in 0..Latest
  BY DEF Steps, StoreInv, TypeOK, Database
<1>4. /\ u \in ProcRow /\ u.step = "apply" /\ u.cmd = proc[p].cmd /\ u.key = proc[p].key
      /\ u.migrated = proc[p].migrated /\ u.copy = proc[p].copy
  BY <1>3, RowFacts, StepUpdate
<1> HIDE DEF u
<1>5. /\ r \in ProcRow /\ r.step = "apply" /\ r.cmd = proc[p].cmd /\ r.key = proc[p].key
      /\ r.migrated = proc[p].migrated /\ r.copy = proc[p].copy
  BY <1>3, <1>4, CurUpdate
<1> HIDE DEF r
<1>6. RowOK(r) /\ r.step \notin Restoring /\ r.step \notin {"decrypted", "truncated"}
  BY <1>1, <1>5, RowFacts DEF RowOK, Migration, Restoring
<1>7. Claims(r) => db.verifier = r.key
  BY <1>5, RowFacts DEF Claims
<1> QED BY <1>1, <1>2, <1>5, <1>6, <1>7, RowFacts, NobodyElse, LocalStep

\* Without a key the migration is over; with one the verifier comes next.
LEMMA MigratedInv ==
  ASSUME StoreInv, NEW p \in Proc, Migrated(p)
  PROVE  StoreInv'
<1> DEFINE st == IF proc[p].key = NoKey THEN "ready" ELSE "verify"
           v == (proc[p].key = NoKey)
           u == [proc[p] EXCEPT !.step = st]
           r == [u EXCEPT !.migrated = v]
<1>1. /\ proc[p].step = "apply" /\ proc' = [Goto(p, st) EXCEPT ![p].migrated = v]
      /\ UNCHANGED <<db, backup, live, leftover, sessions>>
  BY DEF Migrated, At
<1>a. Goto(p, st)[p] = u /\ \A w : [Goto(p, st) EXCEPT ![p] = w] = [proc EXCEPT ![p] = w]
  BY TwoUpdates DEF StoreInv
<1>2. proc' = [proc EXCEPT ![p] = r]
  BY <1>1, <1>a
<1>3. st \in Steps /\ v \in BOOLEAN /\ st \in {"ready", "verify"} /\ (st = "verify" => proc[p].key # NoKey)
  BY DEF Steps
<1>v. v => proc[p].key = NoKey
  OBVIOUS
<1> HIDE DEF st, v
<1>4. u \in ProcRow /\ u.step = st /\ u.cmd = proc[p].cmd /\ u.key = proc[p].key /\ u.copy = proc[p].copy
  BY <1>3, RowFacts, StepUpdate
<1> HIDE DEF u
<1>5. /\ r \in ProcRow /\ r.step = st /\ r.cmd = proc[p].cmd /\ r.key = proc[p].key
      /\ r.migrated = v /\ r.copy = proc[p].copy
  BY <1>3, <1>4, MigratedUpdate
<1> HIDE DEF r
<1>6. RowOK(r) /\ r.step \notin Restoring /\ r.step \notin {"decrypted", "truncated"}
  BY <1>1, <1>3, <1>5, RowFacts DEF RowOK, Migration, Restoring
<1>7. ~Claims(r)
  BY <1>3, <1>v, <1>5 DEF Claims
<1>8. ~(r.migrated /\ r.key # NoKey)
  BY <1>v, <1>5
<1> QED BY <1>1, <1>2, <1>5, <1>6, <1>7, <1>8, RowFacts, NobodyElse, LocalStep

LEMMA CheckVerifierInv ==
  ASSUME StoreInv, NEW p \in Proc, CheckVerifier(p)
  PROVE  StoreInv'
<1>1. proc[p].step = "verify" /\ UNCHANGED <<db, backup, live, leftover, sessions>>
  BY DEF CheckVerifier, At
<1>2. proc[p].cmd \in Migrating \cup {"server"} /\ proc[p].key # NoKey
  BY <1>1, RowFacts DEF RowOK, Migration
<1>3. "insert" \in Steps \ Restoring /\ "seal" \in Steps \ Restoring
  BY DEF Steps, Restoring
<1>4. CASE db.verifier = NoKey
  <2>1. proc' = Goto(p, "insert")
    BY <1>2, <1>4 DEF CheckVerifier
  <2> QED BY <1>1, <1>2, <1>3, <2>1, GotoInv
<1>5. CASE db.verifier = proc[p].key
  <2>1. proc' = Goto(p, "seal")
    BY <1>2, <1>5 DEF CheckVerifier
  <2> QED BY <1>1, <1>2, <1>3, <1>5, <2>1, GotoInv
<1>6. CASE db.verifier # NoKey /\ db.verifier # proc[p].key
  <2>1. proc' = Failed(p)
    BY <1>6 DEF CheckVerifier
  <2> QED BY <1>1, <2>1, FailedInv
<1> QED BY <1>4, <1>5, <1>6

LEMMA StartScanInv ==
  ASSUME StoreInv, NEW p \in Proc, NEW s \in Scan, StartScan(p, s)
  PROVE  StoreInv'
<1> DEFINE u == [proc[p] EXCEPT !.step = "writing"]
           r == [u EXCEPT !.scans = {s}]
<1>1. /\ proc[p].step = "ready" /\ UNCHANGED <<db, backup, live, leftover, sessions>>
      /\ proc' = Failed(p) \/ proc' = [Goto(p, "writing") EXCEPT ![p].scans = {s}]
  BY DEF StartScan, Ready, At
<1>2. CASE proc' = Failed(p)
  BY <1>1, <1>2, FailedInv
<1>3. CASE proc' = [Goto(p, "writing") EXCEPT ![p].scans = {s}]
  <2>a. Goto(p, "writing")[p] = u /\ \A w : [Goto(p, "writing") EXCEPT ![p] = w] = [proc EXCEPT ![p] = w]
    BY TwoUpdates DEF StoreInv
  <2>2. proc' = [proc EXCEPT ![p] = r]
    BY <1>3, <2>a
  <2>3. "writing" \in Steps /\ {s} \in SUBSET Scan
    BY DEF Steps
  <2>4. /\ u \in ProcRow /\ u.step = "writing" /\ u.cmd = proc[p].cmd /\ u.key = proc[p].key
        /\ u.migrated = proc[p].migrated /\ u.copy = proc[p].copy
    BY <2>3, RowFacts, StepUpdate
  <2> HIDE DEF u
  <2>5. /\ r \in ProcRow /\ r.step = "writing" /\ r.cmd = proc[p].cmd /\ r.key = proc[p].key
        /\ r.migrated = proc[p].migrated /\ r.copy = proc[p].copy
    BY <2>3, <2>4, ScansUpdate
  <2> HIDE DEF r
  <2>6. RowOK(r) /\ r.step \notin Restoring /\ r.step \notin {"decrypted", "truncated"}
    BY <1>1, <2>5, RowFacts DEF RowOK, Migration, Restoring
  <2>7. Claims(r) => db.verifier = r.key
    BY <2>5, RowFacts DEF Claims
  <2> QED BY <1>1, <2>2, <2>5, <2>6, <2>7, RowFacts, NobodyElse, LocalStep
<1> QED BY <1>1, <1>2, <1>3

\* The scan's own write is over; the server and the monitor go on.
LEMMA FinishScanInv ==
  ASSUME StoreInv, NEW p \in Proc, FinishScan(p)
  PROVE  StoreInv'
<1>0. /\ proc[p].step = "writing" /\ UNCHANGED <<db, backup, live, leftover, sessions>>
  BY DEF FinishScan, At
<1>1. CASE proc[p].cmd \in {"server", "monitor"}
  <2> DEFINE u == [proc[p] EXCEPT !.step = "ready"]
             r == [u EXCEPT !.scans = {}]
  <2>1. proc' = [Goto(p, "ready") EXCEPT ![p].scans = {}]
    BY <1>1 DEF FinishScan
  <2>a. Goto(p, "ready")[p] = u /\ \A w : [Goto(p, "ready") EXCEPT ![p] = w] = [proc EXCEPT ![p] = w]
    BY TwoUpdates DEF StoreInv
  <2>2. proc' = [proc EXCEPT ![p] = r]
    BY <2>1, <2>a
  <2>3. "ready" \in Steps /\ {} \in SUBSET Scan
    BY DEF Steps
  <2>4. /\ u \in ProcRow /\ u.step = "ready" /\ u.cmd = proc[p].cmd /\ u.key = proc[p].key
        /\ u.migrated = proc[p].migrated /\ u.copy = proc[p].copy
    BY <2>3, RowFacts, StepUpdate
  <2> HIDE DEF u
  <2>5. /\ r \in ProcRow /\ r.step = "ready" /\ r.cmd = proc[p].cmd /\ r.key = proc[p].key
        /\ r.migrated = proc[p].migrated /\ r.copy = proc[p].copy
    BY <2>3, <2>4, ScansUpdate
  <2> HIDE DEF r
  <2>6. RowOK(r) /\ r.step \notin Restoring /\ r.step \notin {"decrypted", "truncated"}
    BY <1>0, <2>5, RowFacts DEF RowOK, Migration, Restoring
  <2>7. Claims(r) => db.verifier = r.key
    BY <2>5, RowFacts DEF Claims
  <2> QED BY <1>0, <2>2, <2>5, <2>6, <2>7, RowFacts, NobodyElse, LocalStep
<1>2. CASE proc[p].cmd \notin {"server", "monitor"}
  <2>4. proc' = Closed(p)
    BY <1>2 DEF FinishScan
  <2> QED BY <1>0, <2>4, RowFacts, ClosedInv
<1> QED BY <1>1, <1>2

LEMMA CloseInv ==
  ASSUME StoreInv, NEW p \in Proc, CloseStore(p) \/ Crash(p) \/ ReopenRestored(p)
  PROVE  StoreInv'
<1>1. proc' = Closed(p) /\ UNCHANGED <<db, backup, live, sessions>>
  BY DEF CloseStore, Crash, ReopenRestored
<1>2. leftover' \in BOOLEAN
  BY RowFacts DEF CloseStore, Crash, ReopenRestored
<1> QED BY <1>1, <1>2, ClosedInv

\* A snapshot of the database is as uniform as the database.
LEMMA TakeSnapshotInv ==
  ASSUME StoreInv, NEW p \in Proc, TakeSnapshot(p)
  PROVE  StoreInv'
<1> DEFINE u == [proc[p] EXCEPT !.step = "encrypt"]
           r == [u EXCEPT !.copy = db]
<1>1. /\ proc[p].step = "ready" /\ proc' = [Goto(p, "encrypt") EXCEPT ![p].copy = db]
      /\ UNCHANGED <<db, backup, live, leftover, sessions>>
  BY DEF TakeSnapshot, Ready, At
<1>a. Goto(p, "encrypt")[p] = u /\ \A w : [Goto(p, "encrypt") EXCEPT ![p] = w] = [proc EXCEPT ![p] = w]
  BY TwoUpdates DEF StoreInv
<1>2. proc' = [proc EXCEPT ![p] = r]
  BY <1>1, <1>a
<1>3. "encrypt" \in Steps /\ db \in Database /\ Uniform(db)
  BY DEF Steps, StoreInv, TypeOK
<1>4. /\ u \in ProcRow /\ u.step = "encrypt" /\ u.cmd = proc[p].cmd /\ u.key = proc[p].key
      /\ u.migrated = proc[p].migrated
  BY <1>3, RowFacts, StepUpdate
<1> HIDE DEF u
<1>5. /\ r \in ProcRow /\ r.step = "encrypt" /\ r.cmd = proc[p].cmd /\ r.key = proc[p].key
      /\ r.migrated = proc[p].migrated /\ r.copy = db
  BY <1>3, <1>4, CopyUpdate
<1> HIDE DEF r
<1>6. RowOK(r) /\ r.step \notin Restoring /\ r.step \notin {"decrypted", "truncated"}
  BY <1>1, <1>3, <1>5, RowFacts DEF RowOK, Migration, Restoring
<1>7. Claims(r) => db.verifier = r.key
  BY <1>5, RowFacts DEF Claims
<1> QED BY <1>1, <1>2, <1>5, <1>6, <1>7, RowFacts, NobodyElse, LocalStep

\* A restore begins alone, from a backup that authenticates.
LEMMA DecryptBackupInv ==
  ASSUME StoreInv, NEW p \in Proc, DecryptBackup(p)
  PROVE  StoreInv'
<1> DEFINE u == [proc[p] EXCEPT !.step = "decrypted"]
           r == [u EXCEPT !.copy = backup.of]
<1>1. /\ proc[p].step = "ready" /\ proc[p].cmd = "restore-encrypted"
      /\ UNCHANGED <<db, backup, live, leftover, sessions>>
      /\ \A q \in Proc \ {p} : proc[q].step = "closed"
      /\ \/ proc' = Closed(p)
         \/ backup.intact /\ proc' = [Goto(p, "decrypted") EXCEPT ![p].copy = backup.of]
  BY DEF DecryptBackup, Ready, At, DecryptBackupFile
<1>2. CASE proc' = Closed(p)
  BY <1>1, <1>2, RowFacts, ClosedInv
<1>3. CASE backup.intact /\ proc' = [Goto(p, "decrypted") EXCEPT ![p].copy = backup.of]
  <2>a. Goto(p, "decrypted")[p] = u /\ \A w : [Goto(p, "decrypted") EXCEPT ![p] = w] = [proc EXCEPT ![p] = w]
    BY TwoUpdates DEF StoreInv
  <2>2. proc' = [proc EXCEPT ![p] = r]
    BY <1>3, <2>a
  <2>3. "decrypted" \in Steps /\ backup.of \in Database /\ Uniform(backup.of)
    BY DEF Steps, StoreInv, TypeOK
  <2>4. /\ u \in ProcRow /\ u.step = "decrypted" /\ u.cmd = proc[p].cmd /\ u.key = proc[p].key
        /\ u.migrated = proc[p].migrated
    BY <2>3, RowFacts, StepUpdate
  <2> HIDE DEF u
  <2>5. /\ r \in ProcRow /\ r.step = "decrypted" /\ r.cmd = proc[p].cmd /\ r.key = proc[p].key
        /\ r.migrated = proc[p].migrated /\ r.copy = backup.of
    BY <2>3, <2>4, CopyUpdate
  <2> HIDE DEF r
  <2>6. RowOK(r)
    BY <1>1, <2>3, <2>5, RowFacts DEF RowOK, Migration, Restoring
  <2>7. Claims(r) => db.verifier = r.key
    BY <2>5, RowFacts DEF Claims
  <2> QED BY <1>1, <1>3, <2>2, <2>5, <2>6, <2>7, RowFacts, NobodyElse, LocalStep
<1> QED BY <1>1, <1>2, <1>3

-----------------------------------------------------------------------------
\* A step that changes the database and one process that does not restore.
LEMMA DatabaseStep ==
  ASSUME StoreInv, NEW p \in Proc, NEW r \in ProcRow,
         proc' = [proc EXCEPT ![p] = r], RowOK(r), proc[p].step # "closed", r.step \notin Restoring,
         db' \in Database, Uniform(db'), KeyVouched', Sealed',
         UNCHANGED <<live, backup, leftover, sessions>>
  PROVE  StoreInv'
<1>1. /\ proc' \in [Proc -> ProcRow] /\ proc'[p] = r
      /\ \A q \in Proc \ {p} : proc'[q] = proc[q]
  BY DEF StoreInv, TypeOK, ProcRow
<1>2. TypeOK'
  BY <1>1 DEF StoreInv, TypeOK, ProcRow
<1>3. \A q \in Proc : RowOK(proc'[q])
  BY <1>1 DEF StoreInv
<1>4. (\A q \in Proc : RowOK(proc[q]))'
  BY <1>3
<1>5. RestoresAlone'
  BY <1>1, NobodyElse DEF StoreInv, RestoresAlone
<1>6. SourceIntact'
  BY <1>1 DEF StoreInv, SourceIntact, Restoring
<1>7. RestoreKeepsSource'
  BY DEF StoreInv, RestoreKeepsSource
<1>8. Uniform(db)'
  BY DEF Uniform
<1>9. Uniform(backup.of)'
  BY DEF StoreInv, Uniform
<1> QED BY <1>2, <1>4, <1>5, <1>6, <1>7, <1>8, <1>9 DEF StoreInv

\* A recorded migration changes neither the evidence nor the verifier.
LEMMA RunMigrationInv ==
  ASSUME StoreInv, NEW p \in Proc, RunMigration(p)
  PROVE  StoreInv'
<1>1. proc[p].step = "apply" /\ proc[p].cur < Latest /\ UNCHANGED <<live, backup, leftover, sessions>>
  BY DEF RunMigration, At
<1>2. CASE db.schema > proc[p].cur
  <2>1. proc' = Failed(p) /\ UNCHANGED db
    BY <1>2 DEF RunMigration
  <2> QED BY <1>1, <2>1, FailedInv
<1>3. CASE ~(db.schema > proc[p].cur)
  <2> DEFINE r == [proc[p] EXCEPT !.cur = proc[p].cur + 1]
  <2>1. db' = [db EXCEPT !.schema = proc[p].cur + 1] /\ proc' = [proc EXCEPT ![p] = r]
    BY <1>3 DEF RunMigration
  <2>2. proc[p].cur + 1 \in 0..Latest
    BY <1>1, RowFacts, EvidenceAssumption DEF ProcRow
  <2>3. /\ r \in ProcRow /\ r.step = "apply" /\ r.cmd = proc[p].cmd /\ r.key = proc[p].key
        /\ r.migrated = proc[p].migrated /\ r.copy = proc[p].copy
    BY <1>1, <2>2, RowFacts, CurUpdate
  <2> HIDE DEF r
  <2>4. RowOK(r) /\ r.step \notin Restoring
    BY <1>1, <2>3, RowFacts DEF RowOK, Restoring
  <2>5. db \in Database
    BY DEF StoreInv, TypeOK
  <2>6. /\ db' \in Database /\ db'.verifier = db.verifier /\ db'.rows = db.rows /\ db'.unchecked = db.unchecked
    BY <2>1, <2>2, <2>5 DEF Database
  <2>7. Uniform(db')
    BY <2>6 DEF StoreInv, Uniform
  <2>8. /\ \A q \in Proc : /\ proc'[q].step = proc[q].step /\ proc'[q].key = proc[q].key
                           /\ proc'[q].migrated = proc[q].migrated
    BY <1>1, <2>1, <2>3 DEF StoreInv, TypeOK
  <2>9. KeyVouched' /\ Sealed'
    BY <2>6, <2>8 DEF StoreInv, KeyVouched, Claims, Sealed
  <2> QED BY <1>1, <2>1, <2>3, <2>4, <2>6, <2>7, <2>9, DatabaseStep
<1> QED BY <1>2, <1>3

\* The verifier is inserted into a database that has none: nobody claims a key.
LEMMA InsertVerifierInv ==
  ASSUME StoreInv, NEW p \in Proc, InsertVerifier(p)
  PROVE  StoreInv'
<1>1. proc[p].step = "insert" /\ UNCHANGED <<live, backup, leftover, sessions>>
  BY DEF InsertVerifier, At
<1>2. CASE db.verifier # NoKey
  <2>1. proc' = Failed(p) /\ UNCHANGED db
    BY <1>2 DEF InsertVerifier
  <2> QED BY <1>1, <2>1, FailedInv
<1>3. CASE db.verifier = NoKey
  <2> DEFINE r == [proc[p] EXCEPT !.step = "seal"]
  <2>1. db' = [db EXCEPT !.verifier = proc[p].key] /\ proc' = [proc EXCEPT ![p] = r]
    BY <1>3 DEF InsertVerifier, Goto
  <2>2. "seal" \in Steps
    BY DEF Steps
  <2>3. /\ r \in ProcRow /\ r.step = "seal" /\ r.cmd = proc[p].cmd /\ r.key = proc[p].key
        /\ r.migrated = proc[p].migrated /\ r.copy = proc[p].copy
    BY <2>2, RowFacts, StepUpdate
  <2> HIDE DEF r
  <2>4. RowOK(r) /\ r.step \notin Restoring
    BY <1>1, <2>3, RowFacts DEF RowOK, Migration, Restoring
  <2>5. db \in Database /\ proc[p].key \in AnyKey
    BY RowFacts DEF StoreInv, TypeOK, ProcRow
  <2>6. /\ db' \in Database /\ db'.verifier = proc[p].key /\ db'.rows = db.rows /\ db'.unchecked = db.unchecked
    BY <2>1, <2>5 DEF Database
  <2>7. \A q \in Proc : ~Claims(proc[q])
    BY <1>3, RowFacts DEF RowOK, Claims
  <2>8. Uniform(db')
    BY <1>3, <2>6 DEF StoreInv, Uniform
  <2>9. proc'[p] = r /\ \A q \in Proc \ {p} : proc'[q] = proc[q]
    BY <2>1 DEF StoreInv, TypeOK
  <2>10. KeyVouched'
    BY <2>3, <2>6, <2>7, <2>9 DEF KeyVouched, Claims
  <2>11. Sealed'
    BY <2>3, <2>7, <2>9 DEF Sealed, Claims
  <2> QED BY <1>1, <2>1, <2>3, <2>4, <2>6, <2>8, <2>10, <2>11, DatabaseStep
<1> QED BY <1>2, <1>3

\* Sealing under the verifier's key leaves no plaintext.
LEMMA EncryptExistingInv ==
  ASSUME StoreInv, NEW p \in Proc, EncryptExistingEvidence(p)
  PROVE  StoreInv'
<1>1. proc[p].step = "seal" /\ UNCHANGED <<live, backup, leftover, sessions>>
  BY DEF EncryptExistingEvidence, At
<1>2. CASE SealConflict(proc[p].key)
  <2>1. proc' = Failed(p) /\ UNCHANGED db
    BY <1>2 DEF EncryptExistingEvidence
  <2> QED BY <1>1, <2>1, FailedInv
<1>3. CASE ~SealConflict(proc[p].key)
  <2> DEFINE k == proc[p].key
             u == [proc[p] EXCEPT !.step = "ready"]
             r == [u EXCEPT !.migrated = TRUE]
             rows == {SealString(k, x) : x \in db.rows}
  <2>1. db' = [db EXCEPT !.rows = rows] /\ proc' = [Goto(p, "ready") EXCEPT ![p].migrated = TRUE]
    BY <1>3 DEF EncryptExistingEvidence
  <2>a. Goto(p, "ready")[p] = u /\ \A w : [Goto(p, "ready") EXCEPT ![p] = w] = [proc EXCEPT ![p] = w]
    BY TwoUpdates DEF StoreInv
  <2>2. proc' = [proc EXCEPT ![p] = r]
    BY <2>1, <2>a
  <2>3. "ready" \in Steps /\ TRUE \in BOOLEAN
    BY DEF Steps
  <2>4. /\ u \in ProcRow /\ u.step = "ready" /\ u.cmd = proc[p].cmd /\ u.key = k /\ u.copy = proc[p].copy
    BY <2>3, RowFacts, StepUpdate
  <2> HIDE DEF u
  <2>5. r \in ProcRow /\ r.step = "ready" /\ r.cmd = proc[p].cmd /\ r.key = k /\ r.migrated /\ r.copy = proc[p].copy
    BY <2>3, <2>4, MigratedUpdate
  <2> HIDE DEF r
  <2>6. RowOK(r) /\ r.step \notin Restoring
    BY <1>1, <2>5, RowFacts DEF RowOK, Migration, Restoring
  <2>7. db \in Database /\ k \in AnyKey /\ k # NoKey /\ db.verifier = k
    BY <1>1, RowFacts DEF StoreInv, TypeOK, ProcRow, RowOK, Claims
  <2> HIDE DEF k
  <2>8. \A x \in Row : SealString(k, x) \in Row /\ SealString(k, x).key = IF x.key = NoKey THEN k ELSE x.key
    BY <2>7 DEF SealString, Row
  <2>9. rows \subseteq Row /\ \A x \in rows : \E y \in db.rows : x.key = IF y.key = NoKey THEN k ELSE y.key
    BY <2>7, <2>8 DEF Database
  <2> HIDE DEF rows
  <2>10. db' \in Database /\ db'.verifier = k /\ db'.rows = rows /\ db'.unchecked = db.unchecked
    BY <2>1, <2>7, <2>9 DEF Database
  <2>11. ~db.unchecked => \A x \in rows : x.key = k
    BY <2>7, <2>9 DEF StoreInv, Uniform
  <2>12. Uniform(db')
    BY <2>7, <2>10, <2>11 DEF Uniform
  <2>13. proc'[p] = r /\ \A q \in Proc \ {p} : proc'[q] = proc[q]
    BY <2>2 DEF StoreInv, TypeOK
  <2>14. KeyVouched'
    BY <2>5, <2>7, <2>10, <2>13 DEF StoreInv, KeyVouched, Claims
  <2>15. Sealed'
    BY <2>10, <2>11, <2>14 DEF KeyVouched, Sealed, Claims
  <2> QED BY <1>1, <2>2, <2>5, <2>6, <2>10, <2>12, <2>14, <2>15, DatabaseStep
<1> QED BY <1>2, <1>3

\* Vouched evidence is written in the form the database has.
LEMMA WriteEvidenceInv ==
  ASSUME StoreInv, NEW p \in Proc, WriteEvidence(p)
  PROVE  StoreInv'
<1>1. UNCHANGED <<live, backup, leftover, proc, sessions>>
  BY DEF WriteEvidence
<1>2. PICK t \in Table, s \in Scan, v \in Val : db' = Insert(p, [tab |-> t, scan |-> s, key |-> NoKey, val |-> v])
  BY DEF WriteEvidence
<1> DEFINE row == [tab |-> t, scan |-> s, key |-> NoKey, val |-> v]
           x == SealString(proc[p].key, row)
<1>3. row \in Row /\ row.key = NoKey
  BY DEF Row, AnyKey
<1> HIDE DEF row
<1>4. db \in Database /\ proc[p].key \in AnyKey /\ proc[p].migrated \in BOOLEAN
  BY RowFacts DEF StoreInv, TypeOK, ProcRow
<1>5. x \in Row /\ x.key = proc[p].key
  BY <1>3, <1>4 DEF SealString, Row
<1> HIDE DEF x
<1> DEFINE bad == \/ db.unchecked
                  \/ proc[p].key # NoKey /\ ~proc[p].migrated
                  \/ proc[p].key = NoKey /\ db.verifier # NoKey
<1>6. db' = [schema |-> db.schema, verifier |-> db.verifier, rows |-> db.rows \cup {x}, unchecked |-> bad]
  BY <1>2 DEF Insert, Protect, row, x
<1>7. bad \in BOOLEAN
  OBVIOUS
<1>8. ~bad => /\ ~db.unchecked
              /\ proc[p].key # NoKey => proc[p].migrated
              /\ proc[p].key = NoKey => db.verifier = NoKey
  OBVIOUS
<1> HIDE DEF bad
<1>9. db' \in Database /\ db'.verifier = db.verifier /\ db'.rows = db.rows \cup {x} /\ db'.unchecked = bad
  BY <1>4, <1>5, <1>6, <1>7 DEF Database
<1>10. proc[p].key # NoKey /\ proc[p].migrated => db.verifier = proc[p].key
  BY RowFacts DEF Claims
<1>11. ~bad /\ proc[p].key # NoKey => \A y \in db.rows : y.key = proc[p].key
  BY <1>8 DEF StoreInv, Sealed
<1>12. ~bad /\ proc[p].key = NoKey => \A y \in db.rows : y.key = NoKey
  BY <1>8 DEF StoreInv, Uniform
<1>13. Uniform(db')
  BY <1>5, <1>8, <1>9, <1>10, <1>11, <1>12 DEF Uniform
<1>14. KeyVouched'
  BY <1>1, <1>9 DEF StoreInv, KeyVouched
<1>15. Sealed'
  <2> SUFFICES ASSUME ~bad, NEW q \in Proc, proc[q].migrated, proc[q].key # NoKey
               PROVE  \A y \in db.rows \cup {x} : y.key = proc[q].key
    BY <1>1, <1>9 DEF Sealed
  <2>1. db.verifier = proc[q].key
    BY RowFacts DEF Claims
  <2>2. proc[p].key = db.verifier
    BY <1>8, <1>10, <2>1
  <2> QED BY <1>5, <1>11, <2>1, <2>2
<1>16. TypeOK'
  BY <1>1, <1>9 DEF StoreInv, TypeOK
<1>17. RestoresAlone' /\ SourceIntact' /\ RestoreKeepsSource' /\ (\A q \in Proc : RowOK(proc[q]))' /\ Uniform(backup.of)'
  BY <1>1 DEF StoreInv, RestoresAlone, SourceIntact, RestoreKeepsSource, RowOK, Uniform
<1>18. Uniform(db)'
  BY <1>13 DEF Uniform
<1> QED BY <1>14, <1>15, <1>16, <1>17, <1>18 DEF StoreInv

-----------------------------------------------------------------------------
\* A process that restores claims no key, and neither does anybody else.
LEMMA RestorerClaimsNothing ==
  ASSUME StoreInv, NEW p \in Proc, proc[p].step \in Restoring
  PROVE  /\ \A q \in Proc \ {p} : proc[q].step = "closed" /\ ~proc[q].migrated
         /\ ~proc[p].migrated
<1>1. \A q \in Proc \ {p} : proc[q].step = "closed"
  BY DEF StoreInv, RestoresAlone
<1>2. \A q \in Proc \ {p} : ~proc[q].migrated
  BY <1>1, RowFacts DEF RowOK
<1>3. proc[p].cmd = "restore-encrypted"
  BY RowFacts DEF RowOK
<1>4. ~proc[p].migrated
  BY <1>3, RowFacts DEF RowOK, Migrating
<1> QED BY <1>1, <1>2, <1>4

\* A step of the restorer that replaces the database by a uniform one.
LEMMA RestoreStep ==
  ASSUME StoreInv, NEW p \in Proc, NEW st \in Restoring, proc[p].step \in Restoring,
         proc' = Goto(p, st), st = "truncated" => backup.intact, st # "decrypted",
         db' \in Database, Uniform(db'), live' \in {"whole", "empty"}, live' = "empty" => backup.intact,
         UNCHANGED <<backup, leftover, sessions>>
  PROVE  StoreInv'
<1> DEFINE r == [proc[p] EXCEPT !.step = st]
<1>1. proc' = [proc EXCEPT ![p] = r]
  BY DEF Goto
<1>2. st \in Steps
  BY DEF Restoring, Steps
<1>3. /\ r \in ProcRow /\ r.step = st /\ r.cmd = proc[p].cmd /\ r.key = proc[p].key
      /\ r.migrated = proc[p].migrated /\ r.copy = proc[p].copy
  BY <1>2, RowFacts, StepUpdate
<1> HIDE DEF r
<1>4. RowOK(r)
  BY <1>3, RowFacts DEF RowOK, Migration, Restoring
<1>5. /\ proc' \in [Proc -> ProcRow] /\ proc'[p] = r
      /\ \A q \in Proc \ {p} : proc'[q] = proc[q]
  BY <1>1, <1>3 DEF StoreInv, TypeOK, ProcRow
<1>6. TypeOK'
  BY <1>5 DEF StoreInv, TypeOK, ProcRow
<1>7. \A q \in Proc : ~proc'[q].migrated /\ proc'[q].step # "seal"
  BY <1>3, <1>5, RestorerClaimsNothing DEF Restoring
<1>8. KeyVouched' /\ Sealed'
  BY <1>7 DEF KeyVouched, Claims, Sealed
<1>9. RestoresAlone'
  BY <1>5, RestorerClaimsNothing DEF RestoresAlone, Restoring
<1>10. SourceIntact'
  BY <1>3, <1>5, RestorerClaimsNothing DEF SourceIntact
<1>11. RestoreKeepsSource'
  BY DEF RestoreKeepsSource
<1>12. \A q \in Proc : RowOK(proc'[q])
  BY <1>4, <1>5 DEF StoreInv
<1>13. (\A q \in Proc : RowOK(proc[q]))'
  BY <1>12
<1>14. Uniform(db)' /\ Uniform(backup.of)'
  BY DEF StoreInv, Uniform
<1> QED BY <1>6, <1>8, <1>9, <1>10, <1>11, <1>13, <1>14 DEF StoreInv

LEMMA TruncateLiveInv ==
  ASSUME StoreInv, NEW p \in Proc, TruncateLive(p)
  PROVE  StoreInv'
<1>1. /\ proc[p].step = "decrypted" /\ live' = "empty" /\ db' = EmptyDB /\ proc' = Goto(p, "truncated")
      /\ UNCHANGED <<backup, leftover, sessions>>
  BY DEF TruncateLive, At
<1>2. backup.intact
  BY <1>1 DEF StoreInv, SourceIntact
<1>3. "truncated" \in Restoring /\ proc[p].step \in Restoring
  BY <1>1 DEF Restoring
<1> QED BY <1>1, <1>2, <1>3, EmptyUniform, RestoreStep

\* The copy fails half way, with the source intact, or restores a snapshot.
LEMMA CopyLiveInv ==
  ASSUME StoreInv, NEW p \in Proc, CopyLive(p)
  PROVE  StoreInv'
<1>1. proc[p].step = "truncated" /\ UNCHANGED <<backup, leftover, sessions>>
  BY DEF CopyLive, At
<1>2. proc[p].step \in Restoring /\ "copied" \in Restoring
  BY <1>1 DEF Restoring
<1>3. CASE live' = "whole" /\ db' = proc[p].copy /\ proc' = Goto(p, "copied")
  <2>1. db' \in Database /\ Uniform(db')
    BY <1>3, RowFacts DEF ProcRow, RowOK
  <2> QED BY <1>1, <1>2, <1>3, <2>1, RestoreStep
<1>4. CASE live' = "partial" /\ proc' = Closed(p) /\ UNCHANGED db
  <2>1. backup.intact
    BY <1>1 DEF StoreInv, SourceIntact
  <2>2. proc' = [proc EXCEPT ![p] = NoCommand]
    BY <1>4 DEF Closed
  <2>3. /\ proc' \in [Proc -> ProcRow] /\ proc'[p] = NoCommand
        /\ \A q \in Proc \ {p} : proc'[q] = proc[q]
    BY <2>2, NoCommandRow DEF StoreInv, TypeOK, ProcRow
  <2>4. TypeOK'
    BY <1>1, <1>4, <2>3 DEF StoreInv, TypeOK, ProcRow
  <2>5. \A q \in Proc : proc'[q].step = "closed" /\ ~proc'[q].migrated
    BY <1>2, <2>3, NoCommandRow, RestorerClaimsNothing
  <2>6. KeyVouched' /\ Sealed' /\ RestoresAlone' /\ SourceIntact'
    BY <2>5 DEF KeyVouched, Claims, Sealed, RestoresAlone, SourceIntact, Restoring
  <2>7. RestoreKeepsSource'
    BY <1>1, <2>1 DEF RestoreKeepsSource
  <2>8. \A q \in Proc : RowOK(proc'[q])
    BY <2>3, NoCommandRow DEF StoreInv
  <2>9. (\A q \in Proc : RowOK(proc[q]))'
    BY <2>8
  <2>10. Uniform(db)' /\ Uniform(backup.of)'
    BY <1>1, <1>4 DEF StoreInv, Uniform
  <2> QED BY <2>4, <2>6, <2>7, <2>9, <2>10 DEF StoreInv
<1> QED BY <1>3, <1>4 DEF CopyLive

\* A step that changes the backup file only.
LEMMA BackupStep ==
  ASSUME StoreInv, backup' \in BackupRow, Uniform(backup'.of), UNCHANGED <<db, live, leftover, proc, sessions>>,
         \/ backup'.intact
         \/ live = "whole" /\ \A q \in Proc : proc[q].step \notin Restoring
  PROVE  StoreInv'
<1>1. TypeOK'
  BY DEF StoreInv, TypeOK, BackupRow
<1>2. KeyVouched' /\ Sealed' /\ RestoresAlone' /\ (\A q \in Proc : RowOK(proc[q]))' /\ Uniform(db)'
  BY DEF StoreInv, KeyVouched, Sealed, RestoresAlone, RowOK, Uniform, Claims
<1>3. SourceIntact' /\ RestoreKeepsSource'
  BY DEF StoreInv, SourceIntact, RestoreKeepsSource, Restoring
<1>4. Uniform(backup.of)'
  BY DEF Uniform
<1> QED BY <1>1, <1>2, <1>3, <1>4 DEF StoreInv

\* A renamed backup holds a snapshot and authenticates.
LEMMA EncryptBackupInv ==
  ASSUME StoreInv, NEW p \in Proc, EncryptBackup(p)
  PROVE  StoreInv'
<1>1. proc[p].step = "encrypt" /\ proc' = Closed(p) /\ UNCHANGED <<db, live, leftover, sessions>>
  BY DEF EncryptBackup, At
<1>2. CASE UNCHANGED backup
  BY <1>1, <1>2, RowFacts, ClosedInv
<1>3. CASE backup' = EncryptBackupFile(proc[p].copy)
  <2>1. proc[p].copy \in Database /\ Uniform(proc[p].copy)
    BY RowFacts DEF ProcRow, RowOK
  <2>2. backup' \in BackupRow /\ backup'.intact /\ backup'.of = proc[p].copy
    BY <1>3, <2>1 DEF EncryptBackupFile, BackupRow
  <2>3. proc' = [proc EXCEPT ![p] = NoCommand]
    BY <1>1 DEF Closed
  <2>4. /\ proc' \in [Proc -> ProcRow] /\ proc'[p] = NoCommand
        /\ \A q \in Proc \ {p} : proc'[q] = proc[q]
    BY <2>3, NoCommandRow DEF StoreInv, TypeOK, ProcRow
  <2>5. TypeOK'
    BY <1>1, <2>2, <2>4 DEF StoreInv, TypeOK, ProcRow, BackupRow
  <2>6. KeyVouched' /\ Sealed'
    BY <1>1, <2>4, NoCommandRow DEF StoreInv, KeyVouched, Claims, Sealed
  <2>7. RestoresAlone'
    BY <1>1, <2>4, NoCommandRow DEF StoreInv, RestoresAlone, Restoring
  <2>8. SourceIntact' /\ RestoreKeepsSource'
    BY <2>2 DEF SourceIntact, RestoreKeepsSource
  <2>9. \A q \in Proc : RowOK(proc'[q])
    BY <2>4, NoCommandRow DEF StoreInv
  <2>10. (\A q \in Proc : RowOK(proc[q]))'
    BY <2>9
  <2>11. Uniform(db)' /\ Uniform(backup.of)'
    BY <1>1, <2>1, <2>2 DEF StoreInv, Uniform
  <2> QED BY <2>5, <2>6, <2>7, <2>8, <2>10, <2>11 DEF StoreInv
<1> QED BY <1>2, <1>3 DEF EncryptBackup

LEMMA DamageBackupInv ==
  ASSUME StoreInv, DamageBackup
  PROVE  StoreInv'
<1>1. /\ live = "whole" /\ (\A q \in Proc : proc[q].step \notin Restoring)
      /\ backup' = [backup EXCEPT !.intact = FALSE] /\ UNCHANGED <<db, live, leftover, proc, sessions>>
  BY DEF DamageBackup
<1>2. backup \in BackupRow /\ Uniform(backup.of)
  BY DEF StoreInv, TypeOK, BackupRow
<1>3. backup' \in BackupRow /\ backup'.of = backup.of
  BY <1>1, <1>2 DEF BackupRow
<1>4. Uniform(backup'.of)
  BY <1>2, <1>3 DEF Uniform
<1> QED BY <1>1, <1>3, <1>4, BackupStep

\* Every step keeps the store's invariant.
LEMMA NextStoreInv == StoreInv /\ [Next]_vars => StoreInv'
<1> SUFFICES ASSUME StoreInv, [Next]_vars PROVE StoreInv'
  OBVIOUS
<1>1. ASSUME NEW p \in Proc, OpenStore(p) \/ DispatchScan(p) \/ ReadVersion(p) \/ RunMigration(p) \/ Migrated(p)
      PROVE  StoreInv'
  BY <1>1, OpenStoreInv, DispatchScanInv, ReadVersionInv, RunMigrationInv, MigratedInv
<1>2. ASSUME NEW p \in Proc, CheckVerifier(p) \/ InsertVerifier(p) \/ EncryptExistingEvidence(p)
      PROVE  StoreInv'
  BY <1>2, CheckVerifierInv, InsertVerifierInv, EncryptExistingInv
<1>3. ASSUME NEW p \in Proc, (\E s \in Scan : StartScan(p, s)) \/ WriteEvidence(p) \/ FinishScan(p)
      PROVE  StoreInv'
  BY <1>3, StartScanInv, WriteEvidenceInv, FinishScanInv
<1>4. ASSUME NEW p \in Proc, CloseStore(p) \/ Crash(p) \/ ReopenRestored(p)
      PROVE  StoreInv'
  BY <1>4, CloseInv
<1>5. ASSUME NEW p \in Proc, TakeSnapshot(p) \/ EncryptBackup(p) \/ DecryptBackup(p) \/ TruncateLive(p) \/ CopyLive(p)
      PROVE  StoreInv'
  BY <1>5, TakeSnapshotInv, EncryptBackupInv, DecryptBackupInv, TruncateLiveInv, CopyLiveInv
<1>6. CASE DamageBackup
  BY <1>6, DamageBackupInv
<1>7. CASE UNCHANGED vars
  BY <1>7 DEF vars, StoreInv, TypeOK, KeyVouched, Claims, Sealed, RestoresAlone, SourceIntact, RestoreKeepsSource,
              RowOK, Uniform
<1> QED BY <1>1, <1>2, <1>3, <1>4, <1>5, <1>6, <1>7 DEF Next

\* While a command that migrated with a key works on the database, all its evidence
\* is sealed under that key, and no database becomes one that sealing can no longer
\* finish, whatever crashed, raced or was restored, unless unvouched evidence was
\* written (initializeEvidenceEncryption, encryptExistingEvidence).
THEOREM StoreSealedTheorem == Spec => []StoreSealed
BY InitStoreInv, NextStoreInv, StoreInvImplies, PTL DEF Spec

\* A live file that a restore has truncated or half copied has a backup that still
\* authenticates (RestoreEncrypted).
THEOREM RestoreKeepsSourceTheorem == Spec => []RestoreKeepsSource
BY InitStoreInv, NextStoreInv, StoreInvImplies, PTL DEF Spec

-----------------------------------------------------------------------------
(***************************************************************************)
(* Review and retention.                                                   *)
(***************************************************************************)

Entry == [from: Spelling \cup {"assigned"}, to: Spelling \cup {"assigned"}, actor: Actor]

\* Indices of a trail's review transitions.
Links(t) == {i \in 1..Len(t) : t[i].to # "assigned"}

IsLast(t, i) == \A k \in Links(t) : k <= i

\* From i on the trail does not come back to open.
NotReopened(t, i) == \A k \in Links(t) : i <= k => t[k].to # "open"

\* What a trail says of the row whose history it is.
Chained(t, review) ==
  /\ Links(t) = {} => review = "open"
  /\ \A i \in Links(t) : IsLast(t, i) => review = t[i].to
  /\ \A i \in Links(t) :
       /\ ValidateFindingStateTransition(t[i].from, t[i].to)
       /\ (\A k \in Links(t) : i <= k) => t[i].from = "open"
       /\ \A k \in Links(t) : k < i /\ Links(t) \cap ((k + 1)..(i - 1)) = {} => t[i].from = t[k].to

\* A confirmed finding was confirmed since it was last open, a remediated or
\* verified one was confirmed and then remediated.
Reviewed(t, review) ==
  /\ review = "confirmed" => \E i \in Links(t) : t[i].to = "confirmed" /\ NotReopened(t, i)
  /\ ToLower(review) \in {"remediated", "verified"} =>
       \E i, j \in Links(t) : i < j /\ t[i].to = "confirmed" /\ t[j].to = "remediated" /\ NotReopened(t, i)

Acted(t, row) ==
  row.verifier # NoActor =>
    row.review = "verified" /\ \E i \in Links(t) : IsLast(t, i) /\ t[i].actor = row.verifier

TrailOK(t, row) == Chained(t, row.review) /\ Reviewed(t, row.review) /\ Acted(t, row)

\* The inductive invariant: identifiers are never used again, so the trail of a
\* finding that does not exist yet is empty.
RetentionInv ==
  /\ RetentionTypeOK /\ IsFiniteSet(Runs)
  /\ \A f \in DOMAIN findings : f < nextId /\ TrailOK(audit[f], findings[f])
  /\ \A f \in 1..MaxFinding : nextId <= f => audit[f] = <<>>

\* The links of a trail are the review entries the properties speak of.
LEMMA LinksAreReviews ==
  ASSUME RetentionTypeOK, NEW f \in 1..MaxFinding
  PROVE  Links(audit[f]) = Reviews(f)
BY DEF RetentionTypeOK, Links, Reviews

LEMMA RetentionInvImplies == RetentionInv => ReviewTrailSound
<1> SUFFICES ASSUME RetentionInv PROVE ReviewTrailSound
  OBVIOUS
<1>1. \A f \in DOMAIN findings : TrailOK(audit[f], findings[f]) /\ Links(audit[f]) = Reviews(f)
  BY LinksAreReviews DEF RetentionInv, RetentionTypeOK
<1>2. AuditChain
  BY <1>1 DEF AuditChain, LastReview, TrailOK, Chained, IsLast
<1>3. VerifiedWasRemediated
  BY <1>1 DEF VerifiedWasRemediated, TrailOK, Reviewed, NotReopened
<1>4. VerifierActed
  BY <1>1 DEF VerifierActed, LastReview, TrailOK, Acted, IsLast
<1> QED BY <1>2, <1>3, <1>4 DEF ReviewTrailSound, RetentionInv

\* What leads to remediation and to verification.
LEMMA LifecycleOrder ==
  ASSUME NEW from \in Spelling, NEW to \in Spelling, ValidateFindingStateTransition(from, to)
  PROVE  /\ to = "remediated" => from \in {"confirmed", "remediated"}
         /\ ToLower(to) = "verified" => ToLower(from) \in {"remediated", "verified"}
<1>1. ToLower(from) \in States /\ ToLower(to) \in States
  BY DEF Spelling, States, ToLower
<1>2. ToLower(from) \notin {"confirmed", "remediated"} => "remediated" \notin ValidTransitions[ToLower(from)]
  BY <1>1 DEF States, ValidTransitions
<1>3. ToLower(from) # "remediated" => "verified" \notin ValidTransitions[ToLower(from)]
  BY <1>1 DEF States, ValidTransitions
<1> QED BY <1>2, <1>3 DEF ValidateFindingStateTransition, ToLower, Spelling, States

\* An appended entry is the trail's last; the others stay where they are.
LEMMA AppendLinks ==
  ASSUME NEW t \in Seq(Entry), NEW e \in Entry
  PROVE  /\ Append(t, e) \in Seq(Entry) /\ Len(t) \in Nat
         /\ \A i \in Links(t) : i \in 1..Len(t) /\ Append(t, e)[i] = t[i]
         /\ Append(t, e)[Len(t) + 1] = e
         /\ e.to = "assigned" => Links(Append(t, e)) = Links(t)
         /\ e.to # "assigned" => Links(Append(t, e)) = Links(t) \cup {Len(t) + 1}
<1>1. /\ Append(t, e) \in Seq(Entry) /\ Len(Append(t, e)) = Len(t) + 1 /\ Len(t) \in Nat
      /\ \A i \in 1..Len(t) : Append(t, e)[i] = t[i]
      /\ Append(t, e)[Len(t) + 1] = e
  BY AppendProperties, LenProperties
<1>2. 1..(Len(t) + 1) = (1..Len(t)) \cup {Len(t) + 1}
  BY <1>1
<1>3. \A i \in Links(t) : i \in 1..Len(t)
  BY DEF Links
<1>4. Links(Append(t, e)) = {i \in (1..Len(t)) \cup {Len(t) + 1} : Append(t, e)[i].to # "assigned"}
  BY <1>1, <1>2 DEF Links
<1> HIDE DEF Links
<1>5. \A i \in 1..Len(t) : i \in Links(t) <=> t[i].to # "assigned"
  BY DEF Links
<1>6. \A i \in 1..Len(t) : i \in Links(Append(t, e)) <=> i \in Links(t)
  BY <1>1, <1>4, <1>5
<1>7. Len(t) + 1 \in Links(Append(t, e)) <=> e.to # "assigned"
  BY <1>1, <1>4
<1>8. \A i \in Links(Append(t, e)) : i \in 1..Len(t) \/ i = Len(t) + 1
  BY <1>4
<1> QED BY <1>1, <1>3, <1>6, <1>7, <1>8

\* A review transition extends the trail to the state the row gets.
LEMMA ReviewExtends ==
  ASSUME NEW t \in Seq(Entry), NEW row \in Finding, TrailOK(t, row), NEW to \in Spelling, NEW a \in Actor, NEW new,
         ValidateFindingStateTransition(row.review, to),
         new.review = to, new.verifier \in {NoActor, a}, new.verifier # NoActor => to = "verified"
  PROVE  TrailOK(Append(t, [from |-> row.review, to |-> to, actor |-> a]), new)
<1> DEFINE e == [from |-> row.review, to |-> to, actor |-> a]
           n == Len(t) + 1
           u == Append(t, e)
<1>1. row.review \in Spelling /\ "assigned" \notin Spelling
  BY DEF Finding, Spelling, States
<1>2. e \in Entry /\ e.from = row.review /\ e.to = to /\ e.actor = a /\ to # "assigned"
  BY <1>1 DEF Entry
<1> HIDE DEF e
<1>3. /\ Len(t) \in Nat /\ Links(u) = Links(t) \cup {n} /\ u[n] = e
      /\ \A i \in Links(t) : i \in 1..Len(t) /\ u[i] = t[i]
  BY <1>2, AppendLinks
<1> HIDE DEF u
<1>4. n \in Nat /\ \A i \in Links(t) : i \in Nat /\ i < n
  BY <1>3
<1> HIDE DEF n
<1>5. IsLast(u, n) /\ \A i \in Links(u) : IsLast(u, i) => i = n
  BY <1>3, <1>4 DEF IsLast
<1>6. Chained(u, to)
  <2>1. Links(u) # {}
    BY <1>3
  <2>2. \A i \in Links(u) : IsLast(u, i) => to = u[i].to
    BY <1>2, <1>3, <1>5
  <2>3. ASSUME NEW i \in Links(t)
        PROVE  /\ ValidateFindingStateTransition(u[i].from, u[i].to)
               /\ (\A k \in Links(u) : i <= k) => u[i].from = "open"
               /\ \A k \in Links(u) : k < i /\ Links(u) \cap ((k + 1)..(i - 1)) = {} => u[i].from = u[k].to
    <3>1. u[i] = t[i] /\ i < n /\ i \in Nat
      BY <1>3, <1>4
    <3>2. ValidateFindingStateTransition(u[i].from, u[i].to)
      BY <3>1 DEF TrailOK, Chained
    <3>3. (\A k \in Links(u) : i <= k) => u[i].from = "open"
      BY <1>3, <3>1 DEF TrailOK, Chained
    <3>4. ASSUME NEW k \in Links(u), k < i, Links(u) \cap ((k + 1)..(i - 1)) = {}
          PROVE  u[i].from = u[k].to
      <4>1. k \in Links(t) /\ u[k] = t[k]
        BY <1>3, <1>4, <3>1, <3>4
      <4>2. Links(t) \cap ((k + 1)..(i - 1)) = {}
        BY <1>3, <3>4
      <4> QED BY <3>1, <3>4, <4>1, <4>2 DEF TrailOK, Chained
    <3> QED BY <3>2, <3>3, <3>4
  <2>4. /\ ValidateFindingStateTransition(u[n].from, u[n].to)
        /\ (\A k \in Links(u) : n <= k) => u[n].from = "open"
        /\ \A k \in Links(u) : k < n /\ Links(u) \cap ((k + 1)..(n - 1)) = {} => u[n].from = u[k].to
    <3>1. ValidateFindingStateTransition(u[n].from, u[n].to)
      BY <1>2, <1>3
    <3>2. ASSUME \A k \in Links(u) : n <= k PROVE u[n].from = "open"
      <4>1. Links(t) = {}
        BY <1>3, <1>4, <3>2
      <4> QED BY <1>2, <1>3, <4>1 DEF TrailOK, Chained
    <3>3. ASSUME NEW k \in Links(u), k < n, Links(u) \cap ((k + 1)..(n - 1)) = {}
          PROVE  u[n].from = u[k].to
      <4>1. k \in Links(t) /\ u[k] = t[k] /\ k \in Nat
        BY <1>3, <1>4, <3>3
      <4>2. \A i \in Links(t) : i <= k
        BY <1>3, <1>4, <3>3, <4>1
      <4> QED BY <1>2, <1>3, <4>1, <4>2 DEF TrailOK, Chained, IsLast
    <3> QED BY <3>1, <3>2, <3>3
  <2> QED BY <1>3, <2>1, <2>2, <2>3, <2>4 DEF Chained
<1>7. to # "open" => \A i \in Links(t) : NotReopened(t, i) => NotReopened(u, i)
  BY <1>2, <1>3 DEF NotReopened
<1>8. Reviewed(u, to)
  <2>1. CASE to = "confirmed"
    <3>1. NotReopened(u, n) /\ u[n].to = "confirmed"
      BY <1>2, <1>3, <1>4, <2>1 DEF NotReopened
    <3>2. ToLower(to) \notin {"remediated", "verified"}
      BY <2>1 DEF ToLower
    <3> QED BY <1>3, <3>1, <3>2 DEF Reviewed
  <2>2. CASE to = "remediated"
    <3>1. row.review \in {"confirmed", "remediated"}
      BY <1>1, <2>2, LifecycleOrder
    <3>2. CASE row.review = "confirmed"
      <4>1. PICK i \in Links(t) : t[i].to = "confirmed" /\ NotReopened(t, i)
        BY <3>2 DEF TrailOK, Reviewed
      <4>2. i \in Links(u) /\ n \in Links(u) /\ i < n /\ u[i].to = "confirmed" /\ u[n].to = "remediated" /\ NotReopened(u, i)
        BY <1>2, <1>3, <1>4, <1>7, <2>2, <4>1
      <4> QED BY <2>2, <4>2 DEF Reviewed
    <3>3. CASE row.review = "remediated"
      <4>1. ToLower(row.review) = "remediated"
        BY <3>3 DEF ToLower
      <4>2. PICK i, j \in Links(t) : i < j /\ t[i].to = "confirmed" /\ t[j].to = "remediated" /\ NotReopened(t, i)
        BY <4>1 DEF TrailOK, Reviewed
      <4>3. /\ i \in Links(u) /\ j \in Links(u) /\ u[i].to = "confirmed" /\ u[j].to = "remediated" /\ NotReopened(u, i)
        BY <1>3, <1>7, <2>2, <4>2
      <4> QED BY <2>2, <4>2, <4>3 DEF Reviewed
    <3> QED BY <3>1, <3>2, <3>3
  <2>3. CASE ToLower(to) = "verified"
    <3>1. ToLower(row.review) \in {"remediated", "verified"}
      BY <1>1, <2>3, LifecycleOrder
    <3>2. PICK i, j \in Links(t) : i < j /\ t[i].to = "confirmed" /\ t[j].to = "remediated" /\ NotReopened(t, i)
      BY <3>1 DEF TrailOK, Reviewed
    <3>3. to # "open" /\ to # "confirmed"
      BY <2>3 DEF ToLower
    <3>4. /\ i \in Links(u) /\ j \in Links(u) /\ u[i].to = "confirmed" /\ u[j].to = "remediated" /\ NotReopened(u, i)
      BY <1>3, <1>7, <3>2, <3>3
    <3> QED BY <3>2, <3>3, <3>4 DEF Reviewed
  <2>4. CASE to # "confirmed" /\ to # "remediated" /\ ToLower(to) # "verified"
    BY <2>4 DEF Reviewed, ToLower
  <2> QED BY <2>1, <2>2, <2>3, <2>4
<1>9. Acted(u, new)
  BY <1>2, <1>3, <1>5 DEF Acted
<1> QED BY <1>6, <1>8, <1>9 DEF TrailOK, u, e

\* An assignment is an entry of the trail, and no link of it.
LEMMA AssignmentKeeps ==
  ASSUME NEW t \in Seq(Entry), NEW row, TrailOK(t, row), NEW a \in Actor
  PROVE  TrailOK(Append(t, [from |-> "assigned", to |-> "assigned", actor |-> a]), row)
<1> DEFINE e == [from |-> "assigned", to |-> "assigned", actor |-> a]
           u == Append(t, e)
<1>1. e \in Entry /\ e.to = "assigned"
  BY DEF Entry
<1> HIDE DEF e
<1>2. Links(u) = Links(t) /\ \A i \in Links(t) : u[i] = t[i]
  BY <1>1, AppendLinks
<1> HIDE DEF u
<1>3. Chained(u, row.review)
  BY <1>2 DEF TrailOK, Chained, IsLast
<1>4. Reviewed(u, row.review)
  BY <1>2 DEF TrailOK, Reviewed, NotReopened
<1>5. Acted(u, row)
  BY <1>2 DEF TrailOK, Acted, IsLast
<1> QED BY <1>3, <1>4, <1>5 DEF TrailOK, u, e

\* A finding without history is open.
LEMMA NewFinding ==
  ASSUME NEW s \in ScanRun
  PROVE  LET row == [scan |-> s, review |-> "open", verifier |-> NoActor] IN
         row \in Finding /\ TrailOK(<<>>, row)
<1> DEFINE row == [scan |-> s, review |-> "open", verifier |-> NoActor]
<1>1. row \in Finding /\ row.review = "open" /\ row.verifier = NoActor
  BY DEF Finding, Spelling, States
<1> HIDE DEF row
<1>2. Links(<<>>) = {}
  BY DEF Links
<1>3. ToLower("open") \notin {"remediated", "verified"}
  BY DEF ToLower
<1>4. TrailOK(<<>>, row)
  BY <1>1, <1>2, <1>3 DEF TrailOK, Chained, Reviewed, Acted
<1> QED BY <1>1, <1>4 DEF row

LEMMA InitRetentionInv == RetentionInit => RetentionInv
<1> SUFFICES ASSUME RetentionInit PROVE RetentionInv
  OBVIOUS
<1>1. DOMAIN started = {} /\ DOMAIN findings = {}
  BY DEF RetentionInit
<1>2. IsFiniteSet(Runs)
  BY <1>1, FS_EmptySet DEF Runs
<1>3. audit \in [1..MaxFinding -> Seq(Entry)]
  BY EmptySeq DEF RetentionInit
<1>4. nextId \in 1..(MaxFinding + 1) /\ now \in 0..MaxTime
  BY RetentionAssumption DEF RetentionInit
<1>5. RetentionTypeOK
  BY <1>1, <1>3, <1>4 DEF RetentionInit, RetentionTypeOK, Runs, Entry
<1> QED BY <1>1, <1>2, <1>5 DEF RetentionInit, RetentionInv

\* A step that touches neither findings nor trails.
LEMMA ScansStep ==
  ASSUME RetentionInv, UNCHANGED <<findings, nextId, audit>>,
         Runs' \subseteq ScanRun, \A s \in Runs' : started'[s] \in 0..MaxTime, IsFiniteSet(Runs'),
         holds' \subseteq ScanRun, child' \in [ChildTable -> SUBSET ScanRun], now' \in 0..MaxTime
  PROVE  RetentionInv'
<1>1. RetentionTypeOK'
  BY DEF RetentionInv, RetentionTypeOK
<1>2. (\A f \in DOMAIN findings : f < nextId /\ TrailOK(audit[f], findings[f]))'
  BY DEF RetentionInv, TrailOK, Chained, Reviewed, Acted, NotReopened, IsLast, Links
<1>3. (IsFiniteSet(Runs))'
  OBVIOUS
<1>4. (\A f \in 1..MaxFinding : nextId <= f => audit[f] = <<>>)'
  BY DEF RetentionInv
<1> QED BY <1>1, <1>2, <1>3, <1>4 DEF RetentionInv

\* What the type invariant says of the scans' side.
LEMMA ScanFacts ==
  ASSUME RetentionInv
  PROVE  /\ Runs \subseteq ScanRun /\ (\A s \in Runs : started[s] \in 0..MaxTime) /\ IsFiniteSet(Runs)
         /\ holds \subseteq ScanRun /\ child \in [ChildTable -> SUBSET ScanRun] /\ now \in 0..MaxTime
BY DEF RetentionInv, RetentionTypeOK

LEMMA RecordScanInv ==
  ASSUME RetentionInv, NEW s \in ScanRun, RecordScan(s)
  PROVE  RetentionInv'
<1>1. started' = Put(started, s, now) /\ UNCHANGED <<child, findings, nextId, holds, audit, now>>
  BY DEF RecordScan
<1>2. Runs' = Runs \cup {s} /\ started'[s] = now /\ \A x \in Runs : x # s => started'[x] = started[x]
  BY <1>1 DEF Put, Runs
<1>3. IsFiniteSet(Runs \cup {s})
  BY ScanFacts, FS_AddElement
<1> QED BY <1>1, <1>2, <1>3, ScanFacts, ScansStep

LEMMA AddEvidenceInv ==
  ASSUME RetentionInv, NEW s \in ScanRun, NEW t \in ChildTable, AddEvidence(s, t)
  PROVE  RetentionInv'
<1>1. child' = [child EXCEPT ![t] = child[t] \cup {s}] /\ UNCHANGED <<started, findings, nextId, holds, audit, now>>
  BY DEF AddEvidence
<1>2. child' \in [ChildTable -> SUBSET ScanRun]
  BY <1>1, ScanFacts
<1>3. Runs' = Runs
  BY <1>1 DEF Runs
<1> QED BY <1>1, <1>2, <1>3, ScanFacts, ScansStep

LEMMA HoldOrTickInv ==
  ASSUME RetentionInv, (\E s \in ScanRun, hold \in BOOLEAN : SetLegalHold(s, hold)) \/ Tick
  PROVE  RetentionInv'
<1>1. UNCHANGED <<started, child, findings, nextId, audit>>
  BY DEF SetLegalHold, Tick
<1>2. holds' \subseteq ScanRun /\ now' \in 0..MaxTime
  BY ScanFacts, RetentionAssumption DEF SetLegalHold, Tick
<1>3. Runs' = Runs
  BY <1>1 DEF Runs
<1> QED BY <1>1, <1>2, <1>3, ScanFacts, ScansStep

\* Findings disappear; those that stay keep their rows.
LEMMA FindingsStay ==
  ASSUME RetentionInv, UNCHANGED <<nextId, audit>>,
         DOMAIN findings' \subseteq DOMAIN findings, \A f \in DOMAIN findings' : findings'[f] = findings[f],
         Runs' \subseteq ScanRun, \A s \in Runs' : started'[s] \in 0..MaxTime, IsFiniteSet(Runs'),
         holds' \subseteq ScanRun, child' \in [ChildTable -> SUBSET ScanRun], now' \in 0..MaxTime
  PROVE  RetentionInv'
<1>1. RetentionTypeOK'
  BY DEF RetentionInv, RetentionTypeOK
<1>2. (\A f \in DOMAIN findings : f < nextId /\ TrailOK(audit[f], findings[f]))'
  BY DEF RetentionInv, TrailOK, Chained, Reviewed, Acted, NotReopened, IsLast, Links
<1>3. (IsFiniteSet(Runs))'
  OBVIOUS
<1>4. (\A f \in 1..MaxFinding : nextId <= f => audit[f] = <<>>)'
  BY DEF RetentionInv
<1> QED BY <1>1, <1>2, <1>3, <1>4 DEF RetentionInv

LEMMA DropEffect ==
  ASSUME NEW f, NEW ids
  PROVE  DOMAIN Drop(f, ids) = DOMAIN f \ ids /\ \A x \in DOMAIN f \ ids : Drop(f, ids)[x] = f[x]
BY DEF Drop

LEMMA DeleteFindingsInv ==
  ASSUME RetentionInv, NEW ids, DeleteFindings(ids)
  PROVE  RetentionInv'
<1>1. findings' = Drop(findings, ids) /\ UNCHANGED <<started, child, nextId, holds, audit, now>>
  BY DEF DeleteFindings
<1>2. Runs' = Runs
  BY <1>1 DEF Runs
<1>3. DOMAIN findings' = DOMAIN findings \ ids /\ \A f \in DOMAIN findings \ ids : findings'[f] = findings[f]
  BY <1>1 DEF Drop
<1> QED BY <1>1, <1>2, <1>3, ScanFacts, FindingsStay

\* Both purges delete scans, some children and the findings of the scans or none.
LEMMA DeleteScansInv ==
  ASSUME RetentionInv, NEW scans, NEW failed, DeleteScans(scans, failed)
  PROVE  RetentionInv'
<1>1. /\ started' = Drop(started, scans) /\ UNCHANGED <<nextId, holds, audit, now>>
      /\ child' = [t \in ChildTable |-> IF t \in failed THEN child[t] ELSE child[t] \ scans]
      /\ findings' = findings \/ findings' = Drop(findings, FindingsOf(scans))
  BY DEF DeleteScans
<1>2. Runs' = Runs \ scans /\ \A s \in Runs' : started'[s] = started[s]
  BY <1>1, DropEffect DEF Runs
<1>3. IsFiniteSet(Runs')
  BY <1>2, ScanFacts, FS_Difference
<1>4. child' \in [ChildTable -> SUBSET ScanRun]
  BY <1>1, ScanFacts
<1>5. DOMAIN findings' \subseteq DOMAIN findings /\ \A f \in DOMAIN findings' : findings'[f] = findings[f]
  <2> DEFINE ids == FindingsOf(scans)
  <2> HIDE DEF ids
  <2>1. CASE findings' = Drop(findings, ids)
    BY <2>1 DEF Drop
  <2> QED BY <1>1, <2>1 DEF ids
<1> QED BY <1>1, <1>2, <1>3, <1>4, <1>5, ScanFacts, FindingsStay

\* A new finding gets an identifier that never had a trail.
LEMMA AddFindingInv ==
  ASSUME RetentionInv, NEW s \in ScanRun, AddFinding(s)
  PROVE  RetentionInv'
<1> DEFINE row == [scan |-> s, review |-> "open", verifier |-> NoActor]
<1>1. /\ nextId <= MaxFinding /\ findings' = Put(findings, nextId, row) /\ nextId' = nextId + 1
      /\ UNCHANGED <<started, child, holds, audit, now>>
  BY DEF AddFinding
<1>2. row \in Finding /\ TrailOK(<<>>, row)
  BY NewFinding
<1> HIDE DEF row
<1>3. /\ DOMAIN findings' = DOMAIN findings \cup {nextId} /\ findings'[nextId] = row
      /\ \A f \in DOMAIN findings : f # nextId => findings'[f] = findings[f]
  BY <1>1 DEF Put
<1>4. nextId \in 1..MaxFinding /\ nextId' \in 1..(MaxFinding + 1) /\ \A f \in DOMAIN findings : f \in Nat /\ f < nextId
  BY <1>1, RetentionAssumption DEF RetentionInv, RetentionTypeOK
<1>5. audit[nextId] = <<>>
  BY <1>4 DEF RetentionInv
<1>6. RetentionTypeOK'
  <2>1. Runs' = Runs
    BY <1>1 DEF Runs
  <2> QED BY <1>1, <1>2, <1>3, <1>4, <2>1 DEF RetentionInv, RetentionTypeOK
<1>7. \A f \in DOMAIN findings' : f < nextId' /\ TrailOK(audit[f], findings'[f])
  BY <1>1, <1>2, <1>3, <1>4, <1>5 DEF RetentionInv
<1>8. (\A f \in DOMAIN findings : f < nextId /\ TrailOK(audit[f], findings[f]))'
  BY <1>1, <1>7
<1>9. (\A f \in 1..MaxFinding : nextId <= f => audit[f] = <<>>)'
  BY <1>1, <1>4, RetentionAssumption DEF RetentionInv
<1>10. (IsFiniteSet(Runs))'
  BY <1>1, ScanFacts DEF Runs
<1> QED BY <1>6, <1>8, <1>9, <1>10 DEF RetentionInv

\* One finding's row and trail change, and they still agree.
LEMMA TrailStep ==
  ASSUME RetentionInv, NEW f \in DOMAIN findings, NEW row \in Finding, NEW t \in Seq(Entry), TrailOK(t, row),
         findings' = [findings EXCEPT ![f] = row], audit' = [audit EXCEPT ![f] = t],
         UNCHANGED <<started, child, nextId, holds, now>>
  PROVE  RetentionInv'
<1>1. /\ DOMAIN findings' = DOMAIN findings /\ findings'[f] = row
      /\ \A g \in DOMAIN findings \ {f} : findings'[g] = findings[g]
  OBVIOUS
<1>2. f \in 1..MaxFinding /\ f < nextId /\ f \in Nat /\ nextId \in Nat /\ audit \in [1..MaxFinding -> Seq(Entry)]
  <2>1. f \in 1..MaxFinding /\ f < nextId /\ nextId \in 1..(MaxFinding + 1) /\ audit \in [1..MaxFinding -> Seq(Entry)]
    BY DEF RetentionInv, RetentionTypeOK, Entry
  <2> QED BY <2>1, RetentionAssumption
<1>3. /\ audit' \in [1..MaxFinding -> Seq(Entry)] /\ audit'[f] = t
      /\ \A g \in (1..MaxFinding) \ {f} : audit'[g] = audit[g]
  BY <1>2
<1>4. DOMAIN findings \subseteq 1..MaxFinding
  BY DEF RetentionInv, RetentionTypeOK
<1>5. RetentionTypeOK'
  <2>1. Runs' = Runs
    BY DEF Runs
  <2> QED BY <1>1, <1>3, <2>1 DEF RetentionInv, RetentionTypeOK, Entry
<1>6. \A g \in DOMAIN findings' : g < nextId' /\ TrailOK(audit'[g], findings'[g])
  BY <1>1, <1>2, <1>3, <1>4 DEF RetentionInv
<1>7. (\A g \in DOMAIN findings : g < nextId /\ TrailOK(audit[g], findings[g]))'
  BY <1>6
<1>8. \A g \in 1..MaxFinding : nextId <= g => g # f
  BY <1>2
<1>9. (\A g \in 1..MaxFinding : nextId <= g => audit[g] = <<>>)'
  BY <1>3, <1>8 DEF RetentionInv
<1>10. (IsFiniteSet(Runs))'
  BY ScanFacts DEF Runs
<1> QED BY <1>5, <1>7, <1>9, <1>10 DEF RetentionInv

LEMMA ReviewInv ==
  ASSUME RetentionInv, NEW f \in DOMAIN findings, NEW to \in Spelling, NEW a \in Actor, UpdateFindingReviewState(f, to, a)
  PROVE  RetentionInv'
<1> DEFINE v == IF to = "verified" THEN a ELSE NoActor
           row == [scan |-> findings[f].scan, review |-> to, verifier |-> v]
           e == [from |-> findings[f].review, to |-> to, actor |-> a]
           t == Append(audit[f], e)
<1>1. /\ ValidateFindingStateTransition(findings[f].review, to)
      /\ findings' = [findings EXCEPT ![f] = row] /\ audit' = [audit EXCEPT ![f] = t]
      /\ UNCHANGED <<started, child, nextId, holds, now>>
  BY DEF UpdateFindingReviewState
<1>2. findings[f] \in Finding /\ f \in 1..MaxFinding /\ TrailOK(audit[f], findings[f])
  BY DEF RetentionInv, RetentionTypeOK
<1>3. audit[f] \in Seq(Entry)
  BY <1>2 DEF RetentionInv, RetentionTypeOK, Entry
<1>4. v \in {NoActor, a} /\ (v # NoActor => to = "verified") /\ v \in Actor \cup {NoActor}
  OBVIOUS
<1> HIDE DEF v
<1>5. row \in Finding /\ row.review = to /\ row.verifier = v
  BY <1>2, <1>4 DEF Finding
<1> HIDE DEF row
<1>6. e \in Entry
  BY <1>2 DEF Entry, Finding
<1>7. t \in Seq(Entry)
  BY <1>3, <1>6, AppendProperties
<1>8. TrailOK(t, row)
  BY <1>1, <1>2, <1>3, <1>4, <1>5, ReviewExtends
<1> HIDE DEF t
<1> QED BY <1>1, <1>5, <1>7, <1>8, TrailStep

LEMMA AssignInv ==
  ASSUME RetentionInv, NEW f \in DOMAIN findings, NEW a \in Actor, AssignFinding(f, a)
  PROVE  RetentionInv'
<1> DEFINE e == [from |-> "assigned", to |-> "assigned", actor |-> a]
           t == Append(audit[f], e)
<1>1. /\ UNCHANGED <<started, child, findings, nextId, holds, now>>
      /\ audit' = [audit EXCEPT ![f] = t] \/ audit' = audit
  BY DEF AssignFinding
<1>2. findings[f] \in Finding /\ f \in 1..MaxFinding /\ TrailOK(audit[f], findings[f])
  BY DEF RetentionInv, RetentionTypeOK
<1>3. audit[f] \in Seq(Entry)
  BY <1>2 DEF RetentionInv, RetentionTypeOK, Entry
<1>4. e \in Entry
  BY DEF Entry
<1>5. t \in Seq(Entry) /\ TrailOK(t, findings[f])
  BY <1>2, <1>3, <1>4, AppendProperties, AssignmentKeeps
<1> HIDE DEF t
<1>6. CASE audit' = [audit EXCEPT ![f] = t]
  <2>1. \A g \in DOMAIN findings : findings[g] \in Finding
    BY DEF RetentionInv, RetentionTypeOK
  <2>2. \A g \in DOMAIN findings : g \in 1..MaxFinding
    BY DEF RetentionInv, RetentionTypeOK
  <2>3. audit \in [1..MaxFinding -> Seq(Entry)] /\ f < nextId /\ f \in Nat /\ nextId \in Nat
    <3>1. audit \in [1..MaxFinding -> Seq(Entry)] /\ f < nextId /\ nextId \in 1..(MaxFinding + 1)
      BY DEF RetentionInv, RetentionTypeOK, Entry
    <3> QED BY <1>2, <3>1, RetentionAssumption
  <2>4. audit' \in [1..MaxFinding -> Seq(Entry)] /\ audit'[f] = t /\ \A g \in (1..MaxFinding) \ {f} : audit'[g] = audit[g]
    BY <1>2, <1>5, <1>6, <2>3
  <2>5. Runs' = Runs
    BY <1>1 DEF Runs
  <2>6. RetentionTypeOK'
    BY <1>1, <2>4, <2>5 DEF RetentionInv, RetentionTypeOK, Entry
  <2>7. \A g \in DOMAIN findings' : g < nextId' /\ TrailOK(audit'[g], findings'[g])
    BY <1>1, <1>5, <2>2, <2>4 DEF RetentionInv
  <2>8. (\A g \in DOMAIN findings : g < nextId /\ TrailOK(audit[g], findings[g]))'
    BY <2>7
  <2>9. \A g \in 1..MaxFinding : nextId <= g => g # f
    BY <2>3
  <2>10. (\A g \in 1..MaxFinding : nextId <= g => audit[g] = <<>>)'
    BY <1>1, <2>4, <2>9 DEF RetentionInv
  <2>11. (IsFiniteSet(Runs))'
    BY <2>5, ScanFacts
  <2> QED BY <2>6, <2>8, <2>10, <2>11 DEF RetentionInv
<1>7. CASE audit' = audit
  <2>1. Runs' = Runs
    BY <1>1 DEF Runs
  <2> QED BY <1>1, <1>7, <2>1, ScanFacts, ScansStep
<1> QED BY <1>1, <1>6, <1>7

\* Every step keeps the invariant of review and retention.
LEMMA NextRetentionInv == RetentionInv /\ [RetentionNext]_retentionVars => RetentionInv'
<1> SUFFICES ASSUME RetentionInv, [RetentionNext]_retentionVars PROVE RetentionInv'
  OBVIOUS
<1>1. ASSUME NEW s \in ScanRun, RecordScan(s) \/ AddFinding(s) PROVE RetentionInv'
  BY <1>1, RecordScanInv, AddFindingInv
<1>2. ASSUME NEW s \in ScanRun, NEW t \in ChildTable, AddEvidence(s, t) PROVE RetentionInv'
  BY <1>2, AddEvidenceInv
<1>3. CASE (\E s \in ScanRun, hold \in BOOLEAN : SetLegalHold(s, hold)) \/ Tick
  BY <1>3, HoldOrTickInv
<1>4. ASSUME NEW ids \in SUBSET DOMAIN findings, DeleteFindings(ids) PROVE RetentionInv'
  BY <1>4, DeleteFindingsInv
<1>5. ASSUME NEW f \in DOMAIN findings, NEW a \in Actor, NEW to \in Spelling, UpdateFindingReviewState(f, to, a)
      PROVE  RetentionInv'
  BY <1>5, ReviewInv
<1>6. ASSUME NEW f \in DOMAIN findings, NEW a \in Actor, AssignFinding(f, a) PROVE RetentionInv'
  BY <1>6, AssignInv
<1>7. CASE PurgeScansWithLifecycle \/ PurgeScansOlderThan
  BY <1>7, DeleteScansInv DEF PurgeScansWithLifecycle, PurgeScansOlderThan
<1>8. CASE UNCHANGED retentionVars
  <2>1. Runs' = Runs
    BY <1>8 DEF Runs, retentionVars
  <2> QED BY <1>8, <2>1, ScanFacts, ScansStep DEF retentionVars
<1> QED BY <1>1, <1>2, <1>3, <1>4, <1>5, <1>6, <1>7, <1>8 DEF RetentionNext

\* The trail of every stored finding is its own: it starts at open, leads without a
\* gap and by allowed transitions to the row's state, a verified finding was
\* confirmed and then remediated, and the verifier it names acted last
\* (UpdateFindingReviewState, ValidateFindingStateTransition).
THEOREM ReviewTrailTheorem == RetentionSpec => []ReviewTrailSound
BY InitRetentionInv, NextRetentionInv, RetentionInvImplies, PTL DEF RetentionSpec

\* Whatever a lifecycle purge selects, it keeps the held scans with their evidence
\* and MinScansKeep scans, goes by age, and leaves no asset or finding of a scan it
\* removes (PurgeScansWithLifecycle).
THEOREM LifecyclePurgeTheorem == RetentionSpec => LifecyclePurgeSafe
<1>1. ASSUME RetentionInv, PurgeScansWithLifecycle PROVE PurgedSafely
  <2>1. PICK scans \in Selections, failed \in SUBSET (ChildTable \cap {"events", "checkpoints"}) : DeleteScans(scans, failed)
    BY <1>1 DEF PurgeScansWithLifecycle
  <2>2. /\ started' = Drop(started, scans)
        /\ child' = [t \in ChildTable |-> IF t \in failed THEN child[t] ELSE child[t] \ scans]
        /\ findings' = Drop(findings, FindingsOf(scans))
    BY <2>1 DEF DeleteScans
  <2>3. scans \subseteq Eligible /\ Eligible \subseteq Runs /\ Eligible \cap holds = {}
    BY <2>1 DEF Selections, Eligible, Expired
  <2>4. DOMAIN started' = Runs \ scans
    BY <2>2 DEF Drop, Runs
  <2>5. Runs \ DOMAIN started' = scans
    BY <2>3, <2>4
  <2>6. Cardinality(Runs \ scans) >= MinScansKeep
    <3>1. IsFiniteSet(Runs) /\ MinScansKeep \in Nat
      BY <1>1, RetentionAssumption DEF RetentionInv
    <3>2. Cardinality(Runs \ scans) = Cardinality(Runs) - Cardinality(Runs \cap scans)
      BY <3>1, FS_Difference
    <3>3. Runs \cap scans = scans /\ IsFiniteSet(scans) /\ IsFiniteSet(Eligible)
      BY <2>3, <3>1, FS_Subset
    <3>4. Cardinality(Runs) \in Nat /\ Cardinality(scans) \in Nat /\ Cardinality(Eligible) \in Nat
      BY <3>1, <3>3, FS_CardinalityType
    <3>5. AllowedToPurge = Cardinality(Runs) - MinScansKeep
      BY <1>1, <3>1, <3>4 DEF PurgeScansWithLifecycle, AllowedToPurge
    <3>6. Cardinality(scans) = IF Cardinality(Eligible) > AllowedToPurge THEN AllowedToPurge ELSE Cardinality(Eligible)
      BY <2>1 DEF Selections
    <3>7. Cardinality(scans) <= AllowedToPurge
      BY <3>1, <3>4, <3>5, <3>6
    <3> QED BY <3>1, <3>2, <3>3, <3>4, <3>5, <3>7
  <2>7. \A s \in scans, t \in Eligible \ scans : started[s] <= started[t]
    BY <2>1 DEF Selections
  <2>8. \A t \in (Runs \ scans) \ holds : started[t] + MaxAge < now => t \in Eligible \ scans
    BY DEF Eligible, Expired
  <2>9. \A f \in DOMAIN findings' : findings'[f].scan \notin scans
    <3> DEFINE ids == FindingsOf(scans)
    <3>1. \A f \in DOMAIN findings \ ids : findings[f].scan \notin scans
      BY DEF FindingsOf
    <3> HIDE DEF ids
    <3>2. DOMAIN findings' = DOMAIN findings \ ids /\ \A f \in DOMAIN findings \ ids : findings'[f] = findings[f]
      BY <2>2 DEF Drop, ids
    <3> QED BY <3>1, <3>2
  <2>10. \A t \in ChildTable : /\ child[t] \cap holds \subseteq child'[t]
                               /\ t = "assets" => scans \cap child'[t] = {}
    BY <2>1, <2>2, <2>3
  <2> QED BY <2>3, <2>4, <2>5, <2>6, <2>7, <2>8, <2>9, <2>10 DEF PurgedSafely
<1>2. RetentionInv /\ [RetentionNext]_retentionVars => [PurgeScansWithLifecycle => PurgedSafely]_retentionVars
  BY <1>1
<1> QED BY <1>2, InitRetentionInv, NextRetentionInv, PTL DEF RetentionSpec, LifecyclePurgeSafe
=============================================================================
