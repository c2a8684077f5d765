---------------------------- MODULE BackupRestore ----------------------------
(***************************************************************************)
(* Backup and restore (internal/backup/backup.go), the restore applied at  *)
(* startup (cmd/helboot/main.go) and the migrations that follow it         *)
(* (internal/db/db.go).                                                    *)
(*                                                                         *)
(* The files of the data directory outlive the process; the process may be *)
(* killed between any two file operations.  Every database file has an     *)
(* identity of its own, because a write-ahead log belongs to one file.     *)
(* Its content is the newest commit in it and its schema: the migrations   *)
(* recorded as applied, and those whose statements took effect.            *)
(***************************************************************************)
EXTENDS Naturals

CONSTANTS
  Procs,        \* uploads in progress at the same time
  Latest,       \* number of migrations of this release
  MaxFiles,     \* bound: database files ever made
  MaxCommits,   \* bound: transactions ever committed
  MaxFaults     \* bound: crashes, failed startups, copies replaced

ASSUME BackupAssumption ==
  /\ Latest \in Nat \ {0}
  /\ MaxFiles \in Nat \ {0, 1}
  /\ MaxCommits \in Nat /\ MaxFaults \in Nat

VARIABLES
  live, wal,    \* helboot.db and helboot.db-wal
  pending,      \* restore-pending.db
  baks,         \* helboot.db.bak-*
  exported,     \* databases the administrator holds backups of
  phase,        \* what the process does
  req,          \* imports in progress
  accepted,     \* history: the staged database whose upload was answered so
  files, commits, faults

disk == <<live, wal, pending, baks>>
vars == <<live, wal, pending, baks, exported, phase, req, accepted, files, commits, faults>>

(* usable: a complete SQLite database with HELBOOT's schema, which is what *)
(* validateSQLite finds when it was received whole: uploads are exports.   *)
DbFile == [file : 0..MaxFiles, data : 0..MaxCommits, rows : 0..Latest, ddl : 0..Latest,
           usable : BOOLEAN]
New(f) == [file |-> f, data |-> 0, rows |-> 0, ddl |-> 0, usable |-> TRUE]
Absent == New(0)

Startup == {"apply", "preserve", "dropWal", "activate", "open", "migrate"}
Import  == [at : {"idle", "entry", "copy", "rename"},
            db : DbFile, manifest : BOOLEAN, staged : BOOLEAN]
Idle == [at |-> "idle", db |-> Absent, manifest |-> FALSE, staged |-> FALSE]

TypeOK ==
  /\ {live, wal, pending} \cup baks \cup exported \subseteq DbFile
  /\ phase \in {"down", "up"} \cup Startup
  /\ req \in [Procs -> Import]
  /\ accepted \in 0..MaxFiles
  /\ files \in 1..MaxFiles /\ commits \in 0..MaxCommits /\ faults \in 0..MaxFaults

(* A new data directory, and a backup made with the first release. *)
Init ==
  /\ live = Absent /\ wal = Absent /\ pending = Absent /\ baks = {}
  /\ exported = {[New(1) EXCEPT !.rows = 1, !.ddl = 1]}
  /\ phase = "down"
  /\ req = [p \in Procs |-> Idle]
  /\ accepted = 0 /\ files = 1 /\ commits = 0 /\ faults = 0

(* What a connection reads: SQLite replays a log it finds beside a file. *)
Content == IF wal = Absent THEN live ELSE wal
Commit(content) == wal' = content

-----------------------------------------------------------------------------
(* Startup: ApplyPendingRestore, Open, Migrate *)

Enter(from, to) == phase = from /\ phase' = to

Start ==
  /\ Enter("down", "apply")
  /\ UNCHANGED <<disk, exported, req, accepted, files, commits, faults>>

(* Mutant: that there is no database to set aside is an error. *)
LookOrFail ==
  /\ \/ pending = Absent /\ Enter("apply", "open")
     \/ pending # Absent /\ live # Absent /\ Enter("apply", "preserve")
     \/ pending # Absent /\ live = Absent /\ Enter("apply", "down")
  /\ UNCHANGED <<disk, exported, req, accepted, files, commits, faults>>

(* The two Stats: nobody else touches the files meanwhile. *)
Look ==
  /\ \/ pending = Absent /\ Enter("apply", "open")
     \/ pending # Absent /\ live # Absent /\ Enter("apply", "preserve")
     \/ pending # Absent /\ live = Absent /\ Enter("apply", "activate")
  /\ UNCHANGED <<disk, exported, req, accepted, files, commits, faults>>

(* Mutant: the old file is replaced, not set aside. *)
Discard ==
  /\ Enter("preserve", "dropWal")
  /\ live' = Absent
  /\ UNCHANGED <<wal, pending, baks, exported, req, accepted, files, commits, faults>>

(* The copy is named by the second: one made in the same second, by a      *)
(* restore before the last stop, is replaced.  That counts as a fault.     *)
Preserve ==
  /\ Enter("preserve", "dropWal")
  /\ live' = Absent
  /\ \/ baks' = baks \cup {live} /\ UNCHANGED faults
     \/ /\ faults < MaxFaults
        /\ faults' = faults + 1
        /\ \E earlier \in baks : baks' = (baks \ {earlier}) \cup {live}
  /\ UNCHANGED <<wal, pending, exported, req, accepted, files, commits>>

(* Mutant: the old log stays. *)
KeepWal ==
  /\ Enter("dropWal", "activate")
  /\ UNCHANGED <<disk, exported, req, accepted, files, commits, faults>>

DropWal ==
  /\ Enter("dropWal", "activate")
  /\ wal' = Absent
  /\ UNCHANGED <<live, pending, baks, exported, req, accepted, files, commits, faults>>

(* Mutant: the staged file is copied, and stays. *)
ActivateCopy ==
  /\ Enter("activate", "open")
  /\ live' = pending
  /\ UNCHANGED <<wal, pending, baks, exported, req, accepted, files, commits, faults>>

Activate ==
  /\ Enter("activate", "open")
  /\ live' = pending
  /\ pending' = Absent
  /\ UNCHANGED <<wal, baks, exported, req, accepted, files, commits, faults>>

(* Open creates what is missing; CREATE TABLE IF NOT EXISTS follows.  An   *)
(* empty file has no log to replay.                                        *)
Open ==
  /\ Enter("open", "migrate")
  /\ \/ live # Absent /\ UNCHANGED <<live, wal, files>>
     \/ /\ live = Absent
        /\ files < MaxFiles
        /\ live' = New(files + 1)
        /\ wal' = Absent
        /\ files' = files + 1
  /\ UNCHANGED <<pending, baks, exported, req, accepted, commits, faults>>

(* Mutant: a migration's statements are committed before its row. *)
ApplyInTwo ==
  /\ phase = "migrate"
  /\ Content.rows < Latest
  /\ \/ /\ Content.ddl = Content.rows
        /\ Commit([Content EXCEPT !.ddl = @ + 1])
     \/ /\ Content.ddl > Content.rows
        /\ Commit([Content EXCEPT !.rows = @ + 1])
  /\ UNCHANGED <<live, pending, baks, exported, phase, req, accepted, files, commits, faults>>

(* apply: the statements and the row of one migration, in a transaction.   *)
(* Statements that took effect before fail.                                *)
Apply ==
  /\ phase = "migrate"
  /\ Content.rows < Latest
  /\ Content.ddl = Content.rows
  /\ Commit([Content EXCEPT !.ddl = @ + 1, !.rows = @ + 1])
  /\ UNCHANGED <<live, pending, baks, exported, phase, req, accepted, files, commits, faults>>

Migrated ==
  /\ Enter("migrate", "up")
  /\ Content.rows >= Latest
  /\ UNCHANGED <<disk, exported, req, accepted, files, commits, faults>>

-----------------------------------------------------------------------------
(* The running server *)

Write ==
  /\ phase = "up"
  /\ commits < MaxCommits
  /\ commits' = commits + 1
  /\ Commit([Content EXCEPT !.data = commits + 1])
  /\ UNCHANGED <<live, pending, baks, exported, phase, req, accepted, files, faults>>

(* SQLite copies the log into the file; the log stays. *)
Checkpoint ==
  /\ phase = "up"
  /\ wal # Absent /\ live # wal
  /\ live' = wal
  /\ UNCHANGED <<wal, pending, baks, exported, phase, req, accepted, files, commits, faults>>

(* Export: VACUUM INTO takes the content at one moment, and nothing that   *)
(* happens while it is streamed matters.                                   *)
Export ==
  /\ phase = "up"
  /\ exported' = exported \cup {[Content EXCEPT !.file = 1]}
  /\ UNCHANGED <<disk, phase, req, accepted, files, commits, faults>>

(* A SIGTERM: requests are drained or cut off, and closing the database    *)
(* empties and removes its log.                                            *)
Stop ==
  /\ Enter("up", "down")
  /\ live' = Content
  /\ wal' = Absent
  /\ req' = [p \in Procs |-> Idle]
  /\ UNCHANGED <<pending, baks, exported, accepted, files, commits, faults>>

(* The process is killed. *)
Crash ==
  /\ phase # "down"
  /\ faults < MaxFaults
  /\ faults' = faults + 1
  /\ phase' = "down"
  /\ req' = [p \in Procs |-> Idle]
  /\ UNCHANGED <<disk, exported, accepted, files, commits>>

(* A rename or a migration fails and run returns the error, which closes   *)
(* the database if it was open.                                            *)
Fail ==
  /\ phase \in {"preserve", "activate", "migrate"}
  /\ faults < MaxFaults
  /\ faults' = faults + 1
  /\ phase' = "down"
  /\ IF phase = "migrate" THEN live' = Content /\ wal' = Absent ELSE UNCHANGED <<live, wal>>
  /\ UNCHANGED <<pending, baks, exported, req, accepted, files, commits>>

-----------------------------------------------------------------------------
(* POST /backup/import: handleBackupImport, Import, stageDatabase *)

At(p, label) == req[p].at = label
Goto(p, r) == req' = [req EXCEPT ![p] = r]
Serving == UNCHANGED <<live, wal, baks, exported, phase, commits, faults>>

(* What the archive holds next is chosen when it is read: any archive,     *)
(* whatever the order of its entries and wherever it breaks off.           *)
BeginImport(p) ==
  /\ phase = "up" /\ At(p, "idle")
  /\ Goto(p, [Idle EXCEPT !.at = "entry"])
  /\ Serving /\ UNCHANGED <<pending, accepted, files>>

ReadManifest(p) ==
  /\ At(p, "entry") /\ ~ req[p].manifest
  /\ Goto(p, [req[p] EXCEPT !.manifest = TRUE])
  /\ Serving /\ UNCHANGED <<pending, accepted, files>>

(* Another program's manifest, or no archive from here on, or the end of   *)
(* it too early.  What was staged before stays.                            *)
Reject(p) ==
  /\ At(p, "entry")
  /\ Goto(p, Idle)
  /\ Serving /\ UNCHANGED <<pending, accepted, files>>

(* Mutant: the upload is written to the place the next start looks at. *)
ReceiveInPlace(p, db) ==
  /\ At(p, "entry")
  /\ files < MaxFiles
  /\ files' = files + 1
  /\ pending' = [db EXCEPT !.file = files + 1, !.usable = FALSE]
  /\ Goto(p, [req[p] EXCEPT !.at = "copy", !.db = pending'])
  /\ Serving /\ UNCHANGED accepted

(* CreateTemp and the copy: a file of its own, which nobody else opens.    *)
Receive(p, db) ==
  /\ At(p, "entry")
  /\ files < MaxFiles
  /\ files' = files + 1
  /\ Goto(p, [req[p] EXCEPT !.at = "copy",
                !.db = [db EXCEPT !.file = files + 1, !.usable = FALSE]])
  /\ Serving /\ UNCHANGED <<pending, accepted>>

(* Received whole and found good by validateSQLite, or removed.            *)
Validate(p) ==
  /\ At(p, "copy")
  /\ \/ Goto(p, [req[p] EXCEPT !.at = "rename", !.db.usable = TRUE])
     \/ Goto(p, Idle)
  /\ Serving /\ UNCHANGED <<pending, accepted, files>>

Stage(p) ==
  /\ At(p, "rename")
  /\ pending' = req[p].db
  /\ accepted' = 0
  /\ Goto(p, [req[p] EXCEPT !.at = "entry", !.staged = TRUE])
  /\ Serving /\ UNCHANGED files

(* The end of the archive, with both entries seen. *)
Answer(p) ==
  /\ At(p, "entry") /\ req[p].manifest /\ req[p].staged
  /\ accepted' = IF pending = req[p].db THEN pending.file ELSE accepted
  /\ Goto(p, Idle)
  /\ Serving /\ UNCHANGED <<pending, files>>

-----------------------------------------------------------------------------
StartupStep == Start \/ Look \/ Preserve \/ DropWal \/ Activate \/ Open \/ Apply \/ Migrated

ImportStep(p) ==
  \/ BeginImport(p) \/ ReadManifest(p) \/ Reject(p)
  \/ \E db \in exported : Receive(p, db)
  \/ Validate(p) \/ Stage(p) \/ Answer(p)

Next ==
  \/ StartupStep
  \/ Write \/ Checkpoint \/ Export
  \/ Stop \/ Crash \/ Fail
  \/ \E p \in Procs : ImportStep(p)

(* A startup runs without waiting for anybody, and whoever runs HELBOOT    *)
(* starts it again.  Nobody has to upload, write, stop or crash.           *)
Spec == Init /\ [][Next]_vars /\ WF_vars(StartupStep)

-----------------------------------------------------------------------------
(* Properties *)

(* Neither an upload cut off, refused, overlapping another or interrupted  *)
(* by a crash, nor a crash in the middle of the swap, leaves a file where  *)
(* the next start would use it that was not received whole and validated   *)
(* (stageDatabase).                                                        *)
PendingUsable == pending.usable /\ live.usable

(* A staged database is swapped in once: later starts keep what was        *)
(* written since (ApplyPendingRestore).                                    *)
RestoredOnce ==
  pending # Absent => \A f \in {live} \cup baks : f.file # pending.file

(* "Stale WAL/SHM files must not be replayed into the restored DB"         *)
(* (ApplyPendingRestore).  One fault cannot bring that about; two can: an  *)
(* unclean stop that leaves a log, and a crash between setting the file    *)
(* aside and removing the log, after which the start finds no file and     *)
(* does not look for a log.                                                *)
NoForeignLog ==
  /\ phase \in {"migrate", "up"}
  /\ wal # Absent /\ wal.file # live.file
  => faults > 1

(* "The previous database is kept" (ApplyPendingRestore): the newest       *)
(* transaction survives restores, stops and starts, as long as the process *)
(* is not killed with a log that the restore then removes, and no copy of  *)
(* it is replaced by one made in the same second.                          *)
NewestCommitKept ==
  faults = 0 /\ commits > 0 => \E f \in {live, wal} \cup baks : f.data = commits

(* "Applied migrations are tracked; each migration runs inside its own     *)
(* transaction" (Migrate): whatever release a database comes from and      *)
(* wherever a start is interrupted, no migration runs a second time, which *)
(* would fail every start from then on, and none is missing when serving.  *)
MigratedOnce ==
  /\ phase \in {"migrate", "up"} => Content.ddl = Content.rows
  /\ phase = "up" => Content.rows = Latest

(* An upload that was answered "staged" is what the server runs after its  *)
(* next completed start, wherever a crash interrupts the starts before     *)
(* that, unless another upload was staged over it.  (After two crashes a   *)
(* foreign log may have taken its place: NoForeignLog.)                    *)
AcceptedIsRestored ==
  \A f \in 1..MaxFiles :
    (phase = "down" /\ accepted = f) ~> (phase = "up" /\ live.file = f) \/ faults > 1
=============================================================================
