------------------------- MODULE BackupRestoreProofs --------------------------
(***************************************************************************)
(* Backup and restore, for any number of uploads, files, commits, releases *)
(* and faults: which files are whole and migrated, which are one and the   *)
(* same, and when a write-ahead log can meet a database not its own.       *)
(***************************************************************************)
EXTENDS BackupRestore, TLAPS

Whole(f) == f.usable /\ f.ddl = f.rows

(* Whatever a start or a connection may open is whole, and no migration is *)
(* half applied.                                                           *)
Sound ==
  /\ \A f \in {live, wal, pending} \cup baks \cup exported : Whole(f)
  /\ \A p \in Procs : req[p].db.ddl = req[p].db.rows /\ (req[p].at # "copy" => req[p].db.usable)
  /\ phase = "up" => Content.rows = Latest

-----------------------------------------------------------------------------
(* Database files *)

LEMMA AbsentIs ==
  /\ Absent \in DbFile /\ Whole(Absent)
  /\ Absent.file = 0 /\ Absent.data = 0
  BY BackupAssumption DEF Absent, New, DbFile, Whole

LEMMA IdleIs ==
  Idle \in Import /\ Idle.at = "idle" /\ Idle.db = Absent
  BY AbsentIs DEF Idle, Import

LEMMA NewIs ==
  ASSUME NEW n \in 0..MaxFiles
  PROVE  New(n) \in DbFile /\ Whole(New(n)) /\ New(n).file = n
  BY BackupAssumption DEF New, DbFile, Whole

LEMMA ContentIs == TypeOK => Content \in DbFile /\ Content \in {live, wal}
  BY DEF TypeOK, Content

(* A commit changes rows, never which file the log belongs to. *)
LEMMA Written ==
  ASSUME NEW f \in DbFile, Whole(f), NEW d \in 0..MaxCommits
  PROVE  LET g == [f EXCEPT !.data = d] IN
         g \in DbFile /\ Whole(g) /\ g.file = f.file /\ g.data = d /\ g.rows = f.rows
  BY DEF DbFile, Whole

LEMMA MigratedFile ==
  ASSUME NEW f \in DbFile, Whole(f), f.rows < Latest
  PROVE  LET g == [f EXCEPT !.ddl = @ + 1, !.rows = @ + 1] IN
         g \in DbFile /\ Whole(g) /\ g.file = f.file /\ g.data = f.data
  <1>1. f.rows + 1 \in 0..Latest /\ f.ddl + 1 = f.rows + 1
    BY BackupAssumption DEF DbFile, Whole
  <1>2. LET h == [f EXCEPT !.ddl = f.rows + 1] IN
        /\ h \in DbFile /\ h.usable = f.usable /\ h.ddl = f.rows + 1
        /\ h.file = f.file /\ h.data = f.data
    BY <1>1 DEF DbFile
  <1>3. \A h \in DbFile : LET g == [h EXCEPT !.rows = f.rows + 1] IN
        /\ g \in DbFile /\ g.usable = h.usable /\ g.ddl = h.ddl /\ g.rows = f.rows + 1
        /\ g.file = h.file /\ g.data = h.data
    BY <1>1 DEF DbFile
  <1>4. [f EXCEPT !.ddl = @ + 1, !.rows = @ + 1]
          = [[f EXCEPT !.ddl = f.rows + 1] EXCEPT !.rows = f.rows + 1]
    BY <1>1 DEF DbFile
  <1> QED BY <1>2, <1>3, <1>4 DEF Whole

LEMMA ExportedFile ==
  ASSUME NEW f \in DbFile, Whole(f)
  PROVE  LET g == [f EXCEPT !.file = 1] IN g \in DbFile /\ Whole(g)
  BY BackupAssumption DEF DbFile, Whole

LEMMA ReceivedFile ==
  ASSUME NEW f \in DbFile, Whole(f), NEW n \in 1..MaxFiles
  PROVE  LET g == [f EXCEPT !.file = n, !.usable = FALSE] IN
         g \in DbFile /\ g.ddl = g.rows /\ g.file = n
  <1>1. LET h == [f EXCEPT !.file = n] IN
        h \in DbFile /\ h.ddl = f.ddl /\ h.rows = f.rows /\ h.file = n
    BY DEF DbFile
  <1>2. \A h \in DbFile : LET g == [h EXCEPT !.usable = FALSE] IN
        g \in DbFile /\ g.ddl = h.ddl /\ g.rows = h.rows /\ g.file = h.file
    BY DEF DbFile
  <1>3. [f EXCEPT !.file = n, !.usable = FALSE] = [[f EXCEPT !.file = n] EXCEPT !.usable = FALSE]
    BY DEF DbFile
  <1> QED BY <1>1, <1>2, <1>3 DEF Whole

-----------------------------------------------------------------------------
(* Types and wholeness *)

LEMMA SoundInit ==
  ASSUME Init
  PROVE  TypeOK /\ Sound
  <1>1. New(1) \in DbFile /\ Whole(New(1)) /\ 1 \in 0..Latest
    BY BackupAssumption, NewIs
  <1> DEFINE first == [New(1) EXCEPT !.rows = 1, !.ddl = 1]
  <1>2. first \in DbFile /\ Whole(first)
    BY <1>1 DEF DbFile, Whole
  <1> HIDE DEF first
  <1>3. exported = {first}
    BY DEF Init, first
  <1>4. TypeOK
    BY <1>2, <1>3, AbsentIs, IdleIs, BackupAssumption DEF Init, TypeOK
  <1>5. Sound
    BY <1>2, <1>3, AbsentIs, IdleIs DEF Init, Sound, Whole
  <1> QED BY <1>4, <1>5

(* What startup does to the files. *)
LEMMA SoundStartup ==
  ASSUME TypeOK, Sound, StartupStep
  PROVE  TypeOK' /\ Sound'
  <1>1. CASE Start \/ Look \/ Migrated
    <2>1. phase' \in {"up"} \cup Startup /\ UNCHANGED <<disk, exported, req, accepted, files, commits, faults>>
      BY <1>1 DEF Start, Look, Migrated, Enter, Startup
    <2>2. phase' = "up" => Content.rows = Latest
      <3>1. phase' = "up" => Migrated
        BY <1>1 DEF Start, Look, Enter
      <3>2. Content.rows \in 0..Latest
        BY ContentIs DEF DbFile
      <3> QED BY <3>1, <3>2, BackupAssumption DEF Migrated
    <2>3. Content' = Content
      BY <2>1 DEF disk, Content
    <2> QED BY <2>1, <2>2, <2>3 DEF disk, TypeOK, Sound
  <1>2. CASE Preserve
    <2>1. /\ baks' \subseteq baks \cup {live} /\ live' = Absent /\ phase' = "dropWal"
          /\ UNCHANGED <<wal, pending, exported, req, accepted, files, commits>>
      BY <1>2 DEF Preserve, Enter
    <2>2. faults' \in 0..MaxFaults
      BY <1>2, BackupAssumption DEF Preserve, TypeOK
    <2> QED BY <1>2, <2>1, <2>2, AbsentIs DEF Preserve, Enter, Startup, TypeOK, Sound
  <1>3. CASE DropWal
    BY <1>3, AbsentIs DEF DropWal, Enter, Startup, TypeOK, Sound
  <1>4. CASE Activate
    BY <1>4, AbsentIs DEF Activate, Enter, Startup, TypeOK, Sound
  <1>5. CASE Open
    <2>1. CASE live # Absent
      BY <1>5, <2>1 DEF Open, Enter, Startup, TypeOK, Sound
    <2>2. CASE live = Absent
      <3>1. files + 1 \in 1..MaxFiles
        BY <1>5, <2>2, BackupAssumption DEF Open, TypeOK
      <3>2. New(files + 1) \in DbFile /\ Whole(New(files + 1))
        BY <3>1, NewIs
      <3> QED BY <1>5, <2>2, <3>1, <3>2, AbsentIs DEF Open, Enter, Startup, TypeOK, Sound
    <2> QED BY <2>1, <2>2
  <1>6. CASE Apply
    <2>1. wal' \in DbFile /\ Whole(wal')
      BY <1>6, ContentIs, MigratedFile DEF Apply, Commit, Sound
    <2> QED BY <1>6, <2>1 DEF Apply, TypeOK, Sound
  <1> QED BY <1>1, <1>2, <1>3, <1>4, <1>5, <1>6 DEF StartupStep

LEMMA SoundServer ==
  ASSUME TypeOK, Sound, Write \/ Checkpoint \/ Export \/ Stop \/ Crash \/ Fail
  PROVE  TypeOK' /\ Sound'
  <1>0. Content \in DbFile /\ Whole(Content) /\ Content \in {live, wal}
    BY ContentIs DEF Sound
  <1>1. CASE Write
    <2>1. commits + 1 \in 0..MaxCommits /\ commits' = commits + 1
      BY <1>1, BackupAssumption DEF Write, TypeOK
    <2>2. wal' \in DbFile /\ Whole(wal') /\ wal'.rows = Content.rows
      BY <1>0, <1>1, <2>1, Written DEF Write, Commit
    <2>3. phase = "up" /\ UNCHANGED <<live, pending, baks, exported, phase, req, accepted, files, faults>>
      BY <1>1 DEF Write
    <2>4. Content'.rows = Latest
      <3>1. Content' \in {live, wal'}
        BY <2>3 DEF Content
      <3>2. CASE wal' = Absent
        \* a written log is not the absent one
        <4>1. Content.rows = 0
          BY <2>2, <3>2 DEF Absent, New
        <4> QED BY <2>3, <4>1, BackupAssumption DEF Sound
      <3>3. CASE wal' # Absent
        BY <2>2, <2>3, <3>3 DEF Content, Sound
      <3> QED BY <3>2, <3>3
    <2> QED BY <2>1, <2>2, <2>3, <2>4 DEF TypeOK, Sound
  <1>2. CASE Checkpoint
    <2>1. Content' = Content
      BY <1>2 DEF Checkpoint, Content
    <2> QED BY <1>2, <2>1 DEF Checkpoint, TypeOK, Sound
  <1>3. CASE Export
    <2>1. Content' = Content
      BY <1>3 DEF Export, disk, Content
    <2>2. [Content EXCEPT !.file = 1] \in DbFile /\ Whole([Content EXCEPT !.file = 1])
      BY <1>0, ExportedFile
    <2> QED BY <1>3, <2>1, <2>2 DEF Export, disk, TypeOK, Sound
  <1>4. CASE Stop
    BY <1>0, <1>4, AbsentIs, IdleIs DEF Stop, Enter, TypeOK, Sound, Whole
  <1>5. CASE Crash
    <2>1. faults' \in 0..MaxFaults
      BY <1>5, BackupAssumption DEF Crash, TypeOK
    <2> QED BY <1>5, <2>1, AbsentIs, IdleIs DEF Crash, disk, TypeOK, Sound, Whole
  <1>6. CASE Fail
    <2>1. faults' \in 0..MaxFaults
      BY <1>6, BackupAssumption DEF Fail, TypeOK
    <2>2. live' \in {live, Content} /\ wal' \in {wal, Absent}
      BY <1>6 DEF Fail
    <2> QED BY <1>0, <1>6, <2>1, <2>2, AbsentIs DEF Fail, TypeOK, Sound
  <1> QED BY <1>1, <1>2, <1>3, <1>4, <1>5, <1>6

(* An import changes its own request, and what is staged. *)
LEMMA SoundImport ==
  ASSUME TypeOK, Sound, NEW p \in Procs, ImportStep(p)
  PROVE  TypeOK' /\ Sound'
  <1>0. /\ req \in [Procs -> Import] /\ req[p] \in Import
        /\ req[p].db.ddl = req[p].db.rows /\ (req[p].at # "copy" => req[p].db.usable)
    BY DEF TypeOK, Sound
  <1>1. UNCHANGED <<live, wal, baks, exported, phase, commits, faults>> /\ Content' = Content
    <2>1. Serving
      BY DEF ImportStep, BeginImport, ReadManifest, Reject, Receive, Validate, Stage, Answer
    <2> QED BY <2>1 DEF Serving, Content
  <1>2. ASSUME NEW r \in Import, req' = [req EXCEPT ![p] = r],
               r.db.ddl = r.db.rows, r.at # "copy" => r.db.usable,
               pending' \in DbFile, Whole(pending'),
               files' \in 1..MaxFiles, accepted' \in 0..MaxFiles
        PROVE  TypeOK' /\ Sound'
    <2>1. TypeOK'
      BY <1>1, <1>2 DEF TypeOK
    <2>2. Sound'
      BY <1>0, <1>1, <1>2 DEF Sound
    <2> QED BY <2>1, <2>2
  <1>3. pending \in DbFile /\ Whole(pending) /\ files \in 1..MaxFiles /\ accepted \in 0..MaxFiles
    BY DEF TypeOK, Sound
  <1>4. CASE BeginImport(p)
    <2>1. LET r == [Idle EXCEPT !.at = "entry"] IN
          r \in Import /\ r.db.ddl = r.db.rows /\ r.db.usable
      BY IdleIs, AbsentIs DEF Import, Whole
    <2> QED BY <1>2, <1>3, <1>4, <2>1 DEF BeginImport, Goto
  <1>5. CASE ReadManifest(p)
    <2>1. LET r == [req[p] EXCEPT !.manifest = TRUE] IN
          r \in Import /\ r.db = req[p].db /\ r.at = req[p].at
      BY <1>0 DEF Import
    <2> QED BY <1>0, <1>2, <1>3, <1>5, <2>1 DEF ReadManifest, Goto
  <1>6. ASSUME Goto(p, Idle), UNCHANGED <<pending, files>>, accepted' \in 0..MaxFiles
        PROVE  TypeOK' /\ Sound'
    BY <1>2, <1>3, <1>6, IdleIs, AbsentIs DEF Goto, Whole
  <1>7. CASE Reject(p)
    BY <1>3, <1>6, <1>7 DEF Reject
  <1>8. CASE \E db \in exported : Receive(p, db)
    <2>1. PICK db \in exported : Receive(p, db)
      BY <1>8
    <2>2. files + 1 \in 1..MaxFiles
      BY <1>3, <2>1, BackupAssumption DEF Receive
    <2>3. PICK g \in DbFile : g = [db EXCEPT !.file = files + 1, !.usable = FALSE]
                              /\ g.ddl = g.rows
      <3>1. db \in DbFile /\ Whole(db)
        BY <2>1 DEF TypeOK, Sound
      <3> QED BY <2>2, <3>1, ReceivedFile
    <2>4. LET r == [req[p] EXCEPT !.at = "copy", !.db = g] IN
          r \in Import /\ r.db = g /\ r.at = "copy"
      BY <1>0, <2>3 DEF Import
    <2> QED BY <1>2, <1>3, <2>1, <2>2, <2>3, <2>4 DEF Receive, Goto
  <1>9. CASE Validate(p)
    <2>1. LET r == [req[p] EXCEPT !.at = "rename", !.db.usable = TRUE] IN
          r \in Import /\ r.db.ddl = r.db.rows /\ r.db.usable
      BY <1>0 DEF Import, DbFile
    <2>2. CASE Goto(p, [req[p] EXCEPT !.at = "rename", !.db.usable = TRUE])
      BY <1>2, <1>3, <1>9, <2>1, <2>2 DEF Validate, Goto
    <2>3. CASE Goto(p, Idle)
      BY <1>3, <1>6, <1>9, <2>3 DEF Validate
    <2> QED BY <1>9, <2>2, <2>3 DEF Validate
  <1>10. CASE Stage(p)
    <2>1. LET r == [req[p] EXCEPT !.at = "entry", !.staged = TRUE] IN
          r \in Import /\ r.db = req[p].db /\ r.at = "entry"
      BY <1>0 DEF Import
    <2>2. req[p].db \in DbFile /\ Whole(req[p].db)
      BY <1>0, <1>10 DEF Stage, At, Import, Whole
    <2>3. 0 \in 0..MaxFiles
      BY BackupAssumption
    <2> QED BY <1>2, <1>3, <1>10, <2>1, <2>2, <2>3 DEF Stage, Goto, Whole
  <1>11. CASE Answer(p)
    <2>1. accepted' \in 0..MaxFiles
      BY <1>3, <1>11 DEF Answer, DbFile
    <2> QED BY <1>6, <1>11, <2>1 DEF Answer
  <1> QED BY <1>4, <1>5, <1>7, <1>8, <1>9, <1>10, <1>11 DEF ImportStep

LEMMA SoundStep ==
  ASSUME TypeOK, Sound, [Next]_vars
  PROVE  TypeOK' /\ Sound'
  <1>1. CASE UNCHANGED vars
    BY <1>1 DEF vars, disk, TypeOK, Sound, Content
  <1> QED BY <1>1, SoundStartup, SoundServer, SoundImport DEF Next

(* Every file that can be opened is whole, however uploads overlap and     *)
(* wherever the process is killed (stageDatabase, apply).                  *)
THEOREM SoundInductive == Spec => [](TypeOK /\ Sound)
  BY SoundInit, SoundStep, PTL DEF Spec

(* Files, requests and counters keep their types. *)
THEOREM BackupTypeCorrect == Spec => []TypeOK
  BY SoundInductive, PTL

(* What a start swaps in was received whole and validated (stageDatabase). *)
THEOREM PendingAlwaysUsable == Spec => []PendingUsable
  <1>1. Sound => PendingUsable
    BY DEF Sound, Whole, PendingUsable
  <1> QED BY <1>1, SoundInductive, PTL

(* No migration runs twice and none is missing when serving, whatever      *)
(* release a backup is from and wherever starts are interrupted (apply).   *)
THEOREM AlwaysMigratedOnce == Spec => []MigratedOnce
  <1>1. TypeOK /\ Sound => MigratedOnce
    BY ContentIs DEF Sound, Whole, MigratedOnce
  <1> QED BY <1>1, SoundInductive, PTL

-----------------------------------------------------------------------------
(* Recovery *)

(* While the server is down a log is left only by a fault, and one without *)
(* its database only by a second; what was committed last is in use or set *)
(* aside.                                                                  *)
Recovering ==
  /\ phase \in {"preserve", "migrate", "up"} => live # Absent
  /\ phase \in {"dropWal", "activate"} => live = Absent
  /\ phase \in {"preserve", "dropWal", "activate"} => pending # Absent
  /\ phase \notin {"migrate", "up"} /\ wal # Absent => faults >= 1
  /\ phase \in {"down", "apply", "activate", "open"} /\ live = Absent /\ wal # Absent => faults >= 2
  /\ live # Absent /\ wal # Absent /\ wal.file # live.file => faults >= 2
  /\ faults = 0 /\ commits > 0 => Content.data = commits \/ \E f \in baks : f.data = commits

LEMMA RecoveringInit ==
  ASSUME Init
  PROVE  Recovering
  BY DEF Init, Recovering

LEMMA RecoveringStartup ==
  ASSUME TypeOK, Sound, Recovering, StartupStep
  PROVE  Recovering'
  <1>0. faults \in Nat /\ commits \in Nat /\ Absent.data = 0 /\ Absent.file = 0
    BY AbsentIs DEF TypeOK
  <1>1. CASE Start \/ Look \/ Migrated
    <2>1. UNCHANGED <<disk, exported, req, accepted, files, commits, faults>> /\ Content' = Content
      BY <1>1 DEF Start, Look, Migrated, disk, Content
    <2>2. CASE Start
      BY <2>1, <2>2 DEF Start, Enter, disk, Recovering
    <2>3. CASE Look
      BY <2>1, <2>3 DEF Look, Enter, disk, Recovering
    <2>4. CASE Migrated
      BY <2>1, <2>4 DEF Migrated, Enter, disk, Recovering
    <2> QED BY <1>1, <2>2, <2>3, <2>4
  <1>2. CASE Preserve
    BY <1>0, <1>2 DEF Preserve, Enter, Recovering, Content
  <1>3. CASE DropWal
    BY <1>0, <1>3 DEF DropWal, Enter, Recovering, Content
  <1>4. CASE Activate
    BY <1>0, <1>4 DEF Activate, Enter, Recovering, Content
  <1>5. CASE Open
    <2>1. CASE live # Absent
      BY <1>0, <1>5, <2>1 DEF Open, Enter, Recovering, Content
    <2>2. CASE live = Absent
      <3>1. files + 1 \in 1..MaxFiles
        BY <1>5, <2>2, BackupAssumption DEF Open, TypeOK
      <3>2. live' # Absent
        BY <1>0, <1>5, <2>2, <3>1, NewIs DEF Open
      <3> QED BY <1>0, <1>5, <2>2, <3>2 DEF Open, Enter, Recovering, Content
    <2> QED BY <2>1, <2>2
  <1>6. CASE Apply
    <2>1. /\ Content \in DbFile /\ Whole(Content) /\ Content.rows < Latest
          /\ wal' = [Content EXCEPT !.ddl = @ + 1, !.rows = @ + 1]
      BY <1>6, ContentIs DEF Apply, Commit, Sound
    <2>2. wal'.file = Content.file /\ wal'.data = Content.data
      BY <2>1, MigratedFile
    <2>3. wal' # Absent
      <3>1. wal'.rows = Content.rows + 1 /\ Content.rows \in Nat
        BY <2>1 DEF DbFile
      <3>2. Absent.rows = 0
        BY DEF Absent, New
      <3> QED BY <3>1, <3>2
    <2>4. UNCHANGED <<live, pending, baks, phase, commits, faults>> /\ phase = "migrate"
      BY <1>6 DEF Apply
    <2> QED BY <1>0, <2>2, <2>3, <2>4 DEF Recovering, Content
  <1> QED BY <1>1, <1>2, <1>3, <1>4, <1>5, <1>6 DEF StartupStep

LEMMA RecoveringServer ==
  ASSUME TypeOK, Sound, Recovering, Write \/ Checkpoint \/ Export \/ Stop \/ Crash \/ Fail
  PROVE  Recovering'
  <1>0. /\ faults \in Nat /\ commits \in Nat /\ Absent.data = 0 /\ Absent.file = 0
        /\ Content \in DbFile /\ Whole(Content) /\ Content \in {live, wal}
    BY AbsentIs, ContentIs DEF TypeOK, Sound
  <1>1. CASE Write
    <2>1. commits + 1 \in 0..MaxCommits /\ commits' = commits + 1 /\ phase = "up"
      BY <1>1, BackupAssumption DEF Write, TypeOK
    <2>2. wal'.file = Content.file /\ wal'.data = commits' /\ wal'.rows = Content.rows
      BY <1>0, <1>1, <2>1, Written DEF Write, Commit
    <2>3. wal' # Absent
      <3>1. wal'.rows = Latest
        BY <2>1, <2>2 DEF Sound
      <3>2. Absent.rows = 0
        BY DEF Absent, New
      <3> QED BY <3>1, <3>2, BackupAssumption
    <2>4. UNCHANGED <<live, pending, baks, phase, faults>>
      BY <1>1 DEF Write
    <2> QED BY <1>0, <2>1, <2>2, <2>3, <2>4 DEF Recovering, Content
  <1>2. CASE Checkpoint
    BY <1>0, <1>2 DEF Checkpoint, Recovering, Content
  <1>3. CASE Export
    BY <1>0, <1>3 DEF Export, disk, Recovering, Content
  <1>4. CASE Stop
    BY <1>0, <1>4 DEF Stop, Enter, Recovering, Content
  <1>5. CASE Crash
    <2>1. UNCHANGED <<live, wal, pending, baks, commits>> /\ phase' = "down" /\ faults' = faults + 1
      BY <1>5 DEF Crash, disk
    <2>2. phase \in {"up", "apply", "preserve", "dropWal", "activate", "open", "migrate"}
      BY <1>5 DEF Crash, TypeOK, Startup
    <2> QED BY <1>0, <2>1, <2>2 DEF Recovering
  <1>6. CASE Fail
    <2>1. /\ UNCHANGED <<pending, baks, commits>> /\ phase' = "down" /\ faults' = faults + 1
          /\ phase \in {"preserve", "activate", "migrate"}
      BY <1>6 DEF Fail
    <2>2. CASE phase = "migrate"
      BY <1>0, <1>6, <2>1, <2>2 DEF Fail, Recovering
    <2>3. CASE phase # "migrate"
      BY <1>0, <1>6, <2>1, <2>3 DEF Fail, Recovering
    <2> QED BY <2>2, <2>3
  <1> QED BY <1>1, <1>2, <1>3, <1>4, <1>5, <1>6

LEMMA ImportServes ==
  ASSUME NEW p \in Procs, ImportStep(p)
  PROVE  /\ UNCHANGED <<live, wal, baks, exported, phase, commits, faults>> /\ Content' = Content
         /\ phase = "up" \/ req[p].at \in {"entry", "copy", "rename"}
  <1>1. Serving /\ (phase = "up" \/ req[p].at \in {"entry", "copy", "rename"})
    BY DEF ImportStep, BeginImport, ReadManifest, Reject, Receive, Validate, Stage, Answer, At
  <1> QED BY <1>1 DEF Serving, Content

-----------------------------------------------------------------------------
(* Identity *)

(* The numbers of the databases in use, with its log, and set aside. *)
InUse == {live.file, wal.file} \cup {f.file : f \in baks}
Flying == {p \in Procs : req[p].at \in {"copy", "rename"}}

(* What is staged or on its way to be is nobody's database yet. *)
Apart ==
  /\ phase # "up" => \A p \in Procs : req[p].at = "idle"
  /\ \A n \in InUse : n <= files
  /\ pending.file <= files
  /\ pending # Absent => pending.file > 0 /\ pending.file \notin InUse
  /\ \A p \in Flying :
       /\ req[p].db.file \in 1..files
       /\ req[p].db.file \notin InUse /\ req[p].db.file # pending.file
  /\ \A p, q \in Flying : p # q => req[p].db.file # req[q].db.file

LEMMA ApartInit ==
  ASSUME Init
  PROVE  Apart
  <1>1. InUse = {0} /\ Flying = {}
    BY AbsentIs, IdleIs DEF Init, InUse, Flying
  <1> QED BY <1>1, AbsentIs, IdleIs DEF Init, Apart

LEMMA Numbers ==
  ASSUME TypeOK
  PROVE  /\ files \in Nat /\ pending.file \in Nat /\ InUse \subseteq Nat
         /\ \A p \in Procs : req[p].db.file \in Nat
  BY DEF TypeOK, DbFile, Import, InUse

(* Outside imports no file is given a number that was not its own, the     *)
(* absent one's or new.                                                    *)
LEMMA ApartFiles ==
  ASSUME TypeOK, Apart, TypeOK',
         InUse' \subseteq InUse \cup {0} \/ (InUse' \subseteq InUse \cup {0, files + 1} /\ files' = files + 1),
         files' \in {files, files + 1},
         pending' \in {pending, Absent},
         phase' # "up" => \A p \in Procs : req'[p].at = "idle",
         req' = req \/ \A p \in Procs : req'[p].at = "idle"
  PROVE  Apart'
  <1>0. /\ files \in Nat /\ pending.file \in Nat /\ InUse \subseteq Nat
        /\ \A p \in Procs : req[p].db.file \in Nat
        /\ Absent.file = 0 /\ Absent' = Absent
    BY Numbers, AbsentIs DEF Absent, New
  <1>1. \A n \in InUse' : n <= files'
    <2> TAKE n \in InUse'
    <2>1. n \in InUse \/ n = 0 \/ (n = files + 1 /\ files' = files + 1)
      OBVIOUS
    <2>2. n \in InUse => n <= files /\ n \in Nat
      BY <1>0 DEF Apart
    <2>3. CASE files' = files
      BY <1>0, <2>1, <2>2, <2>3
    <2>4. CASE files' = files + 1
      BY <1>0, <2>1, <2>2, <2>4
    <2> QED BY <2>3, <2>4
  <1>2. pending'.file <= files'
    BY <1>0 DEF Apart
  <1>3. pending' # Absent => pending'.file > 0 /\ pending'.file \notin InUse'
    BY <1>0 DEF Apart
  <1>4. Flying' = {} \/ (Flying' = Flying /\ req' = req)
    BY DEF Flying
  <1>5. \A p \in Flying' :
          /\ req'[p].db.file \in 1..files'
          /\ req'[p].db.file \notin InUse' /\ req'[p].db.file # pending'.file
    BY <1>0, <1>4 DEF Apart
  <1>6. \A p, q \in Flying' : p # q => req'[p].db.file # req'[q].db.file
    BY <1>4 DEF Apart
  <1> QED BY <1>0, <1>1, <1>2, <1>3, <1>5, <1>6 DEF Apart

LEMMA ApartStartup ==
  ASSUME TypeOK, Apart, Recovering, TypeOK', StartupStep
  PROVE  Apart'
  <1>0. Absent.file = 0 /\ files \in Nat /\ TypeOK /\ TypeOK'
    BY AbsentIs DEF TypeOK
  <1>1. req' = req /\ phase # "up"
    BY DEF StartupStep, Start, Look, Preserve, DropWal, Activate, Open, Apply, Migrated, Enter
  <1>2. \A p \in Procs : req'[p].at = "idle"
    BY <1>1 DEF Apart
  <1>3. CASE Start \/ Look \/ Migrated
    <2>1. InUse' = InUse /\ files' = files /\ pending' = pending
      BY <1>3 DEF Start, Look, Migrated, disk, InUse
    <2> QED BY <1>0, <1>2, <2>1, ApartFiles
  <1>4. CASE Preserve \/ DropWal
    <2>1. InUse' \subseteq InUse \cup {0} /\ files' = files /\ pending' = pending
      BY <1>0, <1>4 DEF Preserve, DropWal, InUse
    <2> QED BY <1>0, <1>2, <2>1, ApartFiles
  <1>5. CASE Activate
    <2>1. live' = pending /\ pending' = Absent /\ UNCHANGED <<wal, baks, files>>
      BY <1>5 DEF Activate
    <2>2. InUse' \subseteq InUse \cup {pending.file}
      BY <2>1 DEF InUse
    <2>3. Flying' = {} /\ Absent' = Absent
      BY <1>2 DEF Flying, Absent, New
    <2> QED BY <1>0, <1>2, <2>1, <2>2, <2>3 DEF Apart
  <1>6. CASE Open
    <2>1. CASE live # Absent
      <3>1. InUse' = InUse /\ files' = files /\ pending' = pending
        BY <1>6, <2>1 DEF Open, InUse
      <3> QED BY <1>0, <1>2, <3>1, ApartFiles
    <2>2. CASE live = Absent
      <3>1. files + 1 \in 0..MaxFiles
        BY <1>6, <2>2, BackupAssumption DEF Open, TypeOK
      <3>2. live'.file = files + 1 /\ wal'.file = 0 /\ baks' = baks /\ pending' = pending
            /\ files' = files + 1
        BY <1>0, <1>6, <2>2, <3>1, NewIs DEF Open
      <3>3. InUse' \subseteq InUse \cup {0, files + 1}
        BY <3>2 DEF InUse
      <3> QED BY <1>0, <1>2, <3>2, <3>3, ApartFiles
    <2> QED BY <2>1, <2>2
  <1>7. CASE Apply
    <2>1. wal'.file = Content.file
      BY <1>7, ContentIs DEF Apply, Commit, DbFile
    <2>2. InUse' \subseteq InUse /\ files' = files /\ pending' = pending
      BY <1>7, <2>1 DEF Apply, InUse, Content
    <2> QED BY <1>0, <1>2, <2>2, ApartFiles
  <1> QED BY <1>3, <1>4, <1>5, <1>6, <1>7 DEF StartupStep

LEMMA ApartServer ==
  ASSUME TypeOK, Apart, TypeOK', Write \/ Checkpoint \/ Export \/ Stop \/ Crash \/ Fail
  PROVE  Apart'
  <1>0. Absent.file = 0 /\ files \in Nat /\ Idle.at = "idle"
    BY AbsentIs, IdleIs DEF TypeOK
  <1>1. files' = files /\ pending' = pending
    BY DEF Write, Checkpoint, Export, Stop, Crash, Fail, disk
  <1>2. InUse' \subseteq InUse \cup {0}
    <2>1. CASE Write
      <3>1. wal'.file = Content.file
        BY <2>1, ContentIs DEF Write, Commit, DbFile
      <3> QED BY <2>1, <3>1 DEF Write, InUse, Content
    <2>2. CASE Checkpoint \/ Export \/ Crash
      BY <2>2 DEF Checkpoint, Export, Crash, disk, InUse
    <2>3. CASE Stop \/ Fail
      BY <1>0, <2>3 DEF Stop, Fail, InUse, Content
    <2> QED BY <2>1, <2>2, <2>3
  <1>3. CASE Write \/ Checkpoint \/ Export
    <2>1. req' = req /\ phase' = phase /\ phase = "up"
      BY <1>3 DEF Write, Checkpoint, Export
    <2> QED BY <1>1, <1>2, <2>1, ApartFiles
  <1>4. CASE Stop \/ Crash
    <2>1. \A p \in Procs : req'[p].at = "idle"
      BY <1>0, <1>4 DEF Stop, Crash
    <2> QED BY <1>1, <1>2, <2>1, ApartFiles
  <1>5. CASE Fail
    <2>1. req' = req /\ phase # "up"
      BY <1>5 DEF Fail
    <2>2. \A p \in Procs : req'[p].at = "idle"
      BY <2>1 DEF Apart
    <2> QED BY <1>1, <1>2, <2>2, ApartFiles
  <1> QED BY <1>3, <1>4, <1>5

LEMMA ApartImport ==
  ASSUME TypeOK, Apart, TypeOK', NEW p \in Procs, ImportStep(p)
  PROVE  Apart'
  <1>0. /\ files \in Nat /\ pending.file \in Nat /\ InUse \subseteq Nat
        /\ \A q \in Procs : req[q].db.file \in Nat
        /\ req \in [Procs -> Import] /\ Absent' = Absent
    BY Numbers DEF TypeOK, Absent, New
  <1>1. UNCHANGED <<live, wal, baks, phase>> /\ phase = "up" /\ InUse' = InUse
    <2>1. UNCHANGED <<live, wal, baks, phase>>
          /\ (phase = "up" \/ req[p].at \in {"entry", "copy", "rename"})
      BY ImportServes
    <2> QED BY <2>1 DEF Apart, InUse
  <1>2. CASE BeginImport(p) \/ ReadManifest(p) \/ Reject(p) \/ Answer(p)
    <2>1. PICK r \in Import : req' = [req EXCEPT ![p] = r] /\ r.at \in {"idle", "entry"}
      <3>1. [Idle EXCEPT !.at = "entry"] \in Import /\ [Idle EXCEPT !.at = "entry"].at = "entry"
        BY IdleIs DEF Import
      <3>2. req[p].at = "entry" => LET r == [req[p] EXCEPT !.manifest = TRUE] IN
              r \in Import /\ r.at = "entry"
        BY <1>0 DEF Import
      <3> QED BY <1>2, <3>1, <3>2, IdleIs DEF BeginImport, ReadManifest, Reject, Answer, Goto, At
    <2>2. files' = files /\ pending' = pending
      BY <1>2 DEF BeginImport, ReadManifest, Reject, Answer
    <2>3. Flying' \subseteq Flying /\ \A q \in Flying' : req'[q] = req[q]
      BY <1>0, <2>1 DEF Flying
    <2> QED BY <1>0, <1>1, <2>2, <2>3 DEF Apart
  <1>3. CASE \E db \in exported : Receive(p, db)
    <2>1. PICK db \in exported : Receive(p, db)
      BY <1>3
    <2>2. files' = files + 1 /\ pending' = pending
      BY <2>1 DEF Receive
    <2>3. req'[p].db.file = files + 1 /\ \A q \in Procs \ {p} : req'[q] = req[q]
      <3>1. db \in DbFile
        BY <2>1 DEF TypeOK
      <3>2. PICK g : g = [db EXCEPT !.file = files + 1, !.usable = FALSE]
        OBVIOUS
      <3>3. g.file = files + 1
        BY <3>1, <3>2 DEF DbFile
      <3>4. req' = [req EXCEPT ![p] = [req[p] EXCEPT !.at = "copy", !.db = g]]
        BY <2>1, <3>2 DEF Receive, Goto
      <3> QED BY <1>0, <3>3, <3>4 DEF Import
    <2>4. Flying' \subseteq Flying \cup {p} /\ Flying \subseteq Procs
      BY <2>3 DEF Flying
    <2>5. /\ pending'.file <= files' /\ \A n \in InUse' : n <= files'
          /\ pending' # Absent => pending'.file > 0 /\ pending'.file \notin InUse'
      BY <1>0, <1>1, <2>2 DEF Apart
    <2>6. files + 1 \in 1..files' /\ files + 1 \notin InUse' /\ files + 1 # pending'.file
      BY <1>0, <1>1, <2>2 DEF Apart
    <2>7. \A q \in Flying' \ {p} :
            /\ req'[q].db.file \in 1..files /\ req'[q].db.file \notin InUse'
            /\ req'[q].db.file # pending'.file /\ req'[q] = req[q] /\ q \in Flying
      BY <1>1, <2>2, <2>3, <2>4 DEF Apart
    <2>8. \A q \in Flying' :
            /\ req'[q].db.file \in 1..files' /\ req'[q].db.file \notin InUse'
            /\ req'[q].db.file # pending'.file
      BY <1>0, <2>2, <2>3, <2>6, <2>7
    <2>9. \A q, t \in Flying' : q # t => req'[q].db.file # req'[t].db.file
      <3> TAKE q, t \in Flying'
      <3>1. CASE q = p \/ t = p
        BY <1>0, <2>3, <2>7, <3>1
      <3>2. CASE q # p /\ t # p
        BY <2>7, <3>2 DEF Apart
      <3> QED BY <3>1, <3>2
    <2> QED BY <1>0, <1>1, <2>5, <2>8, <2>9 DEF Apart
  <1>4. CASE Validate(p)
    <2>1. files' = files /\ pending' = pending /\ p \in Flying
      BY <1>4 DEF Validate, At, Flying
    <2>2. \A q \in Procs \ {p} : req'[q] = req[q]
      BY <1>0, <1>4 DEF Validate, Goto
    <2>3. p \in Flying' => req'[p].db.file = req[p].db.file
      <3>1. LET r == [req[p] EXCEPT !.at = "rename", !.db.usable = TRUE] IN
            r.db.file = req[p].db.file
        BY <1>0 DEF Import, DbFile
      <3>2. CASE Goto(p, [req[p] EXCEPT !.at = "rename", !.db.usable = TRUE])
        BY <1>0, <3>1, <3>2 DEF Goto
      <3>3. CASE Goto(p, Idle)
        BY <1>0, <3>3, IdleIs DEF Goto, Flying
      <3> QED BY <1>4, <3>2, <3>3 DEF Validate
    <2>4. Flying' \subseteq Flying /\ Flying \subseteq Procs
      BY <2>1, <2>2 DEF Flying
    <2>5. \A q \in Flying' : req'[q].db.file = req[q].db.file
      BY <2>2, <2>3, <2>4
    <2>6. \A q \in Flying' :
            /\ req'[q].db.file \in 1..files' /\ req'[q].db.file \notin InUse'
            /\ req'[q].db.file # pending'.file
      BY <1>1, <2>1, <2>4, <2>5 DEF Apart
    <2>7. \A q, t \in Flying' : q # t => req'[q].db.file # req'[t].db.file
      BY <2>4, <2>5 DEF Apart
    <2> QED BY <1>0, <1>1, <2>1, <2>6, <2>7 DEF Apart
  <1>5. CASE Stage(p)
    <2>1. files' = files /\ pending' = req[p].db /\ p \in Flying
      BY <1>5 DEF Stage, At, Flying
    <2>2. Flying' \subseteq Flying \ {p} /\ \A q \in Procs \ {p} : req'[q] = req[q]
      <3>1. [req[p] EXCEPT !.at = "entry", !.staged = TRUE].at = "entry"
        BY <1>0 DEF Import
      <3> QED BY <1>0, <1>5, <3>1 DEF Stage, Goto, Flying
    <2>3. /\ req[p].db.file \in 1..files /\ req[p].db.file \notin InUse
          /\ \A q \in Flying : q # p => req[q].db.file # req[p].db.file
      BY <2>1 DEF Apart
    <2>4. /\ pending'.file <= files' /\ \A n \in InUse' : n <= files'
          /\ pending'.file > 0 /\ pending'.file \notin InUse'
      BY <1>0, <1>1, <2>1, <2>3 DEF Apart
    <2>5. Flying \subseteq Procs
      BY DEF Flying
    <2>6. \A q \in Flying' : q \in Flying /\ q # p /\ req'[q] = req[q]
      BY <2>2, <2>5
    <2>7. \A q \in Flying' :
            /\ req'[q].db.file \in 1..files' /\ req'[q].db.file \notin InUse'
            /\ req'[q].db.file # pending'.file
      BY <1>1, <2>1, <2>3, <2>6 DEF Apart
    <2>8. \A q, t \in Flying' : q # t => req'[q].db.file # req'[t].db.file
      BY <2>6 DEF Apart
    <2> QED BY <1>0, <1>1, <2>4, <2>7, <2>8 DEF Apart
  <1> QED BY <1>2, <1>3, <1>4, <1>5 DEF ImportStep

-----------------------------------------------------------------------------
(* The invariant *)

BackupInv == TypeOK /\ Sound /\ Recovering /\ Apart

LEMMA BackupStep ==
  ASSUME BackupInv, [Next]_vars
  PROVE  BackupInv'
  <1>1. TypeOK' /\ Sound'
    BY SoundStep DEF BackupInv
  <1>2. CASE StartupStep
    BY <1>1, <1>2, RecoveringStartup, ApartStartup DEF BackupInv
  <1>3. CASE Write \/ Checkpoint \/ Export \/ Stop \/ Crash \/ Fail
    BY <1>1, <1>3, RecoveringServer, ApartServer DEF BackupInv
  <1>4. CASE \E p \in Procs : ImportStep(p)
    <2>1. PICK p \in Procs : ImportStep(p)
      BY <1>4
    <2>2. Apart'
      BY <1>1, <2>1, ApartImport DEF BackupInv
    <2>3. /\ UNCHANGED <<live, wal, baks, phase, commits, faults>> /\ Content' = Content
          /\ phase = "up" \/ req[p].at \in {"entry", "copy", "rename"}
      BY <2>1, ImportServes
    <2>4. phase = "up"
      BY <2>3 DEF BackupInv, Apart
    <2>5. Recovering'
      BY <2>3, <2>4 DEF BackupInv, Recovering
    <2> QED BY <1>1, <2>2, <2>5 DEF BackupInv
  <1>5. CASE UNCHANGED vars
    <2>1. Recovering'
      BY <1>5 DEF vars, disk, BackupInv, Recovering, Content
    <2>2. Apart'
      BY <1>5 DEF vars, disk, BackupInv, Apart, InUse, Flying
    <2> QED BY <1>1, <2>1, <2>2 DEF BackupInv
  <1> QED BY <1>2, <1>3, <1>4, <1>5 DEF Next

(* The files of the data directory through any uploads, stops, crashes and *)
(* failed startups (ApplyPendingRestore, Import, Migrate).                 *)
THEOREM BackupInductive == Spec => []BackupInv
  <1>1. Init => BackupInv
    BY SoundInit, RecoveringInit, ApartInit DEF BackupInv
  <1> QED BY <1>1, BackupStep, PTL DEF Spec

(* A database that was swapped in is not staged any more, and what is      *)
(* staged has never been in use (ApplyPendingRestore).                     *)
THEOREM AlwaysRestoredOnce == Spec => []RestoredOnce
  <1>1. BackupInv => RestoredOnce
    BY DEF BackupInv, Apart, InUse, RestoredOnce
  <1> QED BY <1>1, BackupInductive, PTL

(* It takes two faults before a server reads another database's log        *)
(* (ApplyPendingRestore).                                                  *)
THEOREM NeverForeignLog == Spec => []NoForeignLog
  <1>1. BackupInv => NoForeignLog
    <2>1. TypeOK => faults \in Nat
      BY DEF TypeOK
    <2> QED BY <2>1 DEF BackupInv, Recovering, NoForeignLog
  <1> QED BY <1>1, BackupInductive, PTL

(* Without a fault the newest commit is in the database in use or set      *)
(* aside, whatever is restored (ApplyPendingRestore).                      *)
THEOREM NewestCommitAlwaysKept == Spec => []NewestCommitKept
  <1>1. BackupInv => NewestCommitKept
    BY ContentIs DEF BackupInv, Recovering, NewestCommitKept
  <1> QED BY <1>1, BackupInductive, PTL
=============================================================================
