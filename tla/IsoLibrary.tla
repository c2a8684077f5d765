------------------------------ MODULE IsoLibrary ------------------------------
(***************************************************************************)
(* The ISO library (internal/iso/iso.go, internal/store/isos.go,           *)
(* internal/api/handlers_isos.go): image files in a directory that other   *)
(* machines may write to as well, and a row for each of them.              *)
(*                                                                         *)
(* An action is one file operation or one store method.  The content of a  *)
(* file and its SHA-256 are one value.  A request never holds a lock: what *)
(* it found out about a name may be wrong by the time it acts on it.       *)
(***************************************************************************)
EXTENDS Naturals

CONSTANTS
  Procs,        \* requests in progress at the same time
  Names,        \* file names that filenameRe accepts
  Images,       \* contents
  MaxRows       \* bound: rows ever inserted

None == 0                       \* no name, no content, or no row
Half == 1                       \* part of an image

ASSUME IsoAssumption ==
  /\ MaxRows \in Nat
  /\ None \notin Names \cup Images
  /\ Half \notin Images

VARIABLES
  files,        \* the directory: name -> content
  copying,      \* names under which a copy from outside is being written
  rows,         \* table iso_images
  rowSeq,       \* its AUTOINCREMENT
  req,          \* the requests in progress
  overlapped,   \* history: names two of them, or a copy from outside, worked on at once
  unlisted      \* history: names whose file may lack a row until the next scan

vars == <<files, copying, rows, rowSeq, req, overlapped, unlisted>>

Contents == Images \cup {Half}
RowIds == 1..MaxRows

Put(f, x, y) == [z \in DOMAIN f \cup {x} |-> IF z = x THEN y ELSE f[z]]
Drop(f, S) == [z \in DOMAIN f \ S |-> f[z]]
Partial(S, T) == UNION {[D -> T] : D \in SUBSET S}

(* about: the image the analysis looked at; None: it failed, the image is  *)
(* "unsupported".                                                          *)
Row == [name : Names, sum : Contents, about : Contents \cup {None}]

Uploading == {"row", "copy", "rename"}
Scanning  == {"scan", "hash"}
Deleting  == {"drop", "unlink"}
Request ==
  [at : {"idle", "record", "insert"} \cup Uploading \cup Scanning \cup Deleting,
   kind : {"none", "upload", "scan", "delete"}, name : Names \cup {None},
   sum : Contents \cup {None}, about : Contents \cup {None},
   id : RowIds \cup {None}, todo : SUBSET Names]

Idle == [at |-> "idle", kind |-> "none", name |-> None, sum |-> None, about |-> None,
         id |-> None, todo |-> {}]

TypeOK ==
  /\ files \in Partial(Names, Contents)
  /\ copying \subseteq DOMAIN files
  /\ rows \in Partial(RowIds, Row)
  /\ rowSeq \in 0..MaxRows
  /\ req \in [Procs -> Request]
  /\ overlapped \subseteq Names /\ unlisted \subseteq Names

(* A new database beside a directory that may hold images already. *)
Init ==
  /\ files \in Partial(Names, Images)
  /\ copying = {}
  /\ rows = [i \in {} |-> 0]
  /\ rowSeq = 0
  /\ req = [p \in Procs |-> Idle]
  /\ overlapped = {}
  /\ unlisted = DOMAIN files

At(p, label) == req[p].at = label
Goto(p, r) == req' = [req EXCEPT ![p] = r]
Busy(name) == \E p \in Procs : req[p].name = name
Listed(name) == \E i \in DOMAIN rows : rows[i].name = name
Overlap(name) ==
  overlapped' = IF Busy(name) \/ name \in copying THEN overlapped \cup {name} ELSE overlapped

Store == <<rows, rowSeq>>
Dir == <<files, copying>>

-----------------------------------------------------------------------------
(* POST /isos: handleUploadISO, Import *)

(* Mutant: an existing image is replaced. *)
BeginUploadAnyway(p, name) ==
  /\ At(p, "idle")
  /\ Goto(p, [Idle EXCEPT !.at = "copy", !.kind = "upload", !.name = name])
  /\ Overlap(name)
  /\ UNCHANGED <<Dir, Store, unlisted>>

BeginUpload(p, name) ==
  /\ At(p, "idle")
  /\ name \notin DOMAIN files                       \* ErrExists
  /\ Goto(p, [Idle EXCEPT !.at = "row", !.kind = "upload", !.name = name])
  /\ Overlap(name)
  /\ UNCHANGED <<Dir, Store, unlisted>>

UploadRow(p) ==
  /\ At(p, "row")
  /\ IF Listed(req[p].name) THEN Goto(p, Idle)      \* ErrExists
                            ELSE Goto(p, [req[p] EXCEPT !.at = "copy"])
  /\ UNCHANGED <<Dir, Store, overlapped, unlisted>>

(* Mutant: the upload is written under its own name. *)
ReceiveInPlace(p, image) ==
  /\ At(p, "copy")
  /\ files' = Put(files, req[p].name, Half)
  /\ \/ Goto(p, [req[p] EXCEPT !.at = "rename", !.sum = image])
     \/ Goto(p, Idle)
  /\ UNCHANGED <<copying, Store, overlapped, unlisted>>

(* Into a temporary file, which is removed when the upload breaks off. *)
Receive(p, image) ==
  /\ At(p, "copy")
  /\ \/ Goto(p, [req[p] EXCEPT !.at = "rename", !.sum = image])
     \/ Goto(p, Idle)
  /\ UNCHANGED <<Dir, Store, overlapped, unlisted>>

(* What is being copied under the name meanwhile goes on without one. *)
Finalize(p) ==
  /\ At(p, "rename")
  /\ files' = Put(files, req[p].name, req[p].sum)
  /\ copying' = copying \ {req[p].name}
  /\ Goto(p, [req[p] EXCEPT !.at = "record"])
  /\ UNCHANGED <<Store, overlapped, unlisted>>

(* Mutant: an image that cannot be analyzed is refused. *)
RecordOrRefuse(p) ==
  LET name == req[p].name IN
  /\ At(p, "record")
  /\ \/ /\ name \in DOMAIN files
        /\ Goto(p, [req[p] EXCEPT !.at = "insert", !.about = files[name]])
     \/ Goto(p, Idle)
  /\ UNCHANGED <<Dir, Store, overlapped, unlisted>>

(* record analyzes whatever is under the name by now; failing to is fine.  *)
Record(p) ==
  LET name == req[p].name IN
  /\ At(p, "record")
  /\ \/ /\ name \in DOMAIN files
        /\ Goto(p, [req[p] EXCEPT !.at = "insert", !.about = files[name]])
     \/ Goto(p, [req[p] EXCEPT !.at = "insert"])
  /\ UNCHANGED <<Dir, Store, overlapped, unlisted>>

NextName(p, name) == [Idle EXCEPT !.at = "scan", !.kind = "scan", !.todo = req[p].todo \ {name}]

(* CreateISO.  UNIQUE (filename) fails an upload, and a scan as a whole.   *)
Insert(p) ==
  LET r == req[p] IN
  /\ At(p, "insert")
  /\ \/ /\ ~ Listed(r.name)
        /\ rowSeq < MaxRows                         \* bound
        /\ rowSeq' = rowSeq + 1
        /\ rows' = Put(rows, rowSeq', [name |-> r.name, sum |-> r.sum, about |-> r.about])
        /\ Goto(p, IF r.kind = "scan" THEN NextName(p, r.name) ELSE Idle)
     \/ /\ Listed(r.name)
        /\ Goto(p, Idle)
        /\ UNCHANGED Store
  /\ unlisted' = unlisted \ {r.name}
  /\ UNCHANGED <<Dir, overlapped>>

-----------------------------------------------------------------------------
(* POST /isos/scan: handleScanISOs, ScanDir *)

BeginScan(p) ==
  /\ At(p, "idle")
  /\ DOMAIN files # {}
  /\ Goto(p, [Idle EXCEPT !.at = "scan", !.kind = "scan", !.todo = DOMAIN files])
  /\ UNCHANGED <<Dir, Store, overlapped, unlisted>>

ScanRow(p, name) ==
  /\ At(p, "scan") /\ name \in req[p].todo
  /\ \/ /\ Listed(name)
        /\ Goto(p, NextName(p, name))
        /\ unlisted' = unlisted \ {name}
        /\ UNCHANGED overlapped
     \/ /\ ~ Listed(name)
        /\ Goto(p, [req[p] EXCEPT !.at = "hash", !.name = name])
        /\ Overlap(name)
        /\ UNCHANGED unlisted
  /\ UNCHANGED <<Dir, Store>>

(* Info and hashFile; what is gone or unreadable is passed over. *)
ScanHash(p) ==
  LET name == req[p].name IN
  /\ At(p, "hash")
  /\ \/ /\ name \in DOMAIN files
        /\ Goto(p, [req[p] EXCEPT !.at = "record", !.sum = files[name]])
     \/ Goto(p, NextName(p, name))
  /\ UNCHANGED <<Dir, Store, overlapped, unlisted>>

EndScan(p) ==
  /\ At(p, "scan") /\ req[p].todo = {}
  /\ Goto(p, Idle)
  /\ UNCHANGED <<Dir, Store, overlapped, unlisted>>

-----------------------------------------------------------------------------
(* DELETE /isos/{id}: handleDeleteISO, Delete *)

(* Mutant: the file goes first. *)
BeginDeleteUnlinks(p, id) ==
  /\ At(p, "idle")
  /\ id \in DOMAIN rows
  /\ Goto(p, [Idle EXCEPT !.at = "drop", !.kind = "delete", !.name = rows[id].name, !.id = id])
  /\ files' = Drop(files, {rows[id].name})
  /\ copying' = copying \ {rows[id].name}
  /\ Overlap(rows[id].name)
  /\ UNCHANGED <<Store, unlisted>>

BeginDelete(p, id) ==
  /\ At(p, "idle")
  /\ id \in DOMAIN rows                             \* ErrNotFound
  /\ Goto(p, [Idle EXCEPT !.at = "drop", !.kind = "delete", !.name = rows[id].name, !.id = id])
  /\ Overlap(rows[id].name)
  /\ UNCHANGED <<Dir, Store, unlisted>>

DropRow(p) ==
  LET id == req[p].id IN
  /\ At(p, "drop")
  /\ IF id \in DOMAIN rows
     THEN rows' = Drop(rows, {id}) /\ Goto(p, [req[p] EXCEPT !.at = "unlink"])
     ELSE Goto(p, Idle) /\ UNCHANGED rows           \* ErrNotFound
  /\ UNCHANGED <<Dir, rowSeq, overlapped, unlisted>>

(* A failure is logged, and the file stays. *)
Unlink(p) ==
  LET name == req[p].name IN
  /\ At(p, "unlink")
  /\ \/ /\ files' = Drop(files, {name})
        /\ copying' = copying \ {name}
        /\ UNCHANGED unlisted
     \/ unlisted' = unlisted \cup {name} /\ UNCHANGED Dir
  /\ Goto(p, Idle)
  /\ UNCHANGED <<Store, overlapped>>

-----------------------------------------------------------------------------
(* Somebody copies an image into the shared directory.  That takes time;  *)
(* one that is never finished leaves part of an image there.               *)
CopyStarts(name) ==
  /\ name \notin DOMAIN files
  /\ files' = Put(files, name, Half)
  /\ copying' = copying \cup {name}
  /\ unlisted' = unlisted \cup {name}
  /\ Overlap(name)
  /\ UNCHANGED <<Store, req>>

CopyEnds(name, image) ==
  /\ name \in copying
  /\ files' = Put(files, name, image)
  /\ copying' = copying \ {name}
  /\ UNCHANGED <<Store, req, overlapped, unlisted>>

(* The process stops; temporary files are left to nobody. *)
Restart ==
  /\ unlisted' = unlisted \cup {n \in Names : Busy(n)}
  /\ req' = [p \in Procs |-> Idle]
  /\ UNCHANGED <<Dir, Store, overlapped>>

Next ==
  \/ \E p \in Procs :
       \/ \E name \in Names : BeginUpload(p, name) \/ ScanRow(p, name)
       \/ UploadRow(p) \/ Finalize(p) \/ Record(p) \/ Insert(p)
       \/ \E image \in Images : Receive(p, image)
       \/ BeginScan(p) \/ ScanHash(p) \/ EndScan(p)
       \/ \E id \in RowIds : BeginDelete(p, id)
       \/ DropRow(p) \/ Unlink(p)
  \/ \E name \in Names : CopyStarts(name) \/ \E image \in Images : CopyEnds(name, image)
  \/ Restart

Spec == Init /\ [][Next]_vars

-----------------------------------------------------------------------------
(* Properties *)

(* "a failed upload never leaves a half ISO behind" (Import), nor does one *)
(* that is still running, that overlaps another or that a stop interrupts: *)
(* only what somebody is still copying from outside is not whole.          *)
FilesWhole == \A name \in DOMAIN files \ copying : files[name] # Half

(* The checksum and the analysis on record are those of the image itself,  *)
(* through uploads, scans, deletions, copies from outside and restarts in  *)
(* any order, unless some of them overlapped on that very name: Import     *)
(* looks before it writes and replaces what has appeared meanwhile, and    *)
(* ScanDir reads what is still being copied.                               *)
SumsMatch ==
  \A i \in DOMAIN rows :
    rows[i].name \in DOMAIN files \ overlapped
      => /\ rows[i].sum = files[rows[i].name]
         /\ rows[i].about \in {rows[i].sum, None}

(* Under the same condition a row never lacks its file: an upload inserts  *)
(* it last, Delete removes it first, and a stop in between changes nothing *)
(* about that.                                                             *)
RowsHaveFiles ==
  \A i \in DOMAIN rows :
    rows[i].name \notin overlapped => rows[i].name \in DOMAIN files

(* A file lacks a row only while a request is working on its name, or      *)
(* after it was copied there, its upload or deletion was interrupted or it *)
(* could not be removed; in those cases until the next scan (ScanDir).     *)
FilesListed ==
  \A name \in DOMAIN files \ (overlapped \cup unlisted) : Busy(name) \/ Listed(name)

(* The inductive invariant: while nothing else has touched its name, what  *)
(* a request has found out about its file and its row is still true.       *)
NamesUnique == \A i, j \in DOMAIN rows : rows[i].name = rows[j].name => i = j

OneAtWork ==
  \A p, q \in Procs : req[p].name = req[q].name /\ req[p].name \in Names \ overlapped => p = q

Copied ==
  \A name \in copying : Busy(name) \/ Listed(name) => name \in overlapped

Knows(r) ==
  /\ r.at = "rename" => r.sum \in Images
  /\ r.at \in {"record", "insert"} => r.sum # None
  /\ r.at # "insert" => r.about = None
  /\ r.at \in {"idle", "scan"} <=> r.name = None
  /\ r.at = "drop" =>
       /\ r.id \in 1..rowSeq
       /\ r.id \in DOMAIN rows => rows[r.id].name = r.name
  /\ r.name \in Names \ overlapped =>
       /\ IF r.at = "drop" THEN r.id \in DOMAIN rows ELSE ~ Listed(r.name)
       /\ r.at \in Uploading => r.name \notin DOMAIN files
       /\ r.at = "hash" => r.name \notin DOMAIN files \ unlisted
       /\ r.at \in {"record", "insert"} => r.name \in DOMAIN files /\ files[r.name] = r.sum
       /\ r.at = "insert" => r.about \in {r.sum, None}

LibraryInv ==
  /\ TypeOK
  /\ DOMAIN rows \subseteq 1..rowSeq
  /\ NamesUnique /\ OneAtWork /\ Copied
  /\ \A p \in Procs : Knows(req[p])
  /\ FilesWhole /\ SumsMatch /\ RowsHaveFiles /\ FilesListed
=============================================================================
