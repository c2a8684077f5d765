--------------------------- MODULE IsoLibraryProofs ---------------------------
(***************************************************************************)
(* LibraryInv is inductive, for any number of requests, names and images.  *)
(*                                                                         *)
(* The argument: a step touches one name.  Whatever concerns other names,  *)
(* and whatever other requests know of theirs, stays as it was             *)
(* (Elsewhere); so per action only that name and the moving request are    *)
(* left, and as long as nothing overlapped on the name, what the request   *)
(* found out about it earlier is still so.                                 *)
(***************************************************************************)
EXTENDS IsoLibrary, TLAPS

LEMMA Constants ==
  /\ None \notin Names /\ None \notin Contents /\ Half \notin Images
  /\ Half \in Contents /\ Images \subseteq Contents
  /\ MaxRows \in Nat
  BY IsoAssumption DEF None, Half, Contents

(* Directories and tables are partial functions. *)
LEMMA PartialMembership ==
  ASSUME NEW S, NEW T, NEW f
  PROVE  f \in Partial(S, T) <=>
           /\ f = [x \in DOMAIN f |-> f[x]]
           /\ DOMAIN f \subseteq S /\ \A x \in DOMAIN f : f[x] \in T
  <1>1. ASSUME f \in Partial(S, T)
        PROVE  /\ f = [x \in DOMAIN f |-> f[x]]
               /\ DOMAIN f \subseteq S /\ \A x \in DOMAIN f : f[x] \in T
    BY <1>1 DEF Partial
  <1>2. ASSUME f = [x \in DOMAIN f |-> f[x]],
               DOMAIN f \subseteq S, \A x \in DOMAIN f : f[x] \in T
        PROVE  f \in Partial(S, T)
    <2>1. f \in [DOMAIN f -> T]
      BY <1>2
    <2> QED BY <1>2, <2>1 DEF Partial
  <1> QED BY <1>1, <1>2

LEMMA PutKeepsType ==
  ASSUME NEW S, NEW T, NEW f \in Partial(S, T), NEW x \in S, NEW y \in T
  PROVE  /\ Put(f, x, y) \in Partial(S, T)
         /\ DOMAIN Put(f, x, y) = DOMAIN f \cup {x}
         /\ Put(f, x, y)[x] = y
         /\ \A z \in DOMAIN f \ {x} : Put(f, x, y)[z] = f[z]
  <1>1. /\ DOMAIN f \subseteq S /\ \A z \in DOMAIN f : f[z] \in T
    BY PartialMembership
  <1>2. /\ Put(f, x, y) = [z \in DOMAIN Put(f, x, y) |-> Put(f, x, y)[z]]
        /\ DOMAIN Put(f, x, y) = DOMAIN f \cup {x}
        /\ Put(f, x, y)[x] = y
        /\ \A z \in DOMAIN f \ {x} : Put(f, x, y)[z] = f[z]
    BY DEF Put
  <1> QED BY <1>1, <1>2, PartialMembership

LEMMA DropKeepsType ==
  ASSUME NEW S, NEW T, NEW f \in Partial(S, T), NEW D
  PROVE  /\ Drop(f, D) \in Partial(S, T)
         /\ DOMAIN Drop(f, D) = DOMAIN f \ D
         /\ \A z \in DOMAIN f \ D : Drop(f, D)[z] = f[z]
  <1>1. /\ DOMAIN f \subseteq S /\ \A z \in DOMAIN f : f[z] \in T
    BY PartialMembership
  <1>2. /\ Drop(f, D) = [z \in DOMAIN Drop(f, D) |-> Drop(f, D)[z]]
        /\ DOMAIN Drop(f, D) = DOMAIN f \ D
        /\ \A z \in DOMAIN f \ D : Drop(f, D)[z] = f[z]
    BY DEF Drop
  <1> QED BY <1>1, <1>2, PartialMembership

LEMMA RowFields ==
  ASSUME NEW t \in Partial(RowIds, Row)
  PROVE  /\ DOMAIN t \subseteq RowIds
         /\ \A i \in DOMAIN t : /\ t[i] \in Row
                               /\ t[i].name \in Names /\ t[i].sum \in Contents
                               /\ t[i].about \in Contents \cup {None}
  <1>1. DOMAIN t \subseteq RowIds /\ \A i \in DOMAIN t : t[i] \in Row
    BY PartialMembership
  <1>2. \A r \in Row : r.name \in Names /\ r.sum \in Contents /\ r.about \in Contents \cup {None}
    BY DEF Row
  <1> QED BY <1>1, <1>2

(* What the invariant says of one name. *)
NameSound(n) ==
  /\ \A i, j \in DOMAIN rows : rows[i].name = n /\ rows[j].name = n => i = j
  /\ n \in DOMAIN files \ copying => files[n] # Half
  /\ n \in copying /\ (Busy(n) \/ Listed(n)) => n \in overlapped
  /\ \A i \in DOMAIN rows : rows[i].name = n /\ n \notin overlapped =>
       n \in DOMAIN files /\ rows[i].sum = files[n] /\ rows[i].about \in {rows[i].sum, None}
  /\ n \in DOMAIN files \ (overlapped \cup unlisted) => Busy(n) \/ Listed(n)

InvByName ==
  /\ TypeOK
  /\ DOMAIN rows \subseteq 1..rowSeq
  /\ OneAtWork
  /\ \A p \in Procs : Knows(req[p])
  /\ \A n \in Names : NameSound(n)

LEMMA NameByName == LibraryInv <=> InvByName
  <1>1. ASSUME TypeOK
        PROVE  /\ copying \subseteq Names /\ DOMAIN files \subseteq Names
               /\ \A i \in DOMAIN rows : rows[i].name \in Names
    <2>1. DOMAIN files \subseteq Names /\ copying \subseteq DOMAIN files
      BY <1>1, PartialMembership DEF TypeOK
    <2>2. rows \in Partial(RowIds, Row)
      BY <1>1 DEF TypeOK
    <2> QED BY <2>1, <2>2, RowFields
  <1>2. ASSUME LibraryInv PROVE InvByName
    <2>1. ASSUME NEW n \in Names PROVE NameSound(n)
      BY <1>2 DEF LibraryInv, NameSound, NamesUnique, Copied, FilesWhole, SumsMatch, RowsHaveFiles,
                  FilesListed
    <2> QED BY <1>2, <2>1 DEF LibraryInv, InvByName
  <1>3. ASSUME InvByName PROVE LibraryInv
    <2>1. /\ copying \subseteq Names /\ DOMAIN files \subseteq Names
          /\ \A i \in DOMAIN rows : rows[i].name \in Names
          /\ \A n \in Names : NameSound(n)
      BY <1>1, <1>3 DEF InvByName
    <2>2. NamesUnique
      BY <2>1 DEF NamesUnique, NameSound
    <2>3. FilesWhole /\ Copied
      BY <2>1 DEF FilesWhole, Copied, NameSound
    <2>4. SumsMatch /\ RowsHaveFiles
      BY <2>1 DEF SumsMatch, RowsHaveFiles, NameSound
    <2>5. FilesListed
      BY <2>1 DEF FilesListed, NameSound
    <2> QED BY <1>3, <2>2, <2>3, <2>4, <2>5 DEF InvByName, LibraryInv
  <1> QED BY <1>2, <1>3

(* A step about the name n, of the requests in P. *)
TouchesOnly(n) ==
  /\ overlapped \subseteq overlapped' /\ overlapped' \subseteq overlapped \cup {n}
  /\ \A m \in Names \ {n} :
       /\ m \in DOMAIN files' <=> m \in DOMAIN files
       /\ m \in DOMAIN files => files'[m] = files[m]
       /\ m \in copying' <=> m \in copying
       /\ m \in unlisted' <=> m \in unlisted
  /\ rowSeq <= rowSeq'
  /\ \A i \in DOMAIN rows : i \in DOMAIN rows' \/ rows[i].name = n
  /\ \A i \in DOMAIN rows' : IF i \in 1..rowSeq THEN i \in DOMAIN rows /\ rows'[i] = rows[i]
                                                ELSE rows'[i].name = n

LEMMA Elsewhere ==
  ASSUME LibraryInv, TypeOK', DOMAIN rows' \subseteq 1..rowSeq',
         NEW n, TouchesOnly(n), n \in Names => NameSound(n)',
         NEW P \in SUBSET Procs, \A p, q \in P : p = q,
         \A p \in P : /\ {req[p].name, req'[p].name} \subseteq {n, None}
                      /\ Knows(req[p])',
         \A q \in Procs \ P :
           /\ req'[q] = req[q]
           /\ req[q].name = n =>
                \/ n \in overlapped'
                \/ Knows(req[q])' /\ \A p \in P : req'[p].name = None
  PROVE  LibraryInv'
  <1> USE Constants
  <1>1. /\ rowSeq \in Nat /\ rowSeq' \in Nat /\ rowSeq <= rowSeq'
        /\ DOMAIN rows \subseteq 1..rowSeq
        /\ \A i \in DOMAIN rows : rows[i].name \in Names
        /\ \A q \in Procs : Knows(req[q]) /\ req[q].name \in Names \cup {None}
    <2>1. TypeOK /\ TypeOK' /\ \A q \in Procs : Knows(req[q])
      BY DEF LibraryInv
    <2>2. rowSeq \in Nat /\ rowSeq' \in Nat
      BY <2>1 DEF TypeOK
    <2>3. \A i \in DOMAIN rows : rows[i].name \in Names
      <3>1. rows \in Partial(RowIds, Row)
        BY <2>1 DEF TypeOK
      <3> QED BY <3>1, RowFields
    <2>4. \A q \in Procs : req[q].name \in Names \cup {None}
      BY <2>1 DEF TypeOK, Request
    <2> QED BY <2>1, <2>2, <2>3, <2>4 DEF LibraryInv, TouchesOnly
  <1>2. OneAtWork'
    <2> SUFFICES ASSUME NEW p \in Procs, NEW q \in Procs, req'[p].name = req'[q].name,
                        req'[p].name \in Names \ overlapped'
                 PROVE  p = q
      BY DEF OneAtWork
    <2>1. CASE p \in P /\ q \in P
      BY <2>1
    <2>2. CASE p \in P /\ q \notin P
      BY <2>2
    <2>3. CASE p \notin P /\ q \in P
      BY <2>3
    <2>4. CASE p \notin P /\ q \notin P
      BY <2>4 DEF LibraryInv, OneAtWork, TouchesOnly
    <2> QED BY <2>1, <2>2, <2>3, <2>4
  <1>3. ASSUME NEW m \in Names \ {n} PROVE /\ Listed(m)' <=> Listed(m)
                                           /\ Busy(m)' <=> Busy(m)
    BY <1>1 DEF Listed, Busy, TouchesOnly
  <1>4. ASSUME NEW q \in Procs \ P PROVE Knows(req[q])'
    <2>1. Knows(req[q]) /\ req'[q] = req[q]
      BY <1>1, <1>4
    <2>2. CASE req[q].name \in Names \ {n}
      BY <1>1, <1>3, <2>1, <2>2 DEF Knows, TouchesOnly
    <2>3. CASE req[q].name = n /\ n \in overlapped'
      BY <1>1, <2>1, <2>3 DEF Knows, TouchesOnly
    <2>4. CASE req[q].name = None
      BY <1>1, <2>1, <2>4 DEF Knows, TouchesOnly
    <2> QED BY <1>1, <1>4, <2>2, <2>3, <2>4
  <1>5. ASSUME NEW m \in Names \ {n} PROVE NameSound(m)'
    <2>1. NameSound(m)
      BY NameByName, <1>5 DEF InvByName
    <2>2. m \in overlapped' <=> m \in overlapped
      BY <1>5 DEF TouchesOnly
    <2>3. \A i \in DOMAIN rows' : rows'[i].name = m =>
            i \in DOMAIN rows /\ rows'[i] = rows[i]
      BY <1>5 DEF TouchesOnly
    <2> QED BY <1>1, <1>3, <1>5, <2>1, <2>2, <2>3 DEF NameSound, TouchesOnly
  <1>6. \A q \in Procs : Knows(req[q])'
    BY <1>4
  <1>7. \A m \in Names : NameSound(m)'
    BY <1>5
  <1>8. InvByName'
    BY <1>2, <1>6, <1>7 DEF InvByName
  <1> QED BY <1>8, NameByName, PTL

(* What one request knows, and a step of its own. *)
LEMMA Mine ==
  ASSUME LibraryInv, NEW p \in Procs
  PROVE  /\ req[p] \in Request /\ Knows(req[p])
         /\ req[p].name \in Names \cup {None} /\ req[p].sum \in Contents \cup {None}
         /\ req[p].about \in Contents \cup {None} /\ req[p].id \in RowIds \cup {None}
         /\ req[p].todo \subseteq Names
         /\ req[p].at \notin {"idle", "scan"} => req[p].name \in Names
  <1>1. req[p] \in Request /\ Knows(req[p])
    BY DEF LibraryInv, TypeOK
  <1>2. /\ req[p].name \in Names \cup {None} /\ req[p].sum \in Contents \cup {None}
        /\ req[p].about \in Contents \cup {None} /\ req[p].id \in RowIds \cup {None}
        /\ req[p].todo \subseteq Names
    BY <1>1 DEF Request
  <1> QED BY <1>1, <1>2 DEF Knows

LEMMA StoreTypes ==
  ASSUME LibraryInv
  PROVE  /\ files \in Partial(Names, Contents) /\ rows \in Partial(RowIds, Row)
         /\ DOMAIN files \subseteq Names /\ rowSeq \in 0..MaxRows
         /\ DOMAIN rows \subseteq 1..rowSeq /\ DOMAIN rows \subseteq RowIds
         /\ \A i \in DOMAIN rows : /\ rows[i] \in Row
                                  /\ rows[i].name \in Names /\ rows[i].sum \in Contents
                                  /\ rows[i].about \in Contents \cup {None}
         /\ overlapped \subseteq Names /\ unlisted \subseteq Names
         /\ copying \subseteq DOMAIN files
  <1>1. /\ files \in Partial(Names, Contents) /\ rows \in Partial(RowIds, Row)
        /\ DOMAIN rows \subseteq 1..rowSeq /\ rowSeq \in 0..MaxRows
        /\ overlapped \subseteq Names /\ unlisted \subseteq Names /\ copying \subseteq DOMAIN files
    BY DEF LibraryInv, TypeOK
  <1>2. DOMAIN files \subseteq Names
    BY <1>1, PartialMembership
  <1> QED BY <1>1, <1>2, RowFields

LEMMA GotoStep ==
  ASSUME LibraryInv, NEW p \in Procs, NEW r \in Request, Goto(p, r)
  PROVE  /\ req' \in [Procs -> Request] /\ req'[p] = r
         /\ \A q \in Procs \ {p} : req'[q] = req[q]
  BY DEF LibraryInv, TypeOK, Goto

StoreKeepsType ==
  /\ files' \in Partial(Names, Contents) /\ rows' \in Partial(RowIds, Row)
  /\ rowSeq' \in 0..MaxRows /\ DOMAIN rows' \subseteq 1..rowSeq'
  /\ overlapped' \subseteq Names /\ unlisted' \subseteq Names
  /\ copying' \subseteq DOMAIN files'

LEMMA Mover ==
  ASSUME LibraryInv, NEW p \in Procs, NEW n \in Names, TouchesOnly(n), StoreKeepsType,
         req' \in [Procs -> Request], \A q \in Procs \ {p} : req'[q] = req[q],
         \/ req[p].name = n
         \/ req[p].name = None /\ (Busy(n) => n \in overlapped'),
         req'[p].name \in {n, None}, Knows(req[p])', NameSound(n)'
  PROVE  LibraryInv'
  <1>1. TypeOK'
    BY DEF StoreKeepsType, TypeOK
  <1>2. \A q \in Procs \ {p} : req[q].name = n => n \in overlapped'
    <2> SUFFICES ASSUME NEW q \in Procs \ {p}, req[q].name = n PROVE n \in overlapped'
      OBVIOUS
    <2>1. Busy(n)
      BY DEF Busy
    <2>2. ASSUME req[p].name = n PROVE n \in overlapped
      BY <2>2 DEF LibraryInv, OneAtWork
    <2> QED BY <2>1, <2>2 DEF TouchesOnly
  <1> DEFINE P == {p}
  <1>3. /\ P \in SUBSET Procs /\ \A x, y \in P : x = y
        /\ \A x \in P : {req[x].name, req'[x].name} \subseteq {n, None} /\ Knows(req[x])'
        /\ \A q \in Procs \ P : req'[q] = req[q] /\ (req[q].name = n => n \in overlapped')
    BY <1>2
  <1> HIDE DEF P
  <1> QED BY <1>1, <1>3, Elsewhere DEF StoreKeepsType

-----------------------------------------------------------------------------
(* POST /isos *)

LEMMA BeginUploadStep ==
  ASSUME LibraryInv, NEW p \in Procs, NEW n \in Names, BeginUpload(p, n)
  PROVE  LibraryInv'
  <1> USE Constants
  <1> DEFINE r == [Idle EXCEPT !.at = "row", !.kind = "upload", !.name = n]
  <1>1. /\ r \in Request /\ r.at = "row" /\ r.name = n /\ r.sum = None /\ r.about = None
    BY DEF Idle, Request, Uploading
  <1> HIDE DEF r
  <1>2. /\ At(p, "idle") /\ n \notin DOMAIN files /\ Goto(p, r) /\ Overlap(n)
        /\ UNCHANGED <<files, copying, rows, rowSeq, unlisted>>
    BY DEF BeginUpload, Store, Dir, r
  <1>3. /\ req' \in [Procs -> Request] /\ req'[p] = r
        /\ \A q \in Procs \ {p} : req'[q] = req[q]
    BY <1>1, <1>2, GotoStep
  <1>4. /\ req[p].name = None /\ (Busy(n) => n \in overlapped')
        /\ overlapped \subseteq overlapped' /\ overlapped' \subseteq overlapped \cup {n}
    BY <1>2, Mine DEF At, Knows, Overlap
  <1>5. TouchesOnly(n) /\ StoreKeepsType
    BY <1>2, <1>4, StoreTypes DEF TouchesOnly, StoreKeepsType
  <1>6. NameSound(n) /\ NameSound(n)'
    <2>1. NameSound(n) /\ n \notin copying
      BY <1>2, NameByName, StoreTypes DEF InvByName
    <2> QED BY <1>2, <1>4, <2>1 DEF NameSound, Listed
  <1>7. Knows(req[p])'
    BY <1>1, <1>2, <1>3, <1>4, <1>6 DEF Knows, Uploading, Listed, NameSound
  <1> QED BY <1>1, <1>3, <1>4, <1>5, <1>6, <1>7, Mover

(* A request that stays with its name, or gives it up, and leaves the      *)
(* directory and the table alone.                                          *)
LEMMA StayingMover ==
  ASSUME LibraryInv, NEW p \in Procs, NEW n \in Names, n = req[p].name,
         NEW r \in Request, Goto(p, r), r.name \in {n, None}, Knows(req[p])',
         UNCHANGED <<files, copying, rows, rowSeq, overlapped, unlisted>>,
         r.name = n \/ Listed(n) \/ n \notin DOMAIN files \ (overlapped \cup unlisted)
  PROVE  LibraryInv'
  <1>1. /\ req' \in [Procs -> Request] /\ req'[p] = r
        /\ \A q \in Procs \ {p} : req'[q] = req[q]
    BY GotoStep
  <1>2. TouchesOnly(n) /\ StoreKeepsType
    BY StoreTypes DEF TouchesOnly, StoreKeepsType
  <1>3. NameSound(n)
    BY NameByName DEF InvByName
  <1>4. NameSound(n)'
    <2>1. Busy(n) /\ (Listed(n)' <=> Listed(n)) /\ (Busy(n)' => r.name = n \/ Busy(n))
      BY <1>1 DEF Busy, Listed
    <2>2. r.name = n => Busy(n)'
      BY <1>1 DEF Busy
    <2> QED BY <1>3, <2>1, <2>2 DEF NameSound
  <1> QED BY <1>1, <1>2, <1>4, Mover

LEMMA IdleRequest ==
  Idle \in Request /\ Idle.at = "idle" /\ Idle.name = None /\ Idle.about = None
  BY DEF Idle, Request

LEMMA UploadRowStep ==
  ASSUME LibraryInv, NEW p \in Procs, UploadRow(p)
  PROVE  LibraryInv'
  <1> USE Constants
  <1>1. PICK n \in Names : n = req[p].name
    BY Mine DEF UploadRow, At
  <1>2. /\ At(p, "row") /\ Knows(req[p])
        /\ UNCHANGED <<files, copying, rows, rowSeq, overlapped, unlisted>>
    BY Mine DEF UploadRow, Store, Dir
  <1>3. CASE Listed(n)
    <2>1. Goto(p, Idle)
      BY <1>1, <1>3 DEF UploadRow
    <2>2. req'[p] = Idle
      BY <2>1, IdleRequest, GotoStep
    <2>3. Knows(req[p])'
      BY <2>2, IdleRequest DEF Knows
    <2> QED BY <1>1, <1>2, <1>3, <2>1, <2>3, IdleRequest, StayingMover
  <1>4. CASE ~ Listed(n)
    <2> DEFINE r == [req[p] EXCEPT !.at = "copy"]
    <2>1. /\ r \in Request /\ r.at = "copy" /\ r.name = n /\ r.about = req[p].about
      BY <1>1, Mine DEF Request, Uploading
    <2>2. Goto(p, r)
      BY <1>1, <1>4 DEF UploadRow
    <2> HIDE DEF r
    <2>3. req'[p] = r
      BY <2>1, <2>2, GotoStep
    <2>4. Knows(req[p])'
      BY <1>1, <1>2, <2>1, <2>3 DEF Knows, At, Uploading, Listed
    <2> QED BY <1>1, <1>2, <2>1, <2>2, <2>4, StayingMover
  <1> QED BY <1>3, <1>4

LEMMA ReceiveStep ==
  ASSUME LibraryInv, NEW p \in Procs, NEW image \in Images, Receive(p, image)
  PROVE  LibraryInv'
  <1> USE Constants
  <1>1. PICK n \in Names : n = req[p].name
    BY Mine DEF Receive, At
  <1>2. /\ At(p, "copy") /\ Knows(req[p])
        /\ UNCHANGED <<files, copying, rows, rowSeq, overlapped, unlisted>>
    BY Mine DEF Receive, Store, Dir
  <1> DEFINE r == [req[p] EXCEPT !.at = "rename", !.sum = image]
  <1>3. CASE Goto(p, r)
    <2>1. /\ r \in Request /\ r.at = "rename" /\ r.name = n /\ r.sum = image
          /\ r.about = req[p].about
      BY <1>1, Mine DEF Request, Uploading
    <2> HIDE DEF r
    <2>2. req'[p] = r
      BY <1>3, <2>1, GotoStep
    <2>3. Knows(req[p])'
      BY <1>1, <1>2, <2>1, <2>2 DEF Knows, At, Uploading, Listed
    <2> QED BY <1>1, <1>2, <1>3, <2>1, <2>3, StayingMover
  <1>4. CASE Goto(p, Idle)
    <2>1. req'[p] = Idle
      BY <1>4, IdleRequest, GotoStep
    <2>2. Knows(req[p])'
      BY <2>1, IdleRequest DEF Knows
    <2>3. n \notin DOMAIN files \ (overlapped \cup unlisted)
      BY <1>1, <1>2 DEF Knows, At, Uploading
    <2> QED BY <1>1, <1>2, <1>4, <2>2, <2>3, IdleRequest, StayingMover
  <1> QED BY <1>3, <1>4 DEF Receive

LEMMA FinalizeStep ==
  ASSUME LibraryInv, NEW p \in Procs, Finalize(p)
  PROVE  LibraryInv'
  <1> USE Constants
  <1>1. PICK n \in Names : n = req[p].name
    BY Mine DEF Finalize, At
  <1>2. PICK image \in Images : image = req[p].sum
    BY Mine DEF Finalize, At, Knows
  <1> DEFINE r == [req[p] EXCEPT !.at = "record"]
  <1>3. /\ r \in Request /\ r.at = "record" /\ r.name = n /\ r.sum = image
        /\ r.about = req[p].about
    BY <1>1, <1>2, Mine DEF Request, Uploading
  <1>4. /\ At(p, "rename") /\ Knows(req[p]) /\ Goto(p, r)
        /\ files' = Put(files, n, image) /\ copying' = copying \ {n}
        /\ UNCHANGED <<rows, rowSeq, overlapped, unlisted>>
    BY <1>1, <1>2, Mine DEF Finalize, Store
  <1> HIDE DEF r
  <1>5. /\ req' \in [Procs -> Request] /\ req'[p] = r
        /\ \A q \in Procs \ {p} : req'[q] = req[q]
    BY <1>3, <1>4, GotoStep
  <1>6. /\ files' \in Partial(Names, Contents)
        /\ DOMAIN files' = DOMAIN files \cup {n} /\ files'[n] = image
        /\ \A m \in DOMAIN files \ {n} : files'[m] = files[m]
    <2>1. files \in Partial(Names, Contents) /\ image \in Contents
      BY StoreTypes
    <2> QED BY <1>4, <2>1, PutKeepsType
  <1>7. TouchesOnly(n) /\ StoreKeepsType
    BY <1>4, <1>6, StoreTypes DEF TouchesOnly, StoreKeepsType
  <1>8. n \notin overlapped => ~ Listed(n)
    BY <1>1, <1>4 DEF Knows, At
  <1>9. NameSound(n) /\ Busy(n)'
    BY <1>3, <1>5, NameByName DEF InvByName, Busy
  <1>10. NameSound(n)'
    BY <1>4, <1>6, <1>8, <1>9 DEF NameSound, Listed
  <1>11. Knows(req[p])'
    BY <1>3, <1>4, <1>5, <1>6, <1>8 DEF Knows, At, Uploading, Listed
  <1> QED BY <1>1, <1>3, <1>5, <1>7, <1>10, <1>11, Mover

LEMMA RecordStep ==
  ASSUME LibraryInv, NEW p \in Procs, Record(p)
  PROVE  LibraryInv'
  <1> USE Constants
  <1>1. PICK n \in Names : n = req[p].name
    BY Mine DEF Record, At
  <1>2. /\ At(p, "record") /\ Knows(req[p])
        /\ UNCHANGED <<files, copying, rows, rowSeq, overlapped, unlisted>>
    BY Mine DEF Record, Store, Dir
  <1>3. ASSUME NEW r \in Request, r.at = "insert", r.name = n, r.sum = req[p].sum,
               r.about = None \/ (n \in DOMAIN files /\ r.about = files[n]),
               Goto(p, r)
        PROVE  LibraryInv'
    <2>1. req'[p] = r
      BY <1>3, GotoStep
    <2>2. Knows(req[p])'
      BY <1>1, <1>2, <1>3, <2>1 DEF Knows, At, Uploading, Listed
    <2> QED BY <1>1, <1>2, <1>3, <2>2, StayingMover
  <1>4. ASSUME n \in DOMAIN files,
               Goto(p, [req[p] EXCEPT !.at = "insert", !.about = files[n]])
        PROVE  LibraryInv'
    <2> DEFINE r == [req[p] EXCEPT !.at = "insert", !.about = files[n]]
    <2>1. files[n] \in Contents
      BY <1>4, StoreTypes, PartialMembership
    <2>2. /\ r \in Request /\ r.at = "insert" /\ r.name = n /\ r.sum = req[p].sum
          /\ r.about = files[n]
      BY <1>1, <2>1, Mine DEF Request, Uploading
    <2>3. Goto(p, r)
      BY <1>4
    <2> HIDE DEF r
    <2> QED BY <1>3, <1>4, <2>2, <2>3
  <1>5. ASSUME Goto(p, [req[p] EXCEPT !.at = "insert"]) PROVE LibraryInv'
    <2> DEFINE r == [req[p] EXCEPT !.at = "insert"]
    <2>1. req[p].about = None
      BY <1>2 DEF Knows, At
    <2>2. /\ r \in Request /\ r.at = "insert" /\ r.name = n /\ r.sum = req[p].sum
          /\ r.about = None
      BY <1>1, <2>1, Mine DEF Request, Uploading
    <2>3. Goto(p, r)
      BY <1>5
    <2> HIDE DEF r
    <2> QED BY <1>3, <2>2, <2>3
  <1> QED BY <1>1, <1>4, <1>5 DEF Record

(* The next name of a scan. *)
LEMMA NextNameRequest ==
  ASSUME LibraryInv, NEW p \in Procs, NEW n \in Names
  PROVE  /\ NextName(p, n) \in Request /\ NextName(p, n).at = "scan"
         /\ NextName(p, n).name = None /\ NextName(p, n).about = None
  BY Mine DEF NextName, Idle, Request, Scanning

LEMMA InsertStep ==
  ASSUME LibraryInv, NEW p \in Procs, Insert(p)
  PROVE  LibraryInv'
  <1> USE Constants
  <1>1. PICK n \in Names : n = req[p].name
    BY Mine DEF Insert, At
  <1>2. PICK sum \in Contents : sum = req[p].sum
    BY <1>1, Mine DEF Insert, At, Knows
  <1>3. PICK about \in Contents \cup {None} : about = req[p].about
    BY Mine
  <1>4. /\ At(p, "insert") /\ Knows(req[p]) /\ UNCHANGED <<files, copying, overlapped>>
        /\ unlisted' = unlisted \ {n}
    BY <1>1, Mine DEF Insert, Dir
  <1>5. PICK r \in {NextName(p, n), Idle} : Goto(p, r)
    BY <1>1 DEF Insert
  <1>6. r \in Request /\ r.at \in {"idle", "scan"} /\ r.name = None /\ r.about = None
    BY <1>5, NextNameRequest, IdleRequest DEF Idle
  <1>7. /\ req' \in [Procs -> Request] /\ req'[p] = r
        /\ \A q \in Procs \ {p} : req'[q] = req[q]
    BY <1>5, <1>6, GotoStep
  <1>8. Knows(req[p])'
    BY <1>6, <1>7 DEF Knows, Uploading
  <1>9. NameSound(n)
    BY NameByName DEF InvByName
  <1>10. CASE Listed(n) /\ UNCHANGED Store
    <2>1. TouchesOnly(n) /\ StoreKeepsType
      BY <1>4, <1>10, StoreTypes DEF TouchesOnly, StoreKeepsType, Store
    <2>2. NameSound(n)'
      BY <1>4, <1>9, <1>10 DEF NameSound, Listed, Store
    <2> QED BY <1>1, <1>6, <1>7, <1>8, <2>1, <2>2, Mover
  <1>11. CASE /\ ~ Listed(n) /\ rowSeq < MaxRows /\ rowSeq' = rowSeq + 1
              /\ rows' = Put(rows, rowSeq', [name |-> n, sum |-> sum, about |-> about])
    <2>1. /\ rowSeq \in Nat /\ rowSeq' \in RowIds /\ rowSeq' \notin 1..rowSeq
          /\ rowSeq' \in 0..MaxRows /\ rowSeq <= rowSeq'
          /\ 1..rowSeq' = (1..rowSeq) \cup {rowSeq'} /\ rowSeq' \in Nat
      BY <1>11, StoreTypes DEF RowIds
    <2> DEFINE new == [name |-> n, sum |-> sum, about |-> about]
    <2>2. new \in Row /\ new.name = n /\ new.sum = sum /\ new.about = about
      BY DEF Row
    <2>3. rows' = Put(rows, rowSeq', new)
      BY <1>11
    <2> HIDE DEF new
    <2>4. /\ rows' \in Partial(RowIds, Row)
          /\ DOMAIN rows' = DOMAIN rows \cup {rowSeq'} /\ rows'[rowSeq'] = new
          /\ \A i \in DOMAIN rows \ {rowSeq'} : rows'[i] = rows[i]
      <3>1. rows \in Partial(RowIds, Row)
        BY StoreTypes
      <3>2. rowSeq' \in RowIds /\ new \in Row
        BY <2>1, <2>2
      <3>3. Put(rows, rowSeq', new) \in Partial(RowIds, Row)
        BY ONLY <3>1, <3>2, PutKeepsType
      <3> QED BY <2>3, <3>3 DEF Put
    <2>5. DOMAIN rows \subseteq 1..rowSeq
      BY StoreTypes
    <2>6. TouchesOnly(n)
      BY <1>4, <2>1, <2>2, <2>4, <2>5 DEF TouchesOnly
    <2>7. StoreKeepsType
      BY <1>4, <2>1, <2>4, <2>5, StoreTypes DEF StoreKeepsType
    <2>8. /\ n \notin overlapped => n \in DOMAIN files /\ files[n] = sum
          /\ n \notin overlapped => about \in {sum, None}
      BY <1>1, <1>2, <1>3, <1>4 DEF Knows, At
    <2>9. \A i \in DOMAIN rows' : rows'[i].name = n <=> i = rowSeq'
      BY <1>11, <2>1, <2>2, <2>4, <2>5 DEF Listed
    <2>10. NameSound(n)'
      <3>1. n \in copying => n \in overlapped
        BY <1>1, <1>9 DEF NameSound, Busy
      <3> QED BY <1>4, <1>9, <2>2, <2>4, <2>8, <2>9, <3>1 DEF NameSound, Listed
    <2> QED BY <1>1, <1>6, <1>7, <1>8, <2>6, <2>7, <2>10, Mover
  <1> QED BY <1>1, <1>2, <1>3, <1>10, <1>11 DEF Insert

-----------------------------------------------------------------------------
(* POST /isos/scan *)

(* Between two names of a scan nothing is known. *)
LEMMA ScanningMover ==
  ASSUME LibraryInv, NEW p \in Procs, req[p].name = None,
         NEW r \in Request, Goto(p, r), r.at \in {"idle", "scan"}, r.name = None, r.about = None,
         UNCHANGED <<files, copying, rows, rowSeq, overlapped>>,
         NEW n, n \in Names => Listed(n), unlisted' = unlisted \ {n}
  PROVE  LibraryInv'
  <1> USE Constants
  <1>1. /\ req' \in [Procs -> Request] /\ req'[p] = r
        /\ \A q \in Procs \ {p} : req'[q] = req[q]
    BY GotoStep
  <1>2. StoreKeepsType
    BY StoreTypes DEF StoreKeepsType
  <1>3. TypeOK'
    BY <1>1, <1>2 DEF StoreKeepsType, TypeOK
  <1>4. TouchesOnly(n)
    BY StoreTypes DEF TouchesOnly
  <1>5. n \in Names => NameSound(n)'
    <2>1. n \in Names => NameSound(n)
      BY NameByName DEF InvByName
    <2> QED BY <2>1 DEF NameSound, Listed
  <1>6. Knows(req[p])'
    BY <1>1 DEF Knows
  <1>7. \A q \in Procs : Knows(req[q])
    BY DEF LibraryInv
  <1>8. ASSUME NEW q \in Procs \ {p}, req[q].name = n, n \notin overlapped'
        PROVE  Knows(req[q])'
    <2>1. req'[q] = req[q] /\ Knows(req[q]) /\ n \in Names \cup {None}
      BY <1>1, <1>7, <1>8, Mine
    <2>2. CASE n = None
      BY <2>1, <2>2, <1>8 DEF Knows, Listed
    <2>3. CASE n \in Names
      <3>1. req[q].at = "drop"
        BY <2>1, <2>3, <1>8 DEF Knows
      <3> QED BY <2>1, <2>3, <3>1, <1>8 DEF Knows, Listed, Uploading
    <2> QED BY <2>1, <2>2, <2>3
  <1> DEFINE P == {p}
  <1>9. /\ P \in SUBSET Procs /\ \A x, y \in P : x = y
        /\ \A x \in P : {req[x].name, req'[x].name} \subseteq {n, None} /\ Knows(req[x])'
        /\ \A q \in Procs \ P :
             /\ req'[q] = req[q]
             /\ req[q].name = n =>
                  n \in overlapped' \/ (Knows(req[q])' /\ \A x \in P : req'[x].name = None)
    BY <1>1, <1>6, <1>8
  <1> HIDE DEF P
  <1>10. DOMAIN rows' \subseteq 1..rowSeq'
    BY <1>2 DEF StoreKeepsType
  <1> QED BY <1>3, <1>4, <1>5, <1>9, <1>10, Elsewhere

LEMMA BeginScanStep ==
  ASSUME LibraryInv, NEW p \in Procs, BeginScan(p)
  PROVE  LibraryInv'
  <1> USE Constants
  <1> DEFINE r == [Idle EXCEPT !.at = "scan", !.kind = "scan", !.todo = DOMAIN files]
  <1>1. r \in Request /\ r.at = "scan" /\ r.name = None /\ r.about = None
    BY StoreTypes DEF Idle, Request, Scanning
  <1>2. /\ At(p, "idle") /\ Goto(p, r)
        /\ UNCHANGED <<files, copying, rows, rowSeq, overlapped, unlisted>>
    BY DEF BeginScan, Store, Dir
  <1> HIDE DEF r
  <1>3. req[p].name = None
    BY <1>2, Mine DEF Knows, At
  <1>4. unlisted' = unlisted \ {None}
    BY <1>2, StoreTypes
  <1> QED BY <1>1, <1>2, <1>3, <1>4, ScanningMover

LEMMA EndScanStep ==
  ASSUME LibraryInv, NEW p \in Procs, EndScan(p)
  PROVE  LibraryInv'
  <1> USE Constants
  <1>1. /\ At(p, "scan") /\ Goto(p, Idle)
        /\ UNCHANGED <<files, copying, rows, rowSeq, overlapped, unlisted>>
    BY DEF EndScan, Store, Dir
  <1>2. req[p].name = None
    BY <1>1, Mine DEF Knows, At
  <1>3. unlisted' = unlisted \ {None}
    BY <1>1, StoreTypes
  <1> QED BY <1>1, <1>2, <1>3, IdleRequest, ScanningMover

LEMMA ScanRowStep ==
  ASSUME LibraryInv, NEW p \in Procs, NEW n \in Names, ScanRow(p, n)
  PROVE  LibraryInv'
  <1> USE Constants
  <1>1. /\ At(p, "scan") /\ UNCHANGED <<files, copying, rows, rowSeq>>
        /\ Knows(req[p]) /\ req[p] \in Request
    BY Mine DEF ScanRow, Store, Dir
  <1>2. req[p].name = None /\ req[p].about = None
    BY <1>1 DEF Knows, At
  <1>3. CASE Listed(n) /\ Goto(p, NextName(p, n)) /\ unlisted' = unlisted \ {n}
             /\ UNCHANGED overlapped
    BY <1>1, <1>2, <1>3, NextNameRequest, ScanningMover
  <1> DEFINE r == [req[p] EXCEPT !.at = "hash", !.name = n]
  <1>4. CASE ~ Listed(n) /\ Goto(p, r) /\ Overlap(n) /\ UNCHANGED unlisted
    <2>1. r \in Request /\ r.at = "hash" /\ r.name = n /\ r.about = None
      BY <1>1, <1>2 DEF Request, Scanning
    <2> HIDE DEF r
    <2>2. /\ req' \in [Procs -> Request] /\ req'[p] = r
          /\ \A q \in Procs \ {p} : req'[q] = req[q]
      BY <1>4, <2>1, GotoStep
    <2>3. /\ Busy(n) \/ n \in copying => n \in overlapped'
          /\ overlapped \subseteq overlapped' /\ overlapped' \subseteq overlapped \cup {n}
      BY <1>4 DEF Overlap
    <2>4. TouchesOnly(n) /\ StoreKeepsType
      BY <1>1, <1>4, <2>3, StoreTypes DEF TouchesOnly, StoreKeepsType
    <2>5. NameSound(n) /\ Busy(n)'
      BY <2>1, <2>2, NameByName DEF InvByName, Busy
    <2>6. NameSound(n)'
      BY <1>1, <1>4, <2>3, <2>5 DEF NameSound, Listed
    <2>7. n \notin overlapped' => n \notin DOMAIN files \ unlisted
      BY <1>4, <2>3, <2>5 DEF NameSound
    <2>8. Knows(req[p])'
      BY <1>1, <1>4, <2>1, <2>2, <2>7 DEF Knows, Uploading, Listed
    <2> QED BY <1>2, <2>1, <2>2, <2>3, <2>4, <2>6, <2>8, Mover
  <1> QED BY <1>3, <1>4 DEF ScanRow

LEMMA ScanHashStep ==
  ASSUME LibraryInv, NEW p \in Procs, ScanHash(p)
  PROVE  LibraryInv'
  <1> USE Constants
  <1>1. PICK n \in Names : n = req[p].name
    BY Mine DEF ScanHash, At
  <1>2. /\ At(p, "hash") /\ Knows(req[p]) /\ req[p] \in Request
        /\ UNCHANGED <<files, copying, rows, rowSeq, overlapped, unlisted>>
    BY Mine DEF ScanHash, Store, Dir
  <1>3. CASE n \in DOMAIN files /\ Goto(p, [req[p] EXCEPT !.at = "record", !.sum = files[n]])
    <2>1. PICK image \in Contents : image = files[n]
      BY <1>3, StoreTypes, PartialMembership
    <2> DEFINE r == [req[p] EXCEPT !.at = "record", !.sum = image]
    <2>2. /\ r \in Request /\ r.at = "record" /\ r.name = n /\ r.sum = image
          /\ r.about = req[p].about
      BY <1>1, <1>2 DEF Request, Uploading
    <2>3. Goto(p, r)
      BY <1>3, <2>1
    <2> HIDE DEF r
    <2>4. req'[p] = r
      BY <2>2, <2>3, GotoStep
    <2>5. Knows(req[p])'
      BY <1>1, <1>2, <1>3, <2>1, <2>2, <2>4 DEF Knows, At, Uploading, Listed
    <2> QED BY <1>1, <1>2, <2>2, <2>3, <2>5, StayingMover
  <1>4. CASE Goto(p, NextName(p, n))
    <2> DEFINE r == NextName(p, n)
    <2>1. r \in Request /\ r.at = "scan" /\ r.name = None /\ r.about = None
      BY NextNameRequest
    <2>2. Goto(p, r)
      BY <1>4
    <2> HIDE DEF r
    <2>3. req'[p] = r
      BY <2>1, <2>2, GotoStep
    <2>4. Knows(req[p])'
      BY <2>1, <2>3 DEF Knows
    <2>5. n \notin DOMAIN files \ (overlapped \cup unlisted)
      BY <1>1, <1>2 DEF Knows, At
    <2> QED BY <1>1, <1>2, <2>1, <2>2, <2>4, <2>5, StayingMover
  <1> QED BY <1>1, <1>3, <1>4 DEF ScanHash

-----------------------------------------------------------------------------
(* DELETE /isos/{id} *)

LEMMA BeginDeleteStep ==
  ASSUME LibraryInv, NEW p \in Procs, NEW id \in RowIds, BeginDelete(p, id)
  PROVE  LibraryInv'
  <1> USE Constants
  <1>1. id \in DOMAIN rows
    BY DEF BeginDelete
  <1>2. PICK n \in Names : n = rows[id].name
    BY <1>1, StoreTypes
  <1> DEFINE r == [Idle EXCEPT !.at = "drop", !.kind = "delete", !.name = n, !.id = id]
  <1>3. r \in Request /\ r.at = "drop" /\ r.name = n /\ r.id = id /\ r.about = None
    BY DEF Idle, Request, Deleting
  <1>4. /\ At(p, "idle") /\ Goto(p, r) /\ Overlap(n)
        /\ UNCHANGED <<files, copying, rows, rowSeq, unlisted>>
    BY <1>2 DEF BeginDelete, Store, Dir
  <1> HIDE DEF r
  <1>5. /\ req' \in [Procs -> Request] /\ req'[p] = r
        /\ \A q \in Procs \ {p} : req'[q] = req[q]
    BY <1>3, <1>4, GotoStep
  <1>6. /\ req[p].name = None /\ (Busy(n) => n \in overlapped')
        /\ overlapped \subseteq overlapped' /\ overlapped' \subseteq overlapped \cup {n}
    BY <1>4, Mine DEF At, Knows, Overlap
  <1>7. TouchesOnly(n) /\ StoreKeepsType
    BY <1>4, <1>6, StoreTypes DEF TouchesOnly, StoreKeepsType
  <1>8. NameSound(n) /\ Busy(n)'
    BY <1>3, <1>5, NameByName DEF InvByName, Busy
  <1>9. NameSound(n)'
    <2>1. n \in copying => n \in overlapped
      BY <1>1, <1>2, <1>8 DEF NameSound, Listed
    <2> QED BY <1>4, <1>6, <1>8, <2>1 DEF NameSound
  <1>10. id \in 1..rowSeq
    BY <1>1, StoreTypes
  <1>11. Knows(req[p])'
    BY <1>1, <1>2, <1>3, <1>4, <1>5, <1>10 DEF Knows, Uploading
  <1> QED BY <1>3, <1>5, <1>6, <1>7, <1>9, <1>11, Mover

LEMMA DropRowStep ==
  ASSUME LibraryInv, NEW p \in Procs, DropRow(p)
  PROVE  LibraryInv'
  <1> USE Constants
  <1>1. PICK n \in Names : n = req[p].name
    BY Mine DEF DropRow, At
  <1>2. PICK id : id = req[p].id
    OBVIOUS
  <1>3. /\ At(p, "drop") /\ Knows(req[p]) /\ req[p] \in Request
        /\ UNCHANGED <<files, copying, rowSeq, overlapped, unlisted>>
    BY Mine DEF DropRow, Dir
  <1>4. CASE id \notin DOMAIN rows
    <2>1. Goto(p, Idle) /\ rows' = rows
      BY <1>2, <1>4 DEF DropRow
    <2>2. req'[p] = Idle
      BY <2>1, IdleRequest, GotoStep
    <2>3. Knows(req[p])'
      BY <2>2, IdleRequest DEF Knows
    <2>4. n \in overlapped
      BY <1>1, <1>2, <1>3, <1>4 DEF Knows, At
    <2> QED BY <1>1, <1>3, <2>1, <2>3, <2>4, IdleRequest, StayingMover
  <1>5. CASE id \in DOMAIN rows
    <2> DEFINE r == [req[p] EXCEPT !.at = "unlink"]
    <2>1. r \in Request /\ r.at = "unlink" /\ r.name = n /\ r.about = req[p].about
      BY <1>1, <1>3 DEF Request, Deleting
    <2>2. Goto(p, r) /\ rows' = Drop(rows, {id})
      BY <1>2, <1>5 DEF DropRow
    <2> HIDE DEF r
    <2>3. /\ req' \in [Procs -> Request] /\ req'[p] = r
          /\ \A q \in Procs \ {p} : req'[q] = req[q]
      BY <2>1, <2>2, GotoStep
    <2>4. /\ rows' \in Partial(RowIds, Row) /\ DOMAIN rows' = DOMAIN rows \ {id}
          /\ \A i \in DOMAIN rows \ {id} : rows'[i] = rows[i]
      <3>1. rows \in Partial(RowIds, Row)
        BY StoreTypes
      <3>2. rows' \in Partial(RowIds, Row)
        BY <2>2, <3>1, DropKeepsType
      <3> QED BY <2>2, <3>2 DEF Drop
    <2>5. rows[id].name = n
      BY <1>1, <1>2, <1>3, <1>5 DEF Knows, At
    <2>6. DOMAIN rows \subseteq 1..rowSeq /\ rowSeq \in 0..MaxRows
      BY StoreTypes
    <2>7. TouchesOnly(n)
      BY <1>3, <2>4, <2>5, <2>6 DEF TouchesOnly
    <2>8. StoreKeepsType
      BY <1>3, <2>4, <2>6, StoreTypes DEF StoreKeepsType
    <2>9. NameSound(n) /\ Busy(n)'
      BY <2>1, <2>3, NameByName DEF InvByName, Busy
    <2>10. ~ Listed(n)'
      BY <1>5, <2>4, <2>5, <2>9 DEF NameSound, Listed
    <2>11. NameSound(n)'
      <3>1. n \in copying => n \in overlapped
        BY <1>1, <2>9 DEF NameSound, Busy
      <3> QED BY <1>3, <2>9, <2>10, <3>1 DEF NameSound, Listed
    <2>12. Knows(req[p])'
      BY <1>3, <2>1, <2>3, <2>10 DEF Knows, At, Uploading
    <2> QED BY <1>1, <2>1, <2>3, <2>7, <2>8, <2>11, <2>12, Mover
  <1> QED BY <1>4, <1>5

LEMMA UnlinkStep ==
  ASSUME LibraryInv, NEW p \in Procs, Unlink(p)
  PROVE  LibraryInv'
  <1> USE Constants
  <1>1. PICK n \in Names : n = req[p].name
    BY Mine DEF Unlink, At
  <1>2. /\ At(p, "unlink") /\ Knows(req[p]) /\ Goto(p, Idle)
        /\ UNCHANGED <<rows, rowSeq, overlapped>>
    BY Mine DEF Unlink, Store
  <1>3. /\ req' \in [Procs -> Request] /\ req'[p] = Idle
        /\ \A q \in Procs \ {p} : req'[q] = req[q]
    BY <1>2, IdleRequest, GotoStep
  <1>4. Knows(req[p])'
    BY <1>3, IdleRequest DEF Knows
  <1>5. n \notin overlapped => ~ Listed(n)
    BY <1>1, <1>2 DEF Knows, At
  <1>6. NameSound(n)
    BY NameByName DEF InvByName
  <1>7. CASE files' = Drop(files, {n}) /\ copying' = copying \ {n} /\ UNCHANGED unlisted
    <2>1. /\ files' \in Partial(Names, Contents) /\ DOMAIN files' = DOMAIN files \ {n}
          /\ \A m \in DOMAIN files \ {n} : files'[m] = files[m]
      <3>1. files \in Partial(Names, Contents)
        BY StoreTypes
      <3>2. files' \in Partial(Names, Contents)
        BY <1>7, <3>1, DropKeepsType
      <3> QED BY <1>7, <3>2 DEF Drop
    <2>2. TouchesOnly(n) /\ StoreKeepsType
      <3>1. copying' \subseteq DOMAIN files'
        BY <1>7, <2>1, StoreTypes
      <3>2. rowSeq <= rowSeq' /\ DOMAIN rows \subseteq 1..rowSeq
        BY <1>2, StoreTypes
      <3>3. TouchesOnly(n)
        <4>1. \A m \in Names \ {n} :
                /\ m \in DOMAIN files' <=> m \in DOMAIN files
                /\ m \in DOMAIN files => files'[m] = files[m]
                /\ m \in copying' <=> m \in copying
                /\ m \in unlisted' <=> m \in unlisted
          BY <1>7, <2>1
        <4> QED BY <1>2, <3>2, <4>1 DEF TouchesOnly
      <3> QED BY <1>2, <1>7, <2>1, <3>1, <3>3, StoreTypes DEF StoreKeepsType
    <2>3. NameSound(n)'
      BY <1>2, <1>5, <1>6, <1>7, <2>1 DEF NameSound, Listed
    <2> QED BY <1>1, <1>3, <1>4, <2>2, <2>3, IdleRequest, Mover
  <1>8. CASE unlisted' = unlisted \cup {n} /\ UNCHANGED <<files, copying>>
    <2>1. TouchesOnly(n) /\ StoreKeepsType
      BY <1>2, <1>8, StoreTypes DEF TouchesOnly, StoreKeepsType
    <2>2. NameSound(n)'
      <3>1. n \in copying => n \in overlapped
        BY <1>1, <1>6 DEF NameSound, Busy
      <3> QED BY <1>2, <1>6, <1>8, <3>1 DEF NameSound, Listed
    <2> QED BY <1>1, <1>3, <1>4, <2>1, <2>2, IdleRequest, Mover
  <1> QED BY <1>1, <1>7, <1>8 DEF Unlink, Dir

-----------------------------------------------------------------------------
(* Steps of no request *)

(* A copy from outside, beginning or done: a name of its own, or one that  *)
(* is already overlapped.                                                  *)
LEMMA CopyStep ==
  ASSUME LibraryInv, NEW n \in Names, NEW content \in Contents, files' = Put(files, n, content),
         copying' = IF content = Half THEN copying \cup {n} ELSE copying \ {n},
         \/ n \notin DOMAIN files /\ unlisted' = unlisted \cup {n}
         \/ n \in copying /\ unlisted' = unlisted,
         overlapped \subseteq overlapped', overlapped' \subseteq overlapped \cup {n},
         Busy(n) => n \in overlapped', UNCHANGED <<rows, rowSeq, req>>
  PROVE  LibraryInv'
  <1> USE Constants
  <1>1. /\ files' \in Partial(Names, Contents)
        /\ DOMAIN files' = DOMAIN files \cup {n} /\ files'[n] = content
        /\ \A m \in DOMAIN files \ {n} : files'[m] = files[m]
    <2>1. files \in Partial(Names, Contents)
      BY StoreTypes
    <2>2. files' \in Partial(Names, Contents)
      BY <2>1, PutKeepsType
    <2> QED BY <2>2 DEF Put
  <1>2. TouchesOnly(n) /\ StoreKeepsType
    BY <1>1, StoreTypes DEF TouchesOnly, StoreKeepsType
  <1>3. NameSound(n)
    BY NameByName DEF InvByName
  <1>4. Listed(n) => n \in overlapped
    BY <1>3 DEF NameSound, Listed
  <1>5. (Busy(n)' <=> Busy(n)) /\ (Listed(n)' <=> Listed(n))
    BY DEF Busy, Listed
  <1>6. \A i \in DOMAIN rows : rows[i].name = n => Listed(n)
    BY DEF Listed
  <1>7. NameSound(n)'
    <2>1. n \in DOMAIN files' \ copying' => files'[n] # Half
      BY <1>1
    <2>2. n \in copying' /\ (Busy(n) \/ Listed(n)) => n \in overlapped'
      BY <1>4
    <2>3. n \in DOMAIN files' \ (overlapped' \cup unlisted') => Busy(n) \/ Listed(n)
      BY <1>3, StoreTypes DEF NameSound
    <2> QED BY <1>3, <1>4, <1>5, <1>6, <2>1, <2>2, <2>3 DEF NameSound
  <1>8. TypeOK'
    BY <1>2 DEF StoreKeepsType, LibraryInv, TypeOK
  <1> DEFINE P == {}
  <1>9. /\ P \in SUBSET Procs /\ \A x, y \in P : x = y
        /\ \A x \in P : {req[x].name, req'[x].name} \subseteq {n, None} /\ Knows(req[x])'
        /\ \A q \in Procs \ P : req'[q] = req[q] /\ (req[q].name = n => n \in overlapped')
    BY DEF Busy
  <1> HIDE DEF P
  <1>10. DOMAIN rows' \subseteq 1..rowSeq'
    BY <1>2 DEF StoreKeepsType
  <1>11. TouchesOnly(n) /\ (n \in Names => NameSound(n)')
    BY <1>2, <1>7
  <1>12. /\ P \in SUBSET Procs /\ \A x, y \in P : x = y
         /\ \A x \in P : {req[x].name, req'[x].name} \subseteq {n, None} /\ Knows(req[x])'
         /\ \A q \in Procs \ P :
              /\ req'[q] = req[q]
              /\ req[q].name = n =>
                   n \in overlapped' \/ (Knows(req[q])' /\ \A x \in P : req'[x].name = None)
    BY <1>9
  <1> QED BY <1>8, <1>10, <1>11, <1>12, Elsewhere

LEMMA CopyStartsStep ==
  ASSUME LibraryInv, NEW n \in Names, CopyStarts(n)
  PROVE  LibraryInv'
  <1>1. Half \in Contents
    BY Constants
  <1> QED BY <1>1, CopyStep DEF CopyStarts, Overlap, Store

LEMMA CopyEndsStep ==
  ASSUME LibraryInv, NEW n \in Names, NEW image \in Images, CopyEnds(n, image)
  PROVE  LibraryInv'
  <1>1. image \in Contents /\ image # Half
    BY Constants
  <1>2. Busy(n) => n \in overlapped
    BY DEF LibraryInv, Copied, CopyEnds
  <1> QED BY <1>1, <1>2, CopyStep DEF CopyEnds, Store

LEMMA RestartStep ==
  ASSUME LibraryInv, Restart
  PROVE  LibraryInv'
  <1> USE Constants
  <1>1. /\ req' = [p \in Procs |-> Idle] /\ UNCHANGED <<files, copying, rows, rowSeq, overlapped>>
        /\ unlisted' = unlisted \cup {n \in Names : Busy(n)}
    BY DEF Restart, Store, Dir
  <1>2. TypeOK'
    BY <1>1, IdleRequest DEF LibraryInv, TypeOK
  <1>3. \A p \in Procs : Knows(req[p])'
    BY <1>1, IdleRequest DEF Knows
  <1>4. OneAtWork'
    BY <1>1, IdleRequest DEF OneAtWork
  <1>5. ASSUME NEW n \in Names PROVE NameSound(n)'
    <2>1. NameSound(n)
      BY NameByName DEF InvByName
    <2>2. ~ Busy(n)'
      BY <1>1, IdleRequest DEF Busy
    <2> QED BY <1>1, <2>1, <2>2 DEF NameSound, Listed
  <1>6. InvByName'
    BY <1>1, <1>2, <1>3, <1>4, <1>5 DEF InvByName, LibraryInv
  <1> QED BY <1>6, NameByName, PTL

-----------------------------------------------------------------------------
LEMMA InitSound == Init => LibraryInv
  <1> USE Constants
  <1> SUFFICES ASSUME Init PROVE LibraryInv
    OBVIOUS
  <1>1. /\ files \in Partial(Names, Images) /\ rowSeq = 0 /\ req = [p \in Procs |-> Idle]
        /\ rows = [i \in {} |-> 0] /\ overlapped = {} /\ unlisted = DOMAIN files /\ copying = {}
    BY DEF Init
  <1>2. /\ files = [n \in DOMAIN files |-> files[n]] /\ DOMAIN files \subseteq Names
        /\ \A n \in DOMAIN files : files[n] \in Images
    BY <1>1, PartialMembership
  <1>3. files \in Partial(Names, Contents)
    BY <1>2, PartialMembership
  <1>4. DOMAIN rows = {} /\ rows = [i \in DOMAIN rows |-> rows[i]]
    BY <1>1
  <1>5. rows \in Partial(RowIds, Row)
    BY <1>4, PartialMembership
  <1>6. TypeOK
    BY <1>1, <1>2, <1>3, <1>5, IdleRequest DEF TypeOK
  <1>7. OneAtWork /\ \A p \in Procs : Knows(req[p])
    BY <1>1, IdleRequest DEF OneAtWork, Knows
  <1>8. \A n \in Names : NameSound(n)
    BY <1>1, <1>2, <1>4 DEF NameSound
  <1>9. InvByName
    BY <1>4, <1>6, <1>7, <1>8 DEF InvByName
  <1> QED BY <1>9, NameByName

LEMMA StepSound == LibraryInv /\ [Next]_vars => LibraryInv'
  <1> SUFFICES ASSUME LibraryInv, [Next]_vars PROVE LibraryInv'
    OBVIOUS
  <1>1. ASSUME NEW p \in Procs, NEW name \in Names, BeginUpload(p, name) \/ ScanRow(p, name)
        PROVE  LibraryInv'
    BY <1>1, BeginUploadStep, ScanRowStep
  <1>2. ASSUME NEW p \in Procs, UploadRow(p) \/ Finalize(p) \/ Record(p) \/ Insert(p)
        PROVE  LibraryInv'
    BY <1>2, UploadRowStep, FinalizeStep, RecordStep, InsertStep
  <1>3. ASSUME NEW p \in Procs, NEW image \in Images, Receive(p, image) PROVE LibraryInv'
    BY <1>3, ReceiveStep
  <1>4. ASSUME NEW p \in Procs, BeginScan(p) \/ ScanHash(p) \/ EndScan(p) PROVE LibraryInv'
    BY <1>4, BeginScanStep, ScanHashStep, EndScanStep
  <1>5. ASSUME NEW p \in Procs, NEW id \in RowIds, BeginDelete(p, id) PROVE LibraryInv'
    BY <1>5, BeginDeleteStep
  <1>6. ASSUME NEW p \in Procs, DropRow(p) \/ Unlink(p) PROVE LibraryInv'
    BY <1>6, DropRowStep, UnlinkStep
  <1>7. ASSUME NEW name \in Names,
               CopyStarts(name) \/ \E image \in Images : CopyEnds(name, image)
        PROVE  LibraryInv'
    BY <1>7, CopyStartsStep, CopyEndsStep
  <1>8. ASSUME Restart PROVE LibraryInv'
    BY <1>8, RestartStep
  <1>9. ASSUME UNCHANGED vars PROVE LibraryInv'
    BY <1>9 DEF vars, LibraryInv, TypeOK, NamesUnique, OneAtWork, Copied, Knows, FilesWhole,
                SumsMatch, RowsHaveFiles, FilesListed, Listed, Busy
  <1> QED BY <1>1, <1>2, <1>3, <1>4, <1>5, <1>6, <1>7, <1>8, <1>9 DEF Next

(* The invariant of the library: while nothing else has touched its name,  *)
(* what a request found out about the file and the row still holds, at     *)
(* every step of Import, ScanDir and Delete, across restarts.              *)
THEOREM LibraryInductive == Spec => []LibraryInv
  BY InitSound, StepSound, PTL DEF Spec

(* Only what somebody is still copying in is ever half an image (Import    *)
(* writes to a temporary file and renames it), however requests overlap.   *)
THEOREM FilesAlwaysWhole == Spec => []FilesWhole
  <1>1. LibraryInv => FilesWhole
    BY DEF LibraryInv
  <1> QED BY <1>1, LibraryInductive, PTL

(* The checksum and the analysis on record are those of the file, for a    *)
(* name that no two requests worked on at once.                            *)
THEOREM SumsAlwaysMatch == Spec => []SumsMatch
  <1>1. LibraryInv => SumsMatch
    BY DEF LibraryInv
  <1> QED BY <1>1, LibraryInductive, PTL

(* A row has its file: the upload inserts it last, Delete drops it first.  *)
THEOREM RowsAlwaysHaveFiles == Spec => []RowsHaveFiles
  <1>1. LibraryInv => RowsHaveFiles
    BY DEF LibraryInv
  <1> QED BY <1>1, LibraryInductive, PTL

(* A file without a row is being worked on, or was copied in, interrupted  *)
(* or kept by a failed removal since the last scan.                        *)
THEOREM FilesAlwaysListed == Spec => []FilesListed
  <1>1. LibraryInv => FilesListed
    BY DEF LibraryInv
  <1> QED BY <1>1, LibraryInductive, PTL
=============================================================================
