------------------------- MODULE InstallQueueProofs -------------------------
(***************************************************************************)
(* QueueInv is inductive, for any number of overlapping requests, hosts,   *)
(* profiles, versions and installations.                                   *)
(*                                                                         *)
(* The argument: a step of one request changes the tables by at most one   *)
(* store method, for which ProvisioningStoreProofs shows StoreInv' and     *)
(* Evolves; what any other request holds survives Evolves (Undisturbed);   *)
(* so per action only the moving request's own locals are left (Moves).    *)
(*                                                                         *)
(* HistoryInv adds, over the history variables, what the code promises of  *)
(* the active installation of a host and of its status: a request whose    *)
(* rows nobody has changed still knows them (Unchanged), so what it writes *)
(* keeps the two in step; any other request leaves its host in muddled.    *)
(***************************************************************************)
EXTENDS QueueHistory, ProvisioningStoreProofs

(* A request that was not served in a step still holds sound locals.       *)
LEMMA Undisturbed ==
  ASSUME StoreInv, StoreInv', Evolves, req \in [Procs -> Request],
         NEW p \in Procs, LocalInv(p), req'[p] = req[p]
  PROVE  LocalInv(p)'
  <1> DEFINE r == req[p]
  <1>1. /\ r.inst \in InstallId \cup {None}
        /\ r.row \in HostRow
    BY DEF Request
  <1>2. r.row.profile \in Nat /\ r.inst \in Nat
    BY <1>1, Bounds DEF HostRow, ProfileId, InstallId, None
  <1>3. /\ seq.profile \in Nat /\ seq.install \in Nat
        /\ seq'.profile \in Nat /\ seq'.install \in Nat
        /\ seq.profile <= seq'.profile /\ seq.install <= seq'.install
    BY Bounds DEF Evolves, StoreInv, TablesTypeOK
  <1>4. r.row.profile < seq'.profile /\ r.inst < seq'.install
    BY <1>2, <1>3 DEF LocalInv
  <1>5. r.row.profile \in DOMAIN profiles' => <<r.row.profile, r.row.pin>> \in DOMAIN versions'
    <2>1. SUFFICES ASSUME r.row.profile \in DOMAIN profiles'
                   PROVE  <<r.row.profile, r.row.pin>> \in DOMAIN versions'
      OBVIOUS
    <2>2. r.row.profile \in DOMAIN profiles
      BY <2>1 DEF Evolves, LocalInv
    <2>3. <<r.row.profile, r.row.pin>> \in DOMAIN versions
      BY <2>2 DEF LocalInv, PinHolds
    <2> QED BY <2>1, <2>3 DEF Evolves
  <1>6. NotWaiting(r.inst) => NotWaiting(r.inst)'
    <2>1. SUFFICES ASSUME NotWaiting(r.inst), r.inst \in DOMAIN installs'
                   PROVE  installs'[r.inst].status # "waiting"
      BY DEF NotWaiting
    <2>2. r.inst \in DOMAIN installs
      BY <2>1 DEF Evolves, LocalInv
    <2> QED BY <2>1, <2>2 DEF Evolves, NotWaiting
  <1> QED BY <1>4, <1>5, <1>6 DEF LocalInv, PinHolds, NotWaiting, At

(* Idle locals are sound in any database. *)
LEMMA IdleSound ==
  ASSUME StoreInv', NEW p \in Procs, req'[p] = Idle
  PROVE  LocalInv(p)'
  <1>1. seq'.profile \in Nat \ {0} /\ seq'.install \in Nat \ {0}
    BY Bounds DEF StoreInv, TablesTypeOK
  <1>2. None \notin DOMAIN profiles'
    <2>1. profiles' \in Table(ProfileId, ProfileRow) BY DEF StoreInv, TablesTypeOK
    <2>2. DOMAIN profiles' \subseteq ProfileId BY <2>1, TableMembership
    <2> QED BY <2>2 DEF ProfileId, None
  <1>3. /\ req'[p].at = "idle" /\ req'[p].row.profile = None /\ req'[p].inst = None
    BY DEF Idle, BlankRow
  <1> QED BY <1>1, <1>2, <1>3 DEF LocalInv, PinHolds, At, None

(* A step issues no token but that of the request's installation, and that *)
(* only when it is known to be started or noted as not being marked.       *)
IssuesStarted(p) ==
  /\ \A i \in issued' \ issued : i = req[p].inst /\ i \in InstallId
  /\ \A i \in issued' \ unmarked' : NotWaiting(i) \/ NotWaiting(i)'
  /\ unmarked' \in SUBSET InstallId

(* Nothing is served in this step. *)
LEMMA ServesNothing ==
  ASSUME QueueInv, NEW p \in Procs, UNCHANGED served
  PROVE  IssuesStarted(p)
  BY DEF IssuesStarted, QueueInv, ServedIsStarted, served

(* What one action has to show: a sound store step, sound locals of the    *)
(* request it serves, and that it issues only started installations.       *)
LEMMA Moves ==
  ASSUME QueueInv, StoreInv', Evolves, NEW p \in Procs, NEW r \in Request,
         Goto(p, r), LocalInv(p)',
         IssuesStarted(p)
  PROVE  QueueInv'
  <1> USE DEF QueueInv
  <1>1. req' \in [Procs -> Request] /\ \A q \in Procs \ {p} : req'[q] = req[q]
    BY DEF Goto
  <1>2. \A q \in Procs : LocalInv(q)'
    BY <1>1, Undisturbed
  <1>3. \A i \in issued' : i \in InstallId /\ i < seq.install
    BY DEF LocalInv, IssuesStarted, served
  <1>4. \A i \in issued' : i < seq'.install
    <2>1. /\ seq.install \in Nat /\ seq'.install \in Nat /\ seq.install <= seq'.install
          /\ InstallId \subseteq Nat
      BY Bounds DEF Evolves, StoreInv, TablesTypeOK, InstallId
    <2> SUFFICES ASSUME NEW i \in issued' PROVE i < seq'.install
      OBVIOUS
    <2>2. i \in Nat /\ i < seq.install
      BY <2>1, <1>3
    <2> QED BY <2>1, <2>2
  <1>5. \A i \in issued' \ unmarked' : NotWaiting(i)'
    BY <1>3 DEF NotWaiting, Evolves, IssuesStarted
  <1>6. served' \in (SUBSET InstallId) \X (SUBSET InstallId)
    <2>1. issued' \in SUBSET InstallId /\ unmarked' \in SUBSET InstallId
      BY <1>3 DEF IssuesStarted
    <2> QED BY <2>1 DEF served
  <1> QED BY <1>1, <1>2, <1>4, <1>5, <1>6 DEF ServedIsStarted

(* The same for a step that serves its request at once. *)
LEMMA AtOnce ==
  ASSUME QueueInv, StoreInv', Evolves, UNCHANGED <<req, served>>
  PROVE  QueueInv'
  <1> USE DEF QueueInv
  <1>1. \A q \in Procs : LocalInv(q)'
    BY Undisturbed
  <1>2. \A i \in issued' : i < seq'.install
    <2>1. /\ seq.install \in Nat /\ seq'.install \in Nat /\ seq.install <= seq'.install
          /\ InstallId \subseteq Nat
      BY Bounds DEF Evolves, StoreInv, TablesTypeOK, InstallId
    <2>2. issued' = issued /\ issued \subseteq InstallId
      BY DEF served
    <2>3. SUFFICES ASSUME NEW i \in issued PROVE i < seq'.install
      BY <2>2
    <2>4. i \in Nat /\ i < seq.install
      BY <2>1, <2>2
    <2> QED BY <2>1, <2>4
  <1>3. \A i \in issued' \ unmarked' : NotWaiting(i)'
    <2>1. issued' = issued /\ unmarked' = unmarked
      BY DEF served
    <2>2. SUFFICES ASSUME NEW i \in issued \ unmarked PROVE NotWaiting(i)'
      BY <2>1
    <2>3. NotWaiting(i) /\ i < seq.install
      BY DEF ServedIsStarted
    <2> QED BY <2>3 DEF NotWaiting, Evolves
  <1> QED BY <1>1, <1>2, <1>3 DEF ServedIsStarted

(* The same for a request that ends in this step. *)
LEMMA Ends ==
  ASSUME QueueInv, StoreInv', Evolves, NEW p \in Procs, Finish(p),
         IssuesStarted(p)
  PROVE  QueueInv'
  <1>1. Idle \in Request
    BY BoundsAssumption DEF Idle, BlankRow, Request, HostRow, Labels, HostStatus,
       InstallStatus, FinalStatus, None
  <1>2. req'[p] = Idle
    BY <1>1 DEF QueueInv, Finish, Goto
  <1>3. LocalInv(p)'
    BY <1>2, IdleSound
  <1> QED BY <1>1, <1>3, Moves DEF Finish

LEMMA IdleTyped == Idle \in Request
  BY BoundsAssumption DEF Idle, BlankRow, Request, HostRow, Labels, HostStatus,
     InstallStatus, FinalStatus, None

(* A request that has looked up its target. *)
LEMMA IdleStarts ==
  ASSUME NEW l \in Labels, NEW h \in HostId,
         NEW t1 \in ProfileId \cup {None}, NEW t2 \in VersionNo \cup {None}
  PROVE  [Idle EXCEPT !.at = l, !.host = h, !.target = <<t1, t2>>] \in Request
  BY IdleTyped DEF Request

(* A step that only reads and goes on to another label with locals r.      *)
LEMMA Reads ==
  ASSUME QueueInv, NEW p \in Procs, NEW r \in Request, Goto(p, r),
         UNCHANGED <<tables, served>>,
         PinHolds(r.row), r.row.profile < seq.profile, r.inst < seq.install,
         r.at \in {"bootContext", "bootStart", "bootHost"} => r.inst \in InstallId,
         r.at # "bootHost",
         r.at = "bootContext" /\ r.seen # "waiting" => NotWaiting(r.inst)
  PROVE  QueueInv' /\ Evolves
  <1>1. StoreInv' /\ Evolves
    BY NoRowStep DEF QueueInv
  <1>2. req'[p] = r
    BY DEF QueueInv, Goto
  <1>3. UNCHANGED <<profiles, versions, hosts, installs, seq>>
    BY DEF tables
  <1>4. LocalInv(p)'
    BY <1>2, <1>3 DEF LocalInv, PinHolds, NotWaiting, At
  <1>5. IssuesStarted(p)
    BY <1>3, ServesNothing
  <1> QED BY <1>1, <1>4, <1>5, Moves

(* A step that reads and ends. *)
LEMMA ReadsAndEnds ==
  ASSUME QueueInv, NEW p \in Procs, Finish(p), UNCHANGED <<tables, served>>
  PROVE  QueueInv' /\ Evolves
  <1>1. StoreInv' /\ Evolves
    BY NoRowStep DEF QueueInv
  <1> QED BY <1>1, ServesNothing, Ends

-----------------------------------------------------------------------------
(* Creating installations *)

LEMMA NoProfileIsFresh ==
  ASSUME StoreInv
  PROVE  /\ None \notin DOMAIN profiles
         /\ None < seq.profile
         /\ None < seq.install
  BY Rows, Bounds DEF StoreInv, TablesTypeOK, None, ProfileId

LEMMA BeginCreateStep ==
  ASSUME QueueInv, NEW p \in Procs, NEW h \in HostId, NEW override \in ProfileId \cup {None},
         BeginCreate(p, h, override)
  PROVE  QueueInv' /\ Evolves
  <1> DEFINE wanted == IF override # None THEN override ELSE hosts[h].profile
             r == [Idle EXCEPT !.at = "createProfile", !.host = h,
                     !.target = <<wanted, IF override # None THEN None ELSE hosts[h].pin>>]
  <1>1. hosts[h] \in HostRow
    BY Rows DEF BeginCreate, QueueInv, StoreInv
  <1>2. /\ r \in Request
        /\ r.at = "createProfile" /\ r.row = BlankRow /\ r.inst = None
    <2>1. /\ wanted \in ProfileId \cup {None}
          /\ (IF override # None THEN None ELSE hosts[h].pin) \in VersionNo \cup {None}
      BY <1>1 DEF HostRow
    <2>2. r \in Request
      <3>1. "createProfile" \in Labels
        BY DEF Labels
      <3> QED BY <2>1, <3>1, IdleStarts
    <2>3. r.at = "createProfile" /\ r.row = BlankRow /\ r.inst = None
      BY DEF Idle
    <2> QED BY <2>2, <2>3
  <1>3. Goto(p, r) /\ UNCHANGED <<tables, served>>
    BY DEF BeginCreate
  <1>4. BlankRow.profile = None
    BY DEF BlankRow
  <1> HIDE DEF r
  <1> QED BY <1>2, <1>3, <1>4, NoProfileIsFresh, Reads DEF QueueInv, PinHolds

LEMMA CreateReadProfileStep ==
  ASSUME QueueInv, NEW p \in Procs, CreateReadProfile(p)
  PROVE  QueueInv' /\ Evolves
  <1> DEFINE profile == req[p].target[1]
             r == [req[p] EXCEPT !.at = "createActive",
                     !.target = <<profile, IF @[2] = None THEN profiles[profile].current ELSE @[2]>>]
  <1>1. UNCHANGED <<tables, served>> /\ req[p] \in Request
    BY DEF CreateReadProfile, QueueInv
  <1>2. CASE profile \in DOMAIN profiles /\ Goto(p, r)
    <2>1. profiles[profile] \in ProfileRow /\ profile \in ProfileId
      BY <1>2, Rows DEF QueueInv, StoreInv
    <2>2. /\ r \in Request
          /\ r.at = "createActive" /\ r.row = req[p].row /\ r.inst = req[p].inst
      BY <1>1, <2>1 DEF Request, ProfileRow, Labels
    <2> HIDE DEF r
    <2> QED BY <1>1, <1>2, <2>2, Reads DEF QueueInv, LocalInv
  <1>3. CASE Finish(p)
    BY <1>1, <1>3, ReadsAndEnds
  <1> QED BY <1>2, <1>3 DEF CreateReadProfile

LEMMA CreateCheckActiveStep ==
  ASSUME QueueInv, NEW p \in Procs, CreateCheckActive(p)
  PROVE  QueueInv' /\ Evolves
  <1> DEFINE r == [req[p] EXCEPT !.at = "createInsert"]
  <1>1. UNCHANGED <<tables, served>> /\ req[p] \in Request
    BY DEF CreateCheckActive, QueueInv
  <1>2. CASE Goto(p, r)
    <2>1. /\ r \in Request
          /\ r.at = "createInsert" /\ r.row = req[p].row /\ r.inst = req[p].inst
      BY <1>1 DEF Request, Labels
    <2> HIDE DEF r
    <2> QED BY <1>1, <1>2, <2>1, Reads DEF QueueInv, LocalInv
  <1>3. CASE Finish(p)
    BY <1>1, <1>3, ReadsAndEnds
  <1> QED BY <1>2, <1>3 DEF CreateCheckActive

LEMMA CreateInsertStep ==
  ASSUME QueueInv, NEW p \in Procs, CreateInsert(p)
  PROVE  QueueInv' /\ Evolves
  <1>1. Finish(p) /\ IssuesStarted(p)
    BY ServesNothing DEF CreateInsert
  <1>2. StoreInv' /\ Evolves
    BY CreateInstallationStep, NoRowStep DEF CreateInsert, QueueInv
  <1> QED BY <1>1, <1>2, Ends

LEMMA CancelStep ==
  ASSUME QueueInv, NEW p \in Procs, NEW i \in InstallId, Cancel(p, i)
  PROVE  QueueInv' /\ Evolves
  BY DeleteInstallationStep, AtOnce DEF Cancel, QueueInv

-----------------------------------------------------------------------------
(* Hosts *)

LEMMA TargetsTyped ==
  /\ Targets \subseteq (ProfileId \cup {None}) \X (VersionNo \cup {None})
  /\ \A target \in Targets : target = <<target[1], target[2]>>
  BY DEF Targets

(* resolveProfilePin yields a typed pin that exists. *)
LEMMA ResolvedPinHolds ==
  ASSUME StoreInv, NEW target, NEW pinned \in Targets, Resolves(target, pinned)
  PROVE  /\ pinned[1] \in ProfileId \cup {None}
         /\ pinned[2] \in VersionNo \cup {None}
         /\ pinned[1] \in DOMAIN profiles => pinned \in DOMAIN versions
         /\ pinned[1] < seq.profile
  <1>1. pinned[1] \in ProfileId \cup {None} /\ pinned[2] \in VersionNo \cup {None}
    BY TargetsTyped
  <1>2. CASE pinned = <<None, None>>
    BY <1>1, <1>2, NoProfileIsFresh
  <1>3. CASE /\ target[1] \in DOMAIN profiles
             /\ pinned = <<target[1], profiles[target[1]].current>>
    <2>1. profiles[target[1]].current \in VersionNo
      BY <1>3, Rows DEF StoreInv, ProfileRow
    <2>2. pinned \in DOMAIN versions
      BY <1>3, <2>1 DEF StoreInv, VersionsContiguous, VersionNo
    <2> QED BY <1>1, <1>3, <2>2 DEF StoreInv, IdsFresh
  <1>4. CASE /\ target[1] \in DOMAIN profiles
             /\ target \in DOMAIN versions
             /\ pinned = target
    BY <1>1, <1>4 DEF StoreInv, IdsFresh
  <1> QED BY <1>2, <1>3, <1>4 DEF Resolves

LEMMA BeginAddHostStep ==
  ASSUME QueueInv, NEW p \in Procs, NEW mac \in Macs, NEW target \in Targets,
         BeginAddHost(p, mac, target)
  PROVE  QueueInv' /\ Evolves
  <1>1. PICK pinned \in Targets :
          /\ Resolves(target, pinned)
          /\ Goto(p, [Idle EXCEPT !.at = "addInsert",
               !.row = [mac |-> mac, profile |-> pinned[1], pin |-> pinned[2],
                        status |-> "ready"]])
    BY DEF BeginAddHost
  <1> DEFINE row == [mac |-> mac, profile |-> pinned[1], pin |-> pinned[2], status |-> "ready"]
             r == [Idle EXCEPT !.at = "addInsert", !.row = row]
  <1>2. row \in HostRow /\ PinHolds(row) /\ row.profile < seq.profile
    <2>1. StoreInv BY DEF QueueInv
    <2>2. pinned = <<pinned[1], pinned[2]>> BY TargetsTyped
    <2> QED BY <1>1, <2>1, <2>2, ResolvedPinHolds DEF HostRow, HostStatus, PinHolds
  <1>3. r \in Request /\ r.at = "addInsert" /\ r.row = row /\ r.inst = None
    <2>1. r \in Request BY <1>2, IdleTyped DEF Request, Labels
    <2> QED BY <2>1 DEF Idle
  <1>4. Goto(p, r) /\ UNCHANGED <<tables, served>>
    BY <1>1 DEF BeginAddHost
  <1> HIDE DEF r, row
  <1> QED BY <1>2, <1>3, <1>4, NoProfileIsFresh, Reads DEF QueueInv

LEMMA AddHostStep ==
  ASSUME QueueInv, NEW p \in Procs, AddHost(p)
  PROVE  QueueInv' /\ Evolves
  <1>1. Finish(p) /\ IssuesStarted(p)
    BY ServesNothing DEF AddHost
  <1>2. req[p].row \in HostRow /\ PinHolds(req[p].row)
    BY DEF QueueInv, LocalInv, Request
  <1>3. StoreInv' /\ Evolves
    BY <1>2, CreateHostStep, NoRowStep DEF AddHost, QueueInv
  <1> QED BY <1>1, <1>3, Ends

LEMMA BeginUpdateHostStep ==
  ASSUME QueueInv, NEW p \in Procs, NEW h \in HostId, BeginUpdateHost(p, h)
  PROVE  QueueInv' /\ Evolves
  <1> DEFINE row == [BlankRow EXCEPT !.status = hosts[h].status]
             r == [Idle EXCEPT !.at = "updatePin", !.host = h, !.row = row]
  <1>1. hosts[h] \in HostRow
    BY Rows DEF BeginUpdateHost, QueueInv, StoreInv
  <1>2. row \in HostRow /\ row.profile = None
    BY <1>1 DEF BlankRow, HostRow, None
  <1>3. r \in Request /\ r.at = "updatePin" /\ r.row = row /\ r.inst = None
    <2>1. r \in Request BY <1>2, IdleTyped DEF Request, Labels
    <2> QED BY <2>1 DEF Idle
  <1>4. Goto(p, r) /\ UNCHANGED <<tables, served>>
    BY DEF BeginUpdateHost
  <1> HIDE DEF r, row
  <1> QED BY <1>2, <1>3, <1>4, NoProfileIsFresh, Reads DEF QueueInv, PinHolds

LEMMA UpdateHostPinStep ==
  ASSUME QueueInv, NEW p \in Procs, NEW mac \in Macs, NEW target \in Targets,
         UpdateHostPin(p, mac, target)
  PROVE  QueueInv' /\ Evolves
  <1>1. UNCHANGED <<tables, served>> /\ req[p] \in Request
    BY DEF UpdateHostPin, QueueInv
  <1>2. ASSUME NEW pinned \in Targets, Resolves(target, pinned),
               Goto(p, [req[p] EXCEPT !.at = "updateWrite", !.row.mac = mac,
                          !.row.profile = pinned[1], !.row.pin = pinned[2]])
        PROVE  QueueInv' /\ Evolves
    <2> DEFINE row == [req[p].row EXCEPT !.mac = mac, !.profile = pinned[1], !.pin = pinned[2]]
               r == [req[p] EXCEPT !.at = "updateWrite", !.row = row]
    <2>1. req[p].row \in HostRow
      BY <1>1 DEF Request
    <2>2. row \in HostRow /\ PinHolds(row) /\ row.profile < seq.profile
      <3>1. StoreInv BY DEF QueueInv
      <3>2. pinned = <<pinned[1], pinned[2]>> BY TargetsTyped
      <3> QED BY <1>2, <2>1, <3>1, <3>2, ResolvedPinHolds DEF HostRow, PinHolds
    <2>3. r \in Request /\ r.at = "updateWrite" /\ r.row = row /\ r.inst = req[p].inst
      BY <1>1, <2>2 DEF Request, Labels
    <2>4. Goto(p, r)
      BY <1>2, <1>1 DEF Request
    <2> HIDE DEF r, row
    <2> QED BY <1>1, <2>2, <2>3, <2>4, Reads DEF QueueInv, LocalInv
  <1>3. CASE Finish(p)
    BY <1>1, <1>3, ReadsAndEnds
  <1> QED BY <1>2, <1>3 DEF UpdateHostPin

LEMMA UpdateHostWriteStep ==
  ASSUME QueueInv, NEW p \in Procs, UpdateHostWrite(p)
  PROVE  QueueInv' /\ Evolves
  <1>1. Finish(p) /\ IssuesStarted(p)
    BY ServesNothing DEF UpdateHostWrite
  <1>2. req[p].row \in HostRow /\ PinHolds(req[p].row)
    BY DEF QueueInv, LocalInv, Request
  <1>3. StoreInv' /\ Evolves
    BY <1>2, UpdateHostStep DEF UpdateHostWrite, QueueInv
  <1> QED BY <1>1, <1>3, Ends

LEMMA RemoveHostStep ==
  ASSUME QueueInv, NEW p \in Procs, NEW h \in HostId, RemoveHost(p, h)
  PROVE  QueueInv' /\ Evolves
  BY DeleteHostStep, AtOnce DEF RemoveHost, QueueInv

-----------------------------------------------------------------------------
(* The boot chain *)

LEMMA BeginBootStep ==
  ASSUME QueueInv, NEW p \in Procs, NEW mac \in Macs, BeginBoot(p, mac)
  PROVE  QueueInv' /\ Evolves
  <1>1. UNCHANGED <<tables, served>>
    BY DEF BeginBoot
  <1>2. ASSUME NEW h \in DOMAIN hosts,
               Goto(p, [Idle EXCEPT !.at = "bootQueue", !.host = h, !.row = hosts[h]])
        PROVE  QueueInv' /\ Evolves
    <2> DEFINE r == [Idle EXCEPT !.at = "bootQueue", !.host = h, !.row = hosts[h]]
    <2>1. h \in HostId /\ hosts[h] \in HostRow
      BY Rows DEF QueueInv, StoreInv
    <2>2. PinHolds(hosts[h]) /\ hosts[h].profile < seq.profile
      BY NoProfileIsFresh DEF QueueInv, StoreInv, HostPinsHold, ForeignKeysHold, IdsFresh
    <2>3. r \in Request /\ r.at = "bootQueue" /\ r.row = hosts[h] /\ r.inst = None
      <3>1. r \in Request BY <2>1, IdleTyped DEF Request, Labels
      <3> QED BY <3>1 DEF Idle
    <2>4. Goto(p, r)
      BY <1>2
    <2> HIDE DEF r
    <2> QED BY <1>1, <2>2, <2>3, <2>4, NoProfileIsFresh, Reads DEF QueueInv
  <1>3. CASE Goto(p, [Idle EXCEPT !.at = "discover", !.row = [BlankRow EXCEPT !.mac = mac]])
    <2> DEFINE row == [BlankRow EXCEPT !.mac = mac]
               r == [Idle EXCEPT !.at = "discover", !.row = row]
    <2>1. row \in HostRow /\ row.profile = None
      BY DEF BlankRow, HostRow, HostStatus, None
    <2>2. r \in Request /\ r.at = "discover" /\ r.row = row /\ r.inst = None
      <3>1. r \in Request BY <2>1, IdleTyped DEF Request, Labels
      <3> QED BY <3>1 DEF Idle
    <2>3. Goto(p, r)
      BY <1>3
    <2> HIDE DEF r, row
    <2> QED BY <1>1, <2>1, <2>2, <2>3, NoProfileIsFresh, Reads DEF QueueInv, PinHolds
  <1> QED BY <1>2, <1>3 DEF BeginBoot

LEMMA DiscoverStep ==
  ASSUME QueueInv, NEW p \in Procs, Discover(p)
  PROVE  QueueInv' /\ Evolves
  <1> DEFINE r == [req[p] EXCEPT !.at = "bootQueue", !.host = seq.host]
  <1>1. req[p] \in Request /\ req[p].row \in HostRow /\ PinHolds(req[p].row)
    BY DEF QueueInv, LocalInv, Request
  <1>2. IssuesStarted(p)
    BY ServesNothing DEF Discover
  <1>3. CASE CreateHost(req[p].row) /\ Goto(p, r)
    <2>1. StoreInv' /\ Evolves
      BY <1>1, <1>3, CreateHostStep DEF QueueInv
    <2>2. /\ r \in Request /\ r.at = "bootQueue" /\ r.row = req[p].row /\ r.inst = req[p].inst
      BY <1>1, <1>3 DEF Request, Labels, CreateHost
    <2>3. req'[p] = r
      BY <1>3 DEF QueueInv, Goto
    <2>4. UNCHANGED <<profiles, versions>> /\ seq'.profile = seq.profile
          /\ seq'.install = seq.install
      BY <1>3 DEF CreateHost, QueueInv, StoreInv, TablesTypeOK
    <2>5. LocalInv(p)'
      BY <2>2, <2>3, <2>4 DEF QueueInv, LocalInv, PinHolds, At
    <2> HIDE DEF r
    <2> QED BY <1>2, <1>3, <2>1, <2>2, <2>5, Moves
  <1>4. CASE UNCHANGED tables /\ Finish(p)
    BY <1>2, <1>4, NoRowStep, Ends DEF QueueInv
  <1> QED BY <1>3, <1>4 DEF Discover

(* Reading the active installation of a host: what is known of its status  *)
(* at that moment is what LocalInv keeps.                                  *)
LEMMA ReadActiveStep ==
  ASSUME QueueInv, NEW p \in Procs, NEW next \in {"bootContext", "tokenContext"},
         ReadActive(p, next)
  PROVE  QueueInv' /\ Evolves
  <1>1. UNCHANGED <<tables, served>> /\ req[p] \in Request
    BY DEF ReadActive, QueueInv
  <1>2. ASSUME NEW i \in DOMAIN installs,
               Goto(p, [req[p] EXCEPT !.at = next, !.inst = i, !.seen = installs[i].status,
                          !.target = installs[i].version])
        PROVE  QueueInv' /\ Evolves
    <2> DEFINE r == [req[p] EXCEPT !.at = next, !.inst = i, !.seen = installs[i].status,
                       !.target = installs[i].version]
    <2>1. i \in InstallId /\ installs[i] \in InstallRow /\ i < seq.install
      BY Rows DEF QueueInv, StoreInv, IdsFresh
    <2>2. /\ r \in Request /\ r.at = next /\ r.row = req[p].row /\ r.inst = i
          /\ r.seen = installs[i].status
      BY <1>1, <2>1 DEF Request, Labels, InstallRow, VersionKey
    <2>3. Goto(p, r)
      BY <1>2
    <2> HIDE DEF r
    <2> QED BY <1>1, <2>1, <2>2, <2>3, Reads DEF QueueInv, LocalInv, NotWaiting
  <1>3. CASE Finish(p)
    BY <1>1, <1>3, ReadsAndEnds
  <1> QED BY <1>2, <1>3 DEF ReadActive

LEMMA BootContextStep ==
  ASSUME QueueInv, NEW p \in Procs, BootContext(p)
  PROVE  QueueInv' /\ Evolves
  <1> DEFINE r == [req[p] EXCEPT !.at = "bootStart"]
  <1>1. UNCHANGED tables /\ req[p] \in Request /\ At(p, "bootContext")
    BY DEF BootContext, QueueInv
  <1>2. CASE Goto(p, r) /\ UNCHANGED served
    <2>1. r \in Request /\ r.at = "bootStart" /\ r.row = req[p].row /\ r.inst = req[p].inst
      BY <1>1 DEF Request, Labels
    <2> HIDE DEF r
    <2> QED BY <1>1, <1>2, <2>1, Reads DEF QueueInv, LocalInv, At
  <1>3. CASE /\ req[p].seen # "waiting" /\ Finish(p)
             /\ issued' = issued \cup {req[p].inst} /\ UNCHANGED unmarked
    <2>1. req[p].inst \in InstallId /\ NotWaiting(req[p].inst)
      BY <1>1, <1>3 DEF QueueInv, LocalInv, At
    <2>2. IssuesStarted(p)
      BY <1>3, <2>1 DEF IssuesStarted, QueueInv, ServedIsStarted, served
    <2> QED BY <1>1, <1>3, <2>2, NoRowStep, Ends DEF QueueInv
  <1>4. CASE Finish(p) /\ UNCHANGED served
    BY <1>1, <1>4, ReadsAndEnds
  <1> QED BY <1>1, <1>2, <1>3, <1>4 DEF BootContext

(* After MarkInstallationStarted the installation is started, by this      *)
(* request or another, or gone.                                            *)
LEMMA BootStartStep ==
  ASSUME QueueInv, NEW p \in Procs, BootStart(p)
  PROVE  QueueInv' /\ Evolves
  <1> DEFINE r == [req[p] EXCEPT !.at = "bootHost"]
  <1>1. /\ MarkInstallationStarted(req[p].inst) /\ Goto(p, r) /\ At(p, "bootStart")
        /\ req[p] \in Request
        /\ issued' = issued /\ unmarked' = unmarked \ {req[p].inst}
    BY DEF BootStart, QueueInv
  <1>2. StoreInv' /\ Evolves
    BY <1>1, MarkInstallationStartedStep DEF QueueInv
  <1>3. r \in Request /\ r.at = "bootHost" /\ r.row = req[p].row /\ r.inst = req[p].inst
    BY <1>1 DEF Request, Labels
  <1>4. req'[p] = r
    BY <1>1 DEF QueueInv, Goto
  <1>5. NotWaiting(req[p].inst)'
    <2>1. SUFFICES ASSUME req[p].inst \in DOMAIN installs'
                   PROVE  installs'[req[p].inst].status # "waiting"
      BY <1>3, <1>4 DEF NotWaiting
    <2>2. CASE req[p].inst \in DOMAIN installs /\ installs[req[p].inst].status = "waiting"
      <3>1. installs[req[p].inst] \in InstallRow
        BY <2>2, Rows DEF QueueInv, StoreInv
      <3> QED BY <1>1, <2>2, <3>1 DEF MarkInstallationStarted, InstallRow
    <2>3. CASE ~ (req[p].inst \in DOMAIN installs /\ installs[req[p].inst].status = "waiting")
      BY <1>1, <2>1, <2>3 DEF MarkInstallationStarted
    <2> QED BY <2>2, <2>3
  <1>6. UNCHANGED <<profiles, versions, seq>>
    BY <1>1 DEF MarkInstallationStarted
  <1>7. LocalInv(p)'
    BY <1>1, <1>3, <1>4, <1>5, <1>6 DEF QueueInv, LocalInv, PinHolds, At, NotWaiting
  <1>8. IssuesStarted(p)
    <2>1. unmarked' \in SUBSET InstallId
      BY <1>1 DEF QueueInv, served
    <2>2. ASSUME NEW i \in issued' \ unmarked' PROVE NotWaiting(i) \/ NotWaiting(i)'
      <3>1. CASE i = req[p].inst
        BY <1>3, <1>4, <1>5, <3>1 DEF NotWaiting
      <3>2. CASE i \in issued \ unmarked
        BY <3>2 DEF QueueInv, ServedIsStarted
      <3> QED BY <1>1, <2>2, <3>1, <3>2
    <2> QED BY <1>1, <2>1, <2>2 DEF IssuesStarted
  <1> HIDE DEF r
  <1> QED BY <1>1, <1>2, <1>3, <1>7, <1>8, Moves

LEMMA BootHostStep ==
  ASSUME QueueInv, NEW p \in Procs, BootHost(p)
  PROVE  QueueInv' /\ Evolves
  <1> DEFINE row == [req[p].row EXCEPT !.status = "installing"]
  <1>1. /\ UpdateHost(req[p].host, row) /\ Finish(p) /\ At(p, "bootHost")
        /\ issued' = issued \cup {req[p].inst} /\ UNCHANGED unmarked
    BY DEF BootHost
  <1>2. req[p].row \in HostRow /\ PinHolds(req[p].row)
    BY DEF QueueInv, LocalInv, Request
  <1>3. row \in HostRow /\ PinHolds(row)
    BY <1>2 DEF HostRow, HostStatus, PinHolds
  <1>4. StoreInv' /\ Evolves
    BY <1>1, <1>3, UpdateHostStep DEF QueueInv
  <1>5. req[p].inst \in InstallId /\ NotWaiting(req[p].inst)
    BY <1>1 DEF QueueInv, LocalInv, At
  <1>6. IssuesStarted(p)
    BY <1>1, <1>5 DEF IssuesStarted, QueueInv, ServedIsStarted, served
  <1> QED BY <1>1, <1>4, <1>6, Ends

-----------------------------------------------------------------------------
(* Requests by token *)

LEMMA BeginByTokenStep ==
  ASSUME QueueInv, NEW p \in Procs, NEW token \in InstallId, BeginByToken(p, token)
  PROVE  QueueInv' /\ Evolves
  <1> DEFINE h == installs[token].host
             r == [Idle EXCEPT !.at = "tokenQueue", !.host = h, !.row = hosts[h]]
  <1>1. Goto(p, r) /\ UNCHANGED <<tables, served>> /\ token \in DOMAIN installs
    BY DEF BeginByToken
  <1>2. h \in DOMAIN hosts
    BY <1>1 DEF QueueInv, StoreInv, ForeignKeysHold
  <1>3. h \in HostId /\ hosts[h] \in HostRow
    BY <1>2, Rows DEF QueueInv, StoreInv
  <1>4. PinHolds(hosts[h]) /\ hosts[h].profile < seq.profile
    BY <1>2, NoProfileIsFresh DEF QueueInv, StoreInv, HostPinsHold, ForeignKeysHold, IdsFresh
  <1>5. r \in Request /\ r.at = "tokenQueue" /\ r.row = hosts[h] /\ r.inst = None
    <2>1. r \in Request BY <1>3, IdleTyped DEF Request, Labels
    <2> QED BY <2>1 DEF Idle
  <1> HIDE DEF r, h
  <1> QED BY <1>1, <1>4, <1>5, NoProfileIsFresh, Reads DEF QueueInv

LEMMA TokenContextStep ==
  ASSUME QueueInv, NEW p \in Procs, TokenContext(p)
  PROVE  QueueInv' /\ Evolves
  <1> DEFINE r == [req[p] EXCEPT !.at = "reportFinish"]
  <1>1. UNCHANGED <<tables, served>> /\ req[p] \in Request
    BY DEF TokenContext, QueueInv
  <1>2. CASE Goto(p, r)
    <2>1. r \in Request /\ r.at = "reportFinish" /\ r.row = req[p].row /\ r.inst = req[p].inst
      BY <1>1 DEF Request, Labels
    <2> HIDE DEF r
    <2> QED BY <1>1, <1>2, <2>1, Reads DEF QueueInv, LocalInv
  <1>3. CASE Finish(p)
    BY <1>1, <1>3, ReadsAndEnds
  <1> QED BY <1>2, <1>3 DEF TokenContext

LEMMA ReportFinishStep ==
  ASSUME QueueInv, NEW p \in Procs, NEW result \in FinalStatus, ReportFinish(p, result)
  PROVE  QueueInv' /\ Evolves
  <1> DEFINE r == [req[p] EXCEPT !.at = "reportHost", !.result = result]
  <1>1. /\ MarkInstallationFinished(req[p].inst, result) /\ Goto(p, r)
        /\ req[p] \in Request /\ IssuesStarted(p)
    BY ServesNothing DEF ReportFinish, QueueInv
  <1>2. StoreInv' /\ Evolves
    BY <1>1, MarkInstallationFinishedStep DEF QueueInv
  <1>3. r \in Request /\ r.at = "reportHost" /\ r.row = req[p].row /\ r.inst = req[p].inst
    BY <1>1 DEF Request, Labels
  <1>4. req'[p] = r
    BY <1>1 DEF QueueInv, Goto
  <1>5. UNCHANGED <<profiles, versions, seq>>
    BY <1>1 DEF MarkInstallationFinished
  <1>6. LocalInv(p)'
    BY <1>3, <1>4, <1>5 DEF QueueInv, LocalInv, PinHolds, At
  <1> HIDE DEF r
  <1> QED BY <1>1, <1>2, <1>3, <1>6, Moves

LEMMA ReportHostStep ==
  ASSUME QueueInv, NEW p \in Procs, ReportHost(p)
  PROVE  QueueInv' /\ Evolves
  <1> DEFINE row == [req[p].row EXCEPT
                       !.status = IF req[p].result = "success" THEN "ready" ELSE "error"]
  <1>1. UpdateHost(req[p].host, row) /\ Finish(p) /\ IssuesStarted(p)
    BY ServesNothing DEF ReportHost
  <1>2. req[p].row \in HostRow /\ PinHolds(req[p].row)
    BY DEF QueueInv, LocalInv, Request
  <1>3. row \in HostRow /\ PinHolds(row)
    BY <1>2 DEF HostRow, HostStatus, PinHolds
  <1>4. StoreInv' /\ Evolves
    BY <1>1, <1>3, UpdateHostStep DEF QueueInv
  <1> QED BY <1>1, <1>4, Ends

LEMMA RestartStep ==
  ASSUME QueueInv, Restart
  PROVE  QueueInv' /\ Evolves
  <1>1. /\ req' = [p \in Procs |-> Idle] /\ UNCHANGED served
        /\ UNCHANGED <<profiles, versions, hosts, installs, seq>>
    BY DEF Restart, tables
  <1>2. StoreInv' /\ Evolves
    BY NoRowStep DEF Restart, QueueInv
  <1>3. req' \in [Procs -> Request]
    BY <1>1, IdleTyped
  <1>4. \A p \in Procs : LocalInv(p)'
    BY <1>1, <1>2, IdleSound
  <1>5. ServedIsStarted'
    BY <1>1 DEF QueueInv, ServedIsStarted, NotWaiting, served
  <1> QED BY <1>1, <1>2, <1>3, <1>4, <1>5 DEF QueueInv, served

(* A failing store call ends its request; when it was the marking of an    *)
(* installation, that one is served unmarked.                              *)
LEMMA StoreFailsStep ==
  ASSUME QueueInv, NEW p \in Procs, StoreFails(p)
  PROVE  QueueInv' /\ Evolves
  <1>1. UNCHANGED tables /\ Finish(p) /\ req[p] \in Request
    BY DEF StoreFails, QueueInv
  <1>2. IssuesStarted(p)
    <2>1. CASE At(p, "bootStart")
      <3>1. /\ issued' = issued \cup {req[p].inst} /\ unmarked' = unmarked \cup {req[p].inst}
            /\ req[p].inst \in InstallId
        BY <2>1 DEF StoreFails, QueueInv, LocalInv, At
      <3> QED BY <3>1 DEF IssuesStarted, QueueInv, ServedIsStarted, served
    <2>2. CASE At(p, "bootHost")
      <3>1. /\ issued' = issued \cup {req[p].inst} /\ unmarked' = unmarked
            /\ req[p].inst \in InstallId /\ NotWaiting(req[p].inst)
        BY <2>2 DEF StoreFails, QueueInv, LocalInv, At
      <3> QED BY <3>1 DEF IssuesStarted, QueueInv, ServedIsStarted, served
    <2>3. CASE ~ At(p, "bootStart") /\ ~ At(p, "bootHost")
      BY <2>3, ServesNothing DEF StoreFails, At, served
    <2> QED BY <2>1, <2>2, <2>3
  <1>3. StoreInv' /\ Evolves
    BY <1>1, NoRowStep DEF QueueInv
  <1> QED BY <1>1, <1>2, <1>3, Ends

-----------------------------------------------------------------------------
(* Profiles and images *)

LEMMA AddProfileStep ==
  ASSUME QueueInv, NEW p \in Procs, NEW iso \in IsoId \cup {None}, NEW config \in Configs,
         AddProfile(p, iso, config)
  PROVE  QueueInv' /\ Evolves
  BY CreateProfileStep, AtOnce DEF AddProfile, QueueInv

LEMMA ChangeProfileStep ==
  ASSUME QueueInv, NEW p \in Procs, NEW profile \in ProfileId,
         NEW iso \in IsoId \cup {None}, NEW config \in Configs,
         ChangeProfile(p, profile, iso, config)
  PROVE  QueueInv' /\ Evolves
  BY UpdateProfileStep, AtOnce DEF ChangeProfile, QueueInv

LEMMA RemoveProfileStep ==
  ASSUME QueueInv, NEW p \in Procs, NEW profile \in ProfileId, RemoveProfile(p, profile)
  PROVE  QueueInv' /\ Evolves
  BY DeleteProfileStep, AtOnce DEF RemoveProfile, QueueInv

LEMMA OverrideAnswerStep ==
  ASSUME QueueInv, NEW p \in Procs, NEW version \in VersionKey, NEW override \in Overrides,
         OverrideAnswer(p, version, override)
  PROVE  QueueInv' /\ Evolves
  BY SetAnswerOverrideStep, AtOnce DEF OverrideAnswer, QueueInv

LEMMA RemoveISOStep ==
  ASSUME QueueInv, NEW p \in Procs, NEW iso \in IsoId, RemoveISO(p, iso)
  PROVE  QueueInv' /\ Evolves
  BY DeleteISOStep, AtOnce DEF RemoveISO, QueueInv

-----------------------------------------------------------------------------
(* The inductive invariant *)

(* A fresh database and no request satisfy the invariant. *)
LEMMA QueueInvInit == Init => QueueInv
  <1> SUFFICES ASSUME Init PROVE QueueInv
    OBVIOUS
  <1>1. StoreInv
    BY StoreInvInit DEF Init
  <1>2. req \in [Procs -> Request] /\ issued = {} /\ unmarked = {}
    BY IdleTyped DEF Init
  <1>3. \A p \in Procs : req[p] = Idle
    BY DEF Init
  <1>4. ASSUME NEW p \in Procs PROVE LocalInv(p)
    <2>1. req[p] = Idle
      BY <1>3
    <2>2. /\ req[p].at = "idle" /\ req[p].row.profile = None /\ req[p].inst = None
      BY <2>1 DEF Idle, BlankRow
    <2> QED BY <1>1, <2>2, NoProfileIsFresh DEF LocalInv, PinHolds, At
  <1> QED BY <1>1, <1>2, <1>4 DEF QueueInv, ServedIsStarted, served

(* A new request: reads, or is served in one step. *)
LEMMA ArriveStep ==
  ASSUME QueueInv, NEW p \in Procs, Arrive(p)
  PROVE  QueueInv' /\ Evolves
  BY BeginCreateStep, CancelStep, BeginAddHostStep, BeginUpdateHostStep, RemoveHostStep,
     BeginBootStep, BeginByTokenStep, AddProfileStep, ChangeProfileStep, RemoveProfileStep,
     OverrideAnswerStep, RemoveISOStep
  DEF Arrive

(* A request in progress makes its next store call. *)
LEMMA ProceedStep ==
  ASSUME QueueInv, NEW p \in Procs, Proceed(p)
  PROVE  QueueInv' /\ Evolves
  <1>1. CASE BootQueue(p)
    BY <1>1, ReadActiveStep DEF BootQueue
  <1>2. CASE TokenQueue(p)
    BY <1>2, ReadActiveStep DEF TokenQueue
  <1> QED
    BY <1>1, <1>2, CreateReadProfileStep, CreateCheckActiveStep, CreateInsertStep,
       AddHostStep, UpdateHostPinStep, UpdateHostWriteStep, DiscoverStep, BootContextStep,
       BootStartStep, BootHostStep, TokenContextStep, ReportFinishStep, ReportHostStep
    DEF Proceed

(* Every step keeps the invariant, and changes the rows only as Evolves    *)
(* says.                                                                   *)
LEMMA QueueInvStep == QueueInv /\ [Next]_vars => QueueInv' /\ Evolves
  <1> SUFFICES ASSUME QueueInv, [Next]_vars PROVE QueueInv' /\ Evolves
    OBVIOUS
  <1>1. CASE UNCHANGED vars
    <2>1. UNCHANGED tables /\ UNCHANGED <<req, served>>
      BY <1>1 DEF vars, tables, served
    <2> QED BY <2>1, NoRowStep, AtOnce DEF QueueInv
  <1>2. CASE Restart
    BY <1>2, RestartStep
  <1>3. ASSUME NEW p \in Procs, Arrive(p) \/ Proceed(p) \/ StoreFails(p)
        PROVE  QueueInv' /\ Evolves
    BY <1>3, ArriveStep, ProceedStep, StoreFailsStep
  <1> QED BY <1>1, <1>2, <1>3 DEF Next

(* The invariant holds in every reachable state. *)
THEOREM Inductive == Spec => []QueueInv
  <1>1. QueueInv /\ [Next]_vars => QueueInv'
    BY QueueInvStep
  <1> QED BY QueueInvInit, <1>1, PTL DEF Spec

-----------------------------------------------------------------------------
(* What the runs check on small instances, for every instance *)

(* Every row and every local of a request keeps its type, however requests *)
(* overlap and whatever a restart interrupts.                              *)
THEOREM TypeCorrect == Spec => []TypeOK
  <1>1. QueueInv => TypeOK
    BY DEF QueueInv, StoreInv, TypeOK, served
  <1> QED BY Inductive, <1>1, PTL

(* A host's pin, in its row or about to be written back from a stale copy  *)
(* of it, is a version of its profile for as long as the profile exists.   *)
THEOREM PinsAlwaysExist == Spec => []PinsExist
  <1>1. QueueInv => PinsExist
    BY DEF QueueInv, StoreInv, LocalInv, PinsExist
  <1> QED BY Inductive, <1>1, PTL

(* The versions of a profile are 1..current_version, so that a pin checked *)
(* against current_version is a row of profile_versions.                   *)
THEOREM VersionsAlwaysContiguous == Spec => []VersionsContiguous
  <1>1. QueueInv => VersionsContiguous
    BY DEF QueueInv, StoreInv
  <1> QED BY Inductive, <1>1, PTL

(* Once a machine has received a boot script its installation cannot be    *)
(* cancelled any more, unless marking it failed.                           *)
THEOREM ServedIsAlwaysStarted == Spec => []ServedIsStarted
  <1>1. QueueInv => ServedIsStarted
    BY DEF QueueInv
  <1> QED BY Inductive, <1>1, PTL

(* Started and finished installations stay on record and never go back.    *)
THEOREM HistoryAlwaysKept == Spec => HistoryKept
  <1> DEFINE Kept ==
        \A i \in DOMAIN installs :
          IF i \in DOMAIN installs'
          THEN /\ installs'[i].host = installs[i].host
               /\ installs[i].status \in FinalStatus => installs'[i].status \in FinalStatus
               /\ installs[i].status = "installing" => installs'[i].status # "waiting"
          ELSE installs[i].status = "waiting" \/ installs[i].host \notin DOMAIN hosts'
  <1>1. QueueInv /\ [Next]_vars => [Kept]_vars
    BY QueueInvStep DEF Evolves
  <1>2. QueueInv /\ [][Next]_vars => [][Kept]_vars
    BY <1>1, QueueInvStep, PTL
  <1> QED BY <1>2, QueueInvInit, PTL DEF Spec, HistoryKept

-----------------------------------------------------------------------------
(* The queue implements InstallPlan *)

(* What the plan is in a state of the queue. *)
PlanOf == [i \in DOMAIN installs |-> Planned(i)]

(* Every installation finds its version and its profile. *)
LEMMA PlanFound ==
  ASSUME StoreInv, NEW i \in DOMAIN installs
  PROVE  /\ i \in InstallId
         /\ installs[i].version \in DOMAIN versions
         /\ installs[i].version \in VersionKey
         /\ versions[installs[i].version] \in VersionRow
         /\ installs[i].version[1] \in DOMAIN profiles
         /\ profiles[installs[i].version[1]] \in ProfileRow
  BY Rows DEF StoreInv, ForeignKeysHold

(* A step that queues nothing and edits neither the versions nor the       *)
(* images that are queued leaves the plan or takes entries out of it.      *)
LEMMA RowsOnlyGo ==
  ASSUME QueueInv, QueueInv', Evolves, seq'.install = seq.install,
         \A i \in DOMAIN installs \cap DOMAIN installs' :
           LET version == installs[i].version IN
           /\ versions'[version] = versions[version]
           /\ profiles'[version[1]] = profiles[version[1]]
  PROVE  Plan!Next
  <1>1. DOMAIN installs' \subseteq DOMAIN installs
    BY DEF Evolves, QueueInv, StoreInv, IdsFresh
  <1>2. \A i \in DOMAIN installs' : Planned(i)' = Planned(i)
    BY <1>1 DEF Evolves, Planned
  <1> DEFINE gone == DOMAIN installs \ DOMAIN installs'
  <1>3. PlanOf' = [i \in DOMAIN PlanOf \ gone |-> PlanOf[i]]
    <2>1. DOMAIN PlanOf \ gone = DOMAIN installs'
      BY <1>1 DEF PlanOf
    <2>2. PlanOf' = [i \in DOMAIN installs' |-> PlanOf[i]]
      BY <1>1, <1>2 DEF PlanOf
    <2> QED BY <2>1, <2>2
  <1>4. gone \in SUBSET InstallId
    BY Rows DEF QueueInv, StoreInv
  <1>5. Plan!Remove(gone)
    BY <1>3 DEF Plan!Remove, PlanOf
  <1> QED BY <1>4, <1>5 DEF Plan!Next

(* Inserting an installation adds what its version and its profile say.    *)
LEMMA InsertQueues ==
  ASSUME QueueInv, NEW h, NEW version, CreateInstallation(h, version)
  PROVE  Plan!Next
  <1> DEFINE id == seq.install
             entry == [version |-> version, config |-> versions[version].config,
                       override |-> versions[version].override,
                       image |-> profiles[version[1]].iso]
  <1>1. entry \in Plan!Entry
    <2>1. /\ versions[version] \in VersionRow /\ version \in VersionKey
          /\ version[1] \in DOMAIN profiles
      BY Rows DEF CreateInstallation, QueueInv, StoreInv, ForeignKeysHold
    <2>2. profiles[version[1]] \in ProfileRow
      BY <2>1, Rows DEF QueueInv, StoreInv
    <2> QED BY <2>1, <2>2 DEF Plan!Entry, VersionRow, ProfileRow
  <1>2. id \in InstallId /\ UNCHANGED <<versions, profiles>> /\ seq'.install = id + 1
    BY DEF CreateInstallation, QueueInv, StoreInv, TablesTypeOK
  <1>3. PlanOf' = [i \in DOMAIN PlanOf \cup {id} |-> IF i = id THEN entry ELSE PlanOf[i]]
    <2>1. /\ DOMAIN installs' = DOMAIN installs \cup {id}
          /\ installs'[id].version = version
          /\ \A i \in DOMAIN installs \ {id} : installs'[i] = installs[i]
      BY DEF CreateInstallation, Put
    <2>2. DOMAIN PlanOf = DOMAIN installs
      BY DEF PlanOf
    <2> QED BY <1>2, <2>1, <2>2 DEF PlanOf, Planned
  <1>4. \A i \in DOMAIN PlanOf : Plan!Agree(entry, PlanOf[i])
    BY DEF PlanOf, Planned, Plan!Agree
  <1>5. Plan!Queue(entry)
    BY <1>2, <1>3, <1>4 DEF Plan!Queue, PlanOf
  <1> QED BY <1>1, <1>5 DEF Plan!Next

(* However a profile is edited, it ends up with the image of the request,  *)
(* and what is queued keeps its version's row: only a head nobody          *)
(* references is edited.                                                   *)
LEMMA EditKeepsQueued ==
  ASSUME StoreInv, NEW p, NEW iso, NEW config, UpdateProfile(p, iso, config)
  PROVE  /\ \A i \in DOMAIN installs :
              versions'[installs[i].version] = versions[installs[i].version]
         /\ profiles'[p].iso = iso
         /\ \A other \in DOMAIN profiles \ {p} : profiles'[other] = profiles[other]
  <1>1. p \in DOMAIN profiles /\ profiles[p] \in ProfileRow
    BY Rows DEF UpdateProfile, StoreInv
  <1>2. \A i \in DOMAIN installs : /\ installs[i].version \in DOMAIN versions
                                   /\ installs[i].version \in VersionKey
    BY PlanFound
  <1>3. CASE EditMetadata(p, iso)
    BY <1>1, <1>3 DEF EditMetadata, ProfileRow
  <1>4. CASE EditHeadVersion(p, iso, config)
    BY <1>1, <1>2, <1>4 DEF EditHeadVersion, Referenced, ProfileRow
  <1>5. CASE AppendProfileVersion(p, iso, config)
    <2>1. PICK next \in VersionNo :
            /\ IsNextVersion(p, next)
            /\ versions' = Put(versions, <<p, next>>, NewVersion(config))
            /\ profiles' = [profiles EXCEPT ![p] = [iso |-> iso, current |-> next]]
      BY <1>5 DEF AppendProfileVersion
    <2>2. <<p, next>> \notin DOMAIN versions
      BY <2>1 DEF IsNextVersion, VersionNo
    <2> QED BY <1>1, <1>2, <2>1, <2>2 DEF Put
  <1> QED BY <1>3, <1>4, <1>5 DEF UpdateProfile

LEMMA EditReimages ==
  ASSUME QueueInv, NEW p \in ProfileId, NEW iso \in IsoId \cup {None}, NEW config,
         UpdateProfile(p, iso, config)
  PROVE  Plan!Next
  <1>1. UNCHANGED <<installs, seq>> /\ StoreInv
    BY DEF UpdateProfile, QueueInv
  <1>2. ASSUME NEW i \in DOMAIN installs
        PROVE  Planned(i)' = IF installs[i].version[1] = p
                             THEN [Planned(i) EXCEPT !.image = iso] ELSE Planned(i)
    BY <1>1, <1>2, EditKeepsQueued, PlanFound DEF Planned
  <1>3. Plan!Reimage(p, iso)
    BY <1>1, <1>2 DEF Plan!Reimage, Planned
  <1>4. /\ <<p, 1>> \in VersionKey /\ <<p, 1>>[1] = p
    BY Bounds DEF VersionKey, VersionNo
  <1> QED BY <1>3, <1>4 DEF Plan!Next

LEMMA DeletedImageDrops ==
  ASSUME QueueInv, NEW iso \in IsoId, DeleteISO(iso)
  PROVE  Plan!Next
  <1>1. UNCHANGED <<installs, seq, versions>> /\ StoreInv
    BY DEF DeleteISO, QueueInv
  <1>2. ASSUME NEW i \in DOMAIN installs
        PROVE  Planned(i)' = IF Planned(i).image = iso
                             THEN [Planned(i) EXCEPT !.image = None] ELSE Planned(i)
    BY <1>1, <1>2, PlanFound DEF Planned, DeleteISO, ProfileRow
  <1>3. Plan!DropImage(iso)
    BY <1>1, <1>2 DEF Plan!DropImage, Planned
  <1> QED BY <1>3 DEF Plan!Next

LEMMA OverrideOverrides ==
  ASSUME QueueInv, NEW version \in VersionKey, NEW override \in Overrides,
         SetAnswerOverride(version, override)
  PROVE  Plan!Next
  <1>1. UNCHANGED <<installs, seq, profiles>> /\ StoreInv
    BY DEF SetAnswerOverride, QueueInv
  <1>2. ASSUME NEW i \in DOMAIN installs
        PROVE  Planned(i)' = IF installs[i].version = version
                             THEN [Planned(i) EXCEPT !.override = override] ELSE Planned(i)
    BY <1>1, <1>2, PlanFound DEF Planned, SetAnswerOverride, VersionRow
  <1>3. Plan!Override(version, override)
    BY <1>1, <1>2 DEF Plan!Override, Planned
  <1> QED BY <1>3 DEF Plan!Next

(* Only these requests touch the plan. *)
LEMMA PlanTouched ==
  ASSUME QueueInv, [Next]_vars
  PROVE  \/ UNCHANGED <<profiles, versions>> /\ seq'.install = seq.install
         \/ \E p \in Procs : CreateInstallation(req[p].host, req[p].target)
         \/ \E iso \in IsoId \cup {None}, config \in Configs : CreateProfile(iso, config)
         \/ \E profile \in ProfileId, iso \in IsoId \cup {None}, config \in Configs :
              UpdateProfile(profile, iso, config)
         \/ \E profile \in ProfileId : DeleteProfile(profile)
         \/ \E version \in VersionKey, override \in Overrides : SetAnswerOverride(version, override)
         \/ \E iso \in IsoId : DeleteISO(iso)
  <1> DEFINE Untouched == UNCHANGED <<profiles, versions>> /\ seq'.install = seq.install
  <1>1. seq \in [host: 1..(MaxHost + 1), profile: 1..(MaxProfile + 1),
                 install: 1..(MaxInstall + 1)]
    BY DEF QueueInv, StoreInv, TablesTypeOK
  <1>2. CASE UNCHANGED vars
    BY <1>2 DEF vars
  <1>3. CASE Restart
    BY <1>3 DEF Restart, tables
  <1>4. ASSUME NEW p \in Procs,
               \/ \E h \in HostId, override \in ProfileId \cup {None} : BeginCreate(p, h, override)
               \/ \E i \in InstallId : Cancel(p, i)
               \/ \E mac \in Macs, target \in Targets : BeginAddHost(p, mac, target)
               \/ \E h \in HostId : BeginUpdateHost(p, h)
               \/ \E h \in HostId : RemoveHost(p, h)
               \/ \E mac \in Macs : BeginBoot(p, mac)
               \/ \E token \in InstallId : BeginByToken(p, token)
        PROVE  Untouched
    BY <1>4 DEF BeginCreate, Cancel, BeginAddHost, BeginUpdateHost, RemoveHost,
       BeginBoot, BeginByToken, DeleteInstallation, DeleteHost, tables
  <1>5. ASSUME NEW p \in Procs, Proceed(p)
        PROVE  Untouched \/ CreateInstallation(req[p].host, req[p].target)
    BY <1>1, <1>5 DEF Proceed, CreateReadProfile, CreateCheckActive, CreateInsert, AddHost,
       UpdateHostPin, UpdateHostWrite, Discover, BootQueue, BootContext, BootStart, BootHost,
       TokenQueue, TokenContext, ReadActive, ReportFinish, ReportHost, CreateHost, UpdateHost,
       MarkInstallationStarted, MarkInstallationFinished, tables
  <1>6. ASSUME NEW p \in Procs, StoreFails(p) PROVE Untouched
    BY <1>6 DEF StoreFails, tables
  <1> HIDE DEF Untouched
  <1>7. ASSUME NEW p \in Procs, Arrive(p)
        PROVE  \/ Untouched
               \/ \E iso \in IsoId \cup {None}, config \in Configs : CreateProfile(iso, config)
               \/ \E profile \in ProfileId, iso \in IsoId \cup {None}, config \in Configs :
                    UpdateProfile(profile, iso, config)
               \/ \E profile \in ProfileId : DeleteProfile(profile)
               \/ \E version \in VersionKey, override \in Overrides :
                    SetAnswerOverride(version, override)
               \/ \E iso \in IsoId : DeleteISO(iso)
    BY <1>4, <1>7 DEF Arrive, AddProfile, ChangeProfile, RemoveProfile, OverrideAnswer, RemoveISO
  <1> QED BY <1>2, <1>3, <1>5, <1>6, <1>7 DEF Next, Untouched

(* Every behaviour of the queue, with its races, cancellations, edits and  *)
(* restarts, is one of InstallPlan: the version and the configuration of   *)
(* what is queued are fixed, its image and answer file only move with the  *)
(* profile's image and the version's override, for all of it together.     *)
THEOREM QueueImplementsPlan == Spec => ImplementsPlan
  <1>1. Init => Plan!Init
    BY DEF Init, TablesInit, Empty, Plan!Init, None
  <1>2. QueueInv /\ [Next]_vars => [Plan!Next]_<<PlanOf, seq.install>>
    <2> SUFFICES ASSUME QueueInv, [Next]_vars PROVE Plan!Next
      OBVIOUS
    <2>1. QueueInv' /\ Evolves /\ StoreInv
      BY QueueInvStep DEF QueueInv
    <2>2. CASE UNCHANGED <<profiles, versions>> /\ seq'.install = seq.install
      BY <2>1, <2>2, RowsOnlyGo
    <2>3. ASSUME NEW p \in Procs, CreateInstallation(req[p].host, req[p].target)
          PROVE  Plan!Next
      BY <2>3, InsertQueues
    <2>4. ASSUME NEW iso \in IsoId \cup {None}, NEW config \in Configs, CreateProfile(iso, config)
          PROVE  Plan!Next
      <3>1. seq.profile \notin DOMAIN profiles /\ seq'.install = seq.install
        BY <2>1, <2>4, Bounds DEF CreateProfile, StoreInv, IdsFresh, ProfileId, TablesTypeOK
      <3>2. ASSUME NEW i \in DOMAIN installs
            PROVE  /\ versions'[installs[i].version] = versions[installs[i].version]
                   /\ profiles'[installs[i].version[1]] = profiles[installs[i].version[1]]
        BY <2>1, <2>4, <3>1, PlanFound DEF CreateProfile, Put
      <3> QED BY <2>1, <3>1, <3>2, RowsOnlyGo
    <2>5. ASSUME NEW profile \in ProfileId, NEW iso \in IsoId \cup {None}, NEW config \in Configs,
                 UpdateProfile(profile, iso, config)
          PROVE  Plan!Next
      BY <2>5, EditReimages
    <2>6. ASSUME NEW profile \in ProfileId, DeleteProfile(profile)
          PROVE  Plan!Next
      <3>1. ASSUME NEW i \in DOMAIN installs
            PROVE  /\ versions'[installs[i].version] = versions[installs[i].version]
                   /\ profiles'[installs[i].version[1]] = profiles[installs[i].version[1]]
        BY <2>1, <2>6, PlanFound DEF DeleteProfile, Without, Restrict
      <3>2. seq'.install = seq.install
        BY <2>6 DEF DeleteProfile
      <3> QED BY <2>1, <3>1, <3>2, RowsOnlyGo
    <2>7. ASSUME NEW version \in VersionKey, NEW override \in Overrides,
                 SetAnswerOverride(version, override)
          PROVE  Plan!Next
      BY <2>7, OverrideOverrides
    <2>8. ASSUME NEW iso \in IsoId, DeleteISO(iso) PROVE Plan!Next
      BY <2>8, DeletedImageDrops
    <2> QED BY <2>2, <2>3, <2>4, <2>5, <2>6, <2>7, <2>8, PlanTouched
  <1>3. QueueInv /\ [][Next]_vars => [][Plan!Next]_<<PlanOf, seq.install>>
    BY <1>2, QueueInvStep, PTL
  <1> QED BY <1>1, <1>3, QueueInvInit, PTL DEF Spec, ImplementsPlan, Plan!Spec, PlanOf

-----------------------------------------------------------------------------
(* The history variables constrain nothing *)

LEMMA HistoryIsQueue == HNext => Next
  BY DEF HNext, Next

(* What holds of the queue holds of it with its history. *)
LEMMA HistoryKeepsQueueInv == HSpec => []QueueInv
  <1>1. QueueInv /\ [HNext]_hvars => QueueInv'
    <2> SUFFICES ASSUME QueueInv, [HNext]_hvars PROVE QueueInv'
      OBVIOUS
    <2>1. [Next]_vars
      BY HistoryIsQueue DEF hvars
    <2> QED BY <2>1, QueueInvStep
  <1>2. HInit => QueueInv
    BY QueueInvInit DEF HInit
  <1> QED BY <1>1, <1>2, PTL DEF HSpec

(* Only one request moves in a step, and with a label it moves away from.  *)
Elsewhere(p) == \A q \in Procs \ {p} : req'[q] = req[q]

LEMMA OthersWait ==
  ASSUME QueueInv, NEW p \in Procs, Arrive(p) \/ Proceed(p) \/ StoreFails(p)
  PROVE  Elsewhere(p)
  <1>1. \A r : Goto(p, r) => Elsewhere(p)
    BY DEF Goto, Elsewhere, QueueInv
  <1>2. Finish(p) => Elsewhere(p)
    BY <1>1 DEF Finish
  <1>3. UNCHANGED req => Elsewhere(p)
    BY DEF Elsewhere
  <1>4. ASSUME Arrive(p) PROVE Elsewhere(p)
    BY <1>1, <1>2, <1>3, <1>4
    DEF Arrive, BeginCreate, Cancel, BeginAddHost, BeginUpdateHost, RemoveHost, BeginBoot,
        BeginByToken, AddProfile, ChangeProfile, RemoveProfile, OverrideAnswer, RemoveISO
  <1>5. ASSUME Proceed(p) PROVE Elsewhere(p)
    BY <1>1, <1>2, <1>3, <1>5
    DEF Proceed, CreateReadProfile, CreateCheckActive, CreateInsert, AddHost, UpdateHostPin,
        UpdateHostWrite, Discover, BootQueue, BootContext, BootStart, BootHost, TokenQueue,
        TokenContext, ReadActive, ReportFinish, ReportHost
  <1> QED BY <1>2, <1>4, <1>5 DEF StoreFails

-----------------------------------------------------------------------------
(* What a step has to show for HistoryInv *)

(* The hosts stay in order, or the step is noted as one that muddles ...   *)
InOrder(p, fails) ==
  /\ MacsUnique'
  /\ \A h \in HostId \ muddled : OneActive(h)' \/ Muddles(p, h, fails)
  /\ \A h \in DOMAIN hosts' \ muddled :
       \/ StatusAgrees(h)'
       \/ Muddles(p, h, fails)
       \/ \E q \in Procs : Marking(q)' /\ req'[q].host = h

(* ... and the request served knows what it goes by.                       *)
Sound(p) ==
  /\ NewHostIdle(p)' /\ OwnInstallation(p)'
  /\ p \notin stale => UpToDate(p)' /\ KnowsStatus(p)'

LEMMA IdleKnows ==
  ASSUME NEW p \in Procs, req'[p].at = "idle"
  PROVE  /\ NewHostIdle(p)' /\ OwnInstallation(p)'
         /\ UpToDate(p)' /\ KnowsStatus(p)'
  BY DEF NewHostIdle, OwnInstallation, UpToDate, KnowsStatus, At, ForMachine, RestsOnHost,
     RestsOnQueue

LEMMA FinishKnows ==
  ASSUME QueueInv, NEW p \in Procs, Finish(p)
  PROVE  Sound(p) /\ req'[p] = Idle
  <1>1. req'[p] = Idle /\ req'[p].at = "idle"
    BY DEF QueueInv, Finish, Goto, Idle
  <1> QED BY <1>1, IdleKnows DEF Sound

(* Unchanged: what a request nobody outdated knows stays true. *)
LEMMA SameQueue ==
  ASSUME NEW h, QueueOf(h)' = QueueOf(h)
  PROVE  /\ ActiveInstallations(h)' = ActiveInstallations(h)
         /\ \A i \in ActiveInstallations(h) : installs'[i].status = installs[i].status
  <1>1. \A i : i \in ActiveInstallations(h) <=> \E s : <<i, s>> \in QueueOf(h)
    BY DEF QueueOf
  <1>2. \A i : i \in ActiveInstallations(h)' <=> \E s : <<i, s>> \in QueueOf(h)'
    BY DEF QueueOf
  <1>3. \A i \in ActiveInstallations(h) : <<i, installs[i].status>> \in QueueOf(h)
    BY DEF QueueOf
  <1>4. \A i, s : <<i, s>> \in QueueOf(h)' => s = installs'[i].status
    BY DEF QueueOf
  <1> QED BY <1>1, <1>2, <1>3, <1>4

LEMMA OthersKnow ==
  ASSUME QueueInv, NEW q \in Procs, UpToDate(q), KnowsStatus(q),
         req'[q] = req[q], ~ Outdated(q),
         \A h \in HostId : req'[q].host = h /\ h \in muddled => h \in muddled'
  PROVE  UpToDate(q)' /\ KnowsStatus(q)'
  <1>1. PICK h : h = req[q].host
    OBVIOUS
  <1>2. req'[q].host = h /\ req'[q].at = req[q].at
    BY <1>1
  <1>3. req[q].at \in RestsOnHost => h \in DOMAIN hosts \cap DOMAIN hosts' /\ hosts'[h] = hosts[h]
    BY <1>1 DEF Outdated, HostChanges
  <1>4. req[q].at \in RestsOnQueue => QueueOf(h)' = QueueOf(h)
    BY <1>1, <1>2 DEF Outdated, QueueOf, ActiveInstallations
  <1>5. req[q].at \in RestsOnQueue =>
          /\ ActiveInstallations(h)' = ActiveInstallations(h)
          /\ \A i \in ActiveInstallations(h) : installs'[i].status = installs[i].status
    BY <1>4, SameQueue
  <1>6. UpToDate(q)'
    <2>1. /\ ForMachine \subseteq RestsOnHost /\ {"updatePin", "updateWrite"} \subseteq RestsOnHost
          /\ "createInsert" \in RestsOnQueue
      BY DEF ForMachine, RestsOnHost, RestsOnQueue
    <2>2. req[q].at = "createInsert" => ActiveInstallations(h)' = {}
      BY <1>1, <1>5, <2>1 DEF UpToDate, At
    <2>3. /\ req[q].at \in ForMachine => h \in DOMAIN hosts' /\ req[q].row = hosts'[h]
          /\ req[q].at \in {"updatePin", "updateWrite"} =>
               h \in DOMAIN hosts' /\ req[q].row.status = hosts'[h].status
      BY <1>1, <1>3, <2>1 DEF UpToDate
    <2> QED BY <1>1, <1>2, <2>2, <2>3 DEF UpToDate, At, ActiveInstallations
  <1>7. KnowsStatus(q)'
    <2>1. {"bootContext", "bootStart", "bootHost", "tokenContext", "reportFinish", "reportHost"}
            \subseteq RestsOnQueue
      BY DEF RestsOnQueue
    <2>2. req[q].at = "reportHost" => h \in HostId
      <3>1. "reportHost" \in ForMachine
        BY DEF ForMachine, RestsOnHost
      <3> QED BY <1>1, <3>1, Rows DEF UpToDate, QueueInv, StoreInv
    <2>3. req[q].at = "reportHost" /\ h \notin muddled' => ActiveInstallations(h) = {}
      BY <1>1, <1>2, <2>2 DEF KnowsStatus
    <2> QED BY <1>1, <1>2, <1>5, <2>1, <2>3 DEF KnowsStatus, ActiveInstallations
  <1> QED BY <1>6, <1>7

LEMMA OthersOwn ==
  ASSUME QueueInv, Evolves, NEW q \in Procs, OwnInstallation(q), req'[q] = req[q]
  PROVE  OwnInstallation(q)'
  <1>1. req[q].inst < seq.install
    BY DEF QueueInv, LocalInv
  <1>2. req[q].inst \in DOMAIN installs' =>
          /\ req[q].inst \in DOMAIN installs
          /\ installs'[req[q].inst].host = installs[req[q].inst].host
    BY <1>1 DEF Evolves
  <1> QED BY <1>2 DEF OwnInstallation

LEMMA Recorded ==
  ASSUME QueueInv, QueueInv', Evolves, HistoryInv, NEW p \in Procs, NEW fails \in BOOLEAN,
         Elsewhere(p), Notes(p, fails), InOrder(p, fails), Sound(p)
  PROVE  HistoryInv'
  <1>1. \A h \in HostId \ muddled' : Settled(h)' \/ (h \notin muddled /\ ~ Muddles(p, h, fails))
    BY DEF Notes
  <1>2. ASSUME NEW q \in Procs \ stale' PROVE UpToDate(q)' /\ KnowsStatus(q)'
    <2>1. CASE q = p
      <3>1. p \notin stale \/ req'[p].at = "idle"
        BY <1>2, <2>1 DEF Notes, At
      <3> QED BY <2>1, <3>1, IdleKnows DEF Sound
    <2>2. CASE q # p
      <3>1. q \notin stale /\ ~ Outdated(q) /\ req'[q] = req[q]
        BY <1>2, <2>2 DEF Notes, Elsewhere
      <3>2. UpToDate(q) /\ KnowsStatus(q)
        BY <3>1 DEF HistoryInv
      <3>3. \A h \in HostId : req'[q].host = h /\ h \in muddled => h \in muddled'
        BY DEF Notes, Settled
      <3> QED BY <3>1, <3>2, <3>3, OthersKnow
    <2> QED BY <2>1, <2>2
  <1>3. ASSUME NEW q \in Procs PROVE NewHostIdle(q)' /\ OwnInstallation(q)'
    <2>1. CASE q = p
      BY <2>1 DEF Sound
    <2>2. CASE q # p
      <3>1. req'[q] = req[q] /\ NewHostIdle(q) /\ OwnInstallation(q)
        BY <2>2 DEF Elsewhere, HistoryInv
      <3> QED BY <3>1, OthersOwn DEF NewHostIdle
    <2> QED BY <2>1, <2>2
  <1>4. OneActivePerHost'
    <2> SUFFICES ASSUME NEW h \in HostId \ muddled' PROVE OneActive(h)'
      BY DEF OneActivePerHost
    <2>1. CASE Settled(h)'
      BY <2>1 DEF Settled, OneActive
    <2> QED BY <1>1, <2>1 DEF InOrder
  <1>5. HostStatusAgrees'
    <2> SUFFICES ASSUME NEW h \in DOMAIN hosts' \ muddled'
                 PROVE  StatusAgrees(h)' \/ \E q \in Procs : Marking(q)' /\ req'[q].host = h
      BY DEF HostStatusAgrees
    <2>1. h \in HostId
      <3>1. hosts' \in Table(HostId, HostRow)
        BY DEF QueueInv, StoreInv, TablesTypeOK
      <3> QED BY <3>1, TableMembership
    <2>2. CASE Settled(h)'
      BY <2>2 DEF Settled, StatusAgrees
    <2> QED BY <1>1, <2>1, <2>2 DEF InOrder
  <1> QED BY <1>2, <1>3, <1>4, <1>5 DEF HistoryInv, InOrder

(* A step that leaves the statuses of the hosts alone and adds nothing to  *)
(* a queue.                                                                *)
LEMMA StaysInOrder ==
  ASSUME HistoryInv, NEW p \in Procs, NEW fails, Elsewhere(p), ~ Marking(p), MacsUnique',
         \A h : ActiveInstallations(h)' \subseteq ActiveInstallations(h),
         \A h \in DOMAIN hosts' : h \in DOMAIN hosts /\ (StatusAgrees(h) => StatusAgrees(h)')
  PROVE  InOrder(p, fails)
  <1>1. \A h \in HostId \ muddled : OneActive(h)'
    BY DEF HistoryInv, OneActivePerHost, OneActive
  <1>2. ASSUME NEW h \in DOMAIN hosts' \ muddled
        PROVE  StatusAgrees(h)' \/ \E q \in Procs : Marking(q)' /\ req'[q].host = h
    <2>1. CASE StatusAgrees(h)
      BY <2>1
    <2>2. ASSUME NEW q \in Procs, Marking(q), req[q].host = h
          PROVE  Marking(q)' /\ req'[q].host = h
      BY <2>2 DEF Elsewhere, Marking
    <2> QED BY <2>1, <2>2 DEF HistoryInv, HostStatusAgrees
  <1> QED BY <1>1, <1>2 DEF InOrder

LEMMA ReadsInOrder ==
  ASSUME HistoryInv, NEW p \in Procs, NEW fails, Elsewhere(p), ~ Marking(p),
         UNCHANGED <<hosts, installs>>
  PROVE  InOrder(p, fails)
  <1>1. MacsUnique'
    BY DEF HistoryInv, MacsUnique
  <1>2. \A h : ActiveInstallations(h)' = ActiveInstallations(h)
    BY DEF ActiveInstallations
  <1>3. \A h \in DOMAIN hosts' : h \in DOMAIN hosts /\ (StatusAgrees(h) => StatusAgrees(h)')
    BY <1>2 DEF StatusAgrees
  <1> QED BY <1>1, <1>2, <1>3, StaysInOrder

-----------------------------------------------------------------------------
(* Requests that only read *)

(* What they hold of a machine they read in this step ...                  *)
LEMMA ArrivalsSound ==
  ASSUME QueueInv, HistoryInv, NEW p \in Procs, Elsewhere(p),
         \/ \E h \in HostId, override \in ProfileId \cup {None} : BeginCreate(p, h, override)
         \/ \E mac \in Macs, target \in Targets : BeginAddHost(p, mac, target)
         \/ \E h \in HostId : BeginUpdateHost(p, h)
         \/ \E mac \in Macs : BeginBoot(p, mac)
         \/ \E token \in InstallId : BeginByToken(p, token)
  PROVE  InOrder(p, FALSE) /\ Sound(p)
  <1>0. req \in [Procs -> Request]
    BY DEF QueueInv
  <1> DEFINE NothingHeld == req'[p].at = "createProfile"
             NewHost == /\ req'[p].at \in {"addInsert", "discover"}
                        /\ req'[p].row.status # "installing"
             StatusRead == /\ req'[p].at = "updatePin" /\ req'[p].host \in DOMAIN hosts
                           /\ req'[p].row.status = hosts[req'[p].host].status
             HostRead == /\ req'[p].at \in {"bootQueue", "tokenQueue"}
                         /\ req'[p].host \in DOMAIN hosts
                         /\ req'[p].row = hosts[req'[p].host]
  <1>1. ASSUME NEW h \in HostId, NEW override \in ProfileId \cup {None},
               BeginCreate(p, h, override)
        PROVE  NothingHeld
    BY <1>0, <1>1 DEF BeginCreate, Goto, Idle
  <1>2. ASSUME NEW mac \in Macs, NEW target \in Targets, BeginAddHost(p, mac, target)
        PROVE  NewHost
    <2>1. PICK pinned \in Targets :
            Goto(p, [Idle EXCEPT !.at = "addInsert",
              !.row = [mac |-> mac, profile |-> pinned[1], pin |-> pinned[2],
                       status |-> "ready"]])
      BY <1>2 DEF BeginAddHost
    <2> DEFINE row == [mac |-> mac, profile |-> pinned[1], pin |-> pinned[2], status |-> "ready"]
               r == [Idle EXCEPT !.at = "addInsert", !.row = row]
    <2>2. r.at = "addInsert" /\ r.row = row /\ row.status = "ready"
      BY DEF Idle
    <2>3. req'[p] = r
      BY <1>0, <2>1 DEF Goto
    <2> HIDE DEF r, row
    <2> QED BY <2>2, <2>3
  <1>3. ASSUME NEW h \in HostId, BeginUpdateHost(p, h)
        PROVE  StatusRead
    <2>1. [BlankRow EXCEPT !.status = hosts[h].status].status = hosts[h].status
      BY DEF BlankRow
    <2> QED BY <1>0, <1>3, <2>1 DEF BeginUpdateHost, Goto, Idle
  <1>4. ASSUME NEW mac \in Macs, BeginBoot(p, mac)
        PROVE  NewHost \/ HostRead
    <2>1. [BlankRow EXCEPT !.mac = mac].status = "discovered"
      BY DEF BlankRow
    <2>2. ASSUME NEW h \in DOMAIN hosts,
                 Goto(p, [Idle EXCEPT !.at = "bootQueue", !.host = h, !.row = hosts[h]])
          PROVE  HostRead
      <3>1. req'[p] = [Idle EXCEPT !.at = "bootQueue", !.host = h, !.row = hosts[h]]
        BY <1>0, <2>2 DEF Goto
      <3>2. req'[p].at = "bootQueue" /\ req'[p].host = h /\ req'[p].row = hosts[h]
        BY <3>1 DEF Idle
      <3> QED BY <2>2, <3>2
    <2>3. CASE Goto(p, [Idle EXCEPT !.at = "discover", !.row = [BlankRow EXCEPT !.mac = mac]])
      BY <1>0, <2>1, <2>3 DEF Goto, Idle
    <2> QED BY <1>4, <2>2, <2>3 DEF BeginBoot
  <1>5. ASSUME NEW token \in InstallId, BeginByToken(p, token)
        PROVE  HostRead
    <2>1. installs[token].host \in DOMAIN hosts
      BY <1>5 DEF BeginByToken, QueueInv, StoreInv, ForeignKeysHold
    <2> QED BY <1>0, <1>5, <2>1 DEF BeginByToken, Goto, Idle
  <1>6. UNCHANGED <<hosts, installs>> /\ ~ Marking(p)
    BY DEF BeginCreate, BeginAddHost, BeginUpdateHost, BeginBoot, BeginByToken, tables, At, Marking
  <1>7. NothingHeld \/ NewHost \/ StatusRead \/ HostRead
    BY <1>1, <1>2, <1>3, <1>4, <1>5
  <1>8. Sound(p)
    BY <1>6, <1>7 DEF Sound, NewHostIdle, OwnInstallation, UpToDate, KnowsStatus, At,
       ForMachine, RestsOnHost, RestsOnQueue
  <1> QED BY <1>6, <1>8, ReadsInOrder

(* loadInstallContext keeps the host it was called with. *)
LEMMA ReadsSameHost ==
  ASSUME QueueInv, NEW p \in Procs, NEW next \in {"bootContext", "tokenContext"},
         ReadActive(p, next)
  PROVE  \/ req'[p].at = "idle"
         \/ /\ req'[p].at = next /\ req'[p].host = req[p].host /\ req'[p].row = req[p].row
            /\ req'[p].inst \in ActiveInstallations(req[p].host)
            /\ req'[p].seen = installs[req'[p].inst].status
  <1>1. req[p] \in Request /\ req \in [Procs -> Request]
    BY DEF QueueInv
  <1>2. ASSUME NEW i \in DOMAIN installs, IsActiveInstallationForHost(i, req[p].host),
               Goto(p, [req[p] EXCEPT !.at = next, !.inst = i, !.seen = installs[i].status,
                          !.target = installs[i].version])
        PROVE  /\ req'[p].at = next /\ req'[p].host = req[p].host /\ req'[p].row = req[p].row
               /\ req'[p].inst \in ActiveInstallations(req[p].host)
               /\ req'[p].seen = installs[req'[p].inst].status
    <2>1. req'[p] = [req[p] EXCEPT !.at = next, !.inst = i, !.seen = installs[i].status,
                       !.target = installs[i].version]
      BY <1>1, <1>2 DEF Goto
    <2>2. /\ req'[p].at = next /\ req'[p].host = req[p].host /\ req'[p].row = req[p].row
          /\ req'[p].inst = i /\ req'[p].seen = installs[i].status
      BY <1>1, <2>1 DEF Request
    <2> QED BY <1>2, <2>2 DEF IsActiveInstallationForHost
  <1>3. CASE Finish(p)
    BY <1>1, <1>3 DEF Finish, Goto, Idle
  <1> QED BY <1>2, <1>3 DEF ReadActive

(* ... or held before. *)
LEMMA ReadersSound ==
  ASSUME QueueInv, HistoryInv, NEW p \in Procs, Elsewhere(p),
         \/ CreateReadProfile(p) \/ CreateCheckActive(p)
         \/ \E mac \in Macs, target \in Targets : UpdateHostPin(p, mac, target)
         \/ BootQueue(p) \/ BootContext(p) \/ TokenQueue(p) \/ TokenContext(p)
  PROVE  InOrder(p, FALSE) /\ Sound(p)
  <1>1. /\ req[p] \in Request /\ req \in [Procs -> Request]
        /\ OwnInstallation(p)
        /\ p \notin stale => UpToDate(p) /\ KnowsStatus(p)
    BY DEF QueueInv, HistoryInv
  <1>2. UNCHANGED <<hosts, installs>> /\ ~ Marking(p)
    BY DEF CreateReadProfile, CreateCheckActive, UpdateHostPin, BootQueue, BootContext,
       TokenQueue, TokenContext, ReadActive, tables, At, Marking
  <1> DEFINE NothingHeld == req'[p].at \in {"idle", "createActive"}
             QueueFree == /\ req'[p].at = "createInsert"
                          /\ ActiveInstallations(req'[p].host) = {}
             StatusRead == /\ req'[p].at = "updateWrite"
                           /\ p \notin stale => /\ req'[p].host \in DOMAIN hosts
                                                /\ req'[p].row.status = hosts[req'[p].host].status
             InstRead ==
               /\ req'[p].at \in {"bootContext", "tokenContext", "bootStart", "reportFinish"}
               /\ req'[p].at = "bootStart" => req'[p].seen = "waiting"
               /\ req'[p].inst \in DOMAIN installs => installs[req'[p].inst].host = req'[p].host
               /\ p \notin stale =>
                    /\ req'[p].host \in DOMAIN hosts /\ req'[p].row = hosts[req'[p].host]
                    /\ req'[p].inst \in ActiveInstallations(req'[p].host)
                    /\ req'[p].at \in {"bootContext", "bootStart"} =>
                         installs[req'[p].inst].status = req'[p].seen
  <1>3. Finish(p) => NothingHeld
    BY <1>1 DEF Finish, Goto, Idle
  <1> DEFINE Known == NothingHeld \/ QueueFree \/ StatusRead \/ InstRead
  <1>4. ASSUME CreateReadProfile(p) PROVE Known
    <2> DEFINE profile == req[p].target[1]
               r == [req[p] EXCEPT !.at = "createActive", !.target =
                      <<profile, IF @[2] = None THEN profiles[profile].current ELSE @[2]>>]
    <2>1. Goto(p, r) \/ Finish(p)
      BY <1>4 DEF CreateReadProfile
    <2>2. r.at = "createActive"
      BY <1>1 DEF Request
    <2> HIDE DEF r
    <2>3. Goto(p, r) => req'[p].at = "createActive"
      BY <1>1, <2>2 DEF Goto
    <2> QED BY <1>3, <2>1, <2>3
  <1>5. ASSUME CreateCheckActive(p) PROVE Known
    <2>1. CASE /\ ActiveInstallations(req[p].host) = {}
               /\ Goto(p, [req[p] EXCEPT !.at = "createInsert"])
      <3>1. req'[p].at = "createInsert" /\ req'[p].host = req[p].host
        BY <1>1, <2>1 DEF Goto, Request
      <3> QED BY <2>1, <3>1
    <2> QED BY <1>3, <1>5, <2>1 DEF CreateCheckActive
  <1>6. ASSUME NEW mac \in Macs, NEW target \in Targets, UpdateHostPin(p, mac, target)
        PROVE  Known
    <2>1. ASSUME NEW pinned \in Targets,
                 Goto(p, [req[p] EXCEPT !.at = "updateWrite", !.row.mac = mac,
                            !.row.profile = pinned[1], !.row.pin = pinned[2]])
          PROVE  StatusRead
      <3> DEFINE row == [req[p].row EXCEPT !.mac = mac, !.profile = pinned[1], !.pin = pinned[2]]
                 r == [req[p] EXCEPT !.at = "updateWrite", !.row = row]
      <3>1. row.status = req[p].row.status
        BY <1>1 DEF Request, HostRow
      <3>2. r.at = "updateWrite" /\ r.host = req[p].host /\ r.row = row
        BY <1>1 DEF Request
      <3>3. req'[p] = r
        BY <1>1, <2>1 DEF Goto, Request
      <3>4. p \notin stale => /\ req[p].host \in DOMAIN hosts
                              /\ req[p].row.status = hosts[req[p].host].status
        BY <1>1, <1>6 DEF UpdateHostPin, UpToDate, At
      <3> HIDE DEF row, r
      <3> QED BY <3>1, <3>2, <3>3, <3>4
    <2> QED BY <1>3, <1>6, <2>1 DEF UpdateHostPin
  <1>7. ASSUME BootQueue(p) \/ TokenQueue(p) PROVE Known
    <2>1. \/ req'[p].at = "idle"
          \/ /\ req'[p].at \in {"bootContext", "tokenContext"} /\ req'[p].host = req[p].host
             /\ req'[p].row = req[p].row
             /\ req'[p].inst \in ActiveInstallations(req[p].host)
             /\ req'[p].seen = installs[req'[p].inst].status
      BY <1>7, ReadsSameHost DEF BootQueue, TokenQueue
    <2>2. p \notin stale => req[p].host \in DOMAIN hosts /\ req[p].row = hosts[req[p].host]
      BY <1>1, <1>7 DEF BootQueue, TokenQueue, UpToDate, At, ForMachine, RestsOnHost
    <2>3. \A i \in ActiveInstallations(req[p].host) : installs[i].host = req[p].host
      BY DEF ActiveInstallations
    <2> QED BY <2>1, <2>2, <2>3
  <1>8. ASSUME BootContext(p) \/ TokenContext(p) PROVE Known
    <2>1. CASE \/ /\ At(p, "bootContext") /\ req[p].seen = "waiting"
                  /\ Goto(p, [req[p] EXCEPT !.at = "bootStart"])
               \/ /\ At(p, "tokenContext")
                  /\ Goto(p, [req[p] EXCEPT !.at = "reportFinish"])
      <3>1. /\ \/ req'[p].at = "bootStart" /\ req[p].at = "bootContext"
                  /\ req[p].seen = "waiting"
               \/ req'[p].at = "reportFinish" /\ req[p].at = "tokenContext"
            /\ req'[p].host = req[p].host /\ req'[p].row = req[p].row
            /\ req'[p].inst = req[p].inst /\ req'[p].seen = req[p].seen
        BY <1>1, <2>1 DEF Goto, Request, At
      <3>2. req[p].inst \in DOMAIN installs => installs[req[p].inst].host = req[p].host
        BY <1>1, <3>1 DEF OwnInstallation, RestsOnQueue
      <3>3. p \notin stale =>
              /\ req[p].host \in DOMAIN hosts /\ req[p].row = hosts[req[p].host]
              /\ req[p].inst \in ActiveInstallations(req[p].host)
              /\ req[p].at = "bootContext" => installs[req[p].inst].status = req[p].seen
        BY <1>1, <3>1 DEF UpToDate, KnowsStatus, ForMachine, RestsOnHost
      <3> QED BY <3>1, <3>2, <3>3
    <2> QED BY <1>3, <1>8, <2>1 DEF BootContext, TokenContext
  <1>9. Known
    BY <1>4, <1>5, <1>6, <1>7, <1>8
  <1>10. Sound(p)
    BY <1>2, <1>9 DEF Sound, NewHostIdle, OwnInstallation, UpToDate, KnowsStatus, At,
       ForMachine, RestsOnHost, RestsOnQueue, ActiveInstallations
  <1> QED BY <1>2, <1>10, ReadsInOrder

-----------------------------------------------------------------------------
(* UNIQUE (mac) in every method that writes a host *)

LEMMA CreatedMacUnique ==
  ASSUME MacsUnique, NEW row, CreateHost(row)
  PROVE  MacsUnique'
  <1>1. /\ hosts' = Put(hosts, seq.host, row)
        /\ \A other \in DOMAIN hosts \ {seq.host} : hosts[other].mac # row.mac
    BY DEF CreateHost, HostRowAllowed
  <1> QED BY <1>1 DEF MacsUnique, Put

LEMMA UpdatedMacUnique ==
  ASSUME MacsUnique, NEW h, NEW row, UpdateHost(h, row)
  PROVE  MacsUnique'
  <1>1. CASE hosts' = hosts
    BY <1>1 DEF MacsUnique
  <1>2. CASE /\ h \in DOMAIN hosts /\ hosts' = [hosts EXCEPT ![h] = row]
             /\ \A other \in DOMAIN hosts \ {h} : hosts[other].mac # row.mac
    BY <1>2 DEF MacsUnique
  <1> QED BY <1>1, <1>2 DEF UpdateHost, HostRowAllowed

LEMMA HostsGoMacUnique ==
  ASSUME MacsUnique, NEW S, hosts' = Without(hosts, S)
  PROVE  MacsUnique'
  <1>1. DOMAIN hosts' = DOMAIN hosts \ S /\ \A h \in DOMAIN hosts' : hosts'[h] = hosts[h]
    BY DEF Without, Restrict
  <1> QED BY <1>1 DEF MacsUnique

-----------------------------------------------------------------------------
(* Requests that write *)

(* A host nothing was queued for yet. *)
LEMMA FreshHostIdle ==
  ASSUME StoreInv
  PROVE  seq.host \notin DOMAIN hosts /\ ActiveInstallations(seq.host) = {}
  <1>1. seq.host \notin DOMAIN hosts
    <2>1. \A h \in DOMAIN hosts : h \in Nat /\ h < seq.host
      BY Rows, Bounds DEF StoreInv, IdsFresh, HostId
    <2>2. seq.host \in Nat
      BY Bounds DEF StoreInv, TablesTypeOK
    <2> QED BY <2>1, <2>2
  <1> QED BY <1>1 DEF StoreInv, ForeignKeysHold, ActiveInstallations

(* A host still in disorder because another request is between its two     *)
(* updates stays so.                                                       *)
LEMMA OthersMark ==
  ASSUME HistoryInv, NEW p \in Procs, Elsewhere(p),
         NEW h \in DOMAIN hosts \ muddled, ~ (Marking(p) /\ req[p].host = h)
  PROVE  StatusAgrees(h) \/ \E q \in Procs : Marking(q)' /\ req'[q].host = h
  <1>1. ASSUME NEW q \in Procs, Marking(q), req[q].host = h
        PROVE  Marking(q)' /\ req'[q].host = h
    BY <1>1 DEF Elsewhere, Marking
  <1> QED BY <1>1 DEF HistoryInv, HostStatusAgrees

LEMMA CreatorsSound ==
  ASSUME QueueInv, HistoryInv, NEW p \in Procs, Elsewhere(p), AddHost(p) \/ Discover(p)
  PROVE  InOrder(p, FALSE) /\ Sound(p)
  <1>1. /\ req[p] \in Request /\ req \in [Procs -> Request] /\ StoreInv
        /\ MacsUnique /\ NewHostIdle(p)
    BY DEF QueueInv, HistoryInv
  <1>2. ~ Marking(p) /\ req[p].row.status # "installing"
    BY <1>1 DEF Marking, NewHostIdle, AddHost, Discover, At
  <1>3. CASE UNCHANGED tables /\ Finish(p)
    BY <1>2, <1>3, ReadsInOrder, FinishKnows DEF tables
  <1>4. CASE CreateHost(req[p].row)
    <2>1. /\ hosts' = Put(hosts, seq.host, req[p].row) /\ UNCHANGED installs
      BY <1>4 DEF CreateHost
    <2>2. /\ DOMAIN hosts' = DOMAIN hosts \cup {seq.host}
          /\ hosts'[seq.host] = req[p].row
          /\ \A h \in DOMAIN hosts : hosts'[h] = hosts[h]
      BY <1>1, <2>1, FreshHostIdle DEF Put
    <2>3. MacsUnique'
      BY <1>1, <1>4, CreatedMacUnique
    <2>4. \A h \in HostId \ muddled : OneActive(h)'
      BY <2>1 DEF HistoryInv, OneActivePerHost, OneActive, ActiveInstallations
    <2>5. ASSUME NEW h \in DOMAIN hosts' \ muddled
          PROVE  StatusAgrees(h)' \/ \E q \in Procs : Marking(q)' /\ req'[q].host = h
      <3>1. CASE h = seq.host
        BY <1>1, <1>2, <2>1, <2>2, <3>1, FreshHostIdle DEF StatusAgrees, ActiveInstallations
      <3>2. CASE h \in DOMAIN hosts
        <4>1. StatusAgrees(h) => StatusAgrees(h)'
          BY <2>1, <2>2, <3>2 DEF StatusAgrees, ActiveInstallations
        <4> QED BY <1>2, <2>5, <3>2, <4>1, OthersMark
      <3> QED BY <2>2, <2>5, <3>1, <3>2
    <2>6. InOrder(p, FALSE)
      BY <2>3, <2>4, <2>5 DEF InOrder
    <2>7. CASE Finish(p)
      BY <2>6, <2>7, FinishKnows
    <2>8. CASE Goto(p, [req[p] EXCEPT !.at = "bootQueue", !.host = seq.host])
      <3>1. /\ req'[p].at = "bootQueue" /\ req'[p].host = seq.host /\ req'[p].row = req[p].row
        BY <1>1, <2>8 DEF Goto, Request
      <3>2. Sound(p)
        BY <2>2, <3>1 DEF Sound, NewHostIdle, OwnInstallation, UpToDate, KnowsStatus, At,
           ForMachine, RestsOnHost, RestsOnQueue
      <3> QED BY <2>6, <3>2
    <2> QED BY <2>7, <2>8 DEF AddHost, Discover
  <1> QED BY <1>3, <1>4 DEF AddHost, Discover

(* Requests served in one step: rows only go, and of the installations     *)
(* of a host that stays only waiting ones.                                 *)
LEMMA AtOnceSound ==
  ASSUME QueueInv, HistoryInv, NEW p \in Procs, Elsewhere(p),
         \/ \E i \in InstallId : Cancel(p, i)
         \/ \E h \in HostId : RemoveHost(p, h)
         \/ \E iso \in IsoId \cup {None}, config \in Configs : AddProfile(p, iso, config)
         \/ \E profile \in ProfileId, iso \in IsoId \cup {None}, config \in Configs :
              ChangeProfile(p, profile, iso, config)
         \/ \E version \in VersionKey, override \in Overrides : OverrideAnswer(p, version, override)
         \/ \E profile \in ProfileId : RemoveProfile(p, profile)
         \/ \E iso \in IsoId : RemoveISO(p, iso)
  PROVE  InOrder(p, FALSE) /\ Sound(p)
  <1>1. At(p, "idle") /\ UNCHANGED req /\ ~ Marking(p) /\ MacsUnique
    BY DEF Cancel, RemoveHost, AddProfile, ChangeProfile, RemoveProfile, OverrideAnswer, RemoveISO,
       At, Marking, HistoryInv
  <1>2. Sound(p)
    BY <1>1, IdleKnows DEF Sound, At
  <1>3. CASE UNCHANGED <<hosts, installs>>
    BY <1>1, <1>2, <1>3, ReadsInOrder
  <1>4. ASSUME NEW i \in InstallId, Cancel(p, i) PROVE InOrder(p, FALSE)
    <2>1. /\ DOMAIN installs' = DOMAIN installs \ {i} /\ installs[i].status = "waiting"
          /\ \A j \in DOMAIN installs' : installs'[j] = installs[j]
          /\ UNCHANGED hosts
      BY <1>4 DEF Cancel, DeleteInstallation, Without, Restrict
    <2>2. \A h : ActiveInstallations(h)' \subseteq ActiveInstallations(h)
      BY <2>1 DEF ActiveInstallations
    <2>3. \A h \in DOMAIN hosts' : h \in DOMAIN hosts /\ (StatusAgrees(h) => StatusAgrees(h)')
      BY <2>1 DEF StatusAgrees, ActiveInstallations
    <2>4. MacsUnique'
      BY <1>1, <2>1 DEF MacsUnique
    <2> QED BY <1>1, <2>2, <2>3, <2>4, StaysInOrder
  <1>5. ASSUME NEW h \in HostId, RemoveHost(p, h) PROVE InOrder(p, FALSE)
    <2>1. /\ DOMAIN hosts' = DOMAIN hosts \ {h}
          /\ \A g \in DOMAIN hosts' : hosts'[g] = hosts[g]
          /\ DOMAIN installs' = {i \in DOMAIN installs : installs[i].host # h}
          /\ \A i \in DOMAIN installs' : installs'[i] = installs[i]
      BY <1>5 DEF RemoveHost, DeleteHost, Without, Restrict
    <2>2. \A g : ActiveInstallations(g)' \subseteq ActiveInstallations(g)
      BY <2>1 DEF ActiveInstallations
    <2>3. \A g \in DOMAIN hosts' : g \in DOMAIN hosts /\ (StatusAgrees(g) => StatusAgrees(g)')
      BY <2>1 DEF StatusAgrees, ActiveInstallations
    <2>4. MacsUnique'
      BY <1>1, <1>5, HostsGoMacUnique DEF RemoveHost, DeleteHost
    <2> QED BY <1>1, <2>2, <2>3, <2>4, StaysInOrder
  <1>6. ASSUME NEW profile \in ProfileId, RemoveProfile(p, profile) PROVE InOrder(p, FALSE)
    <2>1. \A h \in DOMAIN hosts : hosts[h] \in HostRow
      BY Rows DEF QueueInv, StoreInv
    <2>2. /\ DOMAIN hosts' = DOMAIN hosts /\ UNCHANGED installs
          /\ \A h \in DOMAIN hosts : /\ hosts'[h].status = hosts[h].status
                                     /\ hosts'[h].mac = hosts[h].mac
      BY <1>6, <2>1 DEF RemoveProfile, DeleteProfile, HostRow
    <2>3. \A h : ActiveInstallations(h)' \subseteq ActiveInstallations(h)
      BY <2>2 DEF ActiveInstallations
    <2>4. \A h \in DOMAIN hosts' : h \in DOMAIN hosts /\ (StatusAgrees(h) => StatusAgrees(h)')
      BY <2>2 DEF StatusAgrees, ActiveInstallations
    <2>5. MacsUnique'
      BY <1>1, <2>2 DEF MacsUnique
    <2> QED BY <1>1, <2>3, <2>4, <2>5, StaysInOrder
  <1> QED BY <1>2, <1>3, <1>4, <1>5, <1>6
    DEF AddProfile, ChangeProfile, OverrideAnswer, RemoveISO, CreateProfile, UpdateProfile,
        SetAnswerOverride, DeleteISO

(* A new installation is waiting; unless somebody queued one for the host  *)
(* since this request looked, it is the only active one.                   *)
LEMMA InsertSound ==
  ASSUME QueueInv, HistoryInv, NEW p \in Procs, Elsewhere(p), CreateInsert(p)
  PROVE  InOrder(p, FALSE) /\ Sound(p)
  <1>1. Finish(p) /\ At(p, "createInsert") /\ ~ Marking(p)
    BY DEF CreateInsert, At, Marking
  <1>2. CASE UNCHANGED tables
    BY <1>1, <1>2, ReadsInOrder, FinishKnows DEF tables
  <1>3. CASE CreateInstallation(req[p].host, req[p].target)
    <2>1. /\ installs' = Put(installs, seq.install, [host |-> req[p].host,
                            version |-> req[p].target, status |-> "waiting"])
          /\ UNCHANGED hosts
      BY <1>3 DEF CreateInstallation
    <2>2. seq.install \notin DOMAIN installs
      <3>1. \A i \in DOMAIN installs : i \in Nat /\ i < seq.install
        BY Rows, Bounds DEF QueueInv, StoreInv, IdsFresh, InstallId
      <3>2. seq.install \in Nat
        BY Bounds DEF QueueInv, StoreInv, TablesTypeOK
      <3> QED BY <3>1, <3>2
    <2>3. /\ DOMAIN installs' = DOMAIN installs \cup {seq.install}
          /\ installs'[seq.install].status = "waiting" /\ installs'[seq.install].host = req[p].host
          /\ \A i \in DOMAIN installs : installs'[i] = installs[i]
      BY <2>1, <2>2 DEF Put
    <2>4. ASSUME NEW h \in HostId \ muddled PROVE OneActive(h)' \/ Muddles(p, h, FALSE)
      <3>1. CASE h # req[p].host
        <4>1. ActiveInstallations(h)' = ActiveInstallations(h)
          BY <2>2, <2>3, <3>1 DEF ActiveInstallations
        <4> QED BY <4>1 DEF HistoryInv, OneActivePerHost, OneActive
      <3>2. CASE h = req[p].host /\ p \notin stale
        <4>1. ActiveInstallations(h) = {}
          BY <1>1, <3>2 DEF HistoryInv, UpToDate
        <4>2. ActiveInstallations(h)' \subseteq {seq.install}
          BY <2>3, <4>1 DEF ActiveInstallations
        <4> QED BY <4>2 DEF OneActive
      <3>3. CASE h = req[p].host /\ p \in stale
        BY <1>1, <3>3 DEF Muddles, At
      <3> QED BY <3>1, <3>2, <3>3
    <2>5. ASSUME NEW h \in DOMAIN hosts' \ muddled
          PROVE  StatusAgrees(h)' \/ \E q \in Procs : Marking(q)' /\ req'[q].host = h
      <3>1. StatusAgrees(h) => StatusAgrees(h)'
        BY <2>1, <2>2, <2>3 DEF StatusAgrees, ActiveInstallations
      <3> QED BY <1>1, <2>1, <2>5, <3>1, OthersMark
    <2>6. MacsUnique'
      BY <2>1 DEF HistoryInv, MacsUnique
    <2> QED BY <1>1, <2>4, <2>5, <2>6, FinishKnows DEF InOrder
  <1> QED BY <1>2, <1>3 DEF CreateInsert

(* Writing back a host with the status it has, or had. *)
LEMMA UpdateSound ==
  ASSUME QueueInv, HistoryInv, NEW p \in Procs, Elsewhere(p), UpdateHostWrite(p)
  PROVE  InOrder(p, FALSE) /\ Sound(p)
  <1>1. /\ ~ Marking(p) /\ Finish(p) /\ UNCHANGED installs /\ At(p, "updateWrite")
        /\ UpdateHost(req[p].host, req[p].row)
    BY DEF Marking, UpdateHostWrite, UpdateHost, At
  <1>2. MacsUnique'
    BY <1>1, UpdatedMacUnique DEF HistoryInv
  <1>3. \A h \in HostId \ muddled : OneActive(h)'
    BY <1>1 DEF HistoryInv, OneActivePerHost, OneActive, ActiveInstallations
  <1>4. /\ DOMAIN hosts' = DOMAIN hosts
        /\ \A h \in DOMAIN hosts \ {req[p].host} : hosts'[h] = hosts[h]
        /\ p \notin stale => \A h \in DOMAIN hosts : hosts'[h].status = hosts[h].status
    <2>1. p \notin stale => req[p].row.status = hosts[req[p].host].status
      BY <1>1 DEF HistoryInv, UpToDate, At
    <2> QED BY <1>1, <2>1 DEF UpdateHost
  <1>5. ASSUME NEW h \in DOMAIN hosts' \ muddled
        PROVE  \/ StatusAgrees(h)' \/ Muddles(p, h, FALSE)
               \/ \E q \in Procs : Marking(q)' /\ req'[q].host = h
    <2>1. CASE p \in stale /\ h = req[p].host
      BY <1>1, <2>1 DEF Muddles, At
    <2>2. CASE hosts'[h].status = hosts[h].status
      <3>1. StatusAgrees(h) => StatusAgrees(h)'
        BY <1>1, <2>2 DEF StatusAgrees, ActiveInstallations
      <3> QED BY <1>1, <1>4, <1>5, <3>1, OthersMark
    <2> QED BY <1>4, <1>5, <2>1, <2>2
  <1> QED BY <1>1, <1>2, <1>3, <1>5, FinishKnows DEF InOrder

(* The row read for the machine is still accepted by the table. *)
LEMMA MachineRowAllowed ==
  ASSUME QueueInv, HistoryInv, NEW p \in Procs, p \notin stale, req[p].at \in ForMachine,
         NEW status \in HostStatus, UpdateHost(req[p].host, [req[p].row EXCEPT !.status = status])
  PROVE  req[p].host \in DOMAIN hosts /\ hosts'[req[p].host].status = status
  <1> DEFINE h == req[p].host
             row == [req[p].row EXCEPT !.status = status]
  <1>1. h \in DOMAIN hosts /\ req[p].row = hosts[h]
    BY DEF HistoryInv, UpToDate
  <1>2. hosts[h] \in HostRow
    BY <1>1, Rows DEF QueueInv, StoreInv
  <1>3. row.mac = hosts[h].mac /\ row.profile = hosts[h].profile /\ row.status = status
    BY <1>1, <1>2 DEF HostRow
  <1> HIDE DEF row
  <1>4. HostRowAllowed(h, row)
    BY <1>1, <1>3 DEF HostRowAllowed, HistoryInv, MacsUnique, QueueInv, StoreInv, ForeignKeysHold
  <1>5. hosts' = [hosts EXCEPT ![h] = row]
    BY <1>1, <1>4 DEF UpdateHost, row
  <1> QED BY <1>1, <1>3, <1>5

(* markInstalling and handleReport, second half: now the host follows. *)
LEMMA MarkHostSound ==
  ASSUME QueueInv, HistoryInv, NEW p \in Procs, Elsewhere(p), BootHost(p) \/ ReportHost(p)
  PROVE  InOrder(p, FALSE) /\ Sound(p)
  <1> DEFINE status == IF At(p, "bootHost") THEN "installing"
                       ELSE IF req[p].result = "success" THEN "ready" ELSE "error"
  <1>1. /\ Finish(p) /\ UNCHANGED installs /\ Marking(p) /\ req[p].at \in ForMachine
        /\ UpdateHost(req[p].host, [req[p].row EXCEPT !.status = status])
        /\ status \in HostStatus /\ (status = "installing" <=> At(p, "bootHost"))
    BY DEF BootHost, ReportHost, UpdateHost, At, Marking, ForMachine, RestsOnHost, HostStatus
  <1> HIDE DEF status
  <1>2. MacsUnique'
    BY <1>1, UpdatedMacUnique DEF HistoryInv
  <1>3. \A h \in HostId \ muddled : OneActive(h)'
    BY <1>1 DEF HistoryInv, OneActivePerHost, OneActive, ActiveInstallations
  <1>4. /\ DOMAIN hosts' = DOMAIN hosts
        /\ \A h \in DOMAIN hosts \ {req[p].host} : hosts'[h] = hosts[h]
    BY <1>1 DEF UpdateHost
  <1>5. ASSUME NEW h \in DOMAIN hosts' \ muddled
        PROVE  \/ StatusAgrees(h)' \/ Muddles(p, h, FALSE)
               \/ \E q \in Procs : Marking(q)' /\ req'[q].host = h
    <2>1. CASE h # req[p].host
      <3>1. StatusAgrees(h) => StatusAgrees(h)'
        BY <1>1, <1>4, <1>5, <2>1 DEF StatusAgrees, ActiveInstallations
      <3> QED BY <1>4, <1>5, <2>1, <3>1, OthersMark
    <2>2. CASE h = req[p].host /\ p \in stale
      BY <1>1, <2>2 DEF Muddles
    <2>3. CASE h = req[p].host /\ p \notin stale
      <3>1. hosts'[h].status = status /\ KnowsStatus(p)
        BY <1>1, <2>3, MachineRowAllowed DEF HistoryInv
      <3>2. CASE At(p, "bootHost")
        <4>1. req[p].inst \in ActiveInstallations(h) /\ installs[req[p].inst].status = "installing"
          BY <2>3, <3>1, <3>2 DEF KnowsStatus, At
        <4> QED BY <1>1, <3>1, <3>2, <4>1 DEF StatusAgrees, ActiveInstallations
      <3>3. CASE ~ At(p, "bootHost")
        <4>1. ActiveInstallations(h) = {}
          BY <1>1, <1>5, <2>3, <3>1, <3>3 DEF KnowsStatus, At, Marking
        <4> QED BY <1>1, <3>1, <3>3, <4>1 DEF StatusAgrees, ActiveInstallations
      <3> QED BY <3>2, <3>3
    <2> QED BY <2>1, <2>2, <2>3
  <1> QED BY <1>1, <1>2, <1>3, <1>5, FinishKnows DEF InOrder

(* The first half: only the host of the installation may disagree now. *)
LEMMA MarkInstallationSound ==
  ASSUME QueueInv, HistoryInv, NEW p \in Procs, Elsewhere(p), Notes(p, FALSE),
         BootStart(p) \/ \E result \in FinalStatus : ReportFinish(p, result)
  PROVE  InOrder(p, FALSE) /\ Sound(p)
  <1> DEFINE i == req[p].inst
             h == req[p].host
  <1>1. /\ req[p] \in Request /\ req \in [Procs -> Request] /\ UNCHANGED hosts
        /\ OwnInstallation(p) /\ ~ Marking(p) /\ MacsUnique
        /\ p \notin stale => UpToDate(p) /\ KnowsStatus(p)
    BY DEF QueueInv, HistoryInv, BootStart, ReportFinish, At, Marking,
       MarkInstallationStarted, MarkInstallationFinished
  <1>2. \A j \in DOMAIN installs : installs[j] \in InstallRow
    BY Rows DEF QueueInv, StoreInv
  <1>3. i \in DOMAIN installs => installs[i].host = h
    BY <1>1 DEF OwnInstallation, RestsOnQueue, BootStart, ReportFinish, At
  <1>4. /\ DOMAIN installs' = DOMAIN installs
        /\ i \in DOMAIN installs => installs'[i].host = h
        /\ \A j \in DOMAIN installs \ {i} : installs'[j] = installs[j]
        /\ \A j \in DOMAIN installs :
             installs'[j].status \in ActiveStatus => installs[j].status \in ActiveStatus
    BY <1>1, <1>2, <1>3
    DEF BootStart, ReportFinish, MarkInstallationStarted, MarkInstallationFinished, InstallRow,
        ActiveStatus, FinalStatus
  <1>5. \A g : ActiveInstallations(g)' \subseteq ActiveInstallations(g)
    BY <1>3, <1>4 DEF ActiveInstallations
  <1>6. /\ req'[p].at = IF BootStart(p) THEN "bootHost" ELSE "reportHost"
        /\ req'[p].host = h /\ req'[p].inst = i /\ req'[p].row = req[p].row
        /\ req[p].at = IF BootStart(p) THEN "bootStart" ELSE "reportFinish"
    <2>1. CASE BootStart(p)
      BY <1>1, <2>1 DEF BootStart, Goto, Request, At
    <2>2. CASE ~ BootStart(p)
      <3>1. PICK result \in FinalStatus : ReportFinish(p, result)
        BY <2>2
      <3>2. /\ req'[p] = [req[p] EXCEPT !.at = "reportHost", !.result = result]
            /\ req[p].at = "reportFinish"
        BY <1>1, <3>1 DEF ReportFinish, Goto, At
      <3> QED BY <1>1, <2>2, <3>2 DEF Request
    <2> QED BY <2>1, <2>2
  <1>7. ASSUME NEW g \in DOMAIN hosts' \ muddled
        PROVE  StatusAgrees(g)' \/ \E q \in Procs : Marking(q)' /\ req'[q].host = g
    <2>1. CASE g = h
      BY <1>6, <2>1 DEF Marking
    <2>2. CASE g # h
      <3>1. StatusAgrees(g) => StatusAgrees(g)'
        BY <1>1, <1>3, <1>4, <2>2 DEF StatusAgrees, ActiveInstallations
      <3> QED BY <1>1, <1>7, <3>1, OthersMark
    <2> QED BY <2>1, <2>2
  <1>8. InOrder(p, FALSE)
    <2>1. MacsUnique'
      BY <1>1 DEF MacsUnique
    <2>2. \A g \in HostId \ muddled : OneActive(g)'
      BY <1>5 DEF HistoryInv, OneActivePerHost, OneActive
    <2> QED BY <1>7, <2>1, <2>2 DEF InOrder
  <1>9. NewHostIdle(p)' /\ OwnInstallation(p)'
    BY <1>4, <1>6 DEF NewHostIdle, OwnInstallation
  <1>10. ASSUME p \notin stale PROVE UpToDate(p)' /\ KnowsStatus(p)'
    <2>1. h \in DOMAIN hosts /\ req[p].row = hosts[h]
      BY <1>1, <1>6, <1>10 DEF UpToDate, ForMachine, RestsOnHost
    <2>2. UpToDate(p)'
      BY <1>1, <1>6, <2>1 DEF UpToDate, At
    <2>3. i \in ActiveInstallations(h)
      BY <1>1, <1>6, <1>10 DEF KnowsStatus
    <2>4. CASE BootStart(p)
      <3>1. installs[i].status = "waiting"
        BY <1>1, <1>6, <1>10, <2>4 DEF KnowsStatus
      <3>2. installs'[i].status = "installing"
        BY <1>2, <2>3, <2>4, <3>1
        DEF BootStart, MarkInstallationStarted, InstallRow, ActiveInstallations
      <3>3. i \in DOMAIN installs' /\ installs'[i].host = h
        BY <1>4, <2>3 DEF ActiveInstallations
      <3>4. KnowsStatus(p)'
        BY <1>6, <2>4, <3>2, <3>3 DEF KnowsStatus, ActiveInstallations, ActiveStatus
      <3> QED BY <2>2, <3>4
    <2>5. CASE ~ BootStart(p)
      <3>1. installs'[i].status \notin ActiveStatus
        BY <1>2, <2>3, <2>5
        DEF ReportFinish, MarkInstallationFinished, InstallRow, ActiveInstallations, FinalStatus,
            ActiveStatus
      <3>2. h \notin muddled' => h \notin muddled
        <4>1. h \in HostId
          BY <2>1, Rows DEF QueueInv, StoreInv
        <4> QED BY <1>6, <4>1 DEF Notes, Settled
      <3>3. h \notin muddled => ActiveInstallations(h)' = {}
        <4> SUFFICES ASSUME h \notin muddled, NEW j \in ActiveInstallations(h)' PROVE FALSE
          BY <1>6 DEF ActiveInstallations
        <4>1. h \in HostId
          BY <2>1, Rows DEF QueueInv, StoreInv
        <4>2. OneActive(h)
          BY <4>1 DEF HistoryInv, OneActivePerHost
        <4>3. PICK g : g = h
          OBVIOUS
        <4>4. j \in ActiveInstallations(g)
          BY <1>5, <1>6, <4>3 DEF ActiveInstallations
        <4>5. j = i
          BY <2>3, <4>2, <4>3, <4>4 DEF OneActive
        <4> QED BY <3>1, <4>5 DEF ActiveInstallations
      <3>4. KnowsStatus(p)'
        BY <1>6, <2>5, <3>2, <3>3 DEF KnowsStatus, ActiveInstallations
      <3> QED BY <2>2, <3>4
    <2> QED BY <2>4, <2>5
  <1> QED BY <1>8, <1>9, <1>10 DEF Sound

-----------------------------------------------------------------------------
(* Faults *)

(* A failing store call changes nothing, but a second update that is lost  *)
(* leaves its host in disorder ...                                         *)
LEMMA FailureSound ==
  ASSUME QueueInv, HistoryInv, NEW p \in Procs, Elsewhere(p), StoreFails(p)
  PROVE  InOrder(p, TRUE) /\ Sound(p)
  <1>1. Finish(p) /\ UNCHANGED <<hosts, installs>>
    BY DEF StoreFails, tables
  <1>2. CASE ~ Marking(p)
    BY <1>1, <1>2, ReadsInOrder, FinishKnows
  <1>3. CASE Marking(p)
    <2>1. MacsUnique' /\ \A h \in HostId \ muddled : OneActive(h)'
      BY <1>1 DEF HistoryInv, MacsUnique, OneActivePerHost, OneActive, ActiveInstallations
    <2>2. ASSUME NEW h \in DOMAIN hosts' \ muddled
          PROVE  \/ StatusAgrees(h)' \/ Muddles(p, h, TRUE)
                 \/ \E q \in Procs : Marking(q)' /\ req'[q].host = h
      <3>1. CASE h = req[p].host
        BY <1>3, <3>1 DEF Muddles
      <3>2. CASE h # req[p].host
        <4>1. StatusAgrees(h) => StatusAgrees(h)'
          BY <1>1 DEF StatusAgrees, ActiveInstallations
        <4> QED BY <1>1, <2>2, <3>2, <4>1, OthersMark
      <3> QED BY <3>1, <3>2
    <2> QED BY <1>1, <2>1, <2>2, FinishKnows DEF InOrder
  <1> QED BY <1>2, <1>3

(* ... and so does a restart between the two.                              *)
LEMMA RestartRecorded ==
  ASSUME QueueInv, QueueInv', HistoryInv, Restart, NotesRestart
  PROVE  HistoryInv'
  <1>1. UNCHANGED <<hosts, installs>> /\ \A p \in Procs : req'[p].at = "idle"
    BY DEF Restart, tables, Idle
  <1>2. MacsUnique'
    BY <1>1 DEF HistoryInv, MacsUnique
  <1>3. \A p \in Procs : NewHostIdle(p)' /\ OwnInstallation(p)' /\ UpToDate(p)' /\ KnowsStatus(p)'
    BY <1>1, IdleKnows
  <1>4. \A h \in HostId \ muddled' :
          Settled(h)' \/ (h \notin muddled /\ \A p \in Procs : ~ Muddles(p, h, TRUE))
    BY DEF NotesRestart
  <1>5. OneActivePerHost'
    <2> SUFFICES ASSUME NEW h \in HostId \ muddled' PROVE OneActive(h)'
      BY DEF OneActivePerHost
    <2>1. CASE Settled(h)'
      BY <2>1 DEF Settled, OneActive
    <2>2. CASE h \notin muddled
      BY <1>1, <2>2 DEF HistoryInv, OneActivePerHost, OneActive, ActiveInstallations
    <2> QED BY <1>4, <2>1, <2>2
  <1>6. HostStatusAgrees'
    <2> SUFFICES ASSUME NEW h \in DOMAIN hosts' \ muddled' PROVE StatusAgrees(h)'
      BY DEF HostStatusAgrees
    <2>1. h \in HostId
      BY <1>1, Rows DEF QueueInv, StoreInv
    <2>2. CASE Settled(h)'
      BY <2>2 DEF Settled, StatusAgrees
    <2>3. CASE h \notin muddled /\ \A p \in Procs : ~ Muddles(p, h, TRUE)
      <3>1. StatusAgrees(h)
        BY <1>1, <2>3 DEF HistoryInv, HostStatusAgrees, Muddles
      <3> QED BY <1>1, <3>1 DEF StatusAgrees, ActiveInstallations
    <2> QED BY <1>4, <2>1, <2>2, <2>3
  <1> QED BY <1>2, <1>3, <1>5, <1>6 DEF HistoryInv

-----------------------------------------------------------------------------
(* The invariant of the history, and what follows *)

LEMMA HistoryInvInit == HInit => HistoryInv
  BY DEF HInit, Init, TablesInit, Empty, HistoryInv, MacsUnique, OneActivePerHost, OneActive,
     ActiveInstallations, HostStatusAgrees, NewHostIdle, OwnInstallation, UpToDate, KnowsStatus,
     At, Idle, ForMachine, RestsOnHost, RestsOnQueue

LEMMA HistoryInvStep == QueueInv /\ HistoryInv /\ [HNext]_hvars => HistoryInv'
  <1> SUFFICES ASSUME QueueInv, HistoryInv, [HNext]_hvars PROVE HistoryInv'
    OBVIOUS
  <1>1. QueueInv' /\ Evolves
    <2>1. [Next]_vars
      BY HistoryIsQueue DEF hvars
    <2> QED BY <2>1, QueueInvStep
  <1>2. ASSUME NEW p \in Procs, Arrive(p), Notes(p, FALSE) PROVE HistoryInv'
    <2>1. Elsewhere(p)
      BY <1>2, OthersWait
    <2>2. InOrder(p, FALSE) /\ Sound(p)
      BY <1>2, <2>1, ArrivalsSound, AtOnceSound DEF Arrive
    <2> QED BY <1>1, <1>2, <2>1, <2>2, Recorded
  <1>3. ASSUME NEW p \in Procs, Proceed(p), Notes(p, FALSE) PROVE HistoryInv'
    <2>1. Elsewhere(p)
      BY <1>3, OthersWait
    <2>2. InOrder(p, FALSE) /\ Sound(p)
      BY <1>3, <2>1, ReadersSound, CreatorsSound, InsertSound, UpdateSound, MarkHostSound,
         MarkInstallationSound
      DEF Proceed
    <2> QED BY <1>1, <1>3, <2>1, <2>2, Recorded
  <1>4. ASSUME NEW p \in Procs, StoreFails(p), Notes(p, TRUE) PROVE HistoryInv'
    <2>1. Elsewhere(p)
      BY <1>4, OthersWait
    <2>2. InOrder(p, TRUE) /\ Sound(p)
      BY <1>4, <2>1, FailureSound
    <2> QED BY <1>1, <1>4, <2>1, <2>2, Recorded
  <1>5. CASE Restart /\ NotesRestart
    BY <1>1, <1>5, RestartRecorded
  <1>6. CASE UNCHANGED hvars
    <2>1. UNCHANGED <<hosts, installs, req, stale, muddled>>
      BY <1>6 DEF hvars, vars, history
    <2> QED BY <2>1
      DEF HistoryInv, MacsUnique, OneActivePerHost, OneActive, ActiveInstallations,
          HostStatusAgrees, StatusAgrees, Marking, NewHostIdle, OwnInstallation, UpToDate,
          KnowsStatus, At
  <1> QED BY <1>2, <1>3, <1>4, <1>5, <1>6 DEF HNext

(* What a request knows of its host is true until somebody else changes    *)
(* it, and no other host is ever in disorder: however requests overlap,    *)
(* whatever store call fails and wherever the server stops.                *)
THEOREM HistoryInductive == HSpec => []HistoryInv
  BY HistoryInvInit, HistoryInvStep, HistoryKeepsQueueInv, PTL DEF HSpec

(* "At most one installation per host is active at any time", for every    *)
(* host on which no request acted after what it had read was changed.      *)
THEOREM OneActiveAlways == HSpec => []OneActivePerHost
  <1>1. HistoryInv => OneActivePerHost
    BY DEF HistoryInv
  <1> QED BY <1>1, HistoryInductive, PTL

(* "markInstalling transitions the queue entry and host": a host shows     *)
(* installing exactly while one of its installations is, but between the   *)
(* two updates, after the second one was lost and after an outdated one.   *)
THEOREM HostStatusAlwaysAgrees == HSpec => []HostStatusAgrees
  <1>1. HistoryInv => HostStatusAgrees
    BY DEF HistoryInv
  <1> QED BY <1>1, HistoryInductive, PTL

(* The pin of a host moves only where an update of that host is written. *)
LEMMA UpdateMovesOnePin ==
  ASSUME NEW h, NEW row, UpdateHost(h, row),
         NEW g \in DOMAIN hosts, hosts'[g].pin # hosts[g].pin
  PROVE  g = h /\ row.pin # hosts[h].pin
  BY DEF UpdateHost

LEMMA PinStep ==
  ASSUME QueueInv, HistoryInv, [HNext]_hvars,
         NEW h \in DOMAIN hosts, h \in DOMAIN hosts', hosts'[h].pin # hosts[h].pin
  PROVE  \E p \in Procs : /\ req[p].host = h /\ req'[p] = Idle
                          /\ At(p, "updateWrite") \/ (Marking(p) /\ p \in stale)
  <1>1. hosts' # hosts
    OBVIOUS
  <1>2. \A row : ~ CreateHost(row)
    <2>1. seq.host # h
      BY FreshHostIdle DEF QueueInv
    <2>2. \A row : CreateHost(row) => hosts'[h] = hosts[h]
      BY <2>1 DEF CreateHost, Put
    <2> QED BY <2>2
  <1>3. \A S : hosts' # Without(hosts, S)
    BY DEF Without, Restrict
  <1>4. PICK p \in Procs : Arrive(p) \/ Proceed(p)
    BY <1>1 DEF HNext, hvars, vars, Restart, StoreFails, tables
  <1>5. ~ Arrive(p)
    <2>1. \A g \in DOMAIN hosts : hosts[g] \in HostRow
      BY Rows DEF QueueInv, StoreInv
    <2>2. \A profile \in ProfileId : ~ RemoveProfile(p, profile)
      BY <2>1 DEF RemoveProfile, DeleteProfile, HostRow
    <2>3. \A g \in HostId : ~ RemoveHost(p, g)
      BY <1>3 DEF RemoveHost, DeleteHost
    <2> QED BY <1>1, <2>2, <2>3
      DEF Arrive, BeginCreate, Cancel, BeginAddHost, BeginUpdateHost, BeginBoot, BeginByToken,
          AddProfile, ChangeProfile, OverrideAnswer, RemoveISO, DeleteInstallation, CreateProfile,
          UpdateProfile, SetAnswerOverride, DeleteISO, tables
  <1>6. \/ UpdateHostWrite(p) \/ BootHost(p) \/ ReportHost(p)
    BY <1>1, <1>2, <1>4, <1>5
    DEF Proceed, CreateReadProfile, CreateCheckActive, CreateInsert, CreateInstallation, AddHost,
        UpdateHostPin, Discover, BootQueue, BootContext, BootStart, MarkInstallationStarted,
        TokenQueue, TokenContext, ReportFinish, MarkInstallationFinished, ReadActive, tables
  <1>7. /\ req[p] \in Request /\ req[p].row \in HostRow
        /\ p \notin stale => UpToDate(p)
    BY DEF QueueInv, HistoryInv, Request
  <1>8. CASE UpdateHostWrite(p)
    <2>1. req[p].host = h
      BY <1>8, UpdateMovesOnePin DEF UpdateHostWrite
    <2> QED BY <1>8, <2>1, FinishKnows DEF UpdateHostWrite
  <1>9. CASE BootHost(p) \/ ReportHost(p)
    <2> DEFINE status == IF At(p, "bootHost") THEN "installing"
                         ELSE IF req[p].result = "success" THEN "ready" ELSE "error"
    <2>1. /\ Finish(p) /\ Marking(p) /\ req[p].at \in ForMachine
          /\ UpdateHost(req[p].host, [req[p].row EXCEPT !.status = status])
      BY <1>9 DEF BootHost, ReportHost, At, Marking, ForMachine, RestsOnHost
    <2>2. [req[p].row EXCEPT !.status = status].pin = req[p].row.pin
      BY <1>7 DEF HostRow
    <2> HIDE DEF status
    <2>3. req[p].host = h /\ req[p].row.pin # hosts[h].pin
      BY <2>1, <2>2, UpdateMovesOnePin
    <2>4. p \in stale
      BY <1>7, <2>1, <2>3 DEF UpToDate
    <2> QED BY <2>1, <2>3, <2>4, FinishKnows
  <1> QED BY <1>6, <1>8, <1>9

(* "upgrading a host to a newer profile version is a visible, deliberate   *)
(* act": neither profile edits nor boots nor reports move a pin, except    *)
(* those that write back a row somebody has changed since they read it.    *)
THEOREM PinsMoveDeliberately == HSpec => PinMovesDeliberately
  <1> DEFINE Deliberate ==
        \A h \in DOMAIN hosts \cap DOMAIN hosts' :
          hosts'[h].pin # hosts[h].pin
            => \E p \in Procs : /\ req[p].host = h /\ req'[p] = Idle
                                /\ At(p, "updateWrite") \/ (Marking(p) /\ p \in stale)
  <1>1. QueueInv /\ HistoryInv /\ [HNext]_hvars => [Deliberate]_hvars
    BY PinStep
  <1>2. [](QueueInv /\ HistoryInv) /\ [][HNext]_hvars => [][Deliberate]_hvars
    BY <1>1, PTL
  <1>3. HSpec => [](QueueInv /\ HistoryInv) /\ [][HNext]_hvars
    BY HistoryKeepsQueueInv, HistoryInductive, PTL DEF HSpec
  <1> QED BY <1>2, <1>3 DEF PinMovesDeliberately
=============================================================================
