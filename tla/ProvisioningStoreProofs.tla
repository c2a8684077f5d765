----------------------- MODULE ProvisioningStoreProofs -----------------------
(***************************************************************************)
(* What every store method preserves, for all values of the constants.     *)
(*                                                                         *)
(* StoreInv is the inductive invariant of the tables alone.  Evolves is    *)
(* what a store method may do to a row somebody else has read before: it   *)
(* is all a handler needs to know of the handlers that run between two of  *)
(* its own steps (see InstallQueueProofs).                                 *)
(***************************************************************************)
EXTENDS ProvisioningStore, TLAPS

(* A table is a function from some ids to rows. *)
LEMMA TableMembership ==
  ASSUME NEW Id, NEW Row, NEW t
  PROVE  t \in Table(Id, Row) <=> DOMAIN t \subseteq Id /\ t \in [DOMAIN t -> Row]
  BY DEF Table

(* Inserting a row, or overwriting one, keeps a table a table. *)
LEMMA PutRow ==
  ASSUME NEW Id, NEW Row, NEW t \in Table(Id, Row), NEW key \in Id, NEW value \in Row
  PROVE  Put(t, key, value) \in Table(Id, Row)
  <1> DEFINE u == Put(t, key, value)
  <1>1. DOMAIN t \subseteq Id /\ t \in [DOMAIN t -> Row]
    BY TableMembership
  <1>2. u = [x \in DOMAIN t \cup {key} |-> IF x = key THEN value ELSE t[x]]
    BY DEF Put
  <1>3. DOMAIN u \subseteq Id /\ u \in [DOMAIN u -> Row]
    BY <1>1, <1>2
  <1> QED BY <1>3, TableMembership

(* So does deleting rows. *)
LEMMA WithoutRows ==
  ASSUME NEW Id, NEW Row, NEW t \in Table(Id, Row), NEW keys
  PROVE  Without(t, keys) \in Table(Id, Row)
  <1> DEFINE u == Without(t, keys)
  <1>1. DOMAIN t \subseteq Id /\ t \in [DOMAIN t -> Row]
    BY TableMembership
  <1>2. u = [x \in DOMAIN t \ keys |-> t[x]]
    BY DEF Without, Restrict
  <1>3. DOMAIN u \subseteq Id /\ u \in [DOMAIN u -> Row]
    BY <1>1, <1>2
  <1> QED BY <1>3, TableMembership

(* And updating one row in place. *)
LEMMA ExceptRow ==
  ASSUME NEW Id, NEW Row, NEW t \in Table(Id, Row), NEW key \in DOMAIN t, NEW value \in Row
  PROVE  [t EXCEPT ![key] = value] \in Table(Id, Row)
  <1> DEFINE u == [t EXCEPT ![key] = value]
  <1>1. DOMAIN t \subseteq Id /\ t \in [DOMAIN t -> Row]
    BY TableMembership
  <1>2. DOMAIN u \subseteq Id /\ u \in [DOMAIN u -> Row]
    BY <1>1
  <1> QED BY <1>2, TableMembership

(* The bounds are positive naturals. *)
LEMMA Bounds ==
  /\ MaxIso \in Nat /\ MaxHost \in Nat /\ MaxProfile \in Nat
  /\ MaxVersion \in Nat /\ MaxInstall \in Nat
  /\ MaxVersion >= 1
  BY BoundsAssumption

(* A version starts with the template's answer file. *)
LEMMA NewVersionTyped ==
  ASSUME NEW config \in Configs
  PROVE  NewVersion(config) \in VersionRow
  BY BoundsAssumption DEF NewVersion, VersionRow, Overrides, None

(* The rows a well-typed table holds. *)
LEMMA Rows ==
  ASSUME TablesTypeOK
  PROVE  /\ DOMAIN hosts \subseteq HostId
         /\ DOMAIN profiles \subseteq ProfileId
         /\ DOMAIN versions \subseteq VersionKey
         /\ DOMAIN installs \subseteq InstallId
         /\ \A h \in DOMAIN hosts : hosts[h] \in HostRow
         /\ \A p \in DOMAIN profiles : profiles[p] \in ProfileRow
         /\ \A v \in DOMAIN versions : versions[v] \in VersionRow
         /\ \A i \in DOMAIN installs : installs[i] \in InstallRow
  BY TableMembership DEF TablesTypeOK

(* The empty database satisfies the invariant. *)
LEMMA StoreInvInit == TablesInit => StoreInv
  <1> SUFFICES ASSUME TablesInit PROVE StoreInv
    OBVIOUS
  <1>1. ASSUME NEW Id, NEW Row PROVE Empty \in Table(Id, Row)
    <2>1. DOMAIN Empty = {} BY DEF Empty
    <2>2. Empty \in [DOMAIN Empty -> Row] BY <2>1 DEF Empty
    <2> QED BY <2>1, <2>2, TableMembership
  <1>2. DOMAIN Empty = {}
    BY DEF Empty
  <1>3. seq \in [host: 1..(MaxHost + 1), profile: 1..(MaxProfile + 1),
                 install: 1..(MaxInstall + 1)]
    BY Bounds DEF TablesInit
  <1> QED
    BY <1>1, <1>2, <1>3 DEF TablesInit, StoreInv, HostPinsHold, TablesTypeOK, VersionsContiguous,
       ForeignKeysHold, IdsFresh

-----------------------------------------------------------------------------
(* Hosts *)

LEMMA CreateHostStep ==
  ASSUME StoreInv, NEW row \in HostRow, PinHolds(row), CreateHost(row)
  PROVE  StoreInv' /\ Evolves
  <1> DEFINE id == seq.host
  <1> USE DEF StoreInv
  <1>1. id \in HostId /\ row.profile \in DOMAIN profiles \cup {None}
    BY DEF CreateHost, HostRowAllowed
  <1>2. /\ hosts' \in Table(HostId, HostRow)
        /\ DOMAIN hosts' = DOMAIN hosts \cup {id}
        /\ hosts'[id] = row
        /\ \A h \in DOMAIN hosts \ {id} : hosts'[h] = hosts[h]
    <2>1. hosts \in Table(HostId, HostRow) BY DEF TablesTypeOK
    <2>2. hosts' = Put(hosts, id, row) BY DEF CreateHost
    <2>3. Put(hosts, id, row) \in Table(HostId, HostRow)
      BY <1>1, <2>1, PutRow
    <2> QED BY <2>2, <2>3 DEF Put
  <1>3. id \notin DOMAIN hosts
    BY <1>1, Rows DEF IdsFresh, HostId
  <1>4. seq' = [seq EXCEPT !.host = id + 1] /\ UNCHANGED <<profiles, versions, installs>>
    BY DEF CreateHost
  <1>5. seq' \in [host: 1..(MaxHost + 1), profile: 1..(MaxProfile + 1),
                  install: 1..(MaxInstall + 1)]
    BY <1>1, <1>4, Bounds DEF TablesTypeOK, HostId
  <1>6. TablesTypeOK'
    BY <1>2, <1>4, <1>5 DEF TablesTypeOK
  <1>7. VersionsContiguous'
    BY <1>4 DEF VersionsContiguous
  <1>8. ForeignKeysHold'
    BY <1>1, <1>2, <1>3, <1>4 DEF ForeignKeysHold
  <1>9. seq'.host = id + 1 /\ seq'.profile = seq.profile /\ seq'.install = seq.install
    BY <1>4 DEF TablesTypeOK
  <1>10. IdsFresh'
    BY <1>1, <1>2, <1>4, <1>9, Rows DEF IdsFresh, HostId
  <1>11. HostPinsHold'
    BY <1>2, <1>3, <1>4 DEF HostPinsHold, PinHolds
  <1>12. Evolves
    <2>1. \A h \in DOMAIN hosts' : h < seq.host => h \in DOMAIN hosts
      BY <1>1, <1>2 DEF HostId
    <2>2. seq.profile <= seq'.profile /\ seq.host <= seq'.host /\ seq.install <= seq'.install
      BY <1>9 DEF TablesTypeOK
    <2> QED BY <2>1, <2>2, <1>4 DEF Evolves
  <1> QED BY <1>6, <1>7, <1>8, <1>10, <1>11, <1>12

LEMMA UpdateHostStep ==
  ASSUME StoreInv, NEW id, NEW row \in HostRow, PinHolds(row), UpdateHost(id, row)
  PROVE  StoreInv' /\ Evolves
  <1> USE DEF StoreInv
  <1>1. UNCHANGED <<profiles, versions, installs, seq>>
    BY DEF UpdateHost
  <1>2. /\ hosts' \in Table(HostId, HostRow)
        /\ DOMAIN hosts' = DOMAIN hosts
        /\ \A h \in DOMAIN hosts :
             \/ hosts'[h] = hosts[h]
             \/ hosts'[h] = row /\ row.profile \in DOMAIN profiles \cup {None}
    <2>1. CASE id \in DOMAIN hosts /\ HostRowAllowed(id, row)
      BY <2>1, ExceptRow DEF UpdateHost, HostRowAllowed, TablesTypeOK
    <2>2. CASE ~ (id \in DOMAIN hosts /\ HostRowAllowed(id, row))
      BY <2>2 DEF UpdateHost, TablesTypeOK
    <2> QED BY <2>1, <2>2
  <1>3. TablesTypeOK' /\ VersionsContiguous' /\ ForeignKeysHold' /\ IdsFresh'
    BY <1>1, <1>2 DEF TablesTypeOK, VersionsContiguous, ForeignKeysHold, IdsFresh
  <1>4. HostPinsHold'
    BY <1>1, <1>2 DEF HostPinsHold, PinHolds
  <1>5. Evolves
    BY <1>1, <1>2 DEF Evolves, TablesTypeOK
  <1> QED BY <1>3, <1>4, <1>5

LEMMA DeleteHostStep ==
  ASSUME StoreInv, NEW id, DeleteHost(id)
  PROVE  StoreInv' /\ Evolves
  <1> DEFINE theirs == {i \in DOMAIN installs : installs[i].host = id}
  <1> USE DEF StoreInv
  <1>1. UNCHANGED <<profiles, versions, seq>>
    BY DEF DeleteHost
  <1>2. /\ hosts' \in Table(HostId, HostRow)
        /\ DOMAIN hosts' = DOMAIN hosts \ {id}
        /\ \A h \in DOMAIN hosts \ {id} : hosts'[h] = hosts[h]
    <2>1. hosts \in Table(HostId, HostRow) BY DEF TablesTypeOK
    <2>2. hosts' = Without(hosts, {id}) BY DEF DeleteHost
    <2> QED BY <2>1, <2>2, WithoutRows DEF Without, Restrict
  <1>3. /\ installs' \in Table(InstallId, InstallRow)
        /\ DOMAIN installs' = DOMAIN installs \ theirs
        /\ \A i \in DOMAIN installs \ theirs : installs'[i] = installs[i]
    <2>1. installs \in Table(InstallId, InstallRow) BY DEF TablesTypeOK
    <2>2. installs' = Without(installs, theirs) BY DEF DeleteHost
    <2>3. Without(installs, theirs) \in Table(InstallId, InstallRow)
      BY <2>1, WithoutRows
    <2> QED BY <2>2, <2>3 DEF Without, Restrict
  <1>4. TablesTypeOK' /\ VersionsContiguous' /\ ForeignKeysHold' /\ IdsFresh'
    BY <1>1, <1>2, <1>3 DEF TablesTypeOK, VersionsContiguous, ForeignKeysHold, IdsFresh
  <1>5. HostPinsHold'
    BY <1>1, <1>2 DEF HostPinsHold, PinHolds
  <1>6. Evolves
    BY <1>1, <1>2, <1>3 DEF Evolves, TablesTypeOK
  <1> QED BY <1>4, <1>5, <1>6

-----------------------------------------------------------------------------
(* Installations *)

LEMMA CreateInstallationStep ==
  ASSUME StoreInv, NEW h, NEW version, CreateInstallation(h, version)
  PROVE  StoreInv' /\ Evolves
  <1> DEFINE id == seq.install
             row == [host |-> h, version |-> version, status |-> "waiting"]
  <1> USE DEF StoreInv
  <1>1. id \in InstallId /\ h \in DOMAIN hosts /\ version \in DOMAIN versions
    BY DEF CreateInstallation
  <1>2. row \in InstallRow
    BY <1>1, Rows DEF InstallRow, InstallStatus
  <1>3. /\ installs' \in Table(InstallId, InstallRow)
        /\ DOMAIN installs' = DOMAIN installs \cup {id}
        /\ installs'[id] = row
        /\ \A i \in DOMAIN installs \ {id} : installs'[i] = installs[i]
    <2>1. installs \in Table(InstallId, InstallRow) BY DEF TablesTypeOK
    <2>2. installs' = Put(installs, id, row) BY DEF CreateInstallation
    <2> QED BY <1>1, <1>2, <2>1, <2>2, PutRow DEF Put
  <1>4. id \notin DOMAIN installs
    BY <1>1, Rows DEF IdsFresh, InstallId
  <1>5. seq' = [seq EXCEPT !.install = id + 1] /\ UNCHANGED <<profiles, versions, hosts>>
    BY DEF CreateInstallation
  <1>6. seq' \in [host: 1..(MaxHost + 1), profile: 1..(MaxProfile + 1),
                  install: 1..(MaxInstall + 1)]
    BY <1>1, <1>5, Bounds DEF TablesTypeOK, InstallId
  <1>7. seq'.install = id + 1 /\ seq'.profile = seq.profile /\ seq'.host = seq.host
    BY <1>5 DEF TablesTypeOK
  <1>8. TablesTypeOK' /\ VersionsContiguous'
    BY <1>3, <1>5, <1>6 DEF TablesTypeOK, VersionsContiguous
  <1>9. ForeignKeysHold'
    BY <1>1, <1>3, <1>4, <1>5 DEF ForeignKeysHold
  <1>10. IdsFresh'
    BY <1>1, <1>3, <1>5, <1>7, Rows DEF IdsFresh, InstallId
  <1>11. HostPinsHold'
    BY <1>5 DEF HostPinsHold, PinHolds
  <1>12. Evolves
    <2>1. \A i \in DOMAIN installs' : i < seq.install => i \in DOMAIN installs
      BY <1>1, <1>3 DEF InstallId
    <2>2. seq.profile <= seq'.profile /\ seq.host <= seq'.host /\ seq.install <= seq'.install
      BY <1>7 DEF TablesTypeOK
    <2> QED BY <2>1, <2>2, <1>3, <1>4, <1>5 DEF Evolves
  <1> QED BY <1>8, <1>9, <1>10, <1>11, <1>12

(* The two status updates: one row changes, only in its status, forward.   *)
LEMMA StatusStep ==
  ASSUME StoreInv, NEW i \in DOMAIN installs, NEW status \in InstallStatus,
         installs' = [installs EXCEPT ![i].status = status],
         UNCHANGED <<profiles, versions, hosts, seq>>,
         status # "waiting",
         installs[i].status \in FinalStatus => status \in FinalStatus
  PROVE  StoreInv' /\ Evolves
  <1> DEFINE row == [installs[i] EXCEPT !.status = status]
  <1> USE DEF StoreInv
  <1>1. installs[i] \in InstallRow
    BY Rows
  <1>2. /\ row \in InstallRow
        /\ row.host = installs[i].host
        /\ row.version = installs[i].version
        /\ row.status = status
    BY <1>1 DEF InstallRow
  <1>3. installs' = [installs EXCEPT ![i] = row]
    OBVIOUS
  <1>4. /\ installs' \in Table(InstallId, InstallRow)
        /\ DOMAIN installs' = DOMAIN installs
        /\ installs'[i] = row
        /\ \A j \in DOMAIN installs \ {i} : installs'[j] = installs[j]
    <2>1. installs \in Table(InstallId, InstallRow) BY DEF TablesTypeOK
    <2>2. [installs EXCEPT ![i] = row] \in Table(InstallId, InstallRow)
      BY <1>2, <2>1, ExceptRow
    <2>3. DOMAIN installs \subseteq InstallId /\ installs \in [DOMAIN installs -> InstallRow]
      BY <2>1, TableMembership
    <2> QED BY <1>3, <2>2, <2>3
  <1>5. TablesTypeOK' /\ VersionsContiguous' /\ IdsFresh'
    BY <1>4 DEF TablesTypeOK, VersionsContiguous, IdsFresh
  <1>6. ForeignKeysHold'
    BY <1>2, <1>4 DEF ForeignKeysHold
  <1>7. HostPinsHold'
    BY DEF HostPinsHold, PinHolds
  <1>8. Evolves
    BY <1>2, <1>4 DEF Evolves, TablesTypeOK
  <1> QED BY <1>5, <1>6, <1>7, <1>8

(* A store call that changes no row at all. *)
LEMMA NoRowStep ==
  ASSUME StoreInv, UNCHANGED tables
  PROVE  StoreInv' /\ Evolves
  <1>1. UNCHANGED <<profiles, versions, hosts, installs, seq>>
    BY DEF tables
  <1>2. StoreInv'
    BY <1>1 DEF StoreInv, TablesTypeOK, VersionsContiguous, ForeignKeysHold, IdsFresh, HostPinsHold, PinHolds
  <1>3. Evolves
    BY <1>1 DEF Evolves, StoreInv, TablesTypeOK
  <1> QED BY <1>2, <1>3

LEMMA MarkInstallationStartedStep ==
  ASSUME StoreInv, NEW i, MarkInstallationStarted(i)
  PROVE  StoreInv' /\ Evolves
  <1>1. CASE i \in DOMAIN installs /\ installs[i].status = "waiting"
    BY <1>1, StatusStep DEF MarkInstallationStarted, InstallStatus, FinalStatus
  <1>2. CASE ~ (i \in DOMAIN installs /\ installs[i].status = "waiting")
    BY <1>2, NoRowStep DEF MarkInstallationStarted, tables
  <1> QED BY <1>1, <1>2

LEMMA MarkInstallationFinishedStep ==
  ASSUME StoreInv, NEW i, NEW status, MarkInstallationFinished(i, status)
  PROVE  StoreInv' /\ Evolves
  <1>1. CASE i \in DOMAIN installs
    BY <1>1, StatusStep DEF MarkInstallationFinished, InstallStatus, FinalStatus
  <1>2. CASE i \notin DOMAIN installs
    BY <1>2, NoRowStep DEF MarkInstallationFinished, tables
  <1> QED BY <1>1, <1>2

LEMMA DeleteInstallationStep ==
  ASSUME StoreInv, NEW i, DeleteInstallation(i)
  PROVE  StoreInv' /\ Evolves
  <1> USE DEF StoreInv
  <1>1. UNCHANGED <<profiles, versions, hosts, seq>> /\ installs[i].status = "waiting"
    BY DEF DeleteInstallation
  <1>2. /\ installs' \in Table(InstallId, InstallRow)
        /\ DOMAIN installs' = DOMAIN installs \ {i}
        /\ \A j \in DOMAIN installs \ {i} : installs'[j] = installs[j]
    <2>1. installs \in Table(InstallId, InstallRow) BY DEF TablesTypeOK
    <2>2. installs' = Without(installs, {i}) BY DEF DeleteInstallation
    <2> QED BY <2>1, <2>2, WithoutRows DEF Without, Restrict
  <1>3. TablesTypeOK' /\ VersionsContiguous' /\ ForeignKeysHold' /\ IdsFresh'
    BY <1>1, <1>2 DEF TablesTypeOK, VersionsContiguous, ForeignKeysHold, IdsFresh
  <1>4. HostPinsHold'
    BY <1>1 DEF HostPinsHold, PinHolds
  <1>5. Evolves
    BY <1>1, <1>2 DEF Evolves, TablesTypeOK
  <1> QED BY <1>3, <1>4, <1>5

-----------------------------------------------------------------------------
(* Profiles and versions *)

LEMMA CreateProfileStep ==
  ASSUME StoreInv, NEW iso \in IsoId \cup {None}, NEW config \in Configs,
         CreateProfile(iso, config)
  PROVE  StoreInv' /\ Evolves
  <1> DEFINE id == seq.profile
             row == [iso |-> iso, current |-> 1]
  <1> USE DEF StoreInv
  <1>1. id \in ProfileId /\ 1 \in VersionNo
    BY Bounds DEF CreateProfile, VersionNo
  <1>2. row \in ProfileRow
    BY <1>1 DEF ProfileRow
  <1>3. /\ profiles' \in Table(ProfileId, ProfileRow)
        /\ DOMAIN profiles' = DOMAIN profiles \cup {id}
        /\ profiles'[id] = row
        /\ \A p \in DOMAIN profiles \ {id} : profiles'[p] = profiles[p]
    <2>1. profiles \in Table(ProfileId, ProfileRow) BY DEF TablesTypeOK
    <2>2. profiles' = Put(profiles, id, row) BY DEF CreateProfile
    <2>3. Put(profiles, id, row) \in Table(ProfileId, ProfileRow)
      BY <1>1, <1>2, <2>1, PutRow
    <2> QED BY <2>2, <2>3 DEF Put
  <1>4. /\ versions' \in Table(VersionKey, VersionRow)
        /\ DOMAIN versions' = DOMAIN versions \cup {<<id, 1>>}
        /\ \A v \in DOMAIN versions \ {<<id, 1>>} : versions'[v] = versions[v]
    <2>1. versions \in Table(VersionKey, VersionRow) BY DEF TablesTypeOK
    <2>2. versions' = Put(versions, <<id, 1>>, NewVersion(config)) BY DEF CreateProfile
    <2>3. <<id, 1>> \in VersionKey BY <1>1 DEF VersionKey
    <2>4. Put(versions, <<id, 1>>, NewVersion(config)) \in Table(VersionKey, VersionRow)
      BY <2>1, <2>3, NewVersionTyped, PutRow
    <2> QED BY <2>2, <2>4 DEF Put
  <1>5. id \notin DOMAIN profiles /\ \A v \in DOMAIN versions : v[1] # id
    BY <1>1, Rows DEF IdsFresh, ProfileId, ForeignKeysHold
  <1>6. seq' = [seq EXCEPT !.profile = id + 1] /\ UNCHANGED <<hosts, installs>>
    BY DEF CreateProfile
  <1>7. seq' \in [host: 1..(MaxHost + 1), profile: 1..(MaxProfile + 1),
                  install: 1..(MaxInstall + 1)]
    <2>1. id + 1 \in 1..(MaxProfile + 1)
      BY <1>1, Bounds DEF ProfileId
    <2>2. seq \in [host: 1..(MaxHost + 1), profile: 1..(MaxProfile + 1),
                   install: 1..(MaxInstall + 1)]
      BY DEF TablesTypeOK
    <2> QED BY <1>6, <2>1, <2>2
  <1>8. seq'.profile = id + 1 /\ seq'.install = seq.install /\ seq'.host = seq.host
    BY <1>6 DEF TablesTypeOK
  <1>9. TablesTypeOK'
    BY <1>3, <1>4, <1>6, <1>7 DEF TablesTypeOK
  <1>10. VersionsContiguous'
    <2> SUFFICES ASSUME NEW p \in DOMAIN profiles', NEW n \in VersionNo
                 PROVE  <<p, n>> \in DOMAIN versions' <=> n <= profiles'[p].current
      BY DEF VersionsContiguous
    <2>1. CASE p = id
      <3>1. <<p, n>> \notin DOMAIN versions BY <2>1, <1>5
      <3>2. <<p, n>> \in DOMAIN versions' <=> n = 1 BY <2>1, <3>1, <1>4
      <3>3. profiles'[p].current = 1 BY <2>1, <1>3
      <3> QED BY <3>2, <3>3 DEF VersionNo
    <2>2. CASE p # id
      <3>1. p \in DOMAIN profiles /\ profiles'[p] = profiles[p] BY <2>2, <1>3
      <3>2. <<p, n>> \in DOMAIN versions' <=> <<p, n>> \in DOMAIN versions BY <2>2, <1>4
      <3> QED BY <3>1, <3>2 DEF VersionsContiguous
    <2> QED BY <2>1, <2>2
  <1>11. ForeignKeysHold'
    BY <1>3, <1>4, <1>6 DEF ForeignKeysHold
  <1>12. IdsFresh'
    BY <1>1, <1>3, <1>6, <1>8, Rows DEF IdsFresh, ProfileId
  <1>13. HostPinsHold'
    <2> SUFFICES ASSUME NEW h \in DOMAIN hosts, hosts[h].profile \in DOMAIN profiles'
                 PROVE  <<hosts[h].profile, hosts[h].pin>> \in DOMAIN versions'
      BY <1>6 DEF HostPinsHold, PinHolds
    <2>1. hosts[h].profile # id
      BY <1>1, <1>5 DEF ForeignKeysHold, None, ProfileId
    <2> QED BY <2>1, <1>3, <1>4 DEF HostPinsHold, PinHolds
  <1>14. Evolves
    <2>1. \A p \in DOMAIN profiles' : p < seq.profile => p \in DOMAIN profiles
      BY <1>1, <1>3 DEF ProfileId
    <2>2. seq.profile <= seq'.profile /\ seq.host <= seq'.host /\ seq.install <= seq'.install
      BY <1>8 DEF TablesTypeOK
    <2>3. \A i \in DOMAIN installs :
            versions'[installs[i].version].config = versions[installs[i].version].config
      BY <1>4, <1>5 DEF ForeignKeysHold
    <2> QED BY <2>1, <2>2, <2>3, <1>4, <1>6 DEF Evolves
  <1> QED BY <1>9, <1>10, <1>11, <1>12, <1>13, <1>14

(* The metadata part of every UpdateProfile.                               *)
LEMMA EditMetadataStep ==
  ASSUME StoreInv, NEW p \in DOMAIN profiles, NEW iso \in IsoId \cup {None},
         EditMetadata(p, iso), UNCHANGED <<hosts, installs, seq>>
  PROVE  StoreInv' /\ Evolves
  <1> DEFINE row == [profiles[p] EXCEPT !.iso = iso]
  <1> USE DEF StoreInv
  <1>1. row \in ProfileRow /\ row.current = profiles[p].current
    BY Rows DEF ProfileRow
  <1>2. profiles' = [profiles EXCEPT ![p] = row] /\ UNCHANGED versions
    BY DEF EditMetadata
  <1>3. /\ profiles' \in Table(ProfileId, ProfileRow)
        /\ DOMAIN profiles' = DOMAIN profiles
        /\ \A q \in DOMAIN profiles : profiles'[q].current = profiles[q].current
    <2>1. profiles \in Table(ProfileId, ProfileRow) BY DEF TablesTypeOK
    <2>2. [profiles EXCEPT ![p] = row] \in Table(ProfileId, ProfileRow)
      BY <1>1, <2>1, ExceptRow
    <2>3. DOMAIN profiles \subseteq ProfileId /\ profiles \in [DOMAIN profiles -> ProfileRow]
      BY <2>1, TableMembership
    <2> QED BY <1>1, <1>2, <2>2, <2>3
  <1>4. TablesTypeOK' /\ VersionsContiguous' /\ ForeignKeysHold' /\ IdsFresh' /\ HostPinsHold'
    BY <1>2, <1>3 DEF TablesTypeOK, VersionsContiguous, ForeignKeysHold, IdsFresh,
       HostPinsHold, PinHolds
  <1>5. Evolves
    BY <1>2, <1>3 DEF Evolves, TablesTypeOK
  <1> QED BY <1>4, <1>5

(* The in-place edit touches the config of one unreferenced version only.  *)
LEMMA EditHeadVersionStep ==
  ASSUME StoreInv, NEW p \in DOMAIN profiles, NEW iso \in IsoId \cup {None},
         NEW config \in Configs,
         EditHeadVersion(p, iso, config), UNCHANGED <<hosts, installs, seq>>
  PROVE  StoreInv' /\ Evolves
  <1> DEFINE row == [profiles[p] EXCEPT !.iso = iso]
             head == <<p, profiles[p].current>>
             edited == [versions[head] EXCEPT !.config = config]
  <1> USE DEF StoreInv
  <1>1. row \in ProfileRow /\ row.current = profiles[p].current
    BY Rows DEF ProfileRow
  <1>2. /\ profiles' = [profiles EXCEPT ![p] = row]
        /\ versions' = [versions EXCEPT ![head].config = config]
        /\ head \in DOMAIN versions
        /\ \A i \in DOMAIN installs : installs[i].version # head
    BY DEF EditHeadVersion, Referenced
  <1>3. /\ profiles' \in Table(ProfileId, ProfileRow)
        /\ DOMAIN profiles' = DOMAIN profiles
        /\ \A q \in DOMAIN profiles : profiles'[q].current = profiles[q].current
    <2>1. profiles \in Table(ProfileId, ProfileRow) BY DEF TablesTypeOK
    <2>2. [profiles EXCEPT ![p] = row] \in Table(ProfileId, ProfileRow)
      BY <1>1, <2>1, ExceptRow
    <2>3. DOMAIN profiles \subseteq ProfileId /\ profiles \in [DOMAIN profiles -> ProfileRow]
      BY <2>1, TableMembership
    <2> QED BY <1>1, <1>2, <2>2, <2>3
  <1>4. /\ versions' \in Table(VersionKey, VersionRow)
        /\ DOMAIN versions' = DOMAIN versions
        /\ \A v \in DOMAIN versions \ {head} : versions'[v] = versions[v]
    <2>1. versions \in Table(VersionKey, VersionRow) BY DEF TablesTypeOK
    <2>2. edited \in VersionRow
      BY <1>2, Rows DEF VersionRow
    <2>3. versions' = [versions EXCEPT ![head] = edited]
      BY <1>2
    <2> HIDE DEF edited
    <2>4. [versions EXCEPT ![head] = edited] \in Table(VersionKey, VersionRow)
      BY <1>2, <2>1, <2>2, ExceptRow
    <2>5. DOMAIN versions \subseteq VersionKey /\ versions \in [DOMAIN versions -> VersionRow]
      BY <2>1, TableMembership
    <2> QED BY <1>2, <2>3, <2>4, <2>5
  <1>5. TablesTypeOK' /\ VersionsContiguous' /\ ForeignKeysHold' /\ IdsFresh' /\ HostPinsHold'
    BY <1>3, <1>4 DEF TablesTypeOK, VersionsContiguous, ForeignKeysHold, IdsFresh,
       HostPinsHold, PinHolds
  <1>6. \A i \in DOMAIN installs :
          versions'[installs[i].version].config = versions[installs[i].version].config
    BY <1>2, <1>4 DEF ForeignKeysHold
  <1>7. Evolves
    BY <1>3, <1>4, <1>6 DEF Evolves, TablesTypeOK
  <1> QED BY <1>5, <1>7

(* MAX(version) + 1 is current + 1: the new head is a version nobody has.  *)
LEMMA AppendProfileVersionStep ==
  ASSUME StoreInv, NEW p \in DOMAIN profiles, NEW iso \in IsoId \cup {None},
         NEW config \in Configs,
         AppendProfileVersion(p, iso, config), UNCHANGED <<hosts, installs, seq>>
  PROVE  StoreInv' /\ Evolves
  <1> USE DEF StoreInv
  <1>1. PICK next \in VersionNo :
          /\ IsNextVersion(p, next)
          /\ versions' = Put(versions, <<p, next>>, NewVersion(config))
          /\ profiles' = [profiles EXCEPT ![p] = [iso |-> iso, current |-> next]]
    BY DEF AppendProfileVersion
  <1> DEFINE row == [iso |-> iso, current |-> next]
             key == <<p, next>>
  <1>2. profiles[p] \in ProfileRow /\ p \in ProfileId
    BY Rows
  <1>3. profiles[p].current \in VersionNo
    BY <1>2 DEF ProfileRow
  <1>4. next = profiles[p].current + 1
    <2>1. profiles[p].current < next
      BY <1>1, <1>3 DEF IsNextVersion, VersionsContiguous, VersionNo
    <2>2. next - 1 \in VersionNo /\ <<p, next - 1>> \in DOMAIN versions
      BY <1>1, <1>3, <2>1, Bounds DEF IsNextVersion, VersionNo
    <2>3. next - 1 <= profiles[p].current
      BY <2>2 DEF VersionsContiguous
    <2> QED BY <2>1, <2>3, <1>3 DEF VersionNo
  <1>5. key \notin DOMAIN versions
    BY <1>3, <1>4 DEF VersionsContiguous, VersionNo
  <1>6. /\ profiles' \in Table(ProfileId, ProfileRow)
        /\ DOMAIN profiles' = DOMAIN profiles
        /\ profiles'[p] = row
        /\ \A q \in DOMAIN profiles \ {p} : profiles'[q] = profiles[q]
    <2>1. profiles \in Table(ProfileId, ProfileRow) BY DEF TablesTypeOK
    <2>2. row \in ProfileRow BY DEF ProfileRow
    <2>3. [profiles EXCEPT ![p] = row] \in Table(ProfileId, ProfileRow)
      BY <2>1, <2>2, ExceptRow
    <2>4. DOMAIN profiles \subseteq ProfileId /\ profiles \in [DOMAIN profiles -> ProfileRow]
      BY <2>1, TableMembership
    <2> QED BY <1>1, <2>3, <2>4
  <1>7. /\ versions' \in Table(VersionKey, VersionRow)
        /\ DOMAIN versions' = DOMAIN versions \cup {key}
        /\ \A v \in DOMAIN versions : versions'[v] = versions[v]
    <2>1. versions \in Table(VersionKey, VersionRow) BY DEF TablesTypeOK
    <2>2. key \in VersionKey BY <1>2 DEF VersionKey
    <2>3. Put(versions, key, NewVersion(config)) \in Table(VersionKey, VersionRow)
      BY <2>1, <2>2, NewVersionTyped, PutRow
    <2> QED BY <1>1, <1>5, <2>3 DEF Put
  <1>8. TablesTypeOK' /\ ForeignKeysHold' /\ IdsFresh' /\ HostPinsHold'
    BY <1>6, <1>7 DEF TablesTypeOK, ForeignKeysHold, IdsFresh, HostPinsHold, PinHolds
  <1>9. VersionsContiguous'
    <2> SUFFICES ASSUME NEW q \in DOMAIN profiles, NEW n \in VersionNo
                 PROVE  <<q, n>> \in DOMAIN versions' <=> n <= profiles'[q].current
      BY <1>6 DEF VersionsContiguous
    <2>1. CASE q = p
      <3>1. <<q, n>> \in DOMAIN versions <=> n <= profiles[p].current
        BY <2>1 DEF VersionsContiguous
      <3>2. <<q, n>> \in DOMAIN versions' <=> n <= profiles[p].current \/ n = next
        BY <2>1, <3>1, <1>7
      <3> QED BY <2>1, <3>2, <1>3, <1>4, <1>6 DEF VersionNo
    <2>2. CASE q # p
      BY <2>2, <1>6, <1>7 DEF VersionsContiguous
    <2> QED BY <2>1, <2>2
  <1>10. Evolves
    BY <1>6, <1>7 DEF Evolves, TablesTypeOK, ForeignKeysHold
  <1> QED BY <1>8, <1>9, <1>10

LEMMA UpdateProfileStep ==
  ASSUME StoreInv, NEW p, NEW iso \in IsoId \cup {None}, NEW config \in Configs,
         UpdateProfile(p, iso, config)
  PROVE  StoreInv' /\ Evolves
  <1>1. p \in DOMAIN profiles /\ UNCHANGED <<hosts, installs, seq>>
    BY DEF UpdateProfile
  <1>2. CASE EditMetadata(p, iso)
    BY <1>1, <1>2, EditMetadataStep
  <1>3. CASE EditHeadVersion(p, iso, config)
    BY <1>1, <1>3, EditHeadVersionStep
  <1>4. CASE AppendProfileVersion(p, iso, config)
    BY <1>1, <1>4, AppendProfileVersionStep
  <1> QED BY <1>2, <1>3, <1>4 DEF UpdateProfile

(* A new answer file leaves the configuration of every version alone.      *)
LEMMA SetAnswerOverrideStep ==
  ASSUME StoreInv, NEW version, NEW override \in Overrides,
         SetAnswerOverride(version, override)
  PROVE  StoreInv' /\ Evolves
  <1> DEFINE row == [versions[version] EXCEPT !.override = override]
  <1> USE DEF StoreInv
  <1>1. UNCHANGED <<profiles, hosts, installs, seq>> /\ version \in DOMAIN versions
    BY DEF SetAnswerOverride
  <1>2. row \in VersionRow /\ row.config = versions[version].config
    BY <1>1, Rows DEF VersionRow
  <1>3. versions' = [versions EXCEPT ![version] = row]
    BY DEF SetAnswerOverride
  <1> HIDE DEF row
  <1>4. /\ versions' \in Table(VersionKey, VersionRow)
        /\ DOMAIN versions' = DOMAIN versions
        /\ \A v \in DOMAIN versions : versions'[v].config = versions[v].config
    <2>1. versions \in Table(VersionKey, VersionRow) BY DEF TablesTypeOK
    <2>2. [versions EXCEPT ![version] = row] \in Table(VersionKey, VersionRow)
      BY <1>1, <1>2, <2>1, ExceptRow
    <2>3. DOMAIN versions \subseteq VersionKey /\ versions \in [DOMAIN versions -> VersionRow]
      BY <2>1, TableMembership
    <2> QED BY <1>2, <1>3, <2>2, <2>3
  <1>5. TablesTypeOK' /\ VersionsContiguous' /\ ForeignKeysHold' /\ IdsFresh' /\ HostPinsHold'
    BY <1>1, <1>4 DEF TablesTypeOK, VersionsContiguous, ForeignKeysHold, IdsFresh,
       HostPinsHold, PinHolds
  <1>6. Evolves
    BY <1>1, <1>4 DEF Evolves, TablesTypeOK, ForeignKeysHold
  <1> QED BY <1>5, <1>6

LEMMA DeleteProfileStep ==
  ASSUME StoreInv, NEW p, DeleteProfile(p)
  PROVE  StoreInv' /\ Evolves
  <1> DEFINE its == {v \in DOMAIN versions : v[1] = p}
  <1> USE DEF StoreInv
  <1>1. /\ UNCHANGED <<installs, seq>>
        /\ \A i \in DOMAIN installs : installs[i].version[1] # p
        /\ profiles' = Without(profiles, {p})
        /\ versions' = Without(versions, its)
    BY DEF DeleteProfile
  <1>2. /\ profiles' \in Table(ProfileId, ProfileRow)
        /\ DOMAIN profiles' = DOMAIN profiles \ {p}
        /\ \A q \in DOMAIN profiles \ {p} : profiles'[q] = profiles[q]
    <2>1. profiles \in Table(ProfileId, ProfileRow) BY DEF TablesTypeOK
    <2> QED BY <1>1, <2>1, WithoutRows DEF Without, Restrict
  <1>3. /\ versions' \in Table(VersionKey, VersionRow)
        /\ DOMAIN versions' = DOMAIN versions \ its
        /\ \A v \in DOMAIN versions \ its : versions'[v] = versions[v]
    <2>1. versions \in Table(VersionKey, VersionRow) BY DEF TablesTypeOK
    <2>2. Without(versions, its) \in Table(VersionKey, VersionRow)
      BY <2>1, WithoutRows
    <2> QED BY <1>1, <2>2 DEF Without, Restrict
  <1>4. /\ hosts' \in Table(HostId, HostRow)
        /\ DOMAIN hosts' = DOMAIN hosts
        /\ \A h \in DOMAIN hosts :
             IF hosts[h].profile = p
             THEN hosts'[h].profile = None
             ELSE hosts'[h] = hosts[h]
    <2>1. DOMAIN hosts' = DOMAIN hosts BY DEF DeleteProfile
    <2>2. \A h \in DOMAIN hosts :
            hosts'[h] = IF hosts[h].profile = p THEN [hosts[h] EXCEPT !.profile = None]
                                                ELSE hosts[h]
      BY DEF DeleteProfile
    <2>3. \A h \in DOMAIN hosts : hosts[h] \in HostRow BY Rows
    <2>4. \A h \in DOMAIN hosts : hosts'[h] \in HostRow BY <2>2, <2>3 DEF HostRow
    <2>5. hosts' \in [DOMAIN hosts' -> HostRow] BY <2>1, <2>4 DEF DeleteProfile
    <2>6. DOMAIN hosts' \subseteq HostId BY <2>1, Rows
    <2>7. hosts' \in Table(HostId, HostRow) BY <2>5, <2>6, TableMembership
    <2> QED BY <2>1, <2>2, <2>3, <2>7 DEF HostRow
  <1>5. TablesTypeOK' /\ VersionsContiguous' /\ IdsFresh'
    BY <1>1, <1>2, <1>3, <1>4 DEF TablesTypeOK, VersionsContiguous, IdsFresh
  <1>6. ForeignKeysHold'
    BY <1>1, <1>2, <1>3, <1>4 DEF ForeignKeysHold
  <1>7. HostPinsHold'
    <2> SUFFICES ASSUME NEW h \in DOMAIN hosts, hosts'[h].profile \in DOMAIN profiles'
                 PROVE  <<hosts'[h].profile, hosts'[h].pin>> \in DOMAIN versions'
      BY <1>4 DEF HostPinsHold, PinHolds
    <2>1. hosts'[h] = hosts[h] /\ hosts[h].profile # p
      BY <1>2, <1>4, Rows DEF None, ProfileId
    <2> QED BY <2>1, <1>2, <1>3 DEF HostPinsHold, PinHolds
  <1>8. Evolves
    <2>1. \A i \in DOMAIN installs :
            versions'[installs[i].version].config = versions[installs[i].version].config
      BY <1>1, <1>3 DEF ForeignKeysHold
    <2>2. \A v \in DOMAIN versions : v[1] \in DOMAIN profiles' => v \in DOMAIN versions'
      BY <1>2, <1>3
    <2>3. \A q \in DOMAIN profiles' : q < seq.profile => q \in DOMAIN profiles
      BY <1>2
    <2>4. \A h \in DOMAIN hosts' : h < seq.host => h \in DOMAIN hosts
      BY <1>4
    <2>5. seq.profile <= seq'.profile /\ seq.host <= seq'.host /\ seq.install <= seq'.install
      BY <1>1 DEF TablesTypeOK
    <2> HIDE DEF StoreInv
    <2> QED BY <2>1, <2>2, <2>3, <2>4, <2>5, <1>1 DEF Evolves
  <1> QED BY <1>5, <1>6, <1>7, <1>8

LEMMA DeleteISOStep ==
  ASSUME StoreInv, NEW iso, DeleteISO(iso)
  PROVE  StoreInv' /\ Evolves
  <1> USE DEF StoreInv
  <1>1. UNCHANGED <<versions, hosts, installs, seq>>
    BY DEF DeleteISO
  <1>2. /\ profiles' \in Table(ProfileId, ProfileRow)
        /\ DOMAIN profiles' = DOMAIN profiles
        /\ \A p \in DOMAIN profiles : profiles'[p].current = profiles[p].current
    <2>1. DOMAIN profiles' = DOMAIN profiles BY DEF DeleteISO
    <2>2. \A p \in DOMAIN profiles :
            profiles'[p] = IF profiles[p].iso = iso THEN [profiles[p] EXCEPT !.iso = None]
                                                    ELSE profiles[p]
      BY DEF DeleteISO
    <2>3. \A p \in DOMAIN profiles : profiles[p] \in ProfileRow BY Rows
    <2>4. \A p \in DOMAIN profiles :
            profiles'[p] \in ProfileRow /\ profiles'[p].current = profiles[p].current
      BY <2>2, <2>3 DEF ProfileRow
    <2>5. profiles' \in [DOMAIN profiles' -> ProfileRow] BY <2>1, <2>4 DEF DeleteISO
    <2>6. DOMAIN profiles' \subseteq ProfileId BY <2>1, Rows
    <2>7. profiles' \in Table(ProfileId, ProfileRow) BY <2>5, <2>6, TableMembership
    <2> QED BY <2>1, <2>4, <2>7
  <1>3. TablesTypeOK' /\ VersionsContiguous' /\ ForeignKeysHold' /\ IdsFresh' /\ HostPinsHold'
    BY <1>1, <1>2 DEF TablesTypeOK, VersionsContiguous, ForeignKeysHold, IdsFresh,
       HostPinsHold, PinHolds
  <1>4. Evolves
    BY <1>1, <1>2 DEF Evolves, TablesTypeOK
  <1> QED BY <1>3, <1>4
=============================================================================
