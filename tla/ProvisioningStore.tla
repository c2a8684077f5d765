-------------------------- MODULE ProvisioningStore --------------------------
(***************************************************************************)
(* The tables behind the installation queue and the store methods that     *)
(* write them (backend/internal/store, schema in db/migrations).           *)
(*                                                                         *)
(* The database is opened with one connection, so a store method is one    *)
(* atomic step: a table changes only through the operators below, and      *)
(* whatever the schema enforces (foreign keys, cascades, uniqueness) is    *)
(* part of them.  A table is a partial function from row ids to rows; an   *)
(* AUTOINCREMENT id is never handed out twice, hence seq.                  *)
(***************************************************************************)
EXTENDS Naturals, Functions

CONSTANTS
  Macs,         \* MAC addresses, normalised
  Configs,      \* profile configuration documents
  MaxIso,       \* bound: ISO images
  MaxHost,      \* bound: host rows ever created
  MaxProfile,   \* bound: profiles ever created
  MaxVersion,   \* bound: versions of a profile
  MaxInstall,   \* bound: installations ever queued
  MaxOverride   \* bound: answer files written by hand

ASSUME BoundsAssumption ==
  /\ Macs # {}
  /\ Configs # {}
  /\ {MaxIso, MaxHost, MaxProfile, MaxVersion, MaxInstall} \subseteq Nat \ {0}
  /\ MaxOverride \in Nat

VARIABLES profiles, versions, hosts, installs, seq

tables == <<profiles, versions, hosts, installs, seq>>

None == 0                       \* NULL, Go's zero id or "": row ids start at 1

HostId    == 1..MaxHost
ProfileId == 1..MaxProfile
VersionNo == 1..MaxVersion
InstallId == 1..MaxInstall
IsoId     == 1..MaxIso
VersionKey == ProfileId \X VersionNo     \* UNIQUE (profile_id, version)
Overrides == 0..MaxOverride              \* answer_override; None: the template's

HostStatus    == {"discovered", "ready", "installing", "error"}
InstallStatus == {"waiting", "installing", "success", "error"}
ActiveStatus  == {"waiting", "installing"}
FinalStatus   == {"success", "error"}

HostRow    == [mac: Macs, profile: ProfileId \cup {None},
               pin: VersionNo \cup {None}, status: HostStatus]
ProfileRow == [iso: IsoId \cup {None}, current: VersionNo]
VersionRow == [config: Configs, override: Overrides]
InstallRow == [host: HostId, version: VersionKey, status: InstallStatus]

Table(Id, Row) == UNION {[S -> Row] : S \in SUBSET Id}

TablesTypeOK ==
  /\ profiles \in Table(ProfileId, ProfileRow)
  /\ versions \in Table(VersionKey, VersionRow)
  /\ hosts    \in Table(HostId, HostRow)
  /\ installs \in Table(InstallId, InstallRow)
  /\ seq \in [host: 1..(MaxHost + 1), profile: 1..(MaxProfile + 1),
              install: 1..(MaxInstall + 1)]

Empty == [x \in {} |-> None]

(* The empty database the migrations leave behind. *)
TablesInit ==
  /\ profiles = Empty
  /\ versions = Empty
  /\ hosts    = Empty
  /\ installs = Empty
  /\ seq = [host |-> 1, profile |-> 1, install |-> 1]

Put(table, id, row) ==
  [x \in DOMAIN table \cup {id} |-> IF x = id THEN row ELSE table[x]]

Without(table, ids) == Restrict(table, DOMAIN table \ ids)

-----------------------------------------------------------------------------
(* Hosts *)

(* hosts.mac is UNIQUE, hosts.profile_id REFERENCES profiles. *)
HostRowAllowed(id, row) ==
  /\ row.profile \in DOMAIN profiles \cup {None}
  /\ \A other \in DOMAIN hosts \ {id} : hosts[other].mac # row.mac

CreateHost(row) ==
  /\ seq.host \in HostId                           \* bound
  /\ HostRowAllowed(seq.host, row)
  /\ hosts' = Put(hosts, seq.host, row)
  /\ seq' = [seq EXCEPT !.host = @ + 1]
  /\ UNCHANGED <<profiles, versions, installs>>

(* Overwrites every mutable column with what the caller holds; ErrNotFound *)
(* or a constraint failure leaves the table alone.                         *)
UpdateHost(id, row) ==
  /\ hosts' = IF id \in DOMAIN hosts /\ HostRowAllowed(id, row)
              THEN [hosts EXCEPT ![id] = row]
              ELSE hosts
  /\ UNCHANGED <<profiles, versions, installs, seq>>

(* installations.host_id ON DELETE CASCADE. *)
DeleteHost(id) ==
  /\ id \in DOMAIN hosts
  /\ hosts' = Without(hosts, {id})
  /\ installs' = Without(installs, {i \in DOMAIN installs : installs[i].host = id})
  /\ UNCHANGED <<profiles, versions, seq>>

-----------------------------------------------------------------------------
(* Installations *)

ActiveInstallations(h) ==
  {i \in DOMAIN installs : installs[i].host = h /\ installs[i].status \in ActiveStatus}

(* ORDER BY id DESC: of several active installations the newest. *)
IsActiveInstallationForHost(i, h) ==
  /\ i \in ActiveInstallations(h)
  /\ \A j \in ActiveInstallations(h) : j <= i

(* Both columns are foreign keys. *)
CreateInstallation(h, version) ==
  /\ seq.install \in InstallId                     \* bound
  /\ h \in DOMAIN hosts
  /\ version \in DOMAIN versions
  /\ installs' = Put(installs, seq.install,
                     [host |-> h, version |-> version, status |-> "waiting"])
  /\ seq' = [seq EXCEPT !.install = @ + 1]
  /\ UNCHANGED <<profiles, versions, hosts>>

(* Mutant: ... WHERE id = ? *)
MarkInstallationStartedAny(i) ==
  /\ installs' = IF i \in DOMAIN installs
                 THEN [installs EXCEPT ![i].status = "installing"]
                 ELSE installs
  /\ UNCHANGED <<profiles, versions, hosts, seq>>

(* ... WHERE id = ? AND status = 'waiting'; nobody looks at the row count. *)
MarkInstallationStarted(i) ==
  /\ installs' = IF i \in DOMAIN installs /\ installs[i].status = "waiting"
                 THEN [installs EXCEPT ![i].status = "installing"]
                 ELSE installs
  /\ UNCHANGED <<profiles, versions, hosts, seq>>

(* ... WHERE id = ?: whatever the status is. *)
MarkInstallationFinished(i, status) ==
  /\ status \in FinalStatus
  /\ installs' = IF i \in DOMAIN installs
                 THEN [installs EXCEPT ![i].status = status]
                 ELSE installs
  /\ UNCHANGED <<profiles, versions, hosts, seq>>

DeleteInstallation(i) ==
  /\ i \in DOMAIN installs
  /\ installs[i].status = "waiting"
  /\ installs' = Without(installs, {i})
  /\ UNCHANGED <<profiles, versions, hosts, seq>>

-----------------------------------------------------------------------------
(* Profiles and their versions: each operation is one transaction. *)

NewVersion(config) == [config |-> config, override |-> None]

CreateProfile(iso, config) ==
  /\ seq.profile \in ProfileId                     \* bound
  /\ profiles' = Put(profiles, seq.profile, [iso |-> iso, current |-> 1])
  /\ versions' = Put(versions, <<seq.profile, 1>>, NewVersion(config))
  /\ seq' = [seq EXCEPT !.profile = @ + 1]
  /\ UNCHANGED <<hosts, installs>>

Referenced(version) == \E i \in DOMAIN installs : installs[i].version = version

(* UpdateProfile without a config: only the metadata moves. *)
EditMetadata(p, iso) ==
  /\ profiles' = [profiles EXCEPT ![p].iso = iso]
  /\ UNCHANGED versions

(* Mutant: the head is edited whoever references it. *)
EditReferencedHead(p, iso, config) ==
  LET head == <<p, profiles[p].current>> IN
  /\ head \in DOMAIN versions
  /\ versions' = [versions EXCEPT ![head].config = config]
  /\ profiles' = [profiles EXCEPT ![p].iso = iso]

(* editHeadVersion: refused with ErrVersionInUse, and the whole            *)
(* transaction rolled back, once an installation references the head.      *)
EditHeadVersion(p, iso, config) ==
  LET head == <<p, profiles[p].current>> IN
  /\ head \in DOMAIN versions
  /\ ~ Referenced(head)
  /\ versions' = [versions EXCEPT ![head].config = config]
  /\ profiles' = [profiles EXCEPT ![p].iso = iso]

(* COALESCE(MAX(version), 0) + 1 *)
IsNextVersion(p, next) ==
  /\ \A n \in VersionNo : <<p, n>> \in DOMAIN versions => n < next
  /\ next = 1 \/ <<p, next - 1>> \in DOMAIN versions

(* Mutant: current_version is left behind. *)
AppendWithoutCurrent(p, iso, config) ==
  \E next \in VersionNo :
    /\ IsNextVersion(p, next)
    /\ versions' = Put(versions, <<p, next>>, NewVersion(config))
    /\ profiles' = [profiles EXCEPT ![p].iso = iso]

AppendProfileVersion(p, iso, config) ==
  \E next \in VersionNo :                          \* bound: MaxVersion
    /\ IsNextVersion(p, next)
    /\ versions' = Put(versions, <<p, next>>, NewVersion(config))
    /\ profiles' = [profiles EXCEPT ![p] = [iso |-> iso, current |-> next]]

UpdateProfile(p, iso, config) ==
  /\ p \in DOMAIN profiles
  /\ \/ EditMetadata(p, iso)
     \/ EditHeadVersion(p, iso, config)
     \/ AppendProfileVersion(p, iso, config)
  /\ UNCHANGED <<hosts, installs, seq>>

(* The answer file of a version, whoever references it. *)
SetAnswerOverride(version, override) ==
  /\ version \in DOMAIN versions
  /\ versions' = [versions EXCEPT ![version].override = override]
  /\ UNCHANGED <<profiles, hosts, installs, seq>>

(* The delete cascades to the versions, which an installation may still    *)
(* reference: then the statement fails as a whole.  hosts.profile_id is    *)
(* set NULL, hosts.profile_version is not touched.                         *)
DeleteProfile(p) ==
  /\ p \in DOMAIN profiles
  /\ \A i \in DOMAIN installs : installs[i].version[1] # p
  /\ profiles' = Without(profiles, {p})
  /\ versions' = Without(versions, {v \in DOMAIN versions : v[1] = p})
  /\ hosts' = [h \in DOMAIN hosts |->
                 IF hosts[h].profile = p THEN [hosts[h] EXCEPT !.profile = None]
                                         ELSE hosts[h]]
  /\ UNCHANGED <<installs, seq>>

(* profiles.iso_id ON DELETE SET NULL. *)
DeleteISO(iso) ==
  /\ profiles' = [p \in DOMAIN profiles |->
                    IF profiles[p].iso = iso THEN [profiles[p] EXCEPT !.iso = None]
                                             ELSE profiles[p]]
  /\ UNCHANGED <<versions, hosts, installs, seq>>

-----------------------------------------------------------------------------
(* Properties of the tables *)

(* The version a row pins exists, unless its profile is gone. *)
PinHolds(row) ==
  row.profile \in DOMAIN profiles => <<row.profile, row.pin>> \in DOMAIN versions

HostPinsHold == \A h \in DOMAIN hosts : PinHolds(hosts[h])

(* The versions of a profile are 1..current: appendProfileVersion computes *)
(* MAX(version) + 1 while everybody else trusts current_version.           *)
VersionsContiguous ==
  \A p \in DOMAIN profiles : \A n \in VersionNo :
    <<p, n>> \in DOMAIN versions <=> n <= profiles[p].current

(* The schema's foreign keys: the guards and cascades above. *)
ForeignKeysHold ==
  /\ \A h \in DOMAIN hosts : hosts[h].profile \in DOMAIN profiles \cup {None}
  /\ \A v \in DOMAIN versions : v[1] \in DOMAIN profiles
  /\ \A i \in DOMAIN installs :
       /\ installs[i].host \in DOMAIN hosts
       /\ installs[i].version \in DOMAIN versions

(* AUTOINCREMENT: what a row or a reference names was handed out before.   *)
IdsFresh ==
  /\ \A h \in DOMAIN hosts : h < seq.host
  /\ \A p \in DOMAIN profiles : p < seq.profile
  /\ \A i \in DOMAIN installs : i < seq.install

(* The inductive invariant of the tables. *)
StoreInv ==
  /\ TablesTypeOK
  /\ VersionsContiguous
  /\ ForeignKeysHold
  /\ IdsFresh
  /\ HostPinsHold

(* What a store method may do to rows read before it: versions go only     *)
(* with their profile, ids do not come back, a referenced config does not  *)
(* change, an installation keeps its host and version, never becomes       *)
(* waiting again and, once final, stays final.                             *)
Evolves ==
  /\ \A v \in DOMAIN versions : v[1] \in DOMAIN profiles' => v \in DOMAIN versions'
  /\ \A p \in DOMAIN profiles' : p < seq.profile => p \in DOMAIN profiles
  /\ \A h \in DOMAIN hosts' : h < seq.host => h \in DOMAIN hosts
  /\ seq.profile <= seq'.profile
  /\ seq.host <= seq'.host
  /\ seq.install <= seq'.install
  /\ \A i \in DOMAIN installs' : i < seq.install => i \in DOMAIN installs
  /\ \A i \in DOMAIN installs \cap DOMAIN installs' :
       /\ installs'[i].host = installs[i].host
       /\ installs'[i].version = installs[i].version
       /\ versions'[installs[i].version].config = versions[installs[i].version].config
       /\ installs'[i].status = "waiting" => installs[i].status = "waiting"
       /\ installs[i].status \in FinalStatus => installs'[i].status \in FinalStatus
  /\ \A i \in DOMAIN installs \ DOMAIN installs' :
       installs[i].status = "waiting" \/ installs[i].host \notin DOMAIN hosts'
=============================================================================
