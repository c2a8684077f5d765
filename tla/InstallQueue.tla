---------------------------- MODULE InstallQueue ----------------------------
(***************************************************************************)
(* The installation queue as its HTTP handlers run it: the API             *)
(* (internal/api) queues, cancels and edits, the boot chain                *)
(* (internal/boot) serves scripts and answer files to machines and takes   *)
(* the installers' reports.                                                *)
(*                                                                         *)
(* Every request has a goroutine of its own and no lock spans two store    *)
(* calls, so the handlers of different requests interleave between the     *)
(* calls.  A slot of Procs is one request in progress; req[p] holds the    *)
(* label of its next store call and the locals read so far.  Two reads     *)
(* are one step only where nothing that happens between them could make    *)
(* a difference; each such place says why.                                 *)
(*                                                                         *)
(* Machines and installers are outside HELBOOT.  What they can do is kept  *)
(* in issued: the tokens of the boot scripts that were served.  A token    *)
(* is unguessable, so a request by token carries one of these, at any      *)
(* later time and any number of times (installers retry and reboot).       *)
(***************************************************************************)
EXTENDS ProvisioningStore, FiniteSets

CONSTANTS
  Procs,        \* request slots: how many requests overlap
  MaxUnmarked   \* bound: installations served while marking them failed

ASSUME ProcsAssumption == Procs # {} /\ MaxUnmarked \in Nat

VARIABLES
  req,          \* the requests in progress
  issued,       \* installations whose boot script, hence token, was served
  unmarked      \* history: those served although marking them had failed

served == <<issued, unmarked>>
vars == <<profiles, versions, hosts, installs, seq, req, issued, unmarked>>

Labels == {"idle",
           "createProfile", "createActive", "createInsert",
           "addInsert", "updatePin", "updateWrite",
           "discover", "bootQueue", "bootContext", "bootStart", "bootHost",
           "tokenQueue", "tokenContext", "reportFinish", "reportHost"}

(* at: next store call; host, row: a host as it was read; target: the      *)
(* profile and version number a request is about; inst, seen: an           *)
(* installation and its status as read; result: the status reported.       *)
Request == [at: Labels, host: HostId \cup {None}, row: HostRow,
            target: (ProfileId \cup {None}) \X (VersionNo \cup {None}),
            inst: InstallId \cup {None}, seen: InstallStatus,
            result: FinalStatus]

BlankRow == [mac |-> CHOOSE m \in Macs : TRUE, profile |-> None,
             pin |-> None, status |-> "discovered"]

Idle == [at |-> "idle", host |-> None, row |-> BlankRow, target |-> <<None, None>>,
         inst |-> None, seen |-> "waiting", result |-> "success"]

Init ==
  /\ TablesInit
  /\ req = [p \in Procs |-> Idle]
  /\ issued = {}
  /\ unmarked = {}

At(p, label) == req[p].at = label
Goto(p, r) == req' = [req EXCEPT ![p] = r]
Finish(p) == Goto(p, Idle)

-----------------------------------------------------------------------------
(* POST /installations: handleCreateInstallation *)

(* The host is read; the profile is the one of the request or, without     *)
(* one, the host's, whose pinned version is then wanted (None: current).   *)
BeginCreate(p, h, override) ==
  LET wanted == IF override # None THEN override ELSE hosts[h].profile IN
  /\ At(p, "idle")
  /\ h \in DOMAIN hosts
  /\ wanted # None
  /\ Goto(p, [Idle EXCEPT !.at = "createProfile", !.host = h,
                !.target = <<wanted, IF override # None THEN None ELSE hosts[h].pin>>])
  /\ UNCHANGED <<tables, served>>

CreateReadProfile(p) ==
  LET r == req[p]
      profile == r.target[1] IN
  /\ At(p, "createProfile")
  /\ \/ /\ profile \in DOMAIN profiles
        /\ Goto(p, [r EXCEPT !.at = "createActive",
             !.target = <<profile, IF @[2] = None THEN profiles[profile].current ELSE @[2]>>])
     \/ /\ profile \notin DOMAIN profiles          \* unknown_profile
        /\ Finish(p)
  /\ UNCHANGED <<tables, served>>

(* Mutant: the queue is not looked at. *)
CreateUnchecked(p) ==
  /\ At(p, "createActive")
  /\ Goto(p, [req[p] EXCEPT !.at = "createInsert"])
  /\ UNCHANGED <<tables, served>>

CreateCheckActive(p) ==
  /\ At(p, "createActive")
  /\ \/ /\ ActiveInstallations(req[p].host) = {}
        /\ Goto(p, [req[p] EXCEPT !.at = "createInsert"])
     \/ /\ ActiveInstallations(req[p].host) # {}   \* already_active
        /\ Finish(p)
  /\ UNCHANGED <<tables, served>>

(* ProfileVersionNumber and CreateInstallation.  One step: a version goes  *)
(* away only with its profile and ids are not reused, so the insert's own  *)
(* foreign key refuses whatever changed after the lookup.                  *)
CreateInsert(p) ==
  LET r == req[p] IN
  /\ At(p, "createInsert")
  /\ \/ CreateInstallation(r.host, r.target)
     \/ /\ \/ r.host \notin DOMAIN hosts
           \/ r.target \notin DOMAIN versions
           \/ seq.install \notin InstallId         \* bound
        /\ UNCHANGED tables
  /\ Finish(p)
  /\ UNCHANGED served

(* DELETE /installations/{id}: the lookup before the delete only tells     *)
(* "unknown" from "not cancellable".                                       *)
Cancel(p, i) ==
  /\ At(p, "idle")
  /\ DeleteInstallation(i)
  /\ UNCHANGED <<req, served>>

-----------------------------------------------------------------------------
(* Hosts: handleCreateHost, handleUpdateHost, handleDeleteHost *)

(* Mutant: the version asked for is not looked up. *)
ResolvesUnchecked(target, pinned) ==
  \/ /\ target[1] = None
     /\ pinned = <<None, None>>
  \/ /\ target[1] \in DOMAIN profiles
     /\ pinned = <<target[1],
          IF target[2] = None THEN profiles[target[1]].current ELSE target[2]>>

(* resolveProfilePin: no profile, no pin; a profile without a version      *)
(* means its current version; a version must exist.  A version once        *)
(* created stays until its profile goes, so the two reads are one step.    *)
Resolves(target, pinned) ==
  \/ /\ target[1] = None
     /\ pinned = <<None, None>>
  \/ /\ target[1] \in DOMAIN profiles
     /\ target[2] = None
     /\ pinned = <<target[1], profiles[target[1]].current>>
  \/ /\ target[1] \in DOMAIN profiles
     /\ target \in DOMAIN versions
     /\ pinned = target

(* Without a profile nobody looks at the version asked for. *)
Targets == {<<None, None>>} \cup (ProfileId \X (VersionNo \cup {None}))

BeginAddHost(p, mac, target) ==
  /\ At(p, "idle")
  /\ \E pinned \in Targets :
       /\ Resolves(target, pinned)
       /\ Goto(p, [Idle EXCEPT !.at = "addInsert",
            !.row = [mac |-> mac, profile |-> pinned[1], pin |-> pinned[2],
                     status |-> "ready"]])
  /\ UNCHANGED <<tables, served>>

(* The look-up by MAC that answers 409 first is subsumed by the UNIQUE.    *)
AddHost(p) ==
  /\ At(p, "addInsert")
  /\ \/ CreateHost(req[p].row)
     \/ /\ \/ ~ HostRowAllowed(None, req[p].row)
           \/ seq.host \notin HostId               \* bound
        /\ UNCHANGED tables
  /\ Finish(p)
  /\ UNCHANGED served

(* The row is read first, the body decoded after it; what the request does *)
(* not carry, the status, is written back as it was read.                  *)
BeginUpdateHost(p, h) ==
  /\ At(p, "idle")
  /\ h \in DOMAIN hosts
  /\ Goto(p, [Idle EXCEPT !.at = "updatePin", !.host = h,
                !.row = [BlankRow EXCEPT !.status = hosts[h].status]])
  /\ UNCHANGED <<tables, served>>

UpdateHostPin(p, mac, target) ==
  LET r == req[p] IN
  /\ At(p, "updatePin")
  /\ \/ \E pinned \in Targets :
          /\ Resolves(target, pinned)
          /\ Goto(p, [r EXCEPT !.at = "updateWrite", !.row.mac = mac,
                        !.row.profile = pinned[1], !.row.pin = pinned[2]])
     \/ /\ \A pinned \in Targets : ~ Resolves(target, pinned)
        /\ Finish(p)
  /\ UNCHANGED <<tables, served>>

UpdateHostWrite(p) ==
  /\ At(p, "updateWrite")
  /\ UpdateHost(req[p].host, req[p].row)
  /\ Finish(p)
  /\ UNCHANGED served

RemoveHost(p, h) ==
  /\ At(p, "idle")
  /\ DeleteHost(h)
  /\ UNCHANGED <<req, served>>

-----------------------------------------------------------------------------
(* GET /boot/ipxe: handleScript, scriptFor, markInstalling *)

BeginBoot(p, mac) ==
  /\ At(p, "idle")
  /\ \/ \E h \in DOMAIN hosts :
          /\ hosts[h].mac = mac
          /\ Goto(p, [Idle EXCEPT !.at = "bootQueue", !.host = h, !.row = hosts[h]])
     \/ /\ \A h \in DOMAIN hosts : hosts[h].mac # mac
        /\ Goto(p, [Idle EXCEPT !.at = "discover", !.row = [BlankRow EXCEPT !.mac = mac]])
  /\ UNCHANGED <<tables, served>>

(* discover records an unknown machine; when that fails the script is      *)
(* rendered for a host without an id, which has no installation.           *)
Discover(p) ==
  LET r == req[p] IN
  /\ At(p, "discover")
  /\ \/ /\ CreateHost(r.row)
        /\ Goto(p, [r EXCEPT !.at = "bootQueue", !.host = seq.host])
     \/ /\ \/ ~ HostRowAllowed(None, r.row)
           \/ seq.host \notin HostId               \* bound
        /\ UNCHANGED tables
        /\ Finish(p)
  /\ UNCHANGED served

(* loadInstallContext, first read: the active installation of the host, if *)
(* any, for the request that goes on at label next.                        *)
ReadActive(p, next) ==
  LET r == req[p] IN
  /\ \/ \E i \in DOMAIN installs :
          /\ IsActiveInstallationForHost(i, r.host)
          /\ Goto(p, [r EXCEPT !.at = next, !.inst = i, !.seen = installs[i].status,
                        !.target = installs[i].version])
     \/ /\ ActiveInstallations(r.host) = {}
        /\ Finish(p)
  /\ UNCHANGED <<tables, served>>

(* The rest of loadInstallContext reads the version, its profile and the   *)
(* profile's ISO.  One step: a version and its profile go away together,   *)
(* and the config of a referenced version does not change.                 *)
Bootable(version) ==
  /\ version \in DOMAIN versions
  /\ profiles[version[1]].iso # None

BootQueue(p) == At(p, "bootQueue") /\ ReadActive(p, "bootContext")

(* Mutant: the script is written before the installation is marked. *)
BootServedFirst(p) ==
  LET r == req[p] IN
  /\ At(p, "bootContext")
  /\ \/ /\ Bootable(r.target)
        /\ IF r.seen = "waiting" THEN Goto(p, [r EXCEPT !.at = "bootStart"]) ELSE Finish(p)
        /\ issued' = issued \cup {r.inst}
        /\ UNCHANGED unmarked
     \/ /\ ~ Bootable(r.target)
        /\ Finish(p)
        /\ UNCHANGED served
  /\ UNCHANGED tables

BootContext(p) ==
  LET r == req[p] IN
  /\ At(p, "bootContext")
  /\ \/ /\ Bootable(r.target)
        /\ r.seen = "waiting"
        /\ Goto(p, [r EXCEPT !.at = "bootStart"])
        /\ UNCHANGED served
     \/ /\ Bootable(r.target)                      \* booted again: no marking
        /\ r.seen # "waiting"
        /\ Finish(p)
        /\ issued' = issued \cup {r.inst}
        /\ UNCHANGED unmarked
     \/ /\ ~ Bootable(r.target)                    \* message script
        /\ Finish(p)
        /\ UNCHANGED served
  /\ UNCHANGED tables

BootStart(p) ==
  /\ At(p, "bootStart")
  /\ MarkInstallationStarted(req[p].inst)
  /\ Goto(p, [req[p] EXCEPT !.at = "bootHost"])
  /\ unmarked' = unmarked \ {req[p].inst}
  /\ UNCHANGED issued

(* Mutant: only the queue entry is marked. *)
BootHostUnmarked(p) ==
  /\ At(p, "bootHost")
  /\ Finish(p)
  /\ issued' = issued \cup {req[p].inst}
  /\ UNCHANGED <<tables, unmarked>>

(* The host is written back as it was read, but installing; then the       *)
(* script goes out.                                                        *)
BootHost(p) ==
  LET r == req[p] IN
  /\ At(p, "bootHost")
  /\ UpdateHost(r.host, [r.row EXCEPT !.status = "installing"])
  /\ Finish(p)
  /\ issued' = issued \cup {r.inst}
  /\ UNCHANGED unmarked

-----------------------------------------------------------------------------
(* POST /boot/report/{token}: contextByToken, handleReport.  The requests  *)
(* for the answer file and the cloud-init seed make the same reads, write  *)
(* nothing and serve nothing that is not in issued: they are left out.     *)

(* InstallationByToken and HostByID.  One step, that of the second read:   *)
(* the installation's host never changes, and whatever removes either row  *)
(* in between makes the request answer 404 at one of the next reads.       *)
BeginByToken(p, token) ==
  /\ At(p, "idle")
  /\ token \in issued \cap DOMAIN installs
  /\ LET h == installs[token].host IN
     Goto(p, [Idle EXCEPT !.at = "tokenQueue", !.host = h, !.row = hosts[h]])
  /\ UNCHANGED <<tables, served>>

(* From here on the request is about the host's active installation.       *)
TokenQueue(p) == At(p, "tokenQueue") /\ ReadActive(p, "tokenContext")

TokenContext(p) ==
  LET r == req[p] IN
  /\ At(p, "tokenContext")
  /\ \/ /\ Bootable(r.target)
        /\ Goto(p, [r EXCEPT !.at = "reportFinish"])
     \/ /\ ~ Bootable(r.target)                    \* 404
        /\ Finish(p)
  /\ UNCHANGED <<tables, served>>

(* The status reported is taken from the request once the host is known.   *)
ReportFinish(p, result) ==
  LET r == req[p] IN
  /\ At(p, "reportFinish")
  /\ MarkInstallationFinished(r.inst, result)
  /\ Goto(p, [r EXCEPT !.at = "reportHost", !.result = result])
  /\ UNCHANGED served

(* Mutant: the reported status is copied to the host as it is. *)
ReportHostRaw(p) ==
  /\ At(p, "reportHost")
  /\ UpdateHost(req[p].host, [req[p].row EXCEPT !.status = req[p].result])
  /\ Finish(p)
  /\ UNCHANGED served

(* Mutant: the host is pinned to what was installed. *)
ReportHostPins(p) ==
  LET r == req[p] IN
  /\ At(p, "reportHost")
  /\ r.inst \in DOMAIN installs
  /\ UpdateHost(r.host, [r.row EXCEPT !.pin = installs[r.inst].version[2],
       !.status = IF r.result = "success" THEN "ready" ELSE "error"])
  /\ Finish(p)
  /\ UNCHANGED served

ReportHost(p) ==
  LET r == req[p] IN
  /\ At(p, "reportHost")
  /\ UpdateHost(r.host, [r.row EXCEPT
       !.status = IF r.result = "success" THEN "ready" ELSE "error"])
  /\ Finish(p)
  /\ UNCHANGED served

-----------------------------------------------------------------------------
(* Profiles and ISO images: one transaction or statement per request. *)

AddProfile(p, iso, config) ==
  /\ At(p, "idle")
  /\ CreateProfile(iso, config)
  /\ UNCHANGED <<req, served>>

ChangeProfile(p, profile, iso, config) ==
  /\ At(p, "idle")
  /\ UpdateProfile(profile, iso, config)
  /\ UNCHANGED <<req, served>>

RemoveProfile(p, profile) ==
  /\ At(p, "idle")
  /\ DeleteProfile(profile)
  /\ UNCHANGED <<req, served>>

(* handleSetAnswerOverride: the version of the path is looked up first, to *)
(* try the new text on its config; that it exists the update tests again.  *)
OverrideAnswer(p, version, override) ==
  /\ At(p, "idle")
  /\ SetAnswerOverride(version, override)
  /\ UNCHANGED <<req, served>>

RemoveISO(p, iso) ==
  /\ At(p, "idle")
  /\ DeleteISO(iso)
  /\ UNCHANGED <<req, served>>

-----------------------------------------------------------------------------
(* Faults *)

(* The next store call of a request fails (the disk is full, the database  *)
(* locked).  Most handlers answer 500, or a message script, and are done.  *)
(* markInstalling only logs: the script is served all the same, and when   *)
(* it was the first of its two updates, with nothing marked.               *)
StoreFails(p) ==
  LET r == req[p] IN
  /\ ~ At(p, "idle")
  /\ At(p, "bootStart") => Cardinality(unmarked) < MaxUnmarked      \* bound
  /\ Finish(p)
  /\ issued' = IF r.at \in {"bootStart", "bootHost"} THEN issued \cup {r.inst} ELSE issued
  /\ unmarked' = IF r.at = "bootStart" THEN unmarked \cup {r.inst} ELSE unmarked
  /\ UNCHANGED tables

(* The server stops at any point, requests in progress are lost, the       *)
(* committed tables are not.                                               *)
Restart ==
  /\ req' = [p \in Procs |-> Idle]
  /\ UNCHANGED <<tables, served>>

-----------------------------------------------------------------------------
Arrive(p) ==
  \/ \E h \in HostId, override \in ProfileId \cup {None} : BeginCreate(p, h, override)
  \/ \E i \in InstallId : Cancel(p, i)
  \/ \E mac \in Macs, target \in Targets : BeginAddHost(p, mac, target)
  \/ \E h \in HostId : BeginUpdateHost(p, h)
  \/ \E h \in HostId : RemoveHost(p, h)
  \/ \E mac \in Macs : BeginBoot(p, mac)
  \/ \E token \in InstallId : BeginByToken(p, token)
  \/ \E iso \in IsoId \cup {None}, config \in Configs : AddProfile(p, iso, config)
  \/ \E profile \in ProfileId, iso \in IsoId \cup {None}, config \in Configs :
       ChangeProfile(p, profile, iso, config)
  \/ \E version \in VersionKey, override \in Overrides : OverrideAnswer(p, version, override)
  \/ \E profile \in ProfileId : RemoveProfile(p, profile)
  \/ \E iso \in IsoId : RemoveISO(p, iso)

Proceed(p) ==
  \/ CreateReadProfile(p) \/ CreateCheckActive(p) \/ CreateInsert(p)
  \/ AddHost(p) \/ UpdateHostWrite(p)
  \/ \E mac \in Macs, target \in Targets : UpdateHostPin(p, mac, target)
  \/ Discover(p) \/ BootQueue(p) \/ BootContext(p) \/ BootStart(p) \/ BootHost(p)
  \/ TokenQueue(p) \/ TokenContext(p) \/ ReportHost(p)
  \/ \E result \in FinalStatus : ReportFinish(p, result)

Next == (\E p \in Procs : Arrive(p) \/ Proceed(p) \/ StoreFails(p)) \/ Restart

Spec == Init /\ [][Next]_vars

-----------------------------------------------------------------------------
(* Properties *)

(* Every row and every local of a handler is what the Go types and the     *)
(* schema's CHECK constraints allow.                                       *)
TypeOK ==
  /\ TablesTypeOK
  /\ req \in [Procs -> Request]
  /\ issued \subseteq InstallId
  /\ unmarked \subseteq InstallId

(* A profile assignment, in the table or in the row a handler is about to  *)
(* write back, pins a version that exists as long as the profile does:     *)
(* resolveProfilePin checked it, and only DeleteProfile removes versions.  *)
(* It is why queueing a host with its own profile finds its version.       *)
PinsExist ==
  /\ HostPinsHold
  /\ \A p \in Procs : PinHolds(req[p].row)

(* An installation whose script a machine has received can no longer be    *)
(* cancelled, unless marking it failed then and has not worked since:      *)
(* markInstalling runs before the script is written, and nothing makes an  *)
(* installation waiting again.                                             *)
NotWaiting(i) == i \in DOMAIN installs => installs[i].status # "waiting"

ServedIsStarted == \A i \in issued \ unmarked : NotWaiting(i)

(* History: a waiting installation may be cancelled, a started or finished *)
(* one leaves only with its host; no late boot script turns a finished     *)
(* installation back into a running one and none becomes waiting again     *)
(* (MarkInstallationStarted and DeleteInstallation test the status in the  *)
(* statement itself).                                                      *)
HistoryKept ==
  [][ \A i \in DOMAIN installs :
        IF i \in DOMAIN installs'
        THEN /\ installs'[i].host = installs[i].host
             /\ installs[i].status \in FinalStatus => installs'[i].status \in FinalStatus
             /\ installs[i].status = "installing" => installs'[i].status # "waiting"
        ELSE installs[i].status = "waiting" \/ installs[i].host \notin DOMAIN hosts' ]_vars

(* What an installation installs: its version's config and answer file,    *)
(* from the image its profile has now.                                     *)
Planned(i) ==
  LET version == installs[i].version IN
  [version |-> version, config |-> versions[version].config,
   override |-> versions[version].override, image |-> profiles[version[1]].iso]

(* Queueing fixes the version and its config for good, and no id is used   *)
(* twice; the image and the answer file of what is queued change only when *)
(* somebody edits the profile, the ISO images or that version's override,  *)
(* and then for all installations of it: the queue implements InstallPlan. *)
Plan == INSTANCE InstallPlan WITH
  Ids       <- InstallId,
  Versions  <- VersionKey,
  Images    <- IsoId \cup {None},
  NoImage   <- None,
  plan      <- [i \in DOMAIN installs |-> Planned(i)],
  next      <- seq.install

ImplementsPlan == Plan!Spec

(* "Installations pin a version snapshot so later profile edits never      *)
(* change what a queued host installs (ADR-0013)" (handlers_installations.go). *)
PlanFixed ==
  [][\A i \in DOMAIN installs \cap DOMAIN installs' : Planned(i)' = Planned(i)]_vars

(* The inductive invariant.  What a request holds was read from the tables *)
(* at some earlier point, so it may be out of date in every way that       *)
(* Evolves allows: the rows may be gone, but not their ids reused; a pin   *)
(* may be gone, but only with its profile; an installation seen started    *)
(* is not waiting.                                                         *)
LocalInv(p) ==
  /\ PinHolds(req[p].row)
  /\ req[p].row.profile < seq.profile
  /\ req[p].inst < seq.install
  /\ req[p].at \in {"bootContext", "bootStart", "bootHost"} => req[p].inst \in InstallId
  /\ \/ At(p, "bootHost")
     \/ At(p, "bootContext") /\ req[p].seen # "waiting"
     => NotWaiting(req[p].inst)

QueueInv ==
  /\ StoreInv
  /\ req \in [Procs -> Request]
  /\ served \in (SUBSET InstallId) \X (SUBSET InstallId)
  /\ \A p \in Procs : LocalInv(p)
  /\ \A i \in issued : i < seq.install
  /\ ServedIsStarted

(* "At most one installation per host is active at any time (enforced by   *)
(* the API)" (store/installations.go, ActiveInstallationForHost).          *)
AtMostOneActive ==
  \A i, j \in DOMAIN installs :
    /\ installs[i].status \in ActiveStatus
    /\ installs[j].status \in ActiveStatus
    /\ installs[i].host = installs[j].host
    => i = j
=============================================================================
