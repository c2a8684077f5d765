---------------------------- MODULE QueueHistory ----------------------------
(***************************************************************************)
(* InstallQueue with two history variables that constrain no step: they    *)
(* record which requests act on something that has changed since they      *)
(* read it, and which hosts that, or a fault between two updates, may have *)
(* left in disorder.  With them the promises that overlapping requests can *)
(* break are stated for every behaviour, and say exactly what breaks them. *)
(***************************************************************************)
EXTENDS InstallQueue

VARIABLES
  stale,        \* requests of which something they read has been changed since
  muddled       \* hosts whose status or queue need not be in order

history == <<stale, muddled>>
hvars == <<vars, history>>

(* What a request about a host goes by at each label: the row of the host, *)
(* and which of its installations are active and how far they are.         *)
RestsOnHost == {"updatePin", "updateWrite", "bootQueue", "bootContext", "bootStart", "bootHost",
                "tokenQueue", "tokenContext", "reportFinish", "reportHost"}
RestsOnQueue == {"createInsert", "bootContext", "bootStart", "bootHost",
                 "tokenContext", "reportFinish", "reportHost"}

QueueOf(h) == {<<i, installs[i].status>> : i \in ActiveInstallations(h)}

HostChanges(h) == ~ (h \in DOMAIN hosts \cap DOMAIN hosts' /\ hosts'[h] = hosts[h])

(* What the request in slot q goes by is changed in this step. *)
Outdated(q) ==
  \/ req[q].at \in RestsOnHost /\ HostChanges(req[q].host)
  \/ req[q].at \in RestsOnQueue /\ QueueOf(req[q].host)' # QueueOf(req[q].host)

(* The second of the two updates of markInstalling and handleReport.       *)
Marking(q) == req[q].at \in {"bootHost", "reportHost"}

(* The last update of the request in slot p, made on an outdated view of   *)
(* host h or failing half-way, may leave the host in disorder ...          *)
Muddles(p, h, fails) ==
  /\ req[p].host = h
  /\ IF fails THEN Marking(p)
              ELSE p \in stale /\ (Marking(p) \/ req[p].at \in {"createInsert", "updateWrite"})

(* ... until nothing is queued or in progress for it any more.             *)
Settled(h) ==
  /\ ActiveInstallations(h) = {}
  /\ h \in DOMAIN hosts => hosts[h].status # "installing"
  /\ \A q \in Procs : req[q].host # h

(* What the history variables note of a step of slot p. *)
Notes(p, fails) ==
  /\ stale' = {q \in Procs : IF q = p THEN p \in stale /\ ~ At(p, "idle")'
                                      ELSE q \in stale \/ Outdated(q)}
  /\ muddled' = {h \in HostId : ~ Settled(h)' /\ (h \in muddled \/ Muddles(p, h, fails))}

NotesRestart ==
  /\ stale' = {}
  /\ muddled' = {h \in HostId : ~ Settled(h)' /\ (h \in muddled \/ \E p \in Procs : Muddles(p, h, TRUE))}

HInit == Init /\ stale = {} /\ muddled = {}

HNext ==
  \/ \E p \in Procs : (Arrive(p) \/ Proceed(p)) /\ Notes(p, FALSE)
  \/ \E p \in Procs : StoreFails(p) /\ Notes(p, TRUE)
  \/ Restart /\ NotesRestart

HSpec == HInit /\ [][HNext]_hvars

-----------------------------------------------------------------------------
(* Properties *)

(* "At most one installation per host is active at any time": of a host    *)
(* for which no request ever acted on a queue or a row that had changed    *)
(* since it looked.                                                        *)
OneActive(h) == \A i, j \in ActiveInstallations(h) : i = j

OneActivePerHost == \A h \in HostId \ muddled : OneActive(h)

StatusAgrees(h) ==
  hosts[h].status = "installing"
    <=> \E i \in ActiveInstallations(h) : installs[i].status = "installing"

(* "markInstalling transitions the queue entry and host": a host is shown  *)
(* as installing exactly while one of its installations is, except between *)
(* the two updates, and unless an outdated request wrote to it or the      *)
(* second update was lost (boot/install.go, markInstalling, handleReport). *)
HostStatusAgrees ==
  \A h \in DOMAIN hosts \ muddled :
    StatusAgrees(h) \/ \E p \in Procs : Marking(p) /\ req[p].host = h

(* "upgrading a host to a newer profile version is a visible, deliberate   *)
(* act" (ADR-0013): neither an edit of the profile nor a new version of it *)
(* moves the pin of a host, only a request to update that host does, or a  *)
(* boot or a report that writes back a row read before such a request.     *)
PinMovesDeliberately ==
  [][ \A h \in DOMAIN hosts \cap DOMAIN hosts' :
        hosts'[h].pin # hosts[h].pin
          => \E p \in Procs : /\ req[p].host = h /\ req'[p] = Idle
                              /\ At(p, "updateWrite") \/ (Marking(p) /\ p \in stale) ]_hvars

-----------------------------------------------------------------------------
(* The inductive invariant: what a request that is not outdated knows. *)

MacsUnique == \A g, h \in DOMAIN hosts : hosts[g].mac = hosts[h].mac => g = h

ForMachine == RestsOnHost \ {"updatePin", "updateWrite"}

UpToDate(p) ==
  /\ req[p].at \in ForMachine => req[p].host \in DOMAIN hosts /\ req[p].row = hosts[req[p].host]
  /\ req[p].at \in {"updatePin", "updateWrite"} =>
       req[p].host \in DOMAIN hosts /\ req[p].row.status = hosts[req[p].host].status
  /\ At(p, "createInsert") => ActiveInstallations(req[p].host) = {}

KnowsStatus(p) ==
  LET r == req[p] IN
  /\ r.at \in {"bootContext", "bootStart", "bootHost", "tokenContext", "reportFinish"} =>
       r.inst \in ActiveInstallations(r.host)
  /\ r.at \in {"bootContext", "bootStart"} => installs[r.inst].status = r.seen
  /\ r.at = "bootStart" => r.seen = "waiting"
  /\ r.at = "bootHost" => installs[r.inst].status = "installing"
  /\ r.at = "reportHost" /\ r.host \notin muddled => ActiveInstallations(r.host) = {}

(* A host about to be created is not installing. *)
NewHostIdle(p) == req[p].at \in {"addInsert", "discover"} => req[p].row.status # "installing"

(* Outdated or not, a request is about an installation of its host. *)
OwnInstallation(p) ==
  req[p].at \in RestsOnQueue \ {"createInsert"} /\ req[p].inst \in DOMAIN installs
    => installs[req[p].inst].host = req[p].host

HistoryInv ==
  /\ MacsUnique
  /\ \A p \in Procs : NewHostIdle(p) /\ OwnInstallation(p)
  /\ \A p \in Procs \ stale : UpToDate(p) /\ KnowsStatus(p)
  /\ OneActivePerHost
  /\ HostStatusAgrees
=============================================================================
