----------------------------- MODULE DhcpObserver -----------------------------
(***************************************************************************)
(* Which DHCP servers are active on the segment                            *)
(* (internal/network/observer.go) and the warnings that follow             *)
(* (handleNetworkStatus).  Services feed the observer, requests read and   *)
(* prune it; its mutex makes each call one step.                           *)
(***************************************************************************)
EXTENDS Naturals, FiniteSets

CONSTANTS
  Self,       \* HELBOOT's own address
  Others,     \* addresses of other DHCP servers
  Window,     \* ticks a sighting stays relevant (30 minutes)
  MaxMinutes  \* bound on the clock

ASSUME ObserverAssumption ==
  /\ Window \in Nat /\ MaxMinutes \in Nat
  /\ Self \notin Others /\ IsFiniteSet(Others)
  /\ {"unspecified", "unset"} \cap (Others \cup {Self}) = {}

VARIABLES
  minutes,
  mode,       \* network.mode
  selfIP,     \* what SetSelfIP was told, or "unset"
  sightings,  \* server -> when it was last seen
  named,      \* history: server -> when a client last named it
  status      \* the last answer of handleNetworkStatus, and when

observer == <<minutes, mode, selfIP, sightings, named, status>>

ObserverInit ==
  /\ minutes = 0
  /\ mode = "proxy_dhcp" /\ selfIP = "unset"
  /\ sightings = << >> /\ named = << >>
  /\ status = [at |-> 0, mode |-> mode, servers |-> {}, warnings |-> {}]

Now(f, ip) == [x \in DOMAIN f \cup {ip} |-> IF x = ip THEN minutes ELSE f[x]]

(* buildNetworkServices, for the mode of the settings; the services that   *)
(* call Observe start after it.                                            *)
StartServices(m) ==
  /\ selfIP = "unset"
  /\ selfIP' = Self /\ mode' = m
  /\ UNCHANGED <<minutes, sightings, named, status>>

(* Observe, of a packet with message type type and option 54 server.       *)
Counts(type, server) ==
  /\ type = "REQUEST"
  /\ server # "unspecified"
  /\ server # selfIP

(* Mutant: a server that is known is not noted again. *)
ObserveOnce(type, server) ==
  /\ selfIP # "unset"
  /\ sightings' = IF Counts(type, server) /\ server \notin DOMAIN sightings
                    THEN Now(sightings, server) ELSE sightings
  /\ named' = IF type = "REQUEST" THEN Now(named, server) ELSE named
  /\ UNCHANGED <<minutes, mode, selfIP, status>>

Observe(type, server) ==
  /\ selfIP # "unset"
  /\ sightings' = IF Counts(type, server) THEN Now(sightings, server) ELSE sightings
  /\ named' = IF type = "REQUEST" THEN Now(named, server) ELSE named
  /\ UNCHANGED <<minutes, mode, selfIP, status>>

(* Sightings(observationWindow) *)
Recently == {ip \in DOMAIN sightings : sightings[ip] + Window >= minutes}

Warnings(servers) ==
  IF mode = "dhcp"
    THEN IF servers # {} THEN {"rogue_dhcp_server"} ELSE {}
    ELSE IF Cardinality(servers) >= 2 THEN {"multiple_dhcp_servers"} ELSE {}

HandleNetworkStatus ==
  /\ sightings' = [ip \in Recently |-> sightings[ip]]
  /\ status' = [at |-> minutes, mode |-> mode, servers |-> Recently,
                warnings |-> Warnings(Recently)]
  /\ UNCHANGED <<minutes, mode, selfIP, named>>

(* The settings change at once, the services only with the next start. *)
SetMode(m) ==
  /\ selfIP # "unset"
  /\ mode' = m
  /\ UNCHANGED <<minutes, selfIP, sightings, named, status>>

Minute ==
  /\ minutes < MaxMinutes
  /\ minutes' = minutes + 1
  /\ UNCHANGED <<mode, selfIP, sightings, named, status>>

ObserverNext ==
  \/ \E m \in {"dhcp", "proxy_dhcp"} : StartServices(m) \/ SetMode(m)
  \/ \E type \in {"DISCOVER", "REQUEST"}, ip \in Others \cup {Self, "unspecified"} :
       Observe(type, ip)
  \/ HandleNetworkStatus \/ Minute

ObserverSpec == ObserverInit /\ [][ObserverNext]_observer

-----------------------------------------------------------------------------
(* A status names exactly the servers, other than HELBOOT, that some       *)
(* client has named within the window: one that is still used is never     *)
(* forgotten, whenever it first appeared and whatever earlier statuses     *)
(* have pruned, and one that has gone is.  It warns of any of them when    *)
(* HELBOOT is the DHCP server itself, else of two or more.                 *)
Suspicious(m, servers) ==
  IF m = "dhcp" THEN servers # {} ELSE \E ip, other \in servers : ip # other

StatusIsCurrent ==
  /\ status.warnings # {} <=> Suspicious(status.mode, status.servers)
  /\ status.at = minutes =>
       /\ status.servers \subseteq {ip \in Others : ip \in DOMAIN named}
       /\ \A ip \in status.servers : named[ip] + Window >= minutes
       /\ \A ip \in Others \cap DOMAIN named :
            named[ip] < minutes /\ named[ip] + Window >= minutes => ip \in status.servers

(* The inductive invariant: the observer knows of every other server named *)
(* within the window when that last was, and of none but such servers.     *)
SightingsExact ==
  /\ DOMAIN sightings \subseteq Others \cap DOMAIN named
  /\ \A ip \in DOMAIN sightings : sightings[ip] = named[ip]
  /\ \A ip \in Others \cap DOMAIN named :
       named[ip] + Window >= minutes => ip \in DOMAIN sightings

ObserverInv ==
  /\ minutes \in Nat /\ status.at \in 0..minutes
  /\ selfIP \in {"unset", Self}
  /\ \A ip \in DOMAIN named : named[ip] \in 0..minutes
  /\ SightingsExact /\ StatusIsCurrent
=============================================================================
