----------------------------- MODULE DhcpServer -----------------------------
(***************************************************************************)
(* The DHCP server in Mode B (internal/network/dhcpserver.go): its packet  *)
(* handler over the lease pool, and the pool's life across restarts        *)
(* (cmd/helboot/services.go).                                              *)
(*                                                                         *)
(* The server runs the handler of each packet in a goroutine of its own,   *)
(* so handlers interleave between their calls of the pool.  Clients are    *)
(* outside: any packet may come at any time.  What they were told is kept  *)
(* in promised: the address and the end of the lease of the last ACK,      *)
(* until the server handles their release.                                 *)
(***************************************************************************)
EXTENDS LeasePool

CONSTANTS
  Ends,         \* the addresses the range may be configured to start or end at
  Handlers,     \* packet handlers that run at the same time
  MayRestart    \* whether the server may be killed and started again

ASSUME ServerAssumption ==
  /\ Clients # {}
  /\ Ends \subseteq Addrs
  /\ MayRestart \in BOOLEAN

VARIABLES
  configured,   \* the range in the settings
  packet,       \* the packets being handled
  promised      \* what each client was last told

vars == <<range, byMAC, byIP, leases, now, configured, packet, promised>>

Requestable == Addrs \cup {NoIP}

Packet == [at : {"idle", "renew", "retry"}, mac : Clients, requested : Addrs]

Waiting == [at |-> "idle", mac |-> CHOOSE c \in Clients : TRUE, requested |-> 0]

(* The service runs only with a valid range: NewLeasePool fails otherwise. *)
Up == range[1] <= range[2]

Init ==
  /\ configured \in Ends \X Ends
  /\ range = configured
  /\ byMAC = Empty /\ byIP = Empty /\ leases = Empty
  /\ now = 0
  /\ packet = [h \in Handlers |-> Waiting]
  /\ promised = Empty

Done(h) == packet' = [packet EXCEPT ![h] = Waiting]

Ack(mac, a) == promised' = Put(promised, mac, [ip |-> a, expires |-> now + Duration])

(* Mutant: the requested address is recorded when the pool is full. *)
DiscoverRequested(mac, requested) ==
  /\ Up
  /\ \/ \E a \in Addrs : Chooses(a, mac, requested) /\ Assign(mac, a)
     \/ Exhausted(mac, requested) /\ Assign(mac, requested)
  /\ UNCHANGED <<now, configured, packet, promised>>

(* DISCOVER: the offer reserves the address, but promises nothing yet. *)
Discover(mac, requested) ==
  /\ Up
  /\ \/ \E a \in Addrs : Chooses(a, mac, requested) /\ Assign(mac, a)
     \/ Exhausted(mac, requested) /\ UNCHANGED pool
  /\ UNCHANGED <<now, configured, packet, promised>>

(* REQUEST: is the address the client asks for its own?  Without one, or   *)
(* for 0.0.0.0, it is the address the client has: one it renews, or again  *)
(* 0.0.0.0.                                                                *)
BeginRequest(h, mac, requested) ==
  /\ Up
  /\ packet[h].at = "idle"
  /\ packet' = [packet EXCEPT ![h] =
       [at |-> IF Confirms(mac, requested) THEN "renew" ELSE "retry",
        mac |-> mac, requested |-> requested]]
  /\ UNCHANGED <<pool, now, configured, promised>>

(* Mutant: ACK at once, without allocating again. *)
RenewAtOnce(h) ==
  /\ packet[h].at = "renew"
  /\ Ack(packet[h].mac, packet[h].requested)
  /\ Done(h)
  /\ UNCHANGED <<pool, now, configured>>

(* If so: allocate again, which extends it, and ACK whatever comes back.   *)
Renew(h) ==
  LET mac == packet[h].mac IN
  /\ packet[h].at = "renew"
  /\ \/ \E a \in Addrs :
          /\ Chooses(a, mac, packet[h].requested)
          /\ Assign(mac, a)
          /\ Ack(mac, a)
     \/ /\ Exhausted(mac, packet[h].requested)     \* an ACK without address
        /\ UNCHANGED <<pool, promised>>
  /\ Done(h)
  /\ UNCHANGED <<now, configured>>

(* If not: allocate, ACK if that gives the requested address, else NAK.    *)
Retry(h) ==
  LET mac == packet[h].mac IN
  /\ packet[h].at = "retry"
  /\ \/ \E a \in Addrs :
          /\ Chooses(a, mac, packet[h].requested)
          /\ Assign(mac, a)
          /\ IF a = packet[h].requested THEN Ack(mac, a) ELSE UNCHANGED promised
     \/ /\ Exhausted(mac, packet[h].requested)
        /\ UNCHANGED <<pool, promised>>
  /\ Done(h)
  /\ UNCHANGED <<now, configured>>

(* RELEASE and DECLINE. *)
GiveUp(mac) ==
  /\ Up
  /\ Release(mac)
  /\ promised' = Drop(promised, {mac})
  /\ UNCHANGED <<now, configured, packet>>

(* PUT /network writes setting after setting, in random order and without  *)
(* a transaction, and does not compare the two ends.                       *)
SaveRange(end, a) ==
  /\ configured' = [configured EXCEPT ![end] = a]
  /\ UNCHANGED <<pool, now, packet, promised>>

(* buildDHCPServer, after the process was killed at any point. *)
Restart ==
  /\ MayRestart
  /\ IF configured[1] <= configured[2]
     THEN Rebuild(configured)
     ELSE range' = configured /\ byMAC' = Empty /\ byIP' = Empty /\ UNCHANGED leases
  /\ packet' = [h \in Handlers |-> Waiting]
  /\ UNCHANGED <<now, configured, promised>>

Tick ==
  /\ now < MaxTime                                 \* bound
  /\ now' = now + 1
  /\ UNCHANGED <<pool, configured, packet, promised>>

Next ==
  \/ \E mac \in Clients, requested \in Requestable : Discover(mac, requested)
  \/ \E h \in Handlers, mac \in Clients, requested \in Addrs :
       BeginRequest(h, mac, requested)
  \/ \E h \in Handlers : Renew(h) \/ Retry(h)
  \/ \E mac \in Clients : GiveUp(mac)
  \/ \E end \in {1, 2}, a \in Ends : SaveRange(end, a)
  \/ Restart
  \/ Tick

Spec == Init /\ [][Next]_vars

-----------------------------------------------------------------------------
(* Properties *)

(* Pool, table, packets and promises are what the Go types and the schema  *)
(* allow, however packets overlap.                                         *)
TypeOK ==
  /\ PoolTypeOK
  /\ configured \in Ends \X Ends
  /\ packet \in [Handlers -> Packet]
  /\ promised \in Partial(Clients, ByMAC)

(* What a DHCP server is for: until their leases run out, no two clients   *)
(* are told to use the same address.                                       *)
Unexpired(m) == m \in DOMAIN promised /\ now < promised[m].expires

NoSharedAddress ==
  \A m, n \in Clients :
    /\ Unexpired(m)
    /\ Unexpired(n)
    /\ promised[m].ip = promised[n].ip
    => m = n

(* While the server runs, it knows of every lease a client still counts    *)
(* on, and for at least as long.                                           *)
PromisesHeld ==
  \A m \in Clients :
    Unexpired(m) => /\ m \in DOMAIN byMAC
                    /\ byMAC[m].ip = promised[m].ip
                    /\ promised[m].expires <= byMAC[m].expires
=============================================================================
