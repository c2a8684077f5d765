------------------------------ MODULE LeasePool ------------------------------
(***************************************************************************)
(* The address pool of HELBOOT's DHCP server (internal/network/            *)
(* leasepool.go) and the table that mirrors it (store/leases.go).          *)
(*                                                                         *)
(* The methods of the pool hold its mutex throughout, the store call       *)
(* included, so each is one atomic step.  A lease object is never changed, *)
(* only replaced: the two maps can be modelled by value.                   *)
(***************************************************************************)
EXTENDS Naturals, Functions

CONSTANTS
  Clients,      \* hardware addresses
  LastAddr,     \* the last IPv4 address: 255.255.255.255, as a number
  Duration,     \* lease time, in seconds
  MaxTime       \* bound: the clock stops there

ASSUME PoolAssumption ==
  /\ LastAddr \in Nat
  /\ Duration \in Nat \ {0}
  /\ MaxTime \in Nat

VARIABLES
  range,        \* <<first, last>> address of the pool
  byMAC, byIP,  \* the pool's two maps
  leases,       \* table dhcp_leases
  now           \* the clock

pool == <<range, byMAC, byIP, leases>>

Addrs == 0..LastAddr            \* from 0.0.0.0
NoIP  == LastAddr + 1           \* nil

Time    == 0..(MaxTime + Duration)
ByMAC   == [ip : Addrs, expires : Time]
ByIP    == [mac : Clients, expires : Time]
Partial(S, T) == UNION {[D -> T] : D \in SUBSET S}

PoolTypeOK ==
  /\ range \in Addrs \X Addrs
  /\ byMAC \in Partial(Clients, ByMAC)
  /\ byIP \in Partial(Addrs, ByIP)
  /\ leases \in Partial(Clients, ByMAC)
  /\ now \in 0..MaxTime

Empty == [x \in {} |-> 0]
Put(f, x, y) == [z \in DOMAIN f \cup {x} |-> IF z = x THEN y ELSE f[z]]
Drop(f, S) == [z \in DOMAIN f \ S |-> f[z]]

InRange(a) == a \in Addrs /\ range[1] <= a /\ a <= range[2]

-----------------------------------------------------------------------------
Held(a) == a \in DOMAIN byIP /\ now <= byIP[a].expires

(* isFree: in range and nobody's, or its lease has expired. *)
IsFree(a) == InRange(a) /\ ~ Held(a)

(* firstFree counts up from the start of the range.  The end of a range    *)
(* that goes up to the last address it never gets past: an unsigned n++    *)
(* wraps, and the search goes on from 0.0.0.0, outside the range.          *)
RunsOver == range[2] = LastAddr /\ \A a \in Addrs : ~ IsFree(a)

Offered == {a \in Addrs : IF RunsOver THEN ~ Held(a) ELSE IsFree(a)}

IsFirstFree(a) == a \in Offered /\ \A b \in Offered : a <= b

(* Mutant: the requested address is taken without a look at its holder.    *)
ChoosesRequested(a, mac, requested) ==
  IF mac \in DOMAIN byMAC THEN a = byMAC[mac].ip
  ELSE IF requested \in Addrs /\ InRange(requested) THEN a = requested
  ELSE IsFirstFree(a)

(* The address Allocate settles on: the client's own even when its lease   *)
(* has expired, else the requested one if free, else the first free one.   *)
Chooses(a, mac, requested) ==
  IF mac \in DOMAIN byMAC THEN a = byMAC[mac].ip
  ELSE IF IsFree(requested) THEN a = requested
  ELSE IsFirstFree(a)

(* (With every address there is held, a search that runs over never ends.) *)
Exhausted(mac, requested) == ~ RunsOver /\ \A a \in Addrs : ~ Chooses(a, mac, requested)

(* INSERT ... ON CONFLICT (mac) DO UPDATE; a row of another client with    *)
(* the same UNIQUE ip makes it fail, and the caller ignores the error.     *)
Upsert(mac, row) ==
  leases' = IF \E m \in DOMAIN leases \ {mac} : leases[m].ip = row.ip
            THEN leases
            ELSE Put(leases, mac, row)

(* Mutant: the former holder of the address keeps its entry by MAC. *)
AssignWithoutEviction(mac, a) ==
  /\ byMAC' = Put(byMAC, mac, [ip |-> a, expires |-> now + Duration])
  /\ byIP' = Put(byIP, a, [mac |-> mac, expires |-> now + Duration])
  /\ Upsert(mac, [ip |-> a, expires |-> now + Duration])
  /\ UNCHANGED range

(* The second half of Allocate: evict the former holder, record, persist.  *)
Assign(mac, a) ==
  LET evicted == IF a \in DOMAIN byIP THEN {byIP[a].mac} \ {mac} ELSE {}
      expires == now + Duration IN
  /\ byMAC' = Put(Drop(byMAC, evicted), mac, [ip |-> a, expires |-> expires])
  /\ byIP' = Put(byIP, a, [mac |-> mac, expires |-> expires])
  /\ Upsert(mac, [ip |-> a, expires |-> expires])
  /\ UNCHANGED range

Confirms(mac, a) ==
  /\ mac \in DOMAIN byMAC
  /\ now <= byMAC[mac].expires
  /\ byMAC[mac].ip = a

(* Mutant: the row stays. *)
ReleaseInMemory(mac) ==
  /\ IF mac \in DOMAIN byMAC
     THEN byMAC' = Drop(byMAC, {mac}) /\ byIP' = Drop(byIP, {byMAC[mac].ip})
     ELSE UNCHANGED <<byMAC, byIP>>
  /\ UNCHANGED <<range, leases>>

Release(mac) ==
  /\ IF mac \in DOMAIN byMAC
     THEN /\ byMAC' = Drop(byMAC, {mac})
          /\ byIP' = Drop(byIP, {byMAC[mac].ip})
          /\ leases' = Drop(leases, {mac})
     ELSE UNCHANGED <<byMAC, byIP, leases>>
  /\ UNCHANGED range

(* Mutant: leases outside the range are restored as well. *)
RestoreAll(span) ==
  LET back == {m \in DOMAIN leases : leases[m].expires > now}
      holder(a) == CHOOSE m \in back : leases[m].ip = a IN
  /\ range' = span
  /\ byMAC' = [m \in back |-> leases[m]]
  /\ byIP' = [a \in {leases[m].ip : m \in back} |->
                [mac |-> holder(a), expires |-> leases[holder(a)].expires]]
  /\ UNCHANGED leases

(* NewLeasePool, ActiveLeases and a Restore for each: what has not expired *)
(* and lies within the new range.                                          *)
Rebuild(span) ==
  LET back == {m \in DOMAIN leases : /\ leases[m].expires > now
                                     /\ span[1] <= leases[m].ip
                                     /\ leases[m].ip <= span[2]}
      holder(a) == CHOOSE m \in back : leases[m].ip = a IN
  /\ range' = span
  /\ byMAC' = [m \in back |-> leases[m]]
  /\ byIP' = [a \in {leases[m].ip : m \in back} |->
                [mac |-> holder(a), expires |-> leases[holder(a)].expires]]
  /\ UNCHANGED leases

-----------------------------------------------------------------------------
(* Properties of the pool *)

(* The two maps describe the same leases: Release deletes by the one what  *)
(* it found by the other, and an eviction looks up the holder by address.  *)
MapsAgree ==
  /\ \A m \in DOMAIN byMAC :
       /\ byMAC[m].ip \in DOMAIN byIP
       /\ byIP[byMAC[m].ip] = [mac |-> m, expires |-> byMAC[m].expires]
  /\ \A a \in DOMAIN byIP :
       byIP[a].mac \in DOMAIN byMAC /\ byMAC[byIP[a].mac].ip = a

(* A client keeps its address without a look at the range, so no lease may *)
(* ever be outside it, whatever range it was given out from; only a range  *)
(* up to the last address does not hold what it hands out.                 *)
LeasesInRange == \A a \in DOMAIN byIP : InRange(a) \/ range[2] = LastAddr

(* Confirm looks a lease up by its client and trusts its address. *)
PoolAgrees == MapsAgree /\ LeasesInRange

(* UNIQUE (ip) *)
RowsUnique ==
  \A m, n \in DOMAIN leases : leases[m].ip = leases[n].ip => m = n

(* What a restart would bring back is what the pool holds: no released or  *)
(* evicted lease comes back.  (The converse does not hold.)                *)
NothingResurrected ==
  \A m \in DOMAIN leases :
    leases[m].expires > now /\ InRange(leases[m].ip)
      => /\ m \in DOMAIN byMAC
         /\ byMAC[m].ip = leases[m].ip
         /\ leases[m].expires <= byMAC[m].expires

PoolInv ==
  /\ PoolTypeOK
  /\ MapsAgree
  /\ LeasesInRange
  /\ RowsUnique
  /\ NothingResurrected
=============================================================================
