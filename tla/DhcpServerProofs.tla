-------------------------- MODULE DhcpServerProofs --------------------------
(***************************************************************************)
(* The pool's invariant for any clients, addresses, lease time and         *)
(* restarts; and that without a restart no address is shared.              *)
(***************************************************************************)
EXTENDS DhcpServer, TLAPS

(* A partial function, told by its domain and its values. *)
LEMMA PartialMembership ==
  ASSUME NEW S, NEW T, NEW f
  PROVE  f \in Partial(S, T) <=> DOMAIN f \subseteq S /\ f \in [DOMAIN f -> T]
  BY DEF Partial

(* Setting one value keeps a partial function one. *)
LEMMA PutPartial ==
  ASSUME NEW S, NEW T, NEW f \in Partial(S, T), NEW x \in S, NEW y \in T
  PROVE  Put(f, x, y) \in Partial(S, T)
  <1> DEFINE g == Put(f, x, y)
  <1>1. DOMAIN f \subseteq S /\ f \in [DOMAIN f -> T]
    BY PartialMembership
  <1>2. DOMAIN g = DOMAIN f \cup {x} /\ \A z \in DOMAIN g : g[z] \in T
    BY <1>1 DEF Put
  <1>3. g = [z \in DOMAIN g |-> g[z]]
    BY DEF Put
  <1> HIDE DEF g
  <1>4. DOMAIN g \subseteq S /\ g \in [DOMAIN g -> T]
    BY <1>1, <1>2, <1>3
  <1>5. g \in Partial(S, T)
    BY <1>4, PartialMembership
  <1> QED BY <1>5 DEF g

(* So does dropping values. *)
LEMMA DropPartial ==
  ASSUME NEW S, NEW T, NEW f \in Partial(S, T), NEW X
  PROVE  Drop(f, X) \in Partial(S, T)
  <1> DEFINE g == Drop(f, X)
  <1>1. DOMAIN f \subseteq S /\ f \in [DOMAIN f -> T]
    BY PartialMembership
  <1>2. DOMAIN g = DOMAIN f \ X /\ \A z \in DOMAIN g : g[z] \in T
    BY <1>1 DEF Drop
  <1>3. g = [z \in DOMAIN g |-> g[z]]
    BY DEF Drop
  <1> HIDE DEF g
  <1>4. DOMAIN g \subseteq S /\ g \in [DOMAIN g -> T]
    BY <1>1, <1>2, <1>3
  <1>5. g \in Partial(S, T)
    BY <1>4, PartialMembership
  <1> QED BY <1>5 DEF g

(* The empty map is one too. *)
LEMMA EmptyPartial ==
  ASSUME NEW S, NEW T
  PROVE  Empty \in Partial(S, T)
  <1>1. DOMAIN Empty = {} BY DEF Empty
  <1>2. Empty \in [DOMAIN Empty -> T] BY <1>1 DEF Empty
  <1> QED BY <1>1, <1>2, PartialMembership

(* What the type invariant says of single entries. *)
LEMMA Entries ==
  ASSUME PoolTypeOK
  PROVE  /\ \A m \in DOMAIN byMAC : m \in Clients /\ byMAC[m] \in ByMAC
         /\ \A a \in DOMAIN byIP : a \in Addrs /\ byIP[a] \in ByIP
         /\ \A m \in DOMAIN leases : m \in Clients /\ leases[m] \in ByMAC
  <1>1. DOMAIN byMAC \subseteq Clients /\ byMAC \in [DOMAIN byMAC -> ByMAC]
    BY PartialMembership DEF PoolTypeOK
  <1>2. DOMAIN byIP \subseteq Addrs /\ byIP \in [DOMAIN byIP -> ByIP]
    BY PartialMembership DEF PoolTypeOK
  <1>3. DOMAIN leases \subseteq Clients /\ leases \in [DOMAIN leases -> ByMAC]
    BY PartialMembership DEF PoolTypeOK
  <1> QED BY <1>1, <1>2, <1>3

-----------------------------------------------------------------------------
(* Allocate *)

(* Allocate settles on an address of the range, or one it has run over to, *)
(* that is the client's already, or nobody's, or whose lease has expired.  *)
LEMMA ChosenIsOwnOrFree ==
  ASSUME PoolInv, NEW mac, NEW requested \in Requestable, NEW a \in Addrs,
         Chooses(a, mac, requested)
  PROVE  /\ InRange(a) \/ range[2] = LastAddr
         /\ mac \in DOMAIN byMAC => byMAC[mac].ip = a
         /\ a \in DOMAIN byIP => byIP[a].mac = mac \/ now > byIP[a].expires
  <1>1. CASE mac \in DOMAIN byMAC
    <2>1. byMAC[mac].ip = a
      BY <1>1 DEF Chooses
    <2>2. a \in DOMAIN byIP /\ byIP[a] = [mac |-> mac, expires |-> byMAC[mac].expires]
      BY <1>1, <2>1 DEF PoolInv, MapsAgree
    <2>3. InRange(a) \/ range[2] = LastAddr
      BY <2>2 DEF PoolInv, LeasesInRange
    <2> QED BY <2>1, <2>2, <2>3
  <1>2. CASE mac \notin DOMAIN byMAC
    <2>1. IsFree(a) \/ a \in Offered
      BY <1>2 DEF Chooses, IsFirstFree
    <2>2. ~ Held(a) /\ (InRange(a) \/ range[2] = LastAddr)
      BY <2>1 DEF Offered, RunsOver, IsFree
    <2>3. a \in DOMAIN byIP => now > byIP[a].expires
      <3> SUFFICES ASSUME a \in DOMAIN byIP PROVE now > byIP[a].expires
        OBVIOUS
      <3>1. now \in Nat /\ byIP[a].expires \in Nat
        BY Entries, PoolAssumption DEF PoolInv, PoolTypeOK, ByIP, Time
      <3> QED BY <2>2, <3>1 DEF Held
    <2> QED BY <1>2, <2>2, <2>3
  <1> QED BY <1>1, <1>2

(* After Allocate the two maps agree again, and the table holds nothing    *)
(* the pool does not know: an evicted holder's row has expired.            *)
LEMMA AssignStep ==
  ASSUME PoolInv, NEW mac \in Clients, NEW requested \in Requestable, NEW a \in Addrs,
         Chooses(a, mac, requested), Assign(mac, a), UNCHANGED now
  PROVE  PoolInv'
  <1> DEFINE expires == now + Duration
             entry == [ip |-> a, expires |-> expires]
             evicted == IF a \in DOMAIN byIP THEN {byIP[a].mac} \ {mac} ELSE {}
  <1> USE DEF PoolInv
  <1>1. now \in Nat /\ expires \in Time /\ now < expires /\ expires \in Nat
    BY PoolAssumption DEF PoolTypeOK, Time
  <1>2. entry \in ByMAC /\ [mac |-> mac, expires |-> expires] \in ByIP
    BY <1>1 DEF ByMAC, ByIP
  <1>3. /\ InRange(a) \/ range[2] = LastAddr
        /\ mac \in DOMAIN byMAC => byMAC[mac].ip = a
        /\ a \in DOMAIN byIP => byIP[a].mac = mac \/ now > byIP[a].expires
    BY ChosenIsOwnOrFree
  <1>4. /\ byMAC' = Put(Drop(byMAC, evicted), mac, entry)
        /\ byIP' = Put(byIP, a, [mac |-> mac, expires |-> expires])
        /\ Upsert(mac, entry)
        /\ range' = range
    BY DEF Assign
  <1>5. PoolTypeOK'
    <2>1. byMAC' \in Partial(Clients, ByMAC)
      BY <1>2, <1>4, PutPartial, DropPartial DEF PoolTypeOK
    <2>2. byIP' \in Partial(Addrs, ByIP)
      BY <1>2, <1>4, PutPartial DEF PoolTypeOK
    <2>3. leases' \in Partial(Clients, ByMAC)
      BY <1>2, <1>4, PutPartial DEF PoolTypeOK, Upsert
    <2> QED BY <1>4, <2>1, <2>2, <2>3 DEF PoolTypeOK
  <1>6. /\ DOMAIN byMAC' = (DOMAIN byMAC \ evicted) \cup {mac}
        /\ byMAC'[mac] = entry
        /\ \A m \in DOMAIN byMAC' \ {mac} : m \in DOMAIN byMAC /\ byMAC'[m] = byMAC[m]
    BY <1>4 DEF Put, Drop
  <1>7. /\ DOMAIN byIP' = DOMAIN byIP \cup {a}
        /\ byIP'[a] = [mac |-> mac, expires |-> expires]
        /\ \A b \in DOMAIN byIP \ {a} : byIP'[b] = byIP[b]
    BY <1>4 DEF Put
  <1>8. MapsAgree'
    <2>1. ASSUME NEW m \in DOMAIN byMAC'
          PROVE  /\ byMAC'[m].ip \in DOMAIN byIP'
                 /\ byIP'[byMAC'[m].ip] = [mac |-> m, expires |-> byMAC'[m].expires]
      <3>1. CASE m = mac
        BY <1>6, <1>7, <3>1
      <3>2. CASE m # mac
        <4>1. m \in DOMAIN byMAC \ evicted /\ byMAC'[m] = byMAC[m]
          BY <1>6, <2>1, <3>2
        <4>2. byMAC[m].ip \in DOMAIN byIP
              /\ byIP[byMAC[m].ip] = [mac |-> m, expires |-> byMAC[m].expires]
          BY <4>1 DEF MapsAgree
        <4>3. byMAC[m].ip # a
          BY <3>2, <4>1, <4>2
        <4> QED BY <1>7, <4>1, <4>2, <4>3
      <3> QED BY <3>1, <3>2
    <2>2. ASSUME NEW b \in DOMAIN byIP'
          PROVE  byIP'[b].mac \in DOMAIN byMAC' /\ byMAC'[byIP'[b].mac].ip = b
      <3>1. CASE b = a
        BY <1>6, <1>7, <3>1
      <3>2. CASE b # a
        <4>1. b \in DOMAIN byIP /\ byIP'[b] = byIP[b]
          BY <1>7, <2>2, <3>2
        <4>2. byIP[b].mac \in DOMAIN byMAC /\ byMAC[byIP[b].mac].ip = b
          BY <4>1 DEF MapsAgree
        <4>3. byIP[b].mac # mac
          BY <1>3, <3>2, <4>2
        <4>4. byIP[b].mac \notin evicted
          BY <3>2, <4>2 DEF MapsAgree
        <4> QED BY <1>6, <4>1, <4>2, <4>3, <4>4
      <3> QED BY <3>1, <3>2
    <2> QED BY <2>1, <2>2 DEF MapsAgree
  <1>9. LeasesInRange'
    BY <1>3, <1>4, <1>7 DEF LeasesInRange, InRange
  <1>10. RowsUnique'
    BY <1>4 DEF RowsUnique, Upsert, Put
  <1>11. NothingResurrected'
    <2> SUFFICES ASSUME NEW m \in DOMAIN leases', leases'[m].expires > now,
                        InRange(leases'[m].ip)
                 PROVE  /\ m \in DOMAIN byMAC'
                        /\ byMAC'[m].ip = leases'[m].ip
                        /\ leases'[m].expires <= byMAC'[m].expires
      BY <1>4 DEF NothingResurrected, InRange
    <2>1. CASE m = mac /\ leases'[m] = entry
      BY <1>1, <1>6, <2>1
    <2>2. CASE ~ (m = mac /\ leases'[m] = entry)
      <3>1. m \in DOMAIN leases /\ leases'[m] = leases[m]
        BY <1>4, <2>2 DEF Upsert, Put
      <3>2. /\ m \in DOMAIN byMAC
            /\ byMAC[m].ip = leases[m].ip
            /\ leases[m].expires <= byMAC[m].expires
        BY <3>1 DEF NothingResurrected
      <3>3. leases[m].expires \in Nat /\ byMAC[m].expires \in Nat
        BY <3>1, <3>2, Entries, PoolAssumption DEF ByMAC, Time
      <3>4. byMAC[m].expires > now
        BY <1>1, <3>1, <3>2, <3>3
      <3>5. byIP[byMAC[m].ip] = [mac |-> m, expires |-> byMAC[m].expires]
            /\ byMAC[m].ip \in DOMAIN byIP
        BY <3>2 DEF MapsAgree
      <3>6. CASE m # mac
        <4>1. m \notin evicted
          BY <1>1, <1>3, <3>3, <3>4, <3>5, <3>6, <3>2 DEF MapsAgree
        <4> QED BY <1>6, <3>1, <3>2, <3>6, <4>1
      <3>7. CASE m = mac
        <4>1. byMAC[mac].ip = a /\ leases[mac].ip = a
          BY <1>3, <3>2, <3>7
        <4>2. \A k \in DOMAIN leases \ {mac} : leases[k].ip # a
          BY <3>1, <3>7, <4>1 DEF RowsUnique
        <4>3. leases' = Put(leases, mac, entry)
          BY <1>4, <4>2 DEF Upsert
        <4> QED BY <2>2, <3>7, <4>3 DEF Put
      <3> QED BY <3>6, <3>7
    <2> QED BY <2>1, <2>2
  <1> QED BY <1>5, <1>8, <1>9, <1>10, <1>11

-----------------------------------------------------------------------------
(* Release, and a restart *)

(* A release takes the client's entry out of both maps and of the table. *)
LEMMA ReleaseStep ==
  ASSUME PoolInv, NEW mac \in Clients, Release(mac), UNCHANGED now
  PROVE  PoolInv'
  <1> USE DEF PoolInv
  <1>1. CASE mac \notin DOMAIN byMAC
    <2>1. UNCHANGED <<range, byMAC, byIP, leases, now>>
      BY <1>1 DEF Release
    <2> QED BY <2>1 DEF PoolTypeOK, MapsAgree, LeasesInRange, RowsUnique,
                        NothingResurrected, InRange
  <1>2. CASE mac \in DOMAIN byMAC
    <2>1. /\ byMAC' = Drop(byMAC, {mac})
          /\ byIP' = Drop(byIP, {byMAC[mac].ip})
          /\ leases' = Drop(leases, {mac})
          /\ range' = range
      BY <1>2 DEF Release
    <2>2. /\ DOMAIN byMAC' = DOMAIN byMAC \ {mac}
          /\ \A m \in DOMAIN byMAC' : byMAC'[m] = byMAC[m]
          /\ DOMAIN byIP' = DOMAIN byIP \ {byMAC[mac].ip}
          /\ \A a \in DOMAIN byIP' : byIP'[a] = byIP[a]
          /\ DOMAIN leases' = DOMAIN leases \ {mac}
          /\ \A m \in DOMAIN leases' : leases'[m] = leases[m]
      BY <2>1 DEF Drop
    <2>3. PoolTypeOK'
      BY <2>1, DropPartial DEF PoolTypeOK
    <2>4. MapsAgree'
      <3>1. ASSUME NEW m \in DOMAIN byMAC'
            PROVE  /\ byMAC'[m].ip \in DOMAIN byIP'
                   /\ byIP'[byMAC'[m].ip] = [mac |-> m, expires |-> byMAC'[m].expires]
        <4>1. m \in DOMAIN byMAC /\ m # mac /\ byMAC'[m] = byMAC[m]
          BY <2>2, <3>1
        <4>2. /\ byMAC[m].ip \in DOMAIN byIP
              /\ byIP[byMAC[m].ip] = [mac |-> m, expires |-> byMAC[m].expires]
          BY <4>1 DEF MapsAgree
        <4>3. byIP[byMAC[mac].ip] = [mac |-> mac, expires |-> byMAC[mac].expires]
          BY <1>2 DEF MapsAgree
        <4>4. byMAC[m].ip # byMAC[mac].ip
          BY <4>1, <4>2, <4>3
        <4> QED BY <2>2, <4>1, <4>2, <4>4
      <3>2. ASSUME NEW a \in DOMAIN byIP'
            PROVE  byIP'[a].mac \in DOMAIN byMAC' /\ byMAC'[byIP'[a].mac].ip = a
        <4>1. a \in DOMAIN byIP /\ a # byMAC[mac].ip /\ byIP'[a] = byIP[a]
          BY <2>2, <3>2
        <4>2. byIP[a].mac \in DOMAIN byMAC /\ byMAC[byIP[a].mac].ip = a
          BY <4>1 DEF MapsAgree
        <4> QED BY <2>2, <4>1, <4>2
      <3> QED BY <3>1, <3>2 DEF MapsAgree
    <2>5. LeasesInRange'
      BY <2>1, <2>2 DEF LeasesInRange, InRange
    <2>6. RowsUnique'
      BY <2>2 DEF RowsUnique
    <2>7. NothingResurrected'
      <3> SUFFICES ASSUME NEW m \in DOMAIN leases',
                          leases'[m].expires > now', InRange(leases[m].ip)'
                   PROVE  /\ m \in DOMAIN byMAC' /\ byMAC'[m].ip = leases'[m].ip
                          /\ leases'[m].expires <= byMAC'[m].expires
        BY DEF NothingResurrected
      <3>1. m \in DOMAIN leases /\ m # mac /\ leases'[m] = leases[m]
        BY <2>2
      <3>2. leases[m].expires > now /\ InRange(leases[m].ip)
        BY <2>1, <3>1 DEF InRange
      <3>3. /\ m \in DOMAIN byMAC /\ byMAC[m].ip = leases[m].ip
            /\ leases[m].expires <= byMAC[m].expires
        BY <3>1, <3>2 DEF NothingResurrected
      <3> QED BY <2>2, <3>1, <3>3
    <2> QED BY <2>3, <2>4, <2>5, <2>6, <2>7
  <1> QED BY <1>1, <1>2

(* A restart restores what the table holds within the new range: no two    *)
(* rows have one address, so the two maps agree.                           *)
LEMMA RebuildStep ==
  ASSUME PoolInv, NEW span \in Addrs \X Addrs, Rebuild(span), UNCHANGED now
  PROVE  PoolInv'
  <1> USE DEF PoolInv
  <1> DEFINE back == {m \in DOMAIN leases : /\ leases[m].expires > now
                                            /\ span[1] <= leases[m].ip
                                            /\ leases[m].ip <= span[2]}
             held == {leases[m].ip : m \in back}
             holder(a) == CHOOSE m \in back : leases[m].ip = a
  <1>1. /\ range' = span
        /\ leases' = leases
        /\ byMAC' = [m \in back |-> leases[m]]
        /\ byIP' = [a \in held |->
                       [mac |-> holder(a), expires |-> leases[holder(a)].expires]]
    BY DEF Rebuild
  <1>2. \A m \in back : m \in DOMAIN leases /\ m \in Clients /\ leases[m] \in ByMAC
    BY Entries
  <1>3. \A a \in held : holder(a) \in back /\ leases[holder(a)].ip = a
    OBVIOUS
  <1>4. \A m \in back : holder(leases[m].ip) = m
    BY <1>3 DEF RowsUnique
  <1>5. PoolTypeOK'
    <2>1. DOMAIN byMAC' = back /\ \A m \in back : byMAC'[m] \in ByMAC
      BY <1>1, <1>2
    <2>2. byMAC' \in Partial(Clients, ByMAC)
      <3>1. back \subseteq Clients
        BY <1>2
      <3>2. byMAC' \in [back -> ByMAC]
        BY <1>1, <1>2
      <3> QED BY <2>1, <3>1, <3>2, PartialMembership
    <2>3. byIP' \in Partial(Addrs, ByIP)
      <3>1. held \subseteq Addrs
        BY <1>2 DEF ByMAC
      <3>2. ASSUME NEW a \in held
            PROVE  [mac |-> holder(a), expires |-> leases[holder(a)].expires] \in ByIP
        BY <1>2, <1>3 DEF ByMAC, ByIP
      <3>3. DOMAIN byIP' = held
        BY <1>1
      <3>4. byIP' \in [held -> ByIP]
        BY <1>1, <3>2
      <3> QED BY <3>1, <3>3, <3>4, PartialMembership
    <2> QED BY <1>1, <2>2, <2>3 DEF PoolTypeOK
  <1>6. /\ DOMAIN byMAC' = back
        /\ \A m \in back : byMAC'[m] = leases[m]
        /\ DOMAIN byIP' = held
        /\ \A a \in held : byIP'[a] = [mac |-> holder(a),
                                       expires |-> leases[holder(a)].expires]
    BY <1>1
  <1>7. MapsAgree'
    <2>1. ASSUME NEW m \in back
          PROVE  /\ byMAC'[m].ip \in DOMAIN byIP'
                 /\ byIP'[byMAC'[m].ip] = [mac |-> m, expires |-> byMAC'[m].expires]
      <3>1. byMAC'[m] = leases[m] /\ leases[m].ip \in held
        BY <1>6
      <3>2. holder(leases[m].ip) = m
        BY <1>4
      <3> HIDE DEF holder, held
      <3> QED BY <1>6, <3>1, <3>2
    <2>2. ASSUME NEW a \in held
          PROVE  byIP'[a].mac \in DOMAIN byMAC' /\ byMAC'[byIP'[a].mac].ip = a
      <3>1. holder(a) \in back /\ leases[holder(a)].ip = a
        BY <1>3
      <3> HIDE DEF holder, held
      <3> QED BY <1>6, <3>1
    <2> HIDE DEF back, held
    <2> QED BY <1>6, <2>1, <2>2 DEF MapsAgree
  <1>8. LeasesInRange'
    <2>1. \A a \in held : a \in Addrs /\ span[1] <= a /\ a <= span[2]
      BY <1>2 DEF ByMAC
    <2> HIDE DEF held
    <2> QED BY <1>1, <1>6, <2>1 DEF LeasesInRange, InRange
  <1>9. RowsUnique'
    BY <1>1 DEF RowsUnique
  <1>10. NothingResurrected'
    <2> SUFFICES ASSUME NEW m \in DOMAIN leases, leases[m].expires > now,
                        span[1] <= leases[m].ip, leases[m].ip <= span[2]
                 PROVE  /\ m \in DOMAIN byMAC'
                        /\ byMAC'[m].ip = leases[m].ip
                        /\ leases[m].expires <= byMAC'[m].expires
      BY <1>1 DEF NothingResurrected, InRange
    <2>1. m \in back
      OBVIOUS
    <2>2. leases[m].expires \in Nat
      BY Entries, PoolAssumption DEF ByMAC, Time
    <2> HIDE DEF back
    <2> QED BY <1>6, <2>1, <2>2
  <1> QED BY <1>5, <1>7, <1>8, <1>9, <1>10

-----------------------------------------------------------------------------
(* The invariant *)

ServerInv == PoolInv /\ TypeOK

(* Packets move between types of their own, whatever the handlers do. *)
LEMMA PacketTypes ==
  ASSUME TypeOK, NEW h \in Handlers
  PROVE  /\ packet[h] \in Packet
         /\ packet[h].mac \in Clients
         /\ packet[h].requested \in Requestable
  BY DEF TypeOK, Packet, Requestable

(* An idle handler holds a well-formed packet as soon as there is a client. *)
LEMMA WaitingType ==
  ASSUME NEW c \in Clients
  PROVE  Waiting \in Packet
  BY PoolAssumption DEF Waiting, Packet, Addrs

(* What an ACK promises has the type of a lease. *)
LEMMA AckType ==
  ASSUME TypeOK, NEW mac \in Clients, NEW a \in Addrs, Ack(mac, a)
  PROVE  promised' \in Partial(Clients, ByMAC)
  <1>1. [ip |-> a, expires |-> now + Duration] \in ByMAC
    BY PoolAssumption DEF TypeOK, PoolTypeOK, ByMAC, Time
  <1> QED BY <1>1, PutPartial DEF TypeOK, Ack

(* An empty pool is a pool. *)
LEMMA EmptyPool ==
  ASSUME range \in Addrs \X Addrs, byMAC = Empty, byIP = Empty, leases = Empty,
         now \in 0..MaxTime
  PROVE  PoolInv
  <1>1. DOMAIN byMAC = {} /\ DOMAIN byIP = {} /\ DOMAIN leases = {}
    BY DEF Empty
  <1> QED BY <1>1, EmptyPartial DEF PoolInv, PoolTypeOK, MapsAgree, LeasesInRange,
             RowsUnique, NothingResurrected

(* The server starts with an empty pool. *)
LEMMA ServerInit ==
  ASSUME Init, NEW c \in Clients
  PROVE  ServerInv
  <1>1. PoolInv
    BY EmptyPool, PoolAssumption, ServerAssumption DEF Init
  <1>2. TypeOK
    BY <1>1, EmptyPartial, WaitingType DEF Init, TypeOK, PoolInv
  <1> QED BY <1>1, <1>2 DEF ServerInv

(* Allocating, or failing to, is all that DISCOVER and REQUEST do to the   *)
(* pool.                                                                   *)
LEMMA AllocateStep ==
  ASSUME PoolInv, NEW mac \in Clients, NEW requested \in Requestable, UNCHANGED now,
         \/ \E a \in Addrs : Chooses(a, mac, requested) /\ Assign(mac, a)
         \/ UNCHANGED pool
  PROVE  PoolInv'
  <1>1. CASE \E a \in Addrs : Chooses(a, mac, requested) /\ Assign(mac, a)
    BY <1>1, AssignStep
  <1>2. CASE UNCHANGED pool
    BY <1>2 DEF pool, PoolInv, PoolTypeOK, MapsAgree, LeasesInRange, RowsUnique,
                NothingResurrected, InRange
  <1> QED BY <1>1, <1>2

(* Time passes: fewer rows are unexpired. *)
LEMMA TickStep ==
  ASSUME ServerInv, Tick
  PROVE  PoolInv'
  <1> USE DEF ServerInv, PoolInv
  <1>1. /\ now' = now + 1 /\ now \in Nat /\ now' \in 0..MaxTime
        /\ UNCHANGED <<range, byMAC, byIP, leases>>
    BY PoolAssumption DEF Tick, PoolTypeOK, pool
  <1>2. PoolTypeOK' /\ MapsAgree' /\ LeasesInRange' /\ RowsUnique'
    BY <1>1 DEF PoolTypeOK, MapsAgree, LeasesInRange, RowsUnique, InRange
  <1>3. NothingResurrected'
    <2>1. \A m \in DOMAIN leases : leases[m].expires \in Nat
      BY Entries, PoolAssumption DEF ByMAC, Time
    <2>2. \A m \in DOMAIN leases : leases[m].expires > now + 1 => leases[m].expires > now
      BY <1>1, <2>1
    <2> QED BY <1>1, <2>2 DEF NothingResurrected, InRange
  <1> QED BY <1>2, <1>3

(* A restart either restores the pool or leaves the server down. *)
LEMMA RestartStep ==
  ASSUME ServerInv, Restart
  PROVE  PoolInv'
  <1>1. configured \in Addrs \X Addrs /\ UNCHANGED now
    BY ServerAssumption DEF ServerInv, TypeOK, Restart
  <1>2. CASE configured[1] <= configured[2]
    <2>1. Rebuild(configured)
      BY <1>2 DEF Restart
    <2> QED BY <1>1, <2>1, RebuildStep DEF ServerInv
  <1>3. CASE ~ (configured[1] <= configured[2])
    <2>1. range' = configured /\ byMAC' = Empty /\ byIP' = Empty /\ leases' = leases
      BY <1>3 DEF Restart
    <2>2. DOMAIN byMAC' = {} /\ DOMAIN byIP' = {}
      BY <2>1 DEF Empty
    <2>3. PoolTypeOK'
      BY <1>1, <2>1, EmptyPartial DEF ServerInv, PoolInv, PoolTypeOK
    <2>4. MapsAgree' /\ LeasesInRange' /\ RowsUnique'
      BY <2>1, <2>2 DEF ServerInv, PoolInv, MapsAgree, LeasesInRange, RowsUnique
    <2>5. NothingResurrected'
      <3>1. \A a \in Addrs : ~ (configured[1] <= a /\ a <= configured[2])
        <4>1. configured[1] \in Nat /\ configured[2] \in Nat /\ Addrs \subseteq Nat
          BY <1>1, PoolAssumption DEF Addrs
        <4> QED BY <1>3, <4>1
      <3> QED BY <2>1, <3>1 DEF NothingResurrected, InRange
    <2> QED BY <2>3, <2>4, <2>5 DEF PoolInv
  <1> QED BY <1>2, <1>3

(* Every step of the server preserves the invariant of the pool. *)
LEMMA PoolStep ==
  ASSUME ServerInv, [Next]_vars
  PROVE  PoolInv'
  <1>0. PoolInv
    BY DEF ServerInv
  <1>1. ASSUME NEW mac \in Clients, NEW requested \in Requestable, Discover(mac, requested)
        PROVE  PoolInv'
    BY <1>0, <1>1, AllocateStep DEF Discover
  <1>2. ASSUME NEW h \in Handlers, Renew(h)
        PROVE  PoolInv'
    <2>1. packet[h].mac \in Clients /\ packet[h].requested \in Requestable
      BY PacketTypes DEF ServerInv
    <2> QED BY <1>0, <1>2, <2>1, AllocateStep DEF Renew
  <1>3. ASSUME NEW h \in Handlers, Retry(h)
        PROVE  PoolInv'
    <2>1. packet[h].mac \in Clients /\ packet[h].requested \in Requestable
      BY PacketTypes DEF ServerInv
    <2> QED BY <1>0, <1>3, <2>1, AllocateStep DEF Retry
  <1>4. ASSUME NEW mac \in Clients, GiveUp(mac)
        PROVE  PoolInv'
    BY <1>0, <1>4, ReleaseStep DEF GiveUp
  <1>5. CASE Restart
    BY <1>5, RestartStep
  <1>6. CASE Tick
    BY <1>6, TickStep
  <1>7. CASE UNCHANGED <<pool, now>>
    BY <1>0, <1>7 DEF pool, PoolInv, PoolTypeOK, MapsAgree, LeasesInRange, RowsUnique,
                      NothingResurrected, InRange
  <1>8. CASE \E h \in Handlers, mac \in Clients, requested \in Addrs :
               BeginRequest(h, mac, requested)
    BY <1>7, <1>8 DEF BeginRequest
  <1>9. CASE \E end \in {1, 2}, a \in Ends : SaveRange(end, a)
    BY <1>7, <1>9 DEF SaveRange
  <1>10. CASE UNCHANGED vars
    BY <1>7, <1>10 DEF vars, pool
  <1> QED BY <1>1, <1>2, <1>3, <1>4, <1>5, <1>6, <1>8, <1>9, <1>10 DEF Next

(* Every step keeps the types of what the pool does not hold. *)
LEMMA TypeStep ==
  ASSUME ServerInv, [Next]_vars
  PROVE  TypeOK'
  <1> USE DEF ServerInv
  <1>0. PoolTypeOK'
    BY PoolStep DEF PoolInv
  <1>1. \A h \in Handlers : packet[h] \in Packet /\ Waiting \in Packet
    <2> SUFFICES ASSUME NEW h \in Handlers
                 PROVE  packet[h] \in Packet /\ Waiting \in Packet
      OBVIOUS
    <2>1. packet[h] \in Packet /\ packet[h].mac \in Clients
      BY PacketTypes
    <2> QED BY <2>1, WaitingType
  <1>2. ASSUME NEW h \in Handlers, NEW p \in Packet, packet' = [packet EXCEPT ![h] = p]
        PROVE  packet' \in [Handlers -> Packet]
    BY <1>2 DEF TypeOK
  <1>3. ASSUME NEW mac \in Clients, NEW requested \in Requestable, Discover(mac, requested)
        PROVE  TypeOK'
    BY <1>0, <1>3 DEF Discover, TypeOK
  <1>4. ASSUME NEW h \in Handlers, NEW mac \in Clients, NEW requested \in Addrs,
               BeginRequest(h, mac, requested)
        PROVE  TypeOK'
    <2>1. [at |-> IF Confirms(mac, requested) THEN "renew" ELSE "retry",
           mac |-> mac, requested |-> requested] \in Packet
      BY DEF Packet
    <2>2. packet' \in [Handlers -> Packet]
      BY <1>2, <1>4, <2>1 DEF BeginRequest
    <2> QED BY <1>0, <1>4, <2>2 DEF BeginRequest, TypeOK
  <1>5. ASSUME NEW h \in Handlers, Renew(h) \/ Retry(h)
        PROVE  TypeOK'
    <2>1. packet' \in [Handlers -> Packet]
      BY <1>1, <1>2, <1>5 DEF Renew, Retry, Done
    <2>2. promised' \in Partial(Clients, ByMAC)
      <3>1. packet[h].mac \in Clients
        BY PacketTypes
      <3>2. CASE UNCHANGED promised
        BY <3>2 DEF TypeOK
      <3>3. CASE \E a \in Addrs : Ack(packet[h].mac, a)
        BY <3>1, <3>3, AckType
      <3> QED BY <1>5, <3>2, <3>3 DEF Renew, Retry
    <2> QED BY <1>0, <1>5, <2>1, <2>2 DEF Renew, Retry, TypeOK
  <1>6. ASSUME NEW mac \in Clients, GiveUp(mac)
        PROVE  TypeOK'
    BY <1>0, <1>6, DropPartial DEF GiveUp, TypeOK
  <1>7. CASE \E end \in {1, 2}, a \in Ends : SaveRange(end, a)
    <2>1. configured' \in Ends \X Ends
      BY <1>7 DEF SaveRange, TypeOK
    <2> QED BY <1>0, <1>7, <2>1 DEF SaveRange, TypeOK
  <1>8. CASE Restart
    <2>1. packet' \in [Handlers -> Packet]
      BY <1>1, <1>8 DEF Restart
    <2> QED BY <1>0, <1>8, <2>1 DEF Restart, TypeOK
  <1>9. CASE Tick
    BY <1>0, <1>9 DEF Tick, TypeOK
  <1>10. CASE UNCHANGED vars
    BY <1>0, <1>10 DEF vars, TypeOK
  <1> QED BY <1>3, <1>4, <1>5, <1>6, <1>7, <1>8, <1>9, <1>10 DEF Next

(* The pool's invariant holds through overlapping packets, range changes   *)
(* and restarts.                                                           *)
THEOREM PoolInductive == Spec => []ServerInv
  <1>1. Init => ServerInv
    BY ServerInit, ServerAssumption
  <1>2. ServerInv /\ [Next]_vars => ServerInv'
    BY PoolStep, TypeStep DEF ServerInv
  <1> QED BY <1>1, <1>2, PTL DEF Spec

(* Pool, table, packets and promises keep their types. *)
THEOREM ServerTypeCorrect == Spec => []TypeOK
  <1>1. ServerInv => TypeOK
    BY DEF ServerInv
  <1> QED BY <1>1, PoolInductive, PTL

(* The pool's two maps never describe different leases. *)
THEOREM MapsAlwaysAgree == Spec => []MapsAgree
  <1>1. ServerInv => MapsAgree
    BY DEF ServerInv, PoolInv
  <1> QED BY <1>1, PoolInductive, PTL

(* No lease is ever outside the range the server runs with, although a     *)
(* client's own address is confirmed and extended without a look at it,    *)
(* unless that range goes up to the last address and was run over.         *)
THEOREM LeasesAlwaysInRange == Spec => []LeasesInRange
  <1>1. ServerInv => LeasesInRange
    BY DEF ServerInv, PoolInv
  <1> QED BY <1>1, PoolInductive, PTL

(* Both: what the pool finds by a client is what it finds by the address,  *)
(* and the server may give it out.                                         *)
THEOREM PoolAlwaysAgrees == Spec => []PoolAgrees
  <1>1. MapsAgree /\ LeasesInRange => PoolAgrees
    BY DEF PoolAgrees
  <1> QED BY <1>1, MapsAlwaysAgree, LeasesAlwaysInRange, PTL

(* No restart brings back a lease that was released or taken over. *)
THEOREM NothingEverResurrected == Spec => []NothingResurrected
  <1>1. ServerInv => NothingResurrected
    BY DEF ServerInv, PoolInv
  <1> QED BY <1>1, PoolInductive, PTL

-----------------------------------------------------------------------------
(* Without a restart, no two clients share an address *)

(* What the server told a client it knows of, and no promise is longer     *)
(* than a lease given out now: extending one never shortens it.            *)
NoLongPromise == \A m \in DOMAIN promised : promised[m].expires <= now + Duration

PromiseInv == ServerInv /\ PromisesHeld /\ NoLongPromise

(* The numbers in promises and leases. *)
LEMMA PromiseTypes ==
  ASSUME ServerInv
  PROVE  /\ now \in Nat
         /\ \A m \in DOMAIN promised : promised[m].expires \in Nat /\ m \in Clients
         /\ \A m \in DOMAIN byMAC : byMAC[m].expires \in Nat
  <1>1. DOMAIN promised \subseteq Clients /\ promised \in [DOMAIN promised -> ByMAC]
    BY PartialMembership DEF ServerInv, TypeOK
  <1>2. now \in Nat
    BY PoolAssumption DEF ServerInv, PoolInv, PoolTypeOK
  <1>3. \A m \in DOMAIN byMAC : byMAC[m].expires \in Nat
    BY Entries, PoolAssumption DEF ServerInv, PoolInv, ByMAC, Time
  <1>4. \A m \in DOMAIN promised : promised[m].expires \in Nat
    BY <1>1, PoolAssumption DEF ByMAC, Time
  <1> QED BY <1>1, <1>2, <1>3, <1>4

(* What the maps agree on, field by field. *)
LEMMA HolderOf ==
  ASSUME ServerInv, NEW m \in DOMAIN byMAC
  PROVE  byIP[byMAC[m].ip].mac = m /\ byIP[byMAC[m].ip].expires = byMAC[m].expires
  <1>1. byIP[byMAC[m].ip] = [mac |-> m, expires |-> byMAC[m].expires]
    BY DEF ServerInv, PoolInv, MapsAgree
  <1> QED BY <1>1

(* Allocate evicts nobody whose lease has not expired. *)
LEMMA AssignKeeps ==
  ASSUME ServerInv, NEW mac \in Clients, NEW requested \in Requestable, NEW a \in Addrs,
         Chooses(a, mac, requested), Assign(mac, a),
         NEW m \in DOMAIN byMAC, m # mac, byMAC[m].expires > now
  PROVE  m \in DOMAIN byMAC' /\ byMAC'[m] = byMAC[m]
  <1> DEFINE evicted == IF a \in DOMAIN byIP THEN {byIP[a].mac} \ {mac} ELSE {}
  <1>1. byMAC' = Put(Drop(byMAC, evicted), mac, [ip |-> a, expires |-> now + Duration])
    BY DEF Assign
  <1>2. m \notin evicted
    <2> SUFFICES ASSUME a \in DOMAIN byIP, byIP[a].mac = m
                 PROVE  FALSE
      OBVIOUS
    <2>1. now > byIP[a].expires
      BY ChosenIsOwnOrFree DEF ServerInv
    <2>2. byMAC[m].ip = a
      BY DEF ServerInv, PoolInv, MapsAgree
    <2>3. byIP[a].expires = byMAC[m].expires
      BY <2>2, HolderOf
    <2> QED BY <2>1, <2>3, PromiseTypes
  <1> QED BY <1>1, <1>2 DEF Put, Drop

(* The client itself keeps the address it has, for the whole lease time.   *)
LEMMA AssignOwn ==
  ASSUME NEW mac, NEW requested, NEW a, Chooses(a, mac, requested), Assign(mac, a)
  PROVE  /\ mac \in DOMAIN byMAC'
         /\ byMAC'[mac] = [ip |-> a, expires |-> now + Duration]
         /\ mac \in DOMAIN byMAC => byMAC[mac].ip = a
  BY DEF Assign, Put, Chooses

(* Allocating keeps every promise; so does telling the client about it.    *)
LEMMA AllocateKeepsPromises ==
  ASSUME PromiseInv, NEW mac \in Clients, NEW requested \in Requestable, NEW a \in Addrs,
         Chooses(a, mac, requested), Assign(mac, a), UNCHANGED now,
         UNCHANGED promised \/ Ack(mac, a)
  PROVE  PromisesHeld' /\ NoLongPromise'
  <1> USE DEF PromiseInv
  <1>1. /\ mac \in DOMAIN byMAC'
        /\ byMAC'[mac] = [ip |-> a, expires |-> now + Duration]
        /\ mac \in DOMAIN byMAC => byMAC[mac].ip = a
    BY AssignOwn
  <1>2. \A m \in DOMAIN promised' :
           \/ m = mac /\ promised'[m] = [ip |-> a, expires |-> now + Duration]
           \/ m \in DOMAIN promised /\ promised'[m] = promised[m]
    BY DEF Ack, Put
  <1>3. now \in Nat /\ Duration \in Nat
    BY PromiseTypes, PoolAssumption
  <1>4. NoLongPromise'
    BY <1>2, <1>3 DEF NoLongPromise
  <1>5. PromisesHeld'
    <2> SUFFICES ASSUME NEW m \in DOMAIN promised', now < promised'[m].expires
                 PROVE  /\ m \in DOMAIN byMAC'
                        /\ byMAC'[m].ip = promised'[m].ip
                        /\ promised'[m].expires <= byMAC'[m].expires
      BY DEF PromisesHeld, Unexpired
    <2>1. CASE m = mac /\ promised'[m] = [ip |-> a, expires |-> now + Duration]
      BY <1>1, <1>3, <2>1
    <2>2. CASE m \in DOMAIN promised /\ promised'[m] = promised[m]
      <3>1. /\ m \in DOMAIN byMAC
            /\ byMAC[m].ip = promised[m].ip
            /\ promised[m].expires <= byMAC[m].expires
        BY <2>2, PromiseTypes DEF PromisesHeld, Unexpired
      <3>2. CASE m = mac
        <4>1. promised[m].expires <= now + Duration
          BY <2>2 DEF NoLongPromise
        <4> QED BY <1>1, <2>2, <3>1, <3>2, <4>1
      <3>3. CASE m # mac
        <4>1. byMAC[m].expires > now
          BY <1>3, <2>2, <3>1, PromiseTypes
        <4>2. m \in DOMAIN byMAC' /\ byMAC'[m] = byMAC[m]
          BY <3>1, <3>3, <4>1, AssignKeeps
        <4> QED BY <2>2, <3>1, <4>2
      <3> QED BY <3>2, <3>3
    <2> QED BY <1>2, <2>1, <2>2
  <1> QED BY <1>4, <1>5

(* As long as the server is not restarted, every step keeps every promise. *)
LEMMA PromiseStep ==
  ASSUME PromiseInv, [Next]_vars, ~ MayRestart
  PROVE  PromisesHeld' /\ NoLongPromise'
  <1> USE DEF PromiseInv
  <1>1. CASE UNCHANGED <<pool, now, promised>>
    BY <1>1 DEF pool, PromisesHeld, Unexpired, NoLongPromise
  <1>2. ASSUME NEW mac \in Clients, NEW requested \in Requestable, Discover(mac, requested)
        PROVE  PromisesHeld' /\ NoLongPromise'
    BY <1>1, <1>2, AllocateKeepsPromises DEF Discover
  <1>3. ASSUME NEW h \in Handlers, Renew(h) \/ Retry(h)
        PROVE  PromisesHeld' /\ NoLongPromise'
    <2>1. packet[h].mac \in Clients /\ packet[h].requested \in Requestable
      BY PacketTypes DEF ServerInv
    <2>2. CASE UNCHANGED <<pool, promised>>
      BY <1>1, <1>3, <2>2 DEF Renew, Retry
    <2>3. CASE \E a \in Addrs : /\ Chooses(a, packet[h].mac, packet[h].requested)
                                /\ Assign(packet[h].mac, a)
                                /\ UNCHANGED promised \/ Ack(packet[h].mac, a)
      BY <1>3, <2>1, <2>3, AllocateKeepsPromises DEF Renew, Retry
    <2> QED BY <1>3, <2>2, <2>3 DEF Renew, Retry
  <1>4. ASSUME NEW mac \in Clients, GiveUp(mac)
        PROVE  PromisesHeld' /\ NoLongPromise'
    <2>1. /\ DOMAIN promised' = DOMAIN promised \ {mac}
          /\ \A m \in DOMAIN promised' : promised'[m] = promised[m]
          /\ now' = now
      BY <1>4 DEF GiveUp, Drop
    <2>2. \A m \in DOMAIN byMAC \ {mac} : m \in DOMAIN byMAC' /\ byMAC'[m] = byMAC[m]
      BY <1>4 DEF GiveUp, Release, Drop
    <2> QED BY <2>1, <2>2 DEF PromisesHeld, Unexpired, NoLongPromise
  <1>5. CASE Tick
    <2>1. now' = now + 1 /\ UNCHANGED <<range, byMAC, byIP, leases, promised>>
      BY <1>5 DEF Tick, pool
    <2>2. now \in Nat /\ Duration \in Nat
      BY PromiseTypes, PoolAssumption
    <2>3. \A m \in DOMAIN promised : promised[m].expires \in Nat
      BY PromiseTypes
    <2>4. NoLongPromise'
      BY <2>1, <2>2, <2>3 DEF NoLongPromise
    <2>5. \A m \in DOMAIN promised : now + 1 < promised[m].expires => now < promised[m].expires
      BY <2>2, <2>3
    <2>6. PromisesHeld'
      BY <2>1, <2>5 DEF PromisesHeld, Unexpired
    <2> QED BY <2>4, <2>6
  <1>6. CASE \E h \in Handlers, mac \in Clients, requested \in Addrs :
               BeginRequest(h, mac, requested)
    BY <1>1, <1>6 DEF BeginRequest
  <1>7. CASE \E end \in {1, 2}, a \in Ends : SaveRange(end, a)
    BY <1>1, <1>7 DEF SaveRange
  <1>8. CASE UNCHANGED vars
    BY <1>1, <1>8 DEF vars, pool
  <1>9. ~ Restart
    BY DEF Restart
  <1> QED BY <1>2, <1>3, <1>4, <1>5, <1>6, <1>7, <1>8, <1>9 DEF Next

(* While the server runs, it knows of every lease a client counts on. *)
THEOREM PromisesAlwaysHeld ==
  ASSUME ~ MayRestart
  PROVE  Spec => []PromisesHeld
  <1>1. Init => PromisesHeld /\ NoLongPromise
    <2>1. DOMAIN Empty = {}
      BY DEF Empty
    <2> QED BY <2>1 DEF Init, PromisesHeld, Unexpired, NoLongPromise
  <1>2. ServerInv /\ PromisesHeld /\ NoLongPromise /\ [Next]_vars
        => PromisesHeld' /\ NoLongPromise'
    BY PromiseStep DEF PromiseInv
  <1> QED BY <1>1, <1>2, PoolInductive, PTL DEF Spec

(* And then no two clients are told to use the same address: both would    *)
(* hold it in the pool.                                                    *)
THEOREM NoAddressEverShared ==
  ASSUME ~ MayRestart
  PROVE  Spec => []NoSharedAddress
  <1>1. ServerInv /\ PromisesHeld => NoSharedAddress
    <2> SUFFICES ASSUME ServerInv, PromisesHeld, NEW m \in Clients, NEW n \in Clients,
                        Unexpired(m), Unexpired(n), promised[m].ip = promised[n].ip
                 PROVE  m = n
      BY DEF NoSharedAddress
    <2>1. /\ m \in DOMAIN byMAC /\ byMAC[m].ip = promised[m].ip
          /\ n \in DOMAIN byMAC /\ byMAC[n].ip = promised[n].ip
      BY DEF PromisesHeld
    <2>2. byIP[byMAC[m].ip].mac = m /\ byIP[byMAC[n].ip].mac = n
      BY <2>1, HolderOf
    <2> QED BY <2>1, <2>2
  <1> QED BY <1>1, PoolInductive, PromisesAlwaysHeld, PTL
=============================================================================
