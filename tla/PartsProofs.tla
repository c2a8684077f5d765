------------------------------ MODULE PartsProofs -----------------------------
(***************************************************************************)
(* The small parts of the server that share no state, each with its        *)
(* theorems, for every value of its constants.                             *)
(***************************************************************************)
EXTENDS LogRing, RateLimiter, DhcpObserver, LeaseScan, ConfigSchema, FiniteSetTheorems, TLAPS

-----------------------------------------------------------------------------
(* The log ring, for any number of slots: written modulo its size, it is   *)
(* the bounded list of RecentLog.                                          *)

(* The slots that Walk visits have been written. *)
RingInv ==
  /\ RingTypeOK
  /\ \A i \in 0..(Size - 1) : full \/ i < next => slots[i] \in Entry

-----------------------------------------------------------------------------
(* Arithmetic of the wrap *)

(* Both operands the code reduces are below twice the size. *)
LEMMA Wrap ==
  ASSUME NEW a \in 0..(2 * Size - 1)
  PROVE  a % Size = IF a < Size THEN a ELSE a - Size
  BY RingAssumption

(* append moves on by one and falls back to the first slot. *)
LEMMA NextSlot ==
  ASSUME next \in 0..(Size - 1)
  PROVE  (next + 1) % Size = IF next = Size - 1 THEN 0 ELSE next + 1
  <1>1. next + 1 \in 0..(2 * Size - 1)
    BY RingAssumption
  <1> QED BY <1>1, Wrap, RingAssumption

(* The slot that Entries reads in its i-th turn. *)
LEMMA Slot ==
  ASSUME NEW k \in 0..(Size - 1), NEW i \in 1..Size
  PROVE  (k - i + Size) % Size = IF i <= k THEN k - i ELSE k - i + Size
  <1>1. k - i + Size \in 0..(2 * Size - 1)
    BY RingAssumption
  <1> QED BY <1>1, Wrap, RingAssumption

-----------------------------------------------------------------------------
(* The invariant *)

LEMMA RingInitInv ==
  ASSUME RingInit
  PROVE  RingInv
  <1>1. RingTypeOK
    <2>1. slots \in [0..(Size - 1) -> Entry \cup {Zero}]
      BY DEF RingInit
    <2>2. next = 0 /\ full = FALSE
      BY DEF RingInit
    <2>3. next \in 0..(Size - 1)
      BY <2>2, RingAssumption
    <2>4. full \in BOOLEAN
      BY <2>2, Zenon
    <2> QED BY <2>1, <2>3, <2>4 DEF RingTypeOK
  <1>2. ~ full /\ next = 0
    BY DEF RingInit
  <1> QED BY <1>1, <1>2 DEF RingInv

(* append, without its modulus. *)
LEMMA RecordIs ==
  ASSUME RingInv, NEW e \in Entry, Record(e)
  PROVE  /\ slots' = [slots EXCEPT ![next] = e]
         /\ next' = IF next = Size - 1 THEN 0 ELSE next + 1
         /\ full' = (full \/ next = Size - 1)
  <1>1. next' = IF next = Size - 1 THEN 0 ELSE next + 1
    BY NextSlot DEF RingInv, RingTypeOK, Record
  <1>2. next' = 0 <=> next = Size - 1
    BY <1>1, RingAssumption DEF RingInv, RingTypeOK
  <1> QED BY <1>1, <1>2 DEF Record

LEMMA RecordInv ==
  ASSUME RingInv, NEW e \in Entry, Record(e)
  PROVE  RingInv'
  <1>1. /\ slots' = [slots EXCEPT ![next] = e]
        /\ next' = IF next = Size - 1 THEN 0 ELSE next + 1
        /\ full' = (full \/ next = Size - 1)
    BY RecordIs
  <1>2. RingTypeOK'
    BY <1>1, RingAssumption DEF RingInv, RingTypeOK
  <1>3. ASSUME NEW i \in 0..(Size - 1), full' \/ i < next'
        PROVE  slots'[i] \in Entry
    <2>1. CASE i = next
      BY <1>1, <2>1 DEF RingInv, RingTypeOK
    <2>2. CASE i # next
      BY <1>1, <1>3, <2>2, RingAssumption DEF RingInv, RingTypeOK
    <2> QED BY <2>1, <2>2
  <1> QED BY <1>2, <1>3 DEF RingInv

LEMMA RingStepInv ==
  ASSUME RingInv, [RingNext]_ring
  PROVE  RingInv'
  <1>1. CASE \E e \in Entry : Record(e)
    BY <1>1, RecordInv
  <1>2. CASE UNCHANGED <<slots, next, full>>
    BY <1>2 DEF RingInv, RingTypeOK
  <1> QED BY <1>1, <1>2 DEF RingNext, HandleLogs, ring

(* Only slots that were written are shown, for any number of slots. *)
THEOREM RingInductive == RingSpec => []RingInv
  BY RingInitInv, RingStepInv, PTL DEF RingSpec

-----------------------------------------------------------------------------
(* Refinement *)

(* Walk, by the turns of its loop. *)
Shape ==
  /\ Walk \in Seq(Entry)
  /\ Len(Walk) = Count /\ Count \in 0..Size
  /\ \A i \in 1..Count :
       Walk[i] = IF i <= next THEN slots[next - i] ELSE slots[next - i + Size]

LEMMA WalkIs == RingInv => Shape
  <1> SUFFICES ASSUME RingInv
               PROVE  Shape
    OBVIOUS
  <1>1. Count \in 0..Size
    BY RingAssumption DEF Count, RingInv, RingTypeOK
  <1>2. \A i \in 1..Count :
          (next - i + Size) % Size = IF i <= next THEN next - i ELSE next - i + Size
    BY <1>1, Slot, RingAssumption DEF RingInv, RingTypeOK
  <1>3. \A i \in 1..Count :
          Walk[i] = IF i <= next THEN slots[next - i] ELSE slots[next - i + Size]
    BY <1>2 DEF Walk
  <1>4. \A i \in 1..Count : Walk[i] \in Entry
    <2> TAKE i \in 1..Count
    <2>1. CASE i <= next
      BY <1>1, <1>3, <2>1, RingAssumption DEF RingInv, RingTypeOK
    <2>2. CASE i > next
      BY <1>1, <1>3, <2>2, RingAssumption DEF RingInv, RingTypeOK, Count
    <2> QED BY <2>1, <2>2, <1>1, RingAssumption DEF RingInv, RingTypeOK
  <1>5. Walk = [i \in 1..Count |-> Walk[i]]
    BY DEF Walk
  <1>6. Walk \in Seq(Entry) /\ Len(Walk) = Count
    BY <1>1, <1>4, <1>5
  <1> QED BY <1>1, <1>3, <1>6 DEF Shape

(* One entry more: the newest first, and the oldest gone if all slots were *)
(* in use.                                                                 *)
LEMMA WalkMoves ==
  ASSUME RingInv, NEW e \in Entry, Record(e)
  PROVE  Walk' = Recent!FirstOf(<<e>> \o Walk, Size)
  <1>0. RingInv'
    BY RecordInv
  <1>1. /\ slots' = [slots EXCEPT ![next] = e]
        /\ next' = IF next = Size - 1 THEN 0 ELSE next + 1
        /\ full' = (full \/ next = Size - 1)
    BY RecordIs
  <1>2. Count' = IF Count = Size THEN Size ELSE Count + 1
    <2>0. next \in 0..(Size - 1) /\ full \in BOOLEAN /\ Size \in Nat \ {0}
      BY RingAssumption DEF RingInv, RingTypeOK
    <2>1. CASE full
      <3>1. full' /\ Count = Size /\ Count' = Size
        BY <1>1, <2>1 DEF Count
      <3> QED BY <3>1
    <2>2. CASE ~ full /\ next = Size - 1
      <3>1. full' /\ Count = next /\ Count' = Size
        BY <1>1, <2>2 DEF Count
      <3> QED BY <2>0, <2>2, <3>1
    <2>3. CASE ~ full /\ next # Size - 1
      <3>1. ~ full' /\ Count = next /\ Count' = next + 1
        BY <1>1, <2>3 DEF Count
      <3> QED BY <2>0, <2>3, <3>1
    <2> QED BY <2>1, <2>2, <2>3
  <1>3. /\ Walk' \in Seq(Entry) /\ Len(Walk') = Count'
        /\ \A i \in 1..Count' :
             Walk'[i] = IF i <= next' THEN slots'[next' - i] ELSE slots'[next' - i + Size]
    <2>1. Shape'
      BY <1>0, WalkIs, PTL
    <2> QED BY <2>1 DEF Shape
  <1>4. /\ Walk \in Seq(Entry) /\ Len(Walk) = Count /\ Count \in 0..Size
        /\ \A i \in 1..Count :
             Walk[i] = IF i <= next THEN slots[next - i] ELSE slots[next - i + Size]
    BY WalkIs DEF Shape
  <1>5. slots' = [slots EXCEPT ![next] = e] /\ slots \in [0..(Size - 1) -> Entry \cup {Zero}]
        /\ next \in 0..(Size - 1) /\ Size \in Nat \ {0}
    BY <1>1, RingAssumption DEF RingInv, RingTypeOK
  <1>6. Count' >= 1 /\ Walk'[1] = e
    BY <1>1, <1>2, <1>3, <1>4, <1>5
  <1>7. ASSUME NEW i \in 2..Count'
        PROVE  Walk'[i] = Walk[i - 1]
    <2>1. i \in 1..Count' /\ i - 1 \in 1..Count /\ i <= Size
      BY <1>2, <1>4, <1>5
    <2>2. CASE next = Size - 1
      BY <1>1, <1>3, <1>4, <1>5, <2>1, <2>2
    <2>3. CASE next # Size - 1
      BY <1>1, <1>3, <1>4, <1>5, <2>1, <2>3
    <2> QED BY <2>2, <2>3
  <1> DEFINE longer == <<e>> \o Walk
  <1>8. /\ longer \in Seq(Entry) /\ Len(longer) = Count + 1
        /\ longer[1] = e /\ \A i \in 2..(Count + 1) : longer[i] = Walk[i - 1]
    BY <1>4
  <1> HIDE DEF longer
  <1>9. Recent!FirstOf(longer, Size) = [i \in 1..Count' |-> longer[i]]
    <2>1. CASE Count = Size
      <3>1. Recent!FirstOf(longer, Size) = SubSeq(longer, 1, Size)
        BY <1>5, <1>8, <2>1 DEF Recent!FirstOf
      <3>2. SubSeq(longer, 1, Size) = [i \in 1..Size |-> longer[i]]
        BY <1>5, <1>8, <2>1
      <3> QED BY <1>2, <2>1, <3>1, <3>2
    <2>2. CASE Count < Size
      <3>1. Recent!FirstOf(longer, Size) = longer
        BY <1>4, <1>5, <1>8, <2>2 DEF Recent!FirstOf
      <3>2. longer = [i \in 1..(Count + 1) |-> longer[i]]
        BY <1>4, <1>8
      <3> QED BY <1>2, <1>4, <1>5, <2>2, <3>1, <3>2
    <2> QED BY <1>4, <1>5, <2>1, <2>2
  <1>10. \A i \in 1..Count' : Walk'[i] = longer[i]
    BY <1>2, <1>4, <1>5, <1>6, <1>7, <1>8
  <1>11. Walk' = [i \in 1..Count' |-> Walk'[i]]
    BY <1>3
  <1> QED BY <1>9, <1>10, <1>11 DEF longer

LEMMA HandleLogsShows ==
  ASSUME NEW level \in Levels \cup {"warning", "other"}, NEW limit \in 0..(LargestLimit + 1),
         HandleLogs(level, limit)
  PROVE  Recent!RecentNext
  <1> DEFINE low == ParseLevel(level)
             most == IF limit = 0 THEN DefaultLimit ELSE limit
  <1>1. low \in 0..3
    BY DEF ParseLevel
  <1>2. most \in 1..LargestLimit
    <2>1. limit <= LargestLimit
      BY DEF HandleLogs
    <2> QED BY <2>1, RingAssumption
  <1>3. answer' = Entries(low, most) /\ Walk' = Walk
    BY DEF HandleLogs, Walk, Count
  <1> HIDE DEF low, most
  <1>4. Entries(low, most) = Recent!FirstOf(Recent!AtLeast(Walk, low), most)
    <2>1. most > 0
      BY <1>2, RingAssumption
    <2> QED BY <2>1, Zenon DEF Entries, Recent!FirstOf, Recent!AtLeast
  <1>5. Recent!Show(low, most)
    BY <1>3, <1>4 DEF Recent!Show
  <1> QED BY <1>1, <1>2, <1>5 DEF Recent!RecentNext

(* The ring is a bounded list of the newest entries. *)
THEOREM RingImplementsRecent == RingSpec => ImplementsRecent
  <1>1. RingInit => Recent!RecentInit
    BY RingAssumption DEF RingInit, Recent!RecentInit, Walk, Count
  <1>2. RingInv /\ [RingNext]_ring => [Recent!RecentNext]_<<Walk, answer>>
    <2> SUFFICES ASSUME RingInv, [RingNext]_ring
                 PROVE  Recent!RecentNext \/ UNCHANGED <<Walk, answer>>
      OBVIOUS
    <2>1. CASE \E e \in Entry : Record(e)
      <3>1. PICK e \in Entry : Record(e)
        BY <2>1
      <3>2. Recent!Log(e)
        BY <3>1, WalkMoves DEF Recent!Log, Record
      <3> QED BY <3>2 DEF Recent!RecentNext
    <2>2. CASE \E level \in Levels \cup {"warning", "other"}, limit \in 0..(LargestLimit + 1) :
                 HandleLogs(level, limit)
      BY <2>2, HandleLogsShows
    <2>3. CASE UNCHANGED ring
      BY <2>3 DEF ring, Walk, Count
    <2> QED BY <2>1, <2>2, <2>3 DEF RingNext
  <1> QED BY <1>1, <1>2, RingInductive, PTL DEF RingSpec, ImplementsRecent, Recent!RecentSpec

-----------------------------------------------------------------------------
(* The login limiter, for any burst, refill time and number of clients:    *)
(* the account of a bucket against the attempts it has allowed.            *)

Full == Burst * Refill

LimiterTypeOK ==
  /\ clock \in Nat
  /\ DOMAIN buckets \subseteq Clients
  /\ \A c \in DOMAIN buckets : buckets[c].tokens \in 0..Full /\ buckets[c].last \in 0..clock
  /\ allowed \in [Clients -> Seq(Nat)]

(* A client that was never allowed has not been seen: its first attempt is *)
(* allowed.                                                                *)
Fresh == \A c \in Clients : allowed[c] = << >> => c \notin DOMAIN buckets

(* What was spent since an allowed attempt and what is left were there     *)
(* before it or have been earned since.                                    *)
Spent ==
  \A c \in Clients : \A i \in DOMAIN allowed[c] :
    /\ allowed[c][i] <= clock
    /\ (Len(allowed[c]) - i + 1) * Refill + Earned(c) <= Full + (clock - allowed[c][i])

(* What was earned since the last allowed attempt is still there. *)
Kept ==
  \A c \in Clients :
    allowed[c] # << >> => Earned(c) >= Lower(clock - allowed[c][Len(allowed[c])], Full)

LimiterInv == LimiterTypeOK /\ Fresh /\ Spent /\ Kept /\ NeverMore

-----------------------------------------------------------------------------
(* Arithmetic *)

(* A full bucket holds a token. *)
LEMMA FullHolds == Full \in Nat /\ Refill \in Nat \ {0} /\ Full >= Refill
  <1>1. \A b, r \in Nat : b >= 1 => b * r \in Nat /\ b * r >= r
    OBVIOUS
  <1> QED BY <1>1, LimiterAssumption DEF Full

LEMMA OneMore ==
  ASSUME NEW k \in Nat
  PROVE  k * Refill \in Nat /\ (k + 1) * Refill = k * Refill + Refill
  BY LimiterAssumption

LEMMA EarnedType ==
  ASSUME LimiterTypeOK, NEW c \in Clients
  PROVE  Earned(c) \in 0..Full
  BY FullHolds DEF LimiterTypeOK, Earned, Lower, Full

-----------------------------------------------------------------------------
(* What a step does to a bucket *)

LEMMA PassEarns ==
  ASSUME LimiterTypeOK, Pass, NEW c \in Clients
  PROVE  Earned(c)' = Lower(Earned(c) + 1, Full)
  <1>1. clock \in Nat /\ clock' = clock + 1 /\ buckets' = buckets
    BY DEF Pass, LimiterTypeOK
  <1>2. CASE c \in DOMAIN buckets
    <2>1. buckets[c].tokens \in 0..Full /\ buckets[c].last \in 0..clock
      BY <1>2 DEF LimiterTypeOK
    <2>2. Earned(c) = Lower(buckets[c].tokens + (clock - buckets[c].last), Full)
      BY <1>2 DEF Earned, Full
    <2>3. Earned(c)' = Lower(buckets'[c].tokens + (clock' - buckets'[c].last), Full)
      BY <1>1, <1>2 DEF Earned, Full
    <2> QED BY <1>1, <2>1, <2>2, <2>3, FullHolds DEF Lower
  <1>3. CASE c \notin DOMAIN buckets
    <2>1. Earned(c) = Full /\ Earned(c)' = Full
      BY <1>1, <1>3 DEF Earned, Full
    <2> QED BY <2>1, FullHolds DEF Lower
  <1> QED BY <1>2, <1>3

(* The bucket of c is left with some tokens at this moment. *)
LEMMA HeldTypes ==
  ASSUME LimiterTypeOK, NEW c \in Clients, NEW t \in 0..Full,
         clock' = clock, buckets' = Holding(c, t)
  PROVE  /\ DOMAIN buckets' = DOMAIN buckets \cup {c}
         /\ \A d \in DOMAIN buckets' :
              buckets'[d].tokens \in 0..Full /\ buckets'[d].last \in 0..clock'
         /\ Earned(c)' = t
         /\ \A d \in Clients \ {c} : Earned(d)' = Earned(d)
  <1>0. clock \in Nat /\ DOMAIN buckets \subseteq Clients
    BY DEF LimiterTypeOK
  <1>1. DOMAIN buckets' = DOMAIN buckets \cup {c}
    BY DEF Holding
  <1>2. /\ buckets'[c].tokens = t /\ buckets'[c].last = clock
        /\ \A d \in DOMAIN buckets \ {c} : buckets'[d] = buckets[d]
    BY DEF Holding
  <1>3. \A d \in DOMAIN buckets' :
          buckets'[d].tokens \in 0..Full /\ buckets'[d].last \in 0..clock'
    <2> TAKE d \in DOMAIN buckets'
    <2>1. CASE d = c
      BY <1>0, <1>2, <2>1
    <2>2. CASE d # c
      BY <1>1, <1>2, <2>2 DEF LimiterTypeOK
    <2> QED BY <2>1, <2>2
  <1>4. Earned(c)' = t
    <2>1. Earned(c)' = Lower(t + (clock - clock), Full)
      BY <1>1, <1>2 DEF Earned, Full
    <2> QED BY <1>0, <2>1, FullHolds DEF Lower
  <1>5. ASSUME NEW d \in Clients \ {c}
        PROVE  Earned(d)' = Earned(d)
    <2>1. d \in DOMAIN buckets' <=> d \in DOMAIN buckets
      BY <1>1
    <2>2. CASE d \in DOMAIN buckets
      BY <1>2, <2>1, <2>2 DEF Earned
    <2>3. CASE d \notin DOMAIN buckets
      BY <2>1, <2>3 DEF Earned
    <2> QED BY <2>2, <2>3
  <1> QED BY <1>1, <1>3, <1>4, <1>5

LEMMA AllowSpends ==
  ASSUME LimiterTypeOK, NEW c \in Clients, Allow(c)
  PROVE  /\ LimiterTypeOK'
         /\ DOMAIN buckets' = DOMAIN buckets \cup {c}
         /\ Earned(c)' = Earned(c) - Refill
         /\ \A d \in Clients \ {c} : Earned(d)' = Earned(d) /\ allowed'[d] = allowed[d]
         /\ allowed'[c] = Append(allowed[c], clock)
  <1>1. Earned(c) - Refill \in 0..Full
    BY EarnedType, FullHolds DEF Allow
  <1>2. clock' = clock /\ buckets' = Holding(c, Earned(c) - Refill)
        /\ allowed' = [allowed EXCEPT ![c] = Append(@, clock)]
    BY DEF Allow
  <1>3. clock \in Nat /\ allowed \in [Clients -> Seq(Nat)] /\ DOMAIN buckets \subseteq Clients
    BY DEF LimiterTypeOK
  <1>4. /\ DOMAIN buckets' = DOMAIN buckets \cup {c}
        /\ \A d \in DOMAIN buckets' :
             buckets'[d].tokens \in 0..Full /\ buckets'[d].last \in 0..clock'
        /\ Earned(c)' = Earned(c) - Refill
        /\ \A d \in Clients \ {c} : Earned(d)' = Earned(d)
    BY <1>1, <1>2, HeldTypes
  <1>5. LimiterTypeOK'
    BY <1>2, <1>3, <1>4 DEF LimiterTypeOK
  <1> QED BY <1>2, <1>3, <1>4, <1>5

LEMMA RefuseKeeps ==
  ASSUME LimiterTypeOK, NEW c \in Clients, Refuse(c)
  PROVE  /\ LimiterTypeOK'
         /\ DOMAIN buckets' = DOMAIN buckets \cup {c}
         /\ \A d \in Clients : Earned(d)' = Earned(d)
  <1>1. Earned(c) \in 0..Full
    BY EarnedType
  <1>2. clock' = clock /\ buckets' = Holding(c, Earned(c)) /\ allowed' = allowed
    BY DEF Refuse
  <1>3. DOMAIN buckets \subseteq Clients /\ clock \in Nat /\ allowed \in [Clients -> Seq(Nat)]
    BY DEF LimiterTypeOK
  <1>4. /\ DOMAIN buckets' = DOMAIN buckets \cup {c}
        /\ \A d \in DOMAIN buckets' :
             buckets'[d].tokens \in 0..Full /\ buckets'[d].last \in 0..clock'
        /\ Earned(c)' = Earned(c)
        /\ \A d \in Clients \ {c} : Earned(d)' = Earned(d)
    BY <1>1, <1>2, HeldTypes
  <1>5. LimiterTypeOK'
    BY <1>2, <1>3, <1>4 DEF LimiterTypeOK
  <1> QED BY <1>4, <1>5

-----------------------------------------------------------------------------
(* The invariant *)

LEMMA LimiterInitInv ==
  ASSUME LimiterInit
  PROVE  LimiterInv
  <1>1. clock = 0 /\ DOMAIN buckets = {} /\ \A c \in Clients : allowed[c] = << >>
    BY DEF LimiterInit
  <1>2. LimiterTypeOK
    BY <1>1 DEF LimiterTypeOK, LimiterInit
  <1>3. Fresh /\ Kept
    BY <1>1 DEF Fresh, Kept
  <1>4. Spent /\ NeverMore
    BY <1>1 DEF Spent, NeverMore
  <1> QED BY <1>2, <1>3, <1>4 DEF LimiterInv

LEMMA PassInv ==
  ASSUME LimiterInv, Pass
  PROVE  LimiterInv'
  <1>1. /\ clock \in Nat /\ clock' = clock + 1 /\ buckets' = buckets /\ allowed' = allowed
        /\ allowed \in [Clients -> Seq(Nat)]
    BY DEF Pass, LimiterInv, LimiterTypeOK
  <1>2. LimiterTypeOK'
    BY <1>1 DEF LimiterInv, LimiterTypeOK
  <1>3. Fresh' /\ NeverMore'
    BY <1>1 DEF LimiterInv, Fresh, NeverMore
  <1>4. \A c \in Clients :
          Earned(c) \in 0..Full /\ Earned(c)' = Lower(Earned(c) + 1, Full)
    BY EarnedType, PassEarns DEF LimiterInv
  <1>5. Spent'
    <2> SUFFICES ASSUME NEW c \in Clients, NEW i \in DOMAIN allowed[c]
                 PROVE  /\ allowed[c][i] <= clock'
                        /\ (Len(allowed[c]) - i + 1) * Refill + Earned(c)'
                             <= Full + (clock' - allowed[c][i])
      BY <1>1 DEF Spent
    <2> DEFINE spent == (Len(allowed[c]) - i + 1) * Refill
               at == allowed[c][i]
    <2>1. at <= clock /\ spent + Earned(c) <= Full + (clock - at)
      BY DEF LimiterInv, Spent
    <2>2. Len(allowed[c]) - i + 1 \in Nat /\ at \in Nat
      BY <1>1
    <2>3. spent \in Nat
      BY <2>2, OneMore
    <2>4. Earned(c)' \in Nat /\ Earned(c)' <= Earned(c) + 1
      BY <1>4, FullHolds DEF Lower
    <2> HIDE DEF spent, at
    <2>5. at <= clock' /\ spent + Earned(c)' <= Full + (clock' - at)
      BY <1>1, <1>4, <2>1, <2>2, <2>3, <2>4, FullHolds
    <2> QED BY <2>5 DEF spent, at
  <1>6. Kept'
    <2> SUFFICES ASSUME NEW c \in Clients, allowed[c] # << >>
                 PROVE  Earned(c)' >= Lower(clock' - allowed[c][Len(allowed[c])], Full)
      BY <1>1 DEF Kept
    <2>1. Earned(c) >= Lower(clock - allowed[c][Len(allowed[c])], Full)
      BY DEF LimiterInv, Kept
    <2>2. allowed[c][Len(allowed[c])] \in Nat
      BY <1>1
    <2> QED BY <1>1, <1>4, <2>1, <2>2, FullHolds DEF Lower
  <1> QED BY <1>2, <1>3, <1>5, <1>6 DEF LimiterInv

LEMMA AllowInv ==
  ASSUME LimiterInv, NEW c \in Clients, Allow(c)
  PROVE  LimiterInv'
  <1>1. /\ LimiterTypeOK' /\ DOMAIN buckets' = DOMAIN buckets \cup {c}
        /\ Earned(c)' = Earned(c) - Refill
        /\ \A d \in Clients \ {c} : Earned(d)' = Earned(d) /\ allowed'[d] = allowed[d]
        /\ allowed'[c] = Append(allowed[c], clock)
    BY AllowSpends DEF LimiterInv
  <1>2. /\ clock \in Nat /\ clock' = clock /\ allowed \in [Clients -> Seq(Nat)]
        /\ Earned(c) >= Refill /\ Earned(c) \in 0..Full
    BY EarnedType DEF Allow, LimiterInv, LimiterTypeOK
  <1> DEFINE s == allowed[c]
             len == Len(s)
  <1>3. /\ s \in Seq(Nat) /\ len \in Nat /\ allowed'[c] # << >>
        /\ Len(allowed'[c]) = len + 1 /\ allowed'[c][len + 1] = clock
        /\ \A i \in 1..len : allowed'[c][i] = s[i] /\ s[i] \in Nat
        /\ DOMAIN s = 1..len /\ DOMAIN allowed'[c] = 1..(len + 1)
    BY <1>1, <1>2
  <1>4. \A i \in 1..len : s[i] <= clock /\ (len - i + 1) * Refill + Earned(c) <= Full + (clock - s[i])
    BY <1>3 DEF LimiterInv, Spent
  <1> HIDE DEF s, len
  <1>5. \A i \in 1..len : /\ (len - i + 1) * Refill \in Nat
                        /\ ((len + 1) - i + 1) * Refill = (len - i + 1) * Refill + Refill
    <2> TAKE i \in 1..len
    <2>1. len - i + 1 \in Nat /\ (len + 1) - i + 1 = (len - i + 1) + 1
      BY <1>3
    <2> QED BY <2>1, OneMore
  <1>6. ((len + 1) - (len + 1) + 1) * Refill = Refill
    <2>1. (len + 1) - (len + 1) + 1 = 1
      BY <1>3
    <2> QED BY <2>1, LimiterAssumption
  <1>7. Fresh'
    BY <1>1, <1>3 DEF LimiterInv, Fresh
  <1>8. Spent'
    <2> SUFFICES ASSUME NEW d \in Clients, NEW i \in DOMAIN allowed'[d]
                 PROVE  /\ allowed'[d][i] <= clock'
                        /\ (Len(allowed'[d]) - i + 1) * Refill + Earned(d)'
                             <= Full + (clock' - allowed'[d][i])
      BY DEF Spent
    <2>1. CASE d # c
      BY <1>1, <1>2, <2>1 DEF LimiterInv, Spent
    <2>2. CASE d = c /\ i = len + 1
      <3>1. Refill + (Earned(c) - Refill) <= Full + (clock - clock)
        BY <1>2, FullHolds
      <3>2. allowed'[d][i] = clock /\ Len(allowed'[d]) = len + 1 /\ Earned(d)' = Earned(c) - Refill
        BY <1>1, <1>3, <2>2
      <3>3. (Len(allowed'[d]) - i + 1) * Refill = Refill
        BY <1>6, <2>2, <3>2
      <3> QED BY <1>2, <3>1, <3>2, <3>3
    <2>3. CASE d = c /\ i \in 1..len
      <3> DEFINE spent == (len - i + 1) * Refill
      <3>1. spent \in Nat /\ s[i] \in Nat /\ s[i] <= clock
            /\ spent + Earned(c) <= Full + (clock - s[i])
        BY <1>3, <1>4, <1>5, <2>3
      <3>2. (Len(allowed'[d]) - i + 1) * Refill = spent + Refill
        BY <1>3, <1>5, <2>3
      <3>3. allowed'[d][i] = s[i] /\ Earned(d)' = Earned(c) - Refill
        BY <1>1, <1>3, <2>3
      <3> HIDE DEF spent
      <3>4. spent + Refill + (Earned(c) - Refill) <= Full + (clock - s[i])
        BY <1>2, <3>1, FullHolds
      <3> QED BY <1>2, <3>1, <3>2, <3>3, <3>4
    <2> QED BY <1>3, <2>1, <2>2, <2>3
  <1>9. Kept'
    <2> SUFFICES ASSUME NEW d \in Clients, allowed'[d] # << >>
                 PROVE  Earned(d)' >= Lower(clock' - allowed'[d][Len(allowed'[d])], Full)
      BY DEF Kept
    <2>1. CASE d # c
      BY <1>1, <1>2, <2>1 DEF LimiterInv, Kept
    <2>2. CASE d = c
      <3>1. clock' - allowed'[d][Len(allowed'[d])] = 0
        BY <1>2, <1>3, <2>2
      <3> QED BY <1>1, <1>2, <2>2, <3>1, FullHolds DEF Lower
    <2> QED BY <2>1, <2>2
  <1>10. NeverMore'
    <2> SUFFICES ASSUME NEW d \in Clients, NEW i \in DOMAIN allowed'[d],
                        NEW j \in DOMAIN allowed'[d], i <= j
                 PROVE  (j - i + 1) * Refill <= Full + (allowed'[d][j] - allowed'[d][i])
      BY DEF NeverMore, Full
    <2>1. CASE d # c
      BY <1>1, <2>1 DEF LimiterInv, NeverMore, Full
    <2>2. CASE d = c /\ j \in 1..len
      <3>1. i \in 1..len
        BY <1>3, <2>2
      <3>2. (j - i + 1) * Refill <= Full + (s[j] - s[i])
        BY <1>3, <2>2, <3>1 DEF LimiterInv, NeverMore, Full, s
      <3> QED BY <1>3, <2>2, <3>1, <3>2
    <2>3. CASE d = c /\ j = len + 1 /\ i \in 1..len
      <3> DEFINE spent == (len - i + 1) * Refill
      <3>1. spent \in Nat /\ s[i] \in Nat /\ s[i] <= clock
            /\ spent + Earned(c) <= Full + (clock - s[i])
        BY <1>3, <1>4, <1>5, <2>3
      <3>2. (j - i + 1) * Refill = spent + Refill
        BY <1>5, <2>3
      <3>3. allowed'[d][i] = s[i] /\ allowed'[d][j] = clock
        BY <1>3, <2>3
      <3> HIDE DEF spent
      <3>4. spent + Refill <= Full + (clock - s[i])
        BY <1>2, <3>1, FullHolds
      <3> QED BY <3>2, <3>3, <3>4
    <2>4. CASE d = c /\ j = len + 1 /\ i = len + 1
      BY <1>2, <1>3, <1>6, <2>4, FullHolds
    <2> QED BY <1>3, <2>1, <2>2, <2>3, <2>4
  <1> QED BY <1>1, <1>7, <1>8, <1>9, <1>10 DEF LimiterInv

LEMMA RefuseInv ==
  ASSUME LimiterInv, NEW c \in Clients, Refuse(c)
  PROVE  LimiterInv'
  <1>1. /\ LimiterTypeOK' /\ DOMAIN buckets' = DOMAIN buckets \cup {c}
        /\ \A d \in Clients : Earned(d)' = Earned(d)
    BY RefuseKeeps DEF LimiterInv
  <1>2. clock' = clock /\ allowed' = allowed /\ Earned(c) < Refill
    BY DEF Refuse
  <1>3. Earned(c) \in 0..Full
    BY EarnedType DEF LimiterInv
  <1>4. Fresh'
    <2>1. c \in DOMAIN buckets
      BY <1>2, FullHolds DEF Earned, Full
    <2> QED BY <1>1, <1>2, <2>1 DEF LimiterInv, Fresh
  <1>5. Spent'
    BY <1>1, <1>2 DEF LimiterInv, Spent
  <1>6. Kept'
    BY <1>1, <1>2 DEF LimiterInv, Kept
  <1>7. NeverMore'
    BY <1>2 DEF LimiterInv, NeverMore
  <1> QED BY <1>1, <1>4, <1>5, <1>6, <1>7 DEF LimiterInv

LEMMA LimiterStepInv ==
  ASSUME LimiterInv, [LimiterNext]_limiter
  PROVE  LimiterInv'
  <1>1. CASE Pass
    BY <1>1, PassInv
  <1>2. CASE \E c \in Clients : Allow(c) \/ Refuse(c)
    BY <1>2, AllowInv, RefuseInv
  <1>3. CASE UNCHANGED limiter
    <2>1. clock' = clock /\ buckets' = buckets /\ allowed' = allowed
      BY <1>3 DEF limiter
    <2>2. \A c \in Clients : Earned(c)' = Earned(c)
      BY <2>1 DEF Earned
    <2> QED BY <2>1, <2>2
            DEF LimiterInv, LimiterTypeOK, Fresh, Spent, Kept, NeverMore
  <1> QED BY <1>1, <1>2, <1>3 DEF LimiterNext

(* For every bucket and refill time, tokens are an exact account of what a *)
(* client was allowed (allow).                                             *)
THEOREM LimiterInductive == LimiterSpec => []LimiterInv
  BY LimiterInitInv, LimiterStepInv, PTL DEF LimiterSpec

(* The balance says both: no more than the burst and the time allow, and   *)
(* no attempt refused for which there was time enough (allow).             *)
LEMMA LimiterInvLimits == LimiterInv => LoginsLimited
  <1> SUFFICES ASSUME LimiterInv, NEW c \in Clients,
                      allowed[c] = << >> \/ clock - allowed[c][Len(allowed[c])] >= Refill
               PROVE  Earned(c) >= Refill
    BY DEF LimiterInv, LoginsLimited, NeverLess
  <1>1. CASE allowed[c] = << >>
    <2>1. Earned(c) = Full
      BY <1>1 DEF LimiterInv, Fresh, Earned, Full
    <2> QED BY <2>1, FullHolds
  <1>2. CASE allowed[c] # << >>
    <2>1. Earned(c) >= Lower(clock - allowed[c][Len(allowed[c])], Full)
      BY <1>2 DEF LimiterInv, Kept
    <2>2. /\ allowed[c] \in Seq(Nat) /\ clock \in Nat /\ Earned(c) \in 0..Full
          /\ allowed[c][Len(allowed[c])] \in Nat
      BY <1>2, EarnedType DEF LimiterInv, LimiterTypeOK
    <2> QED BY <1>2, <2>1, <2>2, FullHolds DEF Lower
  <1> QED BY <1>1, <1>2

(* Logins are limited to a burst and one attempt per refill time, and no   *)
(* client is locked out, for any number of clients and attempts (allow).   *)
THEOREM LoginsAlwaysLimited == LimiterSpec => []LoginsLimited
  BY LimiterInductive, LimiterInvLimits, PTL

-----------------------------------------------------------------------------
(* The rogue DHCP observer, for any window and any servers.                *)

LEMMA ObserverInitInv == ObserverInit => ObserverInv
  BY ObserverAssumption DEF ObserverInit, ObserverInv, SightingsExact, StatusIsCurrent, Suspicious

LEMMA ObserveInv ==
  ASSUME ObserverInv, NEW type, NEW ip \in Others \cup {Self, "unspecified"}, Observe(type, ip)
  PROVE  ObserverInv'
  <1>1. /\ minutes \in Nat /\ Window \in Nat /\ selfIP = Self /\ Self \notin Others
        /\ "unspecified" \notin Others
    BY ObserverAssumption DEF ObserverInv, Observe
  <1>2. minutes' = minutes /\ selfIP' = selfIP /\ status' = status
    BY DEF Observe
  <1>3. CASE type # "REQUEST"
    <2>1. named' = named /\ sightings' = sightings
      BY <1>3 DEF Observe, Counts
    <2> QED BY <1>2, <2>1 DEF ObserverInv, SightingsExact, StatusIsCurrent, Suspicious
  <1>4. CASE type = "REQUEST"
    <2>1. /\ DOMAIN named' = DOMAIN named \cup {ip} /\ named'[ip] = minutes
          /\ \A x \in DOMAIN named \ {ip} : named'[x] = named[x]
      BY <1>4 DEF Observe, Now
    <2>2. CASE ip \in Others
      <3>1. /\ DOMAIN sightings' = DOMAIN sightings \cup {ip} /\ sightings'[ip] = minutes
            /\ \A x \in DOMAIN sightings \ {ip} : sightings'[x] = sightings[x]
        BY <1>1, <1>4, <2>2 DEF Observe, Counts, Now
      <3>2. SightingsExact'
        BY <1>1, <1>2, <2>1, <2>2, <3>1 DEF ObserverInv, SightingsExact
      <3>3. StatusIsCurrent'
        BY <1>1, <1>2, <2>1 DEF ObserverInv, StatusIsCurrent, Suspicious
      <3> QED BY <1>1, <1>2, <2>1, <3>2, <3>3 DEF ObserverInv
    <2>3. CASE ip \notin Others
      <3>1. sightings' = sightings
        BY <1>1, <2>3 DEF Observe, Counts
      <3>2. SightingsExact'
        BY <1>1, <1>2, <2>1, <2>3, <3>1 DEF ObserverInv, SightingsExact
      <3>3. StatusIsCurrent'
        BY <1>1, <1>2, <2>1 DEF ObserverInv, StatusIsCurrent, Suspicious
      <3> QED BY <1>1, <1>2, <2>1, <3>2, <3>3 DEF ObserverInv
    <2> QED BY <2>2, <2>3
  <1> QED BY <1>3, <1>4

(* Whether there are two servers, as the handler counts them. *)
LEMMA TwoOrMore ==
  ASSUME NEW S, IsFiniteSet(S)
  PROVE  Cardinality(S) >= 2 <=> \E a, b \in S : a # b
  <1>1. Cardinality(S) \in Nat
    BY FS_CardinalityType
  <1>2. Cardinality(S) = 0 <=> S = {}
    BY FS_EmptySet
  <1>3. Cardinality(S) = 1 <=> \E x : S = {x}
    BY FS_Singleton
  <1>4. (S = {} \/ \E x : S = {x}) <=> \A a, b \in S : a = b
    OBVIOUS
  <1>5. Cardinality(S) >= 2 <=> ~ (Cardinality(S) = 0 \/ Cardinality(S) = 1)
    BY <1>1
  <1>6. Cardinality(S) >= 2 <=> ~ (S = {} \/ \E x : S = {x})
    BY <1>2, <1>3, <1>5
  <1> QED BY <1>4, <1>6

LEMMA WarningsFit ==
  ASSUME ObserverInv
  PROVE  Warnings(Recently) # {} <=> Suspicious(mode, Recently)
  <1>1. Recently \in SUBSET Others /\ IsFiniteSet(Others)
    BY ObserverAssumption DEF Recently, ObserverInv, SightingsExact
  <1>2. IsFiniteSet(Recently)
    BY <1>1, FS_Subset
  <1>3. Cardinality(Recently) >= 2 <=> \E a, b \in Recently : a # b
    BY <1>2, TwoOrMore
  <1> QED BY <1>3 DEF Warnings, Suspicious

LEMMA StatusInv ==
  ASSUME ObserverInv, HandleNetworkStatus
  PROVE  ObserverInv'
  <1>1. /\ minutes \in Nat /\ Window \in Nat /\ minutes' = minutes /\ selfIP' = selfIP
        /\ named' = named
    BY ObserverAssumption DEF ObserverInv, HandleNetworkStatus
  <1>2. /\ DOMAIN sightings' = Recently /\ \A ip \in Recently : sightings'[ip] = sightings[ip]
        /\ status'.at = minutes /\ status'.servers = Recently
        /\ status'.mode = mode /\ status'.warnings = Warnings(Recently)
    BY DEF HandleNetworkStatus
  <1>3. \A ip : ip \in Recently <=> ip \in DOMAIN sightings /\ sightings[ip] + Window >= minutes
    BY DEF Recently
  <1>4. SightingsExact'
    BY <1>1, <1>2, <1>3 DEF ObserverInv, SightingsExact
  <1>5. StatusIsCurrent'
    <2>1. status'.warnings # {} <=> Suspicious(status'.mode, status'.servers)
      BY <1>2, WarningsFit
    <2>2. /\ status'.servers \subseteq {ip \in Others : ip \in DOMAIN named'}
          /\ \A ip \in status'.servers : named'[ip] + Window >= minutes'
          /\ \A ip \in Others \cap DOMAIN named' :
               named'[ip] < minutes' /\ named'[ip] + Window >= minutes' => ip \in status'.servers
      BY <1>1, <1>2, <1>3 DEF ObserverInv, SightingsExact
    <2> QED BY <2>1, <2>2 DEF StatusIsCurrent, Suspicious
  <1> QED BY <1>1, <1>2, <1>4, <1>5 DEF ObserverInv

LEMMA MinuteInv ==
  ASSUME ObserverInv, Minute
  PROVE  ObserverInv'
  <1>1. /\ minutes \in Nat /\ Window \in Nat /\ minutes' = minutes + 1
        /\ UNCHANGED <<mode, selfIP, sightings, named, status>>
    BY ObserverAssumption DEF ObserverInv, Minute
  <1>2. SightingsExact'
    BY <1>1 DEF ObserverInv, SightingsExact
  <1>3. StatusIsCurrent'
    BY <1>1 DEF ObserverInv, StatusIsCurrent, Suspicious
  <1> QED BY <1>1, <1>2, <1>3 DEF ObserverInv

LEMMA ObserverStepInv == ObserverInv /\ [ObserverNext]_observer => ObserverInv'
  <1> SUFFICES ASSUME ObserverInv, [ObserverNext]_observer PROVE ObserverInv'
    OBVIOUS
  <1>1. ASSUME NEW m, StartServices(m) \/ SetMode(m) PROVE ObserverInv'
    BY <1>1 DEF StartServices, SetMode, ObserverInv, SightingsExact, StatusIsCurrent, Suspicious
  <1>2. ASSUME UNCHANGED observer PROVE ObserverInv'
    BY <1>2 DEF observer, ObserverInv, SightingsExact, StatusIsCurrent, Suspicious
  <1> QED BY <1>1, <1>2, ObserveInv, StatusInv, MinuteInv DEF ObserverNext

(* What the observer holds is exact for every other server a client named  *)
(* within the window, through any packets and prunings.                    *)
THEOREM ObserverInductive == ObserverSpec => []ObserverInv
  BY ObserverInitInv, ObserverStepInv, PTL DEF ObserverSpec

(* A network status names exactly the other servers that clients still     *)
(* name, and warns when there are more of them than the mode explains      *)
(* (handleNetworkStatus).                                                  *)
THEOREM StatusAlwaysCurrent == ObserverSpec => []StatusIsCurrent
  <1>1. ObserverInv => StatusIsCurrent
    BY DEF ObserverInv
  <1> QED BY <1>1, ObserverInductive, PTL

-----------------------------------------------------------------------------
(* The search for a free address, for any width of the loop variable.      *)

LEMMA AddressSpace == Top \in Nat /\ 2^Width = Top + 1 /\ 0 \in 0..Top
  <1> DEFINE size == 2^Width
  <1>1. size \in Nat \ {0}
    BY ScanAssumption
  <1>2. Top = size - 1
    BY DEF Top
  <1> HIDE DEF size
  <1>3. Top \in Nat /\ size = Top + 1 /\ 0 \in 0..Top
    BY <1>1, <1>2
  <1> QED BY <1>3 DEF size

(* An address that is free, and below which none is, is the answer. *)
LEMMA AnswerIs ==
  ASSUME NEW a \in Offered, \A b \in Offered : b \in Nat /\ a <= b
  PROVE  Answer = a
  <1>1. \A c \in Offered : (\A b \in Offered : c <= b) => c = a
    OBVIOUS
  <1> QED BY <1>1 DEF Answer

(* One step of the loop on an address that is taken: n goes on, or wraps.  *)
LEMMA NextAddress ==
  ASSUME n \in 0..Top
  PROVE  /\ (n + 1) % 2^Width \in 0..Top
         /\ n < Top => (n + 1) % 2^Width = n + 1
         /\ n = Top => (n + 1) % 2^Width = 0
  <1>1. Top \in Nat /\ (n + 1) % 2^Width = (n + 1) % (Top + 1)
    BY AddressSpace
  <1>2. CASE n < Top
    BY <1>1, <1>2
  <1>3. CASE n = Top
    BY <1>1, <1>3
  <1> QED BY <1>1, <1>2, <1>3

LEMMA TurnInv ==
  ASSUME ScanInv, Turn
  PROVE  ScanInv'
  <1>1. /\ scan = "running" /\ range' = range /\ taken' = taken
        /\ range[1] \in 0..Top /\ range[2] \in range[1]..Top /\ Top \in Nat
        /\ taken \subseteq 0..Top /\ n \in 0..Top /\ found = NotFound
    BY AddressSpace DEF ScanInv, Turn
  <1>2. Answer' = Answer /\ (RunsOver' <=> RunsOver)
    BY <1>1 DEF Free, RunsOver, Offered, Answer
  <1>3. \/ Passed(range[1]) /\ n <= range[2] + 1
        \/ Passed(0) /\ RunsOver
    BY <1>1 DEF ScanInv
  <1>4. CASE n <= range[2] /\ n \notin taken /\ found' = n /\ scan' = "done" /\ n' = n
    <2>1. n \in Offered /\ \A b \in Offered : b \in Nat /\ n <= b
      <3>1. CASE Passed(range[1])
        <4>1. n \in Free /\ \A b \in Free : b \in Nat /\ n <= b
          BY <1>1, <1>4, <3>1 DEF Passed, Free
        <4> QED BY <4>1 DEF Offered, RunsOver
      <3>2. CASE Passed(0) /\ RunsOver
        <4>1. Offered = (0..Top) \ taken
          BY <3>2 DEF Offered
        <4> QED BY <1>1, <1>4, <3>2, <4>1 DEF Passed
      <3> QED BY <1>3, <3>1, <3>2
    <2>2. Answer = n
      BY <2>1, AnswerIs
    <2> QED BY <1>1, <1>2, <1>4, <2>2 DEF ScanInv
  <1>5. CASE n <= range[2] /\ n \in taken /\ n' = (n + 1) % 2^Width /\ scan' = scan /\ found' = found
    <2>1. n' \in 0..Top
      BY <1>1, <1>5, NextAddress
    <2>2. CASE n < Top
      <3>1. n' = n + 1
        BY <1>1, <1>5, <2>2, NextAddress
      <3>2. CASE Passed(range[1])
        <4>1. range[1] <= n' /\ range[1]..(n' - 1) \subseteq taken /\ n' <= range[2] + 1
          BY <1>1, <1>5, <3>1, <3>2 DEF Passed
        <4> QED BY <1>1, <1>5, <2>1, <4>1 DEF ScanInv, Passed
      <3>3. CASE Passed(0) /\ RunsOver
        <4>1. 0 <= n' /\ 0..(n' - 1) \subseteq taken
          BY <1>1, <1>5, <3>1, <3>3 DEF Passed
        <4> QED BY <1>1, <1>2, <1>5, <2>1, <3>3, <4>1 DEF ScanInv, Passed
      <3> QED BY <1>3, <3>2, <3>3
    <2>3. CASE n = Top
      <3>1. n' = 0 /\ range[2] = Top
        BY <1>1, <1>5, <2>3, NextAddress
      <3>2. RunsOver
        <4>1. CASE Passed(range[1])
          BY <1>1, <1>5, <2>3, <3>1, <4>1 DEF Passed, RunsOver, Free
        <4> QED BY <1>3, <4>1
      <3>3. 0 <= n' /\ 0..(n' - 1) \subseteq taken
        BY <3>1
      <3> QED BY <1>1, <1>2, <1>5, <2>1, <3>2, <3>3 DEF ScanInv, Passed
    <2> QED BY <1>1, <2>2, <2>3
  <1>6. CASE n > range[2] /\ scan' = "done" /\ found' = found /\ n' = n
    <2>1. ~ RunsOver
      BY <1>1, <1>6 DEF RunsOver
    <2>2. Free = {}
      BY <1>1, <1>3, <1>6, <2>1 DEF Free, Passed
    <2>3. Answer = NotFound
      BY <2>1, <2>2 DEF Answer, Offered
    <2> QED BY <1>1, <1>2, <1>6, <2>3 DEF ScanInv
  <1> QED BY <1>4, <1>5, <1>6 DEF Turn

LEMMA ScanInitInv == ScanInit => ScanInv
  BY AddressSpace DEF ScanInit, ScanInv

LEMMA ScanStepInv == ScanInv /\ [ScanNext]_scanning => ScanInv'
  <1> SUFFICES ASSUME ScanInv, [ScanNext]_scanning PROVE ScanInv'
    OBVIOUS
  <1>1. ASSUME NEW start \in 0..Top, NEW end \in 0..Top, NEW held \in SUBSET (0..Top),
               BeginScanning(start, end, held)
        PROVE  ScanInv'
    BY <1>1, AddressSpace DEF BeginScanning, ScanInv, Passed
  <1>2. CASE ReturnFound
    BY <1>2, AddressSpace DEF ReturnFound, ScanInv
  <1>3. CASE UNCHANGED scanning
    BY <1>3 DEF scanning, ScanInv, Passed, RunsOver, Offered, Answer, Free
  <1> QED BY <1>1, <1>2, <1>3, TurnInv DEF ScanNext

(* A search that ends has found the lowest free address of its range, or   *)
(* that there is none; or, when its range is full and goes up to the last  *)
(* address, the lowest free one of all (firstFree).                        *)
THEOREM ScanInductive == ScanSpec => []ScanInv
  BY ScanInitInv, ScanStepInv, PTL DEF ScanSpec

-----------------------------------------------------------------------------
(* Settings schemas and documents, for any fields and any values.          *)

(* JSON changes the kind of a whole number and nothing else. *)
LEMMA JSONKeeps ==
  ASSUME NEW x, Decoded(x)
  PROVE  /\ AsJSON(x).v = x.v
         /\ AsJSON(x).kind = IF x.kind = "int" THEN "float" ELSE x.kind
         /\ IsInt(AsJSON(x)) <=> IsInt(x)
         /\ IsEmpty(AsJSON(x)) <=> IsEmpty(x)
  <1>1. /\ AsJSON(x).v = x.v
        /\ AsJSON(x).kind = IF x.kind = "int" THEN "float" ELSE x.kind
    BY DEF Decoded, AsJSON
  <1> QED BY <1>1 DEF Decoded, IsInt, IsEmpty, Equal

LEMMA JSONFits ==
  ASSUME NEW x, Decoded(x), NEW f, f.type \in FieldTypes, Fits(f, x)
  PROVE  Fits(f, AsJSON(x))
  <1>1. CASE f.type = "string"
    BY <1>1, JSONKeeps DEF Fits
  <1>2. CASE f.type = "bool"
    BY <1>2, JSONKeeps DEF Fits
  <1>3. CASE f.type = "int"
    BY <1>3, JSONKeeps DEF Fits
  <1>4. CASE f.type = "select"
    BY <1>4, JSONKeeps DEF Fits
  <1>5. CASE f.type = "list"
    BY <1>5, JSONKeeps DEF Fits
  <1> QED BY <1>1, <1>2, <1>3, <1>4, <1>5 DEF FieldTypes

(* Whatever was written the same is taken to be the same. *)
LEMMA SameIsLooseEqual ==
  ASSUME NEW x, NEW y, Decoded(x), Decoded(y), Same(x, y)
  PROVE  LooseEqual(x, y)
  <1>1. x.v = y.v /\ (x.kind = y.kind \/ {x.kind, y.kind} = {"int", "float"})
    BY JSONKeeps DEF Same, Equal
  <1>2. CASE x.kind = y.kind
    BY <1>1, <1>2 DEF LooseEqual, Equal
  <1>3. CASE {x.kind, y.kind} = {"int", "float"}
    BY <1>1, <1>3 DEF LooseEqual, IsInt, Decoded
  <1> QED BY <1>1, <1>2, <1>3

LEMMA ProblemsAre ==
  ASSUME NEW fields, NEW doc, NEW key
  PROVE  key \in Problems(fields, doc) <=>
           \E i \in DOMAIN fields :
             /\ fields[i].key = key
             /\ IF IsEmpty(At(doc, key)) THEN fields[i].required /\ Active(fields[i], doc)
                                         ELSE ~ Fits(fields[i], At(doc, key))
  BY DEF Problems

LEMMA LoadedFormRoundTrips == ConfigInv => FormRoundTrips
  <1> SUFFICES ASSUME ConfigInv PROVE FormRoundTrips
    OBVIOUS
  <1> DEFINE Declared == {schema[i] : i \in DOMAIN schema}
             Prefilled == [k \in {schema[i].key : i \in DOMAIN schema} |->
                             AsJSON((CHOOSE f \in Declared : f.key = k).default)]
  <1>1. SUFFICES ASSUME NEW i \in DOMAIN schema, schema[i].key \in Problems(schema, Prefilled)
                 PROVE  schema[i].required /\ IsEmpty(schema[i].default)
    BY DEF FormRoundTrips
  <1>2. PICK f : f = schema[i]
    OBVIOUS
  <1>3. /\ \A j \in DOMAIN schema : schema[j].key = f.key => schema[j] = f
        /\ f.type \in FieldTypes /\ (f.default.kind # "nil" => Fits(f, f.default))
        /\ Decoded(f.default)
    BY <1>2, SchemaAssumption DEF ConfigInv, WellFormed
  <1>4. (CHOOSE g \in Declared : g.key = f.key) = f
    BY <1>2, <1>3
  <1>5. At(Prefilled, f.key) = AsJSON(f.default)
    BY <1>2, <1>4 DEF At
  <1> HIDE DEF Prefilled
  <1>6. PICK j \in DOMAIN schema :
          /\ schema[j].key = f.key
          /\ IF IsEmpty(At(Prefilled, f.key))
               THEN schema[j].required /\ Active(schema[j], Prefilled)
               ELSE ~ Fits(schema[j], At(Prefilled, f.key))
    BY <1>1, <1>2, ProblemsAre
  <1>7. schema[j] = f
    BY <1>3, <1>6
  <1>8. CASE IsEmpty(f.default)
    BY <1>2, <1>3, <1>5, <1>6, <1>7, <1>8, JSONKeeps
  <1>9. CASE ~ IsEmpty(f.default)
    <2>1. Fits(f, AsJSON(f.default))
      BY <1>3, <1>9, JSONFits DEF IsEmpty
    <2> QED BY <1>3, <1>5, <1>6, <1>7, <1>9, <2>1, JSONKeeps
  <1> QED BY <1>8, <1>9

LEMMA SavedLacksNothing == ConfigInv => NoShownFieldMissing
  <1> SUFFICES ASSUME ConfigInv, saved # NoDoc, NEW i \in DOMAIN schema, schema[i].required,
                      schema[i].dep # None => Same(At(saved, schema[i].dep), schema[i].value)
               PROVE  ~ IsEmpty(At(saved, schema[i].key))
    BY DEF NoShownFieldMissing
  <1>1. PICK f : f = schema[i]
    OBVIOUS
  <1>2. Decoded(f.value) /\ f.key \notin Problems(schema, saved)
    BY <1>1, SchemaAssumption DEF ConfigInv
  <1>3. Decoded(At(saved, f.dep))
    <2>1. Decoded(Nil)
      BY DEF Decoded, Nil
    <2> QED BY <2>1, SchemaAssumption DEF ConfigInv, At
  <1>4. Active(f, saved)
    BY <1>1, <1>2, <1>3, SameIsLooseEqual DEF Active
  <1> QED BY <1>1, <1>2, <1>4, ProblemsAre

LEMMA ConfigInitInv == ConfigInit => ConfigInv
  BY DEF ConfigInit, ConfigInv, WellFormed

LEMMA ConfigStepInv == ConfigInv /\ [ConfigNext]_config => ConfigInv'
  <1> SUFFICES ASSUME ConfigInv, [ConfigNext]_config PROVE ConfigInv'
    OBVIOUS
  <1>1. ASSUME NEW k \in 1..2, NEW fields \in [1..k -> Candidates], LoadManifest(fields)
        PROVE  ConfigInv'
    <2>1. WellFormed(<< >>) /\ DOMAIN << >> = {}
      BY DEF WellFormed
    <2>2. CASE WellFormed(fields)
      BY <1>1, <2>2 DEF LoadManifest, ConfigInv, WellFormed
    <2>3. CASE ~ WellFormed(fields)
      <3>1. schema' = << >> /\ saved' = NoDoc
        BY <1>1, <2>3 DEF LoadManifest
      <3> QED BY <2>1, <3>1 DEF ConfigInv
    <2> QED BY <2>2, <2>3
  <1>2. ASSUME NEW doc \in Docs, SaveProfile(doc)
        PROVE  ConfigInv'
    <2>1. /\ schema' = schema /\ saved' = doc /\ Problems(schema, doc) = {}
          /\ \A key \in DOMAIN doc : doc[key] \in Values
      BY <1>2 DEF SaveProfile, Docs
    <2> QED BY <2>1 DEF ConfigInv
  <1>3. ASSUME UNCHANGED config PROVE ConfigInv'
    BY <1>3 DEF config, ConfigInv
  <1>4. CASE ConfigNext
    <2>1. CASE \E fields \in UNION {[1..k -> Candidates] : k \in 1..2} : LoadManifest(fields)
      BY <1>1, <2>1
    <2> QED BY <1>2, <1>4, <2>1 DEF ConfigNext
  <1> QED BY <1>3, <1>4

(* A loaded manifest is well-formed, a saved document accepted by it. *)
THEOREM ConfigInductive == ConfigSpec => []ConfigInv
  BY ConfigInitInv, ConfigStepInv, PTL DEF ConfigSpec

(* A pre-filled form is accepted where it is complete, and no document is  *)
(* accepted that lacks a required field another one shows, whichever       *)
(* encoding of a whole number each was written in (looseEqual, asInt).     *)
THEOREM SchemaAlwaysHolds == ConfigSpec => []SchemaHolds
  <1>1. ConfigInv => SchemaHolds
    BY LoadedFormRoundTrips, SavedLacksNothing DEF SchemaHolds
  <1> QED BY <1>1, ConfigInductive, PTL
=============================================================================
