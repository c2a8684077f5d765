------------------------------- MODULE LogRing --------------------------------
(***************************************************************************)
(* The buffer of recent log entries (internal/logging/ring.go) and the     *)
(* viewer that reads it (handleLogs).  Both hold the ring's mutex, so each *)
(* is one step.                                                            *)
(***************************************************************************)
EXTENDS Naturals, Sequences

CONSTANTS
  Size, DefaultLimit, LargestLimit,
  Entry,   \* what is logged
  Zero     \* the zero Entry, with no level

ASSUME RingAssumption ==
  /\ Size \in Nat \ {0}
  /\ LargestLimit \in Nat /\ DefaultLimit \in 1..LargestLimit

VARIABLES
  slots,   \* the array
  next,    \* the slot that is written next
  full,    \* every slot has been written
  answer   \* the viewer's last answer

ring == <<slots, next, full, answer>>

Levels == {"debug", "info", "warn", "error"}

(* parseLevel: a name it does not know is info. *)
ParseLevel(name) ==
  IF name = "debug" THEN 0
  ELSE IF name \in {"warn", "warning"} THEN 2
  ELSE IF name = "error" THEN 3
  ELSE 1

RingTypeOK ==
  /\ slots \in [0..(Size - 1) -> Entry \cup {Zero}]
  /\ next \in 0..(Size - 1)
  /\ full \in BOOLEAN

RingInit ==
  /\ slots = [i \in 0..(Size - 1) |-> Zero]
  /\ next = 0 /\ full = FALSE
  /\ answer = << >>

(* Mutant: the ring counts as full once its last slot comes next. *)
RecordFullEarly(e) ==
  /\ slots' = [slots EXCEPT ![next] = e]
  /\ next' = (next + 1) % Size
  /\ full' = (full \/ next' = Size - 1)
  /\ UNCHANGED answer

(* append: every record a logger accepts. *)
Record(e) ==
  /\ slots' = [slots EXCEPT ![next] = e]
  /\ next' = (next + 1) % Size
  /\ full' = (full \/ next' = 0)
  /\ UNCHANGED answer

(* Entries walks backwards from the slot written last. *)
Count == IF full THEN Size ELSE next
Walk == [i \in 1..Count |-> slots[(next - i + Size) % Size]]

Entries(minLevel, limit) ==
  LET wanted == SelectSeq(Walk, LAMBDA e : ParseLevel(e.level) >= minLevel)
  IN IF limit > 0 /\ Len(wanted) > limit THEN SubSeq(wanted, 1, limit) ELSE wanted

(* handleLogs.  limit is 0 when the query names none. *)
HandleLogs(level, limit) ==
  /\ limit <= LargestLimit   \* else 400
  /\ answer' = Entries(ParseLevel(level), IF limit = 0 THEN DefaultLimit ELSE limit)
  /\ UNCHANGED <<slots, next, full>>

RingNext ==
  \/ \E e \in Entry : Record(e)
  \/ \E level \in Levels \cup {"warning", "other"}, limit \in 0..(LargestLimit + 1) :
       HandleLogs(level, limit)

RingSpec == RingInit /\ [][RingNext]_ring

-----------------------------------------------------------------------------
(* Walk is what RecentLog keeps, so the viewer shows the newest entries,   *)
(* newest first, none lost, repeated or unwritten, before, at and after    *)
(* the array wraps.                                                        *)
Recent == INSTANCE RecentLog WITH recent <- Walk, Severity <- ParseLevel

ImplementsRecent == Recent!RecentSpec
=============================================================================
