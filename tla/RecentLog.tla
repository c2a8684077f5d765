------------------------------ MODULE RecentLog -------------------------------
(***************************************************************************)
(* What the log viewer promises (internal/logging/ring.go): the most       *)
(* recent Size entries, newest first, of a wanted severity and number.     *)
(***************************************************************************)
EXTENDS Naturals, Sequences

CONSTANTS
  Size,           \* entries kept
  LargestLimit,   \* most entries that can be asked for
  Entry,          \* what is logged
  Severity(_)     \* of a level

VARIABLES
  recent,         \* the entries kept, newest first
  answer          \* the last answer of the viewer

FirstOf(s, n) == IF Len(s) > n THEN SubSeq(s, 1, n) ELSE s
AtLeast(s, low) == SelectSeq(s, LAMBDA e : Severity(e.level) >= low)

RecentInit == recent = << >> /\ answer = << >>

Log(e) ==
  /\ recent' = FirstOf(<<e>> \o recent, Size)
  /\ UNCHANGED answer

Show(low, limit) ==
  /\ answer' = FirstOf(AtLeast(recent, low), limit)
  /\ UNCHANGED recent

RecentNext ==
  \/ \E e \in Entry : Log(e)
  \/ \E low \in 0..3, limit \in 1..LargestLimit : Show(low, limit)

RecentSpec == RecentInit /\ [][RecentNext]_<<recent, answer>>
=============================================================================
