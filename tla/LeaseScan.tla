------------------------------ MODULE LeaseScan -------------------------------
(***************************************************************************)
(* The search for a free address (firstFree, internal/network/             *)
(* leasepool.go), one step per turn of its loop.  The loop variable is an  *)
(* unsigned integer of Width bits (32 in the code); the caller holds the   *)
(* pool's mutex, so nothing else moves meanwhile.                          *)
(***************************************************************************)
EXTENDS Integers

CONSTANT Width

(* The second part is arithmetic the provers do not know. *)
ASSUME ScanAssumption == Width \in Nat /\ 2^Width \in Nat \ {0}

VARIABLES
  scan,    \* "idle", "running" or "done"
  range,   \* <<start, end>>
  taken,   \* addresses with a lease that has not expired
  n,       \* the loop variable
  found    \* the result, or NotFound

scanning == <<scan, range, taken, n, found>>

Top == 2^Width - 1
NotFound == -1

ScanInit ==
  /\ scan = "idle" /\ range = <<0, 0>> /\ taken = {}
  /\ n = 0 /\ found = NotFound

(* NewLeasePool has refused an end before the start. *)
BeginScanning(start, end, held) ==
  /\ scan = "idle"
  /\ start <= end
  /\ range' = <<start, end>> /\ taken' = held
  /\ n' = start /\ scan' = "running"
  /\ UNCHANGED found

(* Mutant: the loop stops before the last address. *)
TurnShort ==
  /\ scan = "running"
  /\ \/ n < range[2] /\ n \notin taken
        /\ found' = n /\ scan' = "done" /\ UNCHANGED n
     \/ n < range[2] /\ n \in taken
        /\ n' = (n + 1) % 2^Width /\ UNCHANGED <<scan, found>>
     \/ n >= range[2]
        /\ scan' = "done" /\ UNCHANGED <<n, found>>
  /\ UNCHANGED <<range, taken>>

(* n++ wraps. *)
Turn ==
  /\ scan = "running"
  /\ \/ n <= range[2] /\ n \notin taken
        /\ found' = n /\ scan' = "done" /\ UNCHANGED n
     \/ n <= range[2] /\ n \in taken
        /\ n' = (n + 1) % 2^Width /\ UNCHANGED <<scan, found>>
     \/ n > range[2]
        /\ scan' = "done" /\ UNCHANGED <<n, found>>
  /\ UNCHANGED <<range, taken>>

(* The caller releases the mutex; the next search may find anything. *)
ReturnFound ==
  /\ scan = "done"
  /\ scan' = "idle" /\ range' = <<0, 0>> /\ taken' = {}
  /\ n' = 0 /\ found' = NotFound

ScanNext ==
  \/ \E start, end \in 0..Top : \E held \in SUBSET (0..Top) : BeginScanning(start, end, held)
  \/ Turn \/ ReturnFound

ScanSpec == ScanInit /\ [][ScanNext]_scanning

-----------------------------------------------------------------------------
Free == (range[1]..range[2]) \ taken

(* The search of a full range that goes up to the last address there is    *)
(* (255.255.255.255): n never exceeds it, and goes on at 0.0.0.0.          *)
RunsOver == range[2] = Top /\ Free = {}

Offered == IF RunsOver THEN (0..Top) \ taken ELSE Free
Answer == IF Offered = {} THEN NotFound ELSE CHOOSE a \in Offered : \A b \in Offered : a <= b

(* Only a search that finds no end of the range and no free address either *)
(* goes round for ever, the pool's mutex held.                             *)
Endless == RunsOver /\ Offered = {}

(* Every other search ends, with the lowest free address of the range if   *)
(* there is one, or of all when it runs over the end: the pool's mutex is  *)
(* released and no client waits for ever.                                  *)
ScanAnswers == scan = "running" ~> Endless \/ (scan = "done" /\ found = Answer)

(* The inductive invariant of what it finds: all it has passed is taken.   *)
Passed(from) == from <= n /\ from..(n - 1) \subseteq taken

ScanInv ==
  /\ range[1] \in 0..Top /\ range[2] \in range[1]..Top /\ taken \subseteq 0..Top
  /\ n \in 0..Top
  /\ scan = "running" =>
       \/ Passed(range[1]) /\ n <= range[2] + 1
       \/ Passed(0) /\ RunsOver
  /\ IF scan = "done" THEN found = Answer ELSE found = NotFound
=============================================================================
