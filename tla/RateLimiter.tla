----------------------------- MODULE RateLimiter ------------------------------
(***************************************************************************)
(* The token buckets that slow down logins (internal/api/middleware.go).   *)
(* Tokens are counted in parts of a tick: Refill of them make one token,   *)
(* so that the fraction the code keeps as a float is exact.                *)
(***************************************************************************)
EXTENDS Naturals, Sequences

CONSTANTS
  Clients,
  Burst,      \* tokens of a full bucket (5)
  Refill,     \* ticks to earn one back (2 s)
  MaxTime     \* bound on the clock

ASSUME LimiterAssumption ==
  Burst \in Nat \ {0} /\ Refill \in Nat \ {0} /\ MaxTime \in Nat

VARIABLES
  clock,
  buckets,    \* the bucket of each client seen since the start
  allowed     \* history: when each client was allowed to log in

limiter == <<clock, buckets, allowed>>

LimiterInit == clock = 0 /\ buckets = << >> /\ allowed = [c \in Clients |-> << >>]

Lower(a, b) == IF a <= b THEN a ELSE b

(* Mutant: only whole tokens are earned, and an attempt restarts the wait. *)
EarnedWhole(c) ==
  IF c \in DOMAIN buckets
    THEN Lower(buckets[c].tokens + ((clock - buckets[c].last) \div Refill) * Refill,
               Burst * Refill)
    ELSE Burst * Refill

(* The bucket as allow finds or makes it, refilled. *)
Earned(c) ==
  IF c \in DOMAIN buckets
    THEN Lower(buckets[c].tokens + (clock - buckets[c].last), Burst * Refill)
    ELSE Burst * Refill

Holding(c, tokens) ==
  [d \in DOMAIN buckets \cup {c} |->
     IF d = c THEN [tokens |-> tokens, last |-> clock] ELSE buckets[d]]

(* allow, under the limiter's mutex. *)
Allow(c) ==
  /\ Earned(c) >= Refill
  /\ buckets' = Holding(c, Earned(c) - Refill)
  /\ allowed' = [allowed EXCEPT ![c] = Append(@, clock)]
  /\ UNCHANGED clock

Refuse(c) ==
  /\ Earned(c) < Refill
  /\ buckets' = Holding(c, Earned(c))
  /\ UNCHANGED <<clock, allowed>>

Pass == clock < MaxTime /\ clock' = clock + 1 /\ UNCHANGED <<buckets, allowed>>

LimiterNext == Pass \/ \E c \in Clients : Allow(c) \/ Refuse(c)

LimiterSpec == LimiterInit /\ [][LimiterNext]_limiter

-----------------------------------------------------------------------------
(* "5 attempts immediately, then one attempt every 2 seconds per client    *)
(* IP" (server.go): between any two attempts that were allowed there are   *)
(* no more than the time and one burst give ...                            *)
NeverMore ==
  \A c \in Clients : \A i, j \in DOMAIN allowed[c] :
    i <= j => (j - i + 1) * Refill <= Burst * Refill + (allowed[c][j] - allowed[c][i])

(* ... and one that comes that long after the last allowed one is allowed, *)
(* however often the client was refused since, and whatever others do.     *)
NeverLess ==
  \A c \in Clients :
    \/ allowed[c] = << >>
    \/ clock - allowed[c][Len(allowed[c])] >= Refill
    => Earned(c) >= Refill

LoginsLimited == NeverMore /\ NeverLess
=============================================================================
