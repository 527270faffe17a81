----------------------------- MODULE RateLimiter -----------------------------
(***************************************************************************)
(* The token bucket of one key in the HTTPS API: filled on each request    *)
(* for the time since the last one, under a mutex, from a clock that it    *)
(* reads twice.                                                            *)
(***************************************************************************)
EXTENDS Integers

CONSTANTS
  Burst,    \* tokens of a full bucket
  PerTick,  \* parts of a token that a tick of the clock brings
  Parts,    \* parts of a token
  LastTick  \* bound: the ticks of the clock

VARIABLES
  clock,
  bucket,   \* tokens, in parts, and the last request; empty before the first
  passed    \* history: passed[t]: the requests admitted before tick t

limiterVars == <<clock, bucket, passed>>

NoBucket == [tokens |-> Burst * Parts, last |-> 0, used |-> FALSE]

TypeOK ==
  /\ clock \in 0..LastTick
  /\ bucket \in [tokens : 0..Burst * Parts, last : 0..LastTick, used : BOOLEAN]
  /\ passed \in [0..LastTick + 1 -> Nat]

Init ==
  /\ clock = 0
  /\ bucket = NoBucket
  /\ passed = [t \in 0..LastTick + 1 |-> 0]

Tick ==
  /\ clock < LastTick
  /\ clock' = clock + 1
  /\ UNCHANGED <<bucket, passed>>

\* As if an idle bucket went on filling.
RefilledUncapped(from, to) == bucket.tokens + (to - from) * PerTick

\* Lazily, and never above the burst.
Refilled(from, to) ==
  LET t == bucket.tokens + (to - from) * PerTick
  IN  IF t > Burst * Parts THEN Burst * Parts ELSE t

\* One call of allow: now() of the refill and now() of b.last, which may be a tick later.
\* The first request of a key finds a full bucket.
Allow ==
  \E later \in {clock, clock + 1} \cap 0..LastTick :
    LET have == Refilled(IF bucket.used THEN bucket.last ELSE clock, clock)
    IN  /\ clock' = later
        /\ bucket' = [tokens |-> IF have < Parts THEN have ELSE have - Parts,
                      last |-> later, used |-> TRUE]
        /\ passed' = IF have < Parts THEN passed
                     ELSE [t \in DOMAIN passed |-> passed[t] + (IF t > clock THEN 1 ELSE 0)]

Next == Tick \/ Allow

Spec == Init /\ [][Next]_limiterVars

-----------------------------------------------------------------------------
(* Properties.                                                             *)

\* In every span of time no more requests pass than the burst and what the rate brings
\* in it: neither idle time, nor refused requests, nor the two clock reads add any.
WindowBounded ==
  \A t, u \in 0..clock :
    t <= u => (passed[u + 1] - passed[t]) * Parts <= Burst * Parts + (u - t) * PerTick

=============================================================================
