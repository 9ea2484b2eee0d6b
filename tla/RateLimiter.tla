----------------------------- MODULE RateLimiter -----------------------------
(***************************************************************************)
(* The token buckets of rate_limiter.go: one bucket per client address,    *)
(* refilled when it is used, and a goroutine that removes the idle ones.   *)
(* Each operation holds the mutex from end to end, so it is one step.      *)
(*                                                                         *)
(* Tokens are counted in time: a bucket gains one unit per tick, a request *)
(* costs Cost units (60 / RequestsPerMinute seconds) and a bucket holds at *)
(* most Full == BurstSize * Cost.                                          *)
(***************************************************************************)
EXTENDS Integers

CONSTANTS
  Addresses,    \* client addresses
  Cost,       \* what a request costs
  Full,       \* what a full bucket holds
  Interval,   \* CleanupInterval
  MaxTime     \* bounds the clock

\* An idle bucket is full again by the time the cleanup removes it.
ASSUME LimiterAssumption ==
  /\ Cost \in Nat \ {0} /\ Full \in Nat /\ Interval \in Nat
  /\ Cost <= Full /\ Full <= Interval

VARIABLES
  now,       \* time.Now()
  buckets,   \* the bucket of each client that has one
  tick,      \* when the ticker of the cleanup fires next
  spent,     \* history: what the admitted requests of each client cost
  log        \* history: for each admitted request, when, and what was spent before it

limiterVars == <<now, buckets, tick, spent, log>>

NoBucket == [tokens |-> -1, lastRefill |-> -1]

LimiterInit == /\ now = 0
               /\ buckets = [c \in Addresses |-> NoBucket]
               /\ tick = Interval
               /\ spent = [c \in Addresses |-> 0]
               /\ log = [c \in Addresses |-> {}]

AtMost(n, limit) == IF n > limit THEN limit ELSE n

\* A new bucket is full; an old one gains what passed since it was last used.
Refilled(c) ==
  IF buckets[c] = NoBucket THEN Full
  ELSE AtMost(buckets[c].tokens + (now - buckets[c].lastRefill), Full)

\* allow: the request is let through or answered with 429.
Allow(c) ==
  /\ Refilled(c) >= Cost
  /\ buckets' = [buckets EXCEPT ![c] = [tokens |-> Refilled(c) - Cost, lastRefill |-> now]]
  /\ log' = [log EXCEPT ![c] = @ \cup {[at |-> now, before |-> spent[c]]}]
  /\ spent' = [spent EXCEPT ![c] = @ + Cost]
  /\ UNCHANGED <<now, tick>>

Refuse(c) ==
  /\ Refilled(c) < Cost
  /\ buckets' = [buckets EXCEPT ![c] = [tokens |-> Refilled(c), lastRefill |-> now]]
  /\ UNCHANGED <<now, tick, spent, log>>

\* Mutant: the cleanup compares with the present.
CleanupEager ==
  /\ now >= tick
  /\ buckets' = [c \in Addresses |-> IF buckets[c].lastRefill < now THEN NoBucket ELSE buckets[c]]
  /\ tick' = tick + Interval
  /\ UNCHANGED <<now, spent, log>>

\* cleanup: buckets not used for an interval are deleted; it may run late.
Cleanup ==
  /\ now >= tick
  /\ buckets' = [c \in Addresses |->
                   IF buckets[c].lastRefill < now - Interval THEN NoBucket ELSE buckets[c]]
  /\ tick' = tick + Interval
  /\ UNCHANGED <<now, spent, log>>

Tick == /\ now < MaxTime
        /\ now' = now + 1
        /\ UNCHANGED <<buckets, tick, spent, log>>

LimiterNext == \/ \E c \in Addresses : Allow(c) \/ Refuse(c)
               \/ Cleanup
               \/ Tick

LimiterSpec == LimiterInit /\ [][LimiterNext]_limiterVars

---------------------------------------------------------------------------
\* Properties.

Arrival(c) == Allow(c) \/ Refuse(c)

\* The limit as a reader of its configuration understands it: from any admitted
\* request on, what was spent is at most a burst and what the time since then gained.
WithinLimit(c, more) ==
  \A e \in log[c] : spent[c] + more - e.before <= Full + (now - e.at)

\* The buckets implement the limit exactly: a request is let through if and only if no
\* window of time then holds more than its share, although the server keeps one number
\* per client, refills it late, caps it, and forgets the clients that were idle.
AdmitsExactly ==
  [][\A c \in Addresses : Arrival(c) => (WithinLimit(c, Cost) <=> spent'[c] # spent[c])]_limiterVars
=============================================================================
