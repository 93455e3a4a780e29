----------------------------- MODULE TokenBucket -----------------------------
(***************************************************************************)
(* The shared rate limiter of the AI gateway: check_rate_limit and the Lua *)
(* script RATE_LIMIT_LUA it evaluates in Redis                             *)
(* (src/src/core/ai_gateway.py:23-53, 90-112).                             *)
(*                                                                         *)
(* A caller reads its own clock, and only later does the script run, as    *)
(* one atomic step of Redis.  Scripts therefore see times that are stale,  *)
(* or ahead by as much as the hosts' clocks differ.  A call that raises is *)
(* allowed, whatever the script did.                                       *)
(*                                                                         *)
(* The source counts in fractions of a token per second; here a unit is    *)
(* small enough for FillRate to be a whole number of units.  With a unit   *)
(* of a quarter token and seconds, the source has Capacity = 60,           *)
(* Requested = 4 and FillRate = 1.                                         *)
(***************************************************************************)
EXTENDS Integers

CONSTANTS
    Callers,     \* workers that share the bucket
    Capacity,    \* the bucket's size, in units
    Requested,   \* units one request takes
    FillRate,    \* units added per unit of time
    Skew,        \* by how much a caller's clock may be ahead
    NoReading,   \* a caller that is not in check_rate_limit
    MaxClock,    \* bound: the clock
    MaxErrors    \* bound: calls that raise

ASSUME BucketAssumption ==
    /\ Capacity \in Nat
    /\ Requested \in Nat
    /\ FillRate \in Nat
    /\ Skew \in Nat
    /\ MaxClock \in Nat
    /\ MaxErrors \in Nat
    /\ NoReading \notin Nat

VARIABLES
    clock,        \* real time
    exists,       \* the key is in Redis
    tokens,       \* its field "tokens"
    lastUpdated,  \* its field "last_updated"
    reading,      \* the time each caller took along
    base,         \* history: last_updated when the observation began
    taken,        \* history: units taken since the observation began
    errors        \* calls that raised (bounded by MaxErrors)

bucketVars == <<exists, tokens, lastUpdated>>
vars == <<clock, exists, tokens, lastUpdated, reading, base, taken, errors>>

TypeOK ==
    /\ clock \in Nat
    /\ exists \in BOOLEAN
    /\ tokens \in 0 .. Capacity
    /\ lastUpdated \in 0 .. clock + Skew
    /\ reading \in [Callers -> Nat \cup {NoReading}]
    /\ base \in 0 .. lastUpdated
    /\ taken \in Nat
    /\ errors \in Nat
-----------------------------------------------------------------------------
AtMost(x, bound) == IF x <= bound THEN x ELSE bound

\* What the bucket holds once the script has refilled it at time t, and the
\* time it notes for that.
Refilled(t) ==
    IF ~ exists THEN Capacity
    ELSE IF t > lastUpdated THEN AtMost(tokens + (t - lastUpdated) * FillRate, Capacity)
    ELSE tokens

\* Mutant of Noted: the refill is not noted.
NotedNever(t) == IF ~ exists THEN t ELSE lastUpdated

Noted(t) == IF ~ exists \/ t > lastUpdated THEN t ELSE lastUpdated

\* The Lua script at time t.
Script(t) ==
    /\ exists' = TRUE
    /\ lastUpdated' = Noted(t)
    /\ base' = IF exists THEN base ELSE t
    /\ IF Refilled(t) >= Requested
       THEN /\ tokens' = Refilled(t) - Requested
            /\ taken' = taken + Requested
       ELSE /\ tokens' = Refilled(t)
            /\ UNCHANGED taken
-----------------------------------------------------------------------------
Init ==
    /\ clock = 0
    /\ exists = FALSE
    /\ tokens = 0
    /\ lastUpdated = 0
    /\ reading = [c \in Callers |-> NoReading]
    /\ base = 0
    /\ taken = 0
    /\ errors = 0

\* time.time() on the caller's host.
ReadClock(c) ==
    /\ reading[c] = NoReading
    /\ \E ahead \in 0 .. Skew : reading' = [reading EXCEPT ![c] = clock + ahead]
    /\ UNCHANGED <<clock, bucketVars, base, taken, errors>>

\* The script runs and its answer comes back.
Evaluate(c) ==
    /\ reading[c] # NoReading
    /\ Script(reading[c])
    /\ reading' = [reading EXCEPT ![c] = NoReading]
    /\ UNCHANGED <<clock, errors>>

\* The call raises, before the script ran or after it, and is allowed.
FailOpen(c) ==
    /\ reading[c] # NoReading
    /\ errors < MaxErrors
    /\ errors' = errors + 1
    /\ \/ Script(reading[c])
       \/ UNCHANGED <<bucketVars, base, taken>>
    /\ reading' = [reading EXCEPT ![c] = NoReading]
    /\ UNCHANGED clock

Tick ==
    /\ clock < MaxClock
    /\ clock' = clock + 1
    /\ UNCHANGED <<bucketVars, reading, base, taken, errors>>

\* An observer starts counting what is taken from now on.
Observe ==
    /\ exists
    /\ base' = lastUpdated
    /\ taken' = 0
    /\ UNCHANGED <<clock, bucketVars, reading, errors>>

Next ==
    \/ \E c \in Callers : ReadClock(c) \/ Evaluate(c) \/ FailOpen(c)
    \/ Tick
    \/ Observe

Spec == Init /\ [][Next]_vars
-----------------------------------------------------------------------------
\* However callers with stale or skewed clocks interleave, what is taken over
\* any observation is at most one full bucket and the refill of the bucket's
\* own time, and that time is never ahead of the clocks (ai_gateway.py:34-48).
RateBound ==
    /\ taken <= Capacity + FillRate * (lastUpdated - base)
    /\ exists => taken + tokens <= Capacity + FillRate * (lastUpdated - base)

\* The bucket's time never goes back, so no interval is refilled twice
\* (ai_gateway.py:38-42).
TimeNeverReturns == [][exists => lastUpdated <= lastUpdated']_vars

\* A request that is refused costs nothing: without a grant the bucket never
\* gets emptier (ai_gateway.py:45-52).
RefusalIsFree == [][exists /\ taken' <= taken => tokens <= tokens']_vars
=============================================================================
