----------------------------- MODULE RateLimiter -----------------------------
(***************************************************************************)
(* The Redis-backed fixed-window limiter in front of every API replica     *)
(* (api/middleware.py).  A request computes its key from the clock of its  *)
(* replica, then INCRs the counter, and EXPIREs it if it was the first.    *)
(* The client library sends a command again when its answer does not come, *)
(* and gives up in the end: the command may have been executed all the     *)
(* same.  Replicas' clocks may differ, Redis keeps its own; a replica may  *)
(* go away between any two steps.                                          *)
(***************************************************************************)
EXTENDS Integers, FiniteSets

CONSTANTS
    Arrivals,          \* the requests
    Identities,        \* an Authorization header or a client host each
    Replicas, Ahead,   \* by how much a replica's clock is fast
    RateLimit,         \* requests_per_minute
    Minute,            \* the length of a window
    KeyLifetime,       \* the 65 seconds of EXPIRE
    Patience,          \* the longest an INCR is waited for, sent again or not
    MaxSends,          \* how often it is sent
    LastTick,          \* bound: the time that passes
    NoExpiry           \* a key on which EXPIRE was never executed

\* The lifetime covers the window, the difference of two clocks and a wait for
\* Redis: what makes 65 seconds enough for windows of 60.
ASSUME LimiterAssumption ==
    /\ IsFiniteSet(Arrivals)
    /\ RateLimit \in Nat \ {0} /\ Minute \in Nat \ {0}
    /\ Ahead \in [Replicas -> Nat]
    /\ Patience \in Nat /\ LastTick \in Nat /\ KeyLifetime \in Nat /\ MaxSends \in Nat \ {0}
    /\ \A r, s \in Replicas : Minute + Ahead[r] + Patience < KeyLifetime + Ahead[s] + 1
    /\ NoExpiry \notin Nat

VARIABLES
    tick,        \* the time, as Redis has it
    counters,    \* [key -> [count, expires]], the keys Redis holds
    arrivals     \* [Arrivals -> the request]

limiterVars == <<tick, counters, arrivals>>

\* since is the time a request computed its key, until the INCR is answered.
Unsent == [at |-> "unsent", key |-> <<>>, since |-> 0, sends |-> 0]

LimiterInit ==
    /\ tick = 0
    /\ counters = <<>>
    /\ arrivals = [q \in Arrivals |-> Unsent]

\* The key of a request that reads its replica's clock now.
KeyAt(identity, replica) == <<identity, (tick + Ahead[replica]) \div Minute>>

\* dispatch, up to its first await.
Arrive(q, identity, replica) ==
    /\ arrivals[q].at = "unsent"
    /\ arrivals' = [arrivals EXCEPT ![q] =
          [at |-> "keyed", key |-> KeyAt(identity, replica), since |-> tick, sends |-> 1]]
    /\ UNCHANGED <<tick, counters>>

Counter(key) == IF key \in DOMAIN counters THEN counters[key] ELSE [count |-> 0, expires |-> NoExpiry]

SetCounter(key, value) ==
    counters' = [k \in DOMAIN counters \union {key} |-> IF k = key THEN value ELSE counters[k]]

\* Redis executes INCR, which keeps the expiry of the key.
Incr(key) == SetCounter(key, [Counter(key) EXCEPT !.count = @ + 1])

Within(count) == count <= RateLimit

Response(count) == IF Within(count) THEN "passed" ELSE "limited"

\* A request leaves the limiter.
Leave(q, place) ==
    arrivals' = [arrivals EXCEPT ![q].at = place, ![q].since = 0]

\* The INCR is answered: the first of a key goes on to EXPIRE.
Count(q) ==
    LET n == Counter(arrivals[q].key).count + 1 IN
    /\ arrivals[q].at = "keyed"
    /\ Incr(arrivals[q].key)
    /\ Leave(q, IF n = 1 THEN "counted" ELSE Response(n))
    /\ UNCHANGED tick

\* The INCR is executed, its answer is lost, and it is sent again.
SendAgain(q) ==
    /\ arrivals[q].at = "keyed" /\ arrivals[q].sends < MaxSends
    /\ Incr(arrivals[q].key)
    /\ arrivals' = [arrivals EXCEPT ![q].sends = @ + 1]
    /\ UNCHANGED tick

\* Mutant: the key lives as long as its window.
LifetimeOfWindow == Minute

Lifetime == KeyLifetime

\* The EXPIRE of a key, which is there as long as it has no expiry.
SetExpiry(key) == SetCounter(key, [counters[key] EXCEPT !.expires = tick + Lifetime])

Expire(q) ==
    /\ arrivals[q].at = "counted"
    /\ SetExpiry(arrivals[q].key)
    /\ Leave(q, Response(1))
    /\ UNCHANGED tick

\* A RedisError, which is a 503, or the replica goes away, with or without the
\* command executed.
GiveUp(q) ==
    /\ \/ /\ arrivals[q].at = "keyed"
          /\ UNCHANGED counters \/ Incr(arrivals[q].key)
       \/ /\ arrivals[q].at = "counted"
          /\ UNCHANGED counters \/ SetExpiry(arrivals[q].key)
    /\ Leave(q, "unavailable")
    /\ UNCHANGED tick

\* Time passes; no INCR is waited for longer than patience, and Redis drops the
\* keys that expire.
Tick ==
    /\ tick < LastTick
    /\ \A q \in Arrivals : arrivals[q].at = "keyed" => tick < arrivals[q].since + Patience
    /\ tick' = tick + 1
    /\ counters' =
          LET kept == {k \in DOMAIN counters :
                          counters[k].expires = NoExpiry \/ counters[k].expires > tick'}
          IN  [k \in kept |-> counters[k]]
    /\ UNCHANGED arrivals

LimiterNext ==
    \/ Tick
    \/ \E q \in Arrivals :
          \/ Count(q) \/ SendAgain(q) \/ Expire(q) \/ GiveUp(q)
          \/ \E i \in Identities, r \in Replicas : Arrive(q, i, r)

LimiterSpec == LimiterInit /\ [][LimiterNext]_limiterVars

-----------------------------------------------------------------------------
(* Properties *)

OfKey(key) == {q \in Arrivals : arrivals[q].key = key}

\* However the replicas' clocks differ and whichever commands are lost or sent
\* again, no more than the limit of one identity's requests pass in a window; and
\* one is refused only when more than the limit of INCRs were sent for its key.
WindowKept ==
    \A key \in {arrivals[q].key : q \in Arrivals} \ {<<>>} :
        /\ Cardinality({q \in OfKey(key) : arrivals[q].at = "passed"}) <= RateLimit
        /\ (\E q \in OfKey(key) : arrivals[q].at = "limited") =>
              Cardinality({s \in OfKey(key) \X (1..MaxSends) : s[2] <= arrivals[s[1]].sends})
                  > RateLimit
=============================================================================
