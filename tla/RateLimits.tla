----------------------------- MODULE RateLimits -----------------------------
(***************************************************************************)
(* The rate limits. A token bucket per client in the memory of a process   *)
(* (RateLimitMiddleware._allow, RateLimiter.check), or a fixed window per  *)
(* client and minute over the key-value backend (RateLimiter.check_shared):*)
(* Redis, which all processes share, or the memory of a process.           *)
(*                                                                         *)
(* Time is in ticks, Minute of them a minute; a bucket is filled by        *)
(* PerMinute a tick and a request costs Minute, which is the code's        *)
(* per_minute / 60 tokens per second, without fractions.                   *)
(***************************************************************************)
EXTENDS Integers, Sequences

CONSTANTS Clients,          \* keys: an API key, or an address and a route
          Checkers,         \* checks of a window in flight
          PerMinute,        \* the limit
          Minute,           \* ticks in a minute
          Second,           \* ticks in a second
          MaxCalls,         \* bound: calls that a window counts
          RateHorizon       \* bound: ticks

ASSUME RateAssumption ==
    /\ PerMinute \in Nat \ {0}
    /\ Minute \in Nat \ {0}
    /\ Second \in Nat \ {0}
    /\ MaxCalls \in Nat
    /\ RateHorizon \in Nat

VARIABLES limiter,          \* which of the three is configured
          ticks,            \* the clock
          bucket,           \* per client: level, and when it was filled
          let,              \* history: when requests of a client were let through
          advised,          \* history: when a client refused by its bucket was told to return
          counter,          \* per client and window: count and expiry of its key
          checking,         \* checks that await the backend
          passed,           \* history: requests let through, per client and window
          cut               \* history: counters whose last call was cut off before EXPIRE

bucketVars == <<bucket, let, advised>>
windowVars == <<counter, checking, passed, cut>>
rateVars == <<limiter, ticks, bucketVars, windowVars>>

Never == -1                 \* a key without an expiry
Windows == 0 .. RateHorizon
Keys == Clients \X Windows
Capacity == PerMinute * Minute
NotYet == RateHorizon + 1
Free == [pc |-> "free"]
Checking == [pc : {"incr", "expire"}, key : Keys]
NoKey == [count |-> 0, expires |-> Never]

RateTypeOK ==
    /\ limiter \in {"bucket", "memory", "redis"}
    /\ ticks \in 0 .. RateHorizon
    /\ bucket \in [Clients -> [level : 0 .. Capacity, at : 0 .. RateHorizon]]
    /\ let \in [Clients -> Seq(0 .. RateHorizon)]
    /\ advised \in [Clients -> Nat]
    /\ counter \in [Keys -> [count : Nat, expires : Nat \cup {Never}]]
    /\ checking \in [Checkers -> {Free} \cup Checking]
    /\ passed \in [Keys -> Nat]
    /\ cut \subseteq Keys

\* A client that has no bucket yet gets a full one.
RateInit ==
    /\ limiter \in {"bucket", "memory", "redis"}
    /\ ticks = 0
    /\ bucket = [c \in Clients |-> [level |-> Capacity, at |-> 0]]
    /\ let = [c \in Clients |-> << >>]
    /\ advised = [c \in Clients |-> NotYet]
    /\ counter = [k \in Keys |-> NoKey]
    /\ checking = [x \in Checkers |-> Free]
    /\ passed = [k \in Keys |-> 0]
    /\ cut = {}

(***************************************************************************)
(* The token bucket.                                                       *)
(***************************************************************************)
\* Mutant: without the cap on a bucket that nobody used for long.
FilledOver(c) == bucket[c].level + (ticks - bucket[c].at) * PerMinute

Filled(c) ==
    LET level == bucket[c].level + (ticks - bucket[c].at) * PerMinute
    IN  IF level < Capacity THEN level ELSE Capacity

\* The wait that a refused client is told, in whole seconds and one at
\* least: int(retry + 0.999), which rounds up all but the last thousandth
\* of a second.
RetryAfter(level) ==
    LET perSecond == PerMinute * Second
        seconds == (1000 * (Minute - level) + 999 * perSecond) \div (1000 * perSecond)
    IN  Second * IF seconds < 1 THEN 1 ELSE seconds

\* check, and the middleware's _allow.
Check(c) ==
    /\ limiter = "bucket"
    /\ \/ /\ Filled(c) >= Minute
          /\ bucket' = [bucket EXCEPT ![c] = [level |-> Filled(c) - Minute, at |-> ticks]]
          /\ let' = [let EXCEPT ![c] = Append(@, ticks)]
          /\ advised' = [advised EXCEPT ![c] = NotYet]
       \/ /\ Filled(c) < Minute
          /\ bucket' = [bucket EXCEPT ![c] = [level |-> Filled(c), at |-> ticks]]
          /\ advised' = [advised EXCEPT ![c] = ticks + RetryAfter(Filled(c))]
          /\ UNCHANGED let
    /\ UNCHANGED <<limiter, ticks, windowVars>>

(***************************************************************************)
(* The windows.                                                            *)
(***************************************************************************)
Window == ticks \div Minute
Alive(k) == counter[k].count > 0

\* check_shared: the window is the minute in which the check begins.
Ask(x, c) ==
    /\ limiter # "bucket"
    /\ checking[x] = Free
    /\ counter[<<c, Window>>].count < MaxCalls
    /\ checking' = [checking EXCEPT ![x] = [pc |-> "incr", key |-> <<c, Window>>]]
    /\ UNCHANGED <<limiter, ticks, bucketVars, counter, passed, cut>>

\* What check_shared answers when its call is the n-th that a key counts.
\* What is answered after the window is over counts for no minute.
Answer(k, n) ==
    passed' = IF n <= PerMinute /\ k[2] = Window THEN [passed EXCEPT ![k] = @ + 1] ELSE passed

Incrementing(x) == checking[x] # Free /\ checking[x].pc = "incr"

\* MemoryKV.incr: one step; a key that is over its time starts again.
IncrMemory(x) ==
    /\ limiter = "memory" /\ Incrementing(x)
    /\ LET k == checking[x].key
           over == ~Alive(k) \/ counter[k].expires < ticks
           n == IF over THEN 1 ELSE counter[k].count + 1
       IN  /\ counter' = [counter EXCEPT ![k] =
                 [count |-> n, expires |-> IF over THEN ticks + Minute ELSE @.expires]]
           /\ Answer(k, n)
    /\ checking' = [checking EXCEPT ![x] = Free]
    /\ UNCHANGED <<limiter, ticks, bucketVars, cut>>

\* Mutant: an expiry is set by the call that starts the counter, and by no
\* other.
IncrFirst(x) ==
    /\ limiter = "redis" /\ Incrementing(x)
    /\ LET k == checking[x].key
       IN  /\ counter' = [counter EXCEPT ![k].count = @ + 1]
           /\ checking' = [checking EXCEPT ![x] = IF Alive(k) THEN Free ELSE [@ EXCEPT !.pc = "expire"]]
           /\ Answer(k, counter[k].count + 1)
           /\ cut' = cut \ {k}
    /\ UNCHANGED <<limiter, ticks, bucketVars>>

\* RedisKV.incr: INCR and TTL are one transaction. Whoever finds the key
\* without an expiry goes on to set it.
Incr(x) ==
    /\ limiter = "redis" /\ Incrementing(x)
    /\ LET k == checking[x].key
       IN  /\ counter' = [counter EXCEPT ![k].count = @ + 1]
           /\ checking' = [checking EXCEPT ![x] =
                 IF counter[k].expires = Never THEN [@ EXCEPT !.pc = "expire"] ELSE Free]
           /\ Answer(k, counter[k].count + 1)
           /\ cut' = cut \ {k}
    /\ UNCHANGED <<limiter, ticks, bucketVars>>

\* Mutant: the key lives until the next tick.
ExpireSoon(x) ==
    /\ checking[x] # Free /\ checking[x].pc = "expire"
    /\ counter' = [counter EXCEPT ![checking[x].key].expires = ticks + 1]
    /\ checking' = [checking EXCEPT ![x] = Free]
    /\ UNCHANGED <<limiter, ticks, bucketVars, passed, cut>>

\* EXPIRE has no effect on a key that is gone.
Expire(x) ==
    /\ checking[x] # Free /\ checking[x].pc = "expire"
    /\ LET k == checking[x].key
       IN  counter' = IF Alive(k) THEN [counter EXCEPT ![k].expires = ticks + Minute] ELSE counter
    /\ checking' = [checking EXCEPT ![x] = Free]
    /\ UNCHANGED <<limiter, ticks, bucketVars, passed, cut>>

\* The process ends, or Redis cannot be reached: the request fails.
Abandon(x) ==
    /\ limiter = "redis"
    /\ checking[x] # Free
    /\ checking' = [checking EXCEPT ![x] = Free]
    /\ cut' = IF checking[x].pc = "expire" THEN cut \cup {checking[x].key} ELSE cut
    /\ UNCHANGED <<limiter, ticks, bucketVars, counter, passed>>

\* Redis drops the keys whose time is over; the memory of a process keeps them.
RateTick ==
    /\ ticks < RateHorizon
    /\ ticks' = ticks + 1
    /\ counter' = [k \in Keys |-> IF limiter = "redis" /\ counter[k].expires = ticks'
                                  THEN NoKey ELSE counter[k]]
    /\ UNCHANGED <<limiter, bucketVars, checking, passed, cut>>

RateNext ==
    \/ \E c \in Clients : Check(c)
    \/ \E x \in Checkers, c \in Clients : Ask(x, c)
    \/ \E x \in Checkers : IncrMemory(x) \/ Incr(x) \/ Expire(x) \/ Abandon(x)
    \/ RateTick

RateSpec == RateInit /\ [][RateNext]_rateVars

-----------------------------------------------------------------------------
(***************************************************************************)
(* Properties.                                                             *)
(***************************************************************************)
\* In any stretch of time a bucket lets through what it can hold and what
\* flows into it meanwhile, and no more.
RateIsBounded ==
    \A c \in Clients : \A i, j \in DOMAIN let[c] :
        i <= j => (j - i + 1) * Minute <= Capacity + (let[c][j] - let[c][i]) * PerMinute

\* When the wait that a client was told is over, what its bucket may still
\* lack of a request flows in within a millisecond.
WaitIsEnough ==
    \A c \in Clients :
        ticks >= advised[c] => 1000 * (Minute - Filled(c)) < PerMinute * Second

\* A bucket bounds the burst and the rate together, however long it was idle
\* before, and still the wait it advises is long enough but for the
\* millisecond that its rounding drops (check, _allow and dispatch).
BucketIsFair == RateIsBounded /\ WaitIsEnough

\* All processes together let through PerMinute requests of a client within
\* a minute of the clock: the key outlives its window, whoever sets its
\* expiry, however late, and however often that is cut off (check_shared,
\* incr).
WindowIsBounded == \A k \in Keys : passed[k] <= PerMinute

\* A counter without an expiry is about to get one, or the last call that
\* counted was cut off before it could set it; the next call will (incr).
CountersExpire ==
    \A k \in Keys :
        limiter = "redis" /\ Alive(k) /\ counter[k].expires = Never /\ k \notin cut =>
            \E x \in Checkers : checking[x] = [pc |-> "expire", key |-> k]
=============================================================================
