---------------------------- MODULE AccessProofs ----------------------------
(***************************************************************************)
(* What holds of the rate limits, of login sessions and of creations with  *)
(* an idempotency key, for any clients, limits, tokens, keys and requests. *)
(***************************************************************************)
EXTENDS RateLimits, Sessions, IdempotentCreation, FiniteSetTheorems, SequenceTheorems,
        TLAPS

(***************************************************************************)
(* Arithmetic.                                                             *)
(***************************************************************************)
LEMMA Division ==
  ASSUME NEW a \in Nat, NEW b \in Nat \ {0}
  PROVE  /\ (a \div b) \in Nat
         /\ (a \div b) * b <= a
         /\ a < (a \div b) * b + b
         /\ (a \div b) <= a
OBVIOUS

LEMMA TimesNat ==
  ASSUME NEW a \in Nat, NEW b \in Nat
  PROVE  a * b \in Nat
OBVIOUS

LEMMA TimesSum ==
  ASSUME NEW a \in Int, NEW b \in Int, NEW c \in Int
  PROVE  (a + b) * c = a * c + b * c
OBVIOUS

LEMMA TimesTurn ==
  ASSUME NEW a \in Int, NEW b \in Int, NEW c \in Int
  PROVE  (a * b) * c = b * (c * a)
OBVIOUS

LEMMA TimesThousand ==
  ASSUME NEW a \in Int, NEW b \in Int
  PROVE  a * (1000 * b) = 1000 * (a * b)
OBVIOUS

LEMMA TimesGrows ==
  ASSUME NEW a \in Nat, NEW b \in Nat, NEW c \in Nat, a <= b
  PROVE  a * c <= b * c
<1>1. b * c = a * c + (b - a) * c
  BY TimesSum
<1>2. (b - a) * c \in Nat
  BY TimesNat
<1> QED
  BY <1>1, <1>2, TimesNat

(***************************************************************************)
(* The windows. A key is counted from the beginning of its window on, and  *)
(* when it gets an expiry, that lies beyond the end of the window; so as   *)
(* long as the window lasts the count includes every request that passed.  *)
(***************************************************************************)
Starts(k) == k[2] * Minute

LimitKept == \A k \in Keys : passed[k] <= PerMinute

PassedIsCounted ==
    \A k \in Keys : /\ ticks < Starts(k) => passed[k] = 0
                    /\ ticks < Starts(k) + Minute => passed[k] <= counter[k].count

KeyOutlivesWindow ==
    \A k \in Keys :
        /\ counter[k].expires # Never => counter[k].expires >= Starts(k) + Minute
        /\ limiter = "memory" /\ Alive(k) => counter[k].expires # Never

AskedInTime == \A x \in Checkers : checking[x] # Free => Starts(checking[x].key) <= ticks

WindowInv ==
    /\ RateTypeOK
    /\ LimitKept /\ PassedIsCounted /\ KeyOutlivesWindow /\ AskedInTime
    /\ CountersExpire

LEMMA StartsNat ==
  ASSUME NEW k \in Keys
  PROVE  Starts(k) \in Nat
<1>1. k[2] \in Nat /\ Minute \in Nat
  BY RateAssumption DEF Keys, Windows
<1> QED
  BY <1>1, TimesNat DEF Starts

LEMMA WindowNow ==
  ASSUME RateTypeOK
  PROVE  /\ Window \in Windows
         /\ \A k \in Keys : k[2] = Window => Starts(k) <= ticks /\ ticks < Starts(k) + Minute
<1>1. ticks \in Nat /\ ticks <= RateHorizon /\ Minute \in Nat \ {0} /\ RateHorizon \in Nat
  BY RateAssumption DEF RateTypeOK
<1>2. /\ (ticks \div Minute) \in Nat
      /\ (ticks \div Minute) * Minute <= ticks
      /\ ticks < (ticks \div Minute) * Minute + Minute
      /\ (ticks \div Minute) <= ticks
  BY <1>1, Division
<1>3. Window \in Windows
  BY <1>1, <1>2 DEF Window, Windows
<1> QED
  BY <1>2, <1>3 DEF Window, Starts

LEMMA RateTypes ==
  ASSUME RateTypeOK
  PROVE  /\ ticks \in Nat /\ Minute \in Nat \ {0} /\ PerMinute \in Nat \ {0}
         /\ \A k \in Keys : /\ counter[k] = [count |-> counter[k].count,
                                             expires |-> counter[k].expires]
                             /\ counter[k].count \in Nat
                             /\ counter[k].expires \in Nat \cup {Never}
                             /\ passed[k] \in Nat
         /\ \A x \in Checkers : checking[x] # Free => checking[x] \in Checking
BY RateAssumption DEF RateTypeOK

LEMMA WindowInvInit == RateInit => WindowInv
<1> SUFFICES ASSUME RateInit PROVE WindowInv
  OBVIOUS
<1>1. Capacity \in Nat /\ NotYet \in Nat /\ 0 \in 0 .. RateHorizon
  BY RateAssumption, TimesNat DEF Capacity, NotYet
<1>2. RateTypeOK
  BY <1>1 DEF RateInit, RateTypeOK, NoKey
<1>3. \A k \in Keys : passed[k] = 0 /\ counter[k] = NoKey /\ Starts(k) \in Nat
  BY StartsNat DEF RateInit
<1>4. LimitKept /\ PassedIsCounted
  BY <1>2, <1>3, RateTypes DEF LimitKept, PassedIsCounted, NoKey
<1>5. KeyOutlivesWindow /\ CountersExpire
  BY <1>3 DEF KeyOutlivesWindow, CountersExpire, Alive, NoKey, Never
<1>6. AskedInTime
  BY DEF AskedInTime, RateInit
<1> QED
  BY <1>2, <1>4, <1>5, <1>6 DEF WindowInv

\* A call that a key counts as its n-th, n being one more than before while
\* the window lasts.
LEMMA CountKeepsLimit ==
  ASSUME WindowInv, NEW k \in Keys, NEW n \in Nat \ {0},
         ticks < Starts(k) + Minute => n = counter[k].count + 1,
         counter'[k].count = n, \A j \in Keys : j # k => counter'[j] = counter[j],
         Answer(k, n), UNCHANGED ticks
  PROVE  LimitKept' /\ PassedIsCounted' /\ passed' \in [Keys -> Nat]
<1>1. /\ ticks \in Nat /\ Minute \in Nat \ {0} /\ PerMinute \in Nat \ {0}
      /\ Starts(k) \in Nat /\ counter[k].count \in Nat /\ passed[k] \in Nat
      /\ passed \in [Keys -> Nat]
  BY RateTypes, StartsNat DEF WindowInv, RateTypeOK
<1>2. \A j \in Keys : j # k => passed'[j] = passed[j]
  BY <1>1 DEF Answer
<1>3. CASE n <= PerMinute /\ k[2] = Window
  <2>1. passed'[k] = passed[k] + 1 /\ passed' \in [Keys -> Nat]
    BY <1>1, <1>3 DEF Answer
  <2>2. Starts(k) <= ticks /\ ticks < Starts(k) + Minute
    BY <1>3, WindowNow DEF WindowInv
  <2>3. passed'[k] <= n
    BY <1>1, <2>1, <2>2 DEF WindowInv, PassedIsCounted
  <2>4. passed'[k] <= PerMinute
    BY <1>1, <1>3, <2>1, <2>3
  <2>5. LimitKept'
    BY <1>2, <2>4 DEF WindowInv, LimitKept
  <2>6. PassedIsCounted'
    <3> SUFFICES ASSUME NEW j \in Keys
                 PROVE  /\ ticks < Starts(j) => passed'[j] = 0
                        /\ ticks < Starts(j) + Minute => passed'[j] <= counter'[j].count
      BY DEF PassedIsCounted, Starts
    <3>1. CASE j = k
      BY <1>1, <2>2, <2>3, <3>1
    <3>2. CASE j # k
      BY <1>2, <3>2 DEF WindowInv, PassedIsCounted
    <3> QED
      BY <3>1, <3>2
  <2> QED
    BY <2>1, <2>5, <2>6
<1>4. CASE ~(n <= PerMinute /\ k[2] = Window)
  <2>1. passed' = passed
    BY <1>4 DEF Answer
  <2>2. LimitKept'
    BY <2>1 DEF WindowInv, LimitKept
  <2>3. PassedIsCounted'
    <3> SUFFICES ASSUME NEW j \in Keys
                 PROVE  /\ ticks < Starts(j) => passed[j] = 0
                        /\ ticks < Starts(j) + Minute => passed[j] <= counter'[j].count
      BY <2>1 DEF PassedIsCounted, Starts
    <3>1. CASE j = k
      BY <1>1, <3>1 DEF WindowInv, PassedIsCounted
    <3>2. CASE j # k
      BY <3>2 DEF WindowInv, PassedIsCounted
    <3> QED
      BY <3>1, <3>2
  <2> QED
    BY <1>1, <2>1, <2>2, <2>3
<1> QED
  BY <1>3, <1>4

LEMMA AskKeeps ==
  ASSUME WindowInv, NEW x \in Checkers, NEW c \in Clients, Ask(x, c)
  PROVE  WindowInv'
<1>1. <<c, Window>> \in Keys /\ Starts(<<c, Window>>) <= ticks
  BY WindowNow DEF WindowInv, Keys
<1>2. [pc |-> "incr", key |-> <<c, Window>>] \in Checking
  BY <1>1 DEF Checking
<1>3. RateTypeOK'
  BY <1>2 DEF WindowInv, RateTypeOK, Ask, bucketVars
<1>4. AskedInTime'
  BY <1>1, <1>2 DEF WindowInv, AskedInTime, Ask, RateTypeOK, Starts
<1>5. LimitKept' /\ PassedIsCounted' /\ KeyOutlivesWindow'
  BY DEF WindowInv, Ask, LimitKept, PassedIsCounted, KeyOutlivesWindow, Alive, Starts
<1>6. CountersExpire'
  <2> SUFFICES ASSUME NEW k \in Keys,
                      limiter = "redis", Alive(k), counter[k].expires = Never, k \notin cut
               PROVE  \E y \in Checkers : checking'[y] = [pc |-> "expire", key |-> k]
    BY DEF Ask, CountersExpire, Alive
  <2>1. PICK y \in Checkers : checking[y] = [pc |-> "expire", key |-> k]
    BY DEF WindowInv, CountersExpire
  <2>2. y # x
    BY <2>1 DEF Ask, Free
  <2>3. checking'[y] = checking[y]
    BY <2>2 DEF Ask, WindowInv, RateTypeOK
  <2> QED
    BY <2>1, <2>3
<1> QED
  BY <1>3, <1>4, <1>5, <1>6 DEF WindowInv

LEMMA IncrMemoryKeeps ==
  ASSUME WindowInv, NEW x \in Checkers, IncrMemory(x)
  PROVE  WindowInv'
<1> DEFINE k == checking[x].key
           over == ~Alive(k) \/ counter[k].expires < ticks
           n == IF over THEN 1 ELSE counter[k].count + 1
           e == IF over THEN ticks + Minute ELSE counter[k].expires
<1>1. checking[x] \in Checking /\ k \in Keys
  BY RateTypes DEF WindowInv, IncrMemory, Incrementing, Checking
<1>2. /\ ticks \in Nat /\ Minute \in Nat \ {0} /\ Starts(k) \in Nat /\ Starts(k) <= ticks
      /\ counter[k].count \in Nat /\ counter[k].expires \in Nat \cup {Never}
      /\ limiter = "memory"
  BY <1>1, RateTypes, StartsNat DEF WindowInv, AskedInTime, IncrMemory, Incrementing
<1>3. /\ counter' = [counter EXCEPT ![k] = [count |-> n, expires |-> e]]
      /\ Answer(k, n)
      /\ checking' = [checking EXCEPT ![x] = Free]
      /\ UNCHANGED <<limiter, ticks, bucket, let, advised, cut>>
  BY DEF IncrMemory, bucketVars
<1>4. /\ n \in Nat \ {0} /\ e \in Nat /\ e >= Starts(k) + Minute
      /\ ticks < Starts(k) + Minute => n = counter[k].count + 1
  <2>1. CASE ~Alive(k)
    BY <1>2, <2>1 DEF Alive
  <2>2. CASE Alive(k)
    <3>1. counter[k].expires # Never /\ counter[k].expires >= Starts(k) + Minute
      BY <1>1, <1>2, <2>2 DEF WindowInv, KeyOutlivesWindow
    <3> QED
      BY <1>2, <2>2, <3>1
  <2> QED
    BY <2>1, <2>2
<1> HIDE DEF k, over, n, e
<1>5. counter \in [Keys -> [count : Nat, expires : Nat \cup {Never}]]
  BY DEF WindowInv, RateTypeOK
<1>6. /\ counter'[k] = [count |-> n, expires |-> e]
      /\ \A j \in Keys : j # k => counter'[j] = counter[j]
      /\ counter' \in [Keys -> [count : Nat, expires : Nat \cup {Never}]]
  BY <1>1, <1>3, <1>4, <1>5
<1>7. LimitKept' /\ PassedIsCounted' /\ passed' \in [Keys -> Nat]
  BY <1>1, <1>3, <1>4, <1>6, CountKeepsLimit
<1>8. RateTypeOK'
  BY <1>3, <1>6, <1>7 DEF WindowInv, RateTypeOK
<1>9. KeyOutlivesWindow'
  <2> SUFFICES ASSUME NEW j \in Keys
               PROVE  /\ counter'[j].expires # Never => counter'[j].expires >= Starts(j) + Minute
                      /\ counter'[j].count > 0 => counter'[j].expires # Never
    BY DEF KeyOutlivesWindow, Alive, Starts
  <2>1. CASE j = k
    BY <1>2, <1>4, <1>6, <2>1 DEF Never
  <2>2. CASE j # k
    BY <1>2, <1>6, <2>2 DEF WindowInv, KeyOutlivesWindow, Alive
  <2> QED
    BY <2>1, <2>2
<1>10. AskedInTime'
  BY <1>3 DEF WindowInv, AskedInTime, RateTypeOK, Starts
<1>11. CountersExpire'
  BY <1>2, <1>3 DEF CountersExpire
<1> QED
  BY <1>7, <1>8, <1>9, <1>10, <1>11 DEF WindowInv

LEMMA IncrKeeps ==
  ASSUME WindowInv, NEW x \in Checkers, Incr(x)
  PROVE  WindowInv'
<1> DEFINE k == checking[x].key
           n == counter[k].count + 1
<1>1. checking[x] \in Checking /\ k \in Keys /\ checking[x].pc = "incr" /\ limiter = "redis"
  BY RateTypes DEF WindowInv, Incr, Incrementing, Checking
<1>2. /\ n \in Nat \ {0}
      /\ counter \in [Keys -> [count : Nat, expires : Nat \cup {Never}]]
  BY <1>1, RateTypes DEF WindowInv, RateTypeOK
<1>3. /\ counter' = [counter EXCEPT ![k].count = n]
      /\ checking' = [checking EXCEPT ![x] =
            IF counter[k].expires = Never THEN [checking[x] EXCEPT !.pc = "expire"] ELSE Free]
      /\ Answer(k, n)
      /\ cut' = cut \ {k}
      /\ UNCHANGED <<limiter, ticks, bucket, let, advised>>
  BY <1>1, <1>2 DEF Incr, bucketVars
<1> HIDE DEF n
<1>4. /\ counter'[k].count = n /\ counter'[k].expires = counter[k].expires
      /\ \A j \in Keys : j # k => counter'[j] = counter[j]
      /\ counter' \in [Keys -> [count : Nat, expires : Nat \cup {Never}]]
  BY <1>1, <1>2, <1>3
<1>5. LimitKept' /\ PassedIsCounted' /\ passed' \in [Keys -> Nat]
  <2>1. ticks < Starts(k) + Minute => n = counter[k].count + 1
    BY DEF n
  <2> QED
    BY <1>1, <1>2, <1>3, <1>4, <2>1, CountKeepsLimit
<1>6. [checking[x] EXCEPT !.pc = "expire"] = [pc |-> "expire", key |-> k]
  BY <1>1 DEF Checking
<1>7. /\ checking' \in [Checkers -> {Free} \cup Checking]
      /\ [pc |-> "expire", key |-> k] \in Checking
  BY <1>1, <1>3, <1>6 DEF WindowInv, RateTypeOK, Checking
<1>8. RateTypeOK'
  BY <1>3, <1>4, <1>5, <1>7 DEF WindowInv, RateTypeOK
<1>9. KeyOutlivesWindow'
  BY <1>1, <1>3, <1>4 DEF WindowInv, KeyOutlivesWindow, Alive, Starts
<1>10. AskedInTime'
  <2> SUFFICES ASSUME NEW y \in Checkers, checking'[y] # Free
               PROVE  Starts(checking'[y].key) <= ticks
    BY <1>3 DEF AskedInTime, Starts
  <2>1. CASE y = x
    <3>1. checking'[x] = [pc |-> "expire", key |-> k]
      BY <1>3, <1>6, <2>1 DEF WindowInv, RateTypeOK
    <3>2. checking[x] # Free
      BY DEF Incr, Incrementing
    <3> QED
      BY <2>1, <3>1, <3>2 DEF WindowInv, AskedInTime
  <2>2. CASE y # x
    BY <1>3, <2>2 DEF WindowInv, RateTypeOK, AskedInTime
  <2> QED
    BY <2>1, <2>2
<1>11. CountersExpire'
  <2> SUFFICES ASSUME NEW j \in Keys, counter'[j].count > 0, counter'[j].expires = Never,
                      j \notin cut'
               PROVE  \E y \in Checkers : checking'[y] = [pc |-> "expire", key |-> j]
    BY DEF CountersExpire, Alive
  <2>1. CASE j = k
    <3>1. checking'[x] = [pc |-> "expire", key |-> k]
      BY <1>3, <1>4, <1>6, <2>1 DEF WindowInv, RateTypeOK
    <3> QED
      BY <2>1, <3>1
  <2>2. CASE j # k
    <3>1. PICK y \in Checkers : checking[y] = [pc |-> "expire", key |-> j]
      BY <1>1, <1>3, <1>4, <2>2 DEF WindowInv, CountersExpire, Alive
    <3>2. y # x
      BY <1>1, <3>1
    <3> QED
      BY <1>3, <3>1, <3>2 DEF WindowInv, RateTypeOK
  <2> QED
    BY <2>1, <2>2
<1> QED
  BY <1>5, <1>8, <1>9, <1>10, <1>11 DEF WindowInv

LEMMA ExpireKeeps ==
  ASSUME WindowInv, NEW x \in Checkers, Expire(x)
  PROVE  WindowInv'
<1> DEFINE k == checking[x].key
<1>1. /\ checking[x] \in Checking /\ k \in Keys /\ checking[x].pc = "expire"
      /\ checking[x] # Free
  BY RateTypes DEF WindowInv, Expire, Checking
<1>2. /\ ticks \in Nat /\ Minute \in Nat \ {0} /\ Starts(k) \in Nat /\ Starts(k) <= ticks
      /\ counter \in [Keys -> [count : Nat, expires : Nat \cup {Never}]]
  BY <1>1, RateTypes, StartsNat DEF WindowInv, RateTypeOK, AskedInTime
<1>3. /\ counter' = IF Alive(k) THEN [counter EXCEPT ![k].expires = ticks + Minute] ELSE counter
      /\ checking' = [checking EXCEPT ![x] = Free]
      /\ UNCHANGED <<limiter, ticks, bucket, let, advised, passed, cut>>
  BY DEF Expire, bucketVars
<1> HIDE DEF k
<1>4. /\ counter' \in [Keys -> [count : Nat, expires : Nat \cup {Never}]]
      /\ \A j \in Keys : counter'[j].count = counter[j].count
      /\ \A j \in Keys : j # k => counter'[j] = counter[j]
      /\ Alive(k) => counter'[k].expires = ticks + Minute
      /\ ~Alive(k) => counter'[k] = counter[k]
  BY <1>1, <1>2, <1>3
<1>5. RateTypeOK'
  BY <1>3, <1>4 DEF WindowInv, RateTypeOK
<1>6. LimitKept' /\ PassedIsCounted'
  BY <1>3, <1>4 DEF WindowInv, LimitKept, PassedIsCounted, Starts
<1>7. KeyOutlivesWindow'
  <2> SUFFICES ASSUME NEW j \in Keys
               PROVE  /\ counter'[j].expires # Never => counter'[j].expires >= Starts(j) + Minute
                      /\ limiter = "memory" /\ counter'[j].count > 0
                            => counter'[j].expires # Never
    BY <1>3 DEF KeyOutlivesWindow, Alive, Starts
  <2>1. CASE j = k /\ Alive(k)
    BY <1>2, <1>4, <2>1 DEF Never
  <2>2. CASE j # k \/ ~Alive(k)
    BY <1>4, <2>2 DEF WindowInv, KeyOutlivesWindow, Alive
  <2> QED
    BY <2>1, <2>2
<1>8. AskedInTime'
  BY <1>3 DEF WindowInv, AskedInTime, RateTypeOK, Starts
<1>9. CountersExpire'
  <2> SUFFICES ASSUME NEW j \in Keys, limiter = "redis", counter'[j].count > 0,
                      counter'[j].expires = Never, j \notin cut
               PROVE  \E y \in Checkers : checking'[y] = [pc |-> "expire", key |-> j]
    BY <1>3 DEF CountersExpire, Alive
  <2>1. j # k
    BY <1>2, <1>4 DEF Alive, Never
  <2>2. PICK y \in Checkers : checking[y] = [pc |-> "expire", key |-> j]
    BY <1>4, <2>1 DEF WindowInv, CountersExpire, Alive
  <2>3. y # x
    BY <2>1, <2>2 DEF k
  <2> QED
    BY <1>3, <2>2, <2>3 DEF WindowInv, RateTypeOK
<1> QED
  BY <1>5, <1>6, <1>7, <1>8, <1>9 DEF WindowInv

LEMMA AbandonKeeps ==
  ASSUME WindowInv, NEW x \in Checkers, Abandon(x)
  PROVE  WindowInv'
<1>1. /\ checking[x] \in Checking /\ checking[x] # Free
      /\ checking' = [checking EXCEPT ![x] = Free]
      /\ cut' = IF checking[x].pc = "expire" THEN cut \cup {checking[x].key} ELSE cut
      /\ UNCHANGED <<limiter, ticks, bucket, let, advised, counter, passed>>
  BY RateTypes DEF WindowInv, Abandon, bucketVars
<1>2. checking[x].key \in Keys
  BY <1>1 DEF Checking
<1>3. RateTypeOK'
  BY <1>1, <1>2 DEF WindowInv, RateTypeOK
<1>4. LimitKept' /\ PassedIsCounted' /\ KeyOutlivesWindow'
  BY <1>1 DEF WindowInv, LimitKept, PassedIsCounted, KeyOutlivesWindow, Alive, Starts
<1>5. AskedInTime'
  BY <1>1 DEF WindowInv, AskedInTime, RateTypeOK, Starts
<1>6. CountersExpire'
  <2> SUFFICES ASSUME NEW j \in Keys, limiter = "redis", Alive(j),
                      counter[j].expires = Never, j \notin cut'
               PROVE  \E y \in Checkers : checking'[y] = [pc |-> "expire", key |-> j]
    BY <1>1 DEF CountersExpire, Alive
  <2>1. j \notin cut
    BY <1>1
  <2>2. PICK y \in Checkers : checking[y] = [pc |-> "expire", key |-> j]
    BY <2>1 DEF WindowInv, CountersExpire
  <2>3. y # x
    BY <1>1, <2>2
  <2> QED
    BY <1>1, <2>2, <2>3 DEF WindowInv, RateTypeOK
<1> QED
  BY <1>3, <1>4, <1>5, <1>6 DEF WindowInv

LEMMA RateTickKeeps ==
  ASSUME WindowInv, RateTick
  PROVE  WindowInv'
<1>1. /\ ticks' = ticks + 1 /\ ticks < RateHorizon
      /\ counter' = [k \in Keys |-> IF limiter = "redis" /\ counter[k].expires = ticks + 1
                                    THEN NoKey ELSE counter[k]]
      /\ UNCHANGED <<limiter, bucket, let, advised, checking, passed, cut>>
  BY DEF RateTick, bucketVars
<1>2. /\ ticks \in Nat /\ Minute \in Nat \ {0} /\ RateHorizon \in Nat
      /\ counter \in [Keys -> [count : Nat, expires : Nat \cup {Never}]]
      /\ passed \in [Keys -> Nat]
  BY RateTypes, RateAssumption DEF WindowInv, RateTypeOK
<1>3. ticks' \in 0 .. RateHorizon /\ NoKey \in [count : Nat, expires : Nat \cup {Never}]
  BY <1>1, <1>2 DEF WindowInv, RateTypeOK, NoKey
<1>4. RateTypeOK'
  BY <1>1, <1>2, <1>3 DEF WindowInv, RateTypeOK
<1>5. \A k \in Keys :
         counter'[k] # counter[k] => counter'[k] = NoKey /\ counter[k].expires = ticks + 1
  <2> SUFFICES ASSUME NEW k \in Keys, counter'[k] # counter[k]
               PROVE  counter'[k] = NoKey /\ counter[k].expires = ticks + 1
    OBVIOUS
  <2>1. counter'[k] = IF limiter = "redis" /\ counter[k].expires = ticks + 1
                      THEN NoKey ELSE counter[k]
    BY <1>1
  <2> QED
    BY <2>1
<1>6. LimitKept'
  BY <1>1 DEF WindowInv, LimitKept
<1>7. PassedIsCounted'
  <2> SUFFICES ASSUME NEW k \in Keys
               PROVE  /\ ticks + 1 < Starts(k) => passed[k] = 0
                      /\ ticks + 1 < Starts(k) + Minute => passed[k] <= counter'[k].count
    BY <1>1 DEF PassedIsCounted, Starts
  <2>1. Starts(k) \in Nat
    BY StartsNat
  <2>2. ticks + 1 < Starts(k) + Minute => counter'[k] = counter[k]
    BY <1>2, <1>5, <2>1 DEF WindowInv, KeyOutlivesWindow, Never
  <2> QED
    BY <1>2, <2>1, <2>2 DEF WindowInv, PassedIsCounted
<1>8. KeyOutlivesWindow'
  BY <1>1, <1>5 DEF WindowInv, KeyOutlivesWindow, Alive, NoKey, Never, Starts
<1>9. AskedInTime'
  <2> SUFFICES ASSUME NEW x \in Checkers, checking[x] # Free
               PROVE  Starts(checking[x].key) <= ticks + 1
    BY <1>1 DEF AskedInTime, Starts
  <2>1. Starts(checking[x].key) \in Nat /\ Starts(checking[x].key) <= ticks
    BY RateTypes, StartsNat DEF WindowInv, AskedInTime, Checking
  <2> QED
    BY <1>2, <2>1
<1>10. CountersExpire'
  BY <1>1, <1>5 DEF WindowInv, CountersExpire, Alive, NoKey
<1> QED
  BY <1>4, <1>6, <1>7, <1>8, <1>9, <1>10 DEF WindowInv

(***************************************************************************)
(* The buckets. What a bucket let through since any request, that one      *)
(* included, and what it holds, are together no more than its capacity and *)
(* what flowed in since.                                                   *)
(***************************************************************************)
FilledInTime == \A c \in Clients : bucket[c].at <= ticks

SpentFlowedIn ==
    \A c \in Clients : \A i \in DOMAIN let[c] :
        /\ let[c][i] <= ticks
        /\ (Len(let[c]) - i + 1) * Minute + Filled(c) <= Capacity + (ticks - let[c][i]) * PerMinute

AdviceIsEnough ==
    \A c \in Clients :
        \/ advised[c] = NotYet
        \/ /\ bucket[c].at <= advised[c]
           /\ 1000 * Minute < 1000 * (bucket[c].level + (advised[c] - bucket[c].at) * PerMinute)
                                + PerMinute * Second

BucketInv == WindowInv /\ FilledInTime /\ SpentFlowedIn /\ AdviceIsEnough /\ RateIsBounded

LEMMA CapacityBounds == Capacity \in Nat /\ Minute <= Capacity
<1>1. Minute \in Nat /\ PerMinute \in Nat /\ 1 <= PerMinute
  BY RateAssumption
<1>2. PerMinute * Minute \in Nat /\ 1 * Minute <= PerMinute * Minute
  BY <1>1, TimesNat, TimesGrows
<1> QED
  BY <1>1, <1>2 DEF Capacity

LEMMA BucketTypes ==
  ASSUME BucketInv, NEW c \in Clients
  PROVE  /\ bucket[c].level \in Nat /\ bucket[c].level <= Capacity
         /\ bucket[c].at \in Nat /\ bucket[c].at <= ticks
         /\ ticks \in Nat /\ ticks <= RateHorizon /\ RateHorizon \in Nat
         /\ let[c] \in Seq(0 .. RateHorizon) /\ advised[c] \in Nat
         /\ Minute \in Nat \ {0} /\ PerMinute \in Nat \ {0} /\ Capacity \in Nat
BY RateAssumption, CapacityBounds DEF BucketInv, WindowInv, RateTypeOK, FilledInTime

LEMMA FilledBounds ==
  ASSUME BucketInv, NEW c \in Clients
  PROVE  /\ (ticks - bucket[c].at) * PerMinute \in Nat
         /\ Filled(c) \in Nat /\ Filled(c) <= Capacity
         /\ Filled(c) <= bucket[c].level + (ticks - bucket[c].at) * PerMinute
<1>1. (ticks - bucket[c].at) \in Nat /\ PerMinute \in Nat
  BY BucketTypes
<1>2. (ticks - bucket[c].at) * PerMinute \in Nat
  BY <1>1, TimesNat
<1> DEFINE flow == (ticks - bucket[c].at) * PerMinute
<1>3. /\ flow \in Nat /\ bucket[c].level \in Nat /\ Capacity \in Nat
      /\ Filled(c) = IF bucket[c].level + flow < Capacity THEN bucket[c].level + flow
                     ELSE Capacity
  BY <1>2, BucketTypes DEF Filled
<1> HIDE DEF flow
<1>4. Filled(c) \in Nat /\ Filled(c) <= Capacity /\ Filled(c) <= bucket[c].level + flow
  BY <1>3
<1> QED
  BY <1>2, <1>4 DEF flow

\* What flows into a bucket within a second.
LEMMA SecondFlows == PerMinute * Second \in Nat \ {0} /\ Second \in Nat \ {0}
<1>1. PerMinute \in Nat /\ 1 <= PerMinute /\ Second \in Nat /\ 1 <= Second
  BY RateAssumption
<1>2. 1 * Second <= PerMinute * Second /\ PerMinute * Second \in Nat
  BY <1>1, TimesGrows, TimesNat
<1> QED
  BY <1>1, <1>2

\* Within the wait that is advised all of a request flows in, but for what
\* flows in within a thousandth of a second.
LEMMA AdviceCovers ==
  ASSUME NEW level \in Nat, level < Minute
  PROVE  /\ RetryAfter(level) \in Nat
         /\ 1000 * Minute < 1000 * (level + RetryAfter(level) * PerMinute) + PerMinute * Second
<1> DEFINE second == PerMinute * Second
           need == 1000 * (Minute - level) + 999 * second
           seconds == need \div (1000 * second)
           told == IF seconds < 1 THEN 1 ELSE seconds
<1>1. /\ Minute \in Nat /\ PerMinute \in Nat /\ Second \in Nat /\ second \in Nat \ {0}
      /\ RetryAfter(level) = Second * told
  BY RateAssumption, SecondFlows DEF RetryAfter
<1> HIDE DEF second
<1>2. need \in Nat /\ 1000 * second \in Nat \ {0} /\ need = 1000 * (Minute - level) + 999 * second
  BY <1>1
<1> HIDE DEF need
<1>3. seconds \in Nat /\ need < seconds * (1000 * second) + 1000 * second
  BY <1>2, Division
<1> HIDE DEF seconds
<1>4. told \in Nat /\ seconds <= told
  BY <1>3
<1> HIDE DEF told
<1>5. Second * told \in Nat /\ (Second * told) * PerMinute = told * second
  BY <1>1, <1>4, TimesNat, TimesTurn DEF second
<1>6. /\ seconds * second <= told * second /\ seconds * second \in Nat /\ told * second \in Nat
      /\ seconds * (1000 * second) = 1000 * (seconds * second)
  BY <1>1, <1>3, <1>4, TimesNat, TimesGrows, TimesThousand
<1> DEFINE x == seconds * second
           y == told * second
<1>7. /\ x <= y /\ x \in Nat /\ y \in Nat
      /\ 1000 * (Minute - level) + 999 * second < 1000 * x + 1000 * second
  BY <1>2, <1>3, <1>6
<1> HIDE DEF x, y
<1>8. 1000 * Minute < 1000 * (level + y) + second
  BY <1>1, <1>7
<1> QED
  BY <1>1, <1>5, <1>8 DEF y, second

LEMMA AdviceHolds == ASSUME BucketInv PROVE WaitIsEnough
<1> SUFFICES ASSUME NEW c \in Clients, ticks >= advised[c]
             PROVE  1000 * (Minute - Filled(c)) < PerMinute * Second
  BY DEF WaitIsEnough
<1> DEFINE early == (advised[c] - bucket[c].at) * PerMinute
           flow == (ticks - bucket[c].at) * PerMinute
           second == PerMinute * Second
<1>1. /\ bucket[c].at <= advised[c]
      /\ 1000 * Minute < 1000 * (bucket[c].level + early) + second
  BY BucketTypes DEF NotYet, BucketInv, AdviceIsEnough
<1>2. early <= flow /\ early \in Nat /\ flow \in Nat
  <2>1. /\ advised[c] - bucket[c].at \in Nat /\ ticks - bucket[c].at \in Nat
        /\ advised[c] - bucket[c].at <= ticks - bucket[c].at /\ PerMinute \in Nat
    <3> DEFINE told == advised[c]
               filled == bucket[c].at
    <3>1. /\ told \in Nat /\ filled \in Nat /\ ticks \in Nat /\ PerMinute \in Nat
          /\ filled <= told /\ told <= ticks /\ filled <= ticks
      <4>1. filled <= told
        BY <1>1, Zenon
      <4>2. told \in Nat /\ filled \in Nat /\ ticks \in Nat /\ PerMinute \in Nat /\ filled <= ticks
        BY BucketTypes
      <4> QED
        BY <4>1, <4>2
    <3> HIDE DEF told, filled
    <3>2. told - filled \in Nat /\ ticks - filled \in Nat /\ told - filled <= ticks - filled
      BY <3>1
    <3> QED
      BY <3>1, <3>2 DEF told, filled
  <2> QED
    BY <2>1, TimesGrows, TimesNat
<1>3. Filled(c) = IF bucket[c].level + flow < Capacity THEN bucket[c].level + flow ELSE Capacity
  BY DEF Filled
<1> DEFINE level == bucket[c].level
           now == Filled(c)
<1>4. /\ 1000 * Minute < 1000 * (level + early) + second
      /\ now = IF level + flow < Capacity THEN level + flow ELSE Capacity
      /\ level \in Nat /\ Capacity \in Nat /\ Minute \in Nat /\ Minute <= Capacity
      /\ second \in Nat \ {0}
  BY <1>1, <1>3, BucketTypes, CapacityBounds, SecondFlows
<1> HIDE DEF early, flow, level, now, second
<1>5. 1000 * (Minute - now) < second
  BY <1>2, <1>4
<1> QED
  BY <1>5 DEF now, second

\* Right after a bucket was filled, it holds what it was filled to.
LEMMA FilledNow ==
  ASSUME BucketInv, NEW c \in Clients, NEW level \in 0 .. Capacity,
         bucket' = [bucket EXCEPT ![c] = [level |-> level, at |-> ticks]], UNCHANGED ticks
  PROVE  /\ Filled(c)' = level
         /\ \A d \in Clients : d # c => Filled(d)' = Filled(d) /\ bucket'[d] = bucket[d]
         /\ bucket'[c] = [level |-> level, at |-> ticks]
         /\ bucket' \in [Clients -> [level : 0 .. Capacity, at : 0 .. RateHorizon]]
<1>1. /\ bucket \in [Clients -> [level : 0 .. Capacity, at : 0 .. RateHorizon]]
      /\ ticks \in 0 .. RateHorizon /\ ticks \in Nat /\ PerMinute \in Nat /\ Capacity \in Nat
  BY BucketTypes DEF BucketInv, WindowInv, RateTypeOK
<1>2. /\ bucket'[c] = [level |-> level, at |-> ticks]
      /\ bucket' \in [Clients -> [level : 0 .. Capacity, at : 0 .. RateHorizon]]
      /\ \A d \in Clients : d # c => bucket'[d] = bucket[d]
  BY <1>1
<1>3. (ticks - ticks) * PerMinute = 0
  BY <1>1
<1>4. Filled(c)' = level
  BY <1>1, <1>2, <1>3 DEF Filled
<1>5. \A d \in Clients : d # c => Filled(d)' = Filled(d)
  BY <1>2 DEF Filled
<1> QED
  BY <1>2, <1>4, <1>5

LEMMA Appended ==
  ASSUME NEW S, NEW s \in Seq(S), NEW e \in S
  PROVE  /\ Append(s, e) \in Seq(S)
         /\ Len(s) \in Nat /\ Len(Append(s, e)) = Len(s) + 1
         /\ DOMAIN s = 1 .. Len(s) /\ DOMAIN Append(s, e) = 1 .. Len(s) + 1
         /\ Append(s, e)[Len(s) + 1] = e
         /\ \A i \in 1 .. Len(s) : Append(s, e)[i] = s[i] /\ s[i] \in S
OBVIOUS

LEMMA LetThroughKeeps ==
  ASSUME BucketInv, NEW c \in Clients, Filled(c) >= Minute,
         bucket' = [bucket EXCEPT ![c] = [level |-> Filled(c) - Minute, at |-> ticks]],
         let' = [let EXCEPT ![c] = Append(let[c], ticks)], UNCHANGED ticks
  PROVE  /\ SpentFlowedIn' /\ RateIsBounded'
         /\ let' \in [Clients -> Seq(0 .. RateHorizon)]
<1> DEFINE n == Len(let[c])
<1>1. /\ Filled(c) \in Nat /\ Filled(c) <= Capacity /\ Capacity \in Nat /\ Minute <= Capacity
      /\ Minute \in Nat \ {0} /\ PerMinute \in Nat \ {0}
      /\ ticks \in Nat /\ ticks \in 0 .. RateHorizon
      /\ n \in Nat /\ let[c] \in Seq(0 .. RateHorizon)
  BY FilledBounds, BucketTypes, CapacityBounds
<1>2. /\ Filled(c)' = Filled(c) - Minute
      /\ \A d \in Clients : d # c => Filled(d)' = Filled(d)
  <2>1. Filled(c) - Minute \in 0 .. Capacity
    BY <1>1
  <2> QED
    BY <2>1, FilledNow
<1>3. /\ let \in [Clients -> Seq(0 .. RateHorizon)]
      /\ let'[c] = Append(let[c], ticks)
      /\ \A d \in Clients : d # c => let'[d] = let[d]
  BY DEF BucketInv, WindowInv, RateTypeOK
<1>4. /\ Len(let'[c]) = n + 1 /\ DOMAIN let'[c] = 1 .. n + 1 /\ DOMAIN let[c] = 1 .. n
      /\ let'[c][n + 1] = ticks
      /\ \A i \in 1 .. n : let'[c][i] = let[c][i] /\ let[c][i] \in Nat
  <2>1. \A i \in 1 .. n : let[c][i] \in 0 .. RateHorizon
    BY <1>1, Appended
  <2>2. RateHorizon \in Nat
    BY RateAssumption
  <2> QED
    BY <1>1, <1>3, <2>1, <2>2, Appended
<1>5. let' \in [Clients -> Seq(0 .. RateHorizon)]
  <2>1. Append(let[c], ticks) \in Seq(0 .. RateHorizon)
    BY <1>1
  <2> QED
    BY <1>3, <2>1
<1>6. ASSUME NEW i \in 1 .. n
      PROVE  /\ let[c][i] <= ticks
             /\ (n + 1 - i + 1) * Minute + (Filled(c) - Minute)
                  <= Capacity + (ticks - let[c][i]) * PerMinute
             /\ (n + 1 - i + 1) * Minute <= Capacity + (ticks - let[c][i]) * PerMinute
  <2> DEFINE spent == (n - i + 1) * Minute
             flow == (ticks - let[c][i]) * PerMinute
  <2>1. let[c][i] <= ticks /\ spent + Filled(c) <= Capacity + flow
    BY <1>4 DEF BucketInv, SpentFlowedIn
  <2>2. n - i + 1 \in Nat /\ ticks - let[c][i] \in Nat /\ n + 1 - i + 1 = (n - i + 1) + 1
    <3>1. let[c][i] \in Nat /\ let[c][i] <= ticks
      BY <1>4, <2>1
    <3>2. ticks - let[c][i] \in Nat
      BY <1>1, <3>1
    <3> HIDE DEF n
    <3>3. n - i + 1 \in Nat /\ n + 1 - i + 1 = (n - i + 1) + 1
      BY <1>1
    <3> QED
      BY <3>2, <3>3
  <2>3. spent \in Nat /\ flow \in Nat
    BY <1>1, <2>2, TimesNat
  <2>4. (n + 1 - i + 1) * Minute = spent + Minute
    <3> DEFINE m == n - i + 1
    <3>1. m \in Int /\ 1 \in Int /\ Minute \in Int
      BY <1>1, <2>2
    <3> HIDE DEF m
    <3>2. (m + 1) * Minute = m * Minute + 1 * Minute
      BY <3>1, TimesSum
    <3>3. 1 * Minute = Minute
      BY <1>1
    <3>4. (m + 1) * Minute = m * Minute + Minute
      BY <3>2, <3>3
    <3>5. n + 1 - i + 1 = m + 1
      BY <2>2 DEF m
    <3>6. spent = m * Minute
      BY DEF m
    <3> QED
      BY <3>4, <3>5, <3>6, Zenon
  <2> HIDE DEF spent, flow, n
  <2>5. /\ (spent + Minute) + (Filled(c) - Minute) <= Capacity + flow
        /\ spent + Minute <= Capacity + flow
    BY <1>1, <2>1, <2>3
  <2> QED
    BY <2>1, <2>4, <2>5 DEF flow
<1>7. /\ (n + 1 - (n + 1) + 1) * Minute = Minute
      /\ (ticks - ticks) * PerMinute = 0
  <2>1. n + 1 - (n + 1) + 1 = 1 /\ ticks - ticks = 0
    <3> HIDE DEF n
    <3> QED
      BY <1>1
  <2>2. 1 * Minute = Minute /\ 0 * PerMinute = 0
    BY <1>1
  <2> QED
    BY <2>1, <2>2
<1>8. SpentFlowedIn'
  <2> SUFFICES ASSUME NEW d \in Clients, NEW i \in DOMAIN let'[d]
               PROVE  /\ let'[d][i] <= ticks
                      /\ (Len(let'[d]) - i + 1) * Minute + Filled(d)'
                            <= Capacity + (ticks - let'[d][i]) * PerMinute
    BY DEF SpentFlowedIn, Capacity
  <2>1. CASE d # c
    BY <1>2, <1>3, <2>1 DEF BucketInv, SpentFlowedIn
  <2>2. CASE d = c /\ i \in 1 .. n
    BY <1>2, <1>4, <1>6, <2>2
  <2>3. CASE d = c /\ i = n + 1
    <3>1. Minute + (Filled(c) - Minute) <= Capacity + 0 /\ ticks <= ticks
      BY <1>1
    <3>2. Len(let'[d]) = n + 1 /\ let'[d][i] = ticks /\ Filled(d)' = Filled(c) - Minute
      BY <1>2, <1>4, <2>3
    <3>3. (Len(let'[d]) - i + 1) * Minute = Minute
      <4>1. Len(let'[d]) - i + 1 = 1
        <5> DEFINE l == Len(let'[d])
        <5>1. n \in Nat /\ i = n + 1 /\ l = n + 1
          BY <1>1, <2>3, <3>2
        <5> HIDE DEF n, l
        <5>2. l - i + 1 = 1
          BY <5>1
        <5> QED
          BY <5>2 DEF l
      <4>2. 1 * Minute = Minute
        BY <1>1
      <4> QED
        BY <4>1, <4>2, Zenon
    <3>4. (ticks - let'[d][i]) * PerMinute = 0
      BY <1>7, <3>2, Zenon
    <3> QED
      BY <3>1, <3>2, <3>3, <3>4, Zenon
  <2> QED
    BY <1>1, <1>4, <2>1, <2>2, <2>3
<1>9. RateIsBounded'
  <2> SUFFICES ASSUME NEW d \in Clients, NEW i \in DOMAIN let'[d], NEW j \in DOMAIN let'[d],
                      i <= j
               PROVE  (j - i + 1) * Minute
                        <= Capacity + (let'[d][j] - let'[d][i]) * PerMinute
    BY DEF RateIsBounded, Capacity
  <2>1. CASE d # c
    BY <1>3, <2>1 DEF BucketInv, RateIsBounded
  <2>2. CASE d = c /\ j \in 1 .. n
    <3>1. i \in DOMAIN let[c] /\ j \in DOMAIN let[c] /\ i \in 1 .. n
      <4>1. i \in 1 .. n + 1
        BY <1>4, <2>2
      <4>2. i \in 1 .. n
        <5> HIDE DEF n
        <5> QED
          BY <1>1, <2>2, <4>1
      <4> QED
        BY <1>4, <2>2, <4>2
    <3>2. (j - i + 1) * Minute <= Capacity + (let[c][j] - let[c][i]) * PerMinute
      BY <3>1 DEF BucketInv, RateIsBounded
    <3>3. let'[d][i] = let[c][i] /\ let'[d][j] = let[c][j]
      BY <1>4, <2>2, <3>1
    <3> QED
      BY <3>2, <3>3, Zenon
  <2>3. CASE d = c /\ j = n + 1 /\ i \in 1 .. n
    BY <1>4, <1>6, <2>3
  <2>4. CASE d = c /\ j = n + 1 /\ i = n + 1
    BY <1>1, <1>4, <1>7, <2>4
  <2> QED
    <3>1. ASSUME d = c
          PROVE  \/ j \in 1 .. n
                 \/ j = n + 1 /\ i \in 1 .. n
                 \/ j = n + 1 /\ i = n + 1
      <4>1. i \in 1 .. n + 1 /\ j \in 1 .. n + 1
        BY <1>4, <3>1
      <4> HIDE DEF n
      <4> QED
        BY <1>1, <4>1
    <3> QED
      BY <2>1, <2>2, <2>3, <2>4, <3>1, Zenon
<1> QED
  BY <1>5, <1>8, <1>9

LEMMA CheckKeepsWindows ==
  ASSUME BucketInv, NEW c \in Clients, Check(c), RateTypeOK'
  PROVE  WindowInv'
BY DEF BucketInv, WindowInv, Check, windowVars, LimitKept, PassedIsCounted, KeyOutlivesWindow,
       AskedInTime, CountersExpire, Alive, Starts

LEMMA CheckKeeps ==
  ASSUME BucketInv, NEW c \in Clients, Check(c)
  PROVE  BucketInv'
<1>0. /\ Filled(c) \in Nat /\ Filled(c) <= Capacity /\ Capacity \in Nat /\ Minute <= Capacity
      /\ Minute \in Nat \ {0} /\ PerMinute \in Nat \ {0}
      /\ ticks \in Nat /\ ticks \in 0 .. RateHorizon /\ NotYet \in Nat
  BY FilledBounds, BucketTypes, CapacityBounds DEF NotYet
<1>1. UNCHANGED <<limiter, ticks, counter, checking, passed, cut>>
  BY DEF Check, windowVars
<1>2. CASE Filled(c) >= Minute
  <2>1. /\ bucket' = [bucket EXCEPT ![c] = [level |-> Filled(c) - Minute, at |-> ticks]]
        /\ let' = [let EXCEPT ![c] = Append(let[c], ticks)]
        /\ advised' = [advised EXCEPT ![c] = NotYet]
    BY <1>0, <1>2 DEF Check
  <2>2. Filled(c) - Minute \in 0 .. Capacity
    BY <1>0, <1>2
  <2>3. /\ bucket'[c].at = ticks
        /\ \A d \in Clients : d # c => bucket'[d] = bucket[d]
        /\ bucket' \in [Clients -> [level : 0 .. Capacity, at : 0 .. RateHorizon]]
    BY <1>1, <2>1, <2>2, FilledNow
  <2>4. SpentFlowedIn' /\ RateIsBounded' /\ let' \in [Clients -> Seq(0 .. RateHorizon)]
    BY <1>1, <1>2, <2>1, LetThroughKeeps
  <2>5. RateTypeOK'
    BY <1>0, <1>1, <2>1, <2>3, <2>4 DEF BucketInv, WindowInv, RateTypeOK, Capacity
  <2>6. FilledInTime'
    BY <1>0, <1>1, <2>3 DEF BucketInv, FilledInTime
  <2>7. AdviceIsEnough'
    BY <2>1, <2>3 DEF BucketInv, AdviceIsEnough, WindowInv, RateTypeOK, NotYet
  <2> QED
    BY <2>4, <2>5, <2>6, <2>7, CheckKeepsWindows DEF BucketInv
<1>3. CASE Filled(c) < Minute
  <2> DEFINE wait == RetryAfter(Filled(c))
  <2>1. /\ bucket' = [bucket EXCEPT ![c] = [level |-> Filled(c), at |-> ticks]]
        /\ advised' = [advised EXCEPT ![c] = ticks + wait]
        /\ let' = let
    BY <1>0, <1>3 DEF Check
  <2>2. /\ Filled(c)' = Filled(c) /\ bucket'[c] = [level |-> Filled(c), at |-> ticks]
        /\ \A d \in Clients : d # c => Filled(d)' = Filled(d) /\ bucket'[d] = bucket[d]
        /\ bucket' \in [Clients -> [level : 0 .. Capacity, at : 0 .. RateHorizon]]
    <3>1. Filled(c) \in 0 .. Capacity
      BY <1>0
    <3> QED
      BY <1>1, <2>1, <3>1, FilledNow
  <2>3. wait \in Nat /\ 1000 * Minute < 1000 * (Filled(c) + wait * PerMinute) + PerMinute * Second
    BY <1>0, <1>3, AdviceCovers
  <2>4. (ticks + wait) - ticks = wait
    BY <1>0, <2>3
  <2> HIDE DEF wait
  <2>5. RateTypeOK'
    BY <1>0, <1>1, <2>1, <2>2, <2>3 DEF BucketInv, WindowInv, RateTypeOK, Capacity
  <2>6. FilledInTime'
    BY <1>0, <1>1, <2>2 DEF BucketInv, FilledInTime
  <2>7. SpentFlowedIn'
    <3> SUFFICES ASSUME NEW d \in Clients, NEW i \in DOMAIN let[d]
                 PROVE  /\ let[d][i] <= ticks
                        /\ (Len(let[d]) - i + 1) * Minute + Filled(d)'
                              <= Capacity + (ticks - let[d][i]) * PerMinute
      BY <1>1, <2>1 DEF SpentFlowedIn, Capacity
    <3>1. Filled(d)' = Filled(d)
      BY <2>2
    <3> QED
      BY <3>1 DEF BucketInv, SpentFlowedIn
  <2>8. RateIsBounded'
    BY <2>1 DEF BucketInv, RateIsBounded, Capacity
  <2>9. AdviceIsEnough'
    <3> SUFFICES ASSUME NEW d \in Clients, advised'[d] # NotYet
                 PROVE  /\ bucket'[d].at <= advised'[d]
                        /\ 1000 * Minute
                              < 1000 * (bucket'[d].level
                                          + (advised'[d] - bucket'[d].at) * PerMinute)
                                  + PerMinute * Second
      BY DEF AdviceIsEnough, NotYet
    <3>1. CASE d = c
      <4>1. advised'[c] = ticks + wait
        BY <2>1 DEF BucketInv, WindowInv, RateTypeOK
      <4>2. ticks <= ticks + wait
        BY <1>0, <2>3
      <4> QED
        BY <2>2, <2>3, <2>4, <3>1, <4>1, <4>2
    <3>2. CASE d # c
      BY <2>1, <2>2, <3>2 DEF BucketInv, AdviceIsEnough, WindowInv, RateTypeOK
    <3> QED
      BY <3>1, <3>2
  <2> QED
    BY <2>5, <2>6, <2>7, <2>8, <2>9, CheckKeepsWindows DEF BucketInv
<1> QED
  BY <1>0, <1>2, <1>3

\* A step that touches no bucket and leaves the clock alone.
LEMMA BucketsUntouched ==
  ASSUME BucketInv, WindowInv', UNCHANGED <<ticks, bucket, let, advised>>
  PROVE  BucketInv'
<1>1. Filled(0)' = Filled(0) /\ \A c \in Clients : Filled(c)' = Filled(c)
  BY DEF Filled, Capacity
<1>2. FilledInTime' /\ AdviceIsEnough' /\ RateIsBounded'
  BY DEF BucketInv, FilledInTime, AdviceIsEnough, RateIsBounded, NotYet, Capacity
<1>3. SpentFlowedIn'
  BY <1>1 DEF BucketInv, SpentFlowedIn, Capacity
<1> QED
  BY <1>2, <1>3 DEF BucketInv

\* A tick fills every bucket by PerMinute at most, which every stretch of
\* time that reaches to the present gains as well.
LEMMA RateTickKeepsBuckets ==
  ASSUME BucketInv, RateTick
  PROVE  BucketInv'
<1>1. ticks' = ticks + 1 /\ UNCHANGED <<bucket, let, advised>>
  BY DEF RateTick, bucketVars
<1>2. WindowInv'
  BY RateTickKeeps DEF BucketInv
<1>3. FilledInTime'
  BY <1>1, BucketTypes DEF FilledInTime
<1>4. AdviceIsEnough' /\ RateIsBounded'
  BY <1>1 DEF BucketInv, AdviceIsEnough, RateIsBounded, NotYet, Capacity
<1>5. SpentFlowedIn'
  <2> SUFFICES ASSUME NEW c \in Clients, NEW i \in DOMAIN let[c]
               PROVE  /\ let[c][i] <= ticks + 1
                      /\ (Len(let[c]) - i + 1) * Minute + Filled(c)'
                            <= Capacity + ((ticks + 1) - let[c][i]) * PerMinute
    BY <1>1 DEF SpentFlowedIn, Capacity
  <2> DEFINE spent == (Len(let[c]) - i + 1) * Minute
             flow == (ticks - let[c][i]) * PerMinute
             filling == (ticks - bucket[c].at) * PerMinute
  <2>1. let[c][i] <= ticks /\ spent + Filled(c) <= Capacity + flow
    BY DEF BucketInv, SpentFlowedIn
  <2>2. /\ ticks \in Nat /\ bucket[c].at \in Nat /\ bucket[c].level \in Nat
        /\ Capacity \in Nat /\ PerMinute \in Nat /\ Minute \in Nat
        /\ Len(let[c]) \in Nat /\ i \in 1 .. Len(let[c]) /\ let[c][i] \in Nat
    <3>1. let[c] \in Seq(0 .. RateHorizon) /\ RateHorizon \in Nat
      BY BucketTypes
    <3>2. Len(let[c]) \in Nat /\ i \in 1 .. Len(let[c]) /\ let[c][i] \in Nat
      BY <3>1
    <3> QED
      BY <3>2, BucketTypes
  <2>3. \A x \in Nat : ((ticks + 1) - x) * PerMinute = (ticks - x) * PerMinute + PerMinute
    <3> SUFFICES ASSUME NEW x \in Nat
                 PROVE  ((ticks + 1) - x) * PerMinute = (ticks - x) * PerMinute + PerMinute
      OBVIOUS
    <3> DEFINE m == ticks - x
    <3>1. m \in Int /\ 1 \in Int /\ PerMinute \in Int /\ (ticks + 1) - x = m + 1
      BY <2>2
    <3> HIDE DEF m
    <3>2. (m + 1) * PerMinute = m * PerMinute + 1 * PerMinute
      BY <3>1, TimesSum
    <3>3. 1 * PerMinute = PerMinute
      BY <2>2
    <3>4. ((ticks + 1) - x) * PerMinute = m * PerMinute + PerMinute
      BY <3>1, <3>2, <3>3, Zenon
    <3> QED
      BY <3>4 DEF m
  <2>4. ((ticks + 1) - let[c][i]) * PerMinute = flow + PerMinute
    BY <2>2, <2>3
  <2>5. ((ticks + 1) - bucket[c].at) * PerMinute = filling + PerMinute
    BY <2>2, <2>3
  <2>6. Filled(c)' = IF bucket[c].level + (filling + PerMinute) < Capacity
                     THEN bucket[c].level + (filling + PerMinute) ELSE Capacity
    BY <1>1, <2>5 DEF Filled, Capacity
  <2>7. Filled(c) = IF bucket[c].level + filling < Capacity
                    THEN bucket[c].level + filling ELSE Capacity
    BY DEF Filled
  <2>8. filling \in Nat
    BY FilledBounds
  <2>9. spent \in Nat /\ flow \in Nat
    <3>1. Len(let[c]) - i + 1 \in Nat /\ ticks - let[c][i] \in Nat
      <4>1. let[c][i] <= ticks
        BY <2>1
      <4>2. Len(let[c]) - i + 1 \in Nat
        BY <2>2
      <4> QED
        BY <2>2, <4>1, <4>2
    <3> QED
      BY <2>2, <3>1, TimesNat
  <2> HIDE DEF spent, flow, filling
  <2>10. Filled(c)' <= Filled(c) + PerMinute /\ Filled(c) \in Nat /\ Filled(c)' \in Nat
    <3> DEFINE before == Filled(c)
               after == Filled(c)'
               level == bucket[c].level
    <3>1. /\ before = IF level + filling < Capacity THEN level + filling ELSE Capacity
          /\ after = IF level + (filling + PerMinute) < Capacity
                     THEN level + (filling + PerMinute) ELSE Capacity
          /\ level \in Nat /\ Capacity \in Nat /\ PerMinute \in Nat
      BY <2>2, <2>6, <2>7
    <3> HIDE DEF before, after, level
    <3>2. after <= before + PerMinute /\ before \in Nat /\ after \in Nat
      BY <2>8, <3>1
    <3> QED
      BY <3>2 DEF before, after
  <2>11. spent + Filled(c)' <= Capacity + (flow + PerMinute) /\ let[c][i] <= ticks + 1
    <3> DEFINE before == Filled(c)
               after == Filled(c)'
               past == let[c][i]
    <3>1. /\ before \in Nat /\ after \in Nat /\ after <= before + PerMinute
          /\ past <= ticks /\ spent + before <= Capacity + flow
          /\ past \in Nat /\ ticks \in Nat /\ PerMinute \in Nat /\ Capacity \in Nat
      BY <2>1, <2>2, <2>10
    <3> HIDE DEF before, after, past
    <3>2. spent + after <= Capacity + (flow + PerMinute) /\ past <= ticks + 1
      BY <2>9, <3>1
    <3> QED
      BY <3>2 DEF after, past
  <2> QED
    BY <2>4, <2>11 DEF spent
<1> QED
  BY <1>2, <1>3, <1>4, <1>5 DEF BucketInv

LEMMA BucketInvInit == ASSUME RateInit PROVE BucketInv
<1>1. /\ bucket = [c \in Clients |-> [level |-> Capacity, at |-> 0]] /\ ticks = 0
      /\ let = [c \in Clients |-> << >>] /\ advised = [c \in Clients |-> NotYet]
  BY DEF RateInit
<1>2. FilledInTime /\ AdviceIsEnough
  BY <1>1 DEF FilledInTime, AdviceIsEnough
<1>3. \A c \in Clients : DOMAIN let[c] = {}
  <2>1. DOMAIN << >> = {}
    OBVIOUS
  <2> QED
    BY <1>1, <2>1
<1>4. SpentFlowedIn /\ RateIsBounded
  BY <1>3 DEF SpentFlowedIn, RateIsBounded
<1> QED
  BY <1>2, <1>4, WindowInvInit DEF BucketInv

LEMMA RateStepKeeps ==
  ASSUME BucketInv, [RateNext]_rateVars
  PROVE  BucketInv'
<1>1. CASE \E c \in Clients : Check(c)
  BY <1>1, CheckKeeps
<1>2. CASE \E x \in Checkers, c \in Clients : Ask(x, c)
  <2> PICK x \in Checkers, c \in Clients : Ask(x, c)
    BY <1>2
  <2>1. WindowInv'
    BY AskKeeps DEF BucketInv
  <2> QED
    BY <2>1, BucketsUntouched DEF Ask, bucketVars
<1>3. CASE \E x \in Checkers : IncrMemory(x)
  <2> PICK x \in Checkers : IncrMemory(x)
    BY <1>3
  <2>1. WindowInv'
    BY IncrMemoryKeeps DEF BucketInv
  <2> QED
    BY <2>1, BucketsUntouched DEF IncrMemory, bucketVars
<1>4. CASE \E x \in Checkers : Incr(x)
  <2> PICK x \in Checkers : Incr(x)
    BY <1>4
  <2>1. WindowInv'
    BY IncrKeeps DEF BucketInv
  <2> QED
    BY <2>1, BucketsUntouched DEF Incr, bucketVars
<1>5. CASE \E x \in Checkers : Expire(x)
  <2> PICK x \in Checkers : Expire(x)
    BY <1>5
  <2>1. WindowInv'
    BY ExpireKeeps DEF BucketInv
  <2> QED
    BY <2>1, BucketsUntouched DEF Expire, bucketVars
<1>6. CASE \E x \in Checkers : Abandon(x)
  <2> PICK x \in Checkers : Abandon(x)
    BY <1>6
  <2>1. WindowInv'
    BY AbandonKeeps DEF BucketInv
  <2> QED
    BY <2>1, BucketsUntouched DEF Abandon, bucketVars
<1>7. CASE RateTick
  BY <1>7, RateTickKeepsBuckets
<1>8. CASE UNCHANGED rateVars
  <2>1. UNCHANGED <<limiter, ticks, bucket, let, advised, counter, checking, passed, cut>>
    BY <1>8 DEF rateVars, bucketVars, windowVars
  <2>2. WindowInv'
    BY <2>1 DEF BucketInv, WindowInv, RateTypeOK, LimitKept, PassedIsCounted,
                KeyOutlivesWindow, AskedInTime, CountersExpire, Alive, Starts
  <2> QED
    BY <2>1, <2>2, BucketsUntouched
<1> QED
  BY <1>1, <1>2, <1>3, <1>4, <1>5, <1>6, <1>7, <1>8 DEF RateNext

LEMMA BucketInvHolds == RateSpec => []BucketInv
<1>1. RateInit => BucketInv
  BY BucketInvInit
<1>2. BucketInv /\ [RateNext]_rateVars => BucketInv'
  BY RateStepKeeps
<1> QED
  BY <1>1, <1>2, PTL DEF RateSpec

\* The windows of a client let through PerMinute requests a minute, whatever
\* the limit, the number of processes and of their cut-off calls (incr,
\* check_shared).
THEOREM WindowHolds == RateSpec => []WindowIsBounded
<1>1. BucketInv => WindowIsBounded
  BY DEF BucketInv, WindowInv, LimitKept, WindowIsBounded
<1> QED
  BY <1>1, BucketInvHolds, PTL

\* No counter stays without an expiry unless the last call that counted was
\* cut off (incr).
THEOREM CountersHold == RateSpec => []CountersExpire
<1>1. BucketInv => CountersExpire
  BY DEF BucketInv, WindowInv
<1> QED
  BY <1>1, BucketInvHolds, PTL

\* A bucket bounds burst and rate, and its advice is enough, for every limit
\* and every sequence of requests (check, retry_after).
THEOREM BucketsHold == RateSpec => []BucketIsFair
<1>1. BucketInv => BucketIsFair
  BY AdviceHolds DEF BucketInv, BucketIsFair
<1> QED
  BY <1>1, BucketInvHolds, PTL

(***************************************************************************)
(* The sessions. A family that no two requests worked on at once has one   *)
(* request at most, and what that request has read of its token still      *)
(* holds when it uses it.                                                  *)
(***************************************************************************)
FamiliesNamed ==
    /\ \A t \in Tokens \ issued : family[t] = t
    /\ \A t \in issued : family[t] \in issued
    /\ ended \subseteq issued

WorksOn(w, f) == visit[w] # Idle /\ family[visit[w].token] = f

VisitsKnown == \A w \in SessionWorkers : visit[w] # Idle => visit[w].token \in held

AloneUnlessOverlapped ==
    \A f \in Tokens \ overlapped : \A v, w \in SessionWorkers :
        WorksOn(v, f) /\ WorksOn(w, f) => v = w

RevokedAreEnded == \A t \in revoked : family[t] \in ended

OneUsable ==
    \A f \in Tokens \ overlapped : \A t, u \in Members(f) : Usable(t) /\ Usable(u) => t = u

\* Whatever overlapped: a session that neither was ended nor lost its next
\* token has a token, or had one that expired, or is about to get one.
HasNext(f) ==
    \/ \E t \in Members(f) : Usable(t)
    \/ \E t \in Members(f) \ (stored \cup consumed) : expires[t] < clock
    \/ \E w \in SessionWorkers : visit[w].pc = "issue" /\ family[visit[w].token] = f

NextOrLost == \A f \in Families \ (ended \cup dropped) : HasNext(f)

\* What a request knows at each of its steps.
LookedUp(w) == visit[w].pc = "lookFamily" => family[visit[w].token] \notin ended

FoundDead(w) == visit[w].pc = "get" /\ visit[w].subject = FALSE => ~IsLive(visit[w].token)

FoundFresh(w) ==
    visit[w].pc \in {"getFamily", "consume"} /\ visit[w].used = FALSE =>
        /\ visit[w].token \notin consumed \cup revoked
        /\ family[visit[w].token] \notin ended
        /\ \A u \in Members(family[visit[w].token]) : Usable(u) => u = visit[w].token

FoundExpired(w) ==
    visit[w].pc = "getFamily" /\ visit[w].subject = FALSE /\ visit[w].used = FALSE =>
        expires[visit[w].token] < clock

Replaces(w) ==
    visit[w].pc = "issue" =>
        /\ family[visit[w].token] \notin ended
        /\ \A u \in Members(family[visit[w].token]) : ~Usable(u)

Succeeds(w) ==
    /\ visit[w].pc \in {"consume", "issue"} => visit[w].subject = TRUE
    /\ visit[w].pc = "consume" => visit[w].used = FALSE

Informed(w) ==
    LookedUp(w) /\ FoundDead(w) /\ FoundFresh(w) /\ FoundExpired(w) /\ Replaces(w) /\ Succeeds(w)

VisitsInformed ==
    \A w \in SessionWorkers :
        visit[w] # Idle /\ family[visit[w].token] \notin overlapped => Informed(w)

SessionInv ==
    /\ SessionTypeOK /\ FamiliesNamed /\ VisitsKnown /\ RevokedAreEnded /\ NextOrLost
    /\ AloneUnlessOverlapped /\ OneUsable /\ EndedStaysEnded /\ VisitsInformed

LEMMA VisitTypes ==
  ASSUME SessionTypeOK, FamiliesNamed, VisitsKnown, NEW w \in SessionWorkers
  PROVE  /\ visit[w] \in Visits
         /\ visit[w].pc \in RefreshSteps \cup LogoutSteps => visit[w] # Idle
         /\ visit[w] # Idle =>
               /\ visit[w].token \in issued /\ visit[w].token \in Tokens
               /\ family[visit[w].token] \in issued /\ family[visit[w].token] \in Tokens
               /\ visit[w].pc \in RefreshSteps \cup LogoutSteps
               /\ visit[w].subject \in BOOLEAN /\ visit[w].used \in BOOLEAN
<1>1. visit[w] \in Visits
  BY DEF SessionTypeOK
<1>2. visit[w].pc \in RefreshSteps \cup LogoutSteps => visit[w] # Idle
  BY DEF Idle, RefreshSteps, LogoutSteps
<1>3. ASSUME visit[w] # Idle
      PROVE  visit[w] \in [pc : RefreshSteps \cup LogoutSteps, token : Tokens,
                           subject : BOOLEAN, used : BOOLEAN]
  BY <1>1, <1>3 DEF Visits
<1>4. visit[w] # Idle => visit[w].token \in issued
  BY DEF VisitsKnown, SessionTypeOK
<1>5. issued \subseteq Tokens /\ family \in [Tokens -> Tokens]
  BY DEF SessionTypeOK
<1> QED
  BY <1>1, <1>2, <1>3, <1>4, <1>5 DEF FamiliesNamed

\* A request goes on, or ends, and leaves the rows as they are.
LEMMA VisitStep ==
  ASSUME SessionInv, NEW w \in SessionWorkers, NEW r \in Visits, visit[w] # Idle,
         visit' = [visit EXCEPT ![w] = r],
         UNCHANGED <<clock, sessionRows, held, ended, overlapped>>,
         r # Idle => r.token = visit[w].token /\ visit[w].pc # "issue",
         dropped' \subseteq Tokens, dropped \subseteq dropped',
         visit[w].pc = "issue" => family[visit[w].token] \in dropped',
         r # Idle /\ family[visit[w].token] \notin overlapped => Informed(w)'
  PROVE  SessionInv'
<1>1. /\ UNCHANGED <<clock, issued, family, expires, stored, consumed, revoked, held, ended,
                     overlapped>>
      /\ visit'[w] = r
      /\ \A v \in SessionWorkers : v # w => visit'[v] = visit[v]
  BY DEF sessionRows, SessionInv, SessionTypeOK
<1>2. SessionTypeOK'
  BY <1>1 DEF SessionInv, SessionTypeOK
<1>3. FamiliesNamed' /\ RevokedAreEnded'
  BY <1>1 DEF SessionInv, FamiliesNamed, RevokedAreEnded
<1>4. VisitsKnown'
  BY <1>1 DEF SessionInv, VisitsKnown
<1>5. \A t \in Tokens : Usable(t)' = Usable(t)
  BY <1>1 DEF Usable
<1>6. OneUsable' /\ EndedStaysEnded'
  BY <1>1 DEF SessionInv, OneUsable, EndedStaysEnded, Usable, Members
<1>7. AloneUnlessOverlapped'
  <2>1. \A v \in SessionWorkers, f \in Tokens : WorksOn(v, f)' => WorksOn(v, f)
    BY <1>1 DEF WorksOn
  <2> QED
    BY <1>1, <2>1 DEF SessionInv, AloneUnlessOverlapped
<1>8. NextOrLost'
  <2> SUFFICES ASSUME NEW f \in Families \ (ended \cup dropped), f \notin dropped'
               PROVE  HasNext(f)'
    BY <1>1 DEF NextOrLost, Families
  <2>1. HasNext(f)
    BY DEF SessionInv, NextOrLost
  <2>2. ASSUME NEW v \in SessionWorkers, visit[v].pc = "issue", family[visit[v].token] = f
        PROVE  visit'[v] = visit[v]
    BY <1>1, <2>2
  <2> QED
    BY <1>1, <2>1, <2>2 DEF HasNext, Usable, Members
<1>9. VisitsInformed'
  <2> SUFFICES ASSUME NEW v \in SessionWorkers, visit'[v] # Idle,
                      family[visit'[v].token] \notin overlapped
               PROVE  Informed(v)'
    BY <1>1 DEF VisitsInformed, Idle
  <2>1. CASE v = w
    BY <1>1, <2>1
  <2>2. CASE v # w
    <3>1. visit'[v] = visit[v]
      BY <1>1, <2>2
    <3>2. Informed(v)
      BY <3>1 DEF SessionInv, VisitsInformed
    <3> QED
      BY <1>1, <3>1, <3>2 DEF Informed, LookedUp, FoundDead, FoundFresh, FoundExpired,
            Replaces, Succeeds, IsLive, Usable, Members
  <2> QED
    BY <2>1, <2>2
<1> QED
  BY <1>2, <1>3, <1>4, <1>6, <1>7, <1>8, <1>9 DEF SessionInv

LEMMA LookKeeps ==
  ASSUME SessionInv, NEW w \in SessionWorkers, Look(w)
  PROVE  SessionInv'
<1> DEFINE r == [visit[w] EXCEPT !.pc = IF IsLive(visit[w].token) THEN "lookFamily" ELSE "get"]
<1>1. /\ visit[w].pc = "look" /\ visit' = [visit EXCEPT ![w] = r]
      /\ UNCHANGED <<clock, sessionRows, held, ended, overlapped, dropped>>
  BY DEF Look, GoTo, ReadOnly, sessionHistory
<1>2. /\ visit[w] # Idle /\ visit[w].token \in issued
      /\ visit[w] \in [pc : RefreshSteps \cup LogoutSteps, token : Tokens,
                       subject : BOOLEAN, used : BOOLEAN]
      /\ dropped \subseteq Tokens
  BY <1>1, VisitTypes DEF SessionInv, SessionTypeOK, Idle, Visits
<1>3. /\ r \in Visits /\ r # Idle /\ r.token = visit[w].token
      /\ r.pc = IF IsLive(visit[w].token) THEN "lookFamily" ELSE "get"
      /\ visit'[w] = r
  BY <1>1, <1>2 DEF Visits, RefreshSteps, Idle, SessionInv, SessionTypeOK
<1> HIDE DEF r
<1>4. UNCHANGED <<clock, issued, family, expires, stored, consumed, revoked>>
  BY <1>1 DEF sessionRows
<1>5. ASSUME family[visit[w].token] \notin overlapped
      PROVE  Informed(w)'
  <2>1. IsLive(visit[w].token) => family[visit[w].token] \notin ended
    BY <1>2, <1>5 DEF SessionInv, EndedStaysEnded, IsLive, Usable, Members, SessionTypeOK
  <2>2. LookedUp(w)'
    BY <1>3, <1>4, <1>1, <2>1 DEF LookedUp, sessionHistory
  <2>3. FoundDead(w)'
    BY <1>3, <1>4 DEF FoundDead, IsLive
  <2> QED
    BY <1>3, <2>2, <2>3 DEF Informed, FoundFresh, FoundExpired, Replaces, Succeeds
<1> QED
  BY <1>1, <1>2, <1>3, <1>5, VisitStep

LEMMA LookFamilyKeeps ==
  ASSUME SessionInv, NEW w \in SessionWorkers, LookFamily(w)
  PROVE  SessionInv'
<1> DEFINE r == [visit[w] EXCEPT !.pc = "get",
                                 !.subject = ~IsFamilyRevoked(family[visit[w].token])]
<1>1. /\ visit[w].pc = "lookFamily" /\ visit' = [visit EXCEPT ![w] = r]
      /\ UNCHANGED <<clock, sessionRows, held, ended, overlapped, dropped>>
  BY DEF LookFamily, ReadOnly, sessionHistory
<1>2. /\ visit[w] # Idle /\ visit[w].token \in issued
      /\ visit[w] \in [pc : RefreshSteps \cup LogoutSteps, token : Tokens,
                       subject : BOOLEAN, used : BOOLEAN]
      /\ dropped \subseteq Tokens
  BY <1>1, VisitTypes DEF SessionInv, SessionTypeOK, Idle, Visits
<1>3. /\ r \in Visits /\ r # Idle /\ r.token = visit[w].token
      /\ r.pc = "get" /\ visit'[w] = r
  BY <1>1, <1>2 DEF Visits, RefreshSteps, Idle, SessionInv, SessionTypeOK
<1>4. r.subject = FALSE => IsFamilyRevoked(family[visit[w].token])
  BY <1>2
<1> HIDE DEF r
<1>5. ASSUME family[visit[w].token] \notin overlapped
      PROVE  Informed(w)'
  <2>1. family[visit[w].token] \notin ended
    BY <1>1, <1>2, <1>5 DEF SessionInv, VisitsInformed, Informed, LookedUp
  <2>2. ~IsFamilyRevoked(family[visit[w].token])
    BY <2>1 DEF SessionInv, RevokedAreEnded, IsFamilyRevoked
  <2> QED
    BY <1>3, <1>4, <2>2 DEF Informed, LookedUp, FoundDead, FoundFresh, FoundExpired, Replaces,
          Succeeds
<1> QED
  BY <1>1, <1>2, <1>3, <1>5, VisitStep

LEMMA GetKeeps ==
  ASSUME SessionInv, NEW w \in SessionWorkers, Get(w)
  PROVE  SessionInv'
<1> DEFINE t == visit[w].token
           r == IF t \in stored \ revoked
                THEN [visit[w] EXCEPT !.pc = "getFamily", !.used = t \in consumed] ELSE Idle
<1>1. /\ visit[w].pc = "get" /\ visit' = [visit EXCEPT ![w] = r]
      /\ UNCHANGED <<clock, sessionRows, held, ended, overlapped, dropped>>
  BY DEF Get, Leave, ReadOnly, sessionHistory
<1>2. /\ visit[w] # Idle /\ visit[w].token \in issued
      /\ visit[w] \in [pc : RefreshSteps \cup LogoutSteps, token : Tokens,
                       subject : BOOLEAN, used : BOOLEAN]
      /\ dropped \subseteq Tokens
  BY <1>1, VisitTypes DEF SessionInv, SessionTypeOK, Idle, Visits
<1>3. /\ r \in Visits /\ (r # Idle => r.token = visit[w].token) /\ visit'[w] = r
  <2>1. (t \in consumed) \in BOOLEAN /\ Idle \in Visits
    BY DEF Visits
  <2> DEFINE b == t \in consumed
             q == [visit[w] EXCEPT !.pc = "getFamily", !.used = b]
  <2>2. b \in BOOLEAN /\ r = IF t \in stored \ revoked THEN q ELSE Idle
    BY <2>1
  <2> HIDE DEF b
  <2>3. q \in Visits /\ q.token = visit[w].token
    BY <1>2, <2>2 DEF Visits, RefreshSteps
  <2>4. visit'[w] = r
    BY <1>1 DEF SessionInv, SessionTypeOK
  <2> QED
    BY <2>1, <2>2, <2>3, <2>4
<1>4. r # Idle => /\ t \in stored \ revoked /\ r.pc = "getFamily"
                  /\ r.used = FALSE => t \notin consumed
                  /\ r.subject = visit[w].subject
  BY <1>2
<1> HIDE DEF r
<1>5. ASSUME r # Idle, family[visit[w].token] \notin overlapped
      PROVE  Informed(w)'
  <2>1. UNCHANGED <<clock, issued, family, expires, stored, consumed, revoked, ended>>
    BY <1>1 DEF sessionRows, sessionHistory
  <2>2. r.used = FALSE => Usable(t)
    BY <1>4, <1>5 DEF Usable
  <2>3. t \in Members(family[t]) /\ family[t] \in Tokens \ overlapped
    BY <1>2, <1>5, VisitTypes DEF Members, SessionInv
  <2>4. r.used = FALSE => family[t] \notin ended /\ \A u \in Members(family[t]) : Usable(u) => u = t
    BY <2>2, <2>3 DEF SessionInv, OneUsable, EndedStaysEnded
  <2>5. FoundFresh(w)'
    BY <1>3, <1>4, <1>5, <2>1, <2>2, <2>4 DEF FoundFresh, Usable, Members
  <2>6. visit[w].subject = FALSE => ~IsLive(t)
    BY <1>1, <1>2, <1>5 DEF SessionInv, VisitsInformed, Informed, FoundDead
  <2>7. r.subject = FALSE /\ r.used = FALSE => expires[t] < clock
    <3>1. expires[t] \in Nat /\ clock \in Nat
      BY <1>2 DEF SessionInv, SessionTypeOK
    <3> QED
      BY <1>4, <1>5, <2>6, <3>1 DEF IsLive
  <2>8. FoundExpired(w)'
    BY <1>3, <1>5, <2>1, <2>7 DEF FoundExpired
  <2> QED
    BY <1>3, <1>4, <1>5, <2>5, <2>8 DEF Informed, LookedUp, FoundDead, Replaces, Succeeds
<1> QED
  BY <1>1, <1>2, <1>3, <1>5, VisitStep

LEMMA GetFamilyKeeps ==
  ASSUME SessionInv, NEW w \in SessionWorkers, GetFamily(w)
  PROVE  SessionInv'
<1> DEFINE t == visit[w].token
           r == IF IsFamilyRevoked(family[t]) \/ expires[t] < clock
                THEN Idle
                ELSE [visit[w] EXCEPT !.pc = IF visit[w].used THEN "reuse" ELSE "consume"]
<1>1. /\ visit[w].pc = "getFamily" /\ visit' = [visit EXCEPT ![w] = r]
      /\ UNCHANGED <<clock, sessionRows, held, ended, overlapped, dropped>>
  BY DEF GetFamily, Leave, GoTo, ReadOnly, sessionHistory
<1>2. /\ visit[w] # Idle /\ visit[w].token \in issued
      /\ visit[w] \in [pc : RefreshSteps \cup LogoutSteps, token : Tokens,
                       subject : BOOLEAN, used : BOOLEAN]
      /\ dropped \subseteq Tokens
  BY <1>1, VisitTypes DEF SessionInv, SessionTypeOK, Idle, Visits
<1>3. /\ r \in Visits /\ (r # Idle => r.token = visit[w].token) /\ visit'[w] = r
  BY <1>1, <1>2 DEF Visits, RefreshSteps, Idle, SessionInv, SessionTypeOK
<1>4. r # Idle => /\ ~(expires[t] < clock) /\ r.pc \in {"reuse", "consume"}
                  /\ r.pc = "consume" => r.used = FALSE
                  /\ r.used = visit[w].used
                  /\ r.subject = visit[w].subject /\ r.subject \in BOOLEAN
  BY <1>2
<1> HIDE DEF r
<1>5. ASSUME r # Idle, family[visit[w].token] \notin overlapped
      PROVE  Informed(w)'
  <2>1. UNCHANGED <<clock, issued, family, expires, stored, consumed, revoked, ended>>
    BY <1>1 DEF sessionRows, sessionHistory
  <2>2. FoundFresh(w) /\ FoundExpired(w)
    BY <1>2, <1>5 DEF SessionInv, VisitsInformed, Informed
  <2>3. FoundFresh(w)'
    BY <1>1, <1>3, <1>4, <1>5, <2>1, <2>2 DEF FoundFresh, Usable, Members
  <2>4. Succeeds(w)'
    BY <1>1, <1>3, <1>4, <1>5, <2>2 DEF Succeeds, FoundExpired
  <2> QED
    BY <1>3, <1>4, <1>5, <2>3, <2>4 DEF Informed, LookedUp, FoundDead, FoundExpired, Replaces
<1> QED
  BY <1>1, <1>2, <1>3, <1>5, VisitStep

LEMMA FindKeeps ==
  ASSUME SessionInv, NEW w \in SessionWorkers, Find(w)
  PROVE  SessionInv'
<1> DEFINE r == IF visit[w].token \in stored THEN [visit[w] EXCEPT !.pc = "end"] ELSE Idle
<1>1. /\ visit[w].pc = "find" /\ visit' = [visit EXCEPT ![w] = r]
      /\ UNCHANGED <<clock, sessionRows, held, ended, overlapped, dropped>>
  BY DEF Find, Leave, GoTo, ReadOnly, sessionHistory
<1>2. /\ visit[w] # Idle /\ dropped \subseteq Tokens
      /\ visit[w] \in [pc : RefreshSteps \cup LogoutSteps, token : Tokens,
                       subject : BOOLEAN, used : BOOLEAN]
  BY <1>1, VisitTypes DEF SessionInv, SessionTypeOK, Idle, Visits
<1>3. /\ r \in Visits /\ (r # Idle => r.token = visit[w].token /\ r.pc = "end")
      /\ visit'[w] = r
  BY <1>1, <1>2 DEF Visits, LogoutSteps, Idle, SessionInv, SessionTypeOK
<1> HIDE DEF r
<1>4. r # Idle => Informed(w)'
  BY <1>3 DEF Informed, LookedUp, FoundDead, FoundFresh, FoundExpired, Replaces, Succeeds
<1> QED
  BY <1>1, <1>2, <1>3, <1>4, VisitStep

LEMMA CutOffKeeps ==
  ASSUME SessionInv, NEW w \in SessionWorkers, CutOff(w)
  PROVE  SessionInv'
<1>1. /\ visit[w] # Idle /\ visit' = [visit EXCEPT ![w] = Idle]
      /\ dropped' = IF visit[w].pc = "issue" THEN dropped \cup {family[visit[w].token]}
                    ELSE dropped
      /\ UNCHANGED <<clock, sessionRows, held, ended, overlapped>>
  BY DEF CutOff, Leave
<1>2. Idle \in Visits /\ dropped \subseteq Tokens /\ family[visit[w].token] \in Tokens
  BY <1>1, VisitTypes DEF SessionInv, SessionTypeOK, Visits
<1> QED
  BY <1>1, <1>2, VisitStep

LEMMA BeginKeeps ==
  ASSUME SessionInv, NEW w \in SessionWorkers, NEW t \in Tokens,
         NEW pc \in {"look", "find"}, Begin(w, t, pc)
  PROVE  SessionInv'
<1> DEFINE r == [pc |-> pc, token |-> t, subject |-> FALSE, used |-> FALSE]
<1>1. /\ visit[w] = Idle /\ t \in held /\ visit' = [visit EXCEPT ![w] = r]
      /\ overlapped' = IF Working(family[t]) THEN overlapped \cup {family[t]} ELSE overlapped
      /\ UNCHANGED <<clock, issued, family, expires, stored, consumed, revoked, held, ended,
                     dropped>>
  BY DEF Begin, sessionRows
<1>2. /\ r \in Visits /\ r # Idle /\ r.token = t /\ r.pc = pc /\ visit'[w] = r
      /\ \A v \in SessionWorkers : v # w => visit'[v] = visit[v]
      /\ family[t] \in Tokens
  BY <1>1 DEF Visits, RefreshSteps, LogoutSteps, Idle, SessionInv, SessionTypeOK
<1> HIDE DEF r
<1>3. SessionTypeOK'
  BY <1>1, <1>2 DEF SessionInv, SessionTypeOK
<1>4. FamiliesNamed' /\ RevokedAreEnded'
  BY <1>1 DEF SessionInv, FamiliesNamed, RevokedAreEnded
<1>5. VisitsKnown'
  BY <1>1, <1>2 DEF SessionInv, VisitsKnown
<1>6. OneUsable' /\ EndedStaysEnded'
  BY <1>1 DEF SessionInv, OneUsable, EndedStaysEnded, Usable, Members
<1>7. NextOrLost'
  <2> SUFFICES ASSUME NEW f \in Families \ (ended \cup dropped)
               PROVE  HasNext(f)'
    BY <1>1 DEF NextOrLost, Families
  <2>1. HasNext(f)
    BY DEF SessionInv, NextOrLost
  <2>2. \A v \in SessionWorkers : visit[v].pc = "issue" => visit'[v] = visit[v]
    BY <1>1, <1>2 DEF Idle
  <2> QED
    BY <1>1, <2>1, <2>2 DEF HasNext, Usable, Members
<1>8. AloneUnlessOverlapped'
  <2>1. ASSUME NEW v \in SessionWorkers, NEW u \in SessionWorkers, NEW f \in Tokens \ overlapped',
               WorksOn(v, f)', WorksOn(u, f)', v # w
        PROVE  WorksOn(v, f) /\ u # w
    <3>1. WorksOn(v, f)
      BY <1>1, <1>2, <2>1 DEF WorksOn
    <3>2. Working(f)
      BY <3>1 DEF Working, WorksOn
    <3>3. f # family[t]
      BY <1>1, <2>1, <3>2
    <3> QED
      BY <1>1, <1>2, <2>1, <3>1, <3>3 DEF WorksOn
  <2>2. overlapped \subseteq overlapped'
    BY <1>1
  <2> QED
    BY <2>1, <2>2 DEF SessionInv, AloneUnlessOverlapped
<1>9. VisitsInformed'
  <2> SUFFICES ASSUME NEW v \in SessionWorkers, visit'[v] # Idle,
                      family[visit'[v].token] \notin overlapped
               PROVE  Informed(v)'
    BY <1>1 DEF VisitsInformed, Idle
  <2>1. CASE v = w
    BY <1>2, <2>1 DEF Informed, LookedUp, FoundDead, FoundFresh, FoundExpired, Replaces, Succeeds
  <2>2. CASE v # w
    <3>1. visit'[v] = visit[v]
      BY <1>2, <2>2
    <3>2. Informed(v)
      BY <3>1 DEF SessionInv, VisitsInformed
    <3> QED
      BY <1>1, <3>1, <3>2 DEF Informed, LookedUp, FoundDead, FoundFresh, FoundExpired,
            Replaces, Succeeds, IsLive, Usable, Members
  <2> QED
    BY <2>1, <2>2
<1> QED
  BY <1>3, <1>4, <1>5, <1>6, <1>7, <1>8, <1>9 DEF SessionInv

LEMMA ConsumeKeeps ==
  ASSUME SessionInv, NEW w \in SessionWorkers, Consume(w)
  PROVE  SessionInv'
<1> DEFINE t == visit[w].token
           r == [visit[w] EXCEPT !.pc = "issue"]
<1>1. /\ visit[w].pc = "consume" /\ visit' = [visit EXCEPT ![w] = r]
      /\ consumed' = consumed \cup ({t} \cap stored)
      /\ UNCHANGED <<clock, issued, family, expires, stored, revoked, held, ended, overlapped,
                     dropped>>
  BY DEF Consume, GoTo, sessionHistory
<1>2. /\ visit[w] # Idle /\ t \in issued /\ family[t] \in Tokens
      /\ visit[w] \in [pc : RefreshSteps \cup LogoutSteps, token : Tokens,
                       subject : BOOLEAN, used : BOOLEAN]
  BY <1>1, VisitTypes DEF SessionInv, SessionTypeOK, Idle, Visits
<1>3. /\ r \in Visits /\ r # Idle /\ r.token = t /\ r.pc = "issue" /\ r.subject = visit[w].subject
      /\ visit'[w] = r
      /\ \A v \in SessionWorkers : v # w => visit'[v] = visit[v]
  BY <1>1, <1>2 DEF Visits, RefreshSteps, Idle, SessionInv, SessionTypeOK
<1> HIDE DEF r
<1>4. SessionTypeOK'
  BY <1>1, <1>2, <1>3 DEF SessionInv, SessionTypeOK
<1>5. FamiliesNamed' /\ RevokedAreEnded'
  BY <1>1 DEF SessionInv, FamiliesNamed, RevokedAreEnded
<1>6. VisitsKnown'
  BY <1>1, <1>2, <1>3 DEF SessionInv, VisitsKnown
<1>7. OneUsable' /\ EndedStaysEnded'
  BY <1>1 DEF SessionInv, OneUsable, EndedStaysEnded, Usable, Members
<1>8. AloneUnlessOverlapped'
  <2>1. \A v \in SessionWorkers, f \in Tokens : WorksOn(v, f)' => WorksOn(v, f)
    BY <1>1, <1>2, <1>3 DEF WorksOn
  <2> QED
    BY <1>1, <2>1 DEF SessionInv, AloneUnlessOverlapped
<1>9. NextOrLost'
  <2> SUFFICES ASSUME NEW f \in Families \ (ended \cup dropped)
               PROVE  HasNext(f)'
    BY <1>1 DEF NextOrLost, Families
  <2>1. CASE family[t] = f
    BY <1>1, <1>3, <2>1 DEF HasNext
  <2>2. CASE family[t] # f
    <3>1. HasNext(f)
      BY DEF SessionInv, NextOrLost
    <3>2. \A u \in Members(f) : u # t
      BY <2>2 DEF Members
    <3>3. \A v \in SessionWorkers : visit[v].pc = "issue" => visit'[v] = visit[v]
      BY <1>1, <1>3
    <3> QED
      BY <1>1, <3>1, <3>2, <3>3 DEF HasNext, Usable, Members
  <2> QED
    BY <2>1, <2>2
<1>10. VisitsInformed'
  <2> SUFFICES ASSUME NEW v \in SessionWorkers, visit'[v] # Idle,
                      family[visit'[v].token] \notin overlapped
               PROVE  Informed(v)'
    BY <1>1 DEF VisitsInformed, Idle
  <2>1. CASE v = w
    <3>1. FoundFresh(w) /\ Succeeds(w)
      BY <1>2, <1>3, <2>1 DEF SessionInv, VisitsInformed, Informed
    <3>2. Replaces(w)'
      BY <1>1, <1>3, <3>1 DEF Replaces, FoundFresh, Succeeds, Usable, Members
    <3>3. Succeeds(w)'
      BY <1>1, <1>3, <3>1 DEF Succeeds
    <3> QED
      BY <1>3, <2>1, <3>2, <3>3 DEF Informed, LookedUp, FoundDead, FoundFresh, FoundExpired
  <2>2. CASE v # w
    <3>1. visit'[v] = visit[v]
      BY <1>3, <2>2
    <3>2. Informed(v)
      BY <3>1 DEF SessionInv, VisitsInformed
    <3>3. visit[v].token # t
      BY <1>2, <2>2, <3>1 DEF SessionInv, AloneUnlessOverlapped, WorksOn
    <3>4. LookedUp(v)' /\ FoundDead(v)' /\ FoundExpired(v)' /\ Succeeds(v)'
      BY <1>1, <3>1, <3>2 DEF Informed, LookedUp, FoundDead, FoundExpired, Succeeds, IsLive
    <3>5. FoundFresh(v)' /\ Replaces(v)'
      BY <1>1, <3>1, <3>2, <3>3 DEF Informed, FoundFresh, Replaces, Usable, Members
    <3> QED
      BY <3>4, <3>5 DEF Informed
  <2> QED
    BY <2>1, <2>2
<1> QED
  BY <1>4, <1>5, <1>6, <1>7, <1>8, <1>9, <1>10 DEF SessionInv

\* What revoke_family does, in a refresh that was presented a used token or
\* in a logout.
LEMMA RevokeKeeps ==
  ASSUME SessionInv, NEW w \in SessionWorkers, visit[w] # Idle,
         RevokeFamily(family[visit[w].token]), Leave(w),
         visit[w].pc # "issue",
         UNCHANGED <<clock, held, overlapped, dropped>>
  PROVE  SessionInv'
<1> DEFINE f == family[visit[w].token]
<1>1. /\ visit' = [visit EXCEPT ![w] = Idle]
      /\ revoked' = revoked \cup (stored \cap Members(f))
      /\ ended' = ended \cup {f}
      /\ UNCHANGED <<clock, issued, family, expires, stored, consumed, held, overlapped, dropped>>
  BY DEF RevokeFamily, Leave
<1>2. f \in Tokens /\ f \in issued
  BY VisitTypes DEF SessionInv
<1>3. /\ visit'[w] = Idle /\ Idle \in Visits
      /\ \A v \in SessionWorkers : v # w => visit'[v] = visit[v]
  BY <1>1 DEF Visits, SessionInv, SessionTypeOK
<1>4. WorksOn(w, f)
  BY DEF WorksOn
<1> HIDE DEF f
<1>5. SessionTypeOK'
  BY <1>1, <1>2, <1>3 DEF SessionInv, SessionTypeOK
<1>6. FamiliesNamed' /\ RevokedAreEnded'
  BY <1>1, <1>2 DEF SessionInv, FamiliesNamed, RevokedAreEnded, Members
<1>7. VisitsKnown'
  BY <1>1, <1>3 DEF SessionInv, VisitsKnown
<1>8. \A t \in Tokens : Usable(t)' => Usable(t)
  BY <1>1 DEF Usable
<1>9. \A t \in issued : Usable(t) /\ family[t] # f => Usable(t)'
  BY <1>1 DEF Usable, Members
<1>10. \A t \in Members(f) : ~Usable(t)'
  BY <1>1 DEF Usable, Members
<1>11. OneUsable' /\ EndedStaysEnded'
  <2>1. OneUsable'
    BY <1>1 DEF SessionInv, OneUsable, Usable, Members
  <2>2. EndedStaysEnded'
    <3> SUFFICES ASSUME NEW g \in ended', g \notin overlapped, NEW t \in Members(g)
                 PROVE  ~Usable(t)'
      BY <1>1 DEF EndedStaysEnded, Members
    <3>1. CASE g = f
      BY <1>10, <3>1
    <3>2. CASE g \in ended
      BY <1>1, <3>2 DEF SessionInv, EndedStaysEnded, Usable
    <3> QED
      BY <1>1, <3>1, <3>2
  <2> QED
    BY <2>1, <2>2
<1>12. AloneUnlessOverlapped'
  <2>1. \A v \in SessionWorkers, g \in Tokens : WorksOn(v, g)' => WorksOn(v, g)
    BY <1>1, <1>3 DEF WorksOn
  <2> QED
    BY <1>1, <2>1 DEF SessionInv, AloneUnlessOverlapped
<1>13. NextOrLost'
  <2> SUFFICES ASSUME NEW g \in Families \ (ended \cup dropped), g # f
               PROVE  HasNext(g)'
    BY <1>1 DEF NextOrLost, Families
  <2>1. HasNext(g)
    BY DEF SessionInv, NextOrLost
  <2>2. \A v \in SessionWorkers : visit[v].pc = "issue" => visit'[v] = visit[v]
    BY <1>3
  <2>3. \A t \in Members(g) : Usable(t) => Usable(t)'
    BY <1>9 DEF Members
  <2> QED
    BY <1>1, <2>1, <2>2, <2>3 DEF HasNext, Members
<1>14. VisitsInformed'
  <2> SUFFICES ASSUME NEW v \in SessionWorkers, visit'[v] # Idle,
                      family[visit'[v].token] \notin overlapped
               PROVE  Informed(v)'
    BY <1>1 DEF VisitsInformed, Idle
  <2>1. v # w /\ visit'[v] = visit[v]
    BY <1>3
  <2>2. Informed(v)
    BY <2>1 DEF SessionInv, VisitsInformed
  <2>3. family[visit[v].token] # f
    BY <1>2, <1>4, <2>1 DEF SessionInv, AloneUnlessOverlapped, WorksOn
  <2>4. visit[v].token \notin Members(f)
    BY <2>3 DEF Members
  <2>5. LookedUp(v)' /\ FoundDead(v)' /\ FoundExpired(v)' /\ Succeeds(v)'
    BY <1>1, <2>1, <2>2, <2>3 DEF Informed, LookedUp, FoundDead, FoundExpired, Succeeds, IsLive
  <2>6. FoundFresh(v)' /\ Replaces(v)'
    BY <1>1, <2>1, <2>2, <2>3, <2>4 DEF Informed, FoundFresh, Replaces, Usable, Members
  <2> QED
    BY <2>5, <2>6 DEF Informed
<1> QED
  BY <1>5, <1>6, <1>7, <1>11, <1>12, <1>13, <1>14 DEF SessionInv

LEMMA ReuseKeeps ==
  ASSUME SessionInv, NEW w \in SessionWorkers, Reuse(w)
  PROVE  SessionInv'
BY RevokeKeeps DEF Reuse, Idle

LEMMA EndKeeps ==
  ASSUME SessionInv, NEW w \in SessionWorkers, End(w)
  PROVE  SessionInv'
BY RevokeKeeps DEF End, Idle

LEMMA SweepKeeps ==
  ASSUME SessionInv, Sweep
  PROVE  SessionInv'
<1>1. /\ stored' = {t \in stored : ~Prunable(t)}
      /\ UNCHANGED <<clock, issued, family, expires, consumed, revoked, held, visit, ended,
                     overlapped, dropped>>
  BY DEF Sweep, Pruned, sessionHistory
<1>2. SessionTypeOK' /\ FamiliesNamed' /\ VisitsKnown' /\ RevokedAreEnded'
  BY <1>1 DEF SessionInv, SessionTypeOK, FamiliesNamed, VisitsKnown, RevokedAreEnded
<1>3. \A t \in Tokens : Usable(t)' => Usable(t)
  BY <1>1 DEF Usable
<1>4. AloneUnlessOverlapped'
  BY <1>1 DEF SessionInv, AloneUnlessOverlapped, WorksOn
<1>5. OneUsable' /\ EndedStaysEnded'
  BY <1>1 DEF SessionInv, OneUsable, EndedStaysEnded, Usable, Members
<1>6. NextOrLost'
  <2> SUFFICES ASSUME NEW f \in Families \ (ended \cup dropped)
               PROVE  HasNext(f)'
    BY <1>1 DEF NextOrLost, Families
  <2>1. HasNext(f)
    BY DEF SessionInv, NextOrLost
  <2>2. ASSUME NEW t \in Members(f), Usable(t), ~Usable(t)'
        PROVE  t \notin stored' \cup consumed' /\ expires[t] < clock
    BY <1>1, <2>2 DEF Usable, Prunable
  <2> QED
    BY <1>1, <2>1, <2>2 DEF HasNext, Members
<1>7. VisitsInformed'
  <2> SUFFICES ASSUME NEW v \in SessionWorkers, visit[v] # Idle,
                      family[visit[v].token] \notin overlapped
               PROVE  Informed(v)'
    BY <1>1 DEF VisitsInformed, Idle
  <2>1. Informed(v)
    BY DEF SessionInv, VisitsInformed
  <2> QED
    BY <1>1, <2>1 DEF Informed, LookedUp, FoundDead, FoundFresh, FoundExpired, Replaces,
          Succeeds, IsLive, Usable, Members
<1> QED
  BY <1>2, <1>4, <1>5, <1>6, <1>7 DEF SessionInv

LEMMA SessionTickKeeps ==
  ASSUME SessionInv, SessionTick
  PROVE  SessionInv'
<1>1. /\ clock' = clock + 1 /\ clock \in Nat
      /\ UNCHANGED <<issued, family, expires, stored, consumed, revoked, held, visit, ended,
                     overlapped, dropped>>
  BY DEF SessionTick, sessionRows, sessionHistory, SessionInv, SessionTypeOK
<1>2. SessionTypeOK'
  <2>1. clock' \in Nat
    BY <1>1
  <2> QED
    BY <1>1, <2>1 DEF SessionInv, SessionTypeOK
<1>3. FamiliesNamed' /\ VisitsKnown' /\ RevokedAreEnded'
  BY <1>1 DEF SessionInv, FamiliesNamed, VisitsKnown, RevokedAreEnded
<1>4. AloneUnlessOverlapped'
  BY <1>1 DEF SessionInv, AloneUnlessOverlapped, WorksOn
<1>5. OneUsable' /\ EndedStaysEnded'
  BY <1>1 DEF SessionInv, OneUsable, EndedStaysEnded, Usable, Members
<1>6. \A t \in Tokens : expires[t] < clock => expires[t] < clock'
  <2> SUFFICES ASSUME NEW t \in Tokens, expires[t] < clock
               PROVE  expires[t] < clock + 1
    BY <1>1
  <2>1. expires[t] \in Nat
    BY DEF SessionInv, SessionTypeOK
  <2> QED
    BY <1>1, <2>1
<1>7. \A t \in Tokens : IsLive(t)' => IsLive(t)
  <2> SUFFICES ASSUME NEW t \in Tokens, expires[t] >= clock + 1
               PROVE  expires[t] >= clock
    BY <1>1 DEF IsLive
  <2>1. expires[t] \in Nat
    BY DEF SessionInv, SessionTypeOK
  <2> QED
    BY <1>1, <2>1
<1>8. NextOrLost'
  <2> SUFFICES ASSUME NEW f \in Families \ (ended \cup dropped)
               PROVE  HasNext(f)'
    BY <1>1 DEF NextOrLost, Families
  <2>1. HasNext(f)
    BY DEF SessionInv, NextOrLost
  <2>2. Members(f) \subseteq Tokens
    BY DEF Members, SessionInv, SessionTypeOK
  <2> QED
    BY <1>1, <1>6, <2>1, <2>2 DEF HasNext, Members, Usable
<1>9. VisitsInformed'
  <2> SUFFICES ASSUME NEW v \in SessionWorkers, visit[v] # Idle,
                      family[visit[v].token] \notin overlapped
               PROVE  Informed(v)'
    BY <1>1 DEF VisitsInformed, Idle
  <2>1. Informed(v) /\ visit[v].token \in Tokens
    BY VisitTypes DEF SessionInv, VisitsInformed
  <2>2. FoundDead(v)' /\ FoundExpired(v)'
    BY <1>1, <1>6, <1>7, <2>1 DEF Informed, FoundDead, FoundExpired
  <2>3. LookedUp(v)' /\ FoundFresh(v)' /\ Replaces(v)' /\ Succeeds(v)'
    BY <1>1, <2>1 DEF Informed, LookedUp, FoundFresh, Replaces, Succeeds, Usable, Members
  <2> QED
    BY <2>2, <2>3 DEF Informed
<1> QED
  BY <1>2, <1>3, <1>4, <1>5, <1>8, <1>9 DEF SessionInv

\* What is true of a token that is issued to the family f.
LEMMA Issued ==
  ASSUME SessionInv, NEW t \in Tokens, NEW f \in Tokens, Issue(t, f), f \in issued \cup {t}
  PROVE  /\ t \notin issued /\ t \notin consumed /\ t \notin revoked /\ t \notin ended
         /\ issued' = issued \cup {t} /\ stored' = stored \cup {t}
         /\ UNCHANGED <<consumed, revoked>>
         /\ family' \in [Tokens -> Tokens] /\ expires' \in [Tokens -> Nat]
         /\ family'[t] = f
         /\ \A u \in Tokens : u # t => family'[u] = family[u] /\ expires'[u] = expires[u]
         /\ \A u \in Tokens : u # t => (Usable(u)' <=> Usable(u))
         /\ Usable(t)'
         /\ \A g \in Tokens : g # f => Members(g)' = Members(g)
         /\ Members(f)' = Members(f) \cup {t}
<1>1. t \notin issued
  <2>1. t \in Nat /\ issued = 1 .. t - 1
    BY SessionAssumption DEF Issue
  <2> QED
    BY <2>1
<1>2. t \notin consumed /\ t \notin revoked /\ t \notin ended /\ t \notin stored
  BY <1>1 DEF SessionInv, SessionTypeOK, FamiliesNamed
<1>3. clock + Lifetime \in Nat
  BY SessionAssumption DEF SessionInv, SessionTypeOK
<1>4. /\ issued' = issued \cup {t} /\ stored' = stored \cup {t}
      /\ UNCHANGED <<consumed, revoked>>
      /\ family' \in [Tokens -> Tokens] /\ expires' \in [Tokens -> Nat]
      /\ family'[t] = f
      /\ \A u \in Tokens : u # t => family'[u] = family[u] /\ expires'[u] = expires[u]
  BY <1>3 DEF Issue, SessionInv, SessionTypeOK
<1> QED
  BY <1>1, <1>2, <1>4 DEF Usable, Members, SessionInv, SessionTypeOK

LEMMA IssueNextKeeps ==
  ASSUME SessionInv, NEW w \in SessionWorkers, NEW t \in Tokens, IssueNext(w, t)
  PROVE  SessionInv'
<1>0. visit[w].pc = "issue" /\ family[visit[w].token] \in Tokens
  BY VisitTypes DEF IssueNext, SessionInv, RefreshSteps
<1> PICK f \in Tokens : f = family[visit[w].token]
  BY <1>0
<1>1. /\ visit[w].pc = "issue" /\ visit' = [visit EXCEPT ![w] = Idle] /\ Issue(t, f)
      /\ held' \subseteq held \cup {t} /\ held \subseteq held'
      /\ dropped \subseteq dropped' /\ dropped' \subseteq dropped \cup {f}
      /\ UNCHANGED <<clock, ended, overlapped>>
  BY DEF IssueNext, Leave
<1>2. /\ visit[w] # Idle /\ f \in Tokens /\ f \in issued /\ visit'[w] = Idle /\ Idle \in Visits
      /\ \A v \in SessionWorkers : v # w => visit'[v] = visit[v]
      /\ WorksOn(w, f)
  BY <1>1, VisitTypes DEF SessionInv, SessionTypeOK, Idle, Visits, WorksOn
<1>3. /\ t \notin issued /\ t \notin consumed /\ t \notin revoked /\ t \notin ended /\ t # f
      /\ issued' = issued \cup {t} /\ stored' = stored \cup {t}
      /\ UNCHANGED <<consumed, revoked>>
      /\ family' \in [Tokens -> Tokens] /\ expires' \in [Tokens -> Nat]
      /\ family'[t] = f
      /\ \A u \in Tokens : u # t => family'[u] = family[u] /\ expires'[u] = expires[u]
      /\ \A u \in Tokens : u # t => (Usable(u)' <=> Usable(u))
      /\ Usable(t)'
      /\ \A g \in Tokens : g # f => Members(g)' = Members(g)
      /\ Members(f)' = Members(f) \cup {t}
  <2>1. Issue(t, f) /\ f \in Tokens /\ f \in issued \cup {t}
    BY <1>1, <1>2
  <2>2. t \notin issued
    BY <2>1, Issued
  <2>3. t # f
    BY <1>2, <2>2
  <2> QED
    BY <2>1, <2>3, Issued
<1>4. SessionTypeOK'
  <2>1. held' \subseteq issued' /\ dropped' \subseteq Tokens
    BY <1>1, <1>2, <1>3 DEF SessionInv, SessionTypeOK
  <2> QED
    BY <1>1, <1>2, <1>3, <2>1 DEF SessionInv, SessionTypeOK
<1>5. FamiliesNamed'
  BY <1>1, <1>2, <1>3 DEF SessionInv, FamiliesNamed, SessionTypeOK
<1>6. RevokedAreEnded'
  BY <1>1, <1>3 DEF SessionInv, RevokedAreEnded, SessionTypeOK
<1>7. VisitsKnown'
  BY <1>1, <1>2 DEF SessionInv, VisitsKnown
<1>8. \A v \in SessionWorkers : visit'[v] # Idle =>
         /\ v # w /\ visit'[v] = visit[v] /\ visit[v].token \in Tokens
         /\ visit[v].token # t /\ family'[visit[v].token] = family[visit[v].token]
         /\ family[visit[v].token] \in Tokens
  BY <1>2, <1>3, VisitTypes DEF SessionInv
<1>9. \A g \in Tokens : Members(g) \subseteq Tokens \ {t}
  BY <1>3 DEF Members, SessionInv, SessionTypeOK
<1>10. f \notin overlapped => f \notin ended /\ \A u \in Members(f) : ~Usable(u)
  BY <1>1, <1>2 DEF SessionInv, VisitsInformed, Informed, Replaces
<1>11. AloneUnlessOverlapped'
  <2>1. \A v \in SessionWorkers, g \in Tokens : WorksOn(v, g)' => WorksOn(v, g)
    BY <1>8 DEF WorksOn, Idle
  <2> QED
    BY <1>1, <2>1 DEF SessionInv, AloneUnlessOverlapped
<1>12. OneUsable'
  <2> SUFFICES ASSUME NEW g \in Tokens \ overlapped, NEW u \in Members(g)', NEW v \in Members(g)',
                      Usable(u)', Usable(v)'
               PROVE  u = v
    BY <1>1 DEF OneUsable
  <2>1. CASE g = f
    <3>1. \A x \in Members(f)' : Usable(x)' => x = t
      BY <1>2, <1>3, <1>9, <1>10, <2>1
    <3> QED
      BY <2>1, <3>1
  <2>2. CASE g # f
    BY <1>3, <1>9, <2>2 DEF SessionInv, OneUsable
  <2> QED
    BY <2>1, <2>2
<1>13. EndedStaysEnded'
  <2> SUFFICES ASSUME NEW g \in ended \ overlapped, NEW u \in Members(g)'
               PROVE  ~Usable(u)'
    BY <1>1 DEF EndedStaysEnded
  <2>1. g # f /\ g \in Tokens
    BY <1>10 DEF SessionInv, SessionTypeOK
  <2>2. u \in Members(g) /\ u \in Tokens /\ u # t
    BY <1>3, <1>9, <2>1
  <2> QED
    BY <1>3, <2>2 DEF SessionInv, EndedStaysEnded
<1>14. NextOrLost'
  <2> SUFFICES ASSUME NEW g \in Families', g \notin ended, g \notin dropped'
               PROVE  HasNext(g)'
    BY <1>1 DEF NextOrLost
  <2>1. g \in Families /\ g \in Tokens /\ g \notin dropped
    <3>1. g \in issued' /\ family'[g] = g
      BY DEF Families
    <3>2. g \in issued /\ g # t
      BY <1>3, <3>1
    <3>3. g \in Tokens
      BY <3>2 DEF SessionInv, SessionTypeOK
    <3>4. family[g] = g
      BY <1>3, <3>1, <3>2, <3>3
    <3> QED
      BY <1>1, <3>2, <3>3, <3>4 DEF Families
  <2>2. CASE g = f
    BY <1>3, <2>2 DEF HasNext
  <2>3. CASE g # f
    <3>1. HasNext(g)
      BY <2>1 DEF SessionInv, NextOrLost
    <3>2. CASE \E u \in Members(g) : Usable(u)
      BY <1>3, <1>9, <2>1, <2>3, <3>2 DEF HasNext
    <3>3. CASE \E u \in Members(g) \ (stored \cup consumed) : expires[u] < clock
      <4> PICK u \in Members(g) \ (stored \cup consumed) : expires[u] < clock
        BY <3>3
      <4>1. u \in Members(g)' /\ u # t /\ u \in Tokens
        BY <1>3, <1>9, <2>1, <2>3
      <4>2. u \notin stored' \cup consumed' /\ expires'[u] < clock'
        BY <1>1, <1>3, <4>1
      <4> QED
        BY <4>1, <4>2 DEF HasNext
    <3>4. CASE \E v \in SessionWorkers : visit[v].pc = "issue" /\ family[visit[v].token] = g
      <4> PICK v \in SessionWorkers : visit[v].pc = "issue" /\ family[visit[v].token] = g
        BY <3>4
      <4>1. v # w
        BY <2>3
      <4>2. visit'[v] = visit[v] /\ visit'[v] # Idle
        BY <1>2, <4>1 DEF Idle
      <4>3. family'[visit'[v].token] = g
        BY <1>8, <4>2
      <4> QED
        BY <4>2, <4>3 DEF HasNext
    <3> QED
      BY <3>1, <3>2, <3>3, <3>4 DEF HasNext
  <2> QED
    BY <2>2, <2>3
<1>15. VisitsInformed'
  <2> SUFFICES ASSUME NEW v \in SessionWorkers, visit'[v] # Idle,
                      family'[visit'[v].token] \notin overlapped
               PROVE  Informed(v)'
    BY <1>1 DEF VisitsInformed, Idle
  <2>0. visit[v].token \in Tokens /\ family[visit[v].token] \in Tokens
    BY <1>8
  <2> PICK x \in Tokens, g \in Tokens : x = visit[v].token /\ g = family[x]
    BY <2>0
  <2>1. /\ v # w /\ visit'[v] = visit[v] /\ x \in Tokens /\ x # t
        /\ family'[x] = g /\ expires'[x] = expires[x] /\ g \in Tokens
    BY <1>3, <1>8
  <2>2. Informed(v)
    BY <2>1 DEF SessionInv, VisitsInformed
  <2>3. g # f
    BY <1>2, <2>1 DEF SessionInv, AloneUnlessOverlapped, WorksOn
  <2>4. Members(g)' = Members(g) /\ \A u \in Members(g) : Usable(u)' <=> Usable(u)
    BY <1>3, <1>9, <2>1, <2>3
  <2>5. IsLive(x)' => IsLive(x)
    BY <1>1, <1>3, <2>1 DEF IsLive
  <2>6. LookedUp(v)' /\ FoundDead(v)' /\ FoundExpired(v)' /\ Succeeds(v)'
    BY <1>1, <2>1, <2>2, <2>5 DEF Informed, LookedUp, FoundDead, FoundExpired, Succeeds
  <2>7. FoundFresh(v)' /\ Replaces(v)'
    BY <1>1, <1>3, <2>1, <2>2, <2>4 DEF Informed, FoundFresh, Replaces
  <2> QED
    BY <2>6, <2>7 DEF Informed
<1> QED
  BY <1>4, <1>5, <1>6, <1>7, <1>11, <1>12, <1>13, <1>14, <1>15 DEF SessionInv

LEMMA LoginKeeps ==
  ASSUME SessionInv, NEW t \in Tokens, Login(t)
  PROVE  SessionInv'
<1>1. /\ Issue(t, t) /\ held' \subseteq held \cup {t} /\ held \subseteq held'
      /\ UNCHANGED <<clock, visit, ended, overlapped, dropped>>
  BY DEF Login, sessionHistory
<1>2. /\ t \notin issued /\ t \notin consumed /\ t \notin revoked /\ t \notin ended
      /\ issued' = issued \cup {t} /\ stored' = stored \cup {t}
      /\ UNCHANGED <<consumed, revoked>>
      /\ family' \in [Tokens -> Tokens] /\ expires' \in [Tokens -> Nat]
      /\ family'[t] = t
      /\ \A u \in Tokens : u # t => family'[u] = family[u] /\ expires'[u] = expires[u]
      /\ \A u \in Tokens : u # t => (Usable(u)' <=> Usable(u))
      /\ Usable(t)'
      /\ \A g \in Tokens : g # t => Members(g)' = Members(g)
      /\ Members(t)' = Members(t) \cup {t}
  BY <1>1, Issued
<1>3. Members(t) = {}
  BY <1>2 DEF Members, SessionInv, FamiliesNamed
<1>4. SessionTypeOK'
  <2>1. held' \subseteq issued'
    BY <1>1, <1>2 DEF SessionInv, SessionTypeOK
  <2> QED
    BY <1>1, <1>2, <2>1 DEF SessionInv, SessionTypeOK
<1>5. FamiliesNamed'
  BY <1>1, <1>2 DEF SessionInv, FamiliesNamed, SessionTypeOK
<1>6. RevokedAreEnded'
  BY <1>1, <1>2 DEF SessionInv, RevokedAreEnded, SessionTypeOK
<1>7. VisitsKnown'
  BY <1>1 DEF SessionInv, VisitsKnown
<1>8. \A v \in SessionWorkers : visit[v] # Idle =>
         /\ visit[v].token \in Tokens /\ visit[v].token # t
         /\ family'[visit[v].token] = family[visit[v].token]
         /\ family[visit[v].token] \in Tokens /\ family[visit[v].token] # t
  BY <1>2, VisitTypes DEF SessionInv
<1>9. \A g \in Tokens : Members(g) \subseteq Tokens \ {t}
  BY <1>2 DEF Members, SessionInv, SessionTypeOK
<1>10. AloneUnlessOverlapped'
  <2>1. \A v \in SessionWorkers, g \in Tokens : WorksOn(v, g)' => WorksOn(v, g)
    BY <1>1, <1>8 DEF WorksOn, Idle
  <2> QED
    BY <1>1, <2>1 DEF SessionInv, AloneUnlessOverlapped
<1>11. OneUsable'
  <2> SUFFICES ASSUME NEW g \in Tokens \ overlapped, NEW u \in Members(g)', NEW v \in Members(g)',
                      Usable(u)', Usable(v)'
               PROVE  u = v
    BY <1>1 DEF OneUsable
  <2>1. CASE g = t
    BY <1>2, <1>3, <2>1
  <2>2. CASE g # t
    BY <1>2, <1>9, <2>2 DEF SessionInv, OneUsable
  <2> QED
    BY <2>1, <2>2
<1>12. EndedStaysEnded'
  <2> SUFFICES ASSUME NEW g \in ended \ overlapped, NEW u \in Members(g)'
               PROVE  ~Usable(u)'
    BY <1>1 DEF EndedStaysEnded
  <2>1. g # t /\ g \in Tokens
    BY <1>2 DEF SessionInv, SessionTypeOK
  <2>2. u \in Members(g) /\ u \in Tokens /\ u # t
    BY <1>2, <1>9, <2>1
  <2> QED
    BY <1>2, <2>2 DEF SessionInv, EndedStaysEnded
<1>13. NextOrLost'
  <2> SUFFICES ASSUME NEW g \in Families', g \notin ended, g \notin dropped
               PROVE  HasNext(g)'
    BY <1>1 DEF NextOrLost
  <2>1. CASE g = t
    BY <1>2, <2>1 DEF HasNext
  <2>2. CASE g # t
    <3>1. g \in issued' /\ family'[g] = g
      BY DEF Families
    <3>2. g \in issued /\ g \in Tokens
      BY <1>2, <2>2, <3>1 DEF SessionInv, SessionTypeOK
    <3>3. g \in Families
      BY <1>2, <2>2, <3>1, <3>2 DEF Families
    <3>4. HasNext(g)
      BY <3>3 DEF SessionInv, NextOrLost
    <3>5. CASE \E u \in Members(g) : Usable(u)
      BY <1>2, <1>9, <2>2, <3>2, <3>5 DEF HasNext
    <3>6. CASE \E u \in Members(g) \ (stored \cup consumed) : expires[u] < clock
      <4> PICK u \in Members(g) \ (stored \cup consumed) : expires[u] < clock
        BY <3>6
      <4>1. u \in Members(g)' /\ u # t /\ u \in Tokens
        BY <1>2, <1>9, <2>2, <3>2
      <4>2. u \notin stored' \cup consumed' /\ expires'[u] < clock'
        BY <1>1, <1>2, <4>1
      <4> QED
        BY <4>1, <4>2 DEF HasNext
    <3>7. CASE \E v \in SessionWorkers : visit[v].pc = "issue" /\ family[visit[v].token] = g
      <4> PICK v \in SessionWorkers : visit[v].pc = "issue" /\ family[visit[v].token] = g
        BY <3>7
      <4>1. visit[v] # Idle
        BY DEF Idle
      <4> QED
        BY <1>1, <1>8, <4>1 DEF HasNext
    <3> QED
      BY <3>4, <3>5, <3>6, <3>7 DEF HasNext
  <2> QED
    BY <2>1, <2>2
<1>14. VisitsInformed'
  <2> SUFFICES ASSUME NEW v \in SessionWorkers, visit[v] # Idle,
                      family'[visit[v].token] \notin overlapped
               PROVE  Informed(v)'
    BY <1>1 DEF VisitsInformed, Idle
  <2>0. visit[v].token \in Tokens /\ family[visit[v].token] \in Tokens
    BY <1>8
  <2> PICK x \in Tokens, g \in Tokens : x = visit[v].token /\ g = family[x]
    BY <2>0
  <2>1. /\ x \in Tokens /\ x # t /\ family'[x] = g /\ expires'[x] = expires[x]
        /\ g \in Tokens /\ g # t
    BY <1>2, <1>8
  <2>2. Informed(v)
    BY <2>1 DEF SessionInv, VisitsInformed
  <2>3. Members(g)' = Members(g) /\ \A u \in Members(g) : Usable(u)' <=> Usable(u)
    BY <1>2, <1>9, <2>1
  <2>4. IsLive(x)' => IsLive(x)
    BY <1>1, <1>2, <2>1 DEF IsLive
  <2>5. LookedUp(v)' /\ FoundDead(v)' /\ FoundExpired(v)' /\ Succeeds(v)'
    BY <1>1, <2>1, <2>2, <2>4 DEF Informed, LookedUp, FoundDead, FoundExpired, Succeeds
  <2>6. FoundFresh(v)' /\ Replaces(v)'
    BY <1>1, <1>2, <2>1, <2>2, <2>3 DEF Informed, FoundFresh, Replaces
  <2> QED
    BY <2>5, <2>6 DEF Informed
<1> QED
  BY <1>4, <1>5, <1>6, <1>7, <1>10, <1>11, <1>12, <1>13, <1>14 DEF SessionInv

LEMMA SessionInvInit == ASSUME SessionInit PROVE SessionInv
<1>1. /\ clock = 0 /\ issued = {} /\ stored = {} /\ consumed = {} /\ revoked = {} /\ held = {}
      /\ family = [t \in Tokens |-> t] /\ expires = [t \in Tokens |-> 0]
      /\ visit = [w \in SessionWorkers |-> Idle]
      /\ ended = {} /\ overlapped = {} /\ dropped = {}
  BY DEF SessionInit
<1>2. SessionTypeOK
  BY <1>1 DEF SessionTypeOK, Visits
<1>3. /\ FamiliesNamed /\ VisitsKnown /\ RevokedAreEnded /\ NextOrLost
      /\ OneUsable /\ EndedStaysEnded
  BY <1>1 DEF FamiliesNamed, VisitsKnown, RevokedAreEnded, NextOrLost, Families, OneUsable,
              EndedStaysEnded, Members
<1>4. AloneUnlessOverlapped /\ VisitsInformed
  BY <1>1 DEF AloneUnlessOverlapped, WorksOn, VisitsInformed
<1> QED
  BY <1>2, <1>3, <1>4 DEF SessionInv

LEMMA SessionStepKeeps ==
  ASSUME SessionInv, [SessionNext]_sessionVars
  PROVE  SessionInv'
<1>1. CASE \E t \in Tokens : Login(t)
  BY <1>1, LoginKeeps
<1>2. CASE \E w \in SessionWorkers, t \in Tokens : Refresh(w, t) \/ Logout(w, t)
  BY <1>2, BeginKeeps DEF Refresh, Logout
<1>3. CASE \E w \in SessionWorkers : Visit(w)
  BY <1>3, LookKeeps, LookFamilyKeeps, GetKeeps, GetFamilyKeeps, ReuseKeeps, ConsumeKeeps,
     IssueNextKeeps, FindKeeps, EndKeeps DEF Visit
<1>4. CASE \E w \in SessionWorkers : CutOff(w)
  BY <1>4, CutOffKeeps
<1>5. CASE Sweep
  BY <1>5, SweepKeeps
<1>6. CASE SessionTick
  BY <1>6, SessionTickKeeps
<1>7. CASE UNCHANGED sessionVars
  <2>1. UNCHANGED <<clock, issued, family, expires, stored, consumed, revoked, held, visit,
                    ended, overlapped, dropped>>
    BY <1>7 DEF sessionVars, sessionRows, sessionHistory
  <2>2. SessionTypeOK' /\ FamiliesNamed' /\ VisitsKnown' /\ RevokedAreEnded' /\ NextOrLost'
    BY <2>1 DEF SessionInv, SessionTypeOK, FamiliesNamed, VisitsKnown, RevokedAreEnded,
          NextOrLost, Families, HasNext, Usable, Members
  <2>3. AloneUnlessOverlapped' /\ OneUsable' /\ EndedStaysEnded'
    BY <2>1 DEF SessionInv, AloneUnlessOverlapped, WorksOn, OneUsable, EndedStaysEnded,
          Usable, Members
  <2>4. VisitsInformed'
    BY <2>1 DEF SessionInv, VisitsInformed, Informed, LookedUp, FoundDead, FoundFresh,
          FoundExpired, Replaces, Succeeds, IsLive, Usable, Members
  <2> QED
    BY <2>2, <2>3, <2>4 DEF SessionInv
<1> QED
  BY <1>1, <1>2, <1>3, <1>4, <1>5, <1>6, <1>7 DEF SessionNext

LEMMA SessionInvHolds == SessionSpec => []SessionInv
<1>1. SessionInit => SessionInv
  BY SessionInvInit
<1>2. SessionInv /\ [SessionNext]_sessionVars => SessionInv'
  BY SessionStepKeeps
<1> QED
  BY <1>1, <1>2, PTL DEF SessionSpec

\* However many sessions and requests there are, rotation and pruning leave a
\* session one usable token and never two, unless two requests worked on it
\* at once (rotate, prune).
THEOREM SessionsKeepTheirToken == SessionSpec => []OneTokenPerSession
<1>1. SessionInv => OneTokenPerSession
  BY DEF SessionInv, OneUsable, NextOrLost, HasNext, OneTokenPerSession
<1> QED
  BY <1>1, SessionInvHolds, PTL

\* A session that was ended stays ended (revoke_family, is_family_revoked).
THEOREM EndedForGood == SessionSpec => []EndedStaysEnded
<1>1. SessionInv => EndedStaysEnded
  BY DEF SessionInv
<1> QED
  BY <1>1, SessionInvHolds, PTL

\* What is rotated is answered (refresh).
THEOREM RotationIsAnswered == SessionSpec => []RotatedIsAnswered
<1>1. SessionInv => RotatedIsAnswered
  <2> SUFFICES ASSUME SessionInv, NEW w \in SessionWorkers,
                      visit[w].pc \in {"consume", "issue"},
                      family[visit[w].token] \notin overlapped
               PROVE  visit[w].subject = TRUE
    BY DEF RotatedIsAnswered
  <2>1. visit[w] # Idle
    BY DEF Idle
  <2> QED
    BY <2>1 DEF SessionInv, VisitsInformed, Informed, Succeeds
<1> QED
  BY <1>1, SessionInvHolds, PTL

-----------------------------------------------------------------------------
(***************************************************************************)
(* The creations with a key. As long as nothing excuses a second one, no   *)
(* two requests with a key are in flight; a request that has inserted the  *)
(* incident is about to store, or a process knows the key.                 *)
(***************************************************************************)
With(r, k) == posts[r] # NoPost /\ posts[r].key = k
StoringWith(k)  == \E r \in Posts : With(r, k) /\ posts[r].pc = "storing"
CreatingWith(k) == \E r \in Posts : With(r, k) /\ posts[r].pc = "creating"
KnownAnywhere(k) == \E s \in Servers : k \in Known(s)

OneInFlight(k) == \A q, r \in Posts : With(q, k) /\ With(r, k) => q = r
OneMade(k) ==
    \/ made[k] = 0 /\ ~ StoringWith(k) /\ ~ KnownAnywhere(k)
    \/ made[k] = 1 /\ ~ CreatingWith(k) /\ (StoringWith(k) \/ KnownAnywhere(k))

CreationInv ==
    /\ IdemTypeOK
    /\ \A k \in IdemKeys \ excused : OneInFlight(k) /\ OneMade(k)

\* The keys of a process are those used last, each once, in this order; a key
\* that is not among them was used before all of them.
Distinct(keys) == \A i, j \in DOMAIN keys : keys[i] = keys[j] => i = j
After(keys, i) == {keys[j] : j \in i + 1 .. Len(keys)}
LastUsed(keys, used) ==
    /\ Distinct(keys)
    /\ ToSet(keys) \subseteq ToSet(used)
    /\ \A i \in DOMAIN keys : UsedSince(used, keys[i]) = After(keys, i)
    /\ \A k \in ToSet(used) \ ToSet(keys) :
          ToSet(keys) \subseteq UsedSince(used, k) /\ Len(keys) >= IdemCapacity

RecentInv ==
    /\ IdemTypeOK
    /\ \A s \in Servers : /\ LastUsed(remembered[s], uses[s])
                          /\ Len(remembered[s]) <= IdemCapacity

\* Moving a key to the end leaves the others where they are.
LEMMA PlaceOf ==
  ASSUME NEW keys \in Seq(IdemKeys), NEW k \in ToSet(keys)
  PROVE  Place(keys, k) \in 1 .. Len(keys) /\ keys[Place(keys, k)] = k
BY DEF Place, ToSet

LEMMA Joined ==
  ASSUME NEW a \in Seq(IdemKeys), NEW b \in Seq(IdemKeys)
  PROVE  /\ a \o b \in Seq(IdemKeys) /\ Len(a \o b) = Len(a) + Len(b)
         /\ \A i \in 1 .. Len(a) : (a \o b)[i] = a[i]
         /\ \A i \in 1 .. Len(b) : (a \o b)[i + Len(a)] = b[i]
OBVIOUS

LEMMA Moving ==
  ASSUME NEW keys \in Seq(IdemKeys), NEW k \in IdemKeys, k \in ToSet(keys),
         NEW p, p = Place(keys, k)
  PROVE  /\ Moved(keys, k) \in Seq(IdemKeys)
         /\ Len(Moved(keys, k)) = Len(keys)
         /\ \A i \in 1 .. Len(keys) :
               Moved(keys, k)[i] = IF i = Len(keys) THEN k
                                   ELSE IF i < p THEN keys[i] ELSE keys[i + 1]
<1> DEFINE a == SubSeq(keys, 1, p - 1)
           b == SubSeq(keys, p + 1, Len(keys))
<1>1. p \in 1 .. Len(keys) /\ keys[p] = k /\ Len(keys) \in Nat
  BY PlaceOf
<1>2. Moved(keys, k) = Append(a \o b, k)
  BY DEF Moved, RemoveAt
<1>3. a \in Seq(IdemKeys) /\ Len(a) = p - 1 /\ \A i \in 1 .. p - 1 : a[i] = keys[i]
  BY <1>1
<1>4. /\ b \in Seq(IdemKeys) /\ Len(b) = Len(keys) - p
      /\ \A i \in 1 .. Len(keys) - p : b[i] = keys[i + p]
  BY <1>1
<1> HIDE DEF a, b
<1>5. /\ a \o b \in Seq(IdemKeys) /\ Len(a \o b) = (p - 1) + (Len(keys) - p)
      /\ \A i \in 1 .. p - 1 : (a \o b)[i] = a[i]
      /\ \A i \in 1 .. Len(keys) - p : (a \o b)[i + (p - 1)] = b[i]
  <2> DEFINE x == p - 1
             y == Len(keys) - p
  <2>1. x \in Nat /\ y \in Nat
    BY <1>1
  <2>2. a \in Seq(IdemKeys) /\ b \in Seq(IdemKeys) /\ Len(a) = x /\ Len(b) = y
    BY <1>3, <1>4
  <2> HIDE DEF x, y
  <2>3. /\ a \o b \in Seq(IdemKeys) /\ Len(a \o b) = x + y
        /\ \A i \in 1 .. x : (a \o b)[i] = a[i]
        /\ \A i \in 1 .. y : (a \o b)[i + x] = b[i]
    <3>1. /\ a \o b \in Seq(IdemKeys) /\ Len(a \o b) = Len(a) + Len(b)
          /\ \A i \in 1 .. Len(a) : (a \o b)[i] = a[i]
          /\ \A i \in 1 .. Len(b) : (a \o b)[i + Len(a)] = b[i]
      BY <2>2, Joined
    <3> QED
      BY <3>1, <2>2
  <2> QED
    BY <2>3 DEF x, y
<1>6. Len(a \o b) = Len(keys) - 1
  BY <1>1, <1>5
<1>11. ASSUME NEW i \in 1 .. Len(keys) - 1
       PROVE  (a \o b)[i] = IF i < p THEN keys[i] ELSE keys[i + 1]
  <2> DEFINE c == a \o b
  <2> HIDE DEF c
  <2>1. CASE i < p
    <3>1. i \in 1 .. p - 1
      BY <2>1, <1>1
    <3> QED
      BY <2>1, <3>1, <1>3, <1>5
  <2>2. CASE ~ (i < p)
    <3>1. PICK h \in 1 .. Len(keys) - p : i = h + (p - 1) /\ i + 1 = h + p
      <4> DEFINE h == i - (p - 1)
      <4>1. h \in 1 .. Len(keys) - p
        BY <2>2, <1>1
      <4>2. i = h + (p - 1)
        BY <1>1
      <4>3. i + 1 = h + p
        BY <1>1
      <4> HIDE DEF h
      <4> QED
        BY <4>1, <4>2, <4>3
    <3> QED
      BY <2>2, <3>1, <1>4, <1>5
  <2> QED
    BY <2>1, <2>2
<1>7. (a \o b) \in Seq(IdemKeys) /\ Len(a \o b) \in Nat
  BY <1>1, <1>5, <1>6
<1> DEFINE c == a \o b
<1> HIDE DEF c
<1>8. /\ Append(c, k) \in Seq(IdemKeys) /\ Len(Append(c, k)) = Len(c) + 1
      /\ \A i \in 1 .. Len(c) : Append(c, k)[i] = c[i]
      /\ Append(c, k)[Len(c) + 1] = k
  BY <1>7 DEF c
<1>9. /\ Moved(keys, k) = Append(c, k) /\ Len(c) = Len(keys) - 1
      /\ \A i \in 1 .. Len(keys) - 1 : c[i] = IF i < p THEN keys[i] ELSE keys[i + 1]
  BY <1>2, <1>6, <1>11 DEF c
<1>10. /\ Moved(keys, k) \in Seq(IdemKeys) /\ Len(Moved(keys, k)) = Len(keys)
       /\ Moved(keys, k)[Len(keys)] = k
       /\ \A i \in 1 .. Len(keys) - 1 : Moved(keys, k)[i] = c[i]
  BY <1>1, <1>8, <1>9
<1> QED
  BY <1>1, <1>9, <1>10

LEMMA Adding ==
  ASSUME NEW keys \in Seq(IdemKeys), NEW k \in IdemKeys, k \notin ToSet(keys)
  PROVE  Moved(keys, k) = Append(keys, k)
BY DEF Moved

LEMMA MovedKeys ==
  ASSUME NEW keys \in Seq(IdemKeys), NEW k \in IdemKeys
  PROVE  /\ Moved(keys, k) \in Seq(IdemKeys)
         /\ Len(Moved(keys, k)) = IF k \in ToSet(keys) THEN Len(keys) ELSE Len(keys) + 1
         /\ ToSet(Moved(keys, k)) = ToSet(keys) \cup {k}
         /\ Len(Moved(keys, k)) >= 1
         /\ Moved(keys, k)[Len(Moved(keys, k))] = k
<1>1. CASE k \notin ToSet(keys)
  <2> DEFINE m == Append(keys, k)
  <2>1. Moved(keys, k) = m
    BY <1>1, Adding
  <2>2. /\ m \in Seq(IdemKeys) /\ Len(m) = Len(keys) + 1 /\ Len(keys) \in Nat
        /\ \A i \in 1 .. Len(keys) : m[i] = keys[i]
        /\ m[Len(keys) + 1] = k
    OBVIOUS
  <2> HIDE DEF m
  <2>3. ToSet(m) = ToSet(keys) \cup {k}
    <3>1. DOMAIN m = 1 .. Len(keys) + 1 /\ DOMAIN keys = 1 .. Len(keys)
      BY <2>2
    <3>2. DOMAIN m = DOMAIN keys \cup {Len(keys) + 1}
      BY <3>1, <2>2
    <3> QED
      BY <3>1, <3>2, <2>2 DEF ToSet
  <2> QED
    BY <1>1, <2>1, <2>2, <2>3
<1>2. CASE k \in ToSet(keys)
  <2> DEFINE p == Place(keys, k)
             m == Moved(keys, k)
  <2>1. p \in 1 .. Len(keys) /\ keys[p] = k /\ Len(keys) \in Nat
    BY <1>2, PlaceOf
  <2>2. /\ m \in Seq(IdemKeys) /\ Len(m) = Len(keys)
        /\ \A i \in 1 .. Len(keys) : m[i] = IF i = Len(keys) THEN k
                                   ELSE IF i < p THEN keys[i] ELSE keys[i + 1]
    BY <1>2, Moving
  <2> HIDE DEF p, m
  <2>3. m[Len(m)] = k /\ Len(m) >= 1
    BY <2>1, <2>2
  <2>4. ToSet(m) \subseteq ToSet(keys)
    BY <2>1, <2>2, <1>2 DEF ToSet
  <2>5. ASSUME NEW i \in 1 .. Len(keys)
        PROVE  \E j \in 1 .. Len(keys) : m[j] = keys[i]
    <3>1. CASE i < p
      BY <3>1, <2>1, <2>2
    <3>2. CASE i = p
      BY <3>2, <2>1, <2>2
    <3>3. CASE i > p
      <4>1. i - 1 \in 1 .. Len(keys) /\ i - 1 # Len(keys) /\ ~ (i - 1 < p) /\ (i - 1) + 1 = i
        BY <3>3, <2>1
      <4> QED
        BY <4>1, <2>2
    <3> QED
      BY <3>1, <3>2, <3>3, <2>1
  <2>6. ToSet(keys) \subseteq ToSet(m)
    <3> SUFFICES ASSUME NEW x \in ToSet(keys)
                 PROVE  x \in ToSet(m)
      OBVIOUS
    <3>1. PICK i \in 1 .. Len(keys) : x = keys[i]
      BY DEF ToSet
    <3>2. PICK j \in 1 .. Len(keys) : m[j] = x
      BY <2>5, <3>1
    <3>3. j \in DOMAIN m
      BY <2>2
    <3> QED
      BY <3>2, <3>3 DEF ToSet
  <2> QED
    BY <1>2, <2>2, <2>3, <2>4, <2>6 DEF m
<1> QED
  BY <1>1, <1>2

\* The end of a list.
LastKept(keys, n) == SubSeq(keys, Len(keys) - n + 1, Len(keys))
LEMMA LastKeys ==
  ASSUME NEW keys \in Seq(IdemKeys), NEW n \in Nat, n <= Len(keys), n >= 1
  PROVE  /\ LastKept(keys, n) \in Seq(IdemKeys)
         /\ Len(LastKept(keys, n)) = n
         /\ \A i \in 1 .. n : LastKept(keys, n)[i] = keys[i + (Len(keys) - n)]
BY DEF LastKept

LEMMA TouchKeys ==
  ASSUME NEW keys \in Seq(IdemKeys), NEW k \in IdemKeys
  PROVE  /\ Touch(keys, k) \in Seq(IdemKeys)
         /\ ToSet(Touch(keys, k)) = ToSet(keys) \cup {k}
         /\ k \in ToSet(keys) => Len(Touch(keys, k)) = Len(keys)
<1>1. Touch(keys, k) = Moved(keys, k)
  BY DEF Touch
<1> QED
  BY <1>1, MovedKeys

LEMMA PutKeys ==
  ASSUME NEW keys \in Seq(IdemKeys), NEW k \in IdemKeys
  PROVE  /\ Put(keys, k) \in Seq(IdemKeys)
         /\ Len(Put(keys, k)) <= IdemCapacity
         /\ ToSet(Put(keys, k)) \subseteq ToSet(keys) \cup {k}
         /\ k \in ToSet(Put(keys, k))
<1> DEFINE m == Moved(keys, k)
<1>1. /\ m \in Seq(IdemKeys) /\ Len(m) \in Nat /\ Len(m) >= 1 /\ m[Len(m)] = k
      /\ ToSet(m) = ToSet(keys) \cup {k} /\ DOMAIN m = 1 .. Len(m)
  BY MovedKeys
<1>2. Put(keys, k) = IF Len(m) > IdemCapacity THEN LastKept(m, IdemCapacity) ELSE m
  BY DEF Put, LastKept
<1> HIDE DEF m
<1>3. IdemCapacity \in Nat \ {0}
  BY IdemAssumption
<1>4. CASE ~ (Len(m) > IdemCapacity)
  <2>1. Put(keys, k) = m /\ Len(m) <= IdemCapacity
    BY <1>1, <1>2, <1>3, <1>4
  <2> QED
    BY <1>1, <2>1
<1>5. CASE Len(m) > IdemCapacity
  <2> DEFINE l == LastKept(m, IdemCapacity)
  <2>1. /\ l \in Seq(IdemKeys) /\ Len(l) = IdemCapacity /\ DOMAIN l = 1 .. IdemCapacity
        /\ \A i \in 1 .. IdemCapacity : l[i] = m[i + (Len(m) - IdemCapacity)]
    <3>1. IdemCapacity \in Nat /\ IdemCapacity <= Len(m) /\ IdemCapacity >= 1
      BY <1>1, <1>3, <1>5
    <3>2. /\ l \in Seq(IdemKeys) /\ Len(l) = IdemCapacity
          /\ \A i \in 1 .. IdemCapacity : l[i] = m[i + (Len(m) - IdemCapacity)]
      BY <1>1, <3>1, LastKeys
    <3> HIDE DEF l
    <3> QED
      BY <3>2
  <2>5. Put(keys, k) = l
    BY <1>2, <1>5
  <2> HIDE DEF l
  <2>2. \A i \in 1 .. IdemCapacity : i + (Len(m) - IdemCapacity) \in 1 .. Len(m)
    BY <1>1, <1>3, <1>5
  <2>3. ToSet(l) \subseteq ToSet(m)
    BY <1>1, <2>1, <2>2 DEF ToSet
  <2>4. l[IdemCapacity] = k /\ IdemCapacity \in DOMAIN l
    BY <1>1, <1>3, <2>1
  <2> QED
    <3>1. k \in ToSet(l)
      BY <2>4 DEF ToSet
    <3>2. IdemCapacity <= IdemCapacity
      BY <1>3
    <3> QED
      BY <1>1, <2>1, <2>3, <2>5, <3>1, <3>2
<1> QED
  BY <1>4, <1>5

\* The keys used since the last use of j, after a use of k.
LEMMA UsedNow ==
  ASSUME NEW used \in Seq(IdemKeys), NEW k \in IdemKeys, NEW j \in IdemKeys
  PROVE  UsedSince(Append(used, k), j) =
            IF j = k THEN {} ELSE UsedSince(used, j) \cup {k}
<1> DEFINE u == Append(used, k)
           n == Len(used)
<1>1. /\ n \in Nat /\ u \in Seq(IdemKeys) /\ Len(u) = n + 1 /\ u[n + 1] = k
      /\ \A i \in 1 .. n : u[i] = used[i]
      /\ DOMAIN u = 1 .. n + 1 /\ DOMAIN used = 1 .. n
  OBVIOUS
<1> HIDE DEF u, n
<1>2. ASSUME j = k PROVE UsedSince(u, j) = {}
  <2>1. \A i \in DOMAIN u : n + 1 \in i .. Len(u)
    BY <1>1
  <2> QED
    BY <1>1, <1>2, <2>1 DEF UsedSince
<1>3. ASSUME j # k PROVE UsedSince(u, j) = UsedSince(used, j) \cup {k}
  <2> DEFINE Since(seq, i) == \A h \in i .. Len(seq) : seq[h] # j
  <2>1. ASSUME NEW i \in 1 .. n PROVE Since(u, i) <=> Since(used, i)
    <3>1. i .. Len(u) = (i .. Len(used)) \cup {n + 1}
      BY <1>1 DEF n
    <3>2. \A h \in i .. Len(used) : h \in 1 .. n
      BY <1>1 DEF n
    <3> QED
      BY <3>1, <3>2, <1>1, <1>3
  <2>2. Since(u, n + 1)
    <3>1. (n + 1) .. Len(u) = {n + 1}
      BY <1>1
    <3> QED
      BY <3>1, <1>1, <1>3
  <2> HIDE DEF Since
  <2>3. UsedSince(u, j) = {u[i] : i \in {h \in DOMAIN u : Since(u, h)}}
    BY DEF UsedSince, Since
  <2>4. UsedSince(used, j) = {used[i] : i \in {h \in DOMAIN used : Since(used, h)}}
    BY DEF UsedSince, Since
  <2>5. {h \in DOMAIN u : Since(u, h)} = {h \in DOMAIN used : Since(used, h)} \cup {n + 1}
    <3>1. DOMAIN u = DOMAIN used \cup {n + 1}
      BY <1>1
    <3> QED
      BY <3>1, <1>1, <2>1, <2>2
  <2>6. \A i \in {h \in DOMAIN used : Since(used, h)} : u[i] = used[i]
    BY <1>1
  <2> QED
    BY <1>1, <2>3, <2>4, <2>5, <2>6
<1> QED
  BY <1>2, <1>3 DEF u

\* The entries of a list at some places.
LEMMA EntriesAreFinite ==
  ASSUME NEW s, NEW D, IsFiniteSet(D)
  PROVE  /\ IsFiniteSet({s[i] : i \in D})
         /\ Cardinality({s[i] : i \in D}) <= Cardinality(D)
         /\ (\A i, j \in D : s[i] = s[j] => i = j) =>
               Cardinality({s[i] : i \in D}) = Cardinality(D)
<1> DEFINE T == {s[i] : i \in D}
           f == [i \in D |-> s[i]]
<1>1. f \in Surjection(D, T)
  BY DEF Surjection
<1>2. (\A i, j \in D : s[i] = s[j] => i = j) => f \in Injection(D, T)
  BY DEF Injection, IsInjective
<1> HIDE DEF f, T
<1>3. /\ IsFiniteSet(T) /\ Cardinality(T) <= Cardinality(D)
      /\ Cardinality(T) = Cardinality(D) <=> f \in Injection(D, T)
  BY <1>1, FS_Surjection
<1> QED
  BY <1>2, <1>3 DEF T

LEMMA UsedIsFinite ==
  ASSUME NEW used \in Seq(IdemKeys), NEW k
  PROVE  IsFiniteSet(UsedSince(used, k)) /\ UsedSince(used, k) \subseteq ToSet(used)
<1> DEFINE D == {j \in DOMAIN used : \A h \in j .. Len(used) : used[h] # k}
<1>1. IsFiniteSet(DOMAIN used)
  BY FS_Interval DEF ToSet
<1>2. IsFiniteSet(D)
  BY <1>1, FS_Subset
<1>3. IsFiniteSet({used[i] : i \in D})
  BY <1>2, EntriesAreFinite
<1> QED
  BY <1>3 DEF UsedSince, ToSet

LEMMA IdemTypes ==
  ASSUME IdemTypeOK
  PROVE  /\ \A s \in Servers : remembered[s] \in Seq(IdemKeys) /\ uses[s] \in Seq(IdemKeys)
         /\ \A r \in Posts : posts[r] = NoPost \/ posts[r] \in InFlight
         /\ \A k \in IdemKeys : made[k] \in Nat
BY DEF IdemTypeOK

LEMMA PostsDiffer ==
  ASSUME NEW p \in InFlight
  PROVE  /\ p # NoPost /\ p.key \in IdemKeys /\ p.server \in Servers
         /\ p.pc \in {"creating", "storing"}
         /\ p = [pc |-> p.pc, server |-> p.server, key |-> p.key]
BY DEF InFlight, NoPost

LEMMA IdemTypeInit == ASSUME IdemInit PROVE IdemTypeOK
<1>1. << >> \in Seq(IdemKeys)
  OBVIOUS
<1> QED
  BY <1>1 DEF IdemInit, IdemTypeOK

LEMMA IdemTypeKeeps == ASSUME IdemTypeOK, [IdemNext]_idemVars PROVE IdemTypeOK'
<1>1. ASSUME NEW r \in Posts, NEW s \in Servers, NEW k \in IdemKeys, CreateWithKey(r, s, k)
      PROVE  IdemTypeOK'
  <2>3. remembered[s] \in Seq(IdemKeys) /\ uses[s] \in Seq(IdemKeys)
    BY IdemTypes
  <2>1. /\ Touch(remembered[s], k) \in Seq(IdemKeys)
        /\ Append(uses[s], k) \in Seq(IdemKeys)
    <3>1. Touch(remembered[s], k) \in Seq(IdemKeys)
      BY <2>3, TouchKeys
    <3> QED
      BY <2>3, <3>1
  <2>2. [pc |-> "creating", server |-> s, key |-> k] \in InFlight
    BY DEF InFlight
  <2> QED
    BY <1>1, <2>1, <2>2 DEF CreateWithKey, IdemTypeOK
<1>2. ASSUME NEW r \in Posts, Refuse(r) \/ Break(r)
      PROVE  IdemTypeOK'
  <2>1. posts[r] \in InFlight
    BY <1>2, IdemTypes DEF Refuse, Break, PostIs
  <2> QED
    BY <1>2, <2>1, PostsDiffer DEF Refuse, Break, Finish, IdemTypeOK
<1>3. ASSUME NEW r \in Posts, Insert(r)
      PROVE  IdemTypeOK'
  <2>1. posts[r] \in InFlight
    BY <1>3, IdemTypes DEF Insert, PostIs
  <2>2. [posts[r] EXCEPT !.pc = "storing"] \in InFlight
    BY <2>1 DEF InFlight
  <2>3. posts' \in [Posts -> {NoPost} \cup InFlight]
    BY <1>3, <2>2 DEF Insert, IdemTypeOK
  <2>4. made' \in [IdemKeys -> Nat]
    BY <1>3, <2>1, PostsDiffer DEF Insert, IdemTypeOK
  <2> QED
    BY <1>3, <2>3, <2>4 DEF Insert, IdemTypeOK
<1>4. ASSUME NEW r \in Posts, Store(r)
      PROVE  IdemTypeOK'
  <2> DEFINE s == posts[r].server
             k == posts[r].key
  <2>1. posts[r] \in InFlight
    BY <1>4, IdemTypes DEF Store, PostIs
  <2>2. s \in Servers /\ k \in IdemKeys
    BY <2>1, PostsDiffer
  <2>3. /\ Put(remembered[s], k) \in Seq(IdemKeys)
        /\ Append(uses[s], k) \in Seq(IdemKeys)
        /\ Known(s) \subseteq IdemKeys
    <3>1. remembered[s] \in Seq(IdemKeys) /\ uses[s] \in Seq(IdemKeys)
      BY <2>2, IdemTypes
    <3>2. Put(remembered[s], k) \in Seq(IdemKeys)
      BY <2>2, <3>1, PutKeys
    <3>3. Append(uses[s], k) \in Seq(IdemKeys)
      BY <2>2, <3>1
    <3>4. ToSet(remembered[s]) \subseteq IdemKeys
      BY <3>1 DEF ToSet
    <3> QED
      BY <3>2, <3>3, <3>4 DEF Known
  <2>4. /\ remembered' = [remembered EXCEPT ![s] = Put(remembered[s], k)]
        /\ uses' = [uses EXCEPT ![s] = Append(@, k)]
        /\ posts' = [posts EXCEPT ![r] = NoPost]
        /\ excused' \subseteq excused \cup Known(s)
        /\ made' = made
    BY <1>4 DEF Store, Finish
  <2> HIDE DEF s, k
  <2> QED
    BY <2>2, <2>3, <2>4 DEF IdemTypeOK
<1>5. ASSUME NEW s \in Servers, Restart(s)
      PROVE  IdemTypeOK'
  <2> DEFINE gone == {q \in Posts : posts[q] # NoPost /\ posts[q].server = s}
             storing == {q \in gone : posts[q].pc = "storing"}
  <2>1. /\ remembered' = [remembered EXCEPT ![s] = << >>]
        /\ uses' = [uses EXCEPT ![s] = << >>]
        /\ posts' = [q \in Posts |-> IF q \in gone THEN NoPost ELSE posts[q]]
        /\ excused' = excused \cup Known(s) \cup {posts[q].key : q \in storing}
        /\ made' = made
    BY <1>5 DEF Restart
  <2>2. Known(s) \subseteq IdemKeys
    BY IdemTypes DEF Known, ToSet
  <2>3. \A q \in gone : posts[q].key \in IdemKeys
    BY IdemTypes, PostsDiffer
  <2>4. << >> \in Seq(IdemKeys)
    OBVIOUS
  <2> HIDE DEF gone
  <2> QED
    BY <2>1, <2>2, <2>3, <2>4 DEF IdemTypeOK
<1>6. ASSUME UNCHANGED idemVars
      PROVE  IdemTypeOK'
  BY <1>6 DEF idemVars, IdemTypeOK
<1> QED
  BY <1>1, <1>2, <1>3, <1>4, <1>5, <1>6 DEF IdemNext

(***************************************************************************)
(* One incident per key.                                                   *)
(***************************************************************************)
LEMMA CreateKeepsOne ==
  ASSUME CreationInv, NEW r \in Posts, NEW s \in Servers, NEW k \in IdemKeys,
         CreateWithKey(r, s, k), NEW j \in IdemKeys \ excused'
  PROVE  OneInFlight(j)' /\ OneMade(j)'
<1>1. posts[r] = NoPost /\ made' = made
  BY DEF CreateWithKey
<1>2. CASE /\ k \in Known(s) /\ remembered' = [remembered EXCEPT ![s] = Touch(@, k)]
           /\ posts' = posts /\ excused' = excused
  <2>1. remembered[s] \in Seq(IdemKeys)
    BY IdemTypes DEF CreationInv
  <2>2. ToSet(Touch(remembered[s], k)) = ToSet(remembered[s])
    <3>1. ToSet(Touch(remembered[s], k)) = ToSet(remembered[s]) \cup {k}
      BY <2>1, TouchKeys
    <3> QED
      BY <1>2, <3>1 DEF Known
  <2>3. \A q \in Servers : Known(q)' = Known(q)
    BY <1>2, <2>2 DEF Known, CreationInv, IdemTypeOK
  <2>4. OneInFlight(j) /\ OneMade(j)
    BY <1>2 DEF CreationInv
  <2> HIDE DEF Known
  <2> QED
    BY <1>1, <1>2, <2>3, <2>4
       DEF OneInFlight, OneMade, With, StoringWith, CreatingWith, KnownAnywhere
<1>3. CASE /\ k \notin Known(s) /\ remembered' = remembered
           /\ posts' = [posts EXCEPT ![r] = [pc |-> "creating", server |-> s, key |-> k]]
           /\ excused' = IF Creating(k) \/ KnownElsewhere(s, k)
                         THEN excused \cup {k} ELSE excused
  <2> DEFINE p == [pc |-> "creating", server |-> s, key |-> k]
  <2>1. p # NoPost /\ p.key = k /\ p.pc = "creating"
    BY DEF NoPost
  <2> HIDE DEF p
  <2>2. posts' = [posts EXCEPT ![r] = p] /\ posts \in [Posts -> {NoPost} \cup InFlight]
    BY <1>3 DEF p, CreationInv, IdemTypeOK
  <2>3. /\ \A q \in Posts \ {r} : posts'[q] = posts[q]
        /\ posts'[r] = p
    BY <2>2
  <2>4. OneInFlight(j) /\ OneMade(j) /\ j \notin excused
    BY <1>3 DEF CreationInv
  <2>5. \A x \in IdemKeys : KnownAnywhere(x)' <=> KnownAnywhere(x)
    BY <1>3 DEF KnownAnywhere, Known
  <2>6. \A x \in IdemKeys : StoringWith(x)' <=> StoringWith(x)
    BY <1>1, <2>1, <2>3 DEF StoringWith, With
  <2>7. CASE j # k
    <3>1. \A q \in Posts : With(q, j)' <=> With(q, j)
      BY <1>1, <2>1, <2>3, <2>7 DEF With
    <3>2. CreatingWith(j)' <=> CreatingWith(j)
      BY <1>1, <2>1, <2>3, <2>7 DEF CreatingWith, With
    <3> QED
      BY <1>1, <2>4, <2>5, <2>6, <3>1, <3>2 DEF OneInFlight, OneMade
  <2>8. CASE j = k
    <3>1. ~ Creating(k) /\ ~ KnownElsewhere(s, k)
      BY <1>3, <2>8
    <3>2. ~ KnownAnywhere(k)
      BY <1>3, <3>1 DEF KnownElsewhere, KnownAnywhere
    <3>3. \A q \in Posts : ~ With(q, k)
      BY <3>1 DEF Creating, With
    <3>4. made[k] = 0 /\ ~ StoringWith(k)
      BY <2>4, <2>8, <3>2, <3>3 DEF OneMade, StoringWith
    <3>5. \A q \in Posts : With(q, k)' => q = r
      BY <2>3, <3>3 DEF With
    <3> QED
      BY <1>1, <2>5, <2>6, <2>8, <3>2, <3>4, <3>5 DEF OneInFlight, OneMade
  <2> QED
    BY <2>7, <2>8
<1> QED
  BY <1>2, <1>3 DEF CreateWithKey

\* A request that is over.
LEMMA Finished ==
  ASSUME IdemTypeOK, NEW r \in Posts, Finish(r)
  PROVE  /\ \A q \in Posts \ {r} : posts'[q] = posts[q]
         /\ posts'[r] = NoPost
BY DEF Finish, IdemTypeOK

LEMMA RefuseKeepsOne ==
  ASSUME CreationInv, NEW r \in Posts, Refuse(r), NEW j \in IdemKeys \ excused'
  PROVE  OneInFlight(j)' /\ OneMade(j)'
<1>1. /\ \A q \in Posts \ {r} : posts'[q] = posts[q]
      /\ posts'[r] = NoPost
  BY Finished DEF Refuse, CreationInv
<1>2. posts[r].pc = "creating" /\ made' = made
  BY DEF Refuse, PostIs
<1>3. OneInFlight(j) /\ OneMade(j)
  BY DEF CreationInv, Refuse
<1>4. \A q \in Posts : With(q, j)' => With(q, j) /\ q # r
  BY <1>1 DEF With
<1>5. StoringWith(j)' <=> StoringWith(j)
  BY <1>1, <1>2 DEF StoringWith, With
<1>6. CreatingWith(j)' => CreatingWith(j)
  BY <1>1 DEF CreatingWith, With
<1>7. KnownAnywhere(j)' <=> KnownAnywhere(j)
  BY DEF KnownAnywhere, Known, Refuse
<1> QED
  BY <1>2, <1>3, <1>4, <1>5, <1>6, <1>7 DEF OneInFlight, OneMade

LEMMA BreakKeepsOne ==
  ASSUME CreationInv, NEW r \in Posts, Break(r), NEW j \in IdemKeys \ excused'
  PROVE  OneInFlight(j)' /\ OneMade(j)'
<1>1. /\ \A q \in Posts \ {r} : posts'[q] = posts[q]
      /\ posts'[r] = NoPost
  BY Finished DEF Break, CreationInv
<1>2. posts[r].key # j /\ made' = made
  BY DEF Break
<1>3. OneInFlight(j) /\ OneMade(j)
  BY DEF CreationInv, Break
<1>4. \A q \in Posts : With(q, j)' <=> With(q, j)
  BY <1>1, <1>2 DEF With
<1>5. StoringWith(j)' <=> StoringWith(j)
  BY <1>1, <1>2 DEF StoringWith, With
<1>6. CreatingWith(j)' <=> CreatingWith(j)
  BY <1>1, <1>2 DEF CreatingWith, With
<1>7. KnownAnywhere(j)' <=> KnownAnywhere(j)
  BY DEF KnownAnywhere, Known, Break
<1> QED
  BY <1>2, <1>3, <1>4, <1>5, <1>6, <1>7 DEF OneInFlight, OneMade

LEMMA InsertKeepsOne ==
  ASSUME CreationInv, NEW r \in Posts, Insert(r), NEW j \in IdemKeys \ excused'
  PROVE  OneInFlight(j)' /\ OneMade(j)'
<1>1. posts[r] # NoPost /\ posts[r].pc = "creating" /\ posts[r] \in InFlight
  BY IdemTypes DEF Insert, PostIs, CreationInv
<1> DEFINE k == posts[r].key
           p == [posts[r] EXCEPT !.pc = "storing"]
<1>2. p # NoPost /\ p.key = k /\ p.pc = "storing"
  BY <1>1 DEF InFlight, NoPost
<1>3. k \in IdemKeys
  BY <1>1, PostsDiffer
<1>4. /\ \A q \in Posts \ {r} : posts'[q] = posts[q]
      /\ posts'[r] = p
  BY DEF Insert, CreationInv, IdemTypeOK
<1>5. \A x \in IdemKeys : made'[x] = IF x = k THEN made[x] + 1 ELSE made[x]
  BY DEF Insert, CreationInv, IdemTypeOK
<1>6. OneInFlight(j) /\ OneMade(j)
  BY DEF CreationInv, Insert
<1> HIDE DEF p
<1>7. \A q \in Posts : With(q, j)' <=> With(q, j)
  BY <1>1, <1>2, <1>4 DEF With
<1>8. KnownAnywhere(j)' <=> KnownAnywhere(j)
  BY DEF KnownAnywhere, Known, Insert
<1>9. CASE k = j
  <2>1. CreatingWith(j)
    BY <1>1, <1>9 DEF CreatingWith, With
  <2>2. made[j] = 0
    BY <1>6, <2>1 DEF OneMade
  <2>3. \A q \in Posts : With(q, j) => q = r
    BY <1>1, <1>6, <1>9 DEF OneInFlight, With
  <2>4. StoringWith(j)'
    BY <1>2, <1>4, <1>9 DEF StoringWith, With
  <2>5. ~ CreatingWith(j)'
    BY <1>2, <1>4, <1>7, <2>3 DEF CreatingWith
  <2>6. made'[j] = 1
    BY <1>5, <1>9, <2>2
  <2> QED
    BY <1>6, <1>7, <2>4, <2>5, <2>6 DEF OneInFlight, OneMade
<1>10. CASE k # j
  <2>1. StoringWith(j)' <=> StoringWith(j)
    BY <1>2, <1>4, <1>10 DEF StoringWith, With
  <2>2. CreatingWith(j)' <=> CreatingWith(j)
    BY <1>2, <1>4, <1>10 DEF CreatingWith, With
  <2>3. made'[j] = made[j]
    BY <1>5, <1>10
  <2> QED
    BY <1>6, <1>7, <1>8, <2>1, <2>2, <2>3 DEF OneInFlight, OneMade
<1> QED
  BY <1>9, <1>10

LEMMA StoreKeepsOne ==
  ASSUME CreationInv, NEW r \in Posts, Store(r), NEW j \in IdemKeys \ excused'
  PROVE  OneInFlight(j)' /\ OneMade(j)'
<1> DEFINE s == posts[r].server
           k == posts[r].key
           kept == Put(remembered[s], k)
<1>1. posts[r] # NoPost /\ posts[r].pc = "storing" /\ posts[r] \in InFlight
  BY IdemTypes DEF Store, PostIs, CreationInv
<1>2. s \in Servers /\ k \in IdemKeys
  BY <1>1, PostsDiffer
<1>3. /\ \A q \in Posts \ {r} : posts'[q] = posts[q]
      /\ posts'[r] = NoPost
  BY Finished DEF Store, CreationInv
<1>4. /\ remembered' = [remembered EXCEPT ![s] = kept]
      /\ excused' = excused \cup (Known(s) \ ToSet(kept))
      /\ made' = made
  BY DEF Store
<1>5. ToSet(kept) \subseteq Known(s) \cup {k} /\ k \in ToSet(kept)
  <2>1. remembered[s] \in Seq(IdemKeys)
    BY <1>2, IdemTypes DEF CreationInv
  <2> QED
    BY <1>2, <2>1, PutKeys DEF Known
<1> HIDE DEF s, kept
<1>6. \A q \in Servers : Known(q)' = IF q = s THEN ToSet(kept) ELSE Known(q)
  BY <1>2, <1>4 DEF Known, CreationInv, IdemTypeOK
<1>7. OneInFlight(j) /\ OneMade(j)
  BY <1>4 DEF CreationInv
<1>8. \A q \in Posts : With(q, j)' => With(q, j) /\ q # r
  BY <1>3 DEF With
<1>9. CASE j = k
  <2>1. StoringWith(j) /\ made[j] = 1 /\ ~ CreatingWith(j)
    BY <1>1, <1>7, <1>9 DEF StoringWith, With, OneMade
  <2>2. KnownAnywhere(j)'
    BY <1>2, <1>5, <1>6, <1>9 DEF KnownAnywhere
  <2>3. ~ CreatingWith(j)'
    BY <1>3, <2>1 DEF CreatingWith, With
  <2> QED
    BY <1>4, <1>7, <1>8, <2>1, <2>2, <2>3 DEF OneInFlight, OneMade
<1>10. CASE j # k
  <2>1. KnownAnywhere(j)' <=> KnownAnywhere(j)
    BY <1>4, <1>5, <1>6, <1>10 DEF KnownAnywhere
  <2>2. StoringWith(j)' <=> StoringWith(j)
    BY <1>3, <1>10 DEF StoringWith, With
  <2>3. CreatingWith(j)' <=> CreatingWith(j)
    BY <1>3, <1>10 DEF CreatingWith, With
  <2> QED
    BY <1>4, <1>7, <1>8, <2>1, <2>2, <2>3 DEF OneInFlight, OneMade
<1> QED
  BY <1>9, <1>10

LEMMA RestartKeepsOne ==
  ASSUME CreationInv, NEW s \in Servers, Restart(s), NEW j \in IdemKeys \ excused'
  PROVE  OneInFlight(j)' /\ OneMade(j)'
<1> DEFINE gone == {q \in Posts : posts[q] # NoPost /\ posts[q].server = s}
           storing == {q \in gone : posts[q].pc = "storing"}
<1>1. /\ remembered' = [remembered EXCEPT ![s] = << >>]
      /\ posts' = [q \in Posts |-> IF q \in gone THEN NoPost ELSE posts[q]]
      /\ excused' = excused \cup Known(s) \cup {posts[q].key : q \in storing}
      /\ made' = made
  BY DEF Restart
<1>2. OneInFlight(j) /\ OneMade(j) /\ j \notin Known(s)
  BY <1>1 DEF CreationInv
<1>3. \A q \in storing : posts[q].key # j
  BY <1>1
<1>4. \A q \in Servers : Known(q)' = IF q = s THEN {} ELSE Known(q)
  BY <1>1 DEF Known, ToSet, CreationInv, IdemTypeOK
<1>5. KnownAnywhere(j)' <=> KnownAnywhere(j)
  BY <1>2, <1>4 DEF KnownAnywhere
<1>6. \A q \in Posts : With(q, j)' => With(q, j) /\ posts'[q] = posts[q]
  BY <1>1 DEF With
<1>7. CreatingWith(j)' => CreatingWith(j)
  BY <1>6 DEF CreatingWith
<1>8. StoringWith(j)' <=> StoringWith(j)
  <2>1. \A q \in Posts : With(q, j) /\ posts[q].pc = "storing" => q \notin gone
    BY <1>3 DEF With
  <2>2. \A q \in Posts : With(q, j) /\ posts[q].pc = "storing" => posts'[q] = posts[q]
    BY <1>1, <2>1
  <2> HIDE DEF gone
  <2> QED
    BY <1>6, <2>2 DEF StoringWith, With
<1> QED
  BY <1>1, <1>2, <1>5, <1>6, <1>7, <1>8 DEF OneInFlight, OneMade

LEMMA CreationInductive == IdemSpec => []CreationInv
<1>1. IdemInit => CreationInv
  <2> SUFFICES ASSUME IdemInit
               PROVE  CreationInv
    OBVIOUS
  <2>1. IdemTypeOK
    BY IdemTypeInit
  <2>2. ASSUME NEW k \in IdemKeys
        PROVE  OneInFlight(k) /\ OneMade(k)
    <3>1. /\ made[k] = 0
          /\ \A r \in Posts : posts[r] = NoPost
          /\ \A s \in Servers : remembered[s] = << >>
      BY DEF IdemInit
    <3>2. \A s \in Servers : Known(s) = {}
      BY <3>1 DEF Known, ToSet
    <3> QED
      BY <3>1, <3>2 DEF OneInFlight, OneMade, With, StoringWith, KnownAnywhere
  <2> QED
    BY <2>1, <2>2 DEF CreationInv
<1>2. CreationInv /\ [IdemNext]_idemVars => CreationInv'
  <2> SUFFICES ASSUME CreationInv, [IdemNext]_idemVars
               PROVE  CreationInv'
    OBVIOUS
  <2>1. IdemTypeOK'
    BY IdemTypeKeeps DEF CreationInv
  <2>2. ASSUME NEW j \in IdemKeys \ excused'
        PROVE  OneInFlight(j)' /\ OneMade(j)'
    <3>1. CASE UNCHANGED idemVars
      <4>1. OneInFlight(j) /\ OneMade(j)
        BY <3>1 DEF idemVars, CreationInv
      <4> QED
        BY <3>1, <4>1 DEF idemVars, OneInFlight, OneMade, With, StoringWith, CreatingWith,
                          KnownAnywhere, Known
    <3> QED
      BY <3>1, CreateKeepsOne, RefuseKeepsOne, InsertKeepsOne, StoreKeepsOne, BreakKeepsOne,
         RestartKeepsOne DEF IdemNext
  <2> QED
    BY <2>1, <2>2 DEF CreationInv
<1> QED
  BY <1>1, <1>2, PTL DEF IdemSpec

\* A key creates one incident, unless something excuses a second one: for any
\* keys, processes and requests, and any capacity (create_incident).
THEOREM OnePerKey == IdemSpec => []OneIncidentPerKey
<1>1. CreationInv => OneIncidentPerKey
  <2> SUFFICES ASSUME CreationInv, NEW k \in IdemKeys \ excused
               PROVE  made[k] <= 1
    BY DEF OneIncidentPerKey
  <2>1. made[k] = 0 \/ made[k] = 1
    BY DEF CreationInv, OneMade
  <2> QED
    BY <2>1
<1> QED
  BY <1>1, CreationInductive, PTL

(***************************************************************************)
(* The keys used last.                                                     *)
(***************************************************************************)
LEMMA AfterOf ==
  ASSUME NEW keys \in Seq(IdemKeys), NEW i \in DOMAIN keys
  PROVE  After(keys, i) = {keys[j] : j \in {h \in DOMAIN keys : h > i}}
<1>1. i + 1 .. Len(keys) = {h \in DOMAIN keys : h > i}
  OBVIOUS
<1> QED
  BY <1>1 DEF After

LEMMA MovingKeepsOrder ==
  ASSUME NEW keys \in Seq(IdemKeys), NEW k \in IdemKeys, Distinct(keys),
         NEW m, m = Moved(keys, k)
  PROVE  /\ Distinct(m)
         /\ \A i \in DOMAIN m : m[i] # k =>
               \E h \in DOMAIN keys : m[i] = keys[h] /\ After(m, i) = After(keys, h) \cup {k}
<1>1. CASE k \notin ToSet(keys)
  <2> DEFINE n == Len(keys)
  <2>1. /\ m \in Seq(IdemKeys) /\ Len(m) = n + 1 /\ n \in Nat
        /\ \A i \in 1 .. n : m[i] = keys[i]
        /\ m[n + 1] = k
        /\ DOMAIN keys = 1 .. n /\ DOMAIN m = 1 .. n + 1
    BY <1>1, Adding
  <2>2. \A i \in 1 .. n : keys[i] # k
    BY <1>1 DEF ToSet
  <2> HIDE DEF n
  <2>3. \A i \in 1 .. n + 1 : i = n + 1 \/ i \in 1 .. n
    BY <2>1
  <2>4. Distinct(m)
    BY <2>1, <2>2, <2>3 DEF Distinct
  <2>5. ASSUME NEW i \in DOMAIN m, m[i] # k
        PROVE  i \in 1 .. n /\ After(m, i) = After(keys, i) \cup {k}
    <3>1. i \in 1 .. n
      BY <2>1, <2>3, <2>5
    <3>2. i + 1 .. n + 1 = (i + 1 .. n) \cup {n + 1}
      BY <2>1, <3>1
    <3>3. \A j \in i + 1 .. n : m[j] = keys[j]
      BY <2>1, <3>1
    <3>4. After(m, i) = {m[j] : j \in i + 1 .. n + 1}
      BY <2>1 DEF After
    <3>5. After(keys, i) = {keys[j] : j \in i + 1 .. n}
      BY DEF After, n
    <3> QED
      BY <2>1, <3>1, <3>2, <3>3, <3>4, <3>5
  <2> QED
    BY <2>1, <2>4, <2>5
<1>2. CASE k \in ToSet(keys)
  <2> DEFINE n == Len(keys)
             p == Place(keys, k)
             Old(i) == IF i < p THEN i ELSE i + 1
  <2>1. p \in 1 .. n /\ keys[p] = k /\ n \in Nat
    BY <1>2, PlaceOf
  <2>2. /\ m \in Seq(IdemKeys) /\ Len(m) = n
        /\ \A i \in 1 .. n : m[i] = IF i = n THEN k ELSE IF i < p THEN keys[i] ELSE keys[i + 1]
    BY <1>2, Moving
  <2>3. DOMAIN m = 1 .. n /\ DOMAIN keys = 1 .. n
    BY <2>2
  <2> HIDE DEF n, p
  <2>4. m[n] = k /\ \A i \in 1 .. n - 1 : m[i] = keys[Old(i)]
    BY <2>1, <2>2
  <2>5. \A i \in 1 .. n - 1 : Old(i) \in 1 .. n /\ Old(i) # p
    BY <2>1
  <2>6. \A i, j \in 1 .. n - 1 : (i < j <=> Old(i) < Old(j)) /\ (Old(i) = Old(j) => i = j)
    BY <2>1
  <2>7. ASSUME NEW h \in 1 .. n, h # p
        PROVE  \E i \in 1 .. n - 1 : Old(i) = h
    <3>1. CASE h < p
      BY <3>1, <2>1
    <3>2. CASE h > p
      <4>1. h - 1 \in 1 .. n - 1 /\ Old(h - 1) = h
        BY <3>2, <2>1
      <4> QED
        BY <4>1
    <3> QED
      BY <2>1, <2>7, <3>1, <3>2
  <2> HIDE DEF Old
  <2>8. \A h \in 1 .. n : keys[h] = k => h = p
    BY <2>1, <2>3 DEF Distinct
  <2>9. \A i \in 1 .. n : i = n \/ i \in 1 .. n - 1
    BY <2>1
  <2>10. \A i \in 1 .. n - 1 : m[i] # k
    BY <2>4, <2>5, <2>8
  <2>11. Distinct(m)
    <3> SUFFICES ASSUME NEW i \in 1 .. n, NEW j \in 1 .. n, m[i] = m[j]
                 PROVE  i = j
      BY <2>3 DEF Distinct
    <3>1. CASE i \in 1 .. n - 1 /\ j \in 1 .. n - 1
      <4>1. keys[Old(i)] = keys[Old(j)] /\ Old(i) \in DOMAIN keys /\ Old(j) \in DOMAIN keys
        BY <3>1, <2>3, <2>4, <2>5
      <4>2. Old(i) = Old(j)
        BY <4>1 DEF Distinct
      <4> QED
        BY <3>1, <4>2, <2>6
    <3> QED
      BY <3>1, <2>4, <2>9, <2>10
  <2>12. ASSUME NEW i \in 1 .. n - 1
         PROVE  After(m, i) = After(keys, Old(i)) \cup {k}
    <3>1. Old(i) \in DOMAIN keys /\ i \in DOMAIN m /\ n \in DOMAIN m /\ n > i
      BY <2>1, <2>3, <2>5
    <3>2. After(m, i) = {m[j] : j \in {h \in DOMAIN m : h > i}}
      BY <2>2, <3>1, AfterOf
    <3>3. After(keys, Old(i)) = {keys[j] : j \in {h \in DOMAIN keys : h > Old(i)}}
      BY <3>1, AfterOf
    <3>4. ASSUME NEW x \in After(m, i)
          PROVE  x \in After(keys, Old(i)) \cup {k}
      <4>1. PICK j \in 1 .. n : j > i /\ x = m[j]
        BY <2>3, <3>2
      <4>2. CASE j \in 1 .. n - 1
        BY <4>1, <4>2, <2>3, <2>4, <2>5, <2>6, <3>3
      <4> QED
        BY <4>1, <4>2, <2>4, <2>9
    <3>5. ASSUME NEW x \in After(keys, Old(i))
          PROVE  x \in After(m, i) \cup {k}
      <4>1. PICK h \in 1 .. n : h > Old(i) /\ x = keys[h]
        BY <2>3, <3>3
      <4>2. CASE h # p
        <5>1. PICK j \in 1 .. n - 1 : Old(j) = h
          BY <4>2, <2>7
        <5>2. j > i
          BY <4>1, <5>1, <2>6
        <5>3. x = m[j] /\ j \in DOMAIN m
          BY <4>1, <5>1, <2>1, <2>3, <2>4
        <5> QED
          BY <5>2, <5>3, <3>2
      <4> QED
        BY <4>1, <4>2, <2>1
    <3>6. k \in After(m, i)
      BY <2>4, <3>1, <3>2
    <3> QED
      BY <3>4, <3>5, <3>6
  <2>13. \A i \in 1 .. n - 1 : m[i] = keys[Old(i)] /\ Old(i) \in DOMAIN keys
    BY <2>3, <2>4, <2>5
  <2> QED
    BY <2>3, <2>4, <2>9, <2>11, <2>12, <2>13
<1> QED
  BY <1>1, <1>2

LEMMA UseKeepsOrder ==
  ASSUME NEW keys \in Seq(IdemKeys), NEW used \in Seq(IdemKeys), NEW k \in IdemKeys,
         LastUsed(keys, used), NEW m, m = Moved(keys, k), NEW u, u = Append(used, k)
  PROVE  LastUsed(m, u)
<1>1. /\ m \in Seq(IdemKeys) /\ Len(m) \in Nat /\ Len(m) >= 1 /\ Len(m) >= Len(keys)
      /\ DOMAIN m = 1 .. Len(m) /\ m[Len(m)] = k
      /\ ToSet(m) = ToSet(keys) \cup {k}
  <2>1. /\ m \in Seq(IdemKeys) /\ Len(m) >= 1 /\ m[Len(m)] = k
        /\ ToSet(m) = ToSet(keys) \cup {k}
        /\ Len(m) = Len(keys) \/ Len(m) = Len(keys) + 1
    BY MovedKeys
  <2>2. Len(m) \in Nat /\ DOMAIN m = 1 .. Len(m) /\ Len(keys) \in Nat
    BY <2>1
  <2>3. Len(m) >= Len(keys)
    <3> DEFINE a == Len(m)
               b == Len(keys)
    <3>1. a \in Nat /\ b \in Nat /\ (a = b \/ a = b + 1)
      BY <2>1, <2>2
    <3> HIDE DEF a, b
    <3>2. a >= b
      BY <3>1
    <3> QED
      BY <3>2 DEF a, b
  <2> QED
    BY <2>1, <2>2, <2>3
<1>2. ToSet(u) = ToSet(used) \cup {k}
  <2>1. /\ DOMAIN u = 1 .. Len(used) + 1 /\ DOMAIN used = 1 .. Len(used) /\ Len(used) \in Nat
        /\ \A i \in 1 .. Len(used) : u[i] = used[i]
        /\ u[Len(used) + 1] = k
    OBVIOUS
  <2>2. DOMAIN u = DOMAIN used \cup {Len(used) + 1}
    BY <2>1
  <2> QED
    BY <2>1, <2>2 DEF ToSet
<1>3. Distinct(keys)
  BY DEF LastUsed
<1>4. /\ Distinct(m)
      /\ \A i \in DOMAIN m : m[i] # k =>
            \E h \in DOMAIN keys : m[i] = keys[h] /\ After(m, i) = After(keys, h) \cup {k}
  BY <1>3, MovingKeepsOrder
<1>5. \A j \in IdemKeys : UsedSince(u, j) = IF j = k THEN {} ELSE UsedSince(used, j) \cup {k}
  BY UsedNow
<1>6. ASSUME NEW i \in DOMAIN m
      PROVE  UsedSince(u, m[i]) = After(m, i)
  <2>1. m[i] \in IdemKeys
    BY <1>1
  <2>2. CASE m[i] = k
    <3>1. i = Len(m)
      BY <1>1, <1>4, <2>2 DEF Distinct
    <3>2. i + 1 .. Len(m) = {}
      BY <3>1, <1>1
    <3>3. After(m, i) = {}
      BY <3>2 DEF After
    <3> QED
      BY <3>3, <2>1, <2>2, <1>5
  <2>3. CASE m[i] # k
    <3>1. PICK h \in DOMAIN keys : m[i] = keys[h] /\ After(m, i) = After(keys, h) \cup {k}
      BY <1>4, <2>3
    <3>2. UsedSince(used, keys[h]) = After(keys, h)
      BY DEF LastUsed
    <3> QED
      BY <3>1, <3>2, <2>1, <2>3, <1>5
  <2> QED
    BY <2>2, <2>3
<1>7. ASSUME NEW x \in ToSet(u) \ ToSet(m)
      PROVE  ToSet(m) \subseteq UsedSince(u, x) /\ Len(m) >= IdemCapacity
  <2>1. x # k /\ x \in ToSet(used) \ ToSet(keys)
    BY <1>1, <1>2
  <2>2. ToSet(keys) \subseteq UsedSince(used, x) /\ Len(keys) >= IdemCapacity
    BY <2>1 DEF LastUsed
  <2>3. x \in IdemKeys
    BY <2>1 DEF ToSet
  <2>4. Len(m) >= IdemCapacity
    BY <1>1, <2>2, IdemAssumption
  <2> QED
    BY <1>1, <1>5, <2>1, <2>2, <2>3, <2>4
<1>8. ToSet(keys) \subseteq ToSet(used)
  BY DEF LastUsed
<1> QED
  BY <1>1, <1>2, <1>4, <1>6, <1>7, <1>8 DEF LastUsed

LEMMA LastKeepsOrder ==
  ASSUME NEW m \in Seq(IdemKeys), NEW u, LastUsed(m, u), Len(m) > IdemCapacity,
         NEW l, l = LastKept(m, IdemCapacity)
  PROVE  LastUsed(l, u) /\ Len(l) = IdemCapacity
<1> DEFINE n == IdemCapacity
           d == Len(m) - n
<1>1. n \in Nat /\ n >= 1 /\ d \in Nat /\ d >= 1 /\ Len(m) = n + d /\ DOMAIN m = 1 .. n + d
  BY IdemAssumption
<1>2. /\ Len(l) = n /\ DOMAIN l = 1 .. n
      /\ \A i \in 1 .. n : l[i] = m[i + d]
  <2>1. n \in Nat /\ n <= Len(m) /\ n >= 1
    BY <1>1
  <2>2. /\ l \in Seq(IdemKeys) /\ Len(l) = n
        /\ \A i \in 1 .. n : l[i] = m[i + (Len(m) - n)]
    BY <2>1, LastKeys
  <2> QED
    BY <2>2
<1> HIDE DEF n, d
<1>3. \A i \in 1 .. n : i + d \in 1 .. n + d
  BY <1>1
<1>4. Distinct(l)
  <2> SUFFICES ASSUME NEW i \in 1 .. n, NEW j \in 1 .. n, l[i] = l[j]
               PROVE  i = j
    BY <1>2 DEF Distinct
  <2>1. m[i + d] = m[j + d] /\ i + d \in DOMAIN m /\ j + d \in DOMAIN m
    BY <1>1, <1>2, <1>3
  <2>2. i + d = j + d
    BY <2>1 DEF LastUsed, Distinct
  <2> QED
    BY <1>1, <2>2
<1>5. ToSet(l) \subseteq ToSet(m)
  BY <1>1, <1>2, <1>3 DEF ToSet
<1>6. ASSUME NEW i \in 1 .. n
      PROVE  After(l, i) = After(m, i + d)
  <2>1. After(l, i) = {m[j + d] : j \in i + 1 .. n}
    <3>1. \A j \in i + 1 .. n : j \in 1 .. n
      BY <1>1
    <3> QED
      BY <1>2, <3>1 DEF After
  <2>2. After(m, i + d) = {m[h] : h \in (i + d) + 1 .. n + d}
    BY <1>1 DEF After
  <2>3. \A j \in i + 1 .. n : j + d \in (i + d) + 1 .. n + d
    BY <1>1
  <2>4. \A h \in (i + d) + 1 .. n + d : h - d \in i + 1 .. n /\ (h - d) + d = h
    BY <1>1
  <2>5. \A h \in (i + d) + 1 .. n + d : \E j \in i + 1 .. n : j + d = h
    BY <2>4
  <2>6. After(l, i) \subseteq After(m, i + d)
    BY <2>1, <2>2, <2>3
  <2>7. ASSUME NEW x \in After(m, i + d)
        PROVE  x \in After(l, i)
    <3>1. PICK h \in (i + d) + 1 .. n + d : x = m[h]
      BY <2>2
    <3>2. PICK j \in i + 1 .. n : j + d = h
      BY <2>5
    <3> QED
      BY <3>1, <3>2, <2>1
  <2> QED
    BY <2>6, <2>7
<1>7. \A i \in 1 .. n : UsedSince(u, l[i]) = After(l, i)
  BY <1>1, <1>2, <1>3, <1>6 DEF LastUsed
<1>8. ASSUME NEW x \in ToSet(u) \ ToSet(l)
      PROVE  ToSet(l) \subseteq UsedSince(u, x)
  <2>1. CASE x \notin ToSet(m)
    BY <2>1, <1>5 DEF LastUsed
  <2>2. CASE x \in ToSet(m)
    <3>1. PICK i \in 1 .. n + d : x = m[i]
      BY <2>2, <1>1 DEF ToSet
    <3>2. i <= d
      <4> SUFFICES ASSUME i > d PROVE FALSE
        BY <1>1
      <4>1. i - d \in 1 .. n /\ (i - d) + d = i
        BY <1>1
      <4>2. l[i - d] = x /\ i - d \in DOMAIN l
        BY <4>1, <3>1, <1>2
      <4> QED
        BY <4>2 DEF ToSet
    <3>3. UsedSince(u, x) = {m[h] : h \in i + 1 .. n + d}
      <4>1. UsedSince(u, x) = After(m, i)
        BY <1>1, <3>1 DEF LastUsed
      <4> QED
        BY <4>1, <1>1 DEF After
    <3>4. \A j \in 1 .. n : j + d \in i + 1 .. n + d
      BY <1>1, <3>2
    <3> QED
      BY <3>3, <3>4, <1>2 DEF ToSet
  <2> QED
    BY <2>1, <2>2
<1>9. ToSet(l) \subseteq ToSet(u) /\ Len(l) >= IdemCapacity
  BY <1>1, <1>2, <1>5 DEF LastUsed, n
<1>10. \A i \in DOMAIN l : UsedSince(u, l[i]) = After(l, i)
  BY <1>2, <1>7
<1> QED
  BY <1>2, <1>4, <1>8, <1>9, <1>10 DEF LastUsed, n

LEMMA RecentInductive == IdemSpec => []RecentInv
<1>1. IdemInit => RecentInv
  <2> SUFFICES ASSUME IdemInit
               PROVE  RecentInv
    OBVIOUS
  <2>1. IdemTypeOK
    BY IdemTypeInit
  <2>2. \A s \in Servers : remembered[s] = << >> /\ uses[s] = << >>
    BY DEF IdemInit
  <2>3. LastUsed(<< >>, << >>) /\ Len(<< >>) <= IdemCapacity
    BY IdemAssumption DEF LastUsed, Distinct, ToSet
  <2> QED
    BY <2>1, <2>2, <2>3 DEF RecentInv
<1>2. RecentInv /\ [IdemNext]_idemVars => RecentInv'
  <2> SUFFICES ASSUME RecentInv, [IdemNext]_idemVars
               PROVE  RecentInv'
    OBVIOUS
  <2>1. IdemTypeOK /\ IdemTypeOK'
    BY IdemTypeKeeps DEF RecentInv
  <2> DEFINE Good(keys, used) == LastUsed(keys, used) /\ Len(keys) <= IdemCapacity
  <2>2. \A s \in Servers : Good(remembered[s], uses[s])
    BY DEF RecentInv
  <2> SUFFICES \A q \in Servers : Good(remembered'[q], uses'[q])
    BY <2>1 DEF RecentInv
  <2> HIDE DEF Good
  <2>3. CASE UNCHANGED <<remembered, uses>>
    BY <2>2, <2>3
  <2>4. ASSUME NEW r \in Posts, NEW s \in Servers, NEW k \in IdemKeys, CreateWithKey(r, s, k),
               ~ UNCHANGED <<remembered, uses>>
        PROVE  \A q \in Servers : Good(remembered'[q], uses'[q])
    <3>1. /\ k \in Known(s)
          /\ remembered' = [remembered EXCEPT ![s] = Touch(@, k)]
          /\ uses' = [uses EXCEPT ![s] = Append(@, k)]
      BY <2>4 DEF CreateWithKey
    <3>2. remembered[s] \in Seq(IdemKeys) /\ uses[s] \in Seq(IdemKeys)
      BY <2>1, IdemTypes
    <3>3. Touch(remembered[s], k) = Moved(remembered[s], k)
      BY DEF Touch
    <3>4. LastUsed(remembered[s], uses[s]) /\ Len(remembered[s]) <= IdemCapacity
      BY <2>2 DEF Good
    <3>5. LastUsed(Touch(remembered[s], k), Append(uses[s], k))
      BY <3>2, <3>3, <3>4, UseKeepsOrder
    <3>6. Len(Touch(remembered[s], k)) = Len(remembered[s])
      BY <3>1, <3>2, TouchKeys DEF Known
    <3>7. Good(Touch(remembered[s], k), Append(uses[s], k))
      BY <3>4, <3>5, <3>6 DEF Good
    <3> QED
      BY <2>1, <2>2, <3>1, <3>7 DEF IdemTypeOK
  <2>5. ASSUME NEW r \in Posts, Store(r)
        PROVE  \A q \in Servers : Good(remembered'[q], uses'[q])
    <3> DEFINE s == posts[r].server
               k == posts[r].key
               keys == remembered[s]
               m == Moved(keys, k)
               u == Append(uses[s], k)
    <3>1. posts[r] \in InFlight
      BY <2>1, <2>5, IdemTypes DEF Store, PostIs
    <3>2. s \in Servers /\ k \in IdemKeys
      BY <3>1, PostsDiffer
    <3>3. /\ remembered' = [remembered EXCEPT ![s] = Put(remembered[s], k)]
          /\ uses' = [uses EXCEPT ![s] = Append(@, k)]
      BY <2>5 DEF Store
    <3> HIDE DEF s, k
    <3>4. keys \in Seq(IdemKeys) /\ uses[s] \in Seq(IdemKeys)
      BY <2>1, <3>2, IdemTypes
    <3>5. LastUsed(keys, uses[s])
      BY <2>2, <3>2 DEF Good
    <3> HIDE DEF keys
    <3>6. LastUsed(m, u) /\ m \in Seq(IdemKeys)
      BY <3>2, <3>4, <3>5, UseKeepsOrder, MovedKeys
    <3>7. Put(keys, k) = IF Len(m) > IdemCapacity THEN LastKept(m, IdemCapacity) ELSE m
      BY DEF Put, LastKept
    <3> HIDE DEF m, u
    <3>8. LastUsed(Put(keys, k), u)
      BY <3>6, <3>7, LastKeepsOrder
    <3>9. Len(Put(keys, k)) <= IdemCapacity
      BY <3>2, <3>4, PutKeys
    <3>10. Good(Put(remembered[s], k), Append(uses[s], k))
      BY <3>8, <3>9 DEF Good, keys, u
    <3> QED
      BY <2>1, <2>2, <3>2, <3>3, <3>10 DEF IdemTypeOK
  <2>6. ASSUME NEW s \in Servers, Restart(s)
        PROVE  \A q \in Servers : Good(remembered'[q], uses'[q])
    <3>1. /\ remembered' = [remembered EXCEPT ![s] = << >>]
          /\ uses' = [uses EXCEPT ![s] = << >>]
      BY <2>6 DEF Restart
    <3>2. Good(<< >>, << >>)
      BY IdemAssumption DEF Good, LastUsed, Distinct, ToSet
    <3> QED
      BY <2>1, <2>2, <3>1, <3>2 DEF IdemTypeOK
  <2>7. ASSUME NEW r \in Posts, Refuse(r) \/ Insert(r) \/ Break(r)
        PROVE  UNCHANGED <<remembered, uses>>
    BY <2>7 DEF Refuse, Insert, Break
  <2> QED
    BY <2>3, <2>4, <2>5, <2>6, <2>7 DEF IdemNext, idemVars
<1> QED
  BY <1>1, <1>2, PTL DEF IdemSpec

\* A process knows the keys it answered with fewer than IdemCapacity others
\* since, and no other: for any capacity and any uses (get, put).
THEOREM RecentKeysKnown == IdemSpec => []RecentKeysAreKnown
<1>1. RecentInv => RecentKeysAreKnown
  <2> SUFFICES ASSUME RecentInv, NEW s \in Servers
               PROVE  Known(s) = {k \in ToSet(uses[s]) :
                                    Cardinality(UsedSince(uses[s], k)) < IdemCapacity}
    BY DEF RecentKeysAreKnown
  <2> DEFINE keys == remembered[s]
             used == uses[s]
             n == Len(keys)
  <2>1. keys \in Seq(IdemKeys) /\ used \in Seq(IdemKeys)
    BY IdemTypes DEF RecentInv
  <2>2. LastUsed(keys, used) /\ n <= IdemCapacity
    BY DEF RecentInv
  <2> HIDE DEF keys, used
  <2>3. n \in Nat /\ DOMAIN keys = 1 .. n /\ IdemCapacity \in Nat
    BY <2>1, IdemAssumption
  <2>4. ASSUME NEW i \in 1 .. n
        PROVE  Cardinality(UsedSince(used, keys[i])) < IdemCapacity
    <3>1. UsedSince(used, keys[i]) = {keys[j] : j \in i + 1 .. n}
      BY <2>2, <2>3 DEF LastUsed, After
    <3>2. IsFiniteSet(i + 1 .. n) /\ Cardinality(i + 1 .. n) <= n - i
      <4>1. i + 1 \in Int /\ n \in Int
        BY <2>3
      <4>2. /\ IsFiniteSet(i + 1 .. n)
            /\ Cardinality(i + 1 .. n) = IF i + 1 > n THEN 0 ELSE n - (i + 1) + 1
        BY ONLY <4>1, FS_Interval
      <4> QED
        BY <2>3, <4>2
    <3>3. Cardinality(UsedSince(used, keys[i])) <= Cardinality(i + 1 .. n)
      BY <3>1, <3>2, EntriesAreFinite
    <3>4. /\ Cardinality(i + 1 .. n) \in Nat
          /\ Cardinality(UsedSince(used, keys[i])) \in Nat
      BY <2>1, <3>2, UsedIsFinite, FS_CardinalityType
    <3> QED
      BY <2>2, <2>3, <3>2, <3>3, <3>4
  <2>5. ASSUME NEW k \in ToSet(used) \ ToSet(keys)
        PROVE  ~ (Cardinality(UsedSince(used, k)) < IdemCapacity)
    <3>1. ToSet(keys) \subseteq UsedSince(used, k) /\ n >= IdemCapacity
      BY <2>2 DEF LastUsed
    <3>2. Cardinality(ToSet(keys)) = n
      <4>1. ToSet(keys) = {keys[i] : i \in 1 .. n}
        BY <2>3 DEF ToSet
      <4>2. IsFiniteSet(1 .. n) /\ Cardinality(1 .. n) = n
        <5>1. 1 \in Int /\ n \in Int
          BY <2>3
        <5>2. /\ IsFiniteSet(1 .. n)
              /\ Cardinality(1 .. n) = IF 1 > n THEN 0 ELSE n - 1 + 1
          BY ONLY <5>1, FS_Interval
        <5> QED
          BY <2>3, <5>2
      <4>3. \A i, j \in 1 .. n : keys[i] = keys[j] => i = j
        BY <2>2, <2>3 DEF LastUsed, Distinct
      <4>4. /\ IsFiniteSet({keys[i] : i \in 1 .. n})
            /\ Cardinality({keys[i] : i \in 1 .. n}) = Cardinality(1 .. n)
        <5> DEFINE D == 1 .. n
        <5>1. IsFiniteSet(D) /\ \A i, j \in D : keys[i] = keys[j] => i = j
          BY <4>2, <4>3
        <5> HIDE DEF D
        <5>2. /\ IsFiniteSet({keys[i] : i \in D})
              /\ Cardinality({keys[i] : i \in D}) = Cardinality(D)
          BY <5>1, EntriesAreFinite
        <5> QED
          BY <5>2 DEF D
      <4> QED
        BY <4>1, <4>2, <4>4
    <3>3. IsFiniteSet(UsedSince(used, k))
      BY <2>1, UsedIsFinite
    <3>4. /\ Cardinality(ToSet(keys)) <= Cardinality(UsedSince(used, k))
          /\ Cardinality(UsedSince(used, k)) \in Nat
      BY <3>1, <3>3, FS_Subset, FS_CardinalityType
    <3> QED
      BY <2>3, <3>1, <3>2, <3>4
  <2>6. ToSet(keys) \subseteq ToSet(used)
    BY <2>2 DEF LastUsed
  <2>7. \A k \in ToSet(keys) : Cardinality(UsedSince(used, k)) < IdemCapacity
    BY <2>3, <2>4 DEF ToSet
  <2>8. ToSet(keys) = {k \in ToSet(used) : Cardinality(UsedSince(used, k)) < IdemCapacity}
    BY <2>5, <2>6, <2>7
  <2> QED
    BY <2>8 DEF Known, keys, used
<1> QED
  BY <1>1, RecentInductive, PTL
=============================================================================
