--------------------------- MODULE RecordsProofs ---------------------------
(***************************************************************************)
(* What holds of the digests, of the pages of the audit log, of what a     *)
(* process keeps of its scenario and of the documents of the width         *)
(* modules, for any day, interval, venues, writers, scenarios, documents   *)
(* and requests.                                                           *)
(***************************************************************************)
EXTENDS DailyDigest, VenueDigests, AuditPages, ScenarioCaches, WidthStores,
        FiniteSetTheorems, SequenceTheorems, WellFoundedInduction, TLAPS

(***************************************************************************)
(* The digests by the clock. In the daily loop the wall clock shows how    *)
(* long ago the last cycle began, and the sleep ends when that is a day.   *)
(***************************************************************************)
WallTellsSince ==
    loop = "daily" /\ ~changed /\ since < Day =>
        wall = DigestAt + since \/ wall = DigestAt + since - Day

SleepEndsOnTime ==
    task = "asleep" /\ loop = "daily" /\ ~changed =>
        /\ wait = DigestAt - wall \/ wait = DigestAt - wall + Day
        /\ since < Day => wait = Day - since

SleepFillsInterval == task = "asleep" /\ loop = "interval" => wait + since >= Interval

DailyInv == DailyTypeOK /\ WallTellsSince /\ SleepEndsOnTime /\ SleepFillsInterval

LEMMA LongestBounds ==
  /\ Day \in Nat \ {0} /\ DigestAt \in 0 .. Day - 1 /\ Interval \in Nat \ {0}
  /\ Longest \in Nat /\ Day <= Longest /\ Interval <= Longest
BY DayAssumption DEF Longest

LEMMA SleepAgain ==
  ASSUME DailyInv, Sleep, UNCHANGED <<wall, loop, since, changed>>
  PROVE  DailyInv'
<1>1. /\ wall \in 0 .. Day - 1 /\ since \in 0 .. Longest
      /\ loop \in {"daily", "interval"} /\ changed \in BOOLEAN
  BY DEF DailyInv, DailyTypeOK
<1>2. wait' = IF loop = "daily"
              THEN IF DigestAt - wall <= 0 THEN DigestAt - wall + Day ELSE DigestAt - wall
              ELSE Interval
  BY DEF Sleep, Delay, NextRunDelay
<1>3. wait' \in 0 .. Longest
  BY <1>1, <1>2, LongestBounds
<1>4. DailyTypeOK' /\ WallTellsSince'
  BY <1>1, <1>3 DEF DailyInv, DailyTypeOK, WallTellsSince, Sleep
<1>5. SleepEndsOnTime'
  BY <1>1, <1>2, LongestBounds DEF DailyInv, WallTellsSince, SleepEndsOnTime
<1>6. SleepFillsInterval'
  BY <1>1, <1>2, LongestBounds DEF SleepFillsInterval
<1> QED
  BY <1>4, <1>5, <1>6 DEF DailyInv

LEMMA DailyInduction == DailyInv /\ [DailyNext]_dailyVars => DailyInv'
<1> SUFFICES ASSUME DailyInv, [DailyNext]_dailyVars
             PROVE  DailyInv'
  OBVIOUS
<1>0. /\ wall \in 0 .. Day - 1 /\ since \in 0 .. Longest /\ wait \in 0 .. Longest
      /\ loop \in {"daily", "interval"} /\ changed \in BOOLEAN
  BY DEF DailyInv, DailyTypeOK
<1> USE DEF SleepFillsInterval
<1>1. CASE StartDaily \/ EndCycle
  BY <1>1, SleepAgain DEF StartDaily, EndCycle
<1>2. CASE StopDaily
  BY <1>0, <1>2, LongestBounds
     DEF StopDaily, DailyInv, DailyTypeOK, WallTellsSince, SleepEndsOnTime
<1>3. CASE Wake
  <2>1. loop = "daily" /\ ~changed => wall = DigestAt
    BY <1>0, <1>3, LongestBounds DEF Wake, DailyInv, SleepEndsOnTime
  <2>2. /\ since' = 0 /\ wall' = wall /\ loop' = loop /\ task' = "composing"
        /\ wait' = wait
        /\ loop = "daily" /\ ~changed' => wall = DigestAt
    BY <1>3, <2>1 DEF Wake
  <2>3. changed' \in BOOLEAN
    BY <1>3 DEF Wake
  <2> QED
    BY <1>0, <2>2, <2>3, LongestBounds
       DEF DailyInv, DailyTypeOK, WallTellsSince, SleepEndsOnTime
<1>4. CASE Composed
  BY <1>4 DEF Composed, DailyInv, DailyTypeOK, WallTellsSince, SleepEndsOnTime
<1>5. CASE DailyTick
  <2>0. task = "asleep" => wait > 0
    BY <1>0, <1>5, LongestBounds DEF DailyTick
  <2>1. DailyTypeOK'
    BY <1>0, <1>5, <2>0, LongestBounds DEF DailyTick, DailyInv, DailyTypeOK
  <2>2. WallTellsSince'
    BY <1>0, <1>5, LongestBounds DEF DailyTick, DailyInv, WallTellsSince
  <2>3. SleepEndsOnTime'
    BY <1>0, <1>5, LongestBounds DEF DailyTick, DailyInv, SleepEndsOnTime
  <2>4. SleepFillsInterval'
    BY <1>0, <1>5, LongestBounds DEF DailyTick, DailyInv
  <2> QED
    BY <2>1, <2>2, <2>3, <2>4 DEF DailyInv
<1>6. CASE ChangeClock
  BY <1>0, <1>6 DEF ChangeClock, DailyInv, DailyTypeOK, WallTellsSince, SleepEndsOnTime
<1>7. CASE UNCHANGED dailyVars
  BY <1>7 DEF dailyVars, DailyInv, DailyTypeOK, WallTellsSince, SleepEndsOnTime
<1> QED
  BY <1>1, <1>2, <1>3, <1>4, <1>5, <1>6, <1>7 DEF DailyNext

LEMMA DailyInvariant == DailySpec => []DailyInv
<1>1. DailyInit => DailyInv
  <2> SUFFICES ASSUME DailyInit PROVE DailyInv
    OBVIOUS
  <2>1. /\ wall \in 0 .. Day - 1 /\ task = "off" /\ wait = 0 /\ since = Longest
        /\ loop \in {"daily", "interval"} /\ changed = FALSE
    BY DEF DailyInit
  <2>2. wait \in 0 .. Longest /\ since \in 0 .. Longest
    BY <2>1, LongestBounds
  <2>3. changed \in BOOLEAN
    BY <2>1
  <2>4. DailyTypeOK
    BY <2>1, <2>2, <2>3 DEF DailyTypeOK
  <2>5. WallTellsSince
    BY <2>1, LongestBounds DEF WallTellsSince
  <2> QED
    BY <2>1, <2>4, <2>5 DEF DailyInv, SleepEndsOnTime, SleepFillsInterval
<1> QED
  BY <1>1, DailyInduction, PTL DEF DailySpec

\* A daily cycle begins at its time of day and a day after the last one,
\* unless the clock was changed, and another an interval after the last one
\* (next_run_delay, DailyAtScheduler._run, DigestScheduler._run).
THEOREM DigestsAreOnTime == DailySpec => DigestsOnTime
<1>1. DailyInv /\ [DailyNext]_dailyVars
        => [Wake => IF loop = "daily" THEN changed \/ (wall = DigestAt /\ since >= Day)
                    ELSE since >= Interval]_dailyVars
  <2> SUFFICES ASSUME DailyInv, Wake
               PROVE  IF loop = "daily" THEN changed \/ (wall = DigestAt /\ since >= Day)
                      ELSE since >= Interval
    BY DEF dailyVars
  <2>1. /\ wall \in 0 .. Day - 1 /\ since \in 0 .. Longest /\ wait = 0 /\ task = "asleep"
        /\ loop \in {"daily", "interval"}
    BY DEF DailyInv, DailyTypeOK, Wake
  <2>2. CASE loop = "daily" /\ ~changed
    BY <2>1, <2>2, LongestBounds DEF DailyInv, SleepEndsOnTime
  <2>3. CASE loop = "interval"
    BY <2>1, <2>3, LongestBounds DEF DailyInv, SleepFillsInterval
  <2> QED
    BY <2>1, <2>2, <2>3
<1> QED
  BY <1>1, DailyInvariant, PTL DEF DailySpec, DigestsOnTime

(***************************************************************************)
(* The digests of the venues.                                              *)
(***************************************************************************)
\* A mute that is being removed was over when that began.
RemovedIsOver == \A v \in Venues \ raced : Removing(v) => promised[v] < time

MuteInv == MuteHolds /\ RemovedIsOver

SentIsDelivered == fanout.pc = "sent" => Current \in delivered

VenueInv == VenueTypeOK /\ MuteInv /\ SentIsDelivered /\ DigestStatusIsTrue

FanoutSteps == {"asleep", "check", "remove", "compose", "post", "sent", "refused"}
Fanouts == [pc : FanoutSteps, at : DOMAIN VenueOrder]

LEMMA CurrentVenue ==
  ASSUME VenueTypeOK
  PROVE  /\ Current \in Venues
         /\ fanout.at \in DOMAIN VenueOrder
         /\ [pc |-> "asleep", at |-> 1] \in Fanouts
         /\ Advance => fanout' \in Fanouts /\ fanout'.pc \in {"check", "asleep"}
<1>1. /\ VenueOrder \in Seq(Venues) /\ VenueOrder # << >>
      /\ DOMAIN VenueOrder = 1 .. Len(VenueOrder) /\ Len(VenueOrder) \in Nat
  BY VenueAssumption
<1>2. /\ fanout.at \in DOMAIN VenueOrder
      /\ \A n \in DOMAIN VenueOrder : VenueOrder[n] \in Venues
      /\ 1 \in DOMAIN VenueOrder
  BY <1>1 DEF VenueTypeOK
<1>3. fanout.at < Len(VenueOrder) => fanout.at + 1 \in DOMAIN VenueOrder
  BY <1>1, <1>2
<1>4. Current \in Venues
  BY <1>2 DEF Current
<1>5. [pc |-> "asleep", at |-> 1] \in Fanouts
  BY <1>2 DEF Fanouts, FanoutSteps
<1>6. ASSUME Advance PROVE fanout' \in Fanouts /\ fanout'.pc \in {"check", "asleep"}
  BY <1>2, <1>3, <1>6 DEF Fanouts, FanoutSteps, Advance
<1> QED
  BY <1>2, <1>4, <1>5, <1>6

LEMMA VenueTypeInduction == VenueTypeOK /\ [VenueNext]_venueVars => VenueTypeOK'
<1> SUFFICES ASSUME VenueTypeOK, [VenueNext]_venueVars
             PROVE  VenueTypeOK'
  OBVIOUS
<1>0. /\ Current \in Venues /\ fanout.at \in DOMAIN VenueOrder
      /\ [pc |-> "asleep", at |-> 1] \in Fanouts
      /\ Advance => fanout' \in Fanouts
      /\ MuteHorizon \in Nat
  BY CurrentVenue, VenueAssumption
<1>a. ASSUME NEW pc \in FanoutSteps, FanoutTo(pc)
      PROVE  fanout' \in Fanouts
  BY <1>a DEF FanoutTo, Fanouts, FanoutSteps, VenueTypeOK
<1>1. ASSUME NEW v \in Venues, Unmute(v) \/ \E until \in Until : SetMute(v, until)
      PROVE  VenueTypeOK'
  BY <1>1 DEF Unmute, SetMute, VenueTypeOK, digestVars
<1>2. ASSUME NEW a \in Askers, RemoveMute(a) \/ \E v \in Venues : LookAtMute(a, v)
      PROVE  VenueTypeOK'
  BY <1>2 DEF RemoveMute, LookAtMute, VenueTypeOK, digestVars
<1>3. CASE BeginCycle \/ CheckMute \/ RemoveOver \/ Post \/ BreakOff
  <2>1. fanout' \in Fanouts
    BY <1>0, <1>3, <1>a DEF FanoutSteps, BeginCycle, CheckMute, RemoveOver, Post, BreakOff
  <2> QED
    BY <1>0, <1>3, <2>1
       DEF BeginCycle, CheckMute, RemoveOver, Post, BreakOff, VenueTypeOK, Fanouts, FanoutSteps, muteVars,
           digestVars
<1>4. CASE Compose
  <2>1. fanout' \in Fanouts
    BY <1>4, <1>a DEF FanoutSteps, Compose
  <2> QED
    BY <1>0, <1>4, <2>1 DEF Compose, VenueTypeOK, Fanouts, FanoutSteps, muteVars
<1>5. CASE UpdateDigest
  <2>1. fanout' \in Fanouts
    BY <1>0, <1>5 DEF UpdateDigest
  <2> QED
    BY <1>0, <1>5, <2>1 DEF UpdateDigest, VenueTypeOK, Fanouts, FanoutSteps, muteVars
<1>6. ASSUME NEW r \in Resends, Resent(r) \/ \E v \in Venues : Resend(r, v)
      PROVE  VenueTypeOK'
  BY <1>6 DEF Resent, Resend, VenueTypeOK, muteVars
<1>7. CASE VenueTick
  BY <1>0, <1>7 DEF VenueTick, VenueTypeOK, Until, muteVars, digestVars
<1>8. CASE UNCHANGED venueVars
  BY <1>8 DEF venueVars, muteVars, digestVars, VenueTypeOK
<1> QED
  BY <1>1, <1>2, <1>3, <1>4, <1>5, <1>6, <1>7, <1>8 DEF VenueNext

LEMMA MuteInduction == VenueTypeOK /\ MuteInv /\ [VenueNext]_venueVars => MuteInv'
<1> SUFFICES ASSUME VenueTypeOK, MuteInv, [VenueNext]_venueVars
             PROVE  MuteInv'
  OBVIOUS
<1>0. /\ time \in Nat
      /\ \A v \in Venues : mute[v] \in Int /\ promised[v] \in Int
      /\ Current \in Venues /\ fanout.at \in DOMAIN VenueOrder
      /\ Advance => fanout'.pc \in {"check", "asleep"}
  BY CurrentVenue, VenueAssumption DEF VenueTypeOK, Until, NoMute
<1>a. ASSUME NEW pc \in FanoutSteps, FanoutTo(pc)
      PROVE  fanout'.pc = pc /\ Current' = Current
  BY <1>a DEF FanoutTo, VenueTypeOK, Current
<1>b. ASSUME NEW v \in Venues, Over(v), v \notin raced
      PROVE  promised[v] < time
  BY <1>0, <1>b DEF Over, MuteInv, MuteHolds
<1>1. ASSUME NEW v \in Venues, Unmute(v)
      PROVE  MuteInv'
  <2>1. \A u \in Venues : Removing(u)' <=> Removing(u)
    BY <1>1 DEF Unmute, Removing, Current
  <2> QED
    BY <1>0, <1>1, <2>1
       DEF Unmute, MuteInv, MuteHolds, RemovedIsOver, VenueTypeOK, NoMute
<1>2. ASSUME NEW v \in Venues, NEW until \in Until, SetMute(v, until)
      PROVE  MuteInv'
  <2>1. \A u \in Venues : Removing(u)' <=> Removing(u)
    BY <1>2 DEF SetMute, Removing, Current
  <2>2. Removing(v) => v \in raced'
    BY <1>2 DEF SetMute
  <2>3. \A u \in Venues \ {v} : u \in raced' <=> u \in raced
    BY <1>2 DEF SetMute
  <2>4. /\ mute'[v] = promised'[v] /\ time' = time
        /\ \A u \in Venues \ {v} : mute'[u] = mute[u] /\ promised'[u] = promised[u]
    BY <1>2 DEF SetMute, VenueTypeOK
  <2> QED
    BY <1>0, <2>1, <2>2, <2>3, <2>4 DEF MuteInv, MuteHolds, RemovedIsOver
<1>3. ASSUME NEW a \in Askers, NEW v \in Venues, LookAtMute(a, v)
      PROVE  MuteInv'
  <2>1. \A u \in Venues : Removing(u)' => Removing(u) \/ u = v
    BY <1>3 DEF LookAtMute, Removing, Current, VenueTypeOK
  <2> QED
    BY <1>3, <1>b, <2>1 DEF LookAtMute, MuteInv, MuteHolds, RemovedIsOver
<1>4. ASSUME NEW a \in Askers, RemoveMute(a)
      PROVE  MuteInv'
  <2>1. asking[a] \in Venues /\ Removing(asking[a])
    BY <1>4 DEF RemoveMute, VenueTypeOK, Removing
  <2>2. \A u \in Venues : Removing(u)' => Removing(u)
    <3>1. UNCHANGED fanout /\ Current' = Current
      BY <1>4 DEF RemoveMute, Current
    <3>2. \A u \in Venues, b \in Askers : asking'[b] = u => asking[b] = u
      BY <1>4, VenueAssumption DEF RemoveMute, VenueTypeOK
    <3> QED
      BY <3>1, <3>2 DEF Removing
  <2>3. \A u \in Venues : u # asking[a] => mute'[u] = mute[u]
    BY <1>4 DEF RemoveMute, VenueTypeOK
  <2> QED
    BY <1>0, <1>4, <2>1, <2>2, <2>3 DEF RemoveMute, MuteInv, MuteHolds, RemovedIsOver
<1>5. CASE CheckMute
  <2>1. ASSUME NEW u \in Venues, Removing(u)' PROVE Removing(u) \/ (u = Current /\ Over(u))
    <3>1. asking' = asking
      BY <1>5 DEF CheckMute, muteVars
    <3>2. CASE Advance
      BY <1>0, <2>1, <3>1, <3>2 DEF Removing
    <3>3. CASE FanoutTo("compose")
      <4>1. fanout'.pc = "compose"
        BY <1>a, <3>3 DEF FanoutSteps
      <4> QED
        BY <2>1, <3>1, <4>1 DEF Removing
    <3>4. CASE FanoutTo("remove") /\ Over(Current)
      <4>1. Current' = Current
        BY <1>a, <3>4 DEF FanoutSteps
      <4> QED
        BY <2>1, <3>1, <3>4, <4>1 DEF Removing
    <3> QED
      BY <1>5, <3>2, <3>3, <3>4 DEF CheckMute
  <2> QED
    BY <1>5, <1>b, <2>1 DEF CheckMute, MuteInv, MuteHolds, RemovedIsOver, muteVars
<1>6. CASE RemoveOver
  <2>1. Removing(Current) /\ Current' = Current
    BY <1>6, <1>a DEF FanoutSteps, RemoveOver, Removing
  <2>2. \A u \in Venues : Removing(u)' => Removing(u)
    BY <1>6, <1>a DEF FanoutSteps, RemoveOver, Removing
  <2>3. \A u \in Venues : u # Current => mute'[u] = mute[u]
    BY <1>6 DEF RemoveOver, VenueTypeOK
  <2> QED
    BY <1>0, <1>6, <2>1, <2>2, <2>3 DEF RemoveOver, MuteInv, MuteHolds, RemovedIsOver
<1>7. CASE BeginCycle \/ Compose \/ Post \/ UpdateDigest \/ BreakOff
  <2>1. fanout'.pc # "remove"
    BY <1>0, <1>7, <1>a DEF FanoutSteps, BeginCycle, Compose, Post, UpdateDigest, BreakOff
  <2>2. UNCHANGED <<time, muteVars>>
    BY <1>7 DEF BeginCycle, Compose, Post, UpdateDigest, BreakOff
  <2>3. \A u \in Venues : Removing(u)' => Removing(u)
    BY <2>1, <2>2 DEF Removing, muteVars
  <2> QED
    BY <2>2, <2>3 DEF MuteInv, MuteHolds, RemovedIsOver, muteVars
<1>8. ASSUME NEW r \in Resends, Resent(r) \/ \E v \in Venues : Resend(r, v)
      PROVE  MuteInv'
  <2>1. UNCHANGED <<time, muteVars, fanout>>
    BY <1>8 DEF Resent, Resend
  <2> QED
    BY <2>1 DEF MuteInv, MuteHolds, RemovedIsOver, Removing, Current, muteVars
<1>9. CASE VenueTick
  <2>1. time' = time + 1 /\ UNCHANGED <<muteVars, fanout>>
    BY <1>9 DEF VenueTick
  <2>2. \A u \in Venues : Removing(u)' <=> Removing(u)
    BY <2>1 DEF Removing, Current, muteVars
  <2> QED
    BY <1>0, <2>1, <2>2 DEF MuteInv, MuteHolds, RemovedIsOver, muteVars
<1>10. CASE UNCHANGED venueVars
  BY <1>10 DEF venueVars, muteVars, MuteInv, MuteHolds, RemovedIsOver, Removing, Current
<1> QED
  BY <1>1, <1>2, <1>3, <1>4, <1>5, <1>6, <1>7, <1>8, <1>9, <1>10 DEF VenueNext

LEMMA DigestInduction ==
  VenueTypeOK /\ SentIsDelivered /\ DigestStatusIsTrue /\ [VenueNext]_venueVars
    => SentIsDelivered' /\ DigestStatusIsTrue'
<1> SUFFICES ASSUME VenueTypeOK, SentIsDelivered, DigestStatusIsTrue, [VenueNext]_venueVars
             PROVE  SentIsDelivered' /\ DigestStatusIsTrue'
  OBVIOUS
<1>0. /\ Current \in Venues
      /\ Advance => fanout'.pc \in {"check", "asleep"}
  BY CurrentVenue
<1>a. ASSUME NEW pc \in FanoutSteps, FanoutTo(pc)
      PROVE  fanout'.pc = pc /\ Current' = Current
  BY <1>a DEF FanoutTo, VenueTypeOK, Current
<1>1. CASE UNCHANGED <<fanout, digestVars>>
  BY <1>1 DEF digestVars, SentIsDelivered, DigestStatusIsTrue, Current
<1>2. CASE UNCHANGED digestVars /\ fanout.pc \notin {"post", "sent", "refused"} /\ fanout'.pc # "sent"
  BY <1>2 DEF digestVars, SentIsDelivered, DigestStatusIsTrue
<1>3. CASE CheckMute \/ RemoveOver \/ BeginCycle
  <2>1. UNCHANGED digestVars /\ fanout.pc \notin {"post", "sent", "refused"} /\ fanout'.pc # "sent"
    BY <1>0, <1>3, <1>a DEF FanoutSteps, CheckMute, RemoveOver, BeginCycle
  <2> QED
    BY <1>2, <2>1
<1>4. CASE Compose
  <2>1. fanout'.pc = "post" /\ Current' = Current
    BY <1>4, <1>a DEF FanoutSteps, Compose
  <2>2. /\ digest'[Current] = "QUEUED"
        /\ \A v \in Venues \ {Current} : /\ digest'[v] = digest[v]
                                         /\ v \in delivered => v \in delivered'
                                         /\ v \in broken => v \in broken'
    BY <1>0, <1>4 DEF Compose, VenueTypeOK
  <2>3. fanout.pc = "compose"
    BY <1>4 DEF Compose
  <2> QED
    BY <1>0, <2>1, <2>2, <2>3 DEF SentIsDelivered, DigestStatusIsTrue
<1>5. CASE Post
  <2>1. /\ fanout.pc = "post" /\ UNCHANGED <<digest, broken>> /\ Current' = Current
        /\ delivered \subseteq delivered'
        /\ \/ fanout'.pc = "sent" /\ Current \in delivered'
           \/ fanout'.pc = "refused"
    BY <1>5, <1>a DEF FanoutSteps, Post
  <2> QED
    BY <2>1 DEF SentIsDelivered, DigestStatusIsTrue
<1>6. CASE UpdateDigest
  <2>1. /\ fanout'.pc \in {"check", "asleep"} /\ UNCHANGED <<delivered, broken>>
        /\ fanout.pc \in {"sent", "refused"}
    BY <1>0, <1>6 DEF UpdateDigest
  <2>2. /\ digest'[Current] = IF fanout.pc = "sent" THEN "SENT" ELSE "FAILED"
        /\ \A v \in Venues \ {Current} : digest'[v] = digest[v]
    BY <1>0, <1>6 DEF UpdateDigest, VenueTypeOK
  <2> QED
    BY <2>1, <2>2 DEF SentIsDelivered, DigestStatusIsTrue
<1>7. CASE BreakOff
  <2>1. fanout'.pc = "asleep"
    BY <1>7 DEF BreakOff
  <2>2. /\ UNCHANGED <<digest, delivered>> /\ broken \subseteq broken'
        /\ fanout.pc \in {"post", "sent", "refused"} => Current \in broken'
    BY <1>7 DEF BreakOff
  <2> QED
    BY <2>1, <2>2 DEF SentIsDelivered, DigestStatusIsTrue
<1>8. ASSUME NEW r \in Resends, NEW v \in Venues, Resend(r, v)
      PROVE  SentIsDelivered' /\ DigestStatusIsTrue'
  BY <1>8 DEF Resend, SentIsDelivered, DigestStatusIsTrue, Current
<1>9. ASSUME NEW r \in Resends, Resent(r)
      PROVE  SentIsDelivered' /\ DigestStatusIsTrue'
  <2>1. resending[r] \in Venues /\ UNCHANGED <<fanout, broken>> /\ Current' = Current
    BY <1>9 DEF Resent, VenueTypeOK, Current
  <2>2. /\ delivered \subseteq delivered'
        /\ \/ digest'[resending[r]] = "SENT" /\ resending[r] \in delivered'
           \/ digest'[resending[r]] = "FAILED"
        /\ \A v \in Venues \ {resending[r]} : digest'[v] = digest[v]
    BY <1>9, <2>1 DEF Resent, VenueTypeOK
  <2> QED
    BY <2>1, <2>2 DEF SentIsDelivered, DigestStatusIsTrue
<1>10. ASSUME \/ \E v \in Venues : Unmute(v) \/ \E until \in Until : SetMute(v, until)
              \/ \E a \in Askers : RemoveMute(a) \/ \E v \in Venues : LookAtMute(a, v)
              \/ VenueTick \/ UNCHANGED venueVars
       PROVE  SentIsDelivered' /\ DigestStatusIsTrue'
  <2>1. UNCHANGED <<fanout, digestVars>>
    BY <1>10 DEF Unmute, SetMute, RemoveMute, LookAtMute, VenueTick, venueVars
  <2> QED
    BY <1>1, <2>1
<1> QED
  BY <1>3, <1>4, <1>5, <1>6, <1>7, <1>8, <1>9, <1>10 DEF VenueNext

LEMMA VenueInvariant == VenueSpec => []VenueInv
<1>1. VenueInit => VenueInv
  <2> SUFFICES ASSUME VenueInit PROVE VenueInv
    OBVIOUS
  <2>1. VenueTypeOK
    <3>1. /\ VenueOrder \in Seq(Venues) /\ VenueOrder # << >> /\ MuteHorizon \in Nat
      BY VenueAssumption
    <3>2. 1 \in DOMAIN VenueOrder
      BY <3>1
    <3> QED
      BY <3>1, <3>2 DEF VenueInit, VenueTypeOK, Until
  <2>2. MuteInv
    BY DEF VenueInit, MuteInv, MuteHolds, RemovedIsOver, NoMute
  <2>3. SentIsDelivered /\ DigestStatusIsTrue
    BY DEF VenueInit, SentIsDelivered, DigestStatusIsTrue
  <2> QED
    BY <2>1, <2>2, <2>3 DEF VenueInv
<1>2. VenueInv /\ [VenueNext]_venueVars => VenueInv'
  BY VenueTypeInduction, MuteInduction, DigestInduction DEF VenueInv
<1> QED
  BY <1>1, <1>2, PTL DEF VenueSpec

\* A mute holds for as long as it was promised, unless it was set while the
\* one before it was being removed (is_muted, active, mute).
THEOREM MutesHold == VenueSpec => []MuteHolds
<1>1. VenueInv => MuteHolds
  BY DEF VenueInv, MuteInv
<1> QED
  BY <1>1, VenueInvariant, PTL

\* The status of a digest is what became of it (notify_digest,
\* resend_notification).
THEOREM DigestStatusHolds == VenueSpec => []DigestStatusIsTrue
<1>1. VenueInv => DigestStatusIsTrue
  BY DEF VenueInv
<1> QED
  BY <1>1, VenueInvariant, PTL

(***************************************************************************)
(* The pages of the audit log. First, finite sets of integers: the lowest  *)
(* and the highest element, and the n lowest and the n highest.            *)
(***************************************************************************)
LEMMA MaxExists ==
  ASSUME NEW S, IsFiniteSet(S), S \subseteq Int, S # {}
  PROVE  \E m \in S : \A y \in S : y <= m
<1> DEFINE Above(x) == {y \in S : y > x}
           T == {Above(x) : x \in S}
<1>1. IsWellFoundedOn(StrictSubsetOrdering(S), SUBSET S)
  BY FS_StrictSubsetOrderingWellFounded, FS_FiniteSubsetsOfFinite
<1>2. T \subseteq SUBSET S /\ T # {}
  OBVIOUS
<1> HIDE DEF T
<1>3. PICK U \in T : \A V \in T : <<V, U>> \notin StrictSubsetOrdering(S)
  BY <1>1, <1>2, WFMin
<1>4. PICK m \in S : U = Above(m)
  BY DEF T
<1>5. ASSUME NEW y \in S, y > m PROVE FALSE
  <2>0. /\ \A z \in S : z > y => z > m
        /\ ~(y > y)
    BY <1>5
  <2>1. /\ Above(y) \in T /\ Above(y) \subseteq Above(m)
        /\ y \in Above(m) /\ y \notin Above(y)
    BY <1>5, <2>0, Zenon DEF T
  <2>2. Above(y) # Above(m) /\ Above(y) \in SUBSET S /\ Above(m) \in SUBSET S
    BY <2>1
  <2> HIDE DEF Above
  <2>3. <<Above(y), U>> \in StrictSubsetOrdering(S)
    BY <1>4, <2>1, <2>2 DEF StrictSubsetOrdering
  <2> QED
    BY <1>3, <2>1, <2>3
<1> QED
  BY <1>5

LEMMA MinExists ==
  ASSUME NEW S, IsFiniteSet(S), S \subseteq Int, S # {}
  PROVE  \E m \in S : \A y \in S : m <= y
<1> DEFINE Below(x) == {y \in S : y < x}
           T == {Below(x) : x \in S}
<1>1. IsWellFoundedOn(StrictSubsetOrdering(S), SUBSET S)
  BY FS_StrictSubsetOrderingWellFounded, FS_FiniteSubsetsOfFinite
<1>2. T \subseteq SUBSET S /\ T # {}
  OBVIOUS
<1> HIDE DEF T
<1>3. PICK U \in T : \A V \in T : <<V, U>> \notin StrictSubsetOrdering(S)
  BY <1>1, <1>2, WFMin
<1>4. PICK m \in S : U = Below(m)
  BY DEF T
<1>5. ASSUME NEW y \in S, y < m PROVE FALSE
  <2>0. /\ \A z \in S : z < y => z < m
        /\ ~(y < y)
    BY <1>5
  <2>1. /\ Below(y) \in T /\ Below(y) \subseteq Below(m)
        /\ y \in Below(m) /\ y \notin Below(y)
    BY <1>5, <2>0, Zenon DEF T
  <2>2. Below(y) # Below(m) /\ Below(y) \in SUBSET S /\ Below(m) \in SUBSET S
    BY <2>1
  <2> HIDE DEF Below
  <2>3. <<Below(y), U>> \in StrictSubsetOrdering(S)
    BY <1>4, <2>1, <2>2 DEF StrictSubsetOrdering
  <2> QED
    BY <1>3, <2>1, <2>3
<1> QED
  BY <1>5

\* The n lowest are closed downwards.
LEMMA LowestIsClosed ==
  ASSUME NEW S, IsFiniteSet(S), S \subseteq Int, NEW n \in Nat,
         NEW x \in Lowest(S, n), NEW y \in S, y < x
  PROVE  y \in Lowest(S, n)
<1> DEFINE Below(z) == {u \in S : u < z}
<1>1. x \in S /\ Cardinality(Below(x)) < n
  BY DEF Lowest
<1>2. Below(y) \subseteq Below(x) /\ Below(x) \subseteq S
  <2>1. \A u \in S : u < y => u < x
    BY <1>1
  <2> QED
    BY <2>1
<1> HIDE DEF Below
<1>3. IsFiniteSet(Below(x)) /\ IsFiniteSet(Below(y))
  BY <1>2, FS_Subset
<1>4. /\ Cardinality(Below(y)) <= Cardinality(Below(x))
      /\ Cardinality(Below(x)) \in Nat /\ Cardinality(Below(y)) \in Nat
  BY <1>2, <1>3, FS_CardinalityType, FS_Subset
<1>5. Cardinality(Below(y)) < n
  BY <1>1, <1>4
<1> QED
  BY <1>5 DEF Lowest, Below

\* A set of one element or more has a lowest one.
LEMMA LowestIsNonEmpty ==
  ASSUME NEW S, IsFiniteSet(S), S \subseteq Int, S # {}, NEW n \in Nat \ {0}
  PROVE  Lowest(S, n) # {}
<1>1. PICK m \in S : \A y \in S : m <= y
  BY MinExists
<1>2. {y \in S : y < m} = {}
  <2>1. \A y \in S : ~(y < m)
    BY <1>1
  <2> QED
    BY <2>1
<1>3. m \in Lowest(S, n)
  BY <1>2, FS_EmptySet DEF Lowest
<1> QED
  BY <1>3

\* When one more was asked for and none came, there is none.
LEMMA LastPage ==
  ASSUME NEW S, IsFiniteSet(S), S \subseteq Int, NEW n \in Nat,
         Lowest(Lowest(S, n + 1), n) = Lowest(S, n + 1)
  PROVE  Lowest(S, n + 1) = S
<1> DEFINE F == Lowest(S, n + 1)
<1>0. F \subseteq S /\ IsFiniteSet(F)
  BY FS_Subset DEF Lowest
<1> SUFFICES ASSUME S \ F # {} PROVE FALSE
  BY <1>0
<1>1. IsFiniteSet(S \ F) /\ S \ F \subseteq Int
  BY FS_Subset
<1>2. PICK x \in S \ F : \A y \in S \ F : x <= y
  BY <1>1, MinExists
<1> DEFINE B == {y \in S : y < x}
<1>3. /\ IsFiniteSet(B) /\ B \subseteq F /\ B \subseteq Int
      /\ \A y \in S : y < x => y \in F
  <2>1. \A y \in S : y < x => y \in F
    BY <1>2
  <2> QED
    BY <2>1, FS_Subset
<1>4. Cardinality(B) \in Nat /\ Cardinality(B) >= n + 1
  <2>1. Cardinality(B) \in Nat
    BY <1>3, FS_CardinalityType
  <2>2. ~(Cardinality(B) < n + 1)
    BY <1>2 DEF Lowest
  <2> QED
    BY <2>1, <2>2
<1>5. B # {}
  BY <1>4, FS_EmptySet
<1>6. PICK m \in B : \A y \in B : y <= m
  BY <1>3, <1>5, MaxExists
<1>7. {y \in F : y < m} = B \ {m}
  <2>1. m \in Int /\ m < x /\ x \in Int
    BY <1>2, <1>3
  <2>2. ASSUME NEW y \in F, y < m PROVE y \in B \ {m}
    <3>1. y \in S /\ y \in Int
      BY <1>0
    <3>2. y < x /\ y # m
      BY <2>1, <2>2, <3>1
    <3> QED
      BY <3>1, <3>2
  <2>3. ASSUME NEW y \in B, y # m PROVE y \in F /\ y < m
    BY <1>3, <1>6, <2>3
  <2> QED
    BY <2>2, <2>3
<1>8. Cardinality({y \in F : y < m}) = Cardinality(B) - 1
  <2>1. IsFiniteSet(B) /\ m \in B
    BY <1>3, <1>6
  <2>2. Cardinality(B \ {m}) = Cardinality(B) - 1
    BY <2>1, FS_RemoveElement
  <2> QED
    BY <1>7, <2>2, Zenon
<1>9. m \in Lowest(F, n)
  BY <1>3
<1> QED
  BY <1>4, <1>8, <1>9 DEF Lowest

\* The n highest are n, or all there are.
LEMMA HighestCount ==
  ASSUME NEW S, IsFiniteSet(S), S \subseteq Int, NEW n \in Nat
  PROVE  /\ IsFiniteSet(Highest(S, n)) /\ Cardinality(Highest(S, n)) \in Nat
         /\ Cardinality(Highest(S, n)) <= n
         /\ Highest(S, n) # S => Cardinality(Highest(S, n)) = n
<1> DEFINE H == Highest(S, n)
           Above(x) == {y \in S : y > x}
<1>0. /\ H \subseteq S /\ IsFiniteSet(H) /\ Cardinality(H) \in Nat
      /\ \A x \in S : Cardinality(Above(x)) \in Nat /\ IsFiniteSet(Above(x))
      /\ \A x \in S : x \in H <=> Cardinality(Above(x)) < n
  BY FS_Subset, FS_CardinalityType DEF Highest
<1>1. Cardinality(H) <= n
  <2>1. CASE H = {}
    BY <2>1, FS_EmptySet
  <2>2. CASE H # {}
    <3>1. H \subseteq Int
      BY <1>0
    <3>2. PICK m \in H : \A y \in H : m <= y
      BY <1>0, <2>2, <3>1, MinExists
    <3>3. H \ {m} \subseteq Above(m)
      BY <1>0, <3>1, <3>2
    <3> HIDE DEF H, Above
    <3>4. Cardinality(H \ {m}) = Cardinality(H) - 1
      BY <1>0, <3>2, FS_RemoveElement
    <3>5. Cardinality(H \ {m}) <= Cardinality(Above(m))
      BY <1>0, <3>2, <3>3, FS_Subset
    <3> QED
      BY <1>0, <3>2, <3>4, <3>5
  <2> QED
    BY <2>1, <2>2
<1>2. ASSUME H # S PROVE Cardinality(H) >= n
  <2>1. S \ H # {} /\ IsFiniteSet(S \ H) /\ S \ H \subseteq Int
    BY <1>0, <1>2, FS_Subset
  <2>2. PICK x \in S \ H : \A y \in S \ H : y <= x
    BY <2>1, MaxExists
  <2>3. Above(x) \subseteq H
    BY <2>1, <2>2
  <2> HIDE DEF H, Above
  <2>4. Cardinality(Above(x)) >= n /\ Cardinality(Above(x)) <= Cardinality(H)
    BY <1>0, <2>2, <2>3, FS_Subset
  <2> QED
    BY <1>0, <2>2, <2>4
<1> QED
  BY <1>0, <1>1, <1>2

\* A page that is not full is the last one.
LEMMA ShortPage ==
  ASSUME NEW S, IsFiniteSet(S), S \subseteq Int, NEW n \in Nat, NEW k \in Nat,
         Cardinality(Highest(S, n + k) \ Highest(S, n)) < k
  PROVE  Highest(S, n + k) = S
<1> DEFINE A == Highest(S, n + k)
           B == Highest(S, n)
<1>0. n + k \in Nat
  OBVIOUS
<1>1. /\ IsFiniteSet(A) /\ Cardinality(A) \in Nat
      /\ A # S => Cardinality(A) = n + k
  BY <1>0, HighestCount
<1>5. IsFiniteSet(B) /\ Cardinality(B) \in Nat /\ Cardinality(B) <= n
  BY HighestCount
<1>2. Cardinality(A \ B) < k
  OBVIOUS
<1> HIDE DEF A, B
<1>3. /\ Cardinality(A \ B) = Cardinality(A) - Cardinality(A \cap B)
      /\ Cardinality(A \cap B) <= Cardinality(B) /\ Cardinality(A \cap B) \in Nat
  BY <1>1, <1>5, FS_Difference, FS_Intersection, FS_CardinalityType
<1>4. A = S
  BY <1>1, <1>2, <1>3, <1>5
<1> QED
  BY <1>4 DEF A

\* A set that grows has no fewer members below, and above, a bound.
LEMMA MoreBelowAndAbove ==
  ASSUME NEW S, NEW T, S \subseteq T, IsFiniteSet(T), NEW x
  PROVE  /\ Cardinality({y \in S : y < x}) <= Cardinality({y \in T : y < x})
         /\ Cardinality({y \in S : y > x}) <= Cardinality({y \in T : y > x})
         /\ Cardinality({y \in S : y < x}) \in Nat /\ Cardinality({y \in T : y < x}) \in Nat
         /\ Cardinality({y \in S : y > x}) \in Nat /\ Cardinality({y \in T : y > x}) \in Nat
<1>1. ASSUME NEW A, NEW B, A \subseteq B, B \subseteq T
      PROVE  /\ Cardinality(A) <= Cardinality(B)
             /\ Cardinality(A) \in Nat /\ Cardinality(B) \in Nat
  <2>1. IsFiniteSet(B) /\ IsFiniteSet(A)
    BY <1>1, FS_Subset
  <2> QED
    BY <1>1, <2>1, FS_Subset, FS_CardinalityType
<1>2. /\ {y \in S : y < x} \subseteq {y \in T : y < x} /\ {y \in T : y < x} \subseteq T
      /\ {y \in S : y > x} \subseteq {y \in T : y > x} /\ {y \in T : y > x} \subseteq T
  OBVIOUS
<1> QED
  BY <1>1, <1>2

\* Of two ids the lower one is of no later millisecond.
LEMMA MillisGrow ==
  ASSUME NEW a \in Nat, NEW b \in Nat, a <= b
  PROVE  MillisOf(a) <= MillisOf(b) /\ MillisOf(a) \in Nat /\ MillisOf(b) \in Nat
<1>0. Salts \in Nat \ {0}
  BY AuditAssumption
<1>1. ASSUME NEW x \in Nat
      PROVE  /\ x \div Salts \in Nat /\ x = Salts * (x \div Salts) + (x % Salts)
             /\ x % Salts \in 0 .. Salts - 1
  <2>1. /\ x \div Salts \in Int /\ x = Salts * (x \div Salts) + (x % Salts)
        /\ x % Salts \in 0 .. Salts - 1
    BY <1>0
  <2>2. ASSUME NEW q \in Int, NEW r \in 0 .. Salts - 1, x = Salts * q + r, q < 0
        PROVE  FALSE
    <3>1. Salts * q <= Salts * (0 - 1)
      BY <1>0, <2>2
    <3> QED
      BY <1>0, <2>2, <3>1
  <2> QED
    BY <2>1, <2>2
<1>2. ASSUME NEW q \in Nat, NEW r \in Nat, NEW u \in 0 .. Salts - 1, NEW v \in 0 .. Salts - 1,
             a = Salts * q + u, b = Salts * r + v, q > r
      PROVE  FALSE
  <2>1. Salts * q >= Salts * r + Salts
    BY <1>0, <1>2
  <2> QED
    BY <1>0, <1>2, <2>1
<1> DEFINE q == a \div Salts
           r == b \div Salts
           u == a % Salts
           v == b % Salts
<1>3. /\ q \in Nat /\ r \in Nat /\ u \in 0 .. Salts - 1 /\ v \in 0 .. Salts - 1
      /\ a = Salts * q + u /\ b = Salts * r + v
  BY <1>1
<1>4. q = MillisOf(a) /\ r = MillisOf(b)
  BY DEF MillisOf
<1> HIDE DEF q, r, u, v
<1>5. ~(q > r)
  BY <1>2, <1>3, Zenon
<1>6. q <= r
  BY <1>3, <1>5
<1> QED
  BY <1>3, <1>4, <1>6

\* What a writer has made an id for has no row yet, and no other writer has
\* that id; no id is of the future.
PendingIsNew ==
    \A w \in Writers : pending[w] # NoEntry =>
        /\ pending[w] \in minted \ log
        /\ \A u \in Writers \ {w} : pending[u] # pending[w]

NoIdIsAhead == \A id \in minted : MillisOf(id) <= millis

\* Up to its cursor the client was given all but what came late; beyond it,
\* nothing.
CursorPosition ==
    /\ reader.at = StartPages \/ reader.at \in log
    /\ reader.at = StartPages => late = {}
    /\ late \cap before = {}
    /\ ~reader.done => \A id \in seen : id <= reader.at
    /\ twice = {}
    /\ \A id \in log : id <= reader.at => id \in seen \/ id \in late
    /\ reader.done => before \subseteq seen

\* An id that is yet to come behind the cursor was pending when a page was
\* read, or is of the cursor's own millisecond.
PassedByInv ==
    reader.at # StartPages => \A w \in Writers :
        pending[w] # NoEntry /\ pending[w] \notin inFlight
            => MillisOf(reader.at) <= MillisOf(pending[w])

\* By offset it was given what stands above its offset now and was there when
\* it began, as long as nothing was pushed out of the scan.
OffsetPosition ==
    /\ reader.at \in Nat
    /\ late = {} =>
         /\ \A x \in before \cap Scanned :
              Cardinality({y \in Scanned : y > x}) < reader.at => x \in seen
         /\ reader.done => before \cap Scanned \subseteq seen

AuditInv ==
    /\ AuditTypeOK /\ PendingIsNew /\ NoIdIsAhead
    /\ reader.by = "cursor" => CursorPosition /\ PassedByInv
    /\ reader.by = "offset" => OffsetPosition

LEMMA AuditBasics ==
  ASSUME AuditTypeOK
  PROVE  /\ AuditIds \subseteq Nat /\ log \subseteq Nat /\ IsFiniteSet(log)
         /\ NoEntry \notin AuditIds /\ StartPages \notin Nat
         /\ Salts \in Nat \ {0} /\ PageLimit \in Nat \ {0} /\ ScanLimit \in Nat \ {0}
         /\ reader.at \in Int
<1>1. /\ Salts \in Nat \ {0} /\ PageLimit \in Nat \ {0} /\ ScanLimit \in Nat \ {0}
      /\ AuditHorizon \in Nat
  BY AuditAssumption
<1>2. ASSUME NEW n \in Int PROVE IsFiniteSet(0 .. n) /\ 0 .. n \subseteq Nat
  BY FS_Interval
<1>3. (AuditHorizon + 1) * Salts - 1 \in Int
  BY <1>1
<1>4. IsFiniteSet(AuditIds) /\ AuditIds \subseteq Nat
  BY <1>2, <1>3 DEF AuditIds
<1>5. log \subseteq AuditIds
  BY DEF AuditTypeOK
<1>6. IsFiniteSet(log)
  BY <1>4, <1>5, FS_Subset
<1> QED
  BY <1>1, <1>4, <1>5, <1>6 DEF NoEntry, StartPages, AuditTypeOK

LEMMA MintKeeps ==
  ASSUME AuditInv, NEW w \in Writers, NEW id \in AuditIds, Mint(w, id)
  PROVE  AuditInv'
<1>0. /\ AuditTypeOK /\ AuditIds \subseteq Nat /\ NoEntry \notin AuditIds /\ log \subseteq minted
      /\ log \subseteq Nat
  BY AuditBasics DEF AuditInv, AuditTypeOK
<1>1. /\ id \notin minted /\ MillisOf(id) = millis
      /\ minted' = minted \cup {id} /\ pending' = [pending EXCEPT ![w] = id]
      /\ UNCHANGED <<millis, log, late, inFlight, reader, seen, twice, before>>
  BY DEF Mint, readVars
<1>2. AuditTypeOK'
  BY <1>0, <1>1 DEF AuditTypeOK
<1>3. PendingIsNew'
  BY <1>0, <1>1 DEF AuditInv, PendingIsNew, AuditTypeOK
<1>4. NoIdIsAhead'
  <2>1. millis \in Nat
    BY <1>0, AuditAssumption DEF AuditTypeOK
  <2> QED
    BY <1>1, <2>1 DEF AuditInv, NoIdIsAhead
<1>5. reader.by = "cursor" => CursorPosition'
  BY <1>1 DEF AuditInv, CursorPosition
<1>6. reader.by = "cursor" => PassedByInv'
  <2> SUFFICES ASSUME reader.by = "cursor", reader.at # StartPages,
                      NEW u \in Writers, pending'[u] # NoEntry, pending'[u] \notin inFlight
               PROVE  MillisOf(reader.at) <= MillisOf(pending'[u])
    BY <1>1 DEF PassedByInv
  <2>1. CASE u = w
    <3>1. pending'[u] = id /\ reader.at \in minted
      BY <1>0, <1>1, <2>1 DEF AuditInv, CursorPosition, AuditTypeOK
    <3> QED
      BY <1>1, <3>1 DEF AuditInv, NoIdIsAhead
  <2>2. CASE u # w
    BY <1>0, <1>1, <2>2 DEF AuditInv, PassedByInv, AuditTypeOK
  <2> QED
    BY <2>1, <2>2
<1>7. reader.by = "offset" => OffsetPosition'
  BY <1>1 DEF AuditInv, OffsetPosition, Scanned
<1> QED
  BY <1>1, <1>2, <1>3, <1>4, <1>5, <1>6, <1>7 DEF AuditInv

LEMMA RecordKeeps ==
  ASSUME AuditInv, NEW w \in Writers, Record(w)
  PROVE  AuditInv'
<1> DEFINE p == pending[w]
<1>0. /\ AuditTypeOK /\ AuditIds \subseteq Nat /\ NoEntry \notin AuditIds /\ log \subseteq Nat
      /\ IsFiniteSet(log) /\ reader.at \in Int /\ StartPages \notin Nat
      /\ ScanLimit \in Nat
  BY AuditBasics DEF AuditInv
<1>1. /\ p # NoEntry /\ log' = log \cup {p} /\ pending' = [pending EXCEPT ![w] = NoEntry]
      /\ reader.by = "cursor" => late' = IF p <= reader.at THEN late \cup {p} ELSE late
      /\ reader.by # "cursor" => late' = IF ~(Scanned \subseteq Scanned') /\ reader.by = "offset"
                                         THEN late \cup {p} ELSE late
      /\ UNCHANGED <<millis, minted, inFlight, reader, seen, twice, before>>
  BY DEF Record, readVars
<1>2. /\ p \in minted \ log /\ p \in Nat
      /\ \A u \in Writers \ {w} : pending[u] # p
  BY <1>0, <1>1 DEF AuditInv, PendingIsNew, AuditTypeOK
<1> HIDE DEF p
<1>3. \A u \in Writers : pending'[u] # NoEntry => u # w /\ pending'[u] = pending[u]
  BY <1>0, <1>1 DEF AuditTypeOK
<1>4. AuditTypeOK'
  BY <1>0, <1>1, <1>2 DEF AuditTypeOK
<1>5. PendingIsNew'
  BY <1>1, <1>2, <1>3 DEF AuditInv, PendingIsNew
<1>6. NoIdIsAhead'
  BY <1>1 DEF AuditInv, NoIdIsAhead
<1>7. reader.by = "cursor" => CursorPosition'
  <2> SUFFICES ASSUME reader.by = "cursor" PROVE CursorPosition'
    OBVIOUS
  <2>1. CursorPosition /\ before \subseteq log
    BY <1>0 DEF AuditInv, AuditTypeOK
  <2>2. reader.at = StartPages => ~(p <= reader.at)
    BY <1>2 DEF StartPages
  <2> QED
    BY <1>1, <1>2, <2>1, <2>2 DEF CursorPosition
<1>8. reader.by = "cursor" => PassedByInv'
  BY <1>1, <1>3 DEF AuditInv, PassedByInv
<1>9. reader.by = "offset" => OffsetPosition'
  <2> SUFFICES ASSUME reader.by = "offset", late' = {}
               PROVE  OffsetPosition'
    BY <1>0, <1>1 DEF OffsetPosition, AuditInv
  <2>1. /\ late = {} /\ Scanned \subseteq Scanned'
        /\ OffsetPosition /\ reader.at \in Nat /\ before \subseteq log
    BY <1>0, <1>1 DEF AuditInv, OffsetPosition, AuditTypeOK
  <2>2. IsFiniteSet(log') /\ log \subseteq log' /\ IsFiniteSet(Scanned')
    <3>1. IsFiniteSet(log') /\ log \subseteq log' /\ Scanned' \subseteq log'
      BY <1>0, <1>1, FS_AddElement DEF Scanned, Lowest
    <3> QED
      BY <3>1, FS_Subset
  <2>3. before \cap Scanned' \subseteq Scanned
    <3> SUFFICES ASSUME NEW x \in before, x \in Scanned' PROVE x \in Scanned
      OBVIOUS
    <3> DEFINE a == Cardinality({y \in log : y < x})
               b == Cardinality({y \in log' : y < x})
    <3>1. a <= b /\ a \in Nat /\ b \in Nat
      BY <2>2, MoreBelowAndAbove
    <3>2. b < ScanLimit
      BY DEF Scanned, Lowest
    <3> HIDE DEF a, b
    <3>3. a < ScanLimit
      BY <1>0, <3>1, <3>2
    <3> QED
      BY <2>1, <3>3 DEF a, Scanned, Lowest
  <2>4. ASSUME NEW x \in before \cap Scanned',
               Cardinality({y \in Scanned' : y > x}) < reader.at
        PROVE  x \in seen
    <3> DEFINE a == Cardinality({y \in Scanned : y > x})
               b == Cardinality({y \in Scanned' : y > x})
    <3>1. a <= b /\ a \in Nat /\ b \in Nat /\ b < reader.at
      BY <2>1, <2>2, <2>4, MoreBelowAndAbove
    <3> HIDE DEF a, b
    <3>2. a < reader.at
      BY <2>1, <3>1
    <3> QED
      BY <2>1, <2>3, <3>2 DEF a, OffsetPosition
  <2>5. reader.done => before \cap Scanned' \subseteq seen
    BY <2>1, <2>3 DEF OffsetPosition
  <2> QED
    BY <1>1, <2>1, <2>4, <2>5 DEF OffsetPosition
<1> QED
  BY <1>1, <1>4, <1>5, <1>6, <1>7, <1>8, <1>9 DEF AuditInv

LEMMA FailOrTickKeeps ==
  ASSUME AuditInv, AuditTick \/ \E w \in Writers : RecordFails(w)
  PROVE  AuditInv'
<1>0. AuditTypeOK /\ NoEntry \notin AuditIds /\ AuditIds \subseteq Nat
  BY AuditBasics DEF AuditInv
<1>1. UNCHANGED <<minted, log, late, inFlight, reader, seen, twice, before>>
  BY DEF AuditTick, RecordFails, readVars
<1>2. \A w \in Writers : pending'[w] # NoEntry => pending'[w] = pending[w]
  BY <1>0 DEF AuditTick, RecordFails, AuditTypeOK
<1>3. /\ pending' \in [Writers -> AuditIds \cup {NoEntry}]
      /\ millis' \in 0 .. AuditHorizon /\ millis <= millis'
  BY <1>0, AuditAssumption DEF AuditTick, RecordFails, AuditTypeOK
<1>4. AuditTypeOK'
  BY <1>0, <1>1, <1>3 DEF AuditTypeOK
<1>5. PendingIsNew'
  BY <1>1, <1>2 DEF AuditInv, PendingIsNew
<1>6. NoIdIsAhead'
  <2>1. \A id \in minted : MillisOf(id) \in Nat
    BY <1>0, MillisGrow DEF AuditTypeOK
  <2>2. millis \in Nat /\ millis' \in Nat
    BY <1>0, <1>3, AuditAssumption DEF AuditTypeOK
  <2> QED
    BY <1>1, <1>3, <2>1, <2>2 DEF AuditInv, NoIdIsAhead
<1>7. reader.by = "cursor" => CursorPosition' /\ PassedByInv'
  BY <1>1, <1>2 DEF AuditInv, CursorPosition, PassedByInv
<1>8. reader.by = "offset" => OffsetPosition'
  BY <1>1 DEF AuditInv, OffsetPosition, Scanned
<1> QED
  BY <1>1, <1>4, <1>5, <1>6, <1>7, <1>8 DEF AuditInv

LEMMA CursorKeeps ==
  ASSUME AuditInv, ReadByCursor
  PROVE  AuditInv'
<1> DEFINE R == RestAfter(reader.at)
           F == Lowest(R, PageLimit + 1)
           P == Lowest(F, PageLimit)
<1>0. /\ AuditTypeOK /\ log \subseteq Nat /\ IsFiniteSet(log) /\ PageLimit \in Nat \ {0}
      /\ reader.at \in Int /\ AuditIds \subseteq Nat
  BY AuditBasics DEF AuditInv
<1>1. /\ reader.by = "cursor" /\ ~reader.done
      /\ before' = IF reader.at = StartPages THEN log ELSE before
      /\ seen' = seen \cup P /\ twice' = twice \cup (seen \cap P)
      /\ inFlight' = {pending[w] : w \in Writers} \ {NoEntry}
      /\ reader' = IF F = P THEN [reader EXCEPT !.done = TRUE]
                   ELSE [reader EXCEPT !.at = NextCursor(F, P)]
      /\ UNCHANGED <<millis, minted, pending, log, late>>
  BY DEF ReadByCursor, Give
<1>2. /\ P \subseteq F /\ F \subseteq R /\ R \subseteq log
      /\ IsFiniteSet(R) /\ IsFiniteSet(F) /\ IsFiniteSet(P)
      /\ R \subseteq Int /\ F \subseteq Int /\ P \subseteq Int
      /\ \A id \in log : id \in R <=> id > reader.at
  <2>1. P \subseteq F /\ F \subseteq R /\ R \subseteq log
    BY DEF Lowest, RestAfter
  <2>2. \A id \in log : id \in R <=> id > reader.at
    BY DEF RestAfter
  <2> HIDE DEF R, F, P
  <2>3. IsFiniteSet(R) /\ IsFiniteSet(F) /\ IsFiniteSet(P)
    BY <1>0, <2>1, FS_Subset
  <2> QED
    BY <1>0, <2>1, <2>2, <2>3
<1>3. ASSUME NEW x \in P, NEW y \in R, y < x PROVE y \in P
  <2>1. PageLimit + 1 \in Nat /\ PageLimit \in Nat /\ x \in F
    BY <1>0, <1>2
  <2> HIDE DEF R
  <2>2. y \in F
    BY <1>2, <1>3, <2>1, LowestIsClosed
  <2> HIDE DEF F
  <2> QED
    BY <1>2, <1>3, <2>1, <2>2, LowestIsClosed
<1>4. F = P => P = R
  <2>1. PageLimit \in Nat
    BY <1>0
  <2> HIDE DEF R
  <2> QED
    BY <1>2, <2>1, LastPage
<1>5. F # P => NextCursor(F, P) \in P /\ \A y \in P : y <= NextCursor(F, P)
  <2> SUFFICES ASSUME F # P
               PROVE  NextCursor(F, P) \in P /\ \A y \in P : y <= NextCursor(F, P)
    OBVIOUS
  <2>1. F # {}
    BY <1>2
  <2>2. P # {}
    <3> HIDE DEF F
    <3> QED
      BY <1>0, <1>2, <2>1, LowestIsNonEmpty
  <2> HIDE DEF F, P
  <2>3. \E x \in P : \A y \in P : y <= x
    BY <1>2, <2>2, MaxExists
  <2> QED
    BY <2>3 DEF NextCursor
<1> HIDE DEF R, F, P
<1>6. CursorPosition
  BY <1>1 DEF AuditInv
<1>7. AuditTypeOK'
  <2>1. /\ reader'.by = "cursor" /\ reader' \in [by : {"cursor", "offset"},
                                                 at : Nat \cup {StartPages}, done : BOOLEAN]
    BY <1>0, <1>1, <1>2, <1>5 DEF AuditTypeOK
  <2>2. {seen', twice', before', late} \subseteq SUBSET log
    BY <1>0, <1>1, <1>2 DEF AuditTypeOK
  <2>3. inFlight' \subseteq minted
    BY <1>1 DEF AuditInv, PendingIsNew
  <2> QED
    BY <1>0, <1>1, <2>1, <2>2, <2>3 DEF AuditTypeOK
<1>8. PendingIsNew' /\ NoIdIsAhead'
  BY <1>1 DEF AuditInv, PendingIsNew, NoIdIsAhead
<1>9. twice' = {}
  <2>1. \A id \in seen : id \notin P
    BY <1>0, <1>1, <1>2, <1>6 DEF CursorPosition, AuditTypeOK
  <2> QED
    BY <1>1, <1>6, <2>1 DEF CursorPosition
<1>10. late' \cap before' = {}
  BY <1>1, <1>6 DEF CursorPosition
<1>11. CASE F = P
  <2>1. reader'.at = reader.at /\ reader'.done /\ reader'.by = "cursor"
    BY <1>0, <1>1, <1>11 DEF AuditTypeOK
  <2>2. before' \subseteq seen'
    <3> SUFFICES ASSUME NEW id \in before' PROVE id \in seen'
      OBVIOUS
    <3>1. id \in log /\ id \in Nat
      BY <1>0, <1>1 DEF AuditTypeOK
    <3>2. CASE id > reader.at
      BY <1>1, <1>2, <1>4, <1>11, <3>1, <3>2
    <3>3. CASE ~(id > reader.at)
      <4>1. id <= reader.at /\ reader.at # StartPages
        BY <1>0, <3>1, <3>3 DEF StartPages
      <4>2. id \in before
        BY <1>1, <4>1
      <4> QED
        BY <1>1, <1>6, <3>1, <4>1, <4>2 DEF CursorPosition
    <3> QED
      BY <3>2, <3>3
  <2>3. CursorPosition'
    BY <1>1, <1>6, <1>9, <1>10, <2>1, <2>2 DEF CursorPosition
  <2>4. PassedByInv'
    BY <1>1 DEF PassedByInv
  <2> QED
    BY <1>7, <1>8, <2>1, <2>3, <2>4 DEF AuditInv
<1>12. CASE F # P
  <2>1. /\ reader'.at \in P /\ ~reader'.done /\ reader'.by = "cursor"
        /\ \A y \in P : y <= reader'.at
    BY <1>0, <1>1, <1>5, <1>12 DEF AuditTypeOK
  <2>2. reader'.at > reader.at /\ reader'.at \in log /\ reader'.at \in Int
        /\ reader'.at # StartPages
    <3>1. reader'.at \in R /\ reader'.at \in log
      BY <1>2, <2>1, Zenon
    <3> DEFINE next == reader'.at
    <3>2. next > reader.at
      BY <1>2, <3>1
    <3>3. next \in Nat
      BY <1>0, <3>1
    <3>4. next # StartPages
      BY <3>3 DEF StartPages
    <3> QED
      BY <3>1, <3>2, <3>3, <3>4
  <2>3. \A id \in seen' : id <= reader'.at
    <3>1. \A id \in seen : id <= reader.at /\ id \in Int
      BY <1>0, <1>1, <1>6 DEF CursorPosition, AuditTypeOK
    <3> QED
      BY <1>0, <1>1, <2>1, <2>2, <3>1
  <2>4. ASSUME NEW id \in log, id <= reader'.at PROVE id \in seen' \/ id \in late'
    <3>1. CASE id <= reader.at
      BY <1>1, <1>6, <3>1 DEF CursorPosition
    <3>2. CASE ~(id <= reader.at)
      <4>1. id \in R /\ (id < reader'.at \/ id = reader'.at)
        BY <1>0, <1>2, <2>2, <2>4, <3>2
      <4>2. id \in P
        BY <1>3, <2>1, <4>1
      <4> QED
        BY <1>1, <4>2
    <3> QED
      BY <3>1, <3>2
  <2>5. CursorPosition'
    BY <1>1, <1>9, <1>10, <2>1, <2>2, <2>3, <2>4 DEF CursorPosition
  <2>6. PassedByInv'
    BY <1>1 DEF PassedByInv
  <2> QED
    BY <1>7, <1>8, <2>1, <2>5, <2>6 DEF AuditInv
<1> QED
  BY <1>11, <1>12

LEMMA OffsetKeeps ==
  ASSUME AuditInv, ReadByOffset
  PROVE  AuditInv'
<1> DEFINE P == OffsetPage(reader.at)
<1>0. /\ AuditTypeOK /\ log \subseteq Nat /\ IsFiniteSet(log) /\ PageLimit \in Nat \ {0}
      /\ AuditIds \subseteq Nat /\ ScanLimit \in Nat
  BY AuditBasics DEF AuditInv
<1>1. /\ reader.by = "offset" /\ ~reader.done /\ OffsetPosition /\ reader.at \in Nat
      /\ before' = IF reader.at = 0 THEN log ELSE before
      /\ seen' = seen \cup P /\ twice' = twice \cup (seen \cap P)
      /\ inFlight' = {pending[w] : w \in Writers} \ {NoEntry}
      /\ reader' = [reader EXCEPT !.at = reader.at + PageLimit,
                                  !.done = Cardinality(P) < PageLimit]
      /\ UNCHANGED <<millis, minted, pending, log, late>>
  BY DEF ReadByOffset, Give, AuditInv, OffsetPosition
<1>2. P \subseteq log
  BY DEF OffsetPage, Highest, Scanned, Lowest
<1>3. /\ P = Highest(Scanned, reader.at + PageLimit) \ Highest(Scanned, reader.at)
      /\ Scanned' = Scanned /\ Scanned \subseteq log /\ IsFiniteSet(Scanned)
      /\ Scanned \subseteq Int
  <2>1. /\ P = Highest(Scanned, reader.at + PageLimit) \ Highest(Scanned, reader.at)
        /\ Scanned' = Scanned /\ Scanned \subseteq log
    BY <1>1 DEF OffsetPage, Scanned, Lowest
  <2>2. IsFiniteSet(Scanned)
    BY <1>0, <2>1, FS_Subset
  <2> QED
    BY <1>0, <2>1, <2>2
<1> HIDE DEF P
<1>4. /\ reader'.by = "offset" /\ reader'.at = reader.at + PageLimit /\ reader'.at \in Nat
      /\ reader'.done = (Cardinality(P) < PageLimit)
      /\ reader' \in [by : {"cursor", "offset"}, at : Nat \cup {StartPages}, done : BOOLEAN]
  <2>1. (Cardinality(P) < PageLimit) \in BOOLEAN /\ reader.at + PageLimit \in Nat
    BY <1>0, <1>1
  <2> QED
    BY <1>0, <1>1, <2>1 DEF AuditTypeOK
<1>5. AuditTypeOK'
  <2>1. {seen', twice', before', late} \subseteq SUBSET log
    BY <1>0, <1>1, <1>2 DEF AuditTypeOK
  <2>2. inFlight' \subseteq minted
    BY <1>1 DEF AuditInv, PendingIsNew
  <2> QED
    BY <1>0, <1>1, <1>4, <2>1, <2>2 DEF AuditTypeOK
<1>6. PendingIsNew' /\ NoIdIsAhead'
  BY <1>1 DEF AuditInv, PendingIsNew, NoIdIsAhead
<1>7. ASSUME late = {}, NEW x \in before' \cap Scanned,
             Cardinality({y \in Scanned : y > x}) < reader.at + PageLimit
      PROVE  x \in seen'
  <2>1. x \in Highest(Scanned, reader.at + PageLimit)
    BY <1>7 DEF Highest
  <2>2. CASE x \in Highest(Scanned, reader.at)
    <3>1. Cardinality({y \in Scanned : y > x}) < reader.at
      BY <2>2 DEF Highest
    <3>2. reader.at # 0
      <4>1. Cardinality({y \in Scanned : y > x}) \in Nat
        BY <1>3, FS_Subset, FS_CardinalityType
      <4> QED
        BY <1>1, <3>1, <4>1
    <3>3. x \in before \cap Scanned
      BY <1>1, <1>7, <3>2
    <3> QED
      BY <1>1, <1>7, <3>1, <3>3 DEF OffsetPosition
  <2>3. CASE x \notin Highest(Scanned, reader.at)
    BY <1>1, <1>3, <2>1, <2>3
  <2> QED
    BY <2>2, <2>3
<1>8. ASSUME late = {}, Cardinality(P) < PageLimit
      PROVE  before' \cap Scanned \subseteq seen'
  <2>1. Highest(Scanned, reader.at + PageLimit) = Scanned
    <3>1. /\ Cardinality(Highest(Scanned, reader.at + PageLimit)
                           \ Highest(Scanned, reader.at)) < PageLimit
          /\ PageLimit \in Nat
      BY <1>0, <1>3, <1>8
    <3> HIDE DEF Scanned
    <3> QED
      BY <1>1, <1>3, <3>1, ShortPage
  <2>2. \A x \in Scanned : Cardinality({y \in Scanned : y > x}) < reader.at + PageLimit
    BY <2>1 DEF Highest
  <2> QED
    BY <1>7, <1>8, <2>2
<1>9. OffsetPosition'
  BY <1>1, <1>3, <1>4, <1>7, <1>8 DEF OffsetPosition
<1> QED
  BY <1>4, <1>5, <1>6, <1>9 DEF AuditInv

LEMMA AuditInvariant == AuditSpec => []AuditInv
<1>1. AuditInit => AuditInv
  <2> SUFFICES ASSUME AuditInit PROVE AuditInv
    OBVIOUS
  <2>1. AuditTypeOK
    <3>1. 0 \in 0 .. AuditHorizon
      BY AuditAssumption
    <3>2. reader \in [by : {"cursor", "offset"}, at : Nat \cup {StartPages}, done : BOOLEAN]
      <4>1. \A by \in {"cursor", "offset"}, at \in Nat \cup {StartPages}, done \in BOOLEAN :
              [by |-> by, at |-> at, done |-> done] \in
                [by : {"cursor", "offset"}, at : Nat \cup {StartPages}, done : BOOLEAN]
        OBVIOUS
      <4>2. FALSE \in BOOLEAN /\ 0 \in Nat
        OBVIOUS
      <4> QED
        BY <4>1, <4>2, Zenon DEF AuditInit
    <3>3. /\ millis = 0 /\ minted = {} /\ log = {} /\ late = {} /\ inFlight = {}
          /\ pending \in [Writers -> AuditIds \cup {NoEntry}]
          /\ seen = {} /\ twice = {} /\ before = {}
      BY DEF AuditInit
    <3> QED
      BY <3>1, <3>2, <3>3 DEF AuditTypeOK
  <2>2. PendingIsNew /\ NoIdIsAhead
    BY DEF AuditInit, PendingIsNew, NoIdIsAhead
  <2>3. reader.by = "cursor" => CursorPosition /\ PassedByInv
    BY DEF AuditInit, CursorPosition, PassedByInv
  <2>4. reader.by = "offset" => OffsetPosition
    BY DEF AuditInit, OffsetPosition
  <2> QED
    BY <2>1, <2>2, <2>3, <2>4 DEF AuditInv
<1>2. AuditInv /\ [AuditNext]_auditVars => AuditInv'
  <2> SUFFICES ASSUME AuditInv, [AuditNext]_auditVars PROVE AuditInv'
    OBVIOUS
  <2>1. CASE UNCHANGED auditVars
    BY <2>1 DEF auditVars, readVars, AuditInv, AuditTypeOK, PendingIsNew, NoIdIsAhead,
                CursorPosition, PassedByInv, OffsetPosition, Scanned
  <2> QED
    BY <2>1, MintKeeps, RecordKeeps, FailOrTickKeeps, CursorKeeps, OffsetKeeps DEF AuditNext
<1> QED
  BY <1>1, <1>2, PTL DEF AuditSpec

\* A client that pages by cursor is given nothing twice and misses only what
\* was committed behind its cursor; one that pages by offset misses, of what
\* was there and is scanned, nothing unless a late row pushed another out of
\* the scan - for any number of writers, entries and milliseconds, any page
\* and any limit of the scan (query_audit; auth_events, slo_burn_events).
THEOREM PagesHold == AuditSpec => []PagesMissOnlyLateRows
<1>1. AuditInv => PagesMissOnlyLateRows
  <2> SUFFICES ASSUME AuditInv PROVE PagesMissOnlyLateRows
    OBVIOUS
  <2>1. CursorMissesOnlyLate
    BY DEF AuditInv, CursorPosition, CursorMissesOnlyLate
  <2>2. OffsetMissesOnlyPushed
    BY DEF AuditInv, OffsetPosition, OffsetMissesOnlyPushed
  <2> QED
    BY <2>1, <2>2 DEF PagesMissOnlyLateRows
<1> QED
  BY <1>1, AuditInvariant, PTL

\* The cursor passes by no entry that is made in a later millisecond than its
\* own and after a page was read (new_audit_id, query_audit).
THEOREM CursorPassesByNoLaterEntry == AuditSpec => PassedByWasPending
<1>1. ASSUME AuditInv, [AuditNext]_auditVars,
             reader.by = "cursor", NEW id \in late' \ late, id \notin inFlight
      PROVE  MillisOf(id) = MillisOf(reader.at)
  <2>1. PICK w \in Writers : Record(w)
    BY <1>1 DEF AuditNext, auditVars, readVars, Mint, RecordFails, AuditTick, ReadByCursor,
                ReadByOffset
  <2>2. /\ id = pending[w] /\ pending[w] # NoEntry /\ reader.by = "cursor"
        /\ id <= reader.at
    BY <1>1, <2>1 DEF Record
  <2>3. /\ id \in Nat /\ log \subseteq Nat
    BY <1>1, <2>2, AuditBasics DEF AuditInv, AuditTypeOK
  <2>4. reader.at \in Nat /\ reader.at # StartPages
    <3>1. reader.at = StartPages \/ reader.at \in log
      BY <1>1, <2>2 DEF AuditInv, CursorPosition
    <3>2. reader.at # StartPages
      BY <2>2, <2>3 DEF StartPages
    <3> QED
      BY <2>3, <3>1, <3>2
  <2>5. MillisOf(reader.at) <= MillisOf(id)
    BY <1>1, <2>2, <2>4 DEF AuditInv, PassedByInv
  <2>6. /\ MillisOf(id) <= MillisOf(reader.at)
        /\ MillisOf(id) \in Nat /\ MillisOf(reader.at) \in Nat
    BY <2>2, <2>3, <2>4, MillisGrow
  <2> QED
    BY <2>5, <2>6
<1>2. AuditInv /\ [AuditNext]_auditVars
        => [reader.by = "cursor" =>
              \A id \in late' \ late : id \in inFlight \/ MillisOf(id) = MillisOf(reader.at)]_auditVars
  BY <1>1
<1> QED
  BY <1>2, AuditInvariant, PTL DEF AuditSpec, PassedByWasPending

(***************************************************************************)
(* The caches of the scenario, and what a request may count on at each of  *)
(* its steps: of the objectives that it has still to fill, all others are  *)
(* filled; once it is past the fill, all are; and the roster in the        *)
(* directory is its own or came after its own.                             *)
(***************************************************************************)
AllFilled == \A o \in SLOsOf(scenario) : filledIn[o] = epoch

ViewOK(v) ==
    /\ v \in Views
    /\ client = "mock" => v.at # "entities"
    /\ v.at \in {"series", "saving"} => v.left # << >>
    /\ v.at = "series" /\ ~outrun =>
          /\ v.of = scenario
          /\ \A o \in SLOsOf(scenario) :
                filledIn[o] = epoch \/ \E i \in DOMAIN v.left : v.left[i] = o
    /\ v.kind = "alerts" /\ v.at \in {"schedule", "stored", "saving", "look", "answer"}
          /\ v.crossed = FALSE /\ ~outrun => AllFilled
    /\ v.kind = "oncall" => v.at \in {"idle", "schedule", "answer"}
    /\ v.kind # "alerts" => v.alerts = {} /\ v.at # "look"
    /\ v.crossed = FALSE => v.alerts \subseteq SLOsOf(scenario)
    /\ v.at \notin {"look", "answer"} => v.alerts = {} /\ v.shown = {}
    /\ v.kind = "alerts" /\ v.at \in {"stored", "saving", "look"} => roster \in v.told
    /\ v.shown \subseteq v.told

ScenarioInv ==
    /\ ScenarioTypeOK
    /\ CachesFollowTheScenario
    /\ \A r \in Viewers : ViewOK(view[r])

LEMMA SLOsInOrder ==
  ASSUME NEW s \in Scenarios
  PROVE  /\ ScenarioSLOs[s] \in Seq(AllSLOs) /\ ScenarioSLOs[s] # << >>
         /\ SLOsOf(s) \subseteq AllSLOs
         /\ \A o \in SLOsOf(s) : \E i \in DOMAIN ScenarioSLOs[s] : ScenarioSLOs[s][i] = o
<1>1. ScenarioSLOs[s] \in Seq(AllSLOs) /\ ScenarioSLOs[s] # << >>
  BY ScenarioAssumption
<1>2. SLOsOf(s) \subseteq AllSLOs
  BY DEF AllSLOs
<1>3. \A o \in SLOsOf(s) : \E i \in DOMAIN ScenarioSLOs[s] : ScenarioSLOs[s][i] = o
  BY DEF SLOsOf
<1> QED
  BY <1>1, <1>2, <1>3

LEMMA IdleIsOK == ASSUME ScenarioTypeOK PROVE ViewOK(NoView)
<1>1. << >> \in Seq(AllSLOs) /\ {} \in SUBSET AllSLOs /\ {} \in SUBSET Nat
      /\ DefaultScenario \in Scenarios
  BY ScenarioAssumption
<1>2. NoView \in Views
  BY <1>1 DEF NoView, Views, ViewKinds, Stages
<1>3. NoView.at = "idle" /\ NoView.kind = "oncall"
  BY DEF NoView
<1>4. NoView.alerts = {} /\ NoView.shown = {}
  BY DEF NoView
<1> QED
  BY <1>2, <1>3, <1>4 DEF ViewOK

\* What a request has that is about to read the budgets.
MayRead(v) ==
    /\ v \in Views /\ v.kind # "oncall"
    /\ v.alerts = {} /\ v.shown = {}
    /\ v.kind = "alerts" => roster \in v.told
    /\ v.kind = "alerts" /\ v.crossed = FALSE /\ ~outrun => AllFilled

LEMMA EvaluatingIsOK ==
  ASSUME ScenarioTypeOK, NEW v, MayRead(v)
  PROVE  ViewOK(Evaluating(v))
<1>1. ScenarioSLOs[scenario] \in Seq(AllSLOs) /\ ScenarioSLOs[scenario] # << >>
      /\ scenario \in Scenarios
  BY SLOsInOrder DEF ScenarioTypeOK
<1>2. v \in Views
  BY DEF MayRead
<1> DEFINE x == Evaluating(v)
<1>3. /\ x \in Views /\ x.at = "saving"
      /\ x.left = ScenarioSLOs[scenario] /\ x.kind = v.kind
      /\ x.alerts = v.alerts /\ x.shown = v.shown /\ x.told = v.told /\ x.crossed = v.crossed
  BY <1>1, <1>2 DEF Evaluating, Views, Stages
<1> HIDE DEF x
<1>4. ViewOK(x)
  BY <1>1, <1>3 DEF ViewOK, MayRead
<1> QED
  BY <1>4 DEF x

\* After the map a request is about to evaluate, to list, to fetch the
\* schedule or to fill the series of the present scenario.
LEMMA AfterMapIsOK ==
  ASSUME ScenarioTypeOK, CachesFollowTheScenario,
         NEW v \in Views, v.kind # "oncall", v.alerts = {}, v.shown = {}
  PROVE  ViewOK(AfterMap(v))
<1>0. v.kind \in {"alerts", "budgets", "analytics"}
  BY DEF Views, ViewKinds
<1>1. CASE v.kind = "budgets"
  BY <1>1, EvaluatingIsOK DEF AfterMap, MayRead
<1>2. CASE v.kind = "analytics"
  <2> DEFINE x == [v EXCEPT !.at = "stored"]
  <2>1. AfterMap(v) = x
    BY <1>2 DEF AfterMap
  <2>2. x \in Views /\ x.at = "stored" /\ x.kind = "analytics" /\ x.alerts = {} /\ x.shown = {}
    BY <1>2 DEF Views, Stages
  <2> HIDE DEF x
  <2>3. ViewOK(x)
    BY <2>2 DEF ViewOK
  <2> QED
    BY <2>1, <2>3
<1>3. CASE v.kind = "alerts" /\ backfilled
  <2> DEFINE x == [v EXCEPT !.at = "schedule"]
  <2>1. AfterMap(v) = x
    BY <1>3 DEF AfterMap
  <2>2. x \in Views /\ x.at = "schedule" /\ x.kind = "alerts" /\ x.alerts = {} /\ x.shown = {}
    BY <1>3 DEF Views, Stages
  <2>4. outrun \/ AllFilled
    BY <1>3 DEF CachesFollowTheScenario, AllFilled
  <2> HIDE DEF x
  <2>3. ViewOK(x)
    BY <2>2, <2>4 DEF ViewOK
  <2> QED
    BY <2>1, <2>3
<1>4. CASE v.kind = "alerts" /\ ~backfilled
  <2> DEFINE x == [v EXCEPT !.at = "series", !.of = scenario, !.left = ScenarioSLOs[scenario]]
  <2>1. AfterMap(v) = x
    BY <1>4 DEF AfterMap
  <2>2. ScenarioSLOs[scenario] \in Seq(AllSLOs) /\ ScenarioSLOs[scenario] # << >>
        /\ scenario \in Scenarios
    BY SLOsInOrder DEF ScenarioTypeOK
  <2>3. /\ x \in Views /\ x.at = "series" /\ x.of = scenario
        /\ x.left = ScenarioSLOs[scenario] /\ x.kind = "alerts"
        /\ x.alerts = {} /\ x.shown = {}
    BY <1>4, <2>2 DEF Views, Stages
  <2> HIDE DEF x
  <2>4. ViewOK(x)
    BY <2>2, <2>3, SLOsInOrder DEF ViewOK
  <2> QED
    BY <2>1, <2>4
<1> QED
  BY <1>0, <1>1, <1>2, <1>3, <1>4

\* An alert of this scenario gets its targets from the present directory.
LEMMA NextAlertIsOK ==
  ASSUME ScenarioTypeOK, NEW v \in Views, v.kind = "alerts", roster \in v.told,
         v.shown \subseteq v.told, v.crossed = FALSE => v.alerts \subseteq SLOsOf(scenario),
         v.crossed = FALSE /\ ~outrun => AllFilled,
         NEW o
  PROVE  ViewOK(NextAlert(v, o))
<1>1. /\ v.owed \ {o} \in SUBSET AllSLOs /\ v.shown \cup {roster} \in SUBSET Nat
      /\ DefaultScenario \in Scenarios
  BY ScenarioAssumption DEF ScenarioTypeOK, Views
<1> DEFINE x == NextAlert(v, o)
<1>2. /\ x \in Views /\ x.at = "look" /\ x.kind = v.kind /\ x.shown = v.shown \cup {roster}
      /\ x.alerts = v.alerts /\ x.told = v.told /\ x.crossed = v.crossed
  BY <1>1 DEF NextAlert, Views, Stages
<1> HIDE DEF x
<1>3. ViewOK(x)
  BY <1>2 DEF ViewOK
<1> QED
  BY <1>3 DEF x

LEMMA AnsweringIsOK ==
  ASSUME ScenarioTypeOK, NEW v, MayRead(v), NEW rows \in SUBSET AllSLOs,
         NEW x \in Answering(v, rows)
  PROVE  ViewOK(x)
<1>0. v \in Views /\ DefaultScenario \in Scenarios
  BY ScenarioAssumption DEF MayRead
<1>1. CASE x = [v EXCEPT !.at = "answer", !.of = DefaultScenario]
  <2>1. /\ x \in Views /\ x.at = "answer" /\ x.kind = v.kind /\ x.alerts = v.alerts
        /\ x.shown = v.shown /\ x.told = v.told /\ x.crossed = v.crossed
    BY <1>0, <1>1 DEF Views, Stages
  <2> QED
    BY <2>1 DEF ViewOK, MayRead
<1>2. CASE v.kind = "alerts" /\ \E raised \in SUBSET Own(rows) : \E o \in raised :
             x = NextAlert([v EXCEPT !.alerts = raised, !.owed = raised], o)
  <2> PICK raised \in SUBSET Own(rows) : \E o \in raised :
             x = NextAlert([v EXCEPT !.alerts = raised, !.owed = raised], o)
    BY <1>2
  <2> PICK o \in raised : x = NextAlert([v EXCEPT !.alerts = raised, !.owed = raised], o)
    OBVIOUS
  <2> DEFINE w == [v EXCEPT !.alerts = raised, !.owed = raised]
  <2>1. raised \subseteq SLOsOf(scenario) /\ raised \in SUBSET AllSLOs
    BY DEF Own
  <2>2. /\ w \in Views /\ w.kind = v.kind /\ w.alerts = raised
        /\ w.shown = v.shown /\ w.told = v.told /\ w.crossed = v.crossed
    BY <1>0, <2>1 DEF Views
  <2>3. x = NextAlert(w, o)
    OBVIOUS
  <2> HIDE DEF w
  <2>4. ViewOK(NextAlert(w, o))
    BY <1>2, <2>1, <2>2, NextAlertIsOK DEF MayRead
  <2> QED
    BY <2>3, <2>4
<1> QED
  BY <1>1, <1>2 DEF Answering

\* A step of one request that fills no series but its own.
LEMMA StepOfOne ==
  ASSUME ScenarioInv, NEW r \in Viewers, NEW x \in Views, ViewOK(x)',
         view' = [view EXCEPT ![r] = x],
         UNCHANGED <<client, scenario, epoch, shift, roster, outrun>>,
         \A o \in AllSLOs : filledIn[o] = epoch => filledIn'[o] = epoch,
         filledIn' \in [AllSLOs -> Nat \cup {Unfilled}], backfilled' \in BOOLEAN,
         venueMap' \in Scenarios \cup {Unloaded, NoEntities, Tenant},
         budgets' \subseteq AllSLOs,
         CachesFollowTheScenario'
  PROVE  ScenarioInv'
<1>1. /\ view'[r] = x /\ \A q \in Viewers : q # r => view'[q] = view[q]
      /\ view' \in [Viewers -> Views]
  BY DEF ScenarioInv, ScenarioTypeOK
<1>2. ScenarioTypeOK'
  BY <1>1 DEF ScenarioInv, ScenarioTypeOK
<1>3. ASSUME NEW q \in Viewers
      PROVE  ViewOK(view[q])'
  <2>1. CASE q = r
    BY <1>1, <2>1
  <2>2. CASE q # r
    <3>1. view'[q] = view[q]
      BY <1>1, <2>2
    <3>2. ViewOK(view[q]) /\ scenario \in Scenarios
      BY DEF ScenarioInv, ScenarioTypeOK
    <3> PICK v \in Views : v = view[q]
      BY <3>2 DEF ViewOK
    <3>3. SLOsOf(scenario) \subseteq AllSLOs
      BY <3>2, SLOsInOrder
    <3>5. AllFilled => AllFilled'
      BY <3>3 DEF AllFilled
    <3>4. ViewOK(v)'
      BY <3>2, <3>3, <3>5 DEF ViewOK
    <3> QED
      BY <3>1, <3>4
  <2> QED
    BY <2>1, <2>2
<1> QED
  BY <1>2, <1>3 DEF ScenarioInv

\* A step of one request that changes no cache.
LEMMA ViewMoves ==
  ASSUME ScenarioInv, NEW r \in Viewers, NEW x \in Views, ViewOK(x),
         view' = [view EXCEPT ![r] = x],
         UNCHANGED <<client, scenario, epoch, shift, backfilled, filledIn, venueMap, roster,
                     outrun>>,
         budgets' \subseteq AllSLOs
  PROVE  ScenarioInv'
<1>1. CachesFollowTheScenario'
  BY DEF ScenarioInv, CachesFollowTheScenario
<1>2. ViewOK(x)'
  BY DEF ViewOK, AllFilled
<1>3. /\ filledIn' \in [AllSLOs -> Nat \cup {Unfilled}] /\ backfilled' \in BOOLEAN
      /\ venueMap' \in Scenarios \cup {Unloaded, NoEntities, Tenant}
  BY DEF ScenarioInv, ScenarioTypeOK
<1> QED
  BY <1>1, <1>2, <1>3, StepOfOne

LEMMA ViewKeeps ==
  ASSUME ScenarioInv, NEW r \in Viewers, NEW kind \in ViewKinds, View(r, kind)
  PROVE  ScenarioInv'
<1> DEFINE v == [NoView EXCEPT !.kind = kind]
           x == IF kind = "oncall" THEN [v EXCEPT !.at = "schedule"]
                ELSE IF venueMap = Unloaded THEN [v EXCEPT !.at = "zones"]
                ELSE AfterMap(v)
<1>1. /\ view' = [view EXCEPT ![r] = x]
      /\ UNCHANGED <<client, scenario, epoch, shift, backfilled, filledIn, venueMap, roster,
                     budgets, outrun>>
  BY DEF View, caches
<1>2. ScenarioTypeOK
  BY DEF ScenarioInv
<1>3. NoView \in Views
  BY <1>2, IdleIsOK DEF ViewOK
<1>4. v \in Views /\ v.kind = kind /\ v.at = "idle" /\ v.alerts = {} /\ v.shown = {}
  BY <1>3 DEF Views, NoView
<1>5. ViewOK(x)
  <2>1. ASSUME NEW at \in {"schedule", "zones"},
               (at = "schedule") <=> (kind = "oncall")
        PROVE  ViewOK([v EXCEPT !.at = at])
    <3> DEFINE y == [v EXCEPT !.at = at]
    <3>1. y \in Views /\ y.at = at /\ y.kind = kind /\ y.alerts = {} /\ y.shown = {}
      BY <1>4 DEF Views, Stages
    <3> HIDE DEF y
    <3>2. ViewOK(y)
      BY <2>1, <3>1 DEF ViewOK
    <3> QED
      BY <3>2 DEF y
  <2>2. kind # "oncall" => ViewOK(AfterMap(v))
    BY <1>2, <1>4, AfterMapIsOK DEF ScenarioInv
  <2> HIDE DEF v
  <2>3. CASE kind = "oncall"
    <3>1. x = [v EXCEPT !.at = "schedule"]
      BY <2>3
    <3>2. ViewOK([v EXCEPT !.at = "schedule"])
      BY <2>1, <2>3
    <3> QED
      BY <3>1, <3>2
  <2>4. CASE kind # "oncall" /\ venueMap = Unloaded
    <3>1. x = [v EXCEPT !.at = "zones"]
      BY <2>4
    <3>2. ViewOK([v EXCEPT !.at = "zones"])
      BY <2>1, <2>4
    <3> QED
      BY <3>1, <3>2
  <2>5. CASE kind # "oncall" /\ venueMap # Unloaded
    BY <2>2, <2>5
  <2> QED
    BY <2>3, <2>4, <2>5
<1>6. x \in Views
  BY <1>5 DEF ViewOK
<1>7. budgets' \subseteq AllSLOs
  BY <1>1, <1>2 DEF ScenarioTypeOK
<1> HIDE DEF x
<1> PICK y \in Views : y = x
  BY <1>6
<1> QED
  BY <1>1, <1>5, <1>7, ViewMoves

LEMMA LoadMapKeeps ==
  ASSUME ScenarioInv, NEW r \in Viewers, NEW map \in Scenarios \cup {Tenant, NoEntities},
         view[r].at \in {"zones", "entities"}, LoadMap(r, map),
         client = "mock" => map = scenario
  PROVE  ScenarioInv'
<1>1. /\ view' = [view EXCEPT ![r] = AfterMap(view[r])] /\ venueMap' = map
      /\ UNCHANGED <<client, scenario, epoch, shift, backfilled, filledIn, roster, budgets,
                     outrun>>
  BY DEF LoadMap
<1>2. /\ ScenarioTypeOK /\ CachesFollowTheScenario /\ view[r] \in Views
      /\ view[r].kind # "oncall" /\ view[r].alerts = {} /\ view[r].shown = {}
  BY DEF ScenarioInv, ScenarioTypeOK, ViewOK
<1>3. CachesFollowTheScenario'
  BY <1>1 DEF ScenarioInv, CachesFollowTheScenario
<1>4. ViewOK(AfterMap(view[r]))
  BY <1>2, AfterMapIsOK
<1> PICK y \in Views : y = AfterMap(view[r])
  BY <1>4 DEF ViewOK
<1>5. ViewOK(y)'
  BY <1>1, <1>4 DEF ViewOK, AllFilled
<1> QED
  BY <1>1, <1>2, <1>3, <1>5, StepOfOne DEF ScenarioTypeOK

LEMMA EntitiesKeeps ==
  ASSUME ScenarioInv, NEW r \in Viewers, NEW map \in {Tenant, NoEntities}, Entities(r, map)
  PROVE  ScenarioInv'
<1>1. view[r].at = "entities" /\ LoadMap(r, map) /\ client # "mock"
  BY DEF Entities, ScenarioInv, ViewOK
<1> QED
  BY <1>1, LoadMapKeeps

LEMMA ZonesOfMockKeeps ==
  ASSUME ScenarioInv, NEW r \in Viewers, ZonesOfMock(r)
  PROVE  ScenarioInv'
<1>1. scenario \in Scenarios
  BY DEF ScenarioInv, ScenarioTypeOK
<1> PICK map \in Scenarios : map = scenario
  BY <1>1
<1>2. LoadMap(r, map) /\ view[r].at = "zones"
  BY DEF ZonesOfMock, LoadMap
<1> QED
  BY <1>2, LoadMapKeeps

LEMMA ZonesOfTenantKeeps ==
  ASSUME ScenarioInv, NEW r \in Viewers, ZonesOfTenant(r)
  PROVE  ScenarioInv'
<1> DEFINE x == [view[r] EXCEPT !.at = "entities"]
<1>1. /\ client = "live" /\ view' = [view EXCEPT ![r] = x]
      /\ UNCHANGED <<client, scenario, epoch, shift, backfilled, filledIn, venueMap, roster,
                     budgets, outrun>>
      /\ budgets' \subseteq AllSLOs
  BY DEF ZonesOfTenant, caches, ScenarioInv, ScenarioTypeOK
<1>2. /\ view[r] \in Views /\ view[r].kind # "oncall"
      /\ view[r].alerts = {} /\ view[r].shown = {}
  BY DEF ZonesOfTenant, ScenarioInv, ScenarioTypeOK, ViewOK
<1>3. /\ x \in Views /\ x.at = "entities" /\ x.kind # "oncall"
      /\ x.alerts = {} /\ x.shown = {}
  BY <1>2 DEF Views, Stages
<1> HIDE DEF x
<1> PICK y \in Views : y = x
  BY <1>3
<1>4. ViewOK(y)
  BY <1>1, <1>3 DEF ViewOK
<1> QED
  BY <1>1, <1>4, ViewMoves

\* What is so of a request that is about to read the budgets, or evaluates them.
LEMMA ReadersMay ==
  ASSUME ScenarioInv, NEW r \in Viewers, view[r].at \in {"stored", "saving"}
  PROVE  MayRead(view[r])
BY DEF ScenarioInv, ScenarioTypeOK, ViewOK, MayRead

LEMMA ListBudgetsKeeps ==
  ASSUME ScenarioInv, NEW r \in Viewers, ListBudgets(r)
  PROVE  ScenarioInv'
<1>1. /\ view[r].at = "stored"
      /\ UNCHANGED <<client, scenario, epoch, shift, backfilled, filledIn, venueMap, roster,
                     budgets, outrun>>
      /\ budgets' \subseteq AllSLOs /\ ScenarioTypeOK
  BY DEF ListBudgets, caches, ScenarioInv, ScenarioTypeOK
<1>2. PICK x \in IF budgets = {} THEN {Evaluating(view[r])} ELSE Answering(view[r], budgets) :
           view' = [view EXCEPT ![r] = x]
  BY DEF ListBudgets
<1>3. MayRead(view[r]) /\ budgets \in SUBSET AllSLOs
  BY <1>1, ReadersMay DEF ScenarioTypeOK
<1>4. ViewOK(x)
  BY <1>1, <1>2, <1>3, EvaluatingIsOK, AnsweringIsOK
<1> PICK y \in Views : y = x
  BY <1>4 DEF ViewOK
<1> QED
  BY <1>1, <1>2, <1>4, ViewMoves

LEMMA SaveBudgetKeeps ==
  ASSUME ScenarioInv, NEW r \in Viewers, SaveBudget(r)
  PROVE  ScenarioInv'
<1> DEFINE v == view[r]
           rest == [v EXCEPT !.left = Tail(v.left)]
<1>1. /\ v.at = "saving"
      /\ budgets' = budgets \cup {Head(v.left)}
      /\ UNCHANGED <<client, scenario, epoch, shift, backfilled, filledIn, venueMap, roster,
                     outrun>>
  BY DEF SaveBudget
<1>0. PICK x \in IF Len(v.left) = 1 THEN Answering(rest, SLOsOf(rest.of)) ELSE {rest} :
           view' = [view EXCEPT ![r] = x]
  BY DEF SaveBudget
<1>2. MayRead(v) /\ v.left # << >> /\ ScenarioTypeOK /\ v \in Views
  BY <1>1, ReadersMay DEF ScenarioInv, ScenarioTypeOK, ViewOK, MayRead
<1> HIDE DEF v
<1>3. /\ v.left \in Seq(AllSLOs) /\ Head(v.left) \in AllSLOs
      /\ Tail(v.left) \in Seq(AllSLOs) /\ Len(Tail(v.left)) = Len(v.left) - 1
      /\ Len(v.left) \in Nat /\ v.of \in Scenarios
  BY <1>2 DEF Views
<1>4. /\ rest \in Views /\ rest.kind = v.kind /\ rest.at = "saving" /\ rest.of = v.of
      /\ rest.left = Tail(v.left) /\ rest.alerts = v.alerts /\ rest.shown = v.shown
      /\ rest.told = v.told /\ rest.crossed = v.crossed
  BY <1>1, <1>2, <1>3 DEF Views
<1> HIDE DEF rest
<1>5. SLOsOf(rest.of) \in SUBSET AllSLOs
  BY <1>3, <1>4, SLOsInOrder
<1>9. MayRead(rest)
  BY <1>2, <1>4 DEF MayRead
<1>6. Len(v.left) = 1 => ViewOK(x)
  BY <1>0, <1>2, <1>5, <1>9, AnsweringIsOK
<1>7. Len(v.left) # 1 => ViewOK(x)
  <2>1. Len(v.left) # 1 => rest.left # << >>
    <3>1. Len(<< >>) = 0
      OBVIOUS
    <3>2. Len(rest.left) = Len(v.left) - 1
      BY <1>3, <1>4
    <3>3. Len(v.left) # 1 => Len(rest.left) # 0
      BY <1>3, <3>2
    <3> QED
      BY <3>1, <3>3, Zenon
  <2>2. Len(v.left) # 1 => x = rest
    BY <1>0
  <2>3. Len(v.left) # 1 => ViewOK(rest)
    BY <1>4, <1>9, <2>1 DEF ViewOK, MayRead
  <2> QED
    BY <2>2, <2>3
<1>8. budgets' \subseteq AllSLOs
  BY <1>1, <1>2, <1>3 DEF ScenarioTypeOK
<1> PICK y \in Views : y = x
  BY <1>6, <1>7 DEF ViewOK
<1> QED
  BY <1>0, <1>1, <1>6, <1>7, <1>8, ViewMoves

LEMMA LookUpKeeps ==
  ASSUME ScenarioInv, NEW r \in Viewers, LookUp(r)
  PROVE  ScenarioInv'
<1>1. /\ view[r].at = "look"
      /\ UNCHANGED <<client, scenario, epoch, shift, backfilled, filledIn, venueMap, roster,
                     budgets, outrun>>
      /\ budgets' \subseteq AllSLOs /\ ScenarioTypeOK
  BY DEF LookUp, caches, ScenarioInv, ScenarioTypeOK
<1>2. PICK x \in IF view[r].owed = {} THEN {[view[r] EXCEPT !.at = "answer"]}
                 ELSE {NextAlert(view[r], o) : o \in view[r].owed} :
           view' = [view EXCEPT ![r] = x]
  BY DEF LookUp
<1> PICK v \in Views : v = view[r]
  BY <1>1 DEF ScenarioTypeOK
<1>3. ViewOK(v) /\ v.kind = "alerts" /\ v.at = "look"
  BY <1>1 DEF ScenarioInv, ViewOK, Views
<1>4. ViewOK(x)
  <2>1. CASE v.owed = {}
    <3>1. x = [v EXCEPT !.at = "answer"]
      BY <1>2, <2>1
    <3>2. /\ x \in Views /\ x.at = "answer" /\ x.kind = v.kind /\ x.alerts = v.alerts
          /\ x.shown = v.shown /\ x.told = v.told /\ x.crossed = v.crossed
      BY <3>1 DEF Views, Stages
    <3> QED
      BY <1>3, <3>2 DEF ViewOK
  <2>2. CASE v.owed # {}
    <3>1. PICK o \in v.owed : x = NextAlert(v, o)
      BY <1>2, <2>2
    <3>2. /\ roster \in v.told /\ v.shown \subseteq v.told
          /\ v.crossed = FALSE => v.alerts \subseteq SLOsOf(scenario)
          /\ v.crossed = FALSE /\ ~outrun => AllFilled
      BY <1>3 DEF ViewOK
    <3>3. ViewOK(NextAlert(v, o))
      BY <1>1, <1>3, <3>2, NextAlertIsOK
    <3> QED
      BY <3>1, <3>3
  <2> QED
    BY <2>1, <2>2
<1> PICK y \in Views : y = x
  BY <1>4 DEF ViewOK
<1> QED
  BY <1>1, <1>2, <1>4, ViewMoves

LEMMA ReplyKeeps ==
  ASSUME ScenarioInv, NEW r \in Viewers, Reply(r)
  PROVE  ScenarioInv'
<1>1. /\ view' = [view EXCEPT ![r] = NoView]
      /\ UNCHANGED <<client, scenario, epoch, shift, backfilled, filledIn, venueMap, roster,
                     budgets, outrun>>
      /\ budgets' \subseteq AllSLOs
  BY DEF Reply, caches, ScenarioInv, ScenarioTypeOK
<1>2. ViewOK(NoView) /\ NoView \in Views
  BY IdleIsOK DEF ScenarioInv, ViewOK
<1> QED
  BY <1>1, <1>2, ViewMoves

LEMMA HeadAndTail ==
  ASSUME NEW S, NEW s \in Seq(S), s # << >>
  PROVE  /\ Head(s) \in S /\ Tail(s) \in Seq(S) /\ Len(s) \in Nat /\ Len(s) >= 1
         /\ Len(s) # 1 => Tail(s) # << >>
         /\ \A i \in DOMAIN s :
               s[i] = Head(s) \/ (Len(s) # 1 /\ \E j \in DOMAIN Tail(s) : Tail(s)[j] = s[i])
<1>1. /\ Head(s) \in S /\ Tail(s) \in Seq(S) /\ Len(s) \in Nat /\ Len(s) >= 1
      /\ Head(s) = s[1] /\ Len(Tail(s)) = Len(s) - 1
      /\ DOMAIN s = 1 .. Len(s) /\ DOMAIN Tail(s) = 1 .. Len(s) - 1
      /\ \A j \in 1 .. Len(s) - 1 : Tail(s)[j] = s[j + 1]
  BY HeadTailProperties, LenProperties, EmptySeq
<1>2. Len(s) # 1 => Tail(s) # << >>
  <2>1. Len(<< >>) = 0
    OBVIOUS
  <2>2. Len(s) # 1 => Len(Tail(s)) # 0
    BY <1>1
  <2> QED
    BY <2>1, <2>2, Zenon
<1>3. ASSUME NEW i \in DOMAIN s, i # 1
      PROVE  Len(s) # 1 /\ \E j \in DOMAIN Tail(s) : Tail(s)[j] = s[i]
  <2>1. i - 1 \in 1 .. Len(s) - 1 /\ (i - 1) + 1 = i /\ Len(s) # 1
    BY <1>1, <1>3
  <2>2. Tail(s)[i - 1] = s[i]
    BY <1>1, <2>1
  <2> QED
    BY <1>1, <2>1, <2>2
<1> QED
  BY <1>1, <1>2, <1>3

LEMMA FillSeriesKeeps ==
  ASSUME ScenarioInv, NEW r \in Viewers, FillSeries(r)
  PROVE  ScenarioInv'
<1> DEFINE v == view[r]
           done == Len(v.left) = 1
           x == [v EXCEPT !.left = Tail(v.left),
                          !.of = IF done THEN DefaultScenario ELSE v.of,
                          !.at = IF done THEN "schedule" ELSE "series"]
<1>1. /\ v.at = "series" /\ view' = [view EXCEPT ![r] = x]
      /\ filledIn' = [filledIn EXCEPT ![Head(v.left)] = epoch]
      /\ backfilled' = (backfilled \/ done)
      /\ UNCHANGED <<client, scenario, epoch, shift, venueMap, roster, budgets, outrun>>
  BY DEF FillSeries, WithSeries
<1>2. /\ v \in Views /\ v.left # << >> /\ ViewOK(v) /\ ScenarioTypeOK
      /\ filledIn \in [AllSLOs -> Nat \cup {Unfilled}] /\ epoch \in Nat /\ scenario \in Scenarios
      /\ backfilled \in BOOLEAN /\ DefaultScenario \in Scenarios
  BY <1>1, ScenarioAssumption DEF ScenarioInv, ScenarioTypeOK, ViewOK
<1> HIDE DEF v
<1>3. v.left \in Seq(AllSLOs)
  BY <1>2 DEF Views
<1>4. /\ Head(v.left) \in AllSLOs /\ Tail(v.left) \in Seq(AllSLOs) /\ Len(v.left) \in Nat
      /\ Len(v.left) # 1 => Tail(v.left) # << >>
      /\ \A i \in DOMAIN v.left :
            \/ v.left[i] = Head(v.left)
            \/ Len(v.left) # 1 /\ \E j \in DOMAIN Tail(v.left) : Tail(v.left)[j] = v.left[i]
  BY <1>2, <1>3, HeadAndTail
<1>5. /\ filledIn' \in [AllSLOs -> Nat \cup {Unfilled}]
      /\ filledIn'[Head(v.left)] = epoch
      /\ \A o \in AllSLOs : filledIn[o] = epoch => filledIn'[o] = epoch
  BY <1>1, <1>2, <1>4
<1>6. /\ x \in Views /\ x.left = Tail(v.left) /\ x.of = (IF done THEN DefaultScenario ELSE v.of)
      /\ x.kind = v.kind /\ x.alerts = v.alerts /\ x.shown = v.shown /\ x.told = v.told
      /\ x.at = IF done THEN "schedule" ELSE "series"
  BY <1>2, <1>4 DEF Views, Stages
<1> HIDE DEF x
<1>7. SLOsOf(scenario) \subseteq AllSLOs
  BY <1>2, SLOsInOrder
<1>8. ASSUME ~outrun
      PROVE  /\ v.of = scenario
             /\ \A o \in SLOsOf(scenario) :
                   filledIn'[o] = epoch \/ (~done /\ \E j \in DOMAIN x.left : x.left[j] = o)
  <2>1. /\ v.of = scenario
        /\ \A o \in SLOsOf(scenario) :
              filledIn[o] = epoch \/ \E i \in DOMAIN v.left : v.left[i] = o
    BY <1>1, <1>2, <1>8 DEF ViewOK, v
  <2> SUFFICES ASSUME NEW o \in SLOsOf(scenario)
               PROVE  filledIn'[o] = epoch \/ (~done /\ \E j \in DOMAIN x.left : x.left[j] = o)
    BY <2>1
  <2>2. CASE filledIn[o] = epoch
    BY <1>5, <1>7, <2>2
  <2>3. CASE \E i \in DOMAIN v.left : v.left[i] = o
    BY <1>4, <1>5, <1>6, <2>3
  <2> QED
    BY <2>1, <2>2, <2>3
<1>9. CachesFollowTheScenario'
  <2>1. backfilled' => outrun \/ \A o \in SLOsOf(scenario) : filledIn'[o] = epoch
    <3>1. CASE backfilled
      BY <1>5, <1>7, <3>1 DEF ScenarioInv, CachesFollowTheScenario
    <3>2. CASE done
      BY <1>8, <3>2
    <3> QED
      BY <1>1, <3>1, <3>2
  <2> QED
    BY <1>1, <2>1 DEF ScenarioInv, CachesFollowTheScenario
<1> PICK y \in Views : y = x
  BY <1>6
<1>10. ViewOK(y)'
  <2>1. y.at \in {"schedule", "series"} /\ (y.at = "series" => ~done)
    BY <1>6
  <2>2. y.at = "series" => y.left # << >>
    BY <1>4, <1>6, <2>1
  <2>3. y.at = "series" /\ ~outrun =>
           /\ y.of = scenario
           /\ \A o \in SLOsOf(scenario) :
                 filledIn'[o] = epoch \/ \E j \in DOMAIN y.left : y.left[j] = o
    BY <1>6, <1>8, <2>1
  <2>4. y.kind # "oncall" /\ y.alerts = {} /\ y.shown = {}
    BY <1>1, <1>2, <1>6 DEF ViewOK
  <2>5. y.at = "schedule" /\ ~outrun => AllFilled'
    BY <1>1, <1>6, <1>8 DEF AllFilled
  <2> QED
    BY <1>1, <2>1, <2>2, <2>3, <2>4, <2>5 DEF ViewOK
<1>11. /\ backfilled' \in BOOLEAN /\ budgets' \subseteq AllSLOs
       /\ venueMap' \in Scenarios \cup {Unloaded, NoEntities, Tenant}
  BY <1>1, <1>2 DEF ScenarioTypeOK
<1> QED
  BY <1>1, <1>5, <1>9, <1>10, <1>11, StepOfOne

LEMMA RefreshOncallKeeps ==
  ASSUME ScenarioInv, NEW r \in Viewers, NEW told \in CurrentRosters, RefreshOncall(r, told)
  PROVE  ScenarioInv'
<1> DEFINE mine == [view[r] EXCEPT !.told = {told}]
<1>1. /\ view[r].at = "schedule" /\ roster' = told
      /\ view' = [q \in Viewers |->
            IF q # r
            THEN IF HasFetched(q) THEN [view[q] EXCEPT !.told = @ \cup {told}] ELSE view[q]
            ELSE IF mine.kind = "oncall"
            THEN [mine EXCEPT !.at = "answer", !.shown = {told}]
            ELSE [mine EXCEPT !.at = "stored"]]
      /\ UNCHANGED <<client, scenario, epoch, shift, backfilled, filledIn, venueMap, budgets,
                     outrun>>
  BY DEF RefreshOncall, SetRoster
<1>2. ScenarioTypeOK /\ told \in Nat /\ (\A q \in Viewers : view[q] \in Views /\ ViewOK(view[q]))
  BY DEF ScenarioInv, ScenarioTypeOK, CurrentRosters
<1>3. ASSUME NEW q \in Viewers
      PROVE  view'[q] \in Views /\ ViewOK(view[q])'
  <2> PICK v \in Views : v = view[q]
    BY <1>2
  <2>0. ViewOK(v)
    BY <1>2
  <2>1. CASE q # r /\ ~HasFetched(q)
    <3>1. view'[q] = v /\ ~(v.kind = "alerts" /\ v.at \in {"stored", "saving", "look"})
      BY <1>1, <2>1 DEF HasFetched
    <3>2. ViewOK(v)'
      BY <1>1, <2>0, <3>1 DEF ViewOK, AllFilled
    <3> QED
      BY <3>1, <3>2
  <2>4. CASE q # r /\ HasFetched(q)
    <3> DEFINE x == [v EXCEPT !.told = v.told \cup {told}]
    <3>1. view'[q] = x
      BY <1>1, <2>4
    <3>2. v.told \cup {told} \in SUBSET Nat
      BY <1>2 DEF Views
    <3>3. /\ x \in Views /\ x.told = v.told \cup {told} /\ x.kind = v.kind /\ x.at = v.at
          /\ x.of = v.of /\ x.left = v.left /\ x.alerts = v.alerts
          /\ x.shown = v.shown /\ x.crossed = v.crossed
      BY <3>2 DEF Views
    <3> HIDE DEF x
    <3> PICK y \in Views : y = x
      BY <3>3
    <3>4. ViewOK(y)'
      BY <1>1, <2>0, <3>3 DEF ViewOK, AllFilled
    <3> QED
      BY <3>1, <3>4
  <2>2. CASE q = r /\ view[r].kind = "oncall"
    <3> DEFINE x == [v EXCEPT !.told = {told}, !.at = "answer", !.shown = {told}]
    <3>1. view'[q] = x
      <4>1. mine.kind = "oncall" /\ [mine EXCEPT !.at = "answer", !.shown = {told}] = x
        BY <2>2 DEF Views
      <4> QED
        BY <1>1, <2>2, <4>1
    <3>2. /\ x \in Views /\ x.at = "answer" /\ x.told = {told} /\ x.shown = {told}
          /\ x.kind = "oncall" /\ x.alerts = v.alerts /\ x.crossed = v.crossed
      BY <1>2, <2>2 DEF Views, Stages
    <3> HIDE DEF x
    <3> PICK y \in Views : y = x
      BY <3>2
    <3>3. ViewOK(y)'
      BY <1>1, <2>0, <2>2, <3>2 DEF ViewOK, AllFilled
    <3> QED
      BY <3>1, <3>3
  <2>3. CASE q = r /\ view[r].kind # "oncall"
    <3> DEFINE x == [v EXCEPT !.told = {told}, !.at = "stored"]
    <3>1. view'[q] = x
      <4>1. mine.kind # "oncall" /\ [mine EXCEPT !.at = "stored"] = x
        BY <2>3 DEF Views
      <4> QED
        BY <1>1, <2>3, <4>1
    <3>2. /\ x \in Views /\ x.at = "stored" /\ x.told = {told} /\ x.kind = v.kind
          /\ x.alerts = v.alerts /\ x.shown = v.shown /\ x.crossed = v.crossed
      BY <1>2, <2>3 DEF Views, Stages
    <3> HIDE DEF x
    <3> PICK y \in Views : y = x
      BY <3>2
    <3>4. v.alerts = {} /\ v.shown = {} /\ v.kind # "oncall" /\ v.at = "schedule"
      BY <1>1, <2>0, <2>3 DEF ViewOK
    <3>3. ViewOK(y)'
      BY <1>1, <2>0, <3>2, <3>4 DEF ViewOK, AllFilled
    <3> QED
      BY <3>1, <3>3
  <2> QED
    BY <2>1, <2>2, <2>3, <2>4
<1>4. ScenarioTypeOK'
  <2>1. view' \in [Viewers -> Views]
    BY <1>1, <1>3
  <2> QED
    BY <1>1, <1>2, <2>1 DEF ScenarioTypeOK
<1>5. CachesFollowTheScenario'
  BY <1>1 DEF ScenarioInv, CachesFollowTheScenario
<1> QED
  BY <1>3, <1>4, <1>5 DEF ScenarioInv

LEMMA SetScenarioKeeps ==
  ASSUME ScenarioInv, NEW s \in Scenarios, SetScenario(s)
  PROVE  ScenarioInv'
<1>1. /\ client = "mock" /\ scenario' = s /\ epoch' = epoch + 1
      /\ venueMap' = Unloaded /\ backfilled' = FALSE
      /\ outrun' = \E r \in Viewers : view[r].at = "series"
      /\ view' = [r \in Viewers |->
            [view[r] EXCEPT !.crossed = @ \/ view[r].kind = "alerts"]]
      /\ UNCHANGED <<client, shift, filledIn, roster, budgets>>
  BY DEF SetScenario, SwitchedMap, SwitchedFlag
<1>2. ScenarioTypeOK /\ (\A q \in Viewers : view[q] \in Views /\ ViewOK(view[q]))
  BY DEF ScenarioInv, ScenarioTypeOK
<1>3. ASSUME NEW q \in Viewers
      PROVE  view'[q] \in Views /\ ViewOK(view[q])'
  <2> PICK v \in Views : v = view[q]
    BY <1>2
  <2> DEFINE b == v.crossed \/ v.kind = "alerts"
             x == [v EXCEPT !.crossed = b]
  <2>1. view'[q] = x /\ ViewOK(v)
    BY <1>1, <1>2
  <2>2. b \in BOOLEAN /\ (v.kind = "alerts" => b = TRUE)
    BY DEF Views
  <2> HIDE DEF b
  <2>3. /\ x \in Views /\ x.crossed = b /\ x.kind = v.kind /\ x.at = v.at
        /\ x.left = v.left /\ x.alerts = v.alerts /\ x.shown = v.shown /\ x.told = v.told
    BY <2>2 DEF Views
  <2>4. v.at = "series" => outrun'
    BY <1>1
  <2> HIDE DEF x
  <2> PICK y \in Views : y = x
    BY <2>3
  <2>5. v.kind = "alerts" => y.crossed # FALSE
    BY <2>2, <2>3
  <2>6. v.kind # "alerts" => y.alerts = {}
    BY <2>1, <2>3 DEF ViewOK
  <2>7. ViewOK(y)'
    BY <1>1, <2>1, <2>3, <2>4, <2>5, <2>6 DEF ViewOK
  <2> QED
    BY <2>1, <2>7
<1>4. ScenarioTypeOK'
  <2>1. view' \in [Viewers -> Views]
    BY <1>1, <1>3
  <2>2. epoch' \in Nat /\ outrun' \in BOOLEAN
    BY <1>1, <1>2 DEF ScenarioTypeOK
  <2> QED
    BY <1>1, <1>2, <2>1, <2>2 DEF ScenarioTypeOK
<1>5. CachesFollowTheScenario'
  BY <1>1 DEF CachesFollowTheScenario
<1> QED
  BY <1>3, <1>4, <1>5 DEF ScenarioInv

\* A step that leaves the views and every cache they rely on.
LEMMA HandOverKeeps == ASSUME ScenarioInv, HandOver PROVE ScenarioInv'
<1>1. /\ shift' = shift + 1
      /\ UNCHANGED <<client, scenario, epoch, backfilled, filledIn, venueMap, roster, budgets,
                     view, outrun>>
  BY DEF HandOver, caches
<1>2. ScenarioTypeOK'
  BY <1>1 DEF ScenarioInv, ScenarioTypeOK
<1>3. CachesFollowTheScenario'
  BY <1>1 DEF ScenarioInv, CachesFollowTheScenario
<1>4. ASSUME NEW q \in Viewers PROVE ViewOK(view[q])'
  <2>1. ViewOK(view[q])
    BY DEF ScenarioInv
  <2> QED
    BY <1>1, <2>1 DEF ViewOK, AllFilled
<1> QED
  BY <1>2, <1>3, <1>4 DEF ScenarioInv

\* What a process starts with, whatever budgets are stored.
LEMMA FreshIsOK ==
  ASSUME client \in {"mock", "live"}, scenario = DefaultScenario, epoch = 0,
         backfilled = FALSE, filledIn = [o \in AllSLOs |-> Unfilled], venueMap = Unloaded,
         shift \in Nat \ {0}, roster = 0, budgets \subseteq AllSLOs,
         view = [r \in Viewers |-> NoView], outrun = FALSE
  PROVE  ScenarioInv
<1>1. << >> \in Seq(AllSLOs) /\ DefaultScenario \in Scenarios
  BY ScenarioAssumption
<1>2. NoView \in Views
  BY <1>1 DEF NoView, Views, ViewKinds, Stages
<1>3. ScenarioTypeOK
  BY <1>1, <1>2 DEF ScenarioTypeOK
<1>4. CachesFollowTheScenario
  BY DEF CachesFollowTheScenario
<1>5. \A r \in Viewers : ViewOK(view[r])
  BY <1>3, IdleIsOK
<1> QED
  BY <1>3, <1>4, <1>5 DEF ScenarioInv

LEMMA RestartProcessKeeps == ASSUME ScenarioInv, RestartProcess PROVE ScenarioInv'
<1>1. << >> \in Seq(AllSLOs) /\ DefaultScenario \in Scenarios
  BY ScenarioAssumption
<1>2. /\ NoView \in Views /\ NoView.at = "idle" /\ NoView.kind = "oncall"
      /\ NoView.alerts = {} /\ NoView.shown = {}
  BY <1>1 DEF NoView, Views, ViewKinds, Stages
<1>3. ScenarioTypeOK'
  BY <1>1, <1>2 DEF RestartProcess, ScenarioInv, ScenarioTypeOK
<1>4. CachesFollowTheScenario'
  BY DEF RestartProcess, CachesFollowTheScenario
<1>5. ASSUME NEW q \in Viewers PROVE ViewOK(view[q])'
  <2>1. view'[q] = NoView
    BY DEF RestartProcess
  <2> QED
    BY <1>2, <2>1 DEF ViewOK
<1> QED
  BY <1>3, <1>4, <1>5 DEF ScenarioInv

LEMMA ScenarioStutterKeeps == ASSUME ScenarioInv, UNCHANGED scenarioVars PROVE ScenarioInv'
<1>1. UNCHANGED <<client, scenario, epoch, shift, backfilled, filledIn, venueMap, roster,
                  budgets, view, outrun>>
  BY DEF scenarioVars, caches
<1>2. ScenarioTypeOK'
  BY <1>1 DEF ScenarioInv, ScenarioTypeOK
<1>3. CachesFollowTheScenario'
  BY <1>1 DEF ScenarioInv, CachesFollowTheScenario
<1>4. ASSUME NEW q \in Viewers PROVE ViewOK(view[q])'
  <2>1. ViewOK(view[q])
    BY DEF ScenarioInv
  <2> QED
    BY <1>1, <2>1 DEF ViewOK, AllFilled
<1> QED
  BY <1>2, <1>3, <1>4 DEF ScenarioInv

LEMMA ScenarioStepKeeps == ASSUME ScenarioInv, [ScenarioNext]_scenarioVars PROVE ScenarioInv'
<1>1. ASSUME NEW r \in Viewers, ViewStep(r) PROVE ScenarioInv'
  <2>1. ASSUME NEW kind \in ViewKinds, View(r, kind) PROVE ScenarioInv'
    BY <2>1, ViewKeeps
  <2>2. ASSUME NEW map \in {Tenant, NoEntities}, Entities(r, map) PROVE ScenarioInv'
    BY <2>2, EntitiesKeeps
  <2>3. ASSUME NEW told \in CurrentRosters, RefreshOncall(r, told) PROVE ScenarioInv'
    BY <2>3, RefreshOncallKeeps
  <2>4. CASE ZonesOfMock(r) BY <2>4, ZonesOfMockKeeps
  <2>5. CASE ZonesOfTenant(r) BY <2>5, ZonesOfTenantKeeps
  <2>6. CASE FillSeries(r) BY <2>6, FillSeriesKeeps
  <2>7. CASE ListBudgets(r) BY <2>7, ListBudgetsKeeps
  <2>8. CASE SaveBudget(r) BY <2>8, SaveBudgetKeeps
  <2>9. CASE Reply(r) BY <2>9, ReplyKeeps
  <2>10. CASE LookUp(r) BY <2>10, LookUpKeeps
  <2> QED
    BY <1>1, <2>1, <2>2, <2>3, <2>4, <2>5, <2>6, <2>7, <2>8, <2>9, <2>10 DEF ViewStep
<1>2. ASSUME NEW s \in Scenarios, SetScenario(s) PROVE ScenarioInv'
  BY <1>2, SetScenarioKeeps
<1> QED
  BY <1>1, <1>2, HandOverKeeps, RestartProcessKeeps, ScenarioStutterKeeps DEF ScenarioNext

LEMMA ScenarioInductive == ScenarioSpec => []ScenarioInv
<1>1. ScenarioInit => ScenarioInv
  <2> SUFFICES ASSUME ScenarioInit PROVE ScenarioInv
    OBVIOUS
  <2>1. budgets \subseteq AllSLOs
    BY SLOsInOrder DEF ScenarioInit
  <2>2. shift \in Nat \ {0}
    BY DEF ScenarioInit
  <2>3. /\ client \in {"mock", "live"} /\ scenario = DefaultScenario /\ epoch = 0
        /\ backfilled = FALSE /\ filledIn = [o \in AllSLOs |-> Unfilled]
        /\ venueMap = Unloaded /\ roster = 0
        /\ view = [r \in Viewers |-> NoView] /\ outrun = FALSE
    BY Zenon DEF ScenarioInit
  <2> QED
    BY <2>1, <2>2, <2>3, FreshIsOK, Zenon
<1> QED
  BY <1>1, ScenarioStepKeeps, PTL DEF ScenarioSpec

\* The map a process holds is that of its scenario, and its series are filled
\* for that scenario when it counts them as filled, whatever requests were
\* under way when an operator switched - except while a fill was (set_scenario
\* and the ensure_ methods of core/context.py).
THEOREM CachesFollow == ScenarioSpec => []CachesFollowTheScenario
<1>1. ScenarioInv => CachesFollowTheScenario
  BY DEF ScenarioInv
<1> QED
  BY <1>1, ScenarioInductive, PTL

\* While an answer is put together, alert by alert, every objective that has
\* an alert has the series of the scenario shown, unless a switch crossed the
\* request or a fill; and whom it names was told to its own refresh of the
\* directory or to a later one of another request (burn_alerts, refresh_oncall
\* and ensure_metrics_backfill of core/context.py).
THEOREM AnswersCurrent == ScenarioSpec => []AnswersAreCurrent
<1>1. ScenarioInv => AnswersAreCurrent
  <2> SUFFICES ASSUME ScenarioInv, NEW r \in Viewers, view[r].at \in {"look", "answer"}
               PROVE  /\ \/ view[r].crossed \/ outrun
                         \/ \A o \in view[r].alerts : filledIn[o] = epoch
                      /\ view[r].shown \subseteq view[r].told
    BY DEF AnswersAreCurrent
  <2> PICK v \in Views : v = view[r]
    BY DEF ScenarioInv, ScenarioTypeOK
  <2>1. ViewOK(v) /\ v.crossed \in BOOLEAN
    BY DEF ScenarioInv, Views
  <2>2. v.shown \subseteq v.told
    BY <2>1 DEF ViewOK
  <2>3. ASSUME v.crossed = FALSE, ~outrun, NEW o \in v.alerts
        PROVE  filledIn[o] = epoch
    <3>1. v.kind = "alerts" /\ o \in SLOsOf(scenario)
      BY <2>1, <2>3 DEF ViewOK
    <3>2. AllFilled
      BY <2>1, <2>3, <3>1 DEF ViewOK
    <3> QED
      BY <3>1, <3>2 DEF AllFilled
  <2> QED
    BY <2>1, <2>2, <2>3
<1> QED
  BY <1>1, ScenarioInductive, PTL

(***************************************************************************)
(* The width modules. Whose save is under way, nobody else knows its       *)
(* document; a document that never strayed has one writer at a time, whose *)
(* save writes what its process shows and holds all that was answered; and *)
(* a process that knows the last change, and did not fail to load it, has  *)
(* all that was answered in memory.                                        *)
(***************************************************************************)
SaveOf(s, d) == saves[s] # NoSave /\ saves[s].doc = d
Writing(s, d) == SaveOf(s, d) /\ saves[s].pc \in {"select", "insert", "update", "keep"}
Keeping(s, d) == SaveOf(s, d) /\ saves[s].pc = "keep"
Deleting(s, d) == SaveOf(s, d) /\ saves[s].pc = "delete"
Dispatching(s, d) == SaveOf(s, d) /\ saves[s].pc = "dispatch"
Fresh(p, d) == d \notin foreign[p] /\ d \notin blind[p]
\* What a save is going to write, or has taken already.
Written(s) == IF saves[s].pc = "select" THEN Captured(s) ELSE saves[s].content
KeptIn(d, edited) == \A e \in Edits : <<d, e>> \in answered => e \in edited

\* Of any document.
SavesOK(d) ==
    /\ \A s \in Saves : Dispatching(s, d) =>
          /\ d \in Executions /\ table[d] = NoDocument
          /\ \A p \in Replicas : memory[p][d] = NoDocument
          /\ \A t \in Saves : SaveOf(t, d) => t = s
    /\ \A s \in Saves : Deleting(s, d) => d \in Runbooks
    /\ \A s \in Saves : Writing(s, d) \/ Deleting(s, d) =>
          \A q \in Replicas \ {saves[s].replica} : d \in foreign[q]
    /\ \A s \in Saves : Writing(s, d) =>
          saves[s].edit \in Edits /\ saves[s].edit \in Written(s)
    /\ \A p \in Replicas : d \in seeding[p] =>
          memory[p][d] = {} /\ \A q \in Replicas \ {p} : d \in foreign[q]

\* Of one that did not stray.
TrackOK(d) ==
    /\ \A s, t \in Saves : SaveOf(s, d) /\ SaveOf(t, d) =>
          saves[s].replica = saves[t].replica /\ (d \notin Live => s = t)
    /\ \A s \in Saves :
          /\ Writing(s, d) => Written(s) = memory[saves[s].replica][d]
          /\ Keeping(s, d) => table[d] = memory[saves[s].replica][d]
          /\ Deleting(s, d) => memory[saves[s].replica][d] = NoDocument
    /\ \A p \in Replicas :
          Fresh(p, d) /\ d \notin ahead[p] /\ d \notin seeding[p] /\ ~Saving(d) =>
              memory[p][d] = table[d]
    /\ \A p \in Replicas : d \in seeding[p] /\ d \notin foreign[p] => ~Saving(d)

\* Of one that was not deleted either.
KeptOK(d) ==
    /\ KeptIn(d, table[d])
    /\ \A s \in Saves : Writing(s, d) => KeptIn(d, Written(s))
    /\ \A p \in Replicas : Fresh(p, d) /\ (Knows(p, d) \/ d \in Live) => KeptIn(d, memory[p][d])
    /\ \A p \in Replicas : d \in seeding[p] /\ d \notin foreign[p] => KeptIn(d, {})

DocOK(d) ==
    /\ SavesOK(d)
    /\ d \notin strayed => TrackOK(d)
    /\ d \notin strayed /\ d \notin deleted => KeptOK(d)

StartsAlone(p) ==
    seeding[p] # {} => \A s \in Saves : saves[s] # NoSave => saves[s].replica # p

WidthInv ==
    /\ WidthTypeOK
    /\ \A d \in WidthDocs : DocOK(d)
    /\ \A p \in Replicas : StartsAlone(p)

LEMMA SaveFields ==
  ASSUME WidthTypeOK, NEW s \in Saves, saves[s] # NoSave
  PROVE  /\ saves[s] \in SaveRecords
         /\ saves[s].pc \in {"dispatch", "select", "insert", "update", "keep", "delete"}
         /\ saves[s].replica \in Replicas /\ saves[s].doc \in WidthDocs
         /\ saves[s].content \in Documents /\ saves[s].edit \in Edits \cup {0}
<1>1. saves[s] \in SaveRecords
  BY DEF WidthTypeOK
<1> QED
  BY <1>1 DEF SaveRecords

LEMMA DocumentsHold ==
  ASSUME WidthTypeOK
  PROVE  /\ \A d \in WidthDocs : table[d] \in Documents
         /\ \A p \in Replicas, d \in WidthDocs : memory[p][d] \in Documents
         /\ {} \in Documents /\ NoDocument \in Documents
         /\ \A e \in Edits : e \notin NoDocument
         /\ \A x \in Documents : x # NoDocument => x \subseteq Edits
<1>1. \A e \in Edits : e \notin NoDocument
  BY WidthAssumption DEF Edits, NoDocument
<1>2. /\ \A d \in WidthDocs : table[d] \in Documents
      /\ \A p \in Replicas, d \in WidthDocs : memory[p][d] \in Documents
  BY DEF WidthTypeOK
<1>3. {} \in Documents /\ NoDocument \in Documents
  BY DEF Documents
<1>4. \A x \in Documents : x # NoDocument => x \subseteq Edits
  BY DEF Documents
<1> QED
  BY <1>1, <1>2, <1>3, <1>4

\* What a step that is about another document leaves of this one.
Untouched(d) ==
    /\ table'[d] = table[d]
    /\ \A p \in Replicas :
          /\ memory'[p][d] = memory[p][d]
          /\ d \in foreign'[p] <=> d \in foreign[p]
          /\ d \in blind'[p] <=> d \in blind[p]
          /\ d \in ahead'[p] <=> d \in ahead[p]
          /\ d \in seeding'[p] <=> d \in seeding[p]
    /\ \A s \in Saves :
          /\ saves'[s] # NoSave /\ saves'[s].doc = d <=> saves[s] # NoSave /\ saves[s].doc = d
          /\ saves[s] # NoSave /\ saves[s].doc = d => saves'[s] = saves[s]
    /\ \A e \in Edits : <<d, e>> \in answered' <=> <<d, e>> \in answered
    /\ d \in strayed' <=> d \in strayed
    /\ d \in deleted' <=> d \in deleted

LEMMA UntouchedIsOK ==
  ASSUME WidthTypeOK, NEW d \in WidthDocs, DocOK(d), Untouched(d)
  PROVE  DocOK(d)'
<1>1. \A s \in Saves : SaveOf(s, d) =>
         /\ saves'[s] = saves[s] /\ saves[s].replica \in Replicas
         /\ Written(s)' = Written(s)
  BY SaveFields DEF Untouched, SaveOf, Written, Captured
<1>2. \A s \in Saves : /\ SaveOf(s, d)' <=> SaveOf(s, d)
                       /\ Writing(s, d)' <=> Writing(s, d)
                       /\ Keeping(s, d)' <=> Keeping(s, d)
                       /\ Deleting(s, d)' <=> Deleting(s, d)
                       /\ Dispatching(s, d)' <=> Dispatching(s, d)
  BY <1>1 DEF Untouched, SaveOf, Writing, Keeping, Deleting, Dispatching
<1>3. \A p \in Replicas : /\ Fresh(p, d)' <=> Fresh(p, d)
                          /\ Knows(p, d)' <=> Knows(p, d)
  BY DEF Untouched, Fresh, Knows
<1>4. Saving(d)' <=> Saving(d)
  BY <1>2 DEF Saving, SaveOf
<1>5. SavesOK(d)'
  BY <1>1, <1>2 DEF DocOK, SavesOK, Untouched, Writing, Deleting, Dispatching
<1>6. TrackOK(d) => TrackOK(d)'
  BY <1>1, <1>2, <1>3, <1>4 DEF TrackOK, Untouched, Writing, Keeping, Deleting
<1>7. KeptOK(d) => KeptOK(d)'
  BY <1>1, <1>2, <1>3 DEF KeptOK, KeptIn, Untouched, Writing
<1> QED
  BY <1>5, <1>6, <1>7 DEF DocOK, Untouched

\* A step about the document d, and about no other.
LEMMA StepOfDocument ==
  ASSUME WidthInv, NEW d \in WidthDocs, WidthTypeOK', DocOK(d)',
         \A c \in WidthDocs \ {d} : Untouched(c), \A p \in Replicas : StartsAlone(p)'
  PROVE  WidthInv'
<1>1. \A c \in WidthDocs \ {d} : DocOK(c)'
  BY UntouchedIsOK DEF WidthInv
<1> QED
  BY <1>1 DEF WidthInv

\* A change of a document: all others are as they were.
LEMMA ChangeIsTyped ==
  ASSUME WidthInv, NEW s \in Saves, NEW p \in Replicas, NEW d \in WidthDocs, Change(s, p, d)
  PROVE  /\ WidthTypeOK'
         /\ edits + 1 \in Edits
         /\ memory'[p][d] = (IF Knows(p, d) THEN memory[p][d] ELSE {}) \cup {edits + 1}
         /\ \A q \in Replicas, c \in WidthDocs :
               q # p \/ c # d => memory'[q][c] = memory[q][c]
         /\ saves' = [saves EXCEPT ![s] = [pc |-> "select", replica |-> p, doc |-> d,
                                           content |-> memory'[p][d], edit |-> edits + 1]]
<1> DEFINE content == (IF Knows(p, d) THEN memory[p][d] ELSE {}) \cup {edits + 1}
           new == [pc |-> "select", replica |-> p, doc |-> d, content |-> content,
                   edit |-> edits + 1]
<1>1. /\ edits < MaxEdits /\ edits' = edits + 1
      /\ memory' = [memory EXCEPT ![p][d] = content]
      /\ saves' = [saves EXCEPT ![s] = new]
      /\ Touches(s, p, d)
      /\ UNCHANGED <<table, seeding, answered, deleted, blind, ahead>>
  BY DEF Change, Save
<1>2. WidthTypeOK /\ edits \in 0 .. MaxEdits /\ MaxEdits \in Nat
  BY WidthAssumption DEF WidthInv, WidthTypeOK
<1>3. edits + 1 \in Edits /\ edits' \in 0 .. MaxEdits
  BY <1>1, <1>2 DEF Edits
<1>4. content \in Documents
  <2>1. Knows(p, d) => memory[p][d] \subseteq Edits
    BY <1>2, DocumentsHold DEF Knows
  <2> QED
    BY <1>3, <2>1 DEF Documents
<1>5. new \in SaveRecords
  BY <1>3, <1>4 DEF SaveRecords
<1> HIDE DEF content, new
<1>6. memory' \in [Replicas -> [WidthDocs -> Documents]]
      /\ memory'[p][d] = content
      /\ \A q \in Replicas, c \in WidthDocs : q # p \/ c # d => memory'[q][c] = memory[q][c]
  BY <1>1, <1>2, <1>4 DEF WidthTypeOK
<1>7. saves' \in [Saves -> {NoSave} \cup SaveRecords]
  BY <1>1, <1>2, <1>5 DEF WidthTypeOK
<1>8. foreign' \in [Replicas -> SUBSET WidthDocs] /\ strayed' \subseteq WidthDocs
  BY <1>1, <1>2 DEF Touches, WidthTypeOK
<1>9. WidthTypeOK'
  BY <1>1, <1>2, <1>3, <1>6, <1>7, <1>8 DEF WidthTypeOK
<1> QED
  BY <1>1, <1>3, <1>6, <1>9 DEF content, new

LEMMA ChangeKeeps ==
  ASSUME WidthInv, NEW s \in Saves, NEW p \in Replicas, NEW d \in WidthDocs, Change(s, p, d),
         Serving(p),
         d \in Live \/ Knows(p, d) \/ table[d] = NoDocument,
         saves[s] = NoSave \/ (SaveOf(s, d) /\ saves[s].replica = p),
         \A t \in Saves \ {s} : ~Dispatching(t, d)
  PROVE  WidthInv'
<1>1. /\ WidthTypeOK' /\ WidthTypeOK /\ DocOK(d)
      /\ edits + 1 \in Edits
      /\ memory'[p][d] = (IF Knows(p, d) THEN memory[p][d] ELSE {}) \cup {edits + 1}
      /\ \A q \in Replicas, c \in WidthDocs :
            q # p \/ c # d => memory'[q][c] = memory[q][c]
      /\ saves' = [saves EXCEPT ![s] = [pc |-> "select", replica |-> p, doc |-> d,
                                        content |-> memory'[p][d], edit |-> edits + 1]]
  BY ChangeIsTyped DEF WidthInv
<1>2. /\ Touches(s, p, d)
      /\ UNCHANGED <<table, seeding, answered, deleted, blind, ahead>>
  BY DEF Change
<1>3. /\ foreign' = [q \in Replicas |-> IF q = p THEN foreign[q] ELSE foreign[q] \cup {d}]
      /\ strayed' = IF d \in foreign[p] \cup blind[p] \/ Outrun(s, d)
                    THEN strayed \cup {d} ELSE strayed
  BY <1>2 DEF Touches
<1>4. /\ saves'[s] = [pc |-> "select", replica |-> p, doc |-> d,
                      content |-> memory'[p][d], edit |-> edits + 1]
      /\ \A t \in Saves \ {s} : saves'[t] = saves[t]
      /\ saves'[s].pc = "select" /\ saves'[s].replica = p /\ saves'[s].doc = d
      /\ saves'[s].content = memory'[p][d] /\ saves'[s].edit = edits + 1
      /\ saves'[s] # NoSave
  <2>1. saves'[s] = [pc |-> "select", replica |-> p, doc |-> d,
                     content |-> memory'[p][d], edit |-> edits + 1]
        /\ \A t \in Saves \ {s} : saves'[t] = saves[t]
    BY <1>1 DEF WidthTypeOK
  <2>2. saves'[s].pc # "none"
    BY <2>1
  <2>3. NoSave.pc = "none"
    BY DEF NoSave
  <2> QED
    BY <2>1, <2>2, <2>3
<1>5. \A c \in WidthDocs \ {d} : Untouched(c)
  BY <1>1, <1>2, <1>3, <1>4 DEF Untouched, SaveOf
<1>6. \A q \in Replicas : StartsAlone(q)'
  <2>1. \A q \in Replicas : StartsAlone(q)
    BY DEF WidthInv
  <2> QED
    BY <1>2, <1>4, <2>1 DEF StartsAlone, Serving
<1>7. \A t \in Saves \ {s} :
         /\ SaveOf(t, d)' <=> SaveOf(t, d)
         /\ Writing(t, d)' <=> Writing(t, d)
         /\ Keeping(t, d)' <=> Keeping(t, d)
         /\ Deleting(t, d)' <=> Deleting(t, d)
         /\ ~Dispatching(t, d)'
  BY <1>4 DEF SaveOf, Writing, Keeping, Deleting, Dispatching
<1>8. /\ SaveOf(s, d)' /\ Writing(s, d)'
      /\ ~Keeping(s, d)' /\ ~Deleting(s, d)' /\ ~Dispatching(s, d)'
  BY <1>4 DEF SaveOf, Writing, Keeping, Deleting, Dispatching
<1>9. /\ d \notin strayed' => d \notin strayed /\ Fresh(p, d)
      /\ d \notin strayed' => \A t \in Saves \ {s} :
            SaveOf(t, d) => d \in Live /\ saves[t].pc = "select"
  BY <1>3 DEF Fresh, SaveOf, Outrun
<1>10. \A q \in Replicas \ {p} : d \in foreign'[q] /\ ~Fresh(q, d)'
  BY <1>3 DEF Fresh
\* Whoever else writes the document, and did not stray, is at this process.
<1>11. ASSUME d \notin strayed', NEW t \in Saves \ {s}, SaveOf(t, d)
       PROVE  saves[t].replica = p /\ d \in Live /\ saves[t].pc = "select"
  <2>1. Writing(t, d) \/ Deleting(t, d)
    BY <1>1, <1>7, <1>11, SaveFields DEF Writing, Deleting, Dispatching, SaveOf
  <2>2. \A q \in Replicas \ {saves[t].replica} : d \in foreign[q]
    BY <1>1, <2>1 DEF DocOK, SavesOK
  <2> QED
    BY <1>9, <1>11, <2>2 DEF Fresh
<1>12. \A t \in Saves \ {s} : Writing(t, d) =>
          /\ saves[t].replica \in Replicas
          /\ \/ saves[t].pc = "select" /\ d \in Live
                /\ Written(t) = memory[saves[t].replica][d]
                /\ Written(t)' = memory'[saves[t].replica][d]
             \/ (saves[t].pc # "select" \/ d \notin Live) /\ Written(t)' = Written(t)
  BY <1>1, <1>4, SaveFields DEF Written, Captured, Writing, SaveOf
<1>13. Written(s)' = memory'[p][d]
  BY <1>4 DEF Written, Captured
<1>14. \A e \in Edits : e \in memory[p][d] => e \in memory'[p][d]
  BY <1>1, DocumentsHold DEF Knows
<1>15. SavesOK(d)'
  <2>1. \A t \in Saves : Deleting(t, d)' => d \in Runbooks
    BY <1>1, <1>7, <1>8 DEF DocOK, SavesOK
  <2>2. \A t \in Saves : Writing(t, d)' \/ Deleting(t, d)' =>
           \A q \in Replicas \ {saves'[t].replica} : d \in foreign'[q]
    BY <1>1, <1>3, <1>4, <1>7, <1>8, <1>10 DEF DocOK, SavesOK
  <2>3. ASSUME NEW t \in Saves, Writing(t, d)'
        PROVE  saves'[t].edit \in Edits /\ saves'[t].edit \in Written(t)'
    <3>1. CASE t = s
      BY <1>1, <1>4, <1>13, <3>1
    <3>2. CASE t # s
      <4>1. /\ saves[t].edit \in Edits /\ saves[t].edit \in Written(t)
            /\ saves'[t] = saves[t] /\ Writing(t, d)
        BY <1>1, <1>4, <1>7, <2>3, <3>2 DEF DocOK, SavesOK
      <4>2. Written(t)' = Written(t)
            \/ (Written(t) = memory[p][d] /\ Written(t)' = memory'[p][d])
        BY <1>1, <1>12, <3>2, <4>1
      <4> QED
        BY <1>14, <4>1, <4>2
    <3> QED
      BY <3>1, <3>2
  <2>4. \A q \in Replicas : d \in seeding'[q] =>
           memory'[q][d] = {} /\ \A r \in Replicas \ {q} : d \in foreign'[r]
    BY <1>1, <1>2, <1>3, <1>10 DEF DocOK, SavesOK, Serving
  <2> QED
    BY <1>7, <1>8, <2>1, <2>2, <2>3, <2>4 DEF SavesOK
<1>16. d \notin strayed' => TrackOK(d)'
  <2> SUFFICES ASSUME d \notin strayed'
               PROVE  TrackOK(d)'
    OBVIOUS
  <2>1. TrackOK(d) /\ Fresh(p, d)
    BY <1>1, <1>9 DEF DocOK
  <2>2. \A t \in Saves : SaveOf(t, d)' =>
           /\ saves'[t].replica = p
           /\ t # s => d \in Live /\ saves'[t].pc = "select" /\ Written(t)' = memory'[p][d]
    <3>1. \A t \in Saves \ {s} : SaveOf(t, d) /\ saves[t].pc = "select" => Writing(t, d)
      BY DEF Writing
    <3> QED
      BY <1>4, <1>7, <1>11, <1>12, <3>1
  <2>3. Saving(d)'
    BY <1>8 DEF Saving, SaveOf
  <2>4. \A t \in Saves :
           /\ Writing(t, d)' => Written(t)' = memory'[saves'[t].replica][d]
           /\ ~Keeping(t, d)' /\ ~Deleting(t, d)'
    BY <1>4, <1>8, <1>13, <2>2 DEF Writing, Keeping, Deleting
  <2>5. \A q \in Replicas : ~(d \in seeding'[q] /\ d \notin foreign'[q])
    BY <1>2, <1>10 DEF Serving
  <2> QED
    BY <2>2, <2>3, <2>4, <2>5 DEF TrackOK
<1>17. d \notin strayed' /\ d \notin deleted' => KeptOK(d)'
  <2> SUFFICES ASSUME d \notin strayed', d \notin deleted'
               PROVE  KeptOK(d)'
    OBVIOUS
  <2>1. KeptOK(d) /\ Fresh(p, d)
    BY <1>1, <1>2, <1>9 DEF DocOK
  <2>2. KeptIn(d, memory[p][d])'
    <3>1. CASE Knows(p, d) \/ d \in Live
      BY <1>2, <1>14, <2>1, <3>1 DEF KeptOK, KeptIn
    <3>2. CASE table[d] = NoDocument
      BY <1>1, <1>2, <2>1, <3>2, DocumentsHold DEF KeptOK, KeptIn
    <3> QED
      BY <3>1, <3>2
  <2>3. ASSUME NEW t \in Saves, Writing(t, d)'
        PROVE  KeptIn(d, Written(t))'
    <3>1. CASE t = s
      BY <1>13, <2>2, <3>1 DEF KeptIn
    <3>2. CASE t # s
      <4>1. saves[t].replica = p /\ d \in Live /\ saves[t].pc = "select"
        BY <1>7, <1>11, <2>3, <3>2 DEF Writing
      <4>2. Written(t)' = memory'[p][d]
        BY <1>7, <1>12, <2>3, <3>2, <4>1
      <4> QED
        BY <2>2, <4>2 DEF KeptIn
    <3> QED
      BY <3>1, <3>2
  <2> QED
    BY <1>2, <1>10, <2>1, <2>2, <2>3 DEF KeptOK, KeptIn, Serving
<1> QED
  BY <1>1, <1>5, <1>6, <1>15, <1>16, <1>17, StepOfDocument DEF DocOK

LEMMA MakeKeeps ==
  ASSUME WidthInv, NEW s \in Saves, NEW p \in Replicas, NEW d \in WidthDocs, Make(s, p, d)
  PROVE  WidthInv'
<1>1. /\ saves[s] = NoSave /\ Serving(p) /\ Change(s, p, d)
      /\ table[d] = NoDocument /\ ~Saving(d)
  BY DEF Make, Unheard
<1> QED
  BY <1>1, ChangeKeeps DEF Saving, Dispatching, SaveOf

LEMMA UpdateDocKeeps ==
  ASSUME WidthInv, NEW s \in Saves, NEW p \in Replicas, NEW d \in WidthDocs,
         UpdateDoc(s, p, d)
  PROVE  WidthInv'
<1>1. /\ saves[s] = NoSave /\ Serving(p) /\ Change(s, p, d)
      /\ d \in Live \/ Knows(p, d)
      /\ d \notin Executions
  BY WidthAssumption DEF UpdateDoc
<1>2. \A t \in Saves : ~Dispatching(t, d)
  BY <1>1 DEF WidthInv, DocOK, SavesOK
<1> QED
  BY <1>1, <1>2, ChangeKeeps

LEMMA DispatchedKeeps ==
  ASSUME WidthInv, NEW s \in Saves, Dispatched(s)
  PROVE  WidthInv'
<1>1. /\ saves[s] # NoSave /\ saves[s].pc = "dispatch"
      /\ Change(s, saves[s].replica, saves[s].doc)
  BY DEF Dispatched
<1>2. saves[s].replica \in Replicas /\ saves[s].doc \in WidthDocs
  BY <1>1, SaveFields DEF WidthInv
<1> PICK d \in WidthDocs, p \in Replicas : d = saves[s].doc /\ p = saves[s].replica
  BY <1>2
<1>3. Dispatching(s, d)
  BY <1>1 DEF Dispatching, SaveOf
<1>4. table[d] = NoDocument /\ \A t \in Saves : SaveOf(t, d) => t = s
  BY <1>3 DEF WidthInv, DocOK, SavesOK
<1>5. Serving(p)
  BY <1>1 DEF WidthInv, StartsAlone, Serving
<1> QED
  BY <1>1, <1>3, <1>4, <1>5, ChangeKeeps DEF Dispatching

LEMMA DeleteKeeps ==
  ASSUME WidthInv, NEW s \in Saves, NEW p \in Replicas, NEW d \in WidthDocs, Delete(s, p, d)
  PROVE  WidthInv'
<1> DEFINE new == [pc |-> "delete", replica |-> p, doc |-> d, content |-> NoDocument, edit |-> 0]
<1>1. /\ saves[s] = NoSave /\ Serving(p) /\ d \in Runbooks
      /\ memory' = [memory EXCEPT ![p][d] = NoDocument]
      /\ saves' = [saves EXCEPT ![s] = new]
      /\ foreign' = [q \in Replicas |-> IF q = p THEN foreign[q] ELSE foreign[q] \cup {d}]
      /\ strayed' = IF d \in foreign[p] \cup blind[p] \/ Outrun(s, d)
                    THEN strayed \cup {d} ELSE strayed
      /\ UNCHANGED <<table, seeding, edits, answered, deleted, blind, ahead>>
  BY DEF Delete, Save, Touches
<1>2. WidthTypeOK /\ DocOK(d) /\ d \notin Live /\ d \notin Executions
  BY <1>1, WidthAssumption DEF WidthInv
<1>3. new \in SaveRecords
  BY <1>2, DocumentsHold DEF SaveRecords
<1>4. new.pc = "delete" /\ new.replica = p /\ new.doc = d /\ new # NoSave
  <2>1. NoSave.pc = "none"
    BY DEF NoSave
  <2> QED
    BY <2>1
<1> HIDE DEF new
<1>5. saves'[s] = new /\ \A t \in Saves \ {s} : saves'[t] = saves[t]
  BY <1>1, <1>2 DEF WidthTypeOK
<1>6. /\ memory' \in [Replicas -> [WidthDocs -> Documents]] /\ memory'[p][d] = NoDocument
      /\ \A q \in Replicas, c \in WidthDocs : q # p \/ c # d => memory'[q][c] = memory[q][c]
  BY <1>1, <1>2, DocumentsHold DEF WidthTypeOK
<1>7. WidthTypeOK'
  BY <1>1, <1>2, <1>3, <1>6 DEF WidthTypeOK
<1>8. \A c \in WidthDocs \ {d} : Untouched(c)
  BY <1>1, <1>4, <1>5, <1>6 DEF Untouched
<1>9. \A q \in Replicas : StartsAlone(q)'
  <2>1. \A q \in Replicas : StartsAlone(q)
    BY DEF WidthInv
  <2> QED
    BY <1>1, <1>4, <1>5, <2>1 DEF StartsAlone, Serving
<1>10. \A t \in Saves \ {s} :
         /\ SaveOf(t, d)' <=> SaveOf(t, d)
         /\ Writing(t, d)' <=> Writing(t, d)
         /\ Deleting(t, d)' <=> Deleting(t, d)
         /\ ~Dispatching(t, d) /\ ~Dispatching(t, d)'
         /\ SaveOf(t, d) => Written(t) = saves[t].content /\ Written(t)' = saves[t].content
  BY <1>2, <1>5 DEF SaveOf, Writing, Deleting, Dispatching, Written, Captured, DocOK, SavesOK
<1>11. SaveOf(s, d)' /\ ~Writing(s, d)' /\ Deleting(s, d)' /\ ~Dispatching(s, d)'
  BY <1>4, <1>5 DEF SaveOf, Writing, Deleting, Dispatching
<1>12. d \notin strayed' =>
         d \notin strayed /\ Fresh(p, d) /\ \A t \in Saves \ {s} : ~SaveOf(t, d)
  BY <1>1, <1>2 DEF Fresh, SaveOf, Outrun
<1>13. \A q \in Replicas \ {p} : d \in foreign'[q] /\ ~Fresh(q, d)'
  BY <1>1 DEF Fresh
<1>14. SavesOK(d)'
  <2>1. \A t \in Saves : Deleting(t, d)' => d \in Runbooks
    BY <1>1
  <2>2. \A t \in Saves : Writing(t, d)' \/ Deleting(t, d)' =>
           \A q \in Replicas \ {saves'[t].replica} : d \in foreign'[q]
    BY <1>1, <1>2, <1>4, <1>5, <1>10, <1>13 DEF DocOK, SavesOK
  <2>3. \A t \in Saves : Writing(t, d)' =>
           saves'[t].edit \in Edits /\ saves'[t].edit \in Written(t)'
    BY <1>2, <1>5, <1>10, <1>11 DEF DocOK, SavesOK, Writing
  <2>4. \A q \in Replicas : d \in seeding'[q] =>
           memory'[q][d] = {} /\ \A r \in Replicas \ {q} : d \in foreign'[r]
    BY <1>1, <1>2, <1>6, <1>13 DEF DocOK, SavesOK, Serving
  <2> QED
    BY <1>10, <1>11, <2>1, <2>2, <2>3, <2>4 DEF SavesOK
<1>15. d \notin strayed' => TrackOK(d)'
  <2> SUFFICES ASSUME d \notin strayed'
               PROVE  TrackOK(d)'
    OBVIOUS
  <2>1. \A t \in Saves : SaveOf(t, d)' => t = s
    BY <1>10, <1>12
  <2>2. \A t \in Saves :
           /\ ~Writing(t, d)' /\ ~Keeping(t, d)'
           /\ Deleting(t, d)' => memory'[saves'[t].replica][d] = NoDocument
    BY <1>4, <1>5, <1>6, <1>11, <2>1 DEF Writing, Keeping, Deleting
  <2>3. Saving(d)'
    BY <1>11 DEF Saving, SaveOf
  <2>4. \A q \in Replicas : ~(d \in seeding'[q] /\ d \notin foreign'[q])
    BY <1>1, <1>13 DEF Serving
  <2> QED
    BY <2>1, <2>2, <2>3, <2>4 DEF TrackOK
<1>16. d \notin strayed' /\ d \notin deleted' => KeptOK(d)'
  <2> SUFFICES ASSUME d \notin strayed', d \notin deleted'
               PROVE  KeptOK(d)'
    OBVIOUS
  <2>1. KeptOK(d)
    BY <1>1, <1>2, <1>12 DEF DocOK
  <2>2. \A t \in Saves : ~Writing(t, d)'
    BY <1>10, <1>11, <1>12 DEF Writing
  <2>3. \A q \in Replicas : ~(Fresh(q, d)' /\ (Knows(q, d)' \/ d \in Live))
    BY <1>2, <1>6, <1>13 DEF Knows
  <2>4. \A q \in Replicas : ~(d \in seeding'[q] /\ d \notin foreign'[q])
    BY <1>1, <1>13 DEF Serving
  <2> QED
    BY <1>1, <2>1, <2>2, <2>3, <2>4 DEF KeptOK, KeptIn
<1> QED
  BY <1>7, <1>8, <1>9, <1>14, <1>15, <1>16, StepOfDocument DEF DocOK

LEMMA ExecuteKeeps ==
  ASSUME WidthInv, NEW s \in Saves, NEW p \in Replicas, NEW r, NEW d \in WidthDocs,
         Execute(s, p, r, d)
  PROVE  WidthInv'
<1> DEFINE new == [pc |-> "dispatch", replica |-> p, doc |-> d, content |-> NoDocument,
                   edit |-> 0]
<1>1. /\ saves[s] = NoSave /\ Serving(p) /\ d \in Executions
      /\ table[d] = NoDocument /\ ~Saving(d) /\ \A q \in Replicas : memory[q][d] = NoDocument
      /\ saves' = [saves EXCEPT ![s] = new]
      /\ UNCHANGED <<table, memory, seeding, edits, answered, deleted, foreign, blind, ahead,
                     strayed>>
  BY DEF Execute, Save, Unheard, Knows, widthHistory
<1>2. WidthTypeOK /\ DocOK(d) /\ d \notin Live /\ d \notin Runbooks
  BY <1>1, WidthAssumption DEF WidthInv
<1>3. new \in SaveRecords
  BY <1>2, DocumentsHold DEF SaveRecords
<1>4. new.pc = "dispatch" /\ new.replica = p /\ new.doc = d /\ new # NoSave
  <2>1. NoSave.pc = "none"
    BY DEF NoSave
  <2> QED
    BY <2>1
<1> HIDE DEF new
<1>5. saves'[s] = new /\ \A t \in Saves \ {s} : saves'[t] = saves[t]
  BY <1>1, <1>2 DEF WidthTypeOK
<1>6. WidthTypeOK'
  BY <1>1, <1>2, <1>3 DEF WidthTypeOK
<1>7. \A c \in WidthDocs \ {d} : Untouched(c)
  BY <1>1, <1>4, <1>5 DEF Untouched
<1>8. \A q \in Replicas : StartsAlone(q)'
  <2>1. \A q \in Replicas : StartsAlone(q)
    BY DEF WidthInv
  <2> QED
    BY <1>1, <1>4, <1>5, <2>1 DEF StartsAlone, Serving
<1>9. \A t \in Saves : SaveOf(t, d)' <=> t = s
  BY <1>1, <1>4, <1>5 DEF SaveOf, Saving
<1>10. \A t \in Saves : ~Writing(t, d)' /\ ~Keeping(t, d)' /\ ~Deleting(t, d)'
  BY <1>4, <1>5, <1>9 DEF Writing, Keeping, Deleting
<1>11. SavesOK(d)'
  BY <1>1, <1>2, <1>9, <1>10 DEF DocOK, SavesOK, Dispatching
<1>12. d \notin strayed => TrackOK(d)'
  <2>1. Saving(d)'
    BY <1>9 DEF Saving, SaveOf
  <2>2. \A q \in Replicas : d \notin seeding'[q]
    BY <1>1, <1>2, WidthAssumption DEF WidthTypeOK
  <2> QED
    BY <1>1, <1>9, <1>10, <2>1, <2>2 DEF TrackOK
<1>13. d \notin strayed /\ d \notin deleted => KeptOK(d)'
  BY <1>1, <1>2, <1>10 DEF DocOK, KeptOK, KeptIn, Fresh, Knows
<1> QED
  BY <1>1, <1>6, <1>7, <1>8, <1>11, <1>12, <1>13, StepOfDocument DEF DocOK

LEMMA SelectRowKeeps ==
  ASSUME WidthInv, NEW s \in Saves, SelectRow(s)
  PROVE  WidthInv'
<1> DEFINE row == table[saves[s].doc]
           pc == CASE row = NoDocument -> "insert"
                   [] row = Captured(s) -> "keep"
                   [] OTHER -> "update"
           new == [saves[s] EXCEPT !.pc = pc, !.content = Captured(s)]
<1>1. /\ saves[s] # NoSave /\ saves[s].pc = "select"
      /\ saves' = [saves EXCEPT ![s] = new]
      /\ UNCHANGED <<table, memory, seeding, edits, answered, deleted, foreign, blind, ahead,
                     strayed>>
  BY DEF SelectRow, SaveIs, widthHistory
<1>2. WidthTypeOK
  BY DEF WidthInv
<1>3. saves[s] \in SaveRecords
  BY <1>1, <1>2, SaveFields
<1>4. /\ new \in SaveRecords /\ new.pc \in {"insert", "update", "keep"}
      /\ new.replica = saves[s].replica /\ new.doc = saves[s].doc
      /\ new.content = Captured(s) /\ new.edit = saves[s].edit
      /\ new.pc = "keep" => table[saves[s].doc] = Captured(s)
  <2>1. pc \in {"insert", "update", "keep"} /\ (pc = "keep" => row = Captured(s))
    OBVIOUS
  <2>2. Captured(s) \in Documents
    BY <1>1, <1>2, <1>3, SaveFields, DocumentsHold DEF Captured
  <2> HIDE DEF pc, row
  <2>3. /\ new \in SaveRecords /\ new.pc = pc
        /\ new.replica = saves[s].replica /\ new.doc = saves[s].doc
        /\ new.content = Captured(s) /\ new.edit = saves[s].edit
    BY <1>3, <2>1, <2>2 DEF SaveRecords
  <2> QED
    BY <2>1, <2>3 DEF row
<1>5. new # NoSave
  <2>1. NoSave.pc = "none"
    BY DEF NoSave
  <2> QED
    BY <1>4, <2>1
<1> HIDE DEF new
<1>6. saves'[s] = new /\ \A t \in Saves \ {s} : saves'[t] = saves[t]
  BY <1>1, <1>2 DEF WidthTypeOK
<1>7. WidthTypeOK'
  BY <1>1, <1>2, <1>4 DEF WidthTypeOK
<1>8. \A t \in Saves :
         /\ saves'[t] = NoSave <=> saves[t] = NoSave
         /\ saves[t] # NoSave => /\ saves'[t].replica = saves[t].replica
                                 /\ saves'[t].doc = saves[t].doc
                                 /\ saves'[t].edit = saves[t].edit
         /\ Written(t)' = Written(t) \/ saves[t] = NoSave
  BY <1>1, <1>4, <1>5, <1>6 DEF Written, Captured
<1>9. \A t \in Saves, d \in WidthDocs :
         /\ SaveOf(t, d)' <=> SaveOf(t, d)
         /\ Writing(t, d)' <=> Writing(t, d)
         /\ Deleting(t, d)' <=> Deleting(t, d)
         /\ Dispatching(t, d)' <=> Dispatching(t, d)
         /\ SaveOf(t, d) => saves[t] # NoSave
         /\ Keeping(t, d)' =>
               Keeping(t, d) \/ (Writing(t, d) /\ table[d] = Written(t))
  BY <1>1, <1>4, <1>6, <1>8 DEF SaveOf, Writing, Keeping, Deleting, Dispatching, Written
<1>10. \A p \in Replicas : StartsAlone(p)'
  BY <1>1, <1>8 DEF WidthInv, StartsAlone
<1>11. ASSUME NEW d \in WidthDocs
       PROVE  DocOK(d)'
  <2>1. DocOK(d)
    BY DEF WidthInv
  <2>2. SavesOK(d)'
    BY <1>1, <1>8, <1>9, <2>1 DEF DocOK, SavesOK, Writing, Deleting, Dispatching
  <2>3. Saving(d)' <=> Saving(d)
    BY <1>8 DEF Saving
  <2>4. TrackOK(d) => TrackOK(d)'
    <3> SUFFICES ASSUME TrackOK(d)
                 PROVE  TrackOK(d)'
      OBVIOUS
    <3>1. \A t \in Saves :
             /\ Writing(t, d)' => Written(t)' = memory'[saves'[t].replica][d]
             /\ Keeping(t, d)' => table'[d] = memory'[saves'[t].replica][d]
             /\ Deleting(t, d)' => memory'[saves'[t].replica][d] = NoDocument
      BY <1>1, <1>8, <1>9 DEF TrackOK, Writing, Keeping, Deleting
    <3> QED
      BY <1>1, <1>8, <1>9, <2>3, <3>1 DEF TrackOK, Fresh
  <2>5. KeptOK(d) => KeptOK(d)'
    BY <1>1, <1>8, <1>9 DEF KeptOK, KeptIn, Writing, Fresh, Knows
  <2> QED
    BY <1>1, <2>1, <2>2, <2>4, <2>5 DEF DocOK
<1> QED
  BY <1>7, <1>10, <1>11 DEF WidthInv

\* A save that ends, however it ends, leaves the others.
LEMMA SaveEnds ==
  ASSUME WidthInv, NEW s \in Saves, saves[s] # NoSave,
         saves' = [saves EXCEPT ![s] = NoSave], memory' = memory, seeding' = seeding
  PROVE  /\ saves' \in [Saves -> {NoSave} \cup SaveRecords]
         /\ \A t \in Saves \ {s} : saves'[t] = saves[t]
         /\ \A t \in Saves, d \in WidthDocs :
               /\ SaveOf(t, d)' <=> SaveOf(t, d) /\ t # s
               /\ Writing(t, d)' <=> Writing(t, d) /\ t # s
               /\ Keeping(t, d)' <=> Keeping(t, d) /\ t # s
               /\ Deleting(t, d)' <=> Deleting(t, d) /\ t # s
               /\ Dispatching(t, d)' <=> Dispatching(t, d) /\ t # s
         /\ \A t \in Saves \ {s} : Written(t)' = Written(t)
         /\ \A p \in Replicas : StartsAlone(p)'
         /\ \A d \in WidthDocs : Saving(d)' => Saving(d)
         /\ \A d \in WidthDocs \ {saves[s].doc} : Saving(d)' <=> Saving(d)
<1>1. /\ saves' \in [Saves -> {NoSave} \cup SaveRecords]
      /\ saves'[s] = NoSave /\ \A t \in Saves \ {s} : saves'[t] = saves[t]
  BY DEF WidthInv, WidthTypeOK
<1>2. \A t \in Saves, d \in WidthDocs :
         /\ SaveOf(t, d)' <=> SaveOf(t, d) /\ t # s
         /\ Writing(t, d)' <=> Writing(t, d) /\ t # s
         /\ Keeping(t, d)' <=> Keeping(t, d) /\ t # s
         /\ Deleting(t, d)' <=> Deleting(t, d) /\ t # s
         /\ Dispatching(t, d)' <=> Dispatching(t, d) /\ t # s
  BY <1>1 DEF SaveOf, Writing, Keeping, Deleting, Dispatching
<1>3. \A t \in Saves \ {s} : Written(t)' = Written(t)
  BY <1>1 DEF Written, Captured
<1>4. \A p \in Replicas : StartsAlone(p)'
  BY <1>1 DEF WidthInv, StartsAlone
<1>5. \A d \in WidthDocs : (Saving(d)' => Saving(d))
                           /\ (d # saves[s].doc => (Saving(d)' <=> Saving(d)))
  BY <1>1 DEF Saving
<1> QED
  BY <1>1, <1>2, <1>3, <1>4, <1>5

\* The process of a save that was written is the one that knows its document.
LEMMA WriterKnows ==
  ASSUME WidthInv, NEW s \in Saves, NEW d \in WidthDocs, Writing(s, d) \/ Deleting(s, d)
  PROVE  /\ \A q \in Replicas \ {saves[s].replica} : ~Fresh(q, d)
         /\ saves[s].replica \in Replicas /\ saves[s] # NoSave /\ saves[s].doc = d
         /\ \A t \in Saves : ~Dispatching(t, d)
         /\ \A p \in Replicas : d \in seeding[p] => d \in foreign[p]
<1>1. SavesOK(d) /\ WidthTypeOK
  BY DEF WidthInv, DocOK
<1>2. saves[s].replica \in Replicas /\ saves[s] # NoSave /\ saves[s].doc = d
  BY <1>1, SaveFields DEF Writing, Deleting, SaveOf
<1>3. \A q \in Replicas \ {saves[s].replica} : d \in foreign[q]
  BY <1>1 DEF SavesOK
<1>4. \A t \in Saves : ~Dispatching(t, d)
  BY <1>1 DEF SavesOK, Dispatching, Writing, Deleting, SaveOf
<1>5. seeding[saves[s].replica] = {}
  BY <1>2 DEF WidthInv, StartsAlone
<1> QED
  BY <1>2, <1>3, <1>4, <1>5 DEF Fresh

LEMMA CommitKeeps ==
  ASSUME WidthInv, NEW s \in Saves, Commit(s)
  PROVE  WidthInv'
<1>1. /\ saves[s] # NoSave /\ saves[s].pc \in {"insert", "update", "keep"}
      /\ table' = IF saves[s].pc = "keep" THEN table
                  ELSE [table EXCEPT ![saves[s].doc] = Written(s)]
      /\ answered' = answered \cup {<<saves[s].doc, saves[s].edit>>}
      /\ ahead' = [ahead EXCEPT ![saves[s].replica] = ahead[saves[s].replica] \ {saves[s].doc}]
      /\ saves' = [saves EXCEPT ![s] = NoSave]
      /\ UNCHANGED <<memory, seeding, edits, deleted, foreign, blind, strayed>>
  BY DEF Commit, SaveIs, Written
<1>2. /\ WidthTypeOK /\ saves[s].replica \in Replicas /\ saves[s].doc \in WidthDocs
      /\ saves[s].content \in Documents
  BY <1>1, SaveFields DEF WidthInv
<1> PICK d \in WidthDocs, p \in Replicas : d = saves[s].doc /\ p = saves[s].replica
  BY <1>2
<1>3. Writing(s, d) /\ SaveOf(s, d)
  BY <1>1 DEF Writing, SaveOf
<1>4. DocOK(d) /\ SavesOK(d) /\ saves[s].edit \in Edits /\ saves[s].edit \in Written(s)
  BY <1>3 DEF WidthInv, DocOK, SavesOK
<1>5. Written(s) \in Documents
  BY <1>1, <1>2 DEF Written
<1>6. /\ table' \in [WidthDocs -> Documents]
      /\ saves[s].pc # "keep" => table'[d] = Written(s)
      /\ saves[s].pc = "keep" => Keeping(s, d) /\ table'[d] = table[d]
      /\ \A c \in WidthDocs \ {d} : table'[c] = table[c]
  BY <1>1, <1>2, <1>3, <1>5 DEF WidthTypeOK, Keeping
<1>7. /\ \A c \in WidthDocs \ {d}, e \in Edits : <<c, e>> \in answered' <=> <<c, e>> \in answered
      /\ \A e \in Edits : <<d, e>> \in answered' => <<d, e>> \in answered \/ e = saves[s].edit
      /\ answered' \subseteq WidthDocs \X Edits
  BY <1>1, <1>2, <1>4 DEF WidthTypeOK
<1>8. /\ ahead' \in [Replicas -> SUBSET WidthDocs]
      /\ \A q \in Replicas, c \in WidthDocs :
            c # d \/ q # p => (c \in ahead'[q] <=> c \in ahead[q])
  BY <1>1, <1>2 DEF WidthTypeOK
<1>9. /\ saves' \in [Saves -> {NoSave} \cup SaveRecords]
      /\ \A t \in Saves \ {s} : saves'[t] = saves[t]
      /\ \A t \in Saves, c \in WidthDocs :
            /\ SaveOf(t, c)' <=> SaveOf(t, c) /\ t # s
            /\ Writing(t, c)' <=> Writing(t, c) /\ t # s
            /\ Keeping(t, c)' <=> Keeping(t, c) /\ t # s
            /\ Deleting(t, c)' <=> Deleting(t, c) /\ t # s
            /\ Dispatching(t, c)' <=> Dispatching(t, c) /\ t # s
      /\ \A t \in Saves \ {s} : Written(t)' = Written(t)
      /\ \A q \in Replicas : StartsAlone(q)'
      /\ Saving(d)' => Saving(d)
  BY <1>1, SaveEnds
<1>10. WidthTypeOK'
  BY <1>1, <1>2, <1>6, <1>7, <1>8, <1>9 DEF WidthTypeOK
<1>11. \A c \in WidthDocs \ {d} : Untouched(c)
  <2>1. \A c \in WidthDocs \ {d}, t \in Saves : SaveOf(t, c) => t # s
    BY DEF SaveOf
  <2>2. \A c \in WidthDocs \ {d}, t \in Saves :
           /\ SaveOf(t, c)' <=> SaveOf(t, c)
           /\ SaveOf(t, c) => saves'[t] = saves[t]
    BY <1>9, <2>1
  <2> QED
    BY <1>1, <1>6, <1>7, <1>8, <2>2 DEF Untouched, SaveOf
<1>12. /\ \A q \in Replicas \ {p} : ~Fresh(q, d)
       /\ \A t \in Saves : ~Dispatching(t, d)
       /\ \A q \in Replicas : d \in seeding[q] => d \in foreign[q]
  BY <1>3, WriterKnows
<1>13. SavesOK(d)'
  BY <1>1, <1>4, <1>9, <1>12 DEF SavesOK
<1>14. d \notin strayed => TrackOK(d)'
  <2> SUFFICES ASSUME d \notin strayed
               PROVE  TrackOK(d)'
    OBVIOUS
  <2>1. TrackOK(d)
    BY <1>4 DEF DocOK
  <2>2. memory[p][d] = Written(s) /\ table'[d] = memory[p][d]
    BY <1>3, <1>6, <2>1 DEF TrackOK
  <2>3. \A q \in Replicas : Fresh(q, d) => memory[q][d] = table'[d]
    BY <1>12, <2>2
  <2>4. \A t \in Saves : SaveOf(t, d) => saves[t].replica = p
    BY <1>3, <2>1 DEF TrackOK
  <2>5. \A t \in Saves :
           /\ Writing(t, d)' => Written(t)' = memory'[saves'[t].replica][d]
           /\ Keeping(t, d)' => table'[d] = memory'[saves'[t].replica][d]
           /\ Deleting(t, d)' => memory'[saves'[t].replica][d] = NoDocument
    BY <1>1, <1>9, <2>1, <2>2, <2>4 DEF TrackOK, Keeping
  <2> QED
    BY <1>1, <1>9, <1>12, <2>1, <2>3, <2>5 DEF TrackOK, Fresh
<1>15. d \notin strayed /\ d \notin deleted => KeptOK(d)'
  <2> SUFFICES ASSUME d \notin strayed, d \notin deleted
               PROVE  KeptOK(d)'
    OBVIOUS
  <2>1. TrackOK(d) /\ KeptOK(d)
    BY <1>4 DEF DocOK
  <2>2. PICK W \in Documents : W = Written(s)
    BY <1>5
  <2>3. KeptIn(d, W)'
    BY <1>3, <1>4, <1>7, <2>1, <2>2 DEF KeptOK, KeptIn
  <2>4. memory[p][d] = W /\ table'[d] = W
    BY <1>3, <1>6, <2>1, <2>2 DEF TrackOK
  <2>5. ASSUME NEW t \in Saves, Writing(t, d)'
        PROVE  Written(t)' = W
    <3>1. Writing(t, d) /\ SaveOf(t, d) /\ t # s
      BY <1>9, <2>5 DEF Writing
    <3>2. saves[t].replica = p
      BY <1>3, <2>1, <3>1 DEF TrackOK
    <3> QED
      BY <1>9, <2>1, <2>4, <3>1, <3>2 DEF TrackOK
  <2>6. \A t \in Saves : Writing(t, d)' => KeptIn(d, Written(t))'
    BY <2>3, <2>5 DEF KeptIn
  <2>7. \A q \in Replicas : Fresh(q, d)' => KeptIn(d, memory[q][d])'
    BY <1>1, <1>12, <2>3, <2>4 DEF Fresh, KeptIn
  <2>8. KeptIn(d, table[d])'
    BY <2>3, <2>4 DEF KeptIn
  <2> QED
    BY <1>1, <1>12, <2>6, <2>7, <2>8 DEF KeptOK
<1> QED
  BY <1>1, <1>9, <1>10, <1>11, <1>13, <1>14, <1>15, StepOfDocument DEF DocOK

LEMMA DeleteRowKeeps ==
  ASSUME WidthInv, NEW s \in Saves, DeleteRow(s)
  PROVE  WidthInv'
<1>1. /\ saves[s] # NoSave /\ saves[s].pc = "delete"
      /\ table' = [table EXCEPT ![saves[s].doc] = NoDocument]
      /\ deleted' = deleted \cup {saves[s].doc}
      /\ ahead' = [ahead EXCEPT ![saves[s].replica] = ahead[saves[s].replica] \ {saves[s].doc}]
      /\ saves' = [saves EXCEPT ![s] = NoSave]
      /\ UNCHANGED <<memory, seeding, edits, answered, foreign, blind, strayed>>
  BY DEF DeleteRow, SaveIs
<1>2. WidthTypeOK /\ saves[s].replica \in Replicas /\ saves[s].doc \in WidthDocs
  BY <1>1, SaveFields DEF WidthInv
<1> PICK d \in WidthDocs, p \in Replicas : d = saves[s].doc /\ p = saves[s].replica
  BY <1>2
<1>3. Deleting(s, d) /\ SaveOf(s, d)
  BY <1>1 DEF Deleting, SaveOf
<1>4. DocOK(d) /\ SavesOK(d) /\ d \in Runbooks /\ d \notin Live
  BY <1>3, WidthAssumption DEF WidthInv, DocOK, SavesOK
<1>5. /\ table' \in [WidthDocs -> Documents] /\ table'[d] = NoDocument
      /\ \A c \in WidthDocs \ {d} : table'[c] = table[c]
  BY <1>1, <1>2, DocumentsHold DEF WidthTypeOK
<1>6. /\ ahead' \in [Replicas -> SUBSET WidthDocs]
      /\ \A q \in Replicas, c \in WidthDocs :
            c # d \/ q # p => (c \in ahead'[q] <=> c \in ahead[q])
  BY <1>1, <1>2 DEF WidthTypeOK
<1>7. /\ saves' \in [Saves -> {NoSave} \cup SaveRecords]
      /\ \A t \in Saves \ {s} : saves'[t] = saves[t]
      /\ \A t \in Saves, c \in WidthDocs :
            /\ SaveOf(t, c)' <=> SaveOf(t, c) /\ t # s
            /\ Writing(t, c)' <=> Writing(t, c) /\ t # s
            /\ Keeping(t, c)' <=> Keeping(t, c) /\ t # s
            /\ Deleting(t, c)' <=> Deleting(t, c) /\ t # s
            /\ Dispatching(t, c)' <=> Dispatching(t, c) /\ t # s
      /\ \A t \in Saves \ {s} : Written(t)' = Written(t)
      /\ \A q \in Replicas : StartsAlone(q)'
  BY <1>1, SaveEnds
<1>8. WidthTypeOK'
  BY <1>1, <1>2, <1>4, <1>5, <1>6, <1>7 DEF WidthTypeOK
<1>9. \A c \in WidthDocs \ {d} : Untouched(c)
  <2>1. \A c \in WidthDocs \ {d}, t \in Saves : SaveOf(t, c) => t # s
    BY DEF SaveOf
  <2>2. \A c \in WidthDocs \ {d}, t \in Saves :
           /\ SaveOf(t, c)' <=> SaveOf(t, c)
           /\ SaveOf(t, c) => saves'[t] = saves[t]
    BY <1>7, <2>1
  <2> QED
    BY <1>1, <1>5, <1>6, <2>2 DEF Untouched, SaveOf
<1>10. /\ \A q \in Replicas \ {p} : ~Fresh(q, d)
       /\ \A t \in Saves : ~Dispatching(t, d)
       /\ \A q \in Replicas : d \in seeding[q] => d \in foreign[q]
  BY <1>3, WriterKnows
<1>11. SavesOK(d)'
  BY <1>1, <1>4, <1>7, <1>10 DEF SavesOK
<1>12. d \notin strayed => TrackOK(d)'
  <2> SUFFICES ASSUME d \notin strayed
               PROVE  TrackOK(d)'
    OBVIOUS
  <2>1. TrackOK(d)
    BY <1>4 DEF DocOK
  <2>2. memory[p][d] = NoDocument
    BY <1>3, <1>4, <2>1 DEF TrackOK
  <2>3. \A q \in Replicas : Fresh(q, d) => memory[q][d] = table'[d]
    BY <1>5, <1>10, <2>2
  <2>4. \A t \in Saves : ~SaveOf(t, d)'
    BY <1>3, <1>4, <1>7, <2>1 DEF TrackOK
  <2> QED
    BY <1>1, <1>7, <1>10, <2>1, <2>3, <2>4 DEF TrackOK, Fresh, Writing, Keeping, Deleting
<1>13. d \in deleted'
  BY <1>1
<1> QED
  BY <1>1, <1>7, <1>8, <1>9, <1>11, <1>12, <1>13, StepOfDocument DEF DocOK

LEMMA FailSaveKeeps ==
  ASSUME WidthInv, NEW s \in Saves, FailSave(s)
  PROVE  WidthInv'
<1>1. /\ saves[s] # NoSave
      /\ ahead' = IF saves[s].pc = "dispatch" THEN ahead
                  ELSE [ahead EXCEPT ![saves[s].replica] =
                           ahead[saves[s].replica] \cup {saves[s].doc}]
      /\ saves' = [saves EXCEPT ![s] = NoSave]
      /\ UNCHANGED <<table, memory, seeding, edits, answered, deleted, foreign, blind, strayed>>
  BY DEF FailSave, SaveIs
<1>2. /\ WidthTypeOK /\ saves[s].replica \in Replicas /\ saves[s].doc \in WidthDocs
      /\ saves[s].pc \in {"dispatch", "select", "insert", "update", "keep", "delete"}
  BY <1>1, SaveFields DEF WidthInv
<1> PICK d \in WidthDocs, p \in Replicas : d = saves[s].doc /\ p = saves[s].replica
  BY <1>2
<1>3. SaveOf(s, d) /\ (Writing(s, d) \/ Deleting(s, d) \/ Dispatching(s, d))
  BY <1>1, <1>2 DEF Writing, Deleting, Dispatching, SaveOf
<1>4. DocOK(d) /\ SavesOK(d)
  BY DEF WidthInv, DocOK
<1>5. /\ ahead' \in [Replicas -> SUBSET WidthDocs]
      /\ \A q \in Replicas, c \in WidthDocs :
            c # d \/ q # p => (c \in ahead'[q] <=> c \in ahead[q])
      /\ d \in ahead[p] => d \in ahead'[p]
      /\ ~Dispatching(s, d) => d \in ahead'[p]
  BY <1>1, <1>2, <1>3 DEF WidthTypeOK, Dispatching
<1>6. /\ saves' \in [Saves -> {NoSave} \cup SaveRecords]
      /\ \A t \in Saves \ {s} : saves'[t] = saves[t]
      /\ \A t \in Saves, c \in WidthDocs :
            /\ SaveOf(t, c)' <=> SaveOf(t, c) /\ t # s
            /\ Writing(t, c)' <=> Writing(t, c) /\ t # s
            /\ Keeping(t, c)' <=> Keeping(t, c) /\ t # s
            /\ Deleting(t, c)' <=> Deleting(t, c) /\ t # s
            /\ Dispatching(t, c)' <=> Dispatching(t, c) /\ t # s
      /\ \A t \in Saves \ {s} : Written(t)' = Written(t)
      /\ \A q \in Replicas : StartsAlone(q)'
      /\ Saving(d)' => Saving(d)
  BY <1>1, SaveEnds
<1>7. WidthTypeOK'
  BY <1>1, <1>2, <1>5, <1>6 DEF WidthTypeOK
<1>8. \A c \in WidthDocs \ {d} : Untouched(c)
  <2>1. \A c \in WidthDocs \ {d}, t \in Saves : SaveOf(t, c) => t # s
    BY DEF SaveOf
  <2>2. \A c \in WidthDocs \ {d}, t \in Saves :
           /\ SaveOf(t, c)' <=> SaveOf(t, c)
           /\ SaveOf(t, c) => saves'[t] = saves[t]
    BY <1>6, <2>1
  <2> QED
    BY <1>1, <1>5, <2>2 DEF Untouched, SaveOf
<1>9. SavesOK(d)'
  BY <1>1, <1>4, <1>6 DEF SavesOK
\* Whoever knew the document knows that it is not stored, or there is none.
<1>10. \A q \in Replicas :
          Fresh(q, d) /\ d \notin ahead'[q] => memory[q][d] = table[d]
  <2>1. CASE Dispatching(s, d)
    BY <1>4, <2>1 DEF SavesOK
  <2>2. CASE ~Dispatching(s, d)
    BY <1>3, <1>5, <2>2, WriterKnows
  <2> QED
    BY <2>1, <2>2
<1>11. \A q \in Replicas : d \in seeding[q] => d \in foreign[q]
  <2>1. CASE Dispatching(s, d)
    <3>1. d \notin Seeds
      BY <1>4, <2>1, WidthAssumption DEF SavesOK
    <3> QED
      BY <1>2, <3>1 DEF WidthTypeOK
  <2>2. CASE ~Dispatching(s, d)
    BY <1>3, <2>2, WriterKnows
  <2> QED
    BY <2>1, <2>2
<1>12. d \notin strayed => TrackOK(d)'
  BY <1>1, <1>4, <1>6, <1>10, <1>11 DEF DocOK, TrackOK, Fresh
<1>13. d \notin strayed /\ d \notin deleted => KeptOK(d)'
  BY <1>1, <1>4, <1>6 DEF DocOK, KeptOK, KeptIn, Fresh, Knows
<1> QED
  BY <1>1, <1>6, <1>7, <1>8, <1>9, <1>12, <1>13, StepOfDocument DEF DocOK

LEMMA StoreSeedKeeps ==
  ASSUME WidthInv, NEW p \in Replicas, NEW d \in Seeds, StoreSeed(p, d)
  PROVE  WidthInv'
<1>1. /\ d \in seeding[p]
      /\ table' = [table EXCEPT ![d] = {}]
      /\ seeding' = [seeding EXCEPT ![p] = seeding[p] \ {d}]
      /\ strayed' = IF d \in foreign[p] THEN strayed \cup {d} ELSE strayed
      /\ UNCHANGED <<memory, saves, edits, answered, deleted, foreign, blind, ahead>>
  BY DEF StoreSeed
<1>2. WidthTypeOK /\ d \in WidthDocs /\ {} \in Documents
  BY WidthAssumption, DocumentsHold DEF WidthInv
<1>3. DocOK(d) /\ SavesOK(d)
  BY <1>2 DEF WidthInv, DocOK
<1>4. /\ table' \in [WidthDocs -> Documents] /\ table'[d] = {}
      /\ \A c \in WidthDocs \ {d} : table'[c] = table[c]
      /\ seeding' \in [Replicas -> SUBSET Seeds]
      /\ \A q \in Replicas, c \in WidthDocs :
            c # d \/ q # p => (c \in seeding'[q] <=> c \in seeding[q])
      /\ \A q \in Replicas : seeding'[q] \subseteq seeding[q]
      /\ strayed' \subseteq WidthDocs
  BY <1>1, <1>2 DEF WidthTypeOK
<1>5. WidthTypeOK'
  BY <1>1, <1>2, <1>4 DEF WidthTypeOK
<1>6. \A c \in WidthDocs \ {d} : Untouched(c)
  BY <1>1, <1>4 DEF Untouched
<1>7. \A q \in Replicas : StartsAlone(q)'
  BY <1>1, <1>4 DEF WidthInv, StartsAlone
<1>8. /\ memory[p][d] = {} /\ \A q \in Replicas \ {p} : d \in foreign[q]
  BY <1>1, <1>3 DEF SavesOK
<1>9. \A t \in Saves : ~Dispatching(t, d)
  BY <1>3, WidthAssumption DEF SavesOK
<1>10. \A t \in Saves :
          /\ SaveOf(t, d)' <=> SaveOf(t, d)
          /\ Writing(t, d)' <=> Writing(t, d)
          /\ Deleting(t, d)' <=> Deleting(t, d)
          /\ ~Dispatching(t, d)'
          /\ Written(t)' = Written(t)
  BY <1>1, <1>9 DEF SaveOf, Writing, Deleting, Dispatching, Written, Captured
<1>11. SavesOK(d)'
  BY <1>1, <1>3, <1>4, <1>10 DEF SavesOK
<1>12. d \notin strayed' => d \notin strayed /\ d \notin foreign[p]
  BY <1>1
<1>13. d \notin strayed' => TrackOK(d)'
  <2> SUFFICES ASSUME d \notin strayed'
               PROVE  TrackOK(d)'
    OBVIOUS
  <2>1. TrackOK(d) /\ ~Saving(d)
    BY <1>1, <1>3, <1>12 DEF DocOK, TrackOK
  <2>2. \A t \in Saves : ~SaveOf(t, d)
    BY <2>1 DEF Saving, SaveOf
  <2>3. \A q \in Replicas : Fresh(q, d) => memory[q][d] = table'[d]
    BY <1>4, <1>8 DEF Fresh
  <2>4. ~Saving(d)'
    BY <1>1, <2>1 DEF Saving
  <2> QED
    BY <1>1, <1>10, <2>2, <2>3, <2>4 DEF TrackOK, Fresh, Writing, Keeping, Deleting, SaveOf
<1>14. d \notin strayed' /\ d \notin deleted' => KeptOK(d)'
  <2> SUFFICES ASSUME d \notin strayed', d \notin deleted
               PROVE  KeptOK(d)'
    BY <1>1
  <2>1. KeptOK(d) /\ KeptIn(d, {})
    BY <1>1, <1>3, <1>12 DEF DocOK, KeptOK
  <2>2. \A x : KeptIn(d, x)'
    BY <1>1, <2>1 DEF KeptIn
  <2> QED
    BY <2>2 DEF KeptOK
<1> QED
  BY <1>2, <1>5, <1>6, <1>7, <1>11, <1>13, <1>14, StepOfDocument DEF DocOK

LEMMA FailSeedKeeps ==
  ASSUME WidthInv, NEW p \in Replicas, FailSeed(p)
  PROVE  WidthInv'
<1>1. /\ ahead' = [ahead EXCEPT ![p] = ahead[p] \cup seeding[p]]
      /\ seeding' = [seeding EXCEPT ![p] = {}]
      /\ UNCHANGED <<table, memory, saves, edits, answered, deleted, foreign, blind, strayed>>
  BY DEF FailSeed
<1>2. WidthTypeOK /\ seeding[p] \subseteq WidthDocs
  BY WidthAssumption DEF WidthInv, WidthTypeOK
<1>3. /\ ahead' \in [Replicas -> SUBSET WidthDocs] /\ seeding' \in [Replicas -> SUBSET Seeds]
      /\ \A q \in Replicas : seeding'[q] \subseteq seeding[q]
      /\ \A q \in Replicas, d \in WidthDocs :
            d \notin ahead'[q] /\ d \notin seeding'[q] => d \notin ahead[q] /\ d \notin seeding[q]
  BY <1>1, <1>2 DEF WidthTypeOK
<1>4. WidthTypeOK'
  BY <1>1, <1>2, <1>3 DEF WidthTypeOK
<1>5. \A q \in Replicas : StartsAlone(q)'
  BY <1>1, <1>3 DEF WidthInv, StartsAlone
<1>6. ASSUME NEW d \in WidthDocs
      PROVE  DocOK(d)'
  <2>1. DocOK(d)
    BY DEF WidthInv
  <2>2. SavesOK(d)'
    BY <1>1, <1>3, <2>1
       DEF DocOK, SavesOK, SaveOf, Writing, Deleting, Dispatching, Written, Captured
  <2>3. TrackOK(d) => TrackOK(d)'
    BY <1>1, <1>3 DEF TrackOK, SaveOf, Writing, Keeping, Written, Captured, Deleting, Saving, Fresh
  <2>4. KeptOK(d) => KeptOK(d)'
    BY <1>1, <1>3 DEF KeptOK, KeptIn, SaveOf, Writing, Written, Captured, Fresh, Knows
  <2> QED
    BY <1>1, <2>1, <2>2, <2>3, <2>4 DEF DocOK
<1> QED
  BY <1>4, <1>5, <1>6 DEF WidthInv

LEMMA BootKeeps ==
  ASSUME WidthInv, NEW p \in Replicas, NEW failed \in SUBSET Services, Boot(p, failed)
  PROVE  WidthInv'
<1> DEFINE lost == UNION failed
           rest == [s \in Saves |-> IF saves[s] # NoSave /\ saves[s].replica = p THEN NoSave
                                    ELSE saves[s]]
           missing == {d \in Seeds \ lost : table[d] = NoDocument}
           known == {rest[s].doc : s \in {t \in Saves : rest[t] # NoSave}}
                       \cup UNION {seeding[r] : r \in Replicas \ {p}}
<1>1. /\ memory' = [memory EXCEPT ![p] =
            [d \in WidthDocs |-> IF d \in lost \/ table[d] = NoDocument THEN Inherent(d)
                                 ELSE table[d]]]
      /\ saves' = rest
      /\ seeding' = [seeding EXCEPT ![p] = missing]
      /\ foreign' = [q \in Replicas |-> IF q = p THEN known ELSE foreign[q] \cup missing]
      /\ blind' = [blind EXCEPT ![p] = lost]
      /\ ahead' = [ahead EXCEPT ![p] = {}]
      /\ UNCHANGED <<table, edits, answered, deleted, strayed>>
  BY DEF Boot
<1>2. WidthTypeOK /\ (\A d \in WidthDocs : DocOK(d) /\ SavesOK(d))
  BY DEF WidthInv, DocOK
<1>3. lost \subseteq WidthDocs /\ missing \subseteq Seeds /\ Seeds \subseteq WidthDocs
  BY WidthAssumption DEF Services
<1>4. /\ \A d \in WidthDocs : table[d] \in Documents /\ Inherent(d) \in Documents
      /\ \A d \in WidthDocs : memory'[p][d] = IF d \in lost \/ table[d] = NoDocument
                                              THEN Inherent(d) ELSE table[d]
      /\ \A q \in Replicas \ {p} : memory'[q] = memory[q]
      /\ memory' \in [Replicas -> [WidthDocs -> Documents]]
  <2>1. \A d \in WidthDocs : table[d] \in Documents /\ Inherent(d) \in Documents
    BY <1>2, DocumentsHold DEF Inherent
  <2> QED
    BY <1>1, <1>2, <2>1 DEF WidthTypeOK
<1>5. /\ \A s \in Saves : saves'[s] = IF saves[s] # NoSave /\ saves[s].replica = p THEN NoSave
                                      ELSE saves[s]
      /\ saves' \in [Saves -> {NoSave} \cup SaveRecords]
  BY <1>1, <1>2 DEF WidthTypeOK
<1>6. \A s \in Saves : saves'[s] # NoSave =>
         saves[s] # NoSave /\ saves'[s] = saves[s] /\ saves[s].doc \in WidthDocs
  BY <1>2, <1>5, SaveFields
<1>7. known \subseteq WidthDocs
  <2>1. \A s \in Saves : rest[s] # NoSave => rest[s].doc \in WidthDocs
    BY <1>1, <1>6
  <2>2. \A r \in Replicas : seeding[r] \subseteq WidthDocs
    BY <1>2, <1>3 DEF WidthTypeOK
  <2> QED
    BY <2>1, <2>2
<1>8. \A d \in WidthDocs :
         /\ \A s \in Saves : saves'[s] # NoSave /\ saves'[s].doc = d => d \in known
         /\ \A r \in Replicas \ {p} : d \in seeding[r] => d \in known
  BY <1>1
<1> HIDE DEF rest, known
<1>9. /\ \A q \in Replicas : seeding'[q] = IF q = p THEN missing ELSE seeding[q]
      /\ \A q \in Replicas : blind'[q] = IF q = p THEN lost ELSE blind[q]
      /\ \A q \in Replicas : ahead'[q] = IF q = p THEN {} ELSE ahead[q]
      /\ \A q \in Replicas : foreign'[q] = IF q = p THEN known ELSE foreign[q] \cup missing
  BY <1>1, <1>2 DEF WidthTypeOK
<1>10. WidthTypeOK'
  <2>1. /\ seeding' \in [Replicas -> SUBSET Seeds]
        /\ {foreign', blind', ahead'} \subseteq [Replicas -> SUBSET WidthDocs]
    BY <1>1, <1>2, <1>3, <1>7 DEF WidthTypeOK
  <2> QED
    BY <1>1, <1>2, <1>4, <1>5, <2>1 DEF WidthTypeOK
<1> HIDE DEF lost
<1>11. \A q \in Replicas : StartsAlone(q)'
  <2>1. \A q \in Replicas : StartsAlone(q)
    BY DEF WidthInv
  <2> QED
    BY <1>5, <1>9, <2>1 DEF StartsAlone
<1>12. ASSUME NEW d \in WidthDocs
       PROVE  DocOK(d)'
  <2>1. \A t \in Saves :
           /\ SaveOf(t, d)' <=> SaveOf(t, d) /\ saves[t].replica # p
           /\ Writing(t, d)' <=> Writing(t, d) /\ saves[t].replica # p
           /\ Keeping(t, d)' <=> Keeping(t, d) /\ saves[t].replica # p
           /\ Deleting(t, d)' <=> Deleting(t, d) /\ saves[t].replica # p
           /\ Dispatching(t, d)' <=> Dispatching(t, d) /\ saves[t].replica # p
           /\ SaveOf(t, d)' => saves'[t] = saves[t] /\ saves[t].replica \in Replicas \ {p}
                               /\ Written(t)' = Written(t) /\ d \in foreign'[p]
    <3>1. \A t \in Saves : saves[t] # NoSave => saves[t].replica \in Replicas
      BY <1>2, SaveFields
    <3>2. \A t \in Saves : saves'[t] # NoSave =>
             saves'[t] = saves[t] /\ saves[t] # NoSave /\ saves[t].replica # p
      BY <1>5
    <3>3. \A t \in Saves : saves[t] # NoSave /\ saves[t].replica # p => saves'[t] = saves[t]
      BY <1>5
    <3>4. \A t \in Saves : SaveOf(t, d)' <=> SaveOf(t, d) /\ saves[t].replica # p
      BY <3>2, <3>3 DEF SaveOf
    <3>5. \A t \in Saves : SaveOf(t, d)' =>
             /\ saves'[t] = saves[t] /\ saves[t].replica \in Replicas \ {p}
             /\ Written(t)' = Written(t) /\ d \in foreign'[p]
      <4> SUFFICES ASSUME NEW t \in Saves, SaveOf(t, d)'
                   PROVE  /\ saves'[t] = saves[t] /\ saves[t].replica \in Replicas \ {p}
                          /\ Written(t)' = Written(t) /\ d \in foreign'[p]
        OBVIOUS
      <4>1. saves'[t] # NoSave /\ saves'[t].doc = d
        BY DEF SaveOf
      <4>2. saves'[t] = saves[t] /\ saves[t].replica \in Replicas \ {p}
        BY <3>1, <3>2, <4>1
      <4>3. d \in foreign'[p]
        BY <1>8, <1>9, <4>1
      <4>4. Written(t)' = Written(t)
        BY <1>4, <4>2 DEF Written, Captured
      <4> QED
        BY <4>2, <4>3, <4>4
    <3>6. \A t \in Saves :
             /\ Writing(t, d)' <=> Writing(t, d) /\ saves[t].replica # p
             /\ Keeping(t, d)' <=> Keeping(t, d) /\ saves[t].replica # p
             /\ Deleting(t, d)' <=> Deleting(t, d) /\ saves[t].replica # p
             /\ Dispatching(t, d)' <=> Dispatching(t, d) /\ saves[t].replica # p
      BY <3>4, <3>5, <3>3 DEF Writing, Keeping, Deleting, Dispatching, SaveOf
    <3> QED
      BY <3>4, <3>5, <3>6
  <2>2. /\ DocOK(d) /\ SavesOK(d)
        /\ \A q \in Replicas : d \in foreign[q] /\ q # p => d \in foreign'[q]
        /\ d \in missing <=> d \in Seeds /\ d \notin lost /\ table[d] = NoDocument
        /\ d \in missing => \A q \in Replicas \ {p} : d \in foreign'[q]
        /\ d \in missing => memory'[p][d] = {}
        /\ d \in Executions => d \notin Seeds
    BY <1>2, <1>4, <1>9, WidthAssumption DEF Inherent
  <2>3. SavesOK(d)'
    <3>1. ASSUME NEW s \in Saves, Dispatching(s, d)'
          PROVE  /\ d \in Executions /\ table'[d] = NoDocument
                 /\ \A q \in Replicas : memory'[q][d] = NoDocument
                 /\ \A t \in Saves : SaveOf(t, d)' => t = s
      <4>1. Dispatching(s, d)
        BY <2>1, <3>1
      <4>2. /\ d \in Executions /\ table[d] = NoDocument
            /\ \A q \in Replicas : memory[q][d] = NoDocument
            /\ \A t \in Saves : SaveOf(t, d) => t = s
        BY <2>2, <4>1 DEF SavesOK
      <4> QED
        BY <1>1, <1>4, <2>1, <2>2, <4>2 DEF Inherent
    <3>2. \A s \in Saves : Deleting(s, d)' => d \in Runbooks
      BY <2>1, <2>2 DEF SavesOK
    <3>3. ASSUME NEW s \in Saves, Writing(s, d)' \/ Deleting(s, d)'
          PROVE  \A q \in Replicas \ {saves'[s].replica} : d \in foreign'[q]
      <4>1. (Writing(s, d) \/ Deleting(s, d)) /\ SaveOf(s, d)'
        BY <2>1, <3>3 DEF Writing, Deleting
      <4> QED
        BY <2>1, <2>2, <4>1 DEF SavesOK
    <3>4. \A s \in Saves : Writing(s, d)' =>
             saves'[s].edit \in Edits /\ saves'[s].edit \in Written(s)'
      BY <2>1, <2>2 DEF SavesOK, Writing
    <3>5. ASSUME NEW q \in Replicas, d \in seeding'[q]
          PROVE  memory'[q][d] = {} /\ \A r \in Replicas \ {q} : d \in foreign'[r]
      <4>1. CASE q = p
        BY <1>9, <2>2, <3>5, <4>1
      <4>2. CASE q # p
        <5>1. d \in seeding[q]
          BY <1>9, <3>5, <4>2
        <5>2. memory[q][d] = {} /\ \A r \in Replicas \ {q} : d \in foreign[r]
          BY <2>2, <5>1 DEF SavesOK
        <5>3. d \in foreign'[p]
          BY <1>8, <1>9, <4>2, <5>1
        <5> QED
          BY <1>4, <2>2, <4>2, <5>2, <5>3
      <4> QED
        BY <4>1, <4>2
    <3> QED
      BY <3>1, <3>2, <3>3, <3>4, <3>5 DEF SavesOK
  <2>4. ASSUME TrackOK(d)
        PROVE  TrackOK(d)'
    <3>1. \A s, t \in Saves : SaveOf(s, d)' /\ SaveOf(t, d)' =>
             saves'[s].replica = saves'[t].replica /\ (d \notin Live => s = t)
      BY <2>1, <2>4 DEF TrackOK
    <3>2. \A s \in Saves :
             /\ Writing(s, d)' => Written(s)' = memory'[saves'[s].replica][d]
             /\ Keeping(s, d)' => table'[d] = memory'[saves'[s].replica][d]
             /\ Deleting(s, d)' => memory'[saves'[s].replica][d] = NoDocument
      BY <1>1, <1>4, <2>1, <2>4 DEF TrackOK, Writing, Keeping, Deleting
    <3>3. Saving(d)' <=> \E t \in Saves : SaveOf(t, d)'
      BY DEF Saving, SaveOf
    <3>4. Saving(d) <=> \E t \in Saves : SaveOf(t, d)
      BY DEF Saving, SaveOf
    <3>5. ASSUME NEW q \in Replicas, Fresh(q, d)', d \notin ahead'[q], d \notin seeding'[q],
                 ~Saving(d)'
          PROVE  memory'[q][d] = table'[d]
      <4>1. CASE q = p
        <5>1. d \notin lost /\ d \notin missing
          BY <1>9, <3>5, <4>1 DEF Fresh
        <5>2. table[d] = NoDocument => memory'[p][d] = NoDocument
          BY <1>4, <2>2, <5>1 DEF Inherent
        <5>3. table[d] # NoDocument => memory'[p][d] = table[d]
          BY <1>4, <5>1
        <5> QED
          BY <1>1, <4>1, <5>2, <5>3
      <4>2. CASE q # p
        <5>1. Fresh(q, d) /\ d \notin ahead[q] /\ d \notin seeding[q]
          BY <1>9, <2>2, <3>5, <4>2 DEF Fresh
        <5>2. CASE ~Saving(d)
          BY <1>1, <1>4, <2>4, <4>2, <5>1, <5>2 DEF TrackOK
        <5>3. CASE Saving(d)
          <6> PICK t \in Saves : SaveOf(t, d)
            BY <3>4, <5>3
          <6>1. Writing(t, d) \/ Deleting(t, d) \/ Dispatching(t, d)
            BY <1>2, SaveFields DEF Writing, Deleting, Dispatching, SaveOf
          <6>2. saves[t].replica = p
            BY <2>1, <3>3, <3>5
          <6>3. ~Writing(t, d) /\ ~Deleting(t, d)
            BY <2>2, <4>2, <5>1, <6>2 DEF SavesOK, Fresh
          <6> QED
            BY <1>1, <1>4, <2>2, <4>2, <6>1, <6>3 DEF SavesOK
        <5> QED
          BY <5>2, <5>3
      <4> QED
        BY <4>1, <4>2
    <3>6. ASSUME NEW q \in Replicas, d \in seeding'[q], d \notin foreign'[q]
          PROVE  ~Saving(d)'
      <4>1. CASE q = p
        BY <2>1, <3>3, <3>6, <4>1
      <4>2. CASE q # p
        BY <1>9, <2>1, <2>2, <2>4, <3>3, <3>4, <3>6, <4>2 DEF TrackOK
      <4> QED
        BY <4>1, <4>2
    <3> QED
      BY <3>1, <3>2, <3>5, <3>6 DEF TrackOK
  <2>5. ASSUME KeptOK(d)
        PROVE  KeptOK(d)'
    <3>1. KeptIn(d, table[d])' /\ \A s \in Saves : Writing(s, d)' => KeptIn(d, Written(s))'
      BY <1>1, <2>1, <2>5 DEF KeptOK, KeptIn, Writing
    <3>2. table[d] = NoDocument => \A e \in Edits : <<d, e>> \notin answered
      BY <1>2, <2>5, DocumentsHold DEF KeptOK, KeptIn
    <3>3. ASSUME NEW q \in Replicas, Fresh(q, d)', Knows(q, d)' \/ d \in Live
          PROVE  KeptIn(d, memory[q][d])'
      <4>1. CASE q = p
        <5>1. d \notin lost
          BY <1>9, <3>3, <4>1 DEF Fresh
        <5>2. table[d] # NoDocument => memory'[p][d] = table[d]
          BY <1>4, <5>1
        <5> QED
          BY <1>1, <3>2, <4>1, <5>2, <2>5 DEF KeptOK, KeptIn
      <4>2. CASE q # p
        <5>1. Fresh(q, d) /\ (Knows(q, d) \/ d \in Live)
          BY <1>4, <1>9, <2>2, <3>3, <4>2 DEF Fresh, Knows
        <5> QED
          BY <1>1, <1>4, <2>5, <4>2, <5>1 DEF KeptOK, KeptIn
      <4> QED
        BY <4>1, <4>2
    <3>4. ASSUME NEW q \in Replicas, d \in seeding'[q], d \notin foreign'[q]
          PROVE  KeptIn(d, {})'
      <4>1. CASE q = p
        BY <1>1, <1>9, <2>2, <3>2, <3>4, <4>1 DEF KeptIn
      <4>2. CASE q # p
        BY <1>1, <1>9, <2>2, <2>5, <3>4, <4>2 DEF KeptOK, KeptIn
      <4> QED
        BY <4>1, <4>2
    <3> QED
      BY <3>1, <3>3, <3>4 DEF KeptOK
  <2> QED
    BY <1>1, <2>2, <2>3, <2>4, <2>5 DEF DocOK
<1> QED
  BY <1>10, <1>11, <1>12 DEF WidthInv

LEMMA WidthStutterKeeps == ASSUME WidthInv, UNCHANGED widthVars PROVE WidthInv'
<1>1. UNCHANGED <<table, memory, saves, seeding, edits, answered, deleted, foreign, blind,
                  ahead, strayed>>
  BY DEF widthVars, widthHistory
<1>2. WidthTypeOK'
  BY <1>1 DEF WidthInv, WidthTypeOK
<1>3. \A d \in WidthDocs : Untouched(d)
  BY <1>1 DEF Untouched
<1>4. \A d \in WidthDocs : DocOK(d)'
  BY <1>3, UntouchedIsOK DEF WidthInv
<1>5. \A p \in Replicas : StartsAlone(p)'
  BY <1>1 DEF WidthInv, StartsAlone
<1> QED
  BY <1>2, <1>4, <1>5 DEF WidthInv

LEMMA WidthStepKeeps == ASSUME WidthInv, [WidthNext]_widthVars PROVE WidthInv'
<1>1. ASSUME NEW d \in WidthDocs, Request(d) PROVE WidthInv'
  <2> PICK s \in Saves, p \in Replicas :
         \/ Make(s, p, d) \/ UpdateDoc(s, p, d) \/ Delete(s, p, d)
         \/ \E r \in Runbooks : Execute(s, p, r, d)
    BY <1>1 DEF Request
  <2> QED
    BY MakeKeeps, UpdateDocKeeps, DeleteKeeps, ExecuteKeeps
<1>2. ASSUME GoOn PROVE WidthInv'
  BY <1>2, DispatchedKeeps, SelectRowKeeps, CommitKeeps, DeleteRowKeeps, FailSaveKeeps DEF GoOn
<1>3. ASSUME NEW p \in Replicas, NEW failed \in SUBSET Services, Boot(p, failed)
      PROVE  WidthInv'
  BY <1>3, BootKeeps
<1>4. ASSUME SeedStep PROVE WidthInv'
  BY <1>4, StoreSeedKeeps, FailSeedKeeps DEF SeedStep
<1> QED
  BY <1>1, <1>2, <1>3, <1>4, WidthStutterKeeps DEF WidthNext

LEMMA WidthInitHolds == ASSUME WidthInit PROVE WidthInv
<1>1. /\ \A s \in Saves : saves[s] = NoSave
      /\ \A p \in Replicas : seeding[p] = {} /\ memory[p] = table
      /\ answered = {} /\ table = [d \in WidthDocs |-> IF d \in Seeds THEN {} ELSE NoDocument]
  BY DEF WidthInit
<1>2. {} \in Documents /\ NoDocument \in Documents
  BY DEF Documents
<1>3. table \in [WidthDocs -> Documents] /\ edits \in 0 .. MaxEdits
  BY <1>1, <1>2, WidthAssumption DEF WidthInit
<1>4. WidthTypeOK
  BY <1>3 DEF WidthInit, WidthTypeOK
<1>5. ASSUME NEW d \in WidthDocs PROVE DocOK(d)
  <2>1. \A s \in Saves : ~SaveOf(s, d)
    BY <1>1 DEF SaveOf
  <2>2. \A s \in Saves : ~Writing(s, d) /\ ~Deleting(s, d) /\ ~Dispatching(s, d)
    BY <2>1 DEF Writing, Deleting, Dispatching
  <2>3. SavesOK(d)
    BY <1>1, <2>2 DEF SavesOK
  <2>4. TrackOK(d)
    BY <1>1, <2>1, <2>2 DEF TrackOK, Keeping, Writing, Deleting
  <2>5. KeptOK(d)
    BY <1>1, <2>2 DEF KeptOK, KeptIn
  <2> QED
    BY <2>3, <2>4, <2>5 DEF DocOK
<1>6. \A p \in Replicas : StartsAlone(p)
  BY <1>1 DEF StartsAlone
<1> QED
  BY <1>4, <1>5, <1>6 DEF WidthInv

LEMMA WidthInductive == WidthSpec => []WidthInv
<1> QED
  BY WidthInitHolds, WidthStepKeeps, PTL DEF WidthSpec

\* What a process shows of a document is what is stored, wherever it was
\* changed by one process, loaded and saved, whatever other saves fail and
\* whoever restarts (update, _persist, delete_runbook, load).
THEOREM ShownStored == WidthSpec => []ShownIsStored
<1>1. WidthInv => ShownIsStored
  BY DEF WidthInv, DocOK, TrackOK, Fresh, ShownIsStored
<1> QED
  BY <1>1, WidthInductive, PTL

\* An edit that was answered stays in the table, for any processes and
\* requests, until its runbook is deleted or its document strayed (save).
THEOREM AnsweredKept == WidthSpec => []AnsweredIsKept
<1>1. WidthInv => AnsweredIsKept
  BY DEF WidthInv, DocOK, KeptOK, KeptIn, AnsweredIsKept
<1> QED
  BY <1>1, WidthInductive, PTL
=============================================================================
