----------------------------- MODULE DailyDigest -----------------------------
(***************************************************************************)
(* The digests of one process that go out by the clock: a task sleeps,     *)
(* composes, dispatches, and sleeps again. The daily one sleeps until a    *)
(* time of day on the wall clock of a time zone, the other for an interval *)
(* (DailyAtScheduler, next_run_delay and DigestScheduler of                *)
(* services/digest_service.py). A sleep runs on a clock of its own, so the *)
(* wall clock may be set, or change for summer, while the task is asleep.  *)
(***************************************************************************)
EXTENDS Integers

CONSTANTS Day,              \* ticks in a day
          DigestAt,         \* the time of day of the daily digest
          Interval          \* the sleep of the other

ASSUME DayAssumption ==
    Day \in Nat \ {0} /\ DigestAt \in 0 .. Day - 1 /\ Interval \in Nat \ {0}

Longest == IF Day < Interval THEN Interval ELSE Day

VARIABLES wall,             \* time of day in the zone
          loop,             \* which of the two the task is
          task,             \* what the task does
          wait,             \* ticks left to sleep
          since,            \* history: ticks since the last cycle began, up to Longest
          changed           \* history: the wall clock was changed since the last
                            \* cycle that began at its time

dailyVars == <<wall, loop, task, wait, since, changed>>

DailyTypeOK ==
    /\ wall \in 0 .. Day - 1
    /\ loop \in {"daily", "interval"}
    /\ task \in {"off", "asleep", "composing", "dispatching"}
    /\ wait \in 0 .. Longest
    /\ since \in 0 .. Longest
    /\ changed \in BOOLEAN

DailyInit ==
    /\ wall \in 0 .. Day - 1
    /\ loop \in {"daily", "interval"}
    /\ task = "off" /\ wait = 0
    /\ since = Longest /\ changed = FALSE

\* Mutant: at the time itself, it is time.
NextRunDelayNow(time) == IF DigestAt - time < 0 THEN DigestAt - time + Day ELSE DigestAt - time

\* At the time itself the next run is tomorrow's.
NextRunDelay(time) == IF DigestAt - time <= 0 THEN DigestAt - time + Day ELSE DigestAt - time

Delay == IF loop = "daily" THEN NextRunDelay(wall) ELSE Interval

Sleep == task' = "asleep" /\ wait' = Delay

StartDaily ==
    /\ task = "off"
    /\ Sleep
    /\ UNCHANGED <<wall, loop, since, changed>>

\* stop cancels the task, asleep or not.
StopDaily ==
    /\ task # "off"
    /\ task' = "off" /\ wait' = 0
    /\ UNCHANGED <<wall, loop, since, changed>>

Wake ==
    /\ task = "asleep" /\ wait = 0
    /\ task' = "composing"
    /\ since' = 0 /\ changed' = (changed /\ wall # DigestAt)
    /\ UNCHANGED <<wall, loop, wait>>

Composed ==
    /\ task = "composing"
    /\ task' = "dispatching"
    /\ UNCHANGED <<wall, loop, wait, since, changed>>

\* The digest is out, or something failed: either way the cycle is over.
EndCycle ==
    /\ task \in {"composing", "dispatching"}
    /\ Sleep
    /\ UNCHANGED <<wall, loop, since, changed>>

\* A sleep that is over ends before time goes on.
DailyTick ==
    /\ ~(task = "asleep" /\ wait = 0)
    /\ wall' = IF wall + 1 = Day THEN 0 ELSE wall + 1
    /\ wait' = IF task = "asleep" THEN wait - 1 ELSE wait
    /\ since' = IF since < Longest THEN since + 1 ELSE since
    /\ UNCHANGED <<loop, task, changed>>

\* The wall clock is put forward or back.
ChangeClock ==
    /\ wall' \in (0 .. Day - 1) \ {wall}
    /\ changed' = TRUE
    /\ UNCHANGED <<loop, task, wait, since>>

DailyNext ==
    \/ StartDaily \/ StopDaily \/ Wake \/ Composed \/ EndCycle
    \/ DailyTick \/ ChangeClock

DailySpec == DailyInit /\ [][DailyNext]_dailyVars

-----------------------------------------------------------------------------
(***************************************************************************)
(* Properties.                                                             *)
(***************************************************************************)
\* A daily cycle begins at its time of day, and a day or more after the one
\* before, however long that took, whether it failed, and whenever the task
\* was stopped and started, unless the wall clock was changed since: put back,
\* it begins early and once more in time. Another begins an interval or more
\* after the one before, whatever the wall clock says (_run, next_run_delay).
DigestsOnTime ==
    [][Wake => IF loop = "daily" THEN changed \/ (wall = DigestAt /\ since >= Day)
               ELSE since >= Interval]_dailyVars
=============================================================================
