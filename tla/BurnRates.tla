----------------------------- MODULE BurnRates -----------------------------
(***************************************************************************)
(* The arithmetic of burn-rate alerts, for one objective: its budget, the  *)
(* ring of error-rate samples of a process, and the tier that fires over   *)
(* the two windows of each (services/burn_alerts.py, metrics_history.py,   *)
(* metrics_source.py, slo_engine.py, ops_defaults.py). The objectives of a *)
(* process share nothing here but the flag of the back-fill.               *)
(*                                                                         *)
(* Time is in ticks of two and a half minutes. Error rates are in tenths   *)
(* of an event of 10 000, factors in tenths, and exact: the code computes  *)
(* with floats.                                                            *)
(***************************************************************************)
EXTENDS Integers, Sequences

CONSTANTS Shapes,       \* objectives by what their measurements are made of
          Shape,        \* [Shapes -> 0 .. 3]: the id's bucket
          Budgeted,     \* [Shapes -> events of 10 000 that may fail]
          MaxPerSlo,    \* the length of the ring
          HotSpells,    \* points of a tenant's series that are hot
          Waits,        \* how many ticks may pass at a time
          MaxSteps      \* bound: steps of a behaviour

ASSUME BurnRatesAssumption ==
    /\ Shape \in [Shapes -> 0 .. 3]
    /\ Budgeted \in [Shapes -> 1 .. 10000]
    /\ \A hot \in HotSpells : hot \subseteq 1 .. 72
    /\ MaxPerSlo \in Nat \ {0} /\ Waits \subseteq Nat /\ MaxSteps \in Nat

VARIABLES slo,      \* the objective
          clock,
          ring,     \* its samples, as they were recorded
          primed,   \* _metrics_backfilled
          budget,   \* its stored budget: at most one
          verdict,  \* what the last step answered
          steps

burnRateVars == <<slo, clock, ring, primed, budget, verdict, steps>>

Hour == 24
\* Most urgent first.
BurnTiers ==
    << [name |-> "fast",    long |-> 1 * Hour,  short |-> 2,         factor |-> 144],
       [name |-> "medium",  long |-> 6 * Hour,  short |-> Hour \div 2, factor |-> 60],
       [name |-> "slow",    long |-> 24 * Hour, short |-> 2 * Hour,  factor |-> 30],
       [name |-> "trickle", long |-> 72 * Hour, short |-> 6 * Hour,  factor |-> 10] >>

Samples == [at : Int, rate : Nat]
BurnStates == {"HEALTHY", "SLOW_BURN", "EXHAUSTED", "FAST_BURN"}
Silent == 0
Unasked == -1

BurnRateTypeOK ==
    /\ slo \in Shapes /\ clock \in Nat /\ steps \in 0 .. MaxSteps
    /\ ring \in Seq(Samples) /\ Len(ring) <= MaxPerSlo
    /\ primed \in BOOLEAN
    /\ budget \subseteq [rate : Nat, state : BurnStates]
    /\ \A b, c \in budget : b = c
    /\ verdict \in DOMAIN BurnTiers \cup {Silent, Unasked}

BurnRateInit ==
    /\ slo \in Shapes /\ clock = 0 /\ steps = 0
    /\ ring = << >> /\ primed = FALSE /\ budget = {} /\ verdict = Unasked

(***************************************************************************)
(* The measurement and its budget.                                         *)
(***************************************************************************)
\* synthetic_measurement: of 10 000 events, in an hour or the whole window.
BadEvents ==
    LET b == Budgeted[slo]
    IN  CASE Shape[slo] = 0 -> (30 * b) \div 10 + 1
          [] Shape[slo] = 1 -> (14 * b) \div 10 + 1
          [] Shape[slo] = 2 -> (3 * b) \div 10
          [] Shape[slo] = 3 -> (12 * b) \div 10 + 1
SLOHours == 24
ObservedHours == IF Shape[slo] = 3 THEN SLOHours ELSE 1

\* compute_error_budget: how fast the budget burns, and how much of it is
\* consumed, both in parts of the budget.
Classified(bad) ==
    LET b == Budgeted[slo]
    IN  IF bad >= 2 * b THEN "FAST_BURN"
        ELSE IF bad * ObservedHours >= b * SLOHours THEN "EXHAUSTED"
        ELSE IF bad >= b THEN "SLOW_BURN" ELSE "HEALTHY"

Measured == [rate |-> 10 * BadEvents, state |-> Classified(BadEvents)]

(***************************************************************************)
(* The ring.                                                               *)
(***************************************************************************)
\* A deque of maxlen: what is recorded pushes the oldest record out.
Recorded(r, new) ==
    LET all == r \o new
        over == Len(all) - MaxPerSlo
    IN  IF over > 0 THEN SubSeq(all, over + 1, Len(all)) ELSE all

\* error_series of the synthetic source: six hours in steps of five minutes.
SeriesLength == 72
WholeRate == 100000
SeriesRate(i) ==
    LET b == Budgeted[slo]
    IN  CASE Shape[slo] = 0 -> IF i > SeriesLength - 2 THEN 150 * b ELSE 3 * b
          [] Shape[slo] = 1 -> 35 * b
          [] Shape[slo] = 2 -> 3 * b
          [] Shape[slo] = 3 -> IF 2 * i <= SeriesLength THEN 80 * b ELSE 0

\* That of a tenant measures anything; on an error, or with no points, it is
\* the synthetic one.
TenantRate(i, hot) == IF i \in hot THEN 150 * Budgeted[slo] ELSE 3 * Budgeted[slo]

Capped(rate) == IF rate > WholeRate THEN WholeRate ELSE rate
SampledAt(rates) ==
    [i \in 1 .. SeriesLength |->
        [at |-> clock - 2 * (SeriesLength - i), rate |-> Capped(rates[i])]]
ErrorSeries ==
    {SampledAt([i \in 1 .. SeriesLength |-> SeriesRate(i)])}
        \cup {SampledAt([i \in 1 .. SeriesLength |-> TenantRate(i, hot)]) : hot \in HotSpells}

WithinOf(r, hours) == SelectSeq(r, LAMBDA s : s.at >= clock - hours)


\* error_rate_over, or the rate of the stored budget where the window is
\* empty, divided by what the budget allows.
Reaches(r, stored, hours, factor) ==
    LET W == WithinOf(r, hours)
        total[i \in 0 .. Len(W)] == IF i = 0 THEN 0 ELSE total[i - 1] + W[i].rate
    IN  IF W = << >> THEN stored.rate >= factor * Budgeted[slo]
        ELSE total[Len(W)] >= factor * Budgeted[slo] * Len(W)

\* evaluate_burn_alerts: the most urgent tier that both its windows reach;
\* classify_burn takes the stored rate for both, which is the same where the
\* ring is empty.
Firing(r, stored) ==
    {t \in DOMAIN BurnTiers :
        /\ Reaches(r, stored, BurnTiers[t].long, BurnTiers[t].factor)
        /\ Reaches(r, stored, BurnTiers[t].short, BurnTiers[t].factor)}
Alert(r, stored) ==
    LET firing == Firing(r, stored)
    IN  IF firing = {} THEN Silent ELSE CHOOSE t \in firing : \A u \in firing : t <= u

(***************************************************************************)
(* Steps.                                                                  *)
(***************************************************************************)
StepOn == steps < MaxSteps /\ steps' = steps + 1 /\ UNCHANGED slo

Wait(d) ==
    /\ StepOn /\ clock' = clock + d /\ verdict' = Unasked
    /\ UNCHANGED <<ring, primed, budget>>

\* evaluate_slos: each evaluation, whoever asks for it, records one sample.
Evaluate ==
    /\ StepOn /\ budget' = {Measured} /\ verdict' = Unasked
    /\ ring' = Recorded(ring, <<[at |-> clock, rate |-> Measured.rate]>>)
    /\ UNCHANGED <<clock, primed>>

\* The alerts over a ring r, after an evaluation if no budget is stored.
Answer(r) ==
    /\ budget' = IF budget = {} THEN {Measured} ELSE budget
    /\ ring' = IF budget # {} THEN r
               ELSE Recorded(r, <<[at |-> clock, rate |-> Measured.rate]>>)
    /\ \E b \in budget' : verdict' = Alert(ring', b)

\* burn_alerts: back-fills first, unless that was done.
ReadAlerts ==
    /\ StepOn
    /\ \/ primed /\ Answer(ring)
       \/ ~ primed /\ \E fetched \in ErrorSeries : Answer(Recorded(ring, fetched))
    /\ primed' = TRUE
    /\ UNCHANGED clock

\* analytics counts the alerts over what is there.
CountAlerts == StepOn /\ Answer(ring) /\ UNCHANGED <<clock, primed>>

\* set_scenario, away and back: the ring stays, and is filled again.
ShowAgain ==
    /\ StepOn /\ primed' = FALSE /\ verdict' = Unasked
    /\ UNCHANGED <<clock, ring, budget>>

\* A new process: the budgets are in the database, or in its memory.
RestartRing ==
    /\ StepOn /\ ring' = << >> /\ primed' = FALSE /\ verdict' = Unasked
    /\ budget' \in {budget, {}}
    /\ UNCHANGED clock

BurnRateNext ==
    \/ \E d \in Waits : Wait(d)
    \/ Evaluate \/ ReadAlerts \/ CountAlerts \/ ShowAgain \/ RestartRing

BurnRateSpec == BurnRateInit /\ [][BurnRateNext]_burnRateVars

(***************************************************************************)
(* Properties.                                                             *)
(***************************************************************************)
\* The rates a window goes by: of its samples, or of the budget.
RatesOver(hours) ==
    LET W == WithinOf(ring, hours)
    IN  IF W = << >> THEN {b.rate : b \in budget} ELSE {W[i].rate : i \in DOMAIN W}
SomeReach(t, hours) == \E r \in RatesOver(hours) : r >= BurnTiers[t].factor * Budgeted[slo]
AllReach(t, hours) == \A r \in RatesOver(hours) : r >= BurnTiers[t].factor * Budgeted[slo]

=============================================================================
