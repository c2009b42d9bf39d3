--------------------------- MODULE ScenarioCaches ---------------------------
(***************************************************************************)
(* What a process keeps about the scenario it shows, and the requests that *)
(* fill it lazily: the map from entities to venues, the back-filled series *)
(* of error rates, the on-call directory, and the error budgets, which are *)
(* stored (ensure_entity_venue_map, ensure_metrics_backfill,               *)
(* refresh_oncall, evaluate_slos, set_scenario and burn_alerts of          *)
(* core/context.py).                                                       *)
(*                                                                         *)
(* A request suspends at each answer it awaits - zones, entities, a        *)
(* series, the schedule, the database - and an operator may switch the     *)
(* scenario meanwhile. With the mock client the tenant may still serve     *)
(* zones and series; with the live client there is nothing to switch.      *)
(***************************************************************************)
EXTENDS Integers, Sequences

CONSTANTS Scenarios, DefaultScenario,
          ScenarioSLOs,     \* per scenario: its objectives, in order
          Viewers,          \* requests that can be in flight
          MaxSwitches,      \* bound: switches of the scenario
          MaxShifts         \* bound: hand-overs of the on-call schedule

SLOsOf(s) == {ScenarioSLOs[s][i] : i \in DOMAIN ScenarioSLOs[s]}
AllSLOs == UNION {SLOsOf(s) : s \in Scenarios}

ASSUME ScenarioAssumption ==
    /\ DefaultScenario \in Scenarios
    /\ ScenarioSLOs \in [Scenarios -> Seq(AllSLOs) \ {<< >>}]
    /\ \A s, t \in Scenarios : s # t => SLOsOf(s) \cap SLOsOf(t) = {}
    /\ MaxSwitches \in Nat /\ MaxShifts \in Nat

VARIABLES client,           \* "mock" | "live"
          scenario,         \* client.scenario_key, slo_engine and current_scenario
          epoch,            \* how often it was switched
          backfilled,       \* _metrics_backfilled
          filledIn,         \* per objective: the epoch of its last back-fill, or Unfilled
          venueMap,         \* EntityVenueResolver._map
          shift,            \* the shift the schedule is in
          roster,           \* the shift in the directory, 0 for the default roster
          budgets,          \* the stored budgets: their objectives
          view,             \* per request: how far it has come
          outrun            \* history: the scenario changed while series were fetched

caches == <<backfilled, filledIn, venueMap, roster, budgets>>
scenarioVars == <<client, scenario, epoch, shift, caches, view, outrun>>

Unfilled == -1
\* The map before it is loaded, and after the entities could not be listed.
Unloaded == "unloaded"
NoEntities == "nothing"
\* What a live tenant has, whatever scenario the process shows.
Tenant == "tenant"

\* alerts: burn_alerts. budgets: list_slo_budgets, slo_trends. analytics:
\* analytics, analytics_by_venue. oncall: get_oncall.
ViewKinds == {"alerts", "budgets", "analytics", "oncall"}
Stages == {"idle", "zones", "entities", "series", "schedule", "stored", "saving",
           "look", "answer"}
Views == [kind : ViewKinds, at : Stages,
          of : Scenarios,           \* the scenario a loop was started for, while it runs
          left : Seq(AllSLOs),      \* what that loop still has to do
          alerts : SUBSET AllSLOs,  \* the objectives alerts are raised for
          owed : SUBSET AllSLOs,    \* those of them that have no targets yet
          shown : SUBSET Nat,       \* the rosters its answer is made from
          told : SUBSET Nat,        \* history: the roster its refresh was told, and
                                    \* those that other requests were told since
          crossed : BOOLEAN]        \* history, for alerts: the scenario changed meanwhile

NoView == [kind |-> "oncall", at |-> "idle", of |-> DefaultScenario, left |-> << >>,
           alerts |-> {}, owed |-> {}, shown |-> {}, told |-> {}, crossed |-> FALSE]

ScenarioTypeOK ==
    /\ client \in {"mock", "live"} /\ scenario \in Scenarios
    /\ epoch \in Nat /\ shift \in Nat \ {0}
    /\ backfilled \in BOOLEAN /\ outrun \in BOOLEAN
    /\ filledIn \in [AllSLOs -> Nat \cup {Unfilled}]
    /\ venueMap \in Scenarios \cup {Unloaded, NoEntities, Tenant}
    /\ roster \in Nat
    /\ budgets \subseteq AllSLOs
    /\ view \in [Viewers -> Views]

\* A process starts, over the database the processes before it left.
ScenarioInit ==
    /\ client \in {"mock", "live"}
    /\ scenario = DefaultScenario /\ epoch = 0
    /\ backfilled = FALSE /\ filledIn = [o \in AllSLOs |-> Unfilled]
    /\ venueMap = Unloaded
    /\ shift = 1 /\ roster = 0
    /\ budgets \in {{}} \cup {SLOsOf(s) : s \in Scenarios}
    /\ view = [r \in Viewers |-> NoView]
    /\ outrun = FALSE

(***************************************************************************)
(* Where a request waits next. What is loaded already is not awaited.      *)
(***************************************************************************)
\* evaluate_slos computes the budgets of the engine, then saves them in order.
Evaluating(v) == [v EXCEPT !.at = "saving", !.of = scenario, !.left = ScenarioSLOs[scenario]]

\* After ensure_metrics_backfill and the map.
AfterMap(v) ==
    CASE v.kind = "budgets"   -> Evaluating(v)
      [] v.kind = "analytics" -> [v EXCEPT !.at = "stored"]
      [] OTHER -> IF backfilled THEN [v EXCEPT !.at = "schedule"]
                  ELSE [v EXCEPT !.at = "series", !.of = scenario,
                                 !.left = ScenarioSLOs[scenario]]

\* evaluate_burn_alerts passes over the budgets the engine has no objective
\* for.
Own(rows) == rows \cap SLOsOf(scenario)

\* An alert names whom it would page: those on call when it gets its targets.
\* For each alert the answer then waits, for its acknowledgement and for its
\* silence, and other requests go on.
NextAlert(v, o) ==
    [v EXCEPT !.at = "look", !.of = DefaultScenario,
              !.owed = @ \ {o}, !.shown = @ \cup {roster}]

\* The rows are read. Any of them may be at a level that raises an alert; the
\* first alert gets its targets at once.
Answering(v, rows) ==
    {[v EXCEPT !.at = "answer", !.of = DefaultScenario]} \cup
    (IF v.kind # "alerts" THEN {}
     ELSE UNION {{NextAlert([v EXCEPT !.alerts = raised, !.owed = raised], o) : o \in raised} :
                 raised \in SUBSET Own(rows)})

View(r, kind) ==
    /\ view[r].at = "idle"
    /\ LET v == [NoView EXCEPT !.kind = kind]
       IN  view' = [view EXCEPT ![r] =
             IF kind = "oncall" THEN [v EXCEPT !.at = "schedule"]
             ELSE IF venueMap = Unloaded THEN [v EXCEPT !.at = "zones"]
             ELSE AfterMap(v)]
    /\ UNCHANGED <<client, scenario, epoch, shift, caches, outrun>>

(***************************************************************************)
(* ensure_entity_venue_map. A tenant that does not serve its zones leaves  *)
(* the configured ones. The mock client lists the entities of its scenario *)
(* without suspending.                                                     *)
(***************************************************************************)
LoadMap(r, map) ==
    /\ venueMap' = map
    /\ view' = [view EXCEPT ![r] = AfterMap(view[r])]
    /\ UNCHANGED <<client, scenario, epoch, shift, backfilled, filledIn, roster, budgets, outrun>>

ZonesOfMock(r) ==
    /\ view[r].at = "zones" /\ client = "mock"
    /\ LoadMap(r, scenario)

ZonesOfTenant(r) ==
    /\ view[r].at = "zones" /\ client = "live"
    /\ view' = [view EXCEPT ![r].at = "entities"]
    /\ UNCHANGED <<client, scenario, epoch, shift, caches, outrun>>

\* A list that fails leaves an empty map that counts as loaded.
Entities(r, map) ==
    /\ view[r].at = "entities"
    /\ map \in {Tenant, NoEntities}
    /\ LoadMap(r, map)

(***************************************************************************)
(* ensure_metrics_backfill: the series of the objectives the engine had    *)
(* when it began, one by one.                                              *)
(***************************************************************************)
\* The synthetic series takes the place of one that the tenant does not have.
WithSeries(o) == [filledIn EXCEPT ![o] = epoch]

FillSeries(r) ==
    LET v == view[r]
        done == Len(v.left) = 1
    IN  /\ v.at = "series"
        /\ filledIn' = WithSeries(Head(v.left))
        /\ backfilled' = (backfilled \/ done)
        /\ view' = [view EXCEPT ![r] =
             [v EXCEPT !.left = Tail(v.left),
                       !.of = IF done THEN DefaultScenario ELSE @,
                       !.at = IF done THEN "schedule" ELSE "series"]]
        /\ UNCHANGED <<client, scenario, epoch, shift, venueMap, roster, budgets, outrun>>

\* The schedule answers for the shift it is in, or fails and the default
\* roster takes its place.
CurrentRosters == {0, shift}

\* Mutant: a roster that is known is kept.
SetRosterOnce(told) == roster' = IF roster = 0 THEN told ELSE roster

SetRoster(told) == roster' = told

\* refresh_oncall.
HasFetched(q) == view[q].kind = "alerts" /\ view[q].at \in {"stored", "saving", "look"}

RefreshOncall(r, told) ==
    LET mine == [view[r] EXCEPT !.told = {told}]
    IN  /\ view[r].at = "schedule"
        /\ told \in CurrentRosters
        /\ SetRoster(told)
        /\ view' = [q \in Viewers |->
             IF q # r
             THEN IF HasFetched(q) THEN [view[q] EXCEPT !.told = @ \cup {told}] ELSE view[q]
             ELSE IF mine.kind = "oncall"
             THEN [mine EXCEPT !.at = "answer", !.shown = {roster'}]
             ELSE [mine EXCEPT !.at = "stored"]]
        /\ UNCHANGED <<client, scenario, epoch, shift, backfilled, filledIn, venueMap, budgets,
                       outrun>>

(***************************************************************************)
(* Budgets: those that are stored, evaluated anew only when there is none. *)
(***************************************************************************)
ListBudgets(r) ==
    /\ view[r].at = "stored"
    /\ \E v \in IF budgets = {} THEN {Evaluating(view[r])} ELSE Answering(view[r], budgets) :
          view' = [view EXCEPT ![r] = v]
    /\ UNCHANGED <<client, scenario, epoch, shift, caches, outrun>>

SaveBudget(r) ==
    LET rest == [view[r] EXCEPT !.left = Tail(@)]
    IN  /\ view[r].at = "saving"
        /\ budgets' = budgets \cup {Head(view[r].left)}
        /\ \E v \in IF Len(view[r].left) = 1 THEN Answering(rest, SLOsOf(rest.of)) ELSE {rest} :
              view' = [view EXCEPT ![r] = v]
        /\ UNCHANGED <<client, scenario, epoch, shift, backfilled, filledIn, venueMap, roster, outrun>>

\* An alert is looked up, and the next one gets its targets.
LookUp(r) ==
    /\ view[r].at = "look"
    /\ \E v \in IF view[r].owed = {} THEN {[view[r] EXCEPT !.at = "answer"]}
               ELSE {NextAlert(view[r], o) : o \in view[r].owed} :
          view' = [view EXCEPT ![r] = v]
    /\ UNCHANGED <<client, scenario, epoch, shift, caches, outrun>>

Reply(r) ==
    /\ view[r].at = "answer"
    /\ view' = [view EXCEPT ![r] = NoView]
    /\ UNCHANGED <<client, scenario, epoch, shift, caches, outrun>>

(***************************************************************************)
(* set_scenario, the schedule's hand-over, and a restart.                  *)
(***************************************************************************)
SwitchedMap == Unloaded

\* Mutant: the switch leaves the flag as it is.
SwitchedFlagKept == backfilled
SwitchedFlag == FALSE

SetScenario(s) ==
    /\ client = "mock" /\ epoch < MaxSwitches
    /\ scenario' = s
    /\ epoch' = epoch + 1
    /\ venueMap' = SwitchedMap
    /\ backfilled' = SwitchedFlag
    /\ outrun' = \E r \in Viewers : view[r].at = "series"
    /\ view' = [r \in Viewers |->
         [view[r] EXCEPT !.crossed = @ \/ view[r].kind = "alerts"]]
    /\ UNCHANGED <<client, shift, filledIn, roster, budgets>>

HandOver ==
    /\ shift <= MaxShifts
    /\ shift' = shift + 1
    /\ UNCHANGED <<client, scenario, epoch, caches, view, outrun>>

RestartProcess ==
    /\ scenario' = DefaultScenario /\ epoch' = 0
    /\ backfilled' = FALSE /\ filledIn' = [o \in AllSLOs |-> Unfilled]
    /\ venueMap' = Unloaded /\ roster' = 0
    /\ view' = [r \in Viewers |-> NoView]
    /\ outrun' = FALSE
    /\ UNCHANGED <<client, shift, budgets>>

ViewStep(r) ==
    \/ \E kind \in ViewKinds : View(r, kind)
    \/ ZonesOfMock(r) \/ ZonesOfTenant(r)
    \/ \E map \in {Tenant, NoEntities} : Entities(r, map)
    \/ FillSeries(r)
    \/ \E told \in CurrentRosters : RefreshOncall(r, told)
    \/ ListBudgets(r) \/ SaveBudget(r) \/ LookUp(r) \/ Reply(r)

ScenarioNext ==
    \/ \E r \in Viewers : ViewStep(r)
    \/ \E s \in Scenarios : SetScenario(s)
    \/ HandOver
    \/ RestartProcess

ScenarioSpec == ScenarioInit /\ [][ScenarioNext]_scenarioVars

(***************************************************************************)
(* Properties.                                                             *)
(***************************************************************************)
\* The map a process holds is that of the scenario it shows, and a process
\* that counts its series as back-filled has filled those of that scenario
\* since it was switched to - unless series were being fetched just then:
\* that fill ends after the switch and marks the wrong objectives as done.
CachesFollowTheScenario ==
    /\ client = "mock" => venueMap \in {Unloaded, scenario}
    /\ backfilled => outrun \/ \A o \in SLOsOf(scenario) : filledIn[o] = epoch

\* What an answer is made from while other requests refresh the directory, fill
\* series and switch the scenario between any two of its steps. Unless a switch
\* crossed it (or the fill), every objective it raises an alert for has the
\* series of this scenario, filled since it is shown - the budgets it started
\* from are of every scenario ever shown. And it names nobody but those its own
\* refresh told, or another's that came after it: it may mix rosters, but none
\* from before it asked. (burn_alerts and get_oncall)
AnswersAreCurrent ==
    \A r \in Viewers : view[r].at \in {"look", "answer"} =>
        /\ view[r].crossed \/ outrun \/ \A o \in view[r].alerts : filledIn[o] = epoch
        /\ view[r].shown \subseteq view[r].told
=============================================================================
