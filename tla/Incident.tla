------------------------------ MODULE Incident ------------------------------
(***************************************************************************)
(* The incident document of models/incident.py: its lifecycle graph, its   *)
(* fields, and what each service operation does to a document it has read. *)
(* The operators are pure; IncidentLifecycle applies them to the stored    *)
(* document in one step (the in-memory repositories), IncidentService to a *)
(* copy that is written back later (the SQL repositories).                 *)
(*                                                                         *)
(* The timeline is kept as three sequences, split by the type of entry:    *)
(* `changes' holds the STATE_CHANGE entries, `climbs' the ESCALATED ones,  *)
(* `log' all the others except CREATED, which every document starts with.  *)
(* A timestamp is kept as "is it set".                                     *)
(***************************************************************************)
EXTENDS Integers, Sequences

CONSTANTS Assignees,      \* operators an incident can be assigned to
          Remediations,   \* ids of remediation actions
          NoOne,          \* assignee = None
          NoDoc           \* repo.get found no row

ASSUME NoOneAssumption == NoOne \notin Assignees

(***************************************************************************)
(* The lifecycle graph.                                                    *)
(***************************************************************************)
States == {"DETECTED", "ACKNOWLEDGED", "INVESTIGATING", "MITIGATING",
           "RESOLVED", "POSTMORTEM", "CLOSED"}

Transitions ==
    [s \in States |->
        CASE s = "DETECTED"      -> {"ACKNOWLEDGED", "INVESTIGATING"}
          [] s = "ACKNOWLEDGED"  -> {"INVESTIGATING", "RESOLVED"}
          [] s = "INVESTIGATING" -> {"MITIGATING", "RESOLVED"}
          [] s = "MITIGATING"    -> {"RESOLVED", "INVESTIGATING"}
          [] s = "RESOLVED"      -> {"POSTMORTEM", "CLOSED", "INVESTIGATING"}
          [] s = "POSTMORTEM"    -> {"CLOSED"}
          [] s = "CLOSED"        -> {}]

CanTransition(src, dst) == dst \in Transitions[src]

\* TIER1, TIER2, TIER3 by rank.
Tiers == 1 .. 3

(***************************************************************************)
(* Timeline entries.                                                       *)
(***************************************************************************)
Changes == [from : States, to : States]
Logged  == [type : {"ASSIGNED"}, what : Assignees]
             \cup [type : {"NOTE", "NOTIFICATION_SENT"}, what : {NoOne}]
             \cup [type : {"REMEDIATION"}, what : Remediations]

(***************************************************************************)
(* The document, as created: IncidentState.DETECTED, TIER1, version 0.     *)
(***************************************************************************)
\* Mutant: tiers are counted from zero.
NewDocUntiered ==
    [state |-> "DETECTED", tier |-> 0, assignee |-> NoOne, version |-> 0,
     acknowledged |-> FALSE, resolved |-> FALSE,
     remediations |-> {}, changes |-> << >>, climbs |-> << >>, log |-> << >>]
NewDoc ==
    [state |-> "DETECTED", tier |-> 1, assignee |-> NoOne, version |-> 0,
     acknowledged |-> FALSE, resolved |-> FALSE,
     remediations |-> {}, changes |-> << >>, climbs |-> << >>, log |-> << >>]

Docs ==
    [state : States, tier : Tiers, assignee : Assignees \cup {NoOne},
     version : Nat, acknowledged : BOOLEAN, resolved : BOOLEAN,
     remediations : SUBSET Remediations,
     changes : Seq(Changes), climbs : Seq(Tiers), log : Seq(Logged)]

ASSUME NoDocAssumption == NoDoc \notin Docs

(***************************************************************************)
(* What each operation makes of the document it has read.                  *)
(***************************************************************************)
\* transition(): the checks.  `expected' is a set: {} when the caller sent
\* no expected_version, {v} when it sent v.
StaleVersion(d, expected) == \E v \in expected : d.version # v
\* Mutant: the graph is not asked.
MayTransitionUnchecked(d, target, expected) == ~ StaleVersion(d, expected)
MayTransition(d, target, expected) ==
    /\ ~ StaleVersion(d, expected)
    /\ CanTransition(d.state, target)

Transitioned(d, target) ==
    [d EXCEPT !.state        = target,
              !.version      = @ + 1,
              !.acknowledged = @ \/ target = "ACKNOWLEDGED",
              !.resolved     = @ \/ target = "RESOLVED",
              !.changes      = Append(@, [from |-> d.state, to |-> target])]

Assigned(d, a) ==
    [d EXCEPT !.assignee = a,
              !.log = Append(@, [type |-> "ASSIGNED", what |-> a])]

Noted(d) == [d EXCEPT !.log = Append(@, [type |-> "NOTE", what |-> NoOne])]

Linked(d, r) ==
    [d EXCEPT !.remediations = @ \cup {r},
              !.log = Append(@, [type |-> "REMEDIATION", what |-> r])]

Escalated(d, t) == [d EXCEPT !.tier = t, !.climbs = Append(@, t)]

Paged(d) ==
    [d EXCEPT !.log = Append(@, [type |-> "NOTIFICATION_SENT", what |-> NoOne])]

(***************************************************************************)
(* When a document is the result of some sequence of operations: its       *)
(* STATE_CHANGE entries walk the lifecycle graph from DETECTED to the      *)
(* current state, and every other field follows from the timeline.         *)
(***************************************************************************)
WalksTheGraph(d) ==
    /\ \A k \in 1 .. Len(d.changes) :
          /\ CanTransition(d.changes[k].from, d.changes[k].to)
          /\ d.changes[k].from = IF k = 1 THEN "DETECTED" ELSE d.changes[k - 1].to
    /\ d.state = IF d.changes = << >> THEN "DETECTED"
                                      ELSE d.changes[Len(d.changes)].to

VersionCountsChanges(d) == d.version = Len(d.changes)

Visited(d, s) == \E k \in 1 .. Len(d.changes) : d.changes[k].to = s

StampsMatchChanges(d) ==
    /\ d.acknowledged <=> Visited(d, "ACKNOWLEDGED")
    /\ d.resolved     <=> Visited(d, "RESOLVED")

ClimbsRise(d) ==
    /\ \A k \in 1 .. Len(d.climbs) :
          d.climbs[k] > IF k = 1 THEN 1 ELSE d.climbs[k - 1]
    /\ d.tier = IF d.climbs = << >> THEN 1 ELSE d.climbs[Len(d.climbs)]

AssigneeIsLogged(d) ==
    d.assignee # NoOne =>
        \E k \in 1 .. Len(d.log) :
            d.log[k] = [type |-> "ASSIGNED", what |-> d.assignee]

Coherent(d) ==
    /\ WalksTheGraph(d)
    /\ VersionCountsChanges(d)
    /\ StampsMatchChanges(d)
    /\ ClimbsRise(d)
    /\ AssigneeIsLogged(d)
=============================================================================
