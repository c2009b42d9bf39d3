------------------------- MODULE IncidentLifecycle -------------------------
(***************************************************************************)
(* services/incident_service.py over the in-memory repositories, which is  *)
(* what PERSISTENCE=memory runs.  No await of a handler suspends there, so *)
(* every operation is one step, from its read to its last side effect.     *)
(* This is also what the operations promise: IncidentService, the same     *)
(* handlers over the SQL repositories, implements it as long as the        *)
(* requests on an incident do not overlap.                                 *)
(*                                                                         *)
(* An operation whose guard fails raises before it has changed anything,   *)
(* so it has no step.                                                      *)
(***************************************************************************)
EXTENDS Incident, Escalation

CONSTANTS Incidents,   \* incident ids
          Severity,      \* [Incidents -> Severities], fixed by the problem
          MaxChanges,    \* bound: transitions of one incident
          MaxLog,        \* bound: other timeline entries of one incident
          TimeStep,      \* bound: minutes between two distinguished times
          Horizon        \* bound: age in minutes after which time stands still

ASSUME SeverityAssumption == Severity \in [Incidents -> Severities]
ASSUME BoundsAssumption ==
    MaxChanges \in Nat /\ MaxLog \in Nat /\ TimeStep \in Nat /\ Horizon \in Nat

VARIABLES rows,            \* the incident repository
          outbox,          \* events added to the outbox, in order
          audit,           \* audit records, in order
          notifications,   \* the notification repository
          age              \* minutes since an incident was created

vars == <<rows, outbox, audit, notifications, age>>

(***************************************************************************)
(* What the side effects are made of.  An audit record of an incident      *)
(* carries the same facts as the event it follows.                         *)
(***************************************************************************)
CreatedEvent(i) ==
    [type |-> "created", id |-> i, from |-> "DETECTED", to |-> "DETECTED"]
ChangedEvent(i, src, dst) ==
    [type |-> "state_changed", id |-> i, from |-> src, to |-> dst]
Events == [type : {"created", "state_changed"}, id : Incidents,
           from : States, to : States]

Page(i, tier, channel, status) ==
    [id |-> i, tier |-> tier, channel |-> channel, status |-> status]

\* The timeline after paging through n channels.
PagedTimes(d, n) ==
    [d EXCEPT !.log = @ \o [k \in 1 .. n |->
                              [type |-> "NOTIFICATION_SENT", what |-> NoOne]]]

TypeOK ==
    /\ rows \in [Incidents -> Docs \cup {NoDoc}]
    /\ outbox \in Seq(Events)
    /\ audit \in Seq(Events)
    /\ age \in [Incidents -> 0 .. Horizon + TimeStep]

Init ==
    /\ rows = [i \in Incidents |-> NoDoc]
    /\ outbox = << >>
    /\ audit = << >>
    /\ notifications = << >>
    /\ age = [i \in Incidents |-> 0]

(***************************************************************************)
(* The operations.                                                         *)
(***************************************************************************)
Exists(i) == rows[i] # NoDoc
MayChange(i) == Exists(i) /\ Len(rows[i].changes) < MaxChanges
MayLog(i)    == Exists(i) /\ Len(rows[i].log) < MaxLog

Emit(events) ==
    /\ outbox' = outbox \o events
    /\ audit'  = audit \o events

Create(i) ==
    /\ ~ Exists(i)
    /\ rows' = [rows EXCEPT ![i] = NewDoc]
    /\ Emit(<<CreatedEvent(i)>>)
    /\ UNCHANGED <<notifications, age>>

\* Mutant: the event is built from the document that was already changed.
TransitionEmitsLate(i, target, expected) ==
    /\ MayChange(i)
    /\ MayTransition(rows[i], target, expected)
    /\ rows' = [rows EXCEPT ![i] = Transitioned(@, target)]
    /\ Emit(<<ChangedEvent(i, rows'[i].state, target)>>)
    /\ UNCHANGED <<notifications, age>>

Transition(i, target, expected) ==
    /\ MayChange(i)
    /\ MayTransition(rows[i], target, expected)
    /\ rows' = [rows EXCEPT ![i] = Transitioned(@, target)]
    /\ Emit(<<ChangedEvent(i, rows[i].state, target)>>)
    /\ UNCHANGED <<notifications, age>>

\* The non-empty sublists of a list of one or two ids.
Sublists(ids) == {ids} \cup {<<ids[k]>> : k \in DOMAIN ids}

\* Every id of the list is tried; those that may not make the transition are
\* reported as failed and the others go on.
BulkTransition(ids, target) ==
    LET May(i) == MayChange(i) /\ MayTransition(rows[i], target, {})
        In(i, list) == \E k \in DOMAIN list : list[k] = i
    IN  \E moved \in Sublists(ids) :
          /\ \A i \in Incidents : In(i, moved) <=> In(i, ids) /\ May(i)
          /\ rows' = [i \in Incidents |->
                        IF In(i, moved) THEN Transitioned(rows[i], target) ELSE rows[i]]
          /\ Emit([k \in DOMAIN moved |->
                     ChangedEvent(moved[k], rows[moved[k]].state, target)])
          /\ UNCHANGED <<notifications, age>>

Assign(i, a) ==
    /\ MayLog(i)
    /\ rows' = [rows EXCEPT ![i] = Assigned(@, a)]
    /\ UNCHANGED <<outbox, audit, notifications, age>>

AddNote(i) ==
    /\ MayLog(i)
    /\ rows' = [rows EXCEPT ![i] = Noted(@)]
    /\ UNCHANGED <<outbox, audit, notifications, age>>

LinkRemediation(i, r) ==
    /\ MayLog(i)
    /\ rows' = [rows EXCEPT ![i] = Linked(@, r)]
    /\ UNCHANGED <<outbox, audit, notifications, age>>

\* The channels of a decision, << >> when nobody is on call for the tier.
ChannelsOf(step) ==
    IF PageChannels(step) = {} THEN << >>
    ELSE CHOOSE c \in PageChannels(step) : TRUE

\* The decision is that of the age in minutes at which it is taken.
EscalateAt(i, minutes) ==
    /\ Exists(i)
    /\ \E step \in Escalations(Severity[i], minutes, rows[i].tier) :
          LET channels == ChannelsOf(step)
          IN  /\ rows' = [rows EXCEPT ![i] =
                            PagedTimes(Escalated(@, step.tier), Len(channels))]
              /\ notifications' = notifications \o
                   [k \in DOMAIN channels |-> Page(i, step.tier, channels[k], "SENT")]
    /\ UNCHANGED <<outbox, audit, age>>

Escalate(i) == EscalateAt(i, age[i])

\* Time passes for the incidents that exist.
Tick ==
    /\ \E i \in Incidents : Exists(i) /\ age[i] < Horizon
    /\ age' = [i \in Incidents |->
                 IF Exists(i) /\ age[i] < Horizon THEN age[i] + TimeStep ELSE age[i]]
    /\ UNCHANGED <<rows, outbox, audit, notifications>>

\* The expected_version a caller may send: none, or any version there is.
ExpectedValues == {{}} \cup {{v} : v \in 0 .. MaxChanges}

\* The lists a bulk request may carry, in the order the request names them.
\* (An id repeated in a list fails the second time: no state has a transition
\* to itself.)
BulkLists == {<<i>> : i \in Incidents} \cup
             {ids \in Incidents \X Incidents : ids[1] # ids[2]}

Next ==
    \/ \E i \in Incidents :
          \/ Create(i)
          \/ \E target \in States, expected \in ExpectedValues :
                Transition(i, target, expected)
          \/ \E a \in Assignees : Assign(i, a)
          \/ AddNote(i)
          \/ \E r \in Remediations : LinkRemediation(i, r)
          \/ Escalate(i)
    \/ \E ids \in BulkLists, target \in States : BulkTransition(ids, target)
    \/ Tick

Spec == Init /\ [][Next]_vars

-----------------------------------------------------------------------------
(***************************************************************************)
(* Properties.                                                             *)
(***************************************************************************)

\* Whatever sequence of operations was applied, a stored incident is the
\* result of legal ones: its STATE_CHANGE entries walk INCIDENT_TRANSITIONS
\* from DETECTED to the current state, version counts them, the timestamps,
\* tier and assignee follow from the timeline (transition, assign,
\* evaluate_escalation of incident_service.py).
DocumentsCoherent == \A i \in Incidents : Exists(i) => Coherent(rows[i])

\* The life of an incident: "created", and the state changes of its timeline.
Life(i) ==
    IF ~ Exists(i) THEN << >>
    ELSE <<CreatedEvent(i)>> \o
         [k \in DOMAIN rows[i].changes |->
            ChangedEvent(i, rows[i].changes[k].from, rows[i].changes[k].to)]

\* The entries about an incident are those of `life', in this order.
EntriesOf(entries, i) == {k \in DOMAIN entries : entries[k].id = i}
Tells(entries, i, life) ==
    /\ Cardinality(EntriesOf(entries, i)) = Len(life)
    /\ \A k \in EntriesOf(entries, i) :
          entries[k] = life[Cardinality({j \in EntriesOf(entries, i) : j <= k})]

\* The events of an incident in the outbox, and its audit records, tell its
\* whole life, in order: one "created" followed by exactly the state changes of
\* its timeline, of which the document is the result (_emit is called once per
\* successful create and transition, bulk ones included).
OutboxTellsTheTimeline ==
    /\ DocumentsCoherent
    /\ \A i \in Incidents : Tells(outbox, i, Life(i)) /\ Tells(audit, i, Life(i))
=============================================================================
