--------------------- MODULE IncidentServiceRefinement ---------------------
(***************************************************************************)
(* As long as requests do not overlap and none is cut off, the service     *)
(* over the SQL repositories implements IncidentLifecycle, where every     *)
(* operation is one step.  An operation takes effect when its document is  *)
(* written; what its handler has still to write counts as written. An      *)
(* escalation is that of the time at which its handler read the incident,  *)
(* which has passed when it takes effect.                                  *)
(***************************************************************************)
EXTENDS IncidentService

CONSTANT MaxPages   \* bound: channels of one escalation

ChannelLists ==
    {ChannelsNamed(OnCall[k].channels) : k \in DOMAIN OnCall} \cup
    UNION {{ChannelsNamed(Policies[p].steps[k].channels) : k \in DOMAIN Policies[p].steps} :
             p \in DOMAIN Policies}

ASSUME MaxPagesAssumption ==
    MaxPages \in Nat /\ \A channels \in ChannelLists : Len(channels) <= MaxPages

\* The writes that the requests in flight have still to make.
EventsOwed(pcs) ==
    {worker[w].event : w \in {w \in Workers : worker[w].pc \in pcs}}
Owing(s, events) == IF events = {} THEN s ELSE Append(s, CHOOSE e \in events : TRUE)

PagersOf(i) == {w \in Workers : worker[w].pc \in {"page", "sent"} /\ worker[w].id = i}
Pagers == UNION {PagersOf(i) : i \in Incidents}

DoneRow(i) ==
    IF PagersOf(i) = {} THEN rows[i]
    ELSE LET w == CHOOSE w \in PagersOf(i) : TRUE
         IN  [worker[w].doc EXCEPT !.log = @ \o
                [k \in DOMAIN worker[w].channels |->
                   [type |-> "NOTIFICATION_SENT", what |-> NoOne]]]

DoneNotifications ==
    [k \in DOMAIN notifications |-> [notifications[k] EXCEPT !.status = "SENT"]] \o
    (IF Pagers = {} THEN << >>
     ELSE LET w    == CHOOSE w \in Pagers : TRUE
              rest == IF At(w, "sent") THEN Tail(worker[w].channels)
                                       ELSE worker[w].channels
          IN  [k \in DOMAIN rest |->
                 Page(worker[w].id, worker[w].doc.tier, rest[k], "SENT")])

DoneRows   == [i \in Incidents |-> DoneRow(i)]
DoneOutbox == Owing(outbox, EventsOwed({"emit"}))
DoneAudit  == Owing(audit, EventsOwed({"emit", "audit"}))

Lifecycle == INSTANCE IncidentLifecycle
                 WITH rows <- DoneRows,
                      outbox <- DoneOutbox,
                      audit <- DoneAudit,
                      notifications <- DoneNotifications,
                      MaxChanges <- MaxRequests * 2,
                      MaxLog <- MaxRequests * (MaxPages + 1)

\* An atomic operation, or an escalation decided some time ago.
Operation ==
    \/ Lifecycle!Next
    \/ \E i \in Incidents : \E minutes \in 0 .. age[i] : Lifecycle!EscalateAt(i, minutes)

\* Until a request is cut off that owed a write, every behaviour of the
\* handlers is one of the atomic operations (incident_service.py over
\* repositories/sql, one request at a time).
ImplementsLifecycle ==
    /\ Lifecycle!Init
    /\ [][cut' = {} => Operation]_Lifecycle!vars
=============================================================================
