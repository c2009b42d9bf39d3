--------------------------- MODULE IncidentService ---------------------------
(***************************************************************************)
(* services/incident_service.py over the SQL repositories.  Every          *)
(* repository call opens a session and commits it, so a handler suspends   *)
(* at each: it reads the row of the incident, computes a new document, and *)
(* writes the whole document back in a later step; the outbox entry and    *)
(* the audit record are two more transactions after that.  Handlers of one *)
(* process interleave at these points, and so do those of the replicas     *)
(* that share the database (docker-compose.yml, cloudrun.yaml).            *)
(*                                                                         *)
(* A worker is one request in flight, wherever it runs.  A handler whose   *)
(* checks fail after its read has changed nothing: the request is over and *)
(* there is no step.  The earlier read that the routes make for the venue  *)
(* check is left out, its result is thrown away.  A crash, a failed        *)
(* commit, or a lost connection ends a request between two steps.          *)
(***************************************************************************)
EXTENDS Incident, Escalation

CONSTANTS Incidents,     \* incident ids
          Severity,      \* [Incidents -> Severities], fixed by the problem
          Workers,       \* requests that can be in flight at once
          ExpectedVersions,  \* what callers send as expected_version: a set of
                             \* {}, for none, and {v}
          CanCrash,      \* whether a request may be cut off
          MaxRequests,   \* bound: requests ever made
          TimeStep,      \* bound: minutes between two distinguished times
          Horizon        \* bound: age in minutes after which time stands still

ASSUME SeverityAssumption == Severity \in [Incidents -> Severities]
ASSUME BoundsAssumption == MaxRequests \in Nat /\ TimeStep \in Nat /\ Horizon \in Nat

VARIABLES rows,            \* the incidents table
          outbox,          \* the outbox table, in order of insertion
          audit,           \* the audit table, in order of insertion
          notifications,   \* the notifications table, in order of insertion
          age,             \* minutes since an incident was created
          worker,          \* the requests in flight
          requests,        \* how many requests were made
          committed,       \* history: the events whose document was written
          cut              \* history: what requests that were cut off owed

vars == <<rows, outbox, audit, notifications, age, worker, requests,
          committed, cut>>

\* One incident repository serves both modes: the shape of events and pages.
CreatedEvent(i) ==
    [type |-> "created", id |-> i, from |-> "DETECTED", to |-> "DETECTED"]
ChangedEvent(i, src, dst) ==
    [type |-> "state_changed", id |-> i, from |-> src, to |-> dst]
Events == [type : {"created", "state_changed"}, id : Incidents,
           from : States, to : States]
NoEvent == [type |-> "none"]

Page(i, tier, channel, status) ==
    [id |-> i, tier |-> tier, channel |-> channel, status |-> status]

(***************************************************************************)
(* A worker: where its handler waits, the incident and the document it     *)
(* holds, the event it will emit, the channels left to page, and the ids   *)
(* left of a bulk request with their target.                               *)
(*   "commit"  before repo.add / repo.update        "emit"  before outbox  *)
(*   "page"    before the next notify, or the final update                 *)
(*   "sent"    inside notify, between its two writes                       *)
(*   "audit"   before the audit record   "bulk" before the next id's read  *)
(***************************************************************************)
Idle == [pc |-> "idle"]
Busy(w) == worker[w].pc # "idle"
At(w, pc) == worker[w].pc = pc

NoBulk == [ids |-> << >>, target |-> "CLOSED"]

Request(pc, i, d, e, channels, bulk) ==
    [pc |-> pc, id |-> i, doc |-> d, event |-> e, channels |-> channels,
     paging |-> FALSE, slot |-> 0, bulk |-> bulk]

Goto(w, pc) == [worker EXCEPT ![w].pc = pc]

\* The request is over, or its bulk loop goes on.
Finished(w) ==
    [worker EXCEPT ![w] = IF worker[w].bulk.ids = << >> THEN Idle
                          ELSE [@ EXCEPT !.pc = "bulk"]]

Exists(i) == rows[i] # NoDoc

Init ==
    /\ rows = [i \in Incidents |-> NoDoc]
    /\ outbox = << >>
    /\ audit = << >>
    /\ notifications = << >>
    /\ age = [i \in Incidents |-> 0]
    /\ worker = [w \in Workers |-> Idle]
    /\ requests = 0
    /\ committed = << >>
    /\ cut = {}

(***************************************************************************)
(* The first half of each handler: read the row, check, compute.           *)
(***************************************************************************)
Start(w, request) ==
    /\ ~ Busy(w)
    /\ requests < MaxRequests
    /\ requests' = requests + 1
    /\ worker' = [worker EXCEPT ![w] = request]
    /\ UNCHANGED <<rows, outbox, audit, notifications, age, committed, cut>>

\* create_from_problem: the id is fresh, nobody else has it.
Create(w, i) ==
    /\ ~ Exists(i)
    /\ \A v \in Workers : Busy(v) => worker[v].id # i
    /\ Start(w, Request("commit", i, NewDoc, CreatedEvent(i), << >>, NoBulk))

ToTransition(i, target, bulk) ==
    Request("commit", i, Transitioned(rows[i], target),
            ChangedEvent(i, rows[i].state, target), << >>, bulk)

Transition(w, i, target, expected) ==
    /\ Exists(i)
    /\ MayTransition(rows[i], target, expected)
    /\ Start(w, ToTransition(i, target, NoBulk))

BulkTransition(w, ids, target) ==
    Start(w, Request("bulk", ids[1], NoDoc, NoEvent, << >>,
                     [ids |-> ids, target |-> target]))

\* Mutant: an id that may not make the transition is tried again.
BulkNextRetries(w) ==
    LET ids    == worker[w].bulk.ids
        i      == Head(ids)
        target == worker[w].bulk.target
        May    == Exists(i) /\ MayTransition(rows[i], target, {})
    IN  /\ At(w, "bulk")
        /\ worker' = IF ~ May THEN worker
                     ELSE [worker EXCEPT ![w] = ToTransition(i, target,
                             [ids |-> Tail(ids), target |-> target])]
        /\ UNCHANGED <<rows, outbox, audit, notifications, age, requests,
                       committed, cut>>

\* One round of the bulk loop: an id that may not make the transition is
\* reported as failed, and the loop goes on.
BulkNext(w) ==
    LET ids    == worker[w].bulk.ids
        i      == Head(ids)
        target == worker[w].bulk.target
        rest   == [ids |-> Tail(ids), target |-> target]
    IN  /\ At(w, "bulk")
        /\ worker' =
              [worker EXCEPT ![w] =
                 IF Exists(i) /\ MayTransition(rows[i], target, {})
                 THEN ToTransition(i, target, rest)
                 ELSE IF rest.ids = << >> THEN Idle
                 ELSE Request("bulk", i, NoDoc, NoEvent, << >>, rest)]
        /\ UNCHANGED <<rows, outbox, audit, notifications, age, requests,
                       committed, cut>>

Update(w, i, d) == Start(w, Request("commit", i, d, NoEvent, << >>, NoBulk))

Assign(w, i, a)          == Exists(i) /\ Update(w, i, Assigned(rows[i], a))
AddNote(w, i)            == Exists(i) /\ Update(w, i, Noted(rows[i]))
LinkRemediation(w, i, r) == Exists(i) /\ Update(w, i, Linked(rows[i], r))

\* Mutant: the tier is written only with the pages, at the end.
EscalatePagesFirst(w, i) ==
    /\ Exists(i)
    /\ \E step \in Escalations(Severity[i], age[i], rows[i].tier) :
          \E channels \in PageChannels(step) :
             Start(w, Request("page", i, Escalated(rows[i], step.tier), NoEvent,
                              channels, NoBulk))

\* evaluate_escalation: pages only when somebody is on call for the tier.
Escalate(w, i) ==
    /\ Exists(i)
    /\ \E step \in Escalations(Severity[i], age[i], rows[i].tier) :
          LET d == Escalated(rows[i], step.tier)
          IN  \/ /\ PageChannels(step) = {}
                 /\ Update(w, i, d)
              \/ \E channels \in PageChannels(step) :
                    Start(w, [Request("commit", i, d, NoEvent, channels, NoBulk)
                                EXCEPT !.paging = TRUE])

(***************************************************************************)
(* The second half: one step per transaction.                              *)
(***************************************************************************)
\* Mutant: an update writes the columns that are queried, and no document.
WriteColumns(w) ==
    LET d == worker[w].doc
    IN  rows' = [rows EXCEPT ![worker[w].id] =
                   IF @ = NoDoc THEN d
                   ELSE [@ EXCEPT !.state = d.state, !.version = d.version]]

\* repo.add / repo.update: the whole document, whatever the row is by now.
Write(w) == rows' = [rows EXCEPT ![worker[w].id] = worker[w].doc]

Commit(w) ==
    /\ At(w, "commit")
    /\ Write(w)
    /\ IF worker[w].event # NoEvent
       THEN /\ worker' = Goto(w, "emit")
            /\ committed' = Append(committed, worker[w].event)
       ELSE /\ worker' = IF worker[w].paging THEN Goto(w, "page") ELSE Finished(w)
            /\ UNCHANGED committed
    /\ UNCHANGED <<outbox, audit, notifications, age, requests, cut>>

\* Mutant: an insert that is tried again although it succeeded.
EmitTwice(w) ==
    /\ At(w, "emit")
    /\ outbox' = outbox \o <<worker[w].event, worker[w].event>>
    /\ worker' = Goto(w, "audit")
    /\ UNCHANGED <<rows, audit, notifications, age, requests, committed, cut>>

Emit(w) ==
    /\ At(w, "emit")
    /\ outbox' = Append(outbox, worker[w].event)
    /\ worker' = Goto(w, "audit")
    /\ UNCHANGED <<rows, audit, notifications, age, requests, committed, cut>>

Audit(w) ==
    /\ At(w, "audit")
    /\ audit' = Append(audit, worker[w].event)
    /\ worker' = Finished(w)
    /\ UNCHANGED <<rows, outbox, notifications, age, requests, committed, cut>>

\* notify: insert the notification as QUEUED ...
Notify(w) ==
    /\ At(w, "page")
    /\ worker[w].channels # << >>
    /\ notifications' = Append(notifications,
           Page(worker[w].id, worker[w].doc.tier, Head(worker[w].channels), "QUEUED"))
    /\ worker' = [worker EXCEPT ![w].pc = "sent",
                                ![w].slot = Len(notifications) + 1]
    /\ UNCHANGED <<rows, outbox, audit, age, requests, committed, cut>>

\* ... and mark it SENT; the timeline entry is added to the document held.
MarkSent(w) ==
    /\ At(w, "sent")
    /\ notifications' = [notifications EXCEPT ![worker[w].slot].status = "SENT"]
    /\ worker' = [worker EXCEPT ![w].pc = "page", ![w].slot = 0,
                                ![w].channels = Tail(@), ![w].doc = Paged(@)]
    /\ UNCHANGED <<rows, outbox, audit, age, requests, committed, cut>>

\* Mutant: the pages never reach the timeline.
WritePagesForgotten(w) ==
    /\ At(w, "page")
    /\ worker[w].channels = << >>
    /\ worker' = Finished(w)
    /\ UNCHANGED <<rows, outbox, audit, notifications, age, requests, committed, cut>>

\* The last update of evaluate_escalation writes the document again.
WritePages(w) ==
    /\ At(w, "page")
    /\ worker[w].channels = << >>
    /\ Write(w)
    /\ worker' = Finished(w)
    /\ UNCHANGED <<outbox, audit, notifications, age, requests, committed, cut>>

(***************************************************************************)
(* A request is cut off.  (A replica that dies cuts off all of its         *)
(* requests, which is one such step for each of them.)                     *)
(***************************************************************************)
Crash(w) ==
    /\ CanCrash
    /\ Busy(w)
    /\ worker' = [worker EXCEPT ![w] = Idle]
    /\ cut' = cut \cup (IF At(w, "emit") THEN {"event"}
                       ELSE IF worker[w].pc \in {"audit", "page", "sent"} THEN {"rest"}
                       ELSE {})
    /\ UNCHANGED <<rows, outbox, audit, notifications, age, requests, committed>>

Tick ==
    /\ \E i \in Incidents : Exists(i) /\ age[i] < Horizon
    /\ age' = [i \in Incidents |->
                 IF Exists(i) /\ age[i] < Horizon THEN age[i] + TimeStep ELSE age[i]]
    /\ UNCHANGED <<rows, outbox, audit, notifications, worker, requests,
                   committed, cut>>

BulkLists == {ids \in Incidents \X Incidents : ids[1] # ids[2]}

Begin(w) ==
    \/ \E i \in Incidents :
          \/ Create(w, i)
          \/ \E target \in States, expected \in ExpectedVersions :
                Transition(w, i, target, expected)
          \/ \E a \in Assignees : Assign(w, i, a)
          \/ AddNote(w, i)
          \/ \E r \in Remediations : LinkRemediation(w, i, r)
          \/ Escalate(w, i)
    \/ \E ids \in BulkLists, target \in States : BulkTransition(w, ids, target)

Proceed(w) ==
    \/ BulkNext(w) \/ Commit(w) \/ Emit(w) \/ Audit(w)
    \/ Notify(w) \/ MarkSent(w) \/ WritePages(w)

Next ==
    \/ \E w \in Workers : Begin(w) \/ Proceed(w) \/ Crash(w)
    \/ Tick

Spec == Init /\ [][Next]_vars

\* A handler that has started is run on by the event loop; nobody has to call.
FairSpec == Spec /\ \A w \in Workers : WF_vars(Proceed(w))

-----------------------------------------------------------------------------
(***************************************************************************)
(* Properties that hold however requests overlap and wherever they are cut *)
(* off.                                                                    *)
(***************************************************************************)
Pages == [id : Incidents, tier : Tiers, channel : NotificationChannels,
          status : {"QUEUED", "SENT"}]
Pcs == {"commit", "emit", "audit", "page", "sent", "bulk"}
Requests ==
    [pc : Pcs, id : Incidents, doc : Docs \cup {NoDoc},
     event : Events \cup {NoEvent}, channels : Seq(NotificationChannels), paging : BOOLEAN,
     slot : Nat, bulk : [ids : Seq(Incidents), target : States]]

TypeOK ==
    /\ rows \in [Incidents -> Docs \cup {NoDoc}]
    /\ outbox \in Seq(Events)
    /\ audit \in Seq(Events)
    /\ committed \in Seq(Events)
    /\ notifications \in Seq(Pages)
    /\ age \in [Incidents -> Nat]
    /\ worker \in [Workers -> Requests \cup {Idle}]
    /\ requests \in 0 .. MaxRequests
    /\ cut \subseteq {"event", "rest"}

\* A stored document never mixes two requests: it is always the result of
\* some sequence of legal operations, although a race may have chosen another
\* sequence than the callers were told of (whole-document update of
\* SQLIncidentRepository).
DocumentsCoherent == \A i \in Incidents : Exists(i) => Coherent(rows[i])

Count(s, e) == Cardinality({k \in DOMAIN s : s[k] = e})
Holding(pc, e) == Cardinality({w \in Workers : At(w, pc) /\ worker[w].event = e})

\* The audit trail never tells more than the outbox did, and less only by what
\* a handler has still to record or was cut off before (_audit_record is the
\* last write of a handler).
AuditFollowsOutbox ==
    /\ \A k \in DOMAIN audit : Count(audit, audit[k]) <= Count(outbox, audit[k])
    /\ "rest" \notin cut => \A k \in DOMAIN outbox :
          Count(audit, outbox[k]) + Holding("audit", outbox[k]) = Count(outbox, outbox[k])

\* Every event in the outbox is of a change that was written, written once for
\* each time it is there; and a change whose event is missing is one that a
\* handler still has to emit or that was cut off before it could; its audit
\* record comes last (_emit after repo.update, _audit_record after _emit).
EventsFollowCommits ==
    /\ AuditFollowsOutbox
    /\ \A k \in DOMAIN committed :
        LET e == committed[k]
        IN  /\ Count(outbox, e) + Holding("emit", e) <= Count(committed, e)
            /\ "event" \notin cut => Count(outbox, e) + Holding("emit", e) = Count(committed, e)

\* Every event in the outbox is of a change whose document was written before,
\* and a change of state it tells of is a legal transition, whatever requests
\* have raced (transition checks, writes, and only then emits).
EventsAreLegalCommits ==
    \A k \in DOMAIN outbox :
        LET e == outbox[k]
        IN  /\ \E j \in DOMAIN committed : committed[j] = e
            /\ e.type = "state_changed" => CanTransition(e.from, e.to)

\* An incident is post-mortemed or closed only after it was resolved, races
\* and crashes included (ttr_minutes of models/incident.py).
ClosedWasResolved ==
    \A i \in Incidents :
        Exists(i) /\ rows[i].state \in {"POSTMORTEM", "CLOSED"} => rows[i].resolved

(***************************************************************************)
(* Properties of requests that do not overlap.                             *)
(***************************************************************************)

\* With one request at a time nobody is paged twice for one tier on one
\* channel, even when an escalation is cut off and asked for again: the tier
\* is written before the first page (evaluate_escalation).
PagedOncePerTier ==
    \A j, k \in DOMAIN notifications :
        (/\ notifications[k].id = notifications[j].id
         /\ notifications[k].tier = notifications[j].tier
         /\ notifications[k].channel = notifications[j].channel) => k = j

(***************************************************************************)
(* What the documentation promises of requests that do overlap.            *)
(***************************************************************************)

\* docs/ARCHITECTURE.md on optimistic concurrency: a transition accepted for
\* expected_version v is applied to version v, so that no concurrent one is
\* silently lost.
AppliedToExpectedVersion ==
    [][\A w \in Workers :
          (/\ At(w, "commit") /\ worker'[w].pc = "emit"
           /\ worker[w].event.type = "state_changed") =>
          rows[worker[w].id].version + 1 = worker[w].doc.version]_vars

\* models/outbox.py and docs/ARCHITECTURE.md on the outbox: once no request is
\* in flight, the event of every written change is there.
NoLostEvents ==
    (\A w \in Workers : ~ Busy(w)) =>
        \A k \in DOMAIN committed : Count(outbox, committed[k]) = Count(committed, committed[k])

(***************************************************************************)
(* Liveness, under FairSpec and without crashes.                           *)
(***************************************************************************)

\* A request that has started ends, whatever the others do: no handler waits
\* for another (no locks across awaits).
EveryRequestEnds == \A w \in Workers : []<>(~ Busy(w))
=============================================================================
