----------------------- MODULE IncidentServiceProofs -----------------------
(***************************************************************************)
(* Whatever requests overlap and wherever they are cut off, the documents  *)
(* stored by IncidentService are coherent, every event in the outbox is of *)
(* a legal change that was written, as many are there as were written, and *)
(* only a cut-off loses one.  The invariant is strengthened with what the  *)
(* requests in flight hold.                                                *)
(* Of requests that do not overlap, none pages twice for a tier, and they  *)
(* implement the atomic operations of IncidentLifecycle: each writes step  *)
(* by step what it owes, and counts as done from its first write on.       *)
(***************************************************************************)
EXTENDS IncidentServiceRefinement, IncidentProofs, FiniteSetTheorems, SequenceTheorems,
        TLAPS

Written(e) == \E k \in DOMAIN committed : committed[k] = e
LegalEvent(e) == e.type = "state_changed" => CanTransition(e.from, e.to)

\* What a request in flight holds: from its read on a coherent document, and
\* an event that is legal, and written once the document is.
HoldsDoc(r)   == r.pc \in {"commit", "emit", "audit", "page", "sent"}
HoldsEvent(r) == r.pc \in {"commit", "emit", "audit"} /\ r.event # NoEvent
HoldsGoodDoc(r)   == HoldsDoc(r) => r.doc \in Docs /\ Coherent(r.doc)
HoldsGoodEvent(r) ==
    /\ HoldsEvent(r) => LegalEvent(r.event)
    /\ r.pc \in {"emit", "audit"} => r.event \in Events /\ Written(r.event)
HoldsWork(r) ==
    /\ r.pc = "bulk" => r.bulk.ids # << >>
    /\ r.pc = "sent" => r.channels # << >>
GoodRequest(r) == HoldsGoodDoc(r) /\ HoldsGoodEvent(r) /\ HoldsWork(r)

GoodEvents(s) == \A k \in DOMAIN s : Written(s[k]) /\ LegalEvent(s[k])

IInv ==
    /\ TypeOK
    /\ DocumentsCoherent
    /\ \A w \in Workers : GoodRequest(worker[w])
    /\ GoodEvents(outbox)

-----------------------------------------------------------------------------
(***************************************************************************)
(* Lemmas on the parts of the state.                                       *)
(***************************************************************************)

\* A worker that is not idle has a request.
LEMMA BusyHasRequest ==
  ASSUME TypeOK, NEW w \in Workers, Busy(w)
  PROVE  worker[w] \in Requests
BY DEF TypeOK, Busy, Idle

\* Being idle is always good, and so is a request that only starts a round
\* of a bulk loop.
LEMMA IdleIsGood == Idle \in Requests \cup {Idle} /\ GoodRequest(Idle)
BY DEF Idle, GoodRequest, HoldsWork, HoldsGoodDoc, HoldsGoodEvent, HoldsDoc, HoldsEvent

\* Replacing the request of one worker by a good one, while what was written
\* is only added to, leaves all requests good.
LEMMA OneWorkerChanges ==
  ASSUME IInv, NEW w \in Workers, NEW r \in Requests \cup {Idle},
         worker' = [worker EXCEPT ![w] = r],
         GoodRequest(r)',
         \A e : Written(e) => Written(e)'
  PROVE  /\ worker' \in [Workers -> Requests \cup {Idle}]
         /\ (\A v \in Workers : GoodRequest(worker[v]))'
<1>1. worker \in [Workers -> Requests \cup {Idle}]
  BY DEF IInv, TypeOK
<1>2. worker' \in [Workers -> Requests \cup {Idle}]
  BY <1>1
<1>3. ASSUME NEW v \in Workers
      PROVE  GoodRequest(worker[v])'
  <2>1. CASE v = w
    BY <1>1, <2>1
  <2>2. CASE v # w
    <3>1. worker'[v] = worker[v]
      BY <1>1, <2>2
    <3>2. GoodRequest(worker[v])
      BY DEF IInv
    <3> QED
      BY <3>1, <3>2 DEF GoodRequest, HoldsWork, HoldsGoodDoc, HoldsGoodEvent, HoldsDoc,
                        HoldsEvent, LegalEvent
  <2> QED
    BY <2>1, <2>2
<1> QED
  BY <1>2, <1>3

\* What was written stays written.
LEMMA WrittenStays ==
  ASSUME committed \in Seq(Events), NEW x \in Events,
         committed' = committed \/ committed' = Append(committed, x)
  PROVE  /\ \A e : Written(e) => Written(e)'
         /\ committed' \in Seq(Events)
         /\ committed' = Append(committed, x) => Written(x)'
<1>1. CASE committed' = committed
  <2>1. committed # Append(committed, x)
    OBVIOUS
  <2> QED
    BY <1>1, <2>1 DEF Written
<1>2. CASE committed' = Append(committed, x)
  <2>1. /\ \A k \in DOMAIN committed : k \in DOMAIN committed' /\ committed'[k] = committed[k]
        /\ Len(committed) + 1 \in DOMAIN committed'
        /\ committed'[Len(committed) + 1] = x
    BY <1>2
  <2> QED
    BY <1>2, <2>1 DEF Written
<1> QED
  BY <1>1, <1>2

\* Events that were good stay good.
LEMMA GoodEventsStay ==
  ASSUME GoodEvents(outbox), outbox' = outbox, \A e : Written(e) => Written(e)'
  PROVE  GoodEvents(outbox)'
BY DEF GoodEvents, LegalEvent

\* An element of a sequence over a set is in the set.
LEMMA ElementIsInSet ==
  ASSUME NEW S, NEW s \in Seq(S), NEW k \in DOMAIN s
  PROVE  s[k] \in S
OBVIOUS

\* What is paged through for a list of names is a list of channels.
LEMMA NamedAreChannels ==
  ASSUME NEW names \in Seq(STRING)
  PROVE  ChannelsNamed(names) \in Seq(NotificationChannels)
<1>1. DOMAIN names = 1 .. Len(names) /\ Len(names) \in Nat
  BY LenProperties
<1>2. \A c \in DOMAIN names : ChannelOf(names[c]) \in NotificationChannels
  BY DEF ChannelOf, NotificationChannels
<1>3. ChannelsNamed(names) \in [1 .. Len(names) -> NotificationChannels]
  BY <1>1, <1>2 DEF ChannelsNamed
<1> QED
  BY <1>1, <1>3

\* An escalation is to a tier above the incident's, and pages by channels.
LEMMA EscalationsAreSteps ==
  ASSUME NEW sev, NEW m, NEW t, NEW step \in Escalations(sev, m, t)
  PROVE  /\ step \in Steps
         /\ step.tier \in Tiers /\ step.tier > t
         /\ PageChannels(step) \subseteq Seq(NotificationChannels)
<1>1. step.tier > t
  BY DEF Escalations
<1>2. step \in Steps
  <2>1. PICK p \in PolicyFor(sev) : \E k \in StepFor(p, m) : step = Policies[p].steps[k]
    BY DEF Escalations, Due
  <2>2. PICK k \in StepFor(p, m) : step = Policies[p].steps[k]
    BY <2>1
  <2>3. p \in DOMAIN Policies
    BY DEF PolicyFor, FirstMax
  <2>4. k \in DOMAIN Policies[p].steps
    BY DEF StepFor, FirstMax
  <2>5. Policies[p] \in [min_severity : Severities, steps : Seq(Steps)]
    BY <2>3, PoliciesAssumption, ElementIsInSet
  <2>6. Policies[p].steps \in Seq(Steps)
    BY <2>5
  <2> QED
    BY <2>2, <2>4, <2>6, ElementIsInSet
<1>3. step.tier \in Tiers /\ step.channels \in Seq(STRING)
  BY <1>2 DEF Steps, Tiers
<1>4. ASSUME NEW c \in PageChannels(step)
      PROVE  c \in Seq(NotificationChannels)
  <2>1. PICK eng \in OnCallFor(step.tier) :
          c = ChannelsNamed(IF step.channels # << >> THEN step.channels ELSE eng.channels)
    BY DEF PageChannels
  <2>2. PICK k \in DOMAIN OnCall : eng = OnCall[k]
    BY DEF OnCallFor
  <2>3. eng \in [tier : 1 .. 3, channels : Seq(STRING)]
    BY <2>2, OnCallAssumption, ElementIsInSet
  <2>4. eng.channels \in Seq(STRING)
    BY <2>3
  <2> QED
    BY <1>3, <2>1, <2>4, NamedAreChannels
<1> QED
  BY <1>1, <1>2, <1>3, <1>4

-----------------------------------------------------------------------------
(***************************************************************************)
(* The first half of a handler leaves a good request.                      *)
(***************************************************************************)

\* The events of the service.
LEMMA EventsTyped ==
  ASSUME NEW i \in Incidents, NEW src \in States, NEW dst \in States
  PROVE  /\ CreatedEvent(i) \in Events /\ LegalEvent(CreatedEvent(i))
         /\ ChangedEvent(i, src, dst) \in Events
         /\ CanTransition(src, dst) => LegalEvent(ChangedEvent(i, src, dst))
BY DEF CreatedEvent, ChangedEvent, Events, States, LegalEvent

LEMMA NoBulkTyped == NoBulk \in [ids : Seq(Incidents), target : States]
BY DEF NoBulk, States

\* The document of an incident that exists.
LEMMA ExistingRow ==
  ASSUME IInv, NEW i \in Incidents, Exists(i)
  PROVE  rows[i] \in Docs /\ Coherent(rows[i])
BY DEF IInv, TypeOK, DocumentsCoherent, Exists

\* The request of a legal transition is good (transition).
LEMMA ToTransitionGood ==
  ASSUME IInv, NEW i \in Incidents, Exists(i), NEW target,
         CanTransition(rows[i].state, target),
         NEW bulk \in [ids : Seq(Incidents), target : States]
  PROVE  /\ ToTransition(i, target, bulk) \in Requests
         /\ ToTransition(i, target, bulk).pc = "commit"
         /\ GoodRequest(ToTransition(i, target, bulk))
<1> DEFINE d == Transitioned(rows[i], target)
           e == ChangedEvent(i, rows[i].state, target)
           r == Request("commit", i, d, e, << >>, bulk)
<1>1. rows[i] \in Docs /\ Coherent(rows[i])
  BY ExistingRow
<1>2. rows[i].state \in States /\ target \in States
  BY <1>1, TransitionsAreStates DEF Docs
<1>3. d \in Docs /\ Coherent(d)
  BY <1>1, TransitionedCoherent
<1>4. e \in Events /\ LegalEvent(e)
  BY <1>2, EventsTyped
<1>5. /\ r \in Requests
      /\ r.pc = "commit" /\ r.doc = d /\ r.event = e
  <2> HIDE DEF d, e
  <2> QED
    BY <1>3, <1>4 DEF Request, Requests, Pcs
<1>6. GoodRequest(r)
  BY <1>3, <1>4, <1>5 DEF GoodRequest, HoldsWork, HoldsGoodDoc, HoldsGoodEvent
<1> QED
  BY <1>5, <1>6 DEF ToTransition

\* Starting a good request keeps the invariant.
LEMMA StartKeepsIInv ==
  ASSUME IInv, NEW w \in Workers, NEW r \in Requests, GoodRequest(r),
         r.pc \in {"commit", "bulk"}, Start(w, r)
  PROVE  IInv'
<1>1. /\ worker' = [worker EXCEPT ![w] = r]
      /\ requests < MaxRequests /\ requests' = requests + 1
      /\ rows' = rows /\ outbox' = outbox /\ audit' = audit
      /\ notifications' = notifications /\ age' = age
      /\ committed' = committed /\ cut' = cut
  BY DEF Start
<1>2. \A e : Written(e) => Written(e)'
  BY <1>1 DEF Written
<1>3. GoodRequest(r)'
  BY <1>1 DEF GoodRequest, HoldsWork, HoldsGoodDoc, HoldsGoodEvent, HoldsDoc, HoldsEvent, LegalEvent
<1>4. /\ worker' \in [Workers -> Requests \cup {Idle}]
      /\ (\A v \in Workers : GoodRequest(worker[v]))'
  BY <1>1, <1>2, <1>3, OneWorkerChanges
<1>5. TypeOK'
  BY <1>1, <1>4, BoundsAssumption DEF IInv, TypeOK
<1>6. DocumentsCoherent'
  BY <1>1 DEF IInv, DocumentsCoherent, Exists
<1>7. GoodEvents(outbox)'
  BY <1>1, <1>2, GoodEventsStay DEF IInv
<1> QED
  BY <1>4, <1>5, <1>6, <1>7 DEF IInv

\* An update with a coherent document keeps the invariant: assign, add_note,
\* link_remediation and evaluate_escalation up to their write.
LEMMA UpdateKeepsIInv ==
  ASSUME IInv, NEW w \in Workers, NEW r \in Requests, Start(w, r),
         r.pc = "commit", r.event = NoEvent, r.doc \in Docs, Coherent(r.doc)
  PROVE  IInv'
<1>1. GoodRequest(r)
  BY DEF GoodRequest, HoldsWork, HoldsGoodDoc, HoldsGoodEvent, HoldsEvent
<1> QED
  BY <1>1, StartKeepsIInv

\* The first half of every handler keeps the invariant.
LEMMA BeginKeepsIInv ==
  ASSUME IInv, NEW w \in Workers, Begin(w)
  PROVE  IInv'
<1>1. ASSUME NEW i \in Incidents, Create(w, i)
      PROVE  IInv'
  <2> DEFINE r == Request("commit", i, NewDoc, CreatedEvent(i), << >>, NoBulk)
  <2>1. CreatedEvent(i) \in Events /\ LegalEvent(CreatedEvent(i))
    BY EventsTyped DEF States
  <2>2. /\ r \in Requests
        /\ r.pc = "commit" /\ r.doc = NewDoc /\ r.event = CreatedEvent(i)
    BY <2>1, NewDocCoherent, NoBulkTyped DEF Request, Requests, Pcs
  <2>3. GoodRequest(r)
    BY <2>1, <2>2, NewDocCoherent DEF GoodRequest, HoldsWork, HoldsGoodDoc, HoldsGoodEvent
  <2>4. Start(w, r)
    BY <1>1 DEF Create
  <2> QED
    BY <2>2, <2>3, <2>4, StartKeepsIInv
<1>2. ASSUME NEW i \in Incidents, NEW target \in States,
             NEW expected \in ExpectedVersions, Transition(w, i, target, expected)
      PROVE  IInv'
  <2>1. /\ Exists(i) /\ CanTransition(rows[i].state, target)
        /\ Start(w, ToTransition(i, target, NoBulk))
    BY <1>2 DEF Transition, MayTransition
  <2> QED
    BY <2>1, NoBulkTyped, ToTransitionGood, StartKeepsIInv
<1>3. ASSUME NEW i \in Incidents, NEW d \in Docs, Coherent(d), Update(w, i, d)
      PROVE  IInv'
  <2> DEFINE r == Request("commit", i, d, NoEvent, << >>, NoBulk)
  <2>2. r \in Requests /\ r.pc = "commit" /\ r.doc = d /\ r.event = NoEvent
    BY <1>3, NoBulkTyped DEF Request, Requests, Pcs
  <2>3. Start(w, r)
    BY <1>3 DEF Update
  <2> QED
    BY <1>3, <2>2, <2>3, UpdateKeepsIInv
<1>4. ASSUME NEW i \in Incidents, NEW a \in Assignees, Assign(w, i, a)
      PROVE  IInv'
  BY <1>3, <1>4, ExistingRow, AssignedCoherent DEF Assign
<1>5. ASSUME NEW i \in Incidents, AddNote(w, i)
      PROVE  IInv'
  BY <1>3, <1>5, ExistingRow, NotedCoherent DEF AddNote
<1>6. ASSUME NEW i \in Incidents, NEW rid \in Remediations, LinkRemediation(w, i, rid)
      PROVE  IInv'
  BY <1>3, <1>6, ExistingRow, LinkedCoherent DEF LinkRemediation
<1>7. ASSUME NEW i \in Incidents, Escalate(w, i)
      PROVE  IInv'
  <2>1. PICK step \in Escalations(Severity[i], age[i], rows[i].tier) :
          LET d == Escalated(rows[i], step.tier)
          IN  \/ /\ PageChannels(step) = {}
                 /\ Update(w, i, d)
              \/ \E channels \in PageChannels(step) :
                    Start(w, [Request("commit", i, d, NoEvent, channels, NoBulk)
                                EXCEPT !.paging = TRUE])
    BY <1>7 DEF Escalate
  <2>2. rows[i] \in Docs /\ Coherent(rows[i])
    BY <1>7, ExistingRow DEF Escalate
  <2>3. /\ step.tier \in Tiers /\ step.tier > rows[i].tier
        /\ PageChannels(step) \subseteq Seq(NotificationChannels)
    BY EscalationsAreSteps
  <2>4. Escalated(rows[i], step.tier) \in Docs /\ Coherent(Escalated(rows[i], step.tier))
    BY <2>2, <2>3, EscalatedCoherent
  <2>5. ASSUME NEW channels \in Seq(NotificationChannels),
               Start(w, [Request("commit", i, Escalated(rows[i], step.tier), NoEvent,
                                 channels, NoBulk) EXCEPT !.paging = TRUE])
        PROVE  IInv'
    <3> DEFINE d == Escalated(rows[i], step.tier)
               q == Request("commit", i, d, NoEvent, channels, NoBulk)
               r == [q EXCEPT !.paging = TRUE]
    <3> HIDE DEF d
    <3>1. d \in Docs /\ Coherent(d)
      BY <2>4 DEF d
    <3>2. r \in Requests /\ r.pc = "commit" /\ r.doc = d /\ r.event = NoEvent
      BY <3>1, NoBulkTyped DEF Request, Requests, Pcs
    <3>3. Start(w, r)
      BY <2>5 DEF d
    <3> QED
      BY <3>1, <3>2, <3>3, UpdateKeepsIInv
  <2> QED
    BY <1>3, <2>1, <2>3, <2>4, <2>5
<1>8. ASSUME NEW ids \in BulkLists, NEW target \in States, BulkTransition(w, ids, target)
      PROVE  IInv'
  <2> DEFINE bulk == [ids |-> ids, target |-> target]
             r == Request("bulk", ids[1], NoDoc, NoEvent, << >>, bulk)
  <2>0. /\ ids[1] \in Incidents /\ ids[2] \in Incidents
        /\ ids = <<ids[1], ids[2]>>
    BY DEF BulkLists
  <2>1. bulk \in [ids : Seq(Incidents), target : States]
    <3>1. <<ids[1], ids[2]>> \in Seq(Incidents)
      BY <2>0
    <3> QED
      BY <2>0, <3>1
  <2>2. r \in Requests /\ r.pc = "bulk" /\ r.bulk = bulk
    <3> HIDE DEF bulk
    <3> QED
      BY <2>0, <2>1 DEF Request, Requests, Pcs
  <2>3. GoodRequest(r)
    <3>1. bulk.ids # << >>
      BY SMTT(20), <2>0
    <3> HIDE DEF r, bulk
    <3> QED
      BY <2>2, <3>1 DEF GoodRequest, HoldsWork, HoldsGoodDoc, HoldsGoodEvent, HoldsDoc, HoldsEvent
  <2>4. Start(w, r)
    BY <1>8 DEF BulkTransition
  <2> QED
    BY <2>2, <2>3, <2>4, StartKeepsIInv
<1> QED
  BY <1>1, <1>2, <1>4, <1>5, <1>6, <1>7, <1>8 DEF Begin

-----------------------------------------------------------------------------
(***************************************************************************)
(* The second half of a handler.                                           *)
(***************************************************************************)

\* A worker that finishes is idle or before the next round of its bulk loop,
\* and holds nothing but the ids left then.
Parked(r) == r = Idle \/ (r.pc = "bulk" /\ r.bulk.ids # << >>)

LEMMA ParkedIsGood ==
  ASSUME NEW r, Parked(r)
  PROVE  GoodRequest(r) /\ GoodRequest(r)'
BY DEF Parked, Idle, GoodRequest, HoldsGoodDoc, HoldsGoodEvent, HoldsWork,
       HoldsDoc, HoldsEvent

LEMMA FinishedIsParked ==
  ASSUME TypeOK, NEW w \in Workers, Busy(w)
  PROVE  \E r \in Requests \cup {Idle} :
           Finished(w) = [worker EXCEPT ![w] = r] /\ Parked(r)
<1>1. worker[w] \in Requests /\ worker \in [Workers -> Requests \cup {Idle}]
  BY BusyHasRequest DEF TypeOK
<1>2. CASE worker[w].bulk.ids = << >>
  BY <1>2 DEF Finished, Parked
<1>3. CASE worker[w].bulk.ids # << >>
  <2> DEFINE r == [worker[w] EXCEPT !.pc = "bulk"]
  <2>1. Finished(w) = [worker EXCEPT ![w] = r]
    BY <1>1, <1>3 DEF Finished
  <2>2. r \in Requests /\ r.pc = "bulk" /\ r.bulk = worker[w].bulk
    BY <1>1 DEF Requests, Pcs
  <2>3. Parked(r)
    BY <1>3, <2>2 DEF Parked
  <2> QED
    BY <2>1, <2>2, <2>3
<1> QED
  BY <1>2, <1>3

\* Moving on within a handler changes nothing but where it waits.
LEMMA GotoIsGood ==
  ASSUME TypeOK, NEW w \in Workers, Busy(w), NEW pc \in Pcs
  PROVE  \E r \in Requests :
           /\ Goto(w, pc) = [worker EXCEPT ![w] = r]
           /\ r.pc = pc /\ r.doc = worker[w].doc /\ r.event = worker[w].event
<1> DEFINE r == [worker[w] EXCEPT !.pc = pc]
<1>1. worker[w] \in Requests /\ worker \in [Workers -> Requests \cup {Idle}]
  BY BusyHasRequest DEF TypeOK
<1>2. Goto(w, pc) = [worker EXCEPT ![w] = r]
  BY <1>1 DEF Goto
<1>3. r \in Requests /\ r.pc = pc /\ r.doc = worker[w].doc /\ r.event = worker[w].event
  BY <1>1 DEF Requests
<1> QED
  BY <1>2, <1>3

\* Writing the document a request holds keeps the rows coherent.
LEMMA WriteKeepsRows ==
  ASSUME IInv, NEW w \in Workers, HoldsDoc(worker[w]), Write(w)
  PROVE  rows' \in [Incidents -> Docs \cup {NoDoc}] /\ DocumentsCoherent'
<1>1. worker[w].doc \in Docs /\ Coherent(worker[w].doc)
  BY DEF IInv, GoodRequest, HoldsGoodDoc
<1>2. rows \in [Incidents -> Docs \cup {NoDoc}] /\ DocumentsCoherent
  BY DEF IInv, TypeOK
<1>3. rows' = [rows EXCEPT ![worker[w].id] = worker[w].doc]
  BY DEF Write
<1> QED
  BY <1>1, <1>2, <1>3 DEF DocumentsCoherent, Exists

\* What is left to show when a step changes one request, and adds nothing to
\* the outbox or to what was written.
LEMMA QuietStepKeepsIInv ==
  ASSUME IInv, NEW w \in Workers, NEW r \in Requests \cup {Idle},
         worker' = [worker EXCEPT ![w] = r], GoodRequest(r)',
         rows' \in [Incidents -> Docs \cup {NoDoc}], DocumentsCoherent',
         UNCHANGED <<outbox, age, requests, committed>>,
         audit' \in Seq(Events), notifications' \in Seq(Pages), cut' \subseteq {"event", "rest"}
  PROVE  IInv'
<1>1. \A e : Written(e) => Written(e)'
  BY DEF Written
<1>2. /\ worker' \in [Workers -> Requests \cup {Idle}]
      /\ (\A v \in Workers : GoodRequest(worker[v]))'
  BY <1>1, OneWorkerChanges
<1>3. TypeOK'
  BY <1>2 DEF IInv, TypeOK
<1>4. GoodEvents(outbox)'
  BY <1>1, GoodEventsStay DEF IInv
<1> QED
  BY <1>2, <1>3, <1>4 DEF IInv

LEMMA BulkNextKeepsIInv ==
  ASSUME IInv, NEW w \in Workers, BulkNext(w)
  PROVE  IInv'
<1> DEFINE ids    == worker[w].bulk.ids
           i      == Head(ids)
           target == worker[w].bulk.target
           rest   == [ids |-> Tail(ids), target |-> target]
           q      == Request("bulk", i, NoDoc, NoEvent, << >>, rest)
<1>1. Busy(w) /\ worker[w] \in Requests
  BY BusyHasRequest DEF IInv, BulkNext, At, Busy
<1>2. /\ i \in Incidents /\ target \in States
      /\ rest \in [ids : Seq(Incidents), target : States]
  <2>1. ids \in Seq(Incidents) /\ ids # << >> /\ target \in States
    BY <1>1 DEF Requests, IInv, GoodRequest, HoldsWork, BulkNext, At
  <2>2. i \in Incidents /\ Tail(ids) \in Seq(Incidents)
    BY <2>1
  <2> QED
    BY <2>1, <2>2
<1>3. \E r \in Requests \cup {Idle} :
         worker' = [worker EXCEPT ![w] = r] /\ GoodRequest(r)
  <2>1. CASE Exists(i) /\ MayTransition(rows[i], target, {})
    <3>1. worker' = [worker EXCEPT ![w] = ToTransition(i, target, rest)]
      BY <2>1 DEF BulkNext
    <3>2. CanTransition(rows[i].state, target)
      BY <2>1 DEF MayTransition
    <3> QED
      BY <1>2, <2>1, <3>1, <3>2, ToTransitionGood
  <2>2. CASE ~ (Exists(i) /\ MayTransition(rows[i], target, {})) /\ rest.ids = << >>
    <3>1. worker' = [worker EXCEPT ![w] = Idle]
      BY <2>2 DEF BulkNext
    <3> QED
      BY <3>1, IdleIsGood
  <2>3. CASE ~ (Exists(i) /\ MayTransition(rows[i], target, {})) /\ rest.ids # << >>
    <3>1. worker' = [worker EXCEPT ![w] = q]
      BY <2>3 DEF BulkNext
    <3>2. q \in Requests /\ q.pc = "bulk" /\ q.bulk = rest
      <4> HIDE DEF i, rest
      <4> QED
        BY <1>2 DEF Request, Requests, Pcs
    <3>3. GoodRequest(q)
      BY <2>3, <3>2 DEF GoodRequest, HoldsWork, HoldsGoodDoc, HoldsGoodEvent, HoldsDoc, HoldsEvent
    <3> QED
      BY <3>1, <3>2, <3>3
  <2> QED
    BY <2>1, <2>2, <2>3
<1>4. PICK r \in Requests \cup {Idle} :
         worker' = [worker EXCEPT ![w] = r] /\ GoodRequest(r)
  BY <1>3
<1>5. UNCHANGED <<rows, outbox, audit, notifications, age, requests, committed, cut>>
  BY DEF BulkNext
<1>6. GoodRequest(r)'
  BY <1>4, <1>5 DEF GoodRequest, HoldsWork, HoldsGoodDoc, HoldsGoodEvent, HoldsDoc, HoldsEvent,
                    LegalEvent, Written
<1>7. /\ rows' \in [Incidents -> Docs \cup {NoDoc}] /\ DocumentsCoherent'
      /\ audit' \in Seq(Events) /\ notifications' \in Seq(Pages) /\ cut' \subseteq {"event", "rest"}
  BY <1>5 DEF IInv, TypeOK, DocumentsCoherent, Exists
<1> QED
  BY <1>4, <1>5, <1>6, <1>7, QuietStepKeepsIInv

\* Only the event of a committed document counts as written.
LEMMA CommitKeepsIInv ==
  ASSUME IInv, NEW w \in Workers, Commit(w)
  PROVE  IInv'
<1>1. /\ Busy(w) /\ worker[w] \in Requests /\ worker[w].pc = "commit"
      /\ GoodRequest(worker[w])
  BY BusyHasRequest DEF IInv, Commit, At, Busy
<1>2. rows' \in [Incidents -> Docs \cup {NoDoc}] /\ DocumentsCoherent'
  BY <1>1, WriteKeepsRows DEF Commit, HoldsDoc
<1>3. UNCHANGED <<outbox, audit, notifications, age, requests, cut>>
  BY DEF Commit
<1>4. CASE worker[w].event = NoEvent
  <2>1. UNCHANGED committed
    BY <1>4 DEF Commit
  <2>2. \E r \in Requests \cup {Idle} :
          worker' = [worker EXCEPT ![w] = r] /\ GoodRequest(r)'
    <3>1. CASE worker[w].paging
      <4>1. worker' = Goto(w, "page") /\ "page" \in Pcs
        BY <1>4, <3>1 DEF Commit, Pcs
      <4>2. PICK r \in Requests :
              /\ Goto(w, "page") = [worker EXCEPT ![w] = r]
              /\ r.pc = "page" /\ r.doc = worker[w].doc
        BY <1>1, <4>1, GotoIsGood DEF IInv
      <4>3. GoodRequest(r)'
        BY <1>1, <4>2 DEF GoodRequest, HoldsWork, HoldsGoodDoc, HoldsGoodEvent,
                          HoldsDoc, HoldsEvent
      <4> QED
        BY <4>1, <4>2, <4>3
    <3>2. CASE ~ worker[w].paging
      <4>1. worker' = Finished(w)
        BY <1>4, <3>2 DEF Commit
      <4> QED
        BY <1>1, <4>1, FinishedIsParked, ParkedIsGood DEF IInv
    <3> QED
      BY <3>1, <3>2
  <2> QED
    BY <1>2, <1>3, <2>1, <2>2, QuietStepKeepsIInv DEF IInv, TypeOK
<1>5. CASE worker[w].event # NoEvent
  <2> DEFINE x == worker[w].event
  <2>1. x \in Events /\ LegalEvent(x)
    BY <1>1, <1>5 DEF Requests, GoodRequest, HoldsGoodEvent, HoldsEvent
  <2>2. worker' = Goto(w, "emit") /\ committed' = Append(committed, x)
    BY <1>5 DEF Commit
  <2>3. /\ \A e : Written(e) => Written(e)'
        /\ committed' \in Seq(Events)
        /\ \E k \in DOMAIN committed' : committed'[k] = x
    <3>1. committed \in Seq(Events)
      BY DEF IInv, TypeOK
    <3>2. PICK y \in Events : y = x
      BY <2>1
    <3>3. /\ \A e : Written(e) => Written(e)'
          /\ committed' \in Seq(Events)
          /\ Written(y)'
      BY <2>2, <3>1, <3>2, WrittenStays
    <3> QED
      BY <3>2, <3>3 DEF Written
  <2>4. PICK r \in Requests :
          /\ worker' = [worker EXCEPT ![w] = r]
          /\ r.pc = "emit" /\ r.doc = worker[w].doc /\ r.event = x
    BY <1>1, <2>2, GotoIsGood DEF IInv, Pcs
  <2>5. GoodRequest(r)'
    BY <1>1, <2>1, <2>3, <2>4 DEF GoodRequest, HoldsWork, HoldsGoodDoc, HoldsGoodEvent,
                                  HoldsDoc, HoldsEvent, LegalEvent, Written
  <2>6. /\ worker' \in [Workers -> Requests \cup {Idle}]
        /\ (\A v \in Workers : GoodRequest(worker[v]))'
    BY <2>3, <2>4, <2>5, OneWorkerChanges
  <2>7. TypeOK'
    BY <1>2, <1>3, <2>3, <2>6 DEF IInv, TypeOK
  <2>8. GoodEvents(outbox)'
    BY <1>3, <2>3, GoodEventsStay DEF IInv
  <2> QED
    BY <1>2, <2>6, <2>7, <2>8 DEF IInv
<1> QED
  BY <1>4, <1>5

\* An event is emitted only once its document was written.
LEMMA EmitKeepsIInv ==
  ASSUME IInv, NEW w \in Workers, Emit(w)
  PROVE  IInv'
<1> DEFINE x == worker[w].event
<1>1. /\ Busy(w) /\ worker[w] \in Requests /\ worker[w].pc = "emit"
      /\ GoodRequest(worker[w])
  BY BusyHasRequest DEF IInv, Emit, At, Busy
<1>2. /\ outbox' = Append(outbox, x) /\ worker' = Goto(w, "audit")
      /\ UNCHANGED <<rows, audit, notifications, age, requests, committed, cut>>
  BY DEF Emit
<1>3. x \in Events /\ Written(x) /\ LegalEvent(x)
  <2>1. x \in Events /\ Written(x)
    BY <1>1 DEF GoodRequest, HoldsGoodEvent
  <2>2. x # NoEvent
    BY <2>1 DEF Events, NoEvent
  <2> QED
    BY <1>1, <2>1, <2>2 DEF GoodRequest, HoldsGoodEvent, HoldsEvent
<1>4. \A e : Written(e) => Written(e)'
  BY <1>2 DEF Written
<1>5. PICK r \in Requests :
        /\ worker' = [worker EXCEPT ![w] = r]
        /\ r.pc = "audit" /\ r.doc = worker[w].doc /\ r.event = x
  BY <1>1, <1>2, GotoIsGood DEF IInv, Pcs
<1>6. GoodRequest(r)'
  BY <1>1, <1>2, <1>3, <1>5 DEF GoodRequest, HoldsWork, HoldsGoodDoc, HoldsGoodEvent,
                                HoldsDoc, HoldsEvent, LegalEvent, Written
<1>7. /\ worker' \in [Workers -> Requests \cup {Idle}]
      /\ (\A v \in Workers : GoodRequest(worker[v]))'
  BY <1>4, <1>5, <1>6, OneWorkerChanges
<1>8. outbox \in Seq(Events) /\ outbox' \in Seq(Events)
  BY <1>2, <1>3 DEF IInv, TypeOK
<1>9. TypeOK'
  BY <1>2, <1>7, <1>8 DEF IInv, TypeOK
<1>10. DocumentsCoherent'
  BY <1>2 DEF IInv, DocumentsCoherent, Exists
<1>11. GoodEvents(outbox)'
  <2>1. \A k \in DOMAIN outbox' :
          outbox'[k] = x \/ (k \in DOMAIN outbox /\ outbox'[k] = outbox[k])
    BY <1>2, <1>8
  <2>2. \A k \in DOMAIN outbox' : Written(outbox'[k]) /\ LegalEvent(outbox'[k])
    BY <1>3, <2>1 DEF IInv, GoodEvents
  <2> QED
    BY <1>2, <2>2 DEF GoodEvents, Written, LegalEvent
<1> QED
  BY <1>7, <1>9, <1>10, <1>11 DEF IInv

\* The other steps of a handler write neither events nor new documents.
LEMMA TailKeepsIInv ==
  ASSUME IInv, NEW w \in Workers,
         Audit(w) \/ Notify(w) \/ MarkSent(w) \/ WritePages(w) \/ Crash(w)
  PROVE  IInv'
<1>1. /\ Busy(w) /\ worker[w] \in Requests /\ GoodRequest(worker[w])
      /\ worker \in [Workers -> Requests \cup {Idle}]
  BY BusyHasRequest DEF IInv, TypeOK, Audit, Notify, MarkSent, WritePages, Crash, At, Busy
<1>2. /\ rows \in [Incidents -> Docs \cup {NoDoc}] /\ audit \in Seq(Events)
      /\ notifications \in Seq(Pages) /\ cut \subseteq {"event", "rest"}
  BY DEF IInv, TypeOK
<1>3. UNCHANGED rows => rows' \in [Incidents -> Docs \cup {NoDoc}] /\ DocumentsCoherent'
  BY <1>2 DEF IInv, DocumentsCoherent, Exists
<1>4. ASSUME worker' = Finished(w)
      PROVE  \E r \in Requests \cup {Idle} :
               worker' = [worker EXCEPT ![w] = r] /\ GoodRequest(r)'
  BY <1>1, <1>4, FinishedIsParked, ParkedIsGood DEF IInv
<1>5. CASE Audit(w)
  <2>1. worker[w].event \in Events
    BY <1>1, <1>5 DEF Audit, At, GoodRequest, HoldsGoodEvent
  <2>2. audit' \in Seq(Events) /\ worker' = Finished(w)
    BY <1>2, <1>5, <2>1 DEF Audit
  <2>3. UNCHANGED <<rows, outbox, notifications, age, requests, committed, cut>>
    BY <1>5 DEF Audit
  <2> QED
    BY <1>2, <1>3, <1>4, <2>2, <2>3, QuietStepKeepsIInv
<1>6. CASE Notify(w)
  <2> DEFINE n == Page(worker[w].id, worker[w].doc.tier, Head(worker[w].channels), "QUEUED")
             q == [worker[w] EXCEPT !.pc = "sent", !.slot = Len(notifications) + 1]
  <2>1. worker[w].doc \in Docs /\ Coherent(worker[w].doc)
    BY <1>1, <1>6 DEF Notify, At, GoodRequest, HoldsGoodDoc, HoldsDoc
  <2>2. n \in Pages
    <3>1. worker[w].id \in Incidents /\ Head(worker[w].channels) \in NotificationChannels
      BY <1>1, <1>6 DEF Requests, Notify
    <3>2. worker[w].doc.tier \in Tiers
      BY <2>1 DEF Docs
    <3> QED
      BY <3>1, <3>2 DEF Page, Pages
  <2>3. notifications' \in Seq(Pages)
    BY <1>2, <1>6, <2>2 DEF Notify
  <2>4. worker' = [worker EXCEPT ![w] = q]
    BY <1>1, <1>6 DEF Notify
  <2>5. /\ q \in Requests /\ q.pc = "sent" /\ q.doc = worker[w].doc
        /\ q.channels = worker[w].channels
    <3> DEFINE slot == Len(notifications) + 1
    <3>1. slot \in Nat
      BY <1>2
    <3> HIDE DEF slot
    <3>2. q = [worker[w] EXCEPT !.pc = "sent", !.slot = slot]
      BY DEF slot
    <3> QED
      BY <1>1, <3>1, <3>2 DEF Requests, Pcs
  <2>6. PICK r \in Requests :
          /\ worker' = [worker EXCEPT ![w] = r]
          /\ r.pc = "sent" /\ r.doc = worker[w].doc /\ r.channels # << >>
    BY <1>6, <2>4, <2>5 DEF Notify
  <2>7. GoodRequest(r)'
    BY <2>1, <2>6 DEF GoodRequest, HoldsWork, HoldsGoodDoc, HoldsGoodEvent, HoldsDoc, HoldsEvent
  <2>8. UNCHANGED <<rows, outbox, audit, age, requests, committed, cut>>
    BY <1>6 DEF Notify
  <2> QED
    BY <1>2, <1>3, <2>3, <2>6, <2>7, <2>8, QuietStepKeepsIInv
<1>7. CASE MarkSent(w)
  <2> DEFINE d == Paged(worker[w].doc)
             q == [worker[w] EXCEPT !.pc = "page", !.slot = 0,
                                    !.channels = Tail(@), !.doc = Paged(@)]
  <2>1. d \in Docs /\ Coherent(d)
    BY <1>1, <1>7, NotedCoherent DEF MarkSent, At, GoodRequest, HoldsGoodDoc, HoldsDoc
  <2>2. notifications' \in Seq(Pages)
    <3> DEFINE slot == worker[w].slot
    <3>1. notifications' = [notifications EXCEPT ![slot].status = "SENT"]
      BY <1>7 DEF MarkSent
    <3>2. ASSUME NEW n \in Pages
          PROVE  [n EXCEPT !.status = "SENT"] \in Pages
      BY DEF Pages
    <3>3. CASE slot \in DOMAIN notifications
      <4> DEFINE n == [notifications[slot] EXCEPT !.status = "SENT"]
      <4>1. n \in Pages
        BY <1>2, <3>2, <3>3, ElementIsInSet
      <4>2. notifications' = [notifications EXCEPT ![slot] = n]
        BY <3>1
      <4> HIDE DEF n, slot
      <4> QED
        BY <1>2, <3>3, <4>1, <4>2
    <3>4. CASE slot \notin DOMAIN notifications
      <4>1. notifications' = notifications
        BY <1>2, <3>1, <3>4
      <4> QED
        BY <1>2, <4>1
    <3> QED
      BY <3>3, <3>4
  <2>3. worker' = [worker EXCEPT ![w] = q]
    <3> HIDE DEF d
    <3>1. worker' = [worker EXCEPT ![w].pc = "page", ![w].slot = 0,
                                   ![w].channels = Tail(@), ![w].doc = Paged(@)]
      BY <1>7 DEF MarkSent
    <3> QED
      BY <1>1, <3>1
  <2>4. Tail(worker[w].channels) \in Seq(NotificationChannels)
    <3> DEFINE c == worker[w].channels
    <3>1. c \in Seq(NotificationChannels) /\ c # << >>
      BY <1>1, <1>7 DEF Requests, MarkSent, At, GoodRequest, HoldsWork
    <3> HIDE DEF c
    <3>2. Tail(c) \in Seq(NotificationChannels)
      BY <3>1
    <3> QED
      BY <3>2 DEF c
  <2>5. q \in Requests /\ q.pc = "page" /\ q.doc = d
    <3> HIDE DEF d
    <3>1. q = [worker[w] EXCEPT !.pc = "page", !.slot = 0,
                                !.channels = Tail(@), !.doc = d]
      BY DEF d
    <3> QED
      BY <1>1, <2>1, <2>4, <3>1 DEF Requests, Pcs
  <2>6. PICK r \in Requests : worker' = [worker EXCEPT ![w] = r] /\ r.pc = "page"
                               /\ r.doc = d
    BY <2>3, <2>5
  <2>7. GoodRequest(r)'
    <3> HIDE DEF d
    <3> QED
      BY <2>1, <2>6 DEF GoodRequest, HoldsWork, HoldsGoodDoc, HoldsGoodEvent, HoldsDoc, HoldsEvent
  <2>8. UNCHANGED <<rows, outbox, audit, age, requests, committed, cut>>
    BY <1>7 DEF MarkSent
  <2> QED
    BY <1>2, <1>3, <2>2, <2>6, <2>7, <2>8, QuietStepKeepsIInv
<1>8. CASE WritePages(w)
  <2>1. rows' \in [Incidents -> Docs \cup {NoDoc}] /\ DocumentsCoherent'
    BY <1>8, WriteKeepsRows DEF WritePages, At, HoldsDoc
  <2>2. /\ UNCHANGED <<outbox, audit, notifications, age, requests, committed, cut>>
        /\ worker' = Finished(w)
    BY <1>8 DEF WritePages
  <2> QED
    BY <1>2, <1>4, <2>1, <2>2, QuietStepKeepsIInv
<1>9. CASE Crash(w)
  <2>1. /\ worker' = [worker EXCEPT ![w] = Idle] /\ cut' \subseteq {"event", "rest"}
        /\ UNCHANGED <<rows, outbox, audit, notifications, age, requests, committed>>
    BY <1>2, <1>9 DEF Crash
  <2>2. PICK r \in Requests \cup {Idle} : r = Idle
    OBVIOUS
  <2>3. GoodRequest(r)'
    BY <2>2, ParkedIsGood DEF Parked
  <2> QED
    BY <1>2, <1>3, <2>1, <2>2, <2>3, QuietStepKeepsIInv
<1> QED
  BY <1>5, <1>6, <1>7, <1>8, <1>9

-----------------------------------------------------------------------------
(***************************************************************************)
(* The theorems.                                                           *)
(***************************************************************************)

\* The strengthened invariant holds initially and is kept by every step.
LEMMA IInvInductive ==
  /\ Init => IInv
  /\ IInv /\ [Next]_vars => IInv'
<1>1. ASSUME Init
      PROVE  IInv
  <2>1. TypeOK
    BY <1>1, BoundsAssumption DEF Init, TypeOK
  <2>2. DocumentsCoherent /\ GoodEvents(outbox)
    BY <1>1 DEF Init, DocumentsCoherent, Exists, GoodEvents
  <2>3. \A w \in Workers : GoodRequest(worker[w])
    BY <1>1, ParkedIsGood DEF Init, Parked
  <2> QED
    BY <2>1, <2>2, <2>3 DEF IInv
<1>2. ASSUME IInv, Next
      PROVE  IInv'
  <2>1. ASSUME NEW w \in Workers, Begin(w)
        PROVE  IInv'
    BY <1>2, <2>1, BeginKeepsIInv
  <2>2. ASSUME NEW w \in Workers, Proceed(w) \/ Crash(w)
        PROVE  IInv'
    BY <1>2, <2>2, BulkNextKeepsIInv, CommitKeepsIInv, EmitKeepsIInv, TailKeepsIInv
       DEF Proceed
  <2>3. CASE Tick
    <3>1. UNCHANGED <<rows, outbox, audit, notifications, worker, requests, committed, cut>>
      BY <2>3 DEF Tick
    <3>2. age' \in [Incidents -> Nat]
      BY <1>2, <2>3, BoundsAssumption DEF IInv, TypeOK, Tick
    <3>3. TypeOK'
      BY <1>2, <3>1, <3>2 DEF IInv, TypeOK
    <3> QED
      BY <1>2, <3>1, <3>3 DEF IInv, DocumentsCoherent, Exists, GoodEvents, GoodRequest,
         HoldsWork, HoldsGoodDoc, HoldsGoodEvent, HoldsDoc, HoldsEvent, LegalEvent, Written
  <2> QED
    BY <1>2, <2>1, <2>2, <2>3 DEF Next
<1>3. ASSUME IInv, UNCHANGED vars
      PROVE  IInv'
  BY <1>3 DEF vars, IInv, TypeOK, DocumentsCoherent, Exists, GoodEvents, GoodRequest,
     HoldsWork, HoldsGoodDoc, HoldsGoodEvent, HoldsDoc, HoldsEvent, LegalEvent, Written
<1> QED
  BY <1>1, <1>2, <1>3

\* Every behaviour of the service keeps the strengthened invariant.
THEOREM ServiceInvariant == Spec => []IInv
BY IInvInductive, PTL DEF Spec

\* Type correctness, and coherence of every stored document, for any number
\* of incidents, concurrent requests and cut-offs (incident_service.py over
\* the SQL repositories).
THEOREM ServiceDocumentsCoherent == Spec => [](TypeOK /\ DocumentsCoherent)
<1>1. IInv => TypeOK /\ DocumentsCoherent
  BY DEF IInv
<1> QED
  BY <1>1, ServiceInvariant, PTL

\* Every event in the outbox is of a change that was written and legal.
THEOREM ServiceEventsAreLegalCommits == Spec => []EventsAreLegalCommits
<1>1. IInv => EventsAreLegalCommits
  BY DEF IInv, GoodEvents, Written, LegalEvent, EventsAreLegalCommits
<1> QED
  BY <1>1, ServiceInvariant, PTL

\* No race gets an incident post-mortemed or closed without it having been
\* resolved.
THEOREM ServiceClosedWasResolved == Spec => []ClosedWasResolved
<1>1. IInv => ClosedWasResolved
  BY CoherentClosedWasResolved
     DEF IInv, TypeOK, DocumentsCoherent, Exists, ClosedWasResolved
<1> QED
  BY <1>1, ServiceInvariant, PTL

-----------------------------------------------------------------------------
(***************************************************************************)
(* The counts.  Of each event as many were written as are in the outbox or *)
(* about to be, but for those that were cut off; and as many are in the    *)
(* outbox as are in the audit table or about to be, or more.               *)
(***************************************************************************)
Holders(at, pc, e) == {w \in Workers : at[w].pc = pc /\ at[w].event = e}

CountsOK(e) ==
    /\ IsFiniteSet(Holders(worker, "emit", e)) /\ IsFiniteSet(Holders(worker, "audit", e))
    /\ Count(outbox, e) + Cardinality(Holders(worker, "emit", e)) <= Count(committed, e)
    /\ "event" \notin cut =>
          Count(outbox, e) + Cardinality(Holders(worker, "emit", e)) = Count(committed, e)
    /\ Count(audit, e) + Cardinality(Holders(worker, "audit", e)) <= Count(outbox, e)
    /\ "rest" \notin cut =>
          Count(audit, e) + Cardinality(Holders(worker, "audit", e)) = Count(outbox, e)

CountsInv == \A e \in Events : CountsOK(e)

\* One more, if the event is that one; and if a request holds it.
IsOne(x, e) == IF x = e THEN 1 ELSE 0
Holds(r, pc, e) == IF r.pc = pc /\ r.event = e THEN 1 ELSE 0

LEMMA CountIsNat ==
  ASSUME NEW s \in Seq(Events), NEW e
  PROVE  IsFiniteSet({k \in DOMAIN s : s[k] = e}) /\ Count(s, e) \in Nat
<1>1. DOMAIN s = 1 .. Len(s) /\ Len(s) \in Nat
  OBVIOUS
<1>2. IsFiniteSet(DOMAIN s)
  BY <1>1, FS_Interval
<1>3. {k \in DOMAIN s : s[k] = e} \in SUBSET (DOMAIN s)
  OBVIOUS
<1> QED
  BY <1>2, <1>3, FS_Subset, FS_CardinalityType DEF Count

\* One more is counted if it is of those.
LEMMA CountAppend ==
  ASSUME NEW s \in Seq(Events), NEW x \in Events, NEW e
  PROVE  Count(Append(s, x), e) = Count(s, e) + IsOne(x, e)
<1> DEFINE n == Len(s) + 1
           t == Append(s, x)
           S == {k \in DOMAIN s : s[k] = e}
           T == {k \in DOMAIN t : t[k] = e}
<1>1. /\ DOMAIN s = 1 .. Len(s) /\ Len(s) \in Nat
      /\ DOMAIN t = 1 .. n /\ t[n] = x /\ \A k \in 1 .. Len(s) : t[k] = s[k]
  OBVIOUS
<1>2. n \notin S /\ \A k \in 1 .. n : k \in 1 .. Len(s) \/ k = n
  BY <1>1
<1>3. \A k \in 1 .. Len(s) : k \in 1 .. n
  BY <1>1
<1>4. n \in 1 .. n
  BY <1>1
<1>5. IsFiniteSet(S) /\ Cardinality(S) \in Nat
  BY CountIsNat DEF Count
<1>8. Count(t, e) = Cardinality(T) /\ Count(s, e) = Cardinality(S)
  BY DEF Count
<1>9. T = {k \in DOMAIN t : t[k] = e} /\ S = {k \in DOMAIN s : s[k] = e}
  OBVIOUS
<1> HIDE DEF n, t, S, T
<1>6. ASSUME x = e
      PROVE  Cardinality(T) = Cardinality(S) + 1
  <2>1. T = S \cup {n}
    BY <1>1, <1>2, <1>3, <1>4, <1>6, <1>9
  <2>2. Cardinality(T) = Cardinality(S) + 1
    BY <1>2, <1>5, <2>1, FS_AddElement
  <2> QED
    BY <2>2
<1>7. ASSUME x # e
      PROVE  Cardinality(T) = Cardinality(S)
  <2>1. T = S
    BY <1>1, <1>2, <1>3, <1>7, <1>9
  <2> QED
    BY <2>1
<1> QED
  BY <1>5, <1>6, <1>7, <1>8 DEF IsOne, t

\* Those that hold an event, as a step of the request w changes them.
HoldersFollow(at, next, w, pc, e) ==
    /\ IsFiniteSet(Holders(next, pc, e))
    /\ Cardinality(Holders(at, pc, e)) \in Nat /\ Cardinality(Holders(next, pc, e)) \in Nat
    /\ Cardinality(Holders(next, pc, e)) + Holds(at[w], pc, e)
         = Cardinality(Holders(at, pc, e)) + Holds(next[w], pc, e)

LEMMA HoldingChanges ==
  ASSUME NEW at, NEW next, NEW w \in Workers, \A v \in Workers \ {w} : next[v] = at[v],
         NEW pc, NEW e, IsFiniteSet(Holders(at, pc, e))
  PROVE  HoldersFollow(at, next, w, pc, e)
<1> DEFINE H == Holders(at, pc, e)
           G == H \ {w}
           J == {v \in Workers : next[v].pc = pc /\ next[v].event = e}
<1>1. Holders(next, pc, e) = J
  BY DEF Holders
<1>3. w \in H <=> at[w].pc = pc /\ at[w].event = e
  BY DEF Holders
<1>4. J = IF next[w].pc = pc /\ next[w].event = e THEN G \cup {w} ELSE G
  BY DEF Holders
<1> HIDE DEF H, J
<1>5. /\ IsFiniteSet(H) /\ Cardinality(H) \in Nat /\ IsFiniteSet(G) /\ Cardinality(G) \in Nat
      /\ Cardinality(G) = IF w \in H THEN Cardinality(H) - 1 ELSE Cardinality(H)
  BY FS_CardinalityType, FS_RemoveElement DEF H
<1>6. w \notin G
  OBVIOUS
<1> HIDE DEF G
<1>7. /\ IsFiniteSet(G \cup {w}) /\ Cardinality(G \cup {w}) = Cardinality(G) + 1
  BY <1>5, <1>6, FS_AddElement
<1>8. Cardinality(G) + Holds(at[w], pc, e) = Cardinality(H)
  BY <1>3, <1>5 DEF Holds
<1>9. /\ IsFiniteSet(J) /\ Cardinality(J) \in Nat
      /\ Cardinality(J) = Cardinality(G) + Holds(next[w], pc, e)
  BY <1>4, <1>5, <1>7 DEF Holds
<1>10. Holds(at[w], pc, e) \in Nat /\ Holds(next[w], pc, e) \in Nat
  BY DEF Holds
<1> QED
  BY <1>1, <1>5, <1>8, <1>9, <1>10 DEF H, HoldersFollow

\* A step of a request that neither holds nor gets an event to tell of.
LEMMA QuietStepCounts ==
  ASSUME TypeOK, CountsInv, NEW w \in Workers, NEW r,
         worker' = [worker EXCEPT ![w] = r],
         worker[w].pc \notin {"emit", "audit"}, r.pc \notin {"emit", "audit"},
         UNCHANGED <<outbox, audit, committed, cut>>
  PROVE  CountsInv'
<1>1. worker'[w] = r /\ \A v \in Workers \ {w} : worker'[v] = worker[v]
  BY DEF TypeOK
<1>2. \A pc \in {"emit", "audit"} : \A e : Holders(worker', pc, e) = Holders(worker, pc, e)
  BY <1>1 DEF Holders
<1> QED
  BY <1>2 DEF CountsInv, CountsOK

\* The first half of a handler holds nothing to tell of.
LEMMA BeginStarts ==
  ASSUME NEW w \in Workers, Begin(w)
  PROVE  \E r : r.pc \in {"commit", "bulk"} /\ Start(w, r)
<1>1. \A pc, i, d, e, channels, bulk : Request(pc, i, d, e, channels, bulk).pc = pc
  BY DEF Request
<1>2. ASSUME NEW i, NEW d, NEW e, NEW channels, NEW bulk,
             Start(w, Request("commit", i, d, e, channels, bulk))
      PROVE  \E r : r.pc \in {"commit", "bulk"} /\ Start(w, r)
  BY <1>1, <1>2
<1>3. ASSUME NEW i \in Incidents, Create(w, i)
      PROVE  \E r : r.pc \in {"commit", "bulk"} /\ Start(w, r)
  BY <1>2, <1>3 DEF Create
<1>4. ASSUME NEW i \in Incidents, NEW target, NEW expected, Transition(w, i, target, expected)
      PROVE  \E r : r.pc \in {"commit", "bulk"} /\ Start(w, r)
  BY <1>2, <1>4 DEF Transition, ToTransition
<1>5. ASSUME NEW i \in Incidents, NEW d, Update(w, i, d)
      PROVE  \E r : r.pc \in {"commit", "bulk"} /\ Start(w, r)
  BY <1>2, <1>5 DEF Update
<1>6. ASSUME NEW i \in Incidents,
             \/ \E a \in Assignees : Assign(w, i, a)
             \/ AddNote(w, i)
             \/ \E x \in Remediations : LinkRemediation(w, i, x)
      PROVE  \E r : r.pc \in {"commit", "bulk"} /\ Start(w, r)
  BY <1>5, <1>6 DEF Assign, AddNote, LinkRemediation
<1>7. ASSUME NEW i \in Incidents, Escalate(w, i)
      PROVE  \E r : r.pc \in {"commit", "bulk"} /\ Start(w, r)
  <2>1. PICK step : LET d == Escalated(rows[i], step.tier) IN
          \/ Update(w, i, d)
          \/ \E channels : Start(w, [Request("commit", i, d, NoEvent, channels, NoBulk)
                                       EXCEPT !.paging = TRUE])
    BY <1>7 DEF Escalate
  <2> DEFINE d == Escalated(rows[i], step.tier)
  <2>2. ASSUME NEW channels
        PROVE  [Request("commit", i, d, NoEvent, channels, NoBulk) EXCEPT !.paging = TRUE].pc
                 = "commit"
    BY DEF Request
  <2> HIDE DEF d
  <2>3. CASE Update(w, i, d)
    BY <1>5, <2>3
  <2>4. CASE \E channels : Start(w, [Request("commit", i, d, NoEvent, channels, NoBulk)
                                       EXCEPT !.paging = TRUE])
    <3>1. PICK channels : Start(w, [Request("commit", i, d, NoEvent, channels, NoBulk)
                                      EXCEPT !.paging = TRUE])
      BY <2>4
    <3> DEFINE q == [Request("commit", i, d, NoEvent, channels, NoBulk) EXCEPT !.paging = TRUE]
    <3>2. q.pc = "commit" /\ Start(w, q)
      BY <2>2, <3>1
    <3> HIDE DEF q
    <3> QED
      BY <3>2
  <2> QED
    BY <2>1, <2>3, <2>4 DEF d
<1>8. ASSUME NEW ids, NEW target, BulkTransition(w, ids, target)
      PROVE  \E r : r.pc \in {"commit", "bulk"} /\ Start(w, r)
  BY <1>1, <1>8 DEF BulkTransition
<1> QED
  BY <1>3, <1>4, <1>6, <1>7, <1>8 DEF Begin

\* A request that is over, or goes on with its next id.
LEMMA FinishedHoldsNothing ==
  ASSUME TypeOK, NEW w \in Workers, Busy(w)
  PROVE  \E r : Finished(w) = [worker EXCEPT ![w] = r] /\ r.pc \in {"idle", "bulk"}
<1> DEFINE r == IF worker[w].bulk.ids = << >> THEN Idle ELSE [worker[w] EXCEPT !.pc = "bulk"]
<1>1. [worker[w] EXCEPT !.pc = "bulk"].pc = "bulk" /\ Idle.pc = "idle"
  BY BusyHasRequest DEF Requests, Idle
<1>2. Finished(w) = [worker EXCEPT ![w] = r]
  BY DEF Finished, TypeOK
<1>3. r.pc \in {"idle", "bulk"}
  BY <1>1
<1> HIDE DEF r
<1> QED
  BY <1>2, <1>3

\* A document is written: if it changed the state, its event is now held.
LEMMA CommitCounts ==
  ASSUME IInv, CountsInv, NEW w \in Workers, Commit(w)
  PROVE  CountsInv'
<1>1. /\ TypeOK /\ worker[w].pc = "commit" /\ Busy(w)
      /\ UNCHANGED <<outbox, audit, cut>>
  BY DEF Commit, IInv, At, Busy
<1>2. worker[w] \in Requests
  BY <1>1, BusyHasRequest
<1>3. CASE worker[w].event = NoEvent
  <2>1. \E r : worker' = [worker EXCEPT ![w] = r] /\ r.pc \notin {"emit", "audit"}
    <3>1. CASE worker[w].paging
      <4>1. worker' = [worker EXCEPT ![w] = [worker[w] EXCEPT !.pc = "page"]]
        BY <1>1, <1>3, <3>1 DEF Commit, Goto, TypeOK
      <4>2. [worker[w] EXCEPT !.pc = "page"].pc = "page"
        BY <1>2 DEF Requests
      <4> QED
        BY <4>1, <4>2
    <3>2. CASE ~ worker[w].paging
      BY <1>1, <1>3, <3>2, FinishedHoldsNothing DEF Commit
    <3> QED
      BY <3>1, <3>2
  <2>2. committed' = committed
    BY <1>3 DEF Commit
  <2> QED
    BY <1>1, <2>1, <2>2, QuietStepCounts
<1>4. CASE worker[w].event # NoEvent
  <2> DEFINE x == worker[w].event
             r == [worker[w] EXCEPT !.pc = "emit"]
  <2>1. x \in Events /\ r.pc = "emit" /\ r.event = x
    BY <1>2, <1>4 DEF Requests
  <2>2. /\ worker' = [worker EXCEPT ![w] = r] /\ committed' = Append(committed, x)
    BY <1>4 DEF Commit, Goto
  <2>3. /\ worker \in [Workers -> Requests \cup {Idle}] /\ committed \in Seq(Events)
        /\ outbox \in Seq(Events)
    BY <1>1 DEF TypeOK
  <2> HIDE DEF r, x
  <2> SUFFICES ASSUME NEW e \in Events
               PROVE  CountsOK(e)'
    BY DEF CountsInv
  <2>4. CountsOK(e)
    BY DEF CountsInv
  <2>others. worker'[w] = r /\ \A v \in Workers \ {w} : worker'[v] = worker[v]
    BY <2>2, <2>3
  <2>5. /\ IsFiniteSet(Holders(worker', "emit", e))
        /\ Cardinality(Holders(worker, "emit", e)) \in Nat /\ Cardinality(Holders(worker', "emit", e)) \in Nat
        /\ Cardinality(Holders(worker', "emit", e)) = Cardinality(Holders(worker, "emit", e)) + IsOne(x, e)
    <3>1. /\ IsFiniteSet(Holders(worker', "emit", e))
          /\ Cardinality(Holders(worker, "emit", e)) \in Nat /\ Cardinality(Holders(worker', "emit", e)) \in Nat
          /\ Cardinality(Holders(worker', "emit", e)) + Holds(worker[w], "emit", e)
               = Cardinality(Holders(worker, "emit", e)) + Holds(r, "emit", e)
      <4>1. IsFiniteSet(Holders(worker, "emit", e))
        BY <2>4 DEF CountsOK
      <4>2. HoldersFollow(worker, worker', w, "emit", e)
        BY <2>others, <4>1, HoldingChanges
      <4> QED
        BY <2>others, <4>2 DEF HoldersFollow
    <3>2. Holds(worker[w], "emit", e) = 0
      BY <1>1 DEF Holds
    <3>3. Holds(r, "emit", e) = IsOne(x, e)
      BY <2>1 DEF Holds, IsOne
    <3> QED
      BY <3>1, <3>2, <3>3
  <2>6. Holders(worker', "audit", e) = Holders(worker, "audit", e)
    BY <1>1, <2>1, <2>others DEF Holders
  <2>7. /\ Count(committed', e) = Count(committed, e) + IsOne(x, e)
        /\ Count(committed, e) \in Nat /\ Count(outbox, e) \in Nat /\ IsOne(x, e) \in Nat
    <3>1. Count(committed', e) = Count(committed, e) + IsOne(x, e)
      BY <2>1, <2>2, <2>3, CountAppend
    <3>2. Count(committed, e) \in Nat /\ Count(outbox, e) \in Nat
      BY <2>3, CountIsNat
    <3>3. IsOne(x, e) \in Nat
      BY DEF IsOne
    <3> QED
      BY <3>1, <3>2, <3>3
  <2>8. outbox' = outbox /\ audit' = audit /\ cut' = cut
    BY <1>1
  <2>10. /\ Count(outbox, e) + Cardinality(Holders(worker', "emit", e)) <= Count(committed', e)
         /\ "event" \notin cut =>
               Count(outbox, e) + Cardinality(Holders(worker', "emit", e)) = Count(committed', e)
    BY <2>4, <2>5, <2>7 DEF CountsOK
  <2> QED
    BY <2>4, <2>5, <2>6, <2>8, <2>10 DEF CountsOK
<1> QED
  BY <1>3, <1>4

\* An event is emitted: it is in the outbox, and its audit record is owed.
LEMMA EmitCounts ==
  ASSUME IInv, CountsInv, NEW w \in Workers, Emit(w)
  PROVE  CountsInv'
<1> DEFINE x == worker[w].event
           r == [worker[w] EXCEPT !.pc = "audit"]
<1>1. /\ TypeOK /\ worker[w].pc = "emit" /\ Busy(w) /\ GoodRequest(worker[w])
      /\ UNCHANGED <<audit, committed, cut>>
  BY DEF Emit, IInv, At, Busy
<1>2. worker[w] \in Requests
  BY <1>1, BusyHasRequest
<1>3. x \in Events /\ r.pc = "audit" /\ r.event = x
  BY <1>1, <1>2 DEF Requests, GoodRequest, HoldsGoodEvent
<1>4. worker' = [worker EXCEPT ![w] = r] /\ outbox' = Append(outbox, x)
  BY DEF Emit, Goto
<1>5. /\ worker \in [Workers -> Requests \cup {Idle}] /\ committed \in Seq(Events)
      /\ outbox \in Seq(Events) /\ audit \in Seq(Events)
  BY <1>1 DEF TypeOK
<1>6. worker[w].pc = "emit" /\ worker[w].event = x
  BY <1>1
<1> HIDE DEF r, x
<1>7. worker'[w] = r /\ \A v \in Workers \ {w} : worker'[v] = worker[v]
  BY <1>4, <1>5
<1> SUFFICES ASSUME NEW e \in Events
             PROVE  CountsOK(e)'
  BY DEF CountsInv
<1> DEFINE before(pc) == Cardinality(Holders(worker, pc, e))
           after(pc)  == Cardinality(Holders(worker', pc, e))
<1>8. CountsOK(e) /\ IsFiniteSet(Holders(worker, "emit", e)) /\ IsFiniteSet(Holders(worker, "audit", e))
  BY DEF CountsInv, CountsOK
<1>9. /\ IsFiniteSet(Holders(worker', "emit", e)) /\ before("emit") \in Nat /\ after("emit") \in Nat
      /\ after("emit") + Holds(worker[w], "emit", e) = before("emit") + Holds(worker'[w], "emit", e)
  <2>1. IsFiniteSet(Holders(worker, "emit", e))
    BY <1>8
  <2>2. HoldersFollow(worker, worker', w, "emit", e)
    BY <1>7, <2>1, HoldingChanges
  <2> QED
    BY <2>2 DEF HoldersFollow
<1>10. /\ IsFiniteSet(Holders(worker', "audit", e)) /\ before("audit") \in Nat /\ after("audit") \in Nat
       /\ after("audit") + Holds(worker[w], "audit", e) = before("audit") + Holds(worker'[w], "audit", e)
  <2>1. IsFiniteSet(Holders(worker, "audit", e))
    BY <1>8
  <2>2. HoldersFollow(worker, worker', w, "audit", e)
    BY <1>7, <2>1, HoldingChanges
  <2> QED
    BY <2>2 DEF HoldersFollow
<1>11. /\ Holds(worker[w], "emit", e) = IsOne(x, e) /\ Holds(worker'[w], "emit", e) = 0
       /\ Holds(worker[w], "audit", e) = 0 /\ Holds(worker'[w], "audit", e) = IsOne(x, e)
       /\ IsOne(x, e) \in Nat
  BY <1>3, <1>6, <1>7 DEF Holds, IsOne
<1>12. Count(outbox', e) = Count(outbox, e) + IsOne(x, e)
  BY <1>3, <1>4, <1>5, CountAppend
<1>13. Count(outbox, e) \in Nat /\ Count(committed, e) \in Nat /\ Count(audit, e) \in Nat
  BY <1>5, CountIsNat
<1> HIDE DEF before, after
<1>14. /\ Count(outbox, e) + before("emit") <= Count(committed, e)
       /\ "event" \notin cut => Count(outbox, e) + before("emit") = Count(committed, e)
       /\ Count(audit, e) + before("audit") <= Count(outbox, e)
       /\ "rest" \notin cut => Count(audit, e) + before("audit") = Count(outbox, e)
  BY <1>8 DEF CountsOK, before
<1>15. /\ Count(outbox', e) + after("emit") <= Count(committed, e)
       /\ "event" \notin cut => Count(outbox', e) + after("emit") = Count(committed, e)
       /\ Count(audit, e) + after("audit") <= Count(outbox', e)
       /\ "rest" \notin cut => Count(audit, e) + after("audit") = Count(outbox', e)
  BY <1>9, <1>10, <1>11, <1>12, <1>13, <1>14
<1> QED
  BY <1>1, <1>9, <1>10, <1>15 DEF CountsOK, after

\* The audit record is written.
LEMMA AuditCounts ==
  ASSUME IInv, CountsInv, NEW w \in Workers, Audit(w)
  PROVE  CountsInv'
<1> DEFINE x == worker[w].event
<1>1. /\ TypeOK /\ worker[w].pc = "audit" /\ Busy(w) /\ GoodRequest(worker[w])
      /\ UNCHANGED <<outbox, committed, cut>>
  BY DEF Audit, IInv, At, Busy
<1>2. x \in Events
  BY <1>1 DEF GoodRequest, HoldsGoodEvent
<1>3. PICK r : worker' = [worker EXCEPT ![w] = r] /\ r.pc \in {"idle", "bulk"}
  BY <1>1, FinishedHoldsNothing DEF Audit
<1>4. audit' = Append(audit, x)
  BY DEF Audit
<1>5. /\ worker \in [Workers -> Requests \cup {Idle}] /\ committed \in Seq(Events)
      /\ outbox \in Seq(Events) /\ audit \in Seq(Events)
  BY <1>1 DEF TypeOK
<1>6. worker[w].pc = "audit" /\ worker[w].event = x
  BY <1>1
<1> HIDE DEF x
<1>7. worker'[w] = r /\ \A v \in Workers \ {w} : worker'[v] = worker[v]
  BY <1>3, <1>5
<1> SUFFICES ASSUME NEW e \in Events
             PROVE  CountsOK(e)'
  BY DEF CountsInv
<1> DEFINE before == Cardinality(Holders(worker, "audit", e))
           after  == Cardinality(Holders(worker', "audit", e))
<1>8. CountsOK(e) /\ IsFiniteSet(Holders(worker, "audit", e))
  BY DEF CountsInv, CountsOK
<1>9. Holders(worker', "emit", e) = Holders(worker, "emit", e)
  BY <1>3, <1>6, <1>7 DEF Holders
<1>10. /\ IsFiniteSet(Holders(worker', "audit", e)) /\ before \in Nat /\ after \in Nat
       /\ after + Holds(worker[w], "audit", e) = before + Holds(worker'[w], "audit", e)
  <2>1. IsFiniteSet(Holders(worker, "audit", e))
    BY <1>8
  <2>2. HoldersFollow(worker, worker', w, "audit", e)
    BY <1>7, <2>1, HoldingChanges
  <2> QED
    BY <2>2 DEF HoldersFollow
<1>11. /\ Holds(worker[w], "audit", e) = IsOne(x, e) /\ Holds(worker'[w], "audit", e) = 0
       /\ IsOne(x, e) \in Nat
  BY <1>3, <1>6, <1>7 DEF Holds, IsOne
<1>12. Count(audit', e) = Count(audit, e) + IsOne(x, e)
  BY <1>2, <1>4, <1>5, CountAppend
<1>13. Count(outbox, e) \in Nat /\ Count(audit, e) \in Nat
  BY <1>5, CountIsNat
<1> HIDE DEF before, after
<1>14. /\ Count(audit, e) + before <= Count(outbox, e)
       /\ "rest" \notin cut => Count(audit, e) + before = Count(outbox, e)
  BY <1>8 DEF CountsOK, before
<1>15. /\ Count(audit', e) + after <= Count(outbox, e)
       /\ "rest" \notin cut => Count(audit', e) + after = Count(outbox, e)
  BY <1>10, <1>11, <1>12, <1>13, <1>14
<1> QED
  BY <1>1, <1>8, <1>9, <1>10, <1>15 DEF CountsOK, after

\* A request is cut off: what it held is in no table, or not yet.
LEMMA CrashCounts ==
  ASSUME TypeOK, CountsInv, NEW w \in Workers, Crash(w)
  PROVE  CountsInv'
<1>1. worker' = [worker EXCEPT ![w] = Idle] /\ UNCHANGED <<outbox, audit, committed>>
  BY DEF Crash
<1>2. /\ worker \in [Workers -> Requests \cup {Idle}] /\ committed \in Seq(Events)
      /\ outbox \in Seq(Events) /\ audit \in Seq(Events)
  BY DEF TypeOK
<1>3. worker'[w] = Idle /\ \A v \in Workers \ {w} : worker'[v] = worker[v]
  BY <1>1, <1>2
<1>4. /\ cut \subseteq cut'
      /\ worker[w].pc = "emit" => "event" \in cut'
      /\ worker[w].pc = "audit" => "rest" \in cut'
  BY DEF Crash, At
<1> SUFFICES ASSUME NEW e \in Events
             PROVE  CountsOK(e)'
  BY DEF CountsInv
<1>5. /\ CountsOK(e) /\ IsFiniteSet(Holders(worker, "emit", e))
      /\ IsFiniteSet(Holders(worker, "audit", e))
  BY DEF CountsInv, CountsOK
<1>6. ASSUME NEW pc \in {"emit", "audit"}
      PROVE  /\ IsFiniteSet(Holders(worker', pc, e))
             /\ Cardinality(Holders(worker, pc, e)) \in Nat /\ Cardinality(Holders(worker', pc, e)) \in Nat
             /\ Cardinality(Holders(worker', pc, e)) <= Cardinality(Holders(worker, pc, e))
             /\ worker[w].pc # pc => Holders(worker', pc, e) = Holders(worker, pc, e)
  <2>1. Holders(worker', pc, e) = Holders(worker, pc, e) \ {w}
    BY <1>3 DEF Holders, Idle
  <2>2. w \in Holders(worker, pc, e) => worker[w].pc = pc
    BY DEF Holders
  <2>3. Holders(worker, pc, e) \ {w} \in SUBSET Holders(worker, pc, e)
    OBVIOUS
  <2>4. IsFiniteSet(Holders(worker, pc, e))
    BY <1>5
  <2>5. worker[w].pc # pc => Holders(worker', pc, e) = Holders(worker, pc, e)
    BY <2>1, <2>2
  <2> QED
    BY <2>1, <2>3, <2>4, <2>5, FS_Subset, FS_CardinalityType
<1>7. Count(outbox, e) \in Nat /\ Count(committed, e) \in Nat /\ Count(audit, e) \in Nat
  BY <1>2, CountIsNat
<1>8. /\ Count(outbox, e) + Cardinality(Holders(worker', "emit", e)) <= Count(committed, e)
      /\ Count(audit, e) + Cardinality(Holders(worker', "audit", e)) <= Count(outbox, e)
  BY <1>5, <1>6, <1>7 DEF CountsOK
<1>9. /\ "event" \notin cut' =>
            Count(outbox, e) + Cardinality(Holders(worker', "emit", e)) = Count(committed, e)
      /\ "rest" \notin cut' =>
            Count(audit, e) + Cardinality(Holders(worker', "audit", e)) = Count(outbox, e)
  BY <1>4, <1>5, <1>6 DEF CountsOK
<1> QED
  BY <1>1, <1>6, <1>8, <1>9 DEF CountsOK

LEMMA CountsInductive == Spec => []CountsInv
<1>1. Init => CountsInv
  <2> SUFFICES ASSUME Init, NEW e \in Events
               PROVE  CountsOK(e)
    BY DEF CountsInv
  <2>1. Holders(worker, "emit", e) = {} /\ Holders(worker, "audit", e) = {}
    BY DEF Init, Holders, Idle
  <2>2. Count(outbox, e) = 0 /\ Count(audit, e) = 0 /\ Count(committed, e) = 0
    <3>1. {k \in DOMAIN << >> : << >>[k] = e} = {}
      OBVIOUS
    <3>2. Count(<< >>, e) = 0
      BY <3>1, FS_EmptySet DEF Count
    <3> QED
      BY <3>2 DEF Init
  <2> QED
    BY <2>1, <2>2, FS_EmptySet DEF CountsOK
<1>2. ASSUME IInv, CountsInv, [Next]_vars
      PROVE  CountsInv'
  <2>1. TypeOK
    BY <1>2 DEF IInv
  <2>2. ASSUME NEW w \in Workers, Begin(w)
        PROVE  CountsInv'
    <3>1. PICK r : r.pc \in {"commit", "bulk"} /\ Start(w, r)
      BY <2>2, BeginStarts
    <3>2. /\ worker' = [worker EXCEPT ![w] = r] /\ worker[w].pc = "idle"
          /\ UNCHANGED <<outbox, audit, committed, cut>>
      BY <3>1 DEF Start, Busy
    <3> QED
      BY <1>2, <2>1, <3>1, <3>2, QuietStepCounts
  <2>3. ASSUME NEW w \in Workers, BulkNext(w)
        PROVE  CountsInv'
    <3> DEFINE i == Head(worker[w].bulk.ids)
               target == worker[w].bulk.target
               rest == [ids |-> Tail(worker[w].bulk.ids), target |-> target]
               r == IF Exists(i) /\ MayTransition(rows[i], target, {})
                    THEN ToTransition(i, target, rest)
                    ELSE IF rest.ids = << >> THEN Idle
                    ELSE Request("bulk", i, NoDoc, NoEvent, << >>, rest)
    <3>1. /\ worker' = [worker EXCEPT ![w] = r] /\ worker[w].pc = "bulk"
          /\ UNCHANGED <<outbox, audit, committed, cut>>
      BY <2>3 DEF BulkNext, At
    <3>2. r.pc \in {"commit", "idle", "bulk"}
      BY DEF ToTransition, Request, Idle
    <3> HIDE DEF r
    <3> QED
      BY <1>2, <2>1, <3>1, <3>2, QuietStepCounts
  <2>4. ASSUME NEW w \in Workers, Notify(w) \/ MarkSent(w) \/ WritePages(w)
        PROVE  CountsInv'
    <3>1. /\ worker[w].pc \in {"page", "sent"} /\ Busy(w)
          /\ UNCHANGED <<outbox, audit, committed, cut>>
      BY <2>4 DEF Notify, MarkSent, WritePages, At, Busy
    <3>2. worker[w] \in Requests
      BY <2>1, <3>1, BusyHasRequest
    <3>3. \E r : worker' = [worker EXCEPT ![w] = r] /\ r.pc \notin {"emit", "audit"}
      <4>1. CASE Notify(w)
        <5> DEFINE r == [worker[w] EXCEPT !.pc = "sent", !.slot = Len(notifications) + 1]
        <5>1. worker' = [worker EXCEPT ![w] = r] /\ r.pc = "sent"
          BY <2>1, <3>2, <4>1 DEF Notify, Requests, TypeOK
        <5> HIDE DEF r
        <5> QED
          BY <5>1
      <4>2. CASE MarkSent(w)
        <5> DEFINE r == [worker[w] EXCEPT !.pc = "page", !.slot = 0,
                                          !.channels = Tail(@), !.doc = Paged(@)]
        <5>1. worker' = [worker EXCEPT ![w] = r] /\ r.pc = "page"
          BY <2>1, <3>2, <4>2 DEF MarkSent, Requests, TypeOK
        <5> HIDE DEF r
        <5> QED
          BY <5>1
      <4>3. CASE WritePages(w)
        BY <2>1, <3>1, <4>3, FinishedHoldsNothing DEF WritePages
      <4> QED
        BY <2>4, <4>1, <4>2, <4>3
    <3> QED
      BY <1>2, <2>1, <3>1, <3>3, QuietStepCounts
  <2>5. CASE Tick \/ UNCHANGED vars
    BY <1>2, <2>5 DEF Tick, vars, CountsInv, CountsOK
  <2> QED
    BY <1>2, <2>1, <2>2, <2>3, <2>4, <2>5, CommitCounts, EmitCounts, AuditCounts, CrashCounts
       DEF Next, Proceed
<1> QED
  BY <1>1, <1>2, ServiceInvariant, PTL DEF Spec

\* Of every event as many are in the outbox, or about to be, as of its change
\* were written, but for those cut off; and the audit trail never tells more
\* than the outbox: for any incidents, overlapping requests and cut-offs
\* (_emit after repo.update, _audit_record after _emit).
THEOREM ServiceEventsFollowCommits == Spec => []EventsFollowCommits
<1>1. IInv /\ CountsInv => EventsFollowCommits
  <2> SUFFICES ASSUME IInv, CountsInv
               PROVE  EventsFollowCommits
    OBVIOUS
  <2>1. committed \in Seq(Events) /\ audit \in Seq(Events) /\ outbox \in Seq(Events)
    BY DEF IInv, TypeOK
  <2>2. \A pc \in {"emit", "audit"} : \A e :
           Holding(pc, e) = Cardinality(Holders(worker, pc, e))
    BY DEF Holding, Holders, At
  <2>3. ASSUME NEW k \in DOMAIN audit
        PROVE  Count(audit, audit[k]) <= Count(outbox, audit[k])
    <3> DEFINE e == audit[k]
    <3>1. e \in Events
      BY <2>1, ElementIsInSet
    <3> HIDE DEF e
    <3>2. Cardinality(Holders(worker, "audit", e)) \in Nat
      BY <3>1, FS_CardinalityType DEF CountsInv, CountsOK
    <3>3. Count(audit, e) + Cardinality(Holders(worker, "audit", e)) <= Count(outbox, e)
      BY <3>1 DEF CountsInv, CountsOK
    <3>4. Count(audit, e) \in Nat /\ Count(outbox, e) \in Nat
      BY <2>1, CountIsNat
    <3>5. Count(audit, e) <= Count(outbox, e)
      BY <3>2, <3>3, <3>4
    <3> QED
      BY <3>5 DEF e
  <2>4. /\ \A k \in DOMAIN committed : CountsOK(committed[k])
        /\ \A k \in DOMAIN outbox : CountsOK(outbox[k])
    BY <2>1, ElementIsInSet DEF CountsInv
  <2>5. AuditFollowsOutbox
    BY <2>2, <2>3, <2>4 DEF AuditFollowsOutbox, CountsOK
  <2> QED
    BY <2>2, <2>4, <2>5 DEF EventsFollowCommits, CountsOK
<1> QED
  BY <1>1, ServiceInvariant, CountsInductive, PTL

\* What is in the outbox is in the audit trail, once no request is in flight.
NoLostRecords ==
    (\A w \in Workers : ~ Busy(w)) =>
        \A k \in DOMAIN outbox : Count(audit, outbox[k]) = Count(outbox, outbox[k])

LosesOnlyWhatIsCutOff ==
    /\ "event" \notin cut => NoLostEvents
    /\ "rest" \notin cut => NoLostRecords

\* Once no request is in flight, an event is missing from the outbox only if
\* one was cut off between its document and its event, and a record from the
\* audit trail only if one was cut off after that: for any incidents and
\* requests (transition and create write the document, emit and then record).
THEOREM ServiceLosesOnlyCutEvents == Spec => []LosesOnlyWhatIsCutOff
<1>1. ASSUME IInv, EventsFollowCommits, \A w \in Workers : ~ Busy(w)
      PROVE  /\ "event" \notin cut => \A k \in DOMAIN committed :
                   Count(outbox, committed[k]) = Count(committed, committed[k])
             /\ "rest" \notin cut => \A k \in DOMAIN outbox :
                   Count(audit, outbox[k]) = Count(outbox, outbox[k])
  <2>1. ASSUME NEW pc \in {"emit", "audit"}, NEW e
        PROVE  Holding(pc, e) = 0
    <3>1. {w \in Workers : At(w, pc) /\ worker[w].event = e} = {}
      BY <1>1 DEF At, Busy
    <3> QED
      BY <3>1, FS_EmptySet DEF Holding
  <2>2. \A e : Count(outbox, e) \in Nat /\ Count(audit, e) \in Nat
    BY <1>1, CountIsNat DEF IInv, TypeOK
  <2> QED
    BY <1>1, <2>1, <2>2 DEF EventsFollowCommits, AuditFollowsOutbox
<1>2. IInv /\ EventsFollowCommits => LosesOnlyWhatIsCutOff
  BY <1>1 DEF LosesOnlyWhatIsCutOff, NoLostEvents, NoLostRecords
<1> QED
  BY <1>2, ServiceInvariant, ServiceEventsFollowCommits, PTL

\* Where no request is cut off no event is lost (models/outbox.py).
THEOREM ServiceNoLostEvents ==
  ASSUME CanCrash = FALSE
  PROVE  Spec => []NoLostEvents
<1>1. Init => "event" \notin cut
  BY DEF Init
<1>2. ASSUME "event" \notin cut, [Next]_vars
      PROVE  ("event" \notin cut)'
  <2>1. ASSUME NEW w \in Workers, Begin(w)
        PROVE  cut' = cut
    <3>1. PICK r : Start(w, r)
      BY <2>1, BeginStarts
    <3> QED
      BY <3>1 DEF Start
  <2>2. ASSUME NEW w \in Workers, Proceed(w)
        PROVE  cut' = cut
    BY <2>2 DEF Proceed, BulkNext, Commit, Emit, Audit, Notify, MarkSent, WritePages
  <2>3. Tick \/ UNCHANGED vars => cut' = cut
    BY DEF Tick, vars
  <2>4. \A w \in Workers : ~ Crash(w)
    BY DEF Crash
  <2> QED
    BY <1>2, <2>1, <2>2, <2>3, <2>4 DEF Next
<1>3. LosesOnlyWhatIsCutOff => ("event" \notin cut => NoLostEvents)
  BY DEF LosesOnlyWhatIsCutOff
<1> QED
  BY <1>1, <1>2, <1>3, ServiceLosesOnlyCutEvents, PTL DEF Spec

-----------------------------------------------------------------------------
(***************************************************************************)
(* Pages of requests that do not overlap: what was paged is of a tier that *)
(* was written, a request that is about to page climbs to a higher one,    *)
(* and one that pages has not used the channels it has left.               *)
(***************************************************************************)
NoRepeats(s) == \A j, k \in DOMAIN s : s[j] = s[k] => j = k

\* No step and no engineer names a channel twice; of the names that are no
\* channel at all there may be one, and no "email" beside it.
DistinctChannels ==
    /\ \A p \in DOMAIN Policies : \A k \in DOMAIN Policies[p].steps :
          NoRepeats(ChannelsNamed(Policies[p].steps[k].channels))
    /\ \A k \in DOMAIN OnCall : NoRepeats(ChannelsNamed(OnCall[k].channels))

OneAtATime == \A v, w \in Workers : v = w

PagedIsWritten ==
    \A k \in DOMAIN notifications :
        /\ Exists(notifications[k].id)
        /\ notifications[k].tier <= rows[notifications[k].id].tier

Unused(i, tier, channel) ==
    \A k \in DOMAIN notifications :
        ~ (/\ notifications[k].id = i /\ notifications[k].tier = tier
           /\ notifications[k].channel = channel)

PagesOnce(r) ==
    /\ r.pc = "commit" /\ Exists(r.id) => rows[r.id].tier <= r.doc.tier
    /\ r.pc = "commit" /\ r.paging = TRUE => Exists(r.id) /\ rows[r.id].tier < r.doc.tier
    /\ r.pc \in {"commit", "page", "sent"} => NoRepeats(r.channels)
    /\ r.pc \in {"page", "sent"} => Exists(r.id) /\ rows[r.id].tier = r.doc.tier
    /\ r.pc = "page" => \A c \in 1 .. Len(r.channels) : Unused(r.id, r.doc.tier, r.channels[c])
    /\ r.pc = "sent" => \A c \in 2 .. Len(r.channels) : Unused(r.id, r.doc.tier, r.channels[c])

PagesInv ==
    /\ PagedIsWritten
    /\ PagedOncePerTier
    /\ \A w \in Workers : PagesOnce(worker[w])

\* The channels of an escalation are those of its step or of an engineer.
LEMMA ChannelsDiffer ==
  ASSUME DistinctChannels, NEW sev, NEW m, NEW t, NEW step \in Escalations(sev, m, t),
         NEW channels \in PageChannels(step)
  PROVE  NoRepeats(channels)
<1>0. PICK p \in PolicyFor(sev) : \E k \in StepFor(p, m) : step = Policies[p].steps[k]
  BY DEF Escalations, Due
<1>1. PICK k \in StepFor(p, m) : step = Policies[p].steps[k]
  BY <1>0
<1>2. p \in DOMAIN Policies /\ k \in DOMAIN Policies[p].steps
  BY DEF PolicyFor, StepFor, FirstMax
<1>3. NoRepeats(ChannelsNamed(step.channels))
  BY <1>1, <1>2 DEF DistinctChannels
<1>4. PICK eng \in OnCallFor(step.tier) :
        channels = ChannelsNamed(IF step.channels # << >> THEN step.channels ELSE eng.channels)
  BY DEF PageChannels
<1>5. PICK j \in DOMAIN OnCall : eng = OnCall[j]
  BY DEF OnCallFor
<1>6. NoRepeats(ChannelsNamed(eng.channels))
  BY <1>5 DEF DistinctChannels
<1> QED
  BY <1>3, <1>4, <1>6

\* A step of the only request that writes no document and pages nobody.
LEMMA OnlyRequestMoves ==
  ASSUME TypeOK, OneAtATime, PagesInv, NEW w \in Workers, NEW r,
         worker' = [worker EXCEPT ![w] = r], UNCHANGED <<rows, notifications>>, PagesOnce(r)
  PROVE  PagesInv'
<1>1. \A v \in Workers : worker'[v] = r
  BY DEF OneAtATime, TypeOK
<1>2. PagesOnce(r)'
  BY DEF PagesOnce, Exists, Unused
<1>3. \A v \in Workers : PagesOnce(worker[v])'
  BY <1>1, <1>2 DEF PagesOnce, Exists, Unused
<1> QED
  BY <1>3 DEF PagesInv, PagedIsWritten, PagedOncePerTier, Exists

\* A request that is not at a write or a page claims nothing.
LEMMA NoClaim ==
  ASSUME NEW r, r.pc \notin {"commit", "page", "sent"}
  PROVE  PagesOnce(r)
BY DEF PagesOnce

\* A request that pages nobody keeps the tier it read, or climbs.
LEMMA KeepsTier ==
  ASSUME NEW i, NEW d, NEW e, NEW bulk, Exists(i) => rows[i].tier <= d.tier
  PROVE  PagesOnce(Request("commit", i, d, e, << >>, bulk))
<1> DEFINE r == Request("commit", i, d, e, << >>, bulk)
<1>1. /\ r.pc = "commit" /\ r.id = i /\ r.doc = d /\ r.channels = << >> /\ r.paging = FALSE
  BY DEF Request
<1>2. NoRepeats(<< >>)
  BY DEF NoRepeats
<1> HIDE DEF r
<1>3. Exists(r.id) => rows[r.id].tier <= r.doc.tier
  BY <1>1
<1>4. NoRepeats(r.channels) /\ r.pc \notin {"page", "sent"} /\ r.paging # TRUE
  BY <1>1, <1>2
<1> QED
  BY <1>3, <1>4 DEF PagesOnce, r

\* The tiers of what the operations make of a document.
LEMMA TiersOfResults ==
  ASSUME NEW d \in Docs
  PROVE  /\ d.tier \in Nat
         /\ \A target : Transitioned(d, target).tier = d.tier
         /\ \A a : Assigned(d, a).tier = d.tier
         /\ Noted(d).tier = d.tier /\ Paged(d).tier = d.tier
         /\ \A r : Linked(d, r).tier = d.tier
         /\ \A t : Escalated(d, t).tier = t
BY DEF Docs, Tiers, Transitioned, Assigned, Noted, Paged, Linked, Escalated

LEMMA BeginPages ==
  ASSUME IInv, OneAtATime, DistinctChannels, PagesInv, NEW w \in Workers, Begin(w)
  PROVE  PagesInv'
<1>1. TypeOK /\ \A i \in Incidents : Exists(i) => rows[i] \in Docs
  BY ExistingRow DEF IInv
<1>2. ASSUME NEW r, Start(w, r), PagesOnce(r)
      PROVE  PagesInv'
  BY <1>1, <1>2, OnlyRequestMoves DEF Start
<1>3. ASSUME NEW i \in Incidents, NEW d, NEW e, NEW bulk, Exists(i) => rows[i].tier <= d.tier,
             Start(w, Request("commit", i, d, e, << >>, bulk))
      PROVE  PagesInv'
  BY <1>2, <1>3, KeepsTier
<1>4. ASSUME NEW i \in Incidents, Create(w, i)
      PROVE  PagesInv'
  BY <1>3, <1>4 DEF Create
<1>5. ASSUME NEW i \in Incidents, NEW target, NEW expected, Transition(w, i, target, expected)
      PROVE  PagesInv'
  <2> DEFINE d == Transitioned(rows[i], target)
  <2>1. Exists(i) /\ rows[i].tier \in Nat /\ d.tier = rows[i].tier
    BY <1>1, <1>5, TiersOfResults DEF Transition
  <2>2. Start(w, Request("commit", i, d, ChangedEvent(i, rows[i].state, target), << >>, NoBulk))
    BY <1>5 DEF Transition, ToTransition
  <2>3. rows[i].tier <= d.tier
    BY <2>1
  <2> HIDE DEF d
  <2> QED
    BY <1>3, <2>2, <2>3
<1>6. ASSUME NEW i \in Incidents, NEW d, Update(w, i, d), rows[i].tier <= d.tier
      PROVE  PagesInv'
  BY <1>3, <1>6 DEF Update
<1>7. ASSUME NEW i \in Incidents,
             \/ \E a \in Assignees : Assign(w, i, a)
             \/ AddNote(w, i)
             \/ \E x \in Remediations : LinkRemediation(w, i, x)
      PROVE  PagesInv'
  <2>1. Exists(i) /\ rows[i] \in Docs /\ rows[i].tier \in Nat
    BY <1>1, <1>7, TiersOfResults DEF Assign, AddNote, LinkRemediation
  <2>2. PICK d : Update(w, i, d) /\ d.tier = rows[i].tier
    BY <1>7, <2>1, TiersOfResults DEF Assign, AddNote, LinkRemediation
  <2> QED
    BY <1>6, <2>1, <2>2
<1>8. ASSUME NEW i \in Incidents, Escalate(w, i)
      PROVE  PagesInv'
  <2>1. Exists(i) /\ rows[i] \in Docs
    BY <1>1, <1>8 DEF Escalate
  <2>2. PICK step \in Escalations(Severity[i], age[i], rows[i].tier) :
          LET d == Escalated(rows[i], step.tier)
          IN  \/ /\ PageChannels(step) = {}
                 /\ Update(w, i, d)
              \/ \E channels \in PageChannels(step) :
                    Start(w, [Request("commit", i, d, NoEvent, channels, NoBulk)
                                EXCEPT !.paging = TRUE])
    BY <1>8 DEF Escalate
  <2> DEFINE d == Escalated(rows[i], step.tier)
  <2>3. rows[i].tier < d.tier /\ rows[i].tier \in Nat /\ d.tier \in Nat
    BY <2>1, EscalationsAreSteps, TiersOfResults DEF Tiers
  <2>4. CASE Update(w, i, d)
    <3>1. rows[i].tier <= d.tier
      BY <2>3
    <3> HIDE DEF d
    <3> QED
      BY <1>6, <2>4, <3>1
  <2>5. ASSUME NEW channels \in PageChannels(step),
               Start(w, [Request("commit", i, d, NoEvent, channels, NoBulk)
                           EXCEPT !.paging = TRUE])
        PROVE  PagesInv'
    <3> DEFINE r == [Request("commit", i, d, NoEvent, channels, NoBulk) EXCEPT !.paging = TRUE]
    <3>1. r.pc = "commit" /\ r.id = i /\ r.doc = d /\ r.channels = channels
      BY DEF Request
    <3>2. NoRepeats(channels)
      BY ChannelsDiffer
    <3>3. rows[i].tier <= d.tier
      BY <2>3
    <3>4. Start(w, r)
      BY <2>5
    <3> HIDE DEF r, d
    <3>5. PagesOnce(r)
      BY <2>1, <2>3, <3>1, <3>2, <3>3 DEF PagesOnce
    <3> QED
      BY <1>2, <3>4, <3>5
  <2> QED
    BY <2>2, <2>4, <2>5
<1>9. ASSUME NEW ids, NEW target, BulkTransition(w, ids, target)
      PROVE  PagesInv'
  <2> DEFINE r == Request("bulk", ids[1], NoDoc, NoEvent, << >>, [ids |-> ids, target |-> target])
  <2>1. Start(w, r) /\ r.pc = "bulk"
    BY <1>9 DEF BulkTransition, Request
  <2> HIDE DEF r
  <2> QED
    BY <1>2, <2>1, NoClaim
<1> QED
  BY <1>4, <1>5, <1>7, <1>8, <1>9 DEF Begin

LEMMA BulkNextPages ==
  ASSUME IInv, OneAtATime, PagesInv, NEW w \in Workers, BulkNext(w)
  PROVE  PagesInv'
<1> DEFINE i == Head(worker[w].bulk.ids)
           target == worker[w].bulk.target
           rest == [ids |-> Tail(worker[w].bulk.ids), target |-> target]
           d == Transitioned(rows[i], target)
           e == ChangedEvent(i, rows[i].state, target)
           next == Request("bulk", i, NoDoc, NoEvent, << >>, rest)
<1>1. TypeOK /\ worker[w].pc = "bulk" /\ Busy(w) /\ UNCHANGED <<rows, notifications>>
  BY DEF IInv, BulkNext, At, Busy
<1>2. i \in Incidents
  <2>1. worker[w] \in Requests /\ worker[w].bulk.ids # << >>
    BY <1>1, BusyHasRequest DEF IInv, GoodRequest, HoldsWork
  <2>2. worker[w].bulk.ids \in Seq(Incidents)
    BY <2>1 DEF Requests
  <2> QED
    BY <2>1, <2>2
<1>3. /\ next.pc = "bulk" /\ Idle.pc = "idle"
  BY DEF Request, Idle
<1>4. Exists(i) => rows[i].tier <= d.tier
  <2> SUFFICES ASSUME Exists(i)
               PROVE  rows[i].tier <= d.tier
    OBVIOUS
  <2>1. rows[i] \in Docs
    BY <1>2, ExistingRow
  <2> QED
    BY <2>1, TiersOfResults
<1>5. PICK r : /\ worker' = [worker EXCEPT ![w] = r]
               /\ r = Request("commit", i, d, e, << >>, rest) \/ r.pc \in {"idle", "bulk"}
  <2>1. worker' = [worker EXCEPT ![w] =
                     IF Exists(i) /\ MayTransition(rows[i], target, {})
                     THEN Request("commit", i, d, e, << >>, rest)
                     ELSE IF rest.ids = << >> THEN Idle ELSE next]
    BY DEF BulkNext, ToTransition
  <2> HIDE DEF d, e, rest, next, i, target
  <2> QED
    BY <1>3, <2>1
<1> HIDE DEF d, e, rest, next, i, target
<1>6. PagesOnce(r)
  BY <1>4, <1>5, KeepsTier, NoClaim
<1> QED
  BY <1>1, <1>5, <1>6, OnlyRequestMoves

\* The document is written: its tier does not fall, and a request that is going
\* to page has paged nobody of its tier.
LEMMA CommitPages ==
  ASSUME IInv, OneAtATime, PagesInv, NEW w \in Workers, Commit(w)
  PROVE  PagesInv'
<1>0. PICK i, d : i = worker[w].id /\ d = worker[w].doc
  OBVIOUS
<1>1. /\ TypeOK /\ worker[w].pc = "commit" /\ Busy(w) /\ PagesOnce(worker[w])
      /\ PagedIsWritten /\ PagedOncePerTier /\ GoodRequest(worker[w])
      /\ rows' = [rows EXCEPT ![i] = d] /\ notifications' = notifications
  BY <1>0 DEF IInv, Commit, At, Busy, Write, PagesInv
<1>2. worker[w] \in Requests /\ i \in Incidents /\ d \in Docs /\ d.tier \in Nat
  <2>1. worker[w] \in Requests /\ d \in Docs
    BY <1>0, <1>1, BusyHasRequest DEF GoodRequest, HoldsGoodDoc, HoldsDoc
  <2> QED
    BY <1>0, <2>1, TiersOfResults DEF Requests
<1>3. rows'[i] = d /\ \A j \in Incidents \ {i} : rows'[j] = rows[j]
  BY <1>1, <1>2 DEF TypeOK
<1>4. \A j \in Incidents : Exists(j) => rows[j].tier \in Nat
  BY ExistingRow, TiersOfResults
<1>5. Exists(i) => rows[i].tier <= d.tier
  BY <1>0, <1>1 DEF PagesOnce
<1>6. Exists(i)' /\ \A j \in Incidents : Exists(j) => Exists(j)'
  BY <1>2, <1>3, NoDocAssumption DEF Exists
<1>7. notifications \in Seq(Pages) /\ \A k \in DOMAIN notifications :
        notifications[k].id \in Incidents /\ notifications[k].tier \in Nat
  <2>1. notifications \in Seq(Pages)
    BY <1>1 DEF TypeOK
  <2>2. \A k \in DOMAIN notifications : notifications[k] \in Pages
    BY <2>1, ElementIsInSet
  <2> QED
    BY <2>1, <2>2 DEF Pages, Tiers
<1>8. PagedIsWritten'
  <2> SUFFICES ASSUME NEW k \in DOMAIN notifications
               PROVE  /\ Exists(notifications[k].id)'
                      /\ notifications[k].tier <= rows'[notifications[k].id].tier
    BY <1>1 DEF PagedIsWritten
  <2> DEFINE n == notifications[k]
  <2>1. n.id \in Incidents /\ n.tier \in Nat
    BY <1>7
  <2>2. Exists(n.id) /\ n.tier <= rows[n.id].tier
    BY <1>1 DEF PagedIsWritten
  <2>3. rows[n.id].tier \in Nat
    BY <1>4, <2>1, <2>2
  <2>4. Exists(n.id)'
    BY <1>1, <1>6, <2>1, <2>2 DEF Exists
  <2>5. n.tier <= rows'[n.id].tier
    <3>1. CASE n.id = i
      <4>1. rows[i].tier <= d.tier /\ rows'[n.id] = d
        BY <1>3, <1>5, <2>2, <3>1
      <4> HIDE DEF n
      <4> QED
        BY <1>2, <2>1, <2>2, <2>3, <3>1, <4>1
    <3>2. CASE n.id # i
      BY <1>3, <2>1, <2>2, <3>2
    <3> QED
      BY <3>1, <3>2
  <2> QED
    BY <1>1, <2>4, <2>5
<1>9. PagedOncePerTier'
  BY <1>1 DEF PagedOncePerTier
<1>10. ASSUME NEW v \in Workers
       PROVE  PagesOnce(worker[v])'
  <2>1. v = w
    BY DEF OneAtATime
  <2>2. CASE worker[w].event # NoEvent
    <3> DEFINE r == [worker[w] EXCEPT !.pc = "emit"]
    <3>1. worker' = [worker EXCEPT ![w] = r] /\ r.pc = "emit"
      BY <1>2, <2>2 DEF Commit, Goto, Requests
    <3>2. worker'[w].pc = "emit"
      BY <1>1, <3>1 DEF TypeOK
    <3> QED
      BY <2>1, <3>2 DEF PagesOnce
  <2>3. CASE worker[w].event = NoEvent /\ worker[w].paging # TRUE
    <3>1. worker' = Finished(w)
      BY <1>2, <2>3 DEF Commit, Requests
    <3>2. PICK r : worker' = [worker EXCEPT ![w] = r] /\ r.pc \in {"idle", "bulk"}
      BY <1>1, <3>1, FinishedHoldsNothing
    <3>3. worker'[w].pc \in {"idle", "bulk"}
      BY <1>1, <3>2 DEF TypeOK
    <3> QED
      BY <2>1, <3>3 DEF PagesOnce
  <2>4. CASE worker[w].event = NoEvent /\ worker[w].paging = TRUE
    <3>0. PICK s : s = worker[w].channels
      OBVIOUS
    <3> DEFINE r == [worker[w] EXCEPT !.pc = "page"]
    <3>1. /\ worker' = [worker EXCEPT ![w] = r] /\ r.pc = "page"
          /\ r.id = i /\ r.doc = d /\ r.channels = s
      BY <1>0, <1>2, <2>4, <3>0 DEF Commit, Goto, Requests
    <3>2. worker'[w] = r
      BY <1>1, <3>1 DEF TypeOK
    <3>3. Exists(i) /\ rows[i].tier < d.tier /\ NoRepeats(s)
      BY <1>0, <1>1, <2>4, <3>0 DEF PagesOnce
    <3>4. ASSUME NEW k \in DOMAIN notifications, notifications[k].id = i
          PROVE  notifications[k].tier # d.tier
      <4>1. notifications[k].tier <= rows[i].tier /\ notifications[k].tier \in Nat
        BY <1>1, <1>7, <3>4 DEF PagedIsWritten
      <4>2. rows[i].tier \in Nat
        BY <1>2, <1>4, <3>3
      <4> QED
        BY <1>2, <3>3, <4>1, <4>2
    <3>5. \A channel : Unused(i, d.tier, channel)'
      BY <1>1, <3>4 DEF Unused
    <3> HIDE DEF r
    <3>6. /\ worker'[v].pc = "page" /\ worker'[v].id = i /\ worker'[v].doc = d
          /\ worker'[v].channels = s
      BY <2>1, <3>1, <3>2
    <3>7. NoRepeats(worker'[v].channels)
      BY <3>3, <3>6
    <3>8. Exists(worker[v].id)' /\ rows'[worker'[v].id].tier = worker'[v].doc.tier
      BY <1>3, <1>6, <3>6 DEF Exists
    <3>9. \A c \in 1 .. Len(worker'[v].channels) :
             Unused(worker[v].id, worker[v].doc.tier, worker[v].channels[c])'
      BY <3>5, <3>6 DEF Unused
    <3> QED
      BY <3>6, <3>7, <3>8, <3>9 DEF PagesOnce
  <2> QED
    BY <2>2, <2>3, <2>4
<1> QED
  BY <1>8, <1>9, <1>10 DEF PagesInv

\* One more page: nobody has had it, and it is used up.
LEMMA NotifyPages ==
  ASSUME IInv, OneAtATime, PagesInv, NEW w \in Workers, Notify(w)
  PROVE  PagesInv'
<1>0. PICK i, t, s, n : /\ i = worker[w].id /\ t = worker[w].doc.tier /\ s = worker[w].channels
                        /\ n = Page(i, t, Head(s), "QUEUED")
  OBVIOUS
<1>1. /\ TypeOK /\ worker[w].pc = "page" /\ Busy(w) /\ PagesOnce(worker[w])
      /\ PagedIsWritten /\ PagedOncePerTier /\ s # << >>
      /\ rows' = rows /\ notifications' = Append(notifications, n)
  BY <1>0 DEF IInv, Notify, At, Busy, PagesInv
<1>2. worker[w] \in Requests /\ s \in Seq(NotificationChannels) /\ i \in Incidents
  <2>1. worker[w] \in Requests
    BY <1>1, BusyHasRequest
  <2> QED
    BY <1>0, <2>1 DEF Requests
<1>3. Exists(i) /\ rows[i].tier = t /\ t \in Nat
  <2>1. Exists(i) /\ rows[i].tier = t
    BY <1>0, <1>1 DEF PagesOnce
  <2> QED
    BY <1>2, <2>1, ExistingRow, TiersOfResults
<1>4. NoRepeats(s) /\ \A c \in 1 .. Len(s) : Unused(i, t, s[c])
  BY <1>0, <1>1 DEF PagesOnce
<1>5. /\ Len(s) \in Nat /\ 1 \in 1 .. Len(s) /\ DOMAIN s = 1 .. Len(s) /\ Head(s) = s[1]
  BY <1>1, <1>2
<1>6. /\ notifications \in Seq(Pages) /\ Len(notifications) \in Nat
      /\ DOMAIN notifications = 1 .. Len(notifications)
      /\ DOMAIN notifications' = 1 .. Len(notifications) + 1
      /\ \A k \in 1 .. Len(notifications) : notifications'[k] = notifications[k]
      /\ notifications'[Len(notifications) + 1] = n
  <2>1. notifications \in Seq(Pages)
    BY <1>1 DEF TypeOK
  <2> QED
    BY <1>1, <2>1
<1>7. n.id = i /\ n.tier = t /\ n.channel = Head(s)
  BY <1>0 DEF Page
<1> DEFINE N == Len(notifications) + 1
<1>8. \A k \in DOMAIN notifications' : k \in DOMAIN notifications \/ k = N
  BY <1>6
<1>9. PagedIsWritten'
  <2> SUFFICES ASSUME NEW k \in DOMAIN notifications'
               PROVE  /\ rows[notifications'[k].id] # NoDoc
                      /\ notifications'[k].tier <= rows[notifications'[k].id].tier
    BY <1>1 DEF PagedIsWritten, Exists
  <2>1. CASE k \in DOMAIN notifications
    BY <1>1, <1>6, <2>1 DEF PagedIsWritten, Exists
  <2>2. CASE k = N
    BY <1>3, <1>6, <1>7, <2>2 DEF Exists
  <2> QED
    BY <1>8, <2>1, <2>2
<1>10. Unused(i, t, Head(s))
  BY <1>4, <1>5
<1>11. PagedOncePerTier'
  <2> SUFFICES ASSUME NEW j \in DOMAIN notifications', NEW k \in DOMAIN notifications',
                      notifications'[k].id = notifications'[j].id,
                      notifications'[k].tier = notifications'[j].tier,
                      notifications'[k].channel = notifications'[j].channel
               PROVE  k = j
    BY DEF PagedOncePerTier
  <2>1. CASE j \in DOMAIN notifications /\ k \in DOMAIN notifications
    BY <1>1, <1>6, <2>1 DEF PagedOncePerTier
  <2>2. CASE j = N /\ k \in DOMAIN notifications
    BY <1>6, <1>7, <1>10, <2>2 DEF Unused
  <2>3. CASE j \in DOMAIN notifications /\ k = N
    BY <1>6, <1>7, <1>10, <2>3 DEF Unused
  <2> QED
    BY <1>8, <2>1, <2>2, <2>3
<1>12. ASSUME NEW v \in Workers
       PROVE  PagesOnce(worker[v])'
  <2> DEFINE r == [worker[w] EXCEPT !.pc = "sent", !.slot = N]
  <2>1. /\ worker' = [worker EXCEPT ![w] = r]
        /\ r.pc = "sent" /\ r.id = i /\ r.doc.tier = t /\ r.channels = s
    BY <1>0, <1>2 DEF Notify, Requests
  <2>2. v = w /\ worker'[w] = r
    BY <1>1, <2>1 DEF OneAtATime, TypeOK
  <2> HIDE DEF r
  <2>3. /\ worker'[v].pc = "sent" /\ worker'[v].id = i /\ worker'[v].doc.tier = t
        /\ worker'[v].channels = s
    BY <2>1, <2>2
  <2>4. \A c \in 2 .. Len(s) : Unused(i, t, s[c])'
    <3> SUFFICES ASSUME NEW c \in 2 .. Len(s), NEW k \in DOMAIN notifications',
                        notifications'[k].id = i, notifications'[k].tier = t,
                        notifications'[k].channel = s[c]
                 PROVE  FALSE
      BY DEF Unused
    <3>1. c \in 1 .. Len(s) /\ c # 1
      BY <1>5
    <3>2. CASE k \in DOMAIN notifications
      BY <1>4, <1>6, <3>1, <3>2 DEF Unused
    <3>3. CASE k = N
      BY <1>4, <1>5, <1>6, <1>7, <3>1, <3>3 DEF NoRepeats
    <3> QED
      BY <1>8, <3>2, <3>3
  <2>5. NoRepeats(worker'[v].channels)
    BY <1>4, <2>3
  <2>6. Exists(worker[v].id)' /\ rows'[worker'[v].id].tier = worker'[v].doc.tier
    BY <1>1, <1>3, <2>3 DEF Exists
  <2>7. \A c \in 2 .. Len(worker'[v].channels) :
           Unused(worker[v].id, worker[v].doc.tier, worker[v].channels[c])'
    BY <2>3, <2>4 DEF Unused
  <2> QED
    BY <2>3, <2>5, <2>6, <2>7 DEF PagesOnce
<1> QED
  BY <1>9, <1>11, <1>12 DEF PagesInv

\* The page is marked as sent; those left are the others of the list.
LEMMA MarkSentPages ==
  ASSUME IInv, OneAtATime, PagesInv, NEW w \in Workers, MarkSent(w)
  PROVE  PagesInv'
<1>0. PICK i, t, s : /\ i = worker[w].id /\ t = worker[w].doc.tier /\ s = worker[w].channels
  OBVIOUS
<1>1. /\ TypeOK /\ worker[w].pc = "sent" /\ Busy(w) /\ PagesOnce(worker[w])
      /\ PagedIsWritten /\ PagedOncePerTier /\ GoodRequest(worker[w])
      /\ rows' = rows
      /\ notifications' = [notifications EXCEPT ![worker[w].slot].status = "SENT"]
  BY DEF IInv, MarkSent, At, Busy, PagesInv
<1>2. worker[w] \in Requests /\ s \in Seq(NotificationChannels) /\ s # << >> /\ worker[w].doc \in Docs
  <2>1. worker[w] \in Requests /\ worker[w].doc \in Docs /\ worker[w].channels # << >>
    BY <1>1, BusyHasRequest DEF GoodRequest, HoldsGoodDoc, HoldsDoc, HoldsWork
  <2> QED
    BY <1>0, <2>1 DEF Requests
<1>3. Exists(i) /\ rows[i].tier = t /\ NoRepeats(s)
      /\ \A c \in 2 .. Len(s) : Unused(i, t, s[c])
  BY <1>0, <1>1 DEF PagesOnce
<1>4. /\ DOMAIN notifications' = DOMAIN notifications
      /\ \A k \in DOMAIN notifications :
            /\ notifications'[k].id = notifications[k].id
            /\ notifications'[k].tier = notifications[k].tier
            /\ notifications'[k].channel = notifications[k].channel
  <2>1. notifications \in Seq(Pages)
    BY <1>1 DEF TypeOK
  <2>2. \A k \in DOMAIN notifications : notifications[k] \in Pages
    BY <2>1, ElementIsInSet
  <2> QED
    BY <1>1, <2>1, <2>2 DEF Pages
<1>5. PagedIsWritten' /\ PagedOncePerTier'
  BY <1>1, <1>4 DEF PagedIsWritten, PagedOncePerTier, Exists
<1>6. ASSUME NEW v \in Workers
      PROVE  PagesOnce(worker[v])'
  <2> DEFINE d == Paged(worker[w].doc)
             r == [worker[w] EXCEPT !.pc = "page", !.slot = 0, !.channels = Tail(@), !.doc = d]
  <2>1. d.tier = t
    BY <1>0, <1>2, TiersOfResults
  <2>2. worker' = [worker EXCEPT ![w] = r]
    BY DEF MarkSent
  <2> HIDE DEF d
  <2>3. r.pc = "page" /\ r.id = i /\ r.doc = d /\ r.channels = Tail(s)
    BY <1>0, <1>2 DEF Requests
  <2>4. v = w /\ worker'[w] = r
    BY <1>1, <2>2 DEF OneAtATime, TypeOK
  <2> HIDE DEF r
  <2>5. /\ worker'[v].pc = "page" /\ worker'[v].id = i /\ worker'[v].doc.tier = t
        /\ worker'[v].channels = Tail(s)
    BY <2>1, <2>3, <2>4
  <2>6. /\ Len(s) \in Nat /\ Len(Tail(s)) = Len(s) - 1 /\ DOMAIN Tail(s) = 1 .. Len(s) - 1
        /\ \A c \in 1 .. Len(s) - 1 : Tail(s)[c] = s[c + 1] /\ c + 1 \in DOMAIN s /\ c + 1 \in 2 .. Len(s)
    BY <1>2
  <2>7. NoRepeats(Tail(s))
    BY <1>3, <2>6 DEF NoRepeats
  <2>8. \A c \in 1 .. Len(Tail(s)) : Unused(i, t, Tail(s)[c])'
    <3> SUFFICES ASSUME NEW c \in 1 .. Len(s) - 1
                 PROVE  Unused(i, t, s[c + 1])'
      BY <2>6
    <3>1. Unused(i, t, s[c + 1])
      BY <1>3, <2>6
    <3> QED
      BY <1>4, <3>1 DEF Unused
  <2>9. Exists(worker[v].id)' /\ rows'[worker'[v].id].tier = worker'[v].doc.tier
    BY <1>1, <1>3, <2>5 DEF Exists
  <2>10. \A c \in 1 .. Len(worker'[v].channels) :
            Unused(worker[v].id, worker[v].doc.tier, worker[v].channels[c])'
    BY <2>5, <2>8 DEF Unused
  <2>11. NoRepeats(worker'[v].channels)
    BY <2>5, <2>7
  <2> QED
    BY <2>5, <2>9, <2>10, <2>11 DEF PagesOnce
<1> QED
  BY <1>5, <1>6 DEF PagesInv

\* The last write leaves the tier that was written before the pages.
LEMMA WritePagesPages ==
  ASSUME IInv, OneAtATime, PagesInv, NEW w \in Workers, WritePages(w)
  PROVE  PagesInv'
<1>0. PICK i, d : i = worker[w].id /\ d = worker[w].doc
  OBVIOUS
<1>1. /\ TypeOK /\ worker[w].pc = "page" /\ Busy(w) /\ PagesOnce(worker[w])
      /\ PagedIsWritten /\ PagedOncePerTier /\ GoodRequest(worker[w])
      /\ rows' = [rows EXCEPT ![i] = d] /\ notifications' = notifications
      /\ worker' = Finished(w)
  BY <1>0 DEF IInv, WritePages, Write, At, Busy, PagesInv
<1>2. i \in Incidents /\ d \in Docs /\ rows[i].tier = d.tier
  <2>1. worker[w] \in Requests /\ d \in Docs
    BY <1>0, <1>1, BusyHasRequest DEF GoodRequest, HoldsGoodDoc, HoldsDoc
  <2> QED
    BY <1>0, <1>1, <2>1 DEF Requests, PagesOnce
<1>3. rows'[i] = d /\ \A j \in Incidents \ {i} : rows'[j] = rows[j]
  BY <1>1, <1>2 DEF TypeOK
<1>4. \A j \in Incidents : rows'[j].tier = rows[j].tier /\ (rows[j] # NoDoc => rows'[j] # NoDoc)
  BY <1>2, <1>3, NoDocAssumption
<1>5. \A k \in DOMAIN notifications : notifications[k].id \in Incidents
  <2>1. notifications \in Seq(Pages)
    BY <1>1 DEF TypeOK
  <2>2. \A k \in DOMAIN notifications : notifications[k] \in Pages
    BY <2>1, ElementIsInSet
  <2> QED
    BY <2>2 DEF Pages
<1>6. PagedIsWritten' /\ PagedOncePerTier'
  BY <1>1, <1>4, <1>5 DEF PagedIsWritten, PagedOncePerTier, Exists
<1>7. PICK r : worker' = [worker EXCEPT ![w] = r] /\ r.pc \in {"idle", "bulk"}
  BY <1>1, FinishedHoldsNothing
<1>8. \A v \in Workers : worker'[v].pc \in {"idle", "bulk"}
  BY <1>1, <1>7 DEF OneAtATime, TypeOK
<1>9. \A v \in Workers : PagesOnce(worker[v])'
  BY <1>8 DEF PagesOnce
<1> QED
  BY <1>6, <1>9 DEF PagesInv

\* Nobody is paged twice for one tier on one channel as long as requests do not
\* overlap, whatever escalations are cut off and asked for again, if no list of
\* channels names one twice (evaluate_escalation writes the tier first).
THEOREM ServicePagedOncePerTier ==
  ASSUME OneAtATime, DistinctChannels
  PROVE  Spec => []PagedOncePerTier
<1>1. Init => PagesInv
  <2> SUFFICES ASSUME Init
               PROVE  PagesInv
    OBVIOUS
  <2>1. \A w \in Workers : worker[w].pc = "idle"
    BY DEF Init, Idle
  <2>2. \A w \in Workers : PagesOnce(worker[w])
    BY <2>1 DEF PagesOnce
  <2> QED
    BY <2>2 DEF Init, PagesInv, PagedIsWritten, PagedOncePerTier
<1>2. ASSUME IInv, PagesInv, [Next]_vars
      PROVE  PagesInv'
  <2>1. TypeOK
    BY <1>2 DEF IInv
  <2>2. ASSUME NEW w \in Workers, NEW r, worker' = [worker EXCEPT ![w] = r],
               r.pc \notin {"commit", "page", "sent"}, UNCHANGED <<rows, notifications>>
        PROVE  PagesInv'
    BY <1>2, <2>1, <2>2, NoClaim, OnlyRequestMoves
  <2>3. ASSUME NEW w \in Workers, Emit(w)
        PROVE  PagesInv'
    <3> DEFINE r == [worker[w] EXCEPT !.pc = "audit"]
    <3>1. worker[w] \in Requests
      BY <2>1, <2>3, BusyHasRequest DEF Emit, At, Busy
    <3>2. worker' = [worker EXCEPT ![w] = r] /\ r.pc = "audit" /\ UNCHANGED <<rows, notifications>>
      BY <2>3, <3>1 DEF Emit, Goto, Requests
    <3> HIDE DEF r
    <3> QED
      BY <2>2, <3>2
  <2>4. ASSUME NEW w \in Workers, Audit(w)
        PROVE  PagesInv'
    <3>1. Busy(w) /\ worker' = Finished(w) /\ UNCHANGED <<rows, notifications>>
      BY <2>4 DEF Audit, At, Busy
    <3>2. PICK r : worker' = [worker EXCEPT ![w] = r] /\ r.pc \in {"idle", "bulk"}
      BY <2>1, <3>1, FinishedHoldsNothing
    <3> QED
      BY <2>2, <3>1, <3>2
  <2>5. ASSUME NEW w \in Workers, Crash(w)
        PROVE  PagesInv'
    BY <2>2, <2>5 DEF Crash, Idle
  <2>6. CASE Tick \/ UNCHANGED vars
    BY <1>2, <2>6 DEF Tick, vars, PagesInv, PagedIsWritten, PagedOncePerTier, PagesOnce, Exists, Unused
  <2> QED
    BY <1>2, <2>3, <2>4, <2>5, <2>6, BeginPages, BulkNextPages, CommitPages, NotifyPages,
       MarkSentPages, WritePagesPages DEF Next, Proceed
<1>3. PagesInv => PagedOncePerTier
  BY DEF PagesInv
<1> QED
  BY <1>1, <1>2, <1>3, ServiceInvariant, PTL DEF Spec

-----------------------------------------------------------------------------
(***************************************************************************)
(* The refinement, of requests that do not overlap.  A request about to    *)
(* write still holds what its operation makes of the stored document, an   *)
(* escalation that of a time that has passed; the bounds of the lifecycle  *)
(* are those of the requests.                                              *)
(***************************************************************************)
CreatesFrom(r, d) == d = NoDoc /\ r.doc = NewDoc /\ r.event = CreatedEvent(r.id)

MovesFrom(r, d) ==
    /\ d # NoDoc
    /\ \E target \in States :
          /\ CanTransition(d.state, target)
          /\ r.doc = Transitioned(d, target)
          /\ r.event = ChangedEvent(r.id, d.state, target)

UpdatesFrom(r, d) ==
    /\ d # NoDoc /\ r.event = NoEvent /\ r.paging = FALSE
    /\ \/ \E a \in Assignees : r.doc = Assigned(d, a)
       \/ r.doc = Noted(d)
       \/ \E x \in Remediations : r.doc = Linked(d, x)

ClimbsFrom(r, d, now) ==
    /\ d # NoDoc /\ r.event = NoEvent
    /\ \E minutes \in 0 .. now : \E step \in Escalations(Severity[r.id], minutes, d.tier) :
          /\ r.doc = Escalated(d, step.tier)
          /\ \/ PageChannels(step) = {} /\ r.paging = FALSE
             \/ r.channels \in PageChannels(step) /\ r.paging = TRUE

HoldsResult(r) ==
    r.pc = "commit" =>
        LET d == rows[r.id]
        IN  CreatesFrom(r, d) \/ MovesFrom(r, d) \/ UpdatesFrom(r, d) \/ ClimbsFrom(r, d, age[r.id])

PagesAfterWriting(r) ==
    r.pc \in {"page", "sent"} => Exists(r.id) /\ r.doc.changes = rows[r.id].changes

\* The bounds: a request makes two changes of an incident at most, and at most
\* one entry for itself and one for each page.
Share == MaxPages + 1
Room  == requests * Share
ChangesOf(i) == IF Exists(i) THEN Len(rows[i].changes) ELSE 0
LogOf(i)     == IF Exists(i) THEN Len(rows[i].log) ELSE 0
ToChange(r) ==
    IF r.pc = "idle" THEN 0 ELSE Len(r.bulk.ids) + (IF r.pc = "commit" THEN 1 ELSE 0)

LogFits(r) ==
    /\ r.pc = "commit" /\ r.event = NoEvent => LogOf(r.id) + Share <= Room
    /\ r.pc \in {"page", "sent"} => Len(r.doc.log) + Len(r.channels) <= Room
ChangesFit(r) == \A i \in Incidents : ChangesOf(i) + ToChange(r) <= 2 * requests
LogsFit == \A i \in Incidents : LogOf(i) <= Room

RefInv ==
    /\ \A w \in Workers :
          /\ HoldsResult(worker[w]) /\ PagesAfterWriting(worker[w])
          /\ LogFits(worker[w]) /\ ChangesFit(worker[w])
    /\ LogsFit

-----------------------------------------------------------------------------
(***************************************************************************)
(* The mapped state, in terms of the only request.                         *)
(***************************************************************************)
AtPages(r) == r.pc \in {"page", "sent"}
Pageds(n) == [k \in 1 .. n |-> [type |-> "NOTIFICATION_SENT", what |-> NoOne]]
SeenRow(r, i, row) ==
    IF AtPages(r) /\ r.id = i
    THEN [r.doc EXCEPT !.log = @ \o Pageds(Len(r.channels))] ELSE row
SeenEvents(r, pcs, s) == IF r.pc \in pcs THEN Append(s, r.event) ELSE s
Sents(ns) == [k \in DOMAIN ns |-> [ns[k] EXCEPT !.status = "SENT"]]
PagesOf(i, tier, channels) == [k \in DOMAIN channels |-> Page(i, tier, channels[k], "SENT")]
SeenPages(r, ns) ==
    Sents(ns) \o
    (IF AtPages(r)
     THEN PagesOf(r.id, r.doc.tier, IF r.pc = "sent" THEN Tail(r.channels) ELSE r.channels)
     ELSE << >>)

LEMMA OwingOne ==
  /\ \A s : Owing(s, {}) = s
  /\ \A s, e : Owing(s, {e}) = Append(s, e)
BY DEF Owing

SeesRequest(w) ==
    worker[w].pc # "idle" => worker[w].id \in Incidents /\ worker[w].channels \in Seq(NotificationChannels)
Seen(w) ==
    /\ \A i \in Incidents : DoneRow(i) = SeenRow(worker[w], i, rows[i])
    /\ \A pcs, s : Owing(s, EventsOwed(pcs)) = SeenEvents(worker[w], pcs, s)
    /\ DoneNotifications = SeenPages(worker[w], notifications)

LEMMA SeenState ==
  ASSUME OneAtATime, NEW w \in Workers
  PROVE  SeesRequest(w) => Seen(w)
<1> SUFFICES ASSUME SeesRequest(w)
             PROVE  Seen(w)
  OBVIOUS
<1> DEFINE r == worker[w]
<1>1. \A v \in Workers : v = w
  BY DEF OneAtATime
<1>2. \A i : PagersOf(i) = IF AtPages(r) /\ r.id = i THEN {w} ELSE {}
  BY <1>1 DEF PagersOf, AtPages
<1>3. \A pcs : EventsOwed(pcs) = IF r.pc \in pcs THEN {r.event} ELSE {}
  BY <1>1 DEF EventsOwed
<1>4. Pagers = IF AtPages(r) THEN {w} ELSE {}
  <2>1. CASE AtPages(r)
    <3>1. r.id \in Incidents
      BY <2>1 DEF AtPages, SeesRequest
    <3> QED
      BY <1>2, <2>1, <3>1 DEF Pagers
  <2>2. CASE ~ AtPages(r)
    BY <1>2, <2>2 DEF Pagers
  <2> QED
    BY <2>1, <2>2
<1>5. ASSUME NEW i \in Incidents
      PROVE  DoneRow(i) = SeenRow(r, i, rows[i])
  <2>1. CASE AtPages(r) /\ r.id = i
    <3>1. PagersOf(i) = {w}
      BY <1>2, <2>1
    <3>2. (CHOOSE x \in PagersOf(i) : TRUE) = w
      BY <3>1
    <3>3. DOMAIN r.channels = 1 .. Len(r.channels)
      BY <2>1 DEF AtPages, SeesRequest
    <3> QED
      BY <2>1, <3>1, <3>2, <3>3 DEF DoneRow, SeenRow, Pageds
  <2>2. CASE ~ (AtPages(r) /\ r.id = i)
    BY <1>2, <2>2 DEF DoneRow, SeenRow
  <2> QED
    BY <2>1, <2>2
<1>6. \A pcs, s : Owing(s, EventsOwed(pcs)) = SeenEvents(r, pcs, s)
  BY <1>3, OwingOne DEF SeenEvents
<1>7. DoneNotifications = SeenPages(r, notifications)
  <2>1. CASE AtPages(r)
    <3>1. (CHOOSE x \in Pagers : TRUE) = w /\ Pagers # {}
      BY <1>4, <2>1
    <3> QED
      BY <2>1, <3>1 DEF DoneNotifications, SeenPages, Sents, PagesOf, At
  <2>2. CASE ~ AtPages(r)
    BY <1>4, <2>2 DEF DoneNotifications, SeenPages, Sents
  <2> QED
    BY <2>1, <2>2
<1> QED
  BY <1>5, <1>6, <1>7 DEF Seen

LEMMA SeenNext ==
  ASSUME OneAtATime, NEW w \in Workers
  PROVE  SeesRequest(w)' => Seen(w)'
<1>1. SeesRequest(w) => Seen(w)
  BY SeenState
<1> QED
  BY <1>1, PTL

\* A step that only does what already counted as done.
LEMMA SameSeen ==
  ASSUME OneAtATime, NEW w \in Workers, SeesRequest(w), SeesRequest(w)', age' = age,
         \A i \in Incidents : SeenRow(worker'[w], i, rows'[i]) = SeenRow(worker[w], i, rows[i]),
         SeenEvents(worker'[w], {"emit"}, outbox') = SeenEvents(worker[w], {"emit"}, outbox),
         SeenEvents(worker'[w], {"emit", "audit"}, audit') =
            SeenEvents(worker[w], {"emit", "audit"}, audit),
         SeenPages(worker'[w], notifications') = SeenPages(worker[w], notifications)
  PROVE  UNCHANGED Lifecycle!vars
<1>1. Seen(w) /\ Seen(w)'
  BY SeenState, SeenNext
<1>2. UNCHANGED DoneRows
  BY <1>1 DEF Seen, DoneRows
<1>3. UNCHANGED <<DoneOutbox, DoneAudit, DoneNotifications>>
  BY <1>1 DEF Seen, DoneOutbox, DoneAudit
<1> QED
  BY <1>2, <1>3 DEF Lifecycle!vars

\* The operators of the lifecycle are those of the service.
LEMMA SameOperators ==
  /\ Lifecycle!NewDoc = NewDoc
  /\ \A d, x : /\ Lifecycle!Transitioned(d, x) = Transitioned(d, x)
               /\ Lifecycle!Assigned(d, x) = Assigned(d, x)
               /\ Lifecycle!Linked(d, x) = Linked(d, x)
               /\ Lifecycle!Escalated(d, x) = Escalated(d, x)
  /\ \A d : Lifecycle!Noted(d) = Noted(d)
  /\ \A d, t : Lifecycle!MayTransition(d, t, {}) <=> CanTransition(d.state, t)
  /\ \A i : Lifecycle!CreatedEvent(i) = CreatedEvent(i)
  /\ \A i, x, y : Lifecycle!ChangedEvent(i, x, y) = ChangedEvent(i, x, y)
  /\ \A i, t, c, s : Lifecycle!Page(i, t, c, s) = Page(i, t, c, s)
  /\ \A sev, m, t : Lifecycle!Escalations(sev, m, t) = Escalations(sev, m, t)
  /\ \A step : Lifecycle!PageChannels(step) = PageChannels(step)
  /\ Lifecycle!States = States
<1>1. Lifecycle!NewDoc = NewDoc /\ Lifecycle!States = States
  BY DEF Lifecycle!NewDoc, NewDoc, Lifecycle!States, States
<1>2. \A d, x : /\ Lifecycle!Transitioned(d, x) = Transitioned(d, x)
               /\ Lifecycle!Assigned(d, x) = Assigned(d, x)
               /\ Lifecycle!Linked(d, x) = Linked(d, x)
               /\ Lifecycle!Escalated(d, x) = Escalated(d, x)
  BY Zenon DEF Lifecycle!Transitioned, Transitioned, Lifecycle!Assigned, Assigned,
         Lifecycle!Linked, Linked, Lifecycle!Escalated, Escalated
<1>3. \A d : Lifecycle!Noted(d) = Noted(d)
  BY Zenon DEF Lifecycle!Noted, Noted
<1>4. \A d, t : Lifecycle!MayTransition(d, t, {}) <=> CanTransition(d.state, t)
  BY Zenon DEF Lifecycle!MayTransition, Lifecycle!StaleVersion, Lifecycle!CanTransition,
               CanTransition, Lifecycle!Transitions, Transitions, Lifecycle!States, States
<1>5. /\ \A i : Lifecycle!CreatedEvent(i) = CreatedEvent(i)
      /\ \A i, x, y : Lifecycle!ChangedEvent(i, x, y) = ChangedEvent(i, x, y)
      /\ \A i, t, c, s : Lifecycle!Page(i, t, c, s) = Page(i, t, c, s)
  BY Zenon DEF Lifecycle!CreatedEvent, CreatedEvent, Lifecycle!ChangedEvent, ChangedEvent,
               Lifecycle!Page, Page
<1>6. \A sev, m, t : Lifecycle!Escalations(sev, m, t) = Escalations(sev, m, t)
  BY Zenon DEF Lifecycle!Escalations, Escalations, Lifecycle!Due, Due, Lifecycle!StepFor, StepFor,
               Lifecycle!PolicyFor, PolicyFor, Lifecycle!FirstMax, FirstMax
<1>7. \A step : Lifecycle!PageChannels(step) = PageChannels(step)
  BY Zenon DEF Lifecycle!PageChannels, PageChannels, Lifecycle!OnCallFor, OnCallFor,
               Lifecycle!ChannelsNamed, ChannelsNamed, Lifecycle!ChannelOf, ChannelOf,
               Lifecycle!NotificationChannels, NotificationChannels
<1> QED
  BY <1>1, <1>2, <1>3, <1>4, <1>5, <1>6, <1>7

LEMMA TypedSees ==
  ASSUME NEW w \in Workers
  PROVE  TypeOK => SeesRequest(w)
<1> SUFFICES ASSUME TypeOK, worker[w].pc # "idle"
             PROVE  worker[w].id \in Incidents /\ worker[w].channels \in Seq(NotificationChannels)
  BY DEF SeesRequest
<1>1. worker[w] \in Requests
  BY BusyHasRequest DEF Busy
<1> QED
  BY <1>1 DEF Requests

LEMMA TypedSeesNext ==
  ASSUME NEW w \in Workers
  PROVE  TypeOK' => SeesRequest(w)'
<1>1. TypeOK => SeesRequest(w)
  BY TypedSees
<1> QED
  BY <1>1, PTL

-----------------------------------------------------------------------------
(***************************************************************************)
(* Steps that only do what already counted as done.                        *)
(***************************************************************************)

\* A read, a round of a bulk loop, and a request cut off before its write.
LEMMA ReadsStutter ==
  ASSUME TypeOK, TypeOK', OneAtATime, NEW w \in Workers, NEW r,
         worker' = [worker EXCEPT ![w] = r],
         worker[w].pc \in {"idle", "bulk", "commit"}, r.pc \in {"idle", "bulk", "commit"},
         UNCHANGED <<rows, outbox, audit, notifications, age>>
  PROVE  UNCHANGED Lifecycle!vars
<1>1. SeesRequest(w) /\ SeesRequest(w)'
  BY TypedSees, TypedSeesNext
<1>2. worker'[w] = r
  BY DEF TypeOK
<1>3. \A i : /\ SeenRow(r, i, rows'[i]) = rows[i]
             /\ SeenRow(worker[w], i, rows[i]) = rows[i]
  BY DEF SeenRow, AtPages
<1>4. \A x \in {r, worker[w]} :
         /\ SeenEvents(x, {"emit"}, outbox) = outbox
         /\ SeenEvents(x, {"emit", "audit"}, audit) = audit
         /\ SeenPages(x, notifications) = Sents(notifications) \o << >>
  BY DEF SeenEvents, SeenPages, AtPages
<1> QED
  BY <1>1, <1>2, <1>3, <1>4, SameSeen

LEMMA EmitStutters ==
  ASSUME TypeOK, TypeOK', OneAtATime, NEW w \in Workers, Emit(w)
  PROVE  UNCHANGED Lifecycle!vars
<1>1. SeesRequest(w) /\ SeesRequest(w)'
  BY TypedSees, TypedSeesNext
<1>2. /\ worker[w].pc = "emit" /\ worker'[w].pc = "audit" /\ worker'[w].event = worker[w].event
      /\ outbox' = Append(outbox, worker[w].event)
      /\ UNCHANGED <<rows, audit, notifications, age>>
  <2>1. worker[w] \in Requests
    BY BusyHasRequest DEF Emit, At, Busy
  <2> QED
    BY <2>1 DEF Emit, At, Goto, TypeOK, Requests
<1>3. \A i : /\ SeenRow(worker'[w], i, rows'[i]) = rows[i]
             /\ SeenRow(worker[w], i, rows[i]) = rows[i]
  BY <1>2 DEF SeenRow, AtPages
<1>4. /\ SeenEvents(worker'[w], {"emit"}, outbox') = SeenEvents(worker[w], {"emit"}, outbox)
      /\ SeenEvents(worker'[w], {"emit", "audit"}, audit') =
           SeenEvents(worker[w], {"emit", "audit"}, audit)
      /\ SeenPages(worker'[w], notifications') = SeenPages(worker[w], notifications)
  BY <1>2 DEF SeenEvents, SeenPages, AtPages
<1> QED
  BY <1>1, <1>2, <1>3, <1>4, SameSeen

LEMMA AuditStutters ==
  ASSUME TypeOK, TypeOK', OneAtATime, NEW w \in Workers, Audit(w)
  PROVE  UNCHANGED Lifecycle!vars
<1>1. SeesRequest(w) /\ SeesRequest(w)'
  BY TypedSees, TypedSeesNext
<1>2. PICK r : worker' = [worker EXCEPT ![w] = r] /\ r.pc \in {"idle", "bulk"}
  BY FinishedHoldsNothing DEF Audit, At, Busy
<1>3. /\ worker[w].pc = "audit" /\ worker'[w].pc \in {"idle", "bulk"}
      /\ audit' = Append(audit, worker[w].event)
      /\ UNCHANGED <<rows, outbox, notifications, age>>
  BY <1>2 DEF Audit, At, TypeOK
<1>4. \A i : /\ SeenRow(worker'[w], i, rows'[i]) = rows[i]
             /\ SeenRow(worker[w], i, rows[i]) = rows[i]
  BY <1>3 DEF SeenRow, AtPages
<1>5. /\ SeenEvents(worker'[w], {"emit"}, outbox') = SeenEvents(worker[w], {"emit"}, outbox)
      /\ SeenEvents(worker'[w], {"emit", "audit"}, audit') =
           SeenEvents(worker[w], {"emit", "audit"}, audit)
      /\ SeenPages(worker'[w], notifications') = SeenPages(worker[w], notifications)
  BY <1>3 DEF SeenEvents, SeenPages, AtPages
<1> QED
  BY <1>1, <1>3, <1>4, <1>5, SameSeen

\* A function on 1 .. n is a sequence.
LEMMA FunctionIsSeq ==
  ASSUME NEW S, NEW n \in Nat, NEW f \in [1 .. n -> S]
  PROVE  f \in Seq(S) /\ Len(f) = n
<1>1. f \in Seq(S)
  BY SeqDef
<1>2. DOMAIN f = 1 .. n /\ DOMAIN f = 1 .. Len(f) /\ Len(f) \in Nat
  BY <1>1, LenProperties
<1> QED
  BY <1>1, <1>2

LEMMA SentsTyped ==
  ASSUME NEW ns \in Seq(Pages)
  PROVE  /\ Sents(ns) \in Seq(Pages) /\ Len(Sents(ns)) = Len(ns)
         /\ \A k \in 1 .. Len(ns) : Sents(ns)[k] = [ns[k] EXCEPT !.status = "SENT"]
<1>1. ASSUME NEW k \in 1 .. Len(ns)
      PROVE  [ns[k] EXCEPT !.status = "SENT"] \in Pages
  <2>1. ns[k] \in Pages
    BY ElementOfSeq
  <2> QED
    BY <2>1 DEF Pages
<1>2. DOMAIN ns = 1 .. Len(ns) /\ Len(ns) \in Nat
  BY LenProperties
<1>3. Sents(ns) \in [1 .. Len(ns) -> Pages]
  BY <1>1, <1>2 DEF Sents
<1> QED
  BY <1>2, <1>3, FunctionIsSeq DEF Sents

LEMMA PagesTyped ==
  ASSUME NEW i \in Incidents, NEW t \in Tiers, NEW c \in Seq(NotificationChannels)
  PROVE  /\ PagesOf(i, t, c) \in Seq(Pages) /\ Len(PagesOf(i, t, c)) = Len(c)
         /\ \A k \in 1 .. Len(c) : PagesOf(i, t, c)[k] = Page(i, t, c[k], "SENT")
<1>1. \A x \in NotificationChannels : Page(i, t, x, "SENT") \in Pages
  BY DEF Page, Pages
<1>2. DOMAIN c = 1 .. Len(c) /\ Len(c) \in Nat /\ \A k \in 1 .. Len(c) : c[k] \in NotificationChannels
  BY LenProperties, ElementOfSeq
<1>3. PagesOf(i, t, c) \in [1 .. Len(c) -> Pages]
  BY <1>1, <1>2 DEF PagesOf
<1> QED
  BY <1>2, <1>3, FunctionIsSeq DEF PagesOf

\* A page that is written leaves the list of those to come.
LEMMA SentsAppend ==
  ASSUME NEW ns \in Seq(Pages), NEW q \in Pages
  PROVE  /\ Sents(Append(ns, q)) = Append(Sents(ns), [q EXCEPT !.status = "SENT"])
         /\ [q EXCEPT !.status = "SENT"] \in Pages
<1> DEFINE p == [q EXCEPT !.status = "SENT"]
           m == Append(ns, q)
           n == Len(ns)
           a == Sents(ns)
           left == Sents(m)
           right == Append(a, p)
<1>1. p \in Pages
  BY DEF Pages
<1>2. /\ m \in Seq(Pages) /\ Len(m) = n + 1 /\ m[n + 1] = q /\ n \in Nat
      /\ \A k \in 1 .. n : m[k] = ns[k]
  BY AppendProperties, LenProperties
<1>3. /\ a \in Seq(Pages) /\ Len(a) = n
      /\ \A k \in 1 .. n : a[k] = [ns[k] EXCEPT !.status = "SENT"]
  BY SentsTyped
<1> HIDE DEF m, a
<1>4. /\ left \in Seq(Pages) /\ Len(left) = n + 1
      /\ \A k \in 1 .. n + 1 : left[k] = [m[k] EXCEPT !.status = "SENT"]
  BY <1>2, SentsTyped
<1>5. left[n + 1] = p
  BY <1>2, <1>4
<1>6. \A k \in 1 .. n : left[k] = a[k]
  BY <1>2, <1>3, <1>4
<1> HIDE DEF p, n, left
<1>7. /\ right \in Seq(Pages) /\ Len(right) = n + 1 /\ right[n + 1] = p
      /\ \A k \in 1 .. n : right[k] = a[k]
  BY <1>1, <1>3, AppendProperties
<1> HIDE DEF right
<1>8. \A k \in 1 .. n + 1 : left[k] = right[k]
  BY <1>2, <1>5, <1>6, <1>7
<1>9. left = right
  BY <1>4, <1>7, <1>8, SeqEqual
<1> QED
  BY <1>1, <1>9 DEF left, right, m, a, p

LEMMA PagesHead ==
  ASSUME NEW c \in Seq(NotificationChannels), c # << >>, NEW i \in Incidents, NEW t \in Tiers
  PROVE  /\ PagesOf(i, t, c) = <<Page(i, t, Head(c), "SENT")>> \o PagesOf(i, t, Tail(c))
         /\ Page(i, t, Head(c), "SENT") \in Pages
<1> DEFINE p == Page(i, t, Head(c), "SENT")
           d == Tail(c)
           one == <<p>>
           b == PagesOf(i, t, d)
           left == PagesOf(i, t, c)
           right == one \o b
           n == Len(c)
<1>1. /\ d \in Seq(NotificationChannels) /\ Len(d) = n - 1 /\ n \in Nat \ {0} /\ Head(c) = c[1]
      /\ Head(c) \in NotificationChannels /\ \A k \in 1 .. n - 1 : d[k] = c[k + 1]
  BY HeadTailProperties, EmptySeq
<1>2. p \in Pages /\ p = Page(i, t, c[1], "SENT")
  BY <1>1 DEF Page, Pages
<1> HIDE DEF p, d
<1>3. one \in Seq(Pages) /\ Len(one) = 1 /\ one[1] = p
  BY <1>2
<1>4. /\ b \in Seq(Pages) /\ Len(b) = n - 1
      /\ \A k \in 1 .. n - 1 : b[k] = Page(i, t, d[k], "SENT")
  <2>1. /\ b \in Seq(Pages) /\ Len(b) = Len(d)
        /\ \A k \in 1 .. Len(d) : b[k] = Page(i, t, d[k], "SENT")
    BY <1>1, PagesTyped
  <2> QED
    BY <1>1, <2>1
<1>5. /\ left \in Seq(Pages) /\ Len(left) = n
      /\ \A k \in 1 .. n : left[k] = Page(i, t, c[k], "SENT")
  BY PagesTyped
<1> HIDE DEF one, b, left, n
<1>6. /\ right \in Seq(Pages) /\ Len(right) = n
      /\ \A k \in 1 .. n : right[k] = IF k <= 1 THEN one[k] ELSE b[k - 1]
  <2>1. 1 + (n - 1) = n
    BY <1>1
  <2>2. /\ right \in Seq(Pages) /\ Len(right) = Len(one) + Len(b)
        /\ \A k \in 1 .. Len(one) + Len(b) :
              right[k] = IF k <= Len(one) THEN one[k] ELSE b[k - Len(one)]
    BY <1>3, <1>4, ConcatProperties
  <2> QED
    BY <1>3, <1>4, <2>1, <2>2
<1> HIDE DEF right
<1>7. ASSUME NEW k \in 1 .. n
      PROVE  left[k] = right[k]
  <2>1. CASE k = 1
    BY <1>1, <1>2, <1>3, <1>5, <1>6, <2>1
  <2>2. CASE k # 1
    <3>1. k - 1 \in 1 .. n - 1 /\ (k - 1) + 1 = k /\ ~ k <= 1
      BY <1>1, <2>2
    <3>2. b[k - 1] = Page(i, t, c[k], "SENT")
      BY <1>1, <1>4, <3>1
    <3> QED
      BY <1>5, <1>6, <3>1, <3>2
  <2> QED
    BY <2>1, <2>2
<1>8. left = right
  BY <1>5, <1>6, <1>7, SeqEqual
<1> QED
  BY <1>2, <1>8 DEF left, right, one, b, p, d

LEMMA PagesShift ==
  ASSUME NEW ns \in Seq(Pages), NEW c \in Seq(NotificationChannels), c # << >>, NEW i \in Incidents,
         NEW t \in Tiers
  PROVE  Sents(Append(ns, Page(i, t, Head(c), "QUEUED"))) \o PagesOf(i, t, Tail(c))
           = Sents(ns) \o PagesOf(i, t, c)
<1> DEFINE q == Page(i, t, Head(c), "QUEUED")
           p == Page(i, t, Head(c), "SENT")
           a == Sents(ns)
           b == PagesOf(i, t, Tail(c))
<1>1. Tail(c) \in Seq(NotificationChannels) /\ Head(c) \in NotificationChannels
  BY HeadTailProperties
<1>2. q \in Pages /\ p \in Pages /\ [q EXCEPT !.status = "SENT"] = p
  BY <1>1 DEF Page, Pages
<1>3. a \in Seq(Pages) /\ b \in Seq(Pages)
  BY <1>1, SentsTyped, PagesTyped
<1>4. Sents(Append(ns, q)) = Append(a, p)
  <2> HIDE DEF q, p
  <2> QED
    BY <1>2, SentsAppend
<1>5. PagesOf(i, t, c) = <<p>> \o b
  BY PagesHead
<1> HIDE DEF q, p, a, b
<1>6. Append(a, p) = a \o <<p>>
  BY <1>2, <1>3, AppendIsConcat
<1>7. (a \o <<p>>) \o b = a \o (<<p>> \o b)
  <2>1. <<p>> \in Seq(Pages)
    BY <1>2
  <2> QED
    BY <1>3, <2>1, ConcatAssociative
<1> QED
  BY <1>4, <1>5, <1>6, <1>7 DEF q, a, b

LEMMA BusyWith ==
  ASSUME IInv, NEW w \in Workers, worker[w].pc \in {"commit", "page", "sent"}
  PROVE  /\ worker[w] \in Requests /\ worker[w].id \in Incidents /\ worker[w].doc \in Docs
         /\ worker[w].channels \in Seq(NotificationChannels) /\ worker[w].doc.tier \in Tiers
         /\ worker[w].doc.log \in Seq(Logged)
<1>1. worker[w] \in Requests
  BY BusyHasRequest DEF Busy, IInv
<1>2. worker[w].doc \in Docs
  BY DEF IInv, GoodRequest, HoldsGoodDoc, HoldsDoc
<1> QED
  BY <1>1, <1>2 DEF Requests, Docs

LEMMA NotifyStutters ==
  ASSUME IInv, TypeOK', OneAtATime, NEW w \in Workers, Notify(w)
  PROVE  UNCHANGED Lifecycle!vars
<1> DEFINE r == worker[w]
<1>1. SeesRequest(w) /\ SeesRequest(w)' /\ notifications \in Seq(Pages)
  BY TypedSees, TypedSeesNext DEF IInv, TypeOK
<1>2. /\ r.pc = "page" /\ r.channels # << >>
      /\ notifications' = Append(notifications, Page(r.id, r.doc.tier, Head(r.channels), "QUEUED"))
      /\ UNCHANGED <<rows, outbox, audit, age>>
  BY DEF Notify, At
<1>3. /\ r \in Requests /\ r.id \in Incidents /\ r.channels \in Seq(NotificationChannels)
      /\ r.doc.tier \in Tiers
  BY <1>2, BusyWith
<1>4. /\ worker'[w].pc = "sent" /\ worker'[w].id = r.id /\ worker'[w].doc = r.doc
      /\ worker'[w].channels = r.channels
  <2>1. worker'[w] = [r EXCEPT !.pc = "sent", !.slot = Len(notifications) + 1]
    BY DEF Notify, IInv, TypeOK
  <2> QED
    BY <1>3, <2>1 DEF Requests
<1>5. \A i : SeenRow(worker'[w], i, rows'[i]) = SeenRow(r, i, rows[i])
  BY <1>2, <1>4 DEF SeenRow, AtPages
<1>6. /\ SeenEvents(worker'[w], {"emit"}, outbox') = SeenEvents(r, {"emit"}, outbox)
      /\ SeenEvents(worker'[w], {"emit", "audit"}, audit') = SeenEvents(r, {"emit", "audit"}, audit)
  BY <1>2, <1>4 DEF SeenEvents
<1>7. SeenPages(worker'[w], notifications') = SeenPages(r, notifications)
  <2>1. SeenPages(worker'[w], notifications') =
          Sents(notifications') \o PagesOf(r.id, r.doc.tier, Tail(r.channels))
    BY <1>4 DEF SeenPages, AtPages
  <2>2. SeenPages(r, notifications) = Sents(notifications) \o PagesOf(r.id, r.doc.tier, r.channels)
    BY <1>2 DEF SeenPages, AtPages
  <2>3. Sents(notifications') \o PagesOf(r.id, r.doc.tier, Tail(r.channels)) =
          Sents(notifications) \o PagesOf(r.id, r.doc.tier, r.channels)
    BY <1>1, <1>2, <1>3, PagesShift
  <2> QED
    BY <2>1, <2>2, <2>3
<1> QED
  BY <1>1, <1>2, <1>5, <1>6, <1>7, SameSeen

\* The timeline entries of pages.
PagedEntry == [type |-> "NOTIFICATION_SENT", what |-> NoOne]
LEMMA PagedsTyped ==
  ASSUME NEW n \in Nat
  PROVE  /\ Pageds(n) \in Seq(Logged) /\ Len(Pageds(n)) = n
         /\ \A k \in 1 .. n : Pageds(n)[k] = PagedEntry
         /\ PagedEntry \in Logged
<1>1. PagedEntry \in Logged
  BY DEF Logged, PagedEntry
<1>2. Pageds(n) \in [1 .. n -> Logged] /\ \A k \in 1 .. n : Pageds(n)[k] = PagedEntry
  BY <1>1 DEF Pageds, PagedEntry
<1> QED
  BY <1>1, <1>2, FunctionIsSeq

LEMMA PagedsShift ==
  ASSUME NEW log \in Seq(Logged), NEW n \in Nat \ {0}
  PROVE  Append(log, PagedEntry) \o Pageds(n - 1) = log \o Pageds(n)
<1> DEFINE one == <<PagedEntry>>
           b == Pageds(n - 1)
           left == one \o b
           right == Pageds(n)
<1>1. n - 1 \in Nat /\ PagedEntry \in Logged
  BY PagedsTyped
<1>2. one \in Seq(Logged) /\ Len(one) = 1 /\ one[1] = PagedEntry
  BY <1>1
<1>3. /\ b \in Seq(Logged) /\ Len(b) = n - 1 /\ \A k \in 1 .. n - 1 : b[k] = PagedEntry
      /\ right \in Seq(Logged) /\ Len(right) = n /\ \A k \in 1 .. n : right[k] = PagedEntry
  BY <1>1, PagedsTyped
<1> HIDE DEF one, b, right
<1>4. /\ left \in Seq(Logged) /\ Len(left) = Len(one) + Len(b)
      /\ \A k \in 1 .. Len(one) + Len(b) : left[k] = IF k <= Len(one) THEN one[k] ELSE b[k - Len(one)]
  BY <1>2, <1>3, ConcatProperties
<1> HIDE DEF left
<1>5. Len(left) = n /\ \A k \in 1 .. n : left[k] = right[k]
  <2>1. Len(one) + Len(b) = n
    BY <1>2, <1>3
  <2>2. ASSUME NEW k \in 1 .. n
        PROVE  left[k] = PagedEntry
    <3>1. CASE k = 1
      BY <1>2, <1>4, <2>1, <3>1
    <3>2. CASE k # 1
      <4>1. k - 1 \in 1 .. n - 1 /\ ~ k <= 1
        BY <3>2
      <4> QED
        BY <1>2, <1>3, <1>4, <2>1, <4>1
    <3> QED
      BY <3>1, <3>2
  <2> QED
    BY <1>3, <1>4, <2>1, <2>2
<1>6. left = right
  BY <1>3, <1>4, <1>5, SeqEqual
<1>7. Append(log, PagedEntry) = log \o one
  BY <1>1, AppendIsConcat DEF one
<1>8. (log \o one) \o b = log \o (one \o b)
  BY <1>2, <1>3, ConcatAssociative
<1> QED
  BY <1>6, <1>7, <1>8 DEF b, right, left

\* A document with another log.
LEMMA LogReplaced ==
  ASSUME NEW d \in Docs, NEW x
  PROVE  /\ [Paged(d) EXCEPT !.log = @ \o x] = [d EXCEPT !.log = Append(@, PagedEntry) \o x]
         /\ Paged(d).tier = d.tier /\ Paged(d).changes = d.changes
         /\ Paged(d).log = Append(d.log, PagedEntry)
         /\ [d EXCEPT !.log = d.log] = d
BY DEF Docs, Paged, PagedEntry

LEMMA MarkSentStutters ==
  ASSUME IInv, TypeOK', OneAtATime, NEW w \in Workers, MarkSent(w)
  PROVE  UNCHANGED Lifecycle!vars
<1> DEFINE r == worker[w]
           ns == notifications
           e == [ns[r.slot] EXCEPT !.status = "SENT"]
<1>1. SeesRequest(w) /\ SeesRequest(w)' /\ ns \in Seq(Pages) /\ ns' \in Seq(Pages)
  BY TypedSees, TypedSeesNext DEF IInv, TypeOK
<1>2. /\ r.pc = "sent" /\ r.channels # << >>
      /\ ns' = [ns EXCEPT ![r.slot].status = "SENT"]
      /\ UNCHANGED <<rows, outbox, audit, age>>
  BY DEF MarkSent, At, IInv, GoodRequest, HoldsWork
<1>3. /\ r \in Requests /\ r.id \in Incidents /\ r.channels \in Seq(NotificationChannels)
      /\ r.doc \in Docs /\ r.doc.log \in Seq(Logged)
  BY <1>2, BusyWith
<1>4. /\ worker'[w].pc = "page" /\ worker'[w].id = r.id /\ worker'[w].doc = Paged(r.doc)
      /\ worker'[w].channels = Tail(r.channels)
  <2>1. worker'[w] = [r EXCEPT !.pc = "page", !.slot = 0, !.channels = Tail(@), !.doc = Paged(@)]
    BY DEF MarkSent, IInv, TypeOK
  <2> QED
    BY <1>3, <2>1 DEF Requests
<1>5. ASSUME NEW i
      PROVE  SeenRow(worker'[w], i, rows'[i]) = SeenRow(r, i, rows[i])
  <2>1. CASE r.id # i
    BY <1>2, <1>4, <2>1 DEF SeenRow
  <2>2. CASE r.id = i
    <3> DEFINE n == Len(r.channels)
    <3>1. n \in Nat \ {0} /\ Len(Tail(r.channels)) = n - 1
      BY <1>2, <1>3, HeadTailProperties, EmptySeq
    <3>2. SeenRow(r, i, rows[i]) = [r.doc EXCEPT !.log = @ \o Pageds(n)]
      BY <1>2, <2>2 DEF SeenRow, AtPages
    <3>3. SeenRow(worker'[w], i, rows'[i]) = [Paged(r.doc) EXCEPT !.log = @ \o Pageds(n - 1)]
      BY <1>4, <2>2, <3>1 DEF SeenRow, AtPages
    <3>4. [Paged(r.doc) EXCEPT !.log = @ \o Pageds(n - 1)] =
            [r.doc EXCEPT !.log = Append(@, PagedEntry) \o Pageds(n - 1)]
      BY <1>3, LogReplaced
    <3>5. Append(r.doc.log, PagedEntry) \o Pageds(n - 1) = r.doc.log \o Pageds(n)
      BY <1>3, <3>1, PagedsShift
    <3> QED
      BY <3>2, <3>3, <3>4, <3>5
  <2> QED
    BY <2>1, <2>2
<1>6. /\ SeenEvents(worker'[w], {"emit"}, outbox') = SeenEvents(r, {"emit"}, outbox)
      /\ SeenEvents(worker'[w], {"emit", "audit"}, audit') = SeenEvents(r, {"emit", "audit"}, audit)
  BY <1>2, <1>4 DEF SeenEvents
<1>7. SeenPages(worker'[w], ns') = SeenPages(r, ns)
  <2>1. SeenPages(worker'[w], ns') = Sents(ns') \o PagesOf(r.id, Paged(r.doc).tier, Tail(r.channels))
    BY <1>4 DEF SeenPages, AtPages
  <2>2. SeenPages(r, ns) = Sents(ns) \o PagesOf(r.id, r.doc.tier, Tail(r.channels))
    BY <1>2 DEF SeenPages, AtPages
  <2>3. Paged(r.doc).tier = r.doc.tier
    BY <1>3, LogReplaced
  <2>4. Sents(ns') = Sents(ns)
    <3>1. DOMAIN ns' = DOMAIN ns
      BY <1>2
    <3>2. \A k \in DOMAIN ns : [ns'[k] EXCEPT !.status = "SENT"] = [ns[k] EXCEPT !.status = "SENT"]
      <4> TAKE k \in DOMAIN ns
      <4>1. ns[k] \in Pages
        BY <1>1
      <4>2. ns'[k] = IF k = r.slot THEN [ns[k] EXCEPT !.status = "SENT"] ELSE ns[k]
        BY <1>2
      <4> QED
        BY <4>1, <4>2 DEF Pages
    <3> QED
      BY <3>1, <3>2 DEF Sents
  <2> QED
    BY <2>1, <2>2, <2>3, <2>4
<1> QED
  BY <1>1, <1>2, <1>5, <1>6, <1>7, SameSeen

LEMMA WritePagesStutters ==
  ASSUME IInv, TypeOK', OneAtATime, NEW w \in Workers, WritePages(w)
  PROVE  UNCHANGED Lifecycle!vars
<1> DEFINE r == worker[w]
           ns == notifications
<1>1. SeesRequest(w) /\ SeesRequest(w)' /\ TypeOK
  BY TypedSees, TypedSeesNext DEF IInv
<1>2. PICK q : worker' = [worker EXCEPT ![w] = q] /\ q.pc \in {"idle", "bulk"}
  BY <1>1, FinishedHoldsNothing DEF WritePages, At, Busy
<1>3. /\ r.pc = "page" /\ r.channels = << >> /\ worker'[w].pc \in {"idle", "bulk"}
      /\ rows' = [rows EXCEPT ![r.id] = r.doc]
      /\ UNCHANGED <<outbox, audit, notifications, age>>
  BY <1>1, <1>2 DEF WritePages, Write, At, TypeOK
<1>4. /\ r.id \in Incidents /\ r.channels \in Seq(NotificationChannels) /\ r.doc.tier \in Tiers
      /\ r.doc \in Docs /\ r.doc.log \in Seq(Logged)
  BY <1>3, BusyWith
<1>5. ASSUME NEW i \in Incidents
      PROVE  SeenRow(worker'[w], i, rows'[i]) = SeenRow(r, i, rows[i])
  <2>1. SeenRow(worker'[w], i, rows'[i]) = rows'[i]
    BY <1>3 DEF SeenRow, AtPages
  <2>2. rows'[i] = IF i = r.id THEN r.doc ELSE rows[i]
    BY <1>1, <1>3 DEF TypeOK
  <2>3. CASE r.id # i
    BY <2>1, <2>2, <2>3 DEF SeenRow
  <2>4. CASE r.id = i
    <3>1. SeenRow(r, i, rows[i]) = [r.doc EXCEPT !.log = @ \o Pageds(0)]
      BY <1>3, <2>4 DEF SeenRow, AtPages
    <3>2. r.doc.log \o Pageds(0) = r.doc.log
      <4>1. Pageds(0) = << >>
        BY PagedsTyped, EmptySeq
      <4> QED
        BY <1>4, <4>1, ConcatEmptySeq
    <3>3. [r.doc EXCEPT !.log = r.doc.log] = r.doc
      BY <1>4, LogReplaced
    <3> QED
      BY <2>1, <2>2, <2>4, <3>1, <3>2, <3>3
  <2> QED
    BY <2>3, <2>4
<1>6. /\ SeenEvents(worker'[w], {"emit"}, outbox') = SeenEvents(r, {"emit"}, outbox)
      /\ SeenEvents(worker'[w], {"emit", "audit"}, audit') = SeenEvents(r, {"emit", "audit"}, audit)
  BY <1>3 DEF SeenEvents
<1>7. SeenPages(worker'[w], ns') = SeenPages(r, ns)
  <2>1. SeenPages(worker'[w], ns') = Sents(ns) \o << >>
    BY <1>3 DEF SeenPages, AtPages
  <2>2. SeenPages(r, ns) = Sents(ns) \o PagesOf(r.id, r.doc.tier, r.channels)
    BY <1>3 DEF SeenPages, AtPages
  <2>3. PagesOf(r.id, r.doc.tier, r.channels) = << >>
    <3>1. /\ PagesOf(r.id, r.doc.tier, r.channels) \in Seq(Pages)
          /\ Len(PagesOf(r.id, r.doc.tier, r.channels)) = Len(r.channels)
      BY <1>4, PagesTyped
    <3>2. Len(r.channels) = 0
      BY <1>3
    <3> QED
      BY <3>1, <3>2, EmptySeq
  <2> QED
    BY <2>1, <2>2, <2>3
<1> QED
  BY <1>1, <1>3, <1>5, <1>6, <1>7, SameSeen

\* A request is cut off that owed no write.
LEMMA CrashStutters ==
  ASSUME IInv, TypeOK', OneAtATime, NEW w \in Workers, Crash(w), cut' = {}
  PROVE  UNCHANGED Lifecycle!vars
<1>1. TypeOK /\ worker[w] \in Requests
  BY BusyHasRequest DEF Crash, IInv
<1>2. worker[w].pc \in {"commit", "bulk"}
  BY <1>1 DEF Crash, At, Requests, Pcs
<1>3. Idle.pc = "idle" /\ worker' = [worker EXCEPT ![w] = Idle]
  BY DEF Crash, Idle
<1>4. UNCHANGED <<rows, outbox, audit, notifications, age>>
  BY DEF Crash
<1> QED
  BY <1>1, <1>2, <1>3, <1>4, ReadsStutter

\* Before its write a request owes nothing.
LEMMA MappedBefore ==
  ASSUME IInv, OneAtATime, NEW w \in Workers, worker[w].pc = "commit"
  PROVE  /\ DoneRows = rows /\ DoneOutbox = outbox /\ DoneAudit = audit
         /\ DoneNotifications = Sents(notifications)
<1>1. Seen(w)
  BY TypedSees, SeenState DEF IInv
<1>2. rows \in [Incidents -> Docs \cup {NoDoc}] /\ notifications \in Seq(Pages)
  BY DEF IInv, TypeOK
<1>3. \A i \in Incidents : DoneRow(i) = rows[i]
  BY <1>1 DEF Seen, SeenRow, AtPages
<1>4. DoneRows = rows
  BY <1>2, <1>3 DEF DoneRows
<1>5. DoneOutbox = outbox /\ DoneAudit = audit
  BY <1>1 DEF Seen, SeenEvents, DoneOutbox, DoneAudit
<1>6. DoneNotifications = Sents(notifications) \o << >>
  BY <1>1 DEF Seen, SeenPages, AtPages
<1>7. Sents(notifications) \o << >> = Sents(notifications)
  BY <1>2, SentsTyped, ConcatEmptySeq
<1> QED
  BY <1>4, <1>5, <1>6, <1>7

\* What a write does to the mapped state.
LEMMA CommitMaps ==
  ASSUME IInv, TypeOK', OneAtATime, NEW w \in Workers, Commit(w)
  PROVE  LET r == worker[w] IN
         /\ r.event # NoEvent =>
              /\ DoneRows' = [rows EXCEPT ![r.id] = r.doc]
              /\ DoneOutbox' = Append(outbox, r.event)
              /\ DoneAudit' = Append(audit, r.event)
              /\ DoneNotifications' = Sents(notifications)
         /\ r.event = NoEvent /\ r.paging = FALSE =>
              /\ DoneRows' = [rows EXCEPT ![r.id] = r.doc]
              /\ DoneOutbox' = outbox /\ DoneAudit' = audit
              /\ DoneNotifications' = Sents(notifications)
         /\ r.event = NoEvent /\ r.paging = TRUE =>
              /\ DoneRows' = [rows EXCEPT ![r.id] = [r.doc EXCEPT !.log = @ \o Pageds(Len(r.channels))]]
              /\ DoneOutbox' = outbox /\ DoneAudit' = audit
              /\ DoneNotifications' = Sents(notifications) \o PagesOf(r.id, r.doc.tier, r.channels)
<1> DEFINE r == worker[w]
           q == worker'[w]
<1>1. Seen(w)' /\ TypeOK
  BY TypedSeesNext, SeenNext DEF IInv
<1>2. /\ r.pc = "commit" /\ rows' = [rows EXCEPT ![r.id] = r.doc]
      /\ UNCHANGED <<outbox, audit, notifications, age>>
      /\ worker' = IF r.event # NoEvent THEN Goto(w, "emit")
                   ELSE IF r.paging THEN Goto(w, "page") ELSE Finished(w)
  BY DEF Commit, At, Write
<1>3. r \in Requests /\ rows \in [Incidents -> Docs \cup {NoDoc}] /\ notifications \in Seq(Pages)
  BY <1>1, <1>2, BusyWith DEF TypeOK
<1>4. rows' \in [Incidents -> Docs \cup {NoDoc}]
  BY DEF TypeOK
<1>5. Sents(notifications) \o << >> = Sents(notifications)
  BY <1>3, SentsTyped, ConcatEmptySeq
<1>6. ASSUME ~ AtPages(q)
      PROVE  DoneRows' = [rows EXCEPT ![r.id] = r.doc] /\ DoneNotifications' = Sents(notifications)
  <2>1. \A i \in Incidents : DoneRow(i)' = rows'[i]
    BY <1>1, <1>6 DEF Seen, SeenRow
  <2>2. DoneRows' = rows'
    BY <1>4, <2>1 DEF DoneRows
  <2>3. DoneNotifications' = Sents(notifications')  \o << >>
    BY <1>1, <1>6 DEF Seen, SeenPages
  <2> QED
    BY <1>2, <1>5, <2>2, <2>3
<1>7. ASSUME q.pc \notin {"emit", "audit"}
      PROVE  DoneOutbox' = outbox /\ DoneAudit' = audit
  BY <1>1, <1>2, <1>7 DEF Seen, SeenEvents, DoneOutbox, DoneAudit
<1>8. CASE r.event # NoEvent
  <2>1. q.pc = "emit" /\ q.event = r.event
    BY <1>1, <1>2, <1>3, <1>8 DEF Goto, TypeOK, Requests
  <2>2. DoneOutbox' = Append(outbox, r.event) /\ DoneAudit' = Append(audit, r.event)
    BY <1>1, <1>2, <2>1 DEF Seen, SeenEvents, DoneOutbox, DoneAudit
  <2> QED
    BY <1>6, <1>8, <2>1, <2>2 DEF AtPages
<1>9. CASE r.event = NoEvent /\ r.paging = FALSE
  <2>1. q.pc \in {"idle", "bulk"}
    <3>1. PICK x : Finished(w) = [worker EXCEPT ![w] = x] /\ x.pc \in {"idle", "bulk"}
      BY <1>1, <1>2, FinishedHoldsNothing DEF Busy
    <3> QED
      BY <1>1, <1>2, <1>9, <3>1 DEF TypeOK
  <2> QED
    BY <1>6, <1>7, <1>9, <2>1 DEF AtPages
<1>10. CASE r.event = NoEvent /\ r.paging = TRUE
  <2>1. q.pc = "page" /\ q.id = r.id /\ q.doc = r.doc /\ q.channels = r.channels
    BY <1>1, <1>2, <1>3, <1>10 DEF Goto, TypeOK, Requests
  <2> DEFINE d == [r.doc EXCEPT !.log = @ \o Pageds(Len(r.channels))]
  <2>2. DoneRows' = [rows EXCEPT ![r.id] = d]
    <3>1. \A i \in Incidents : DoneRow(i)' = SeenRow(q, i, rows'[i])
      BY <1>1 DEF Seen
    <3>2. \A i \in Incidents : SeenRow(q, i, rows'[i]) = IF i = r.id THEN d ELSE rows[i]
      BY <1>2, <1>3, <2>1 DEF SeenRow, AtPages
    <3>3. \A i \in Incidents : DoneRow(i)' = IF i = r.id THEN d ELSE rows[i]
      BY <3>1, <3>2
    <3> HIDE DEF d
    <3> QED
      BY <1>3, <3>3 DEF DoneRows
  <2>3. DoneNotifications' = Sents(notifications) \o PagesOf(r.id, r.doc.tier, r.channels)
    BY <1>1, <1>2, <2>1 DEF Seen, SeenPages, AtPages
  <2> QED
    BY <1>7, <1>10, <2>1, <2>2, <2>3
<1>11. r.paging \in BOOLEAN
  BY <1>3 DEF Requests
<1> QED
  BY <1>8, <1>9, <1>10, <1>11

-----------------------------------------------------------------------------
(***************************************************************************)
(* A write is the operation.                                               *)
(***************************************************************************)
LEMMA EventsDiffer ==
  /\ \A i : CreatedEvent(i) # NoEvent
  /\ \A i, x, y : ChangedEvent(i, x, y) # NoEvent
BY DEF CreatedEvent, ChangedEvent, NoEvent

LEMMA OneAppended ==
  ASSUME NEW S, NEW s \in Seq(S), NEW e \in S
  PROVE  Append(s, e) = s \o <<e>>
BY AppendIsConcat

LEMMA CommitCreates ==
  ASSUME IInv, TypeOK', OneAtATime, NEW w \in Workers, Commit(w),
         CreatesFrom(worker[w], rows[worker[w].id])
  PROVE  Lifecycle!Create(worker[w].id)
<1> DEFINE r == worker[w]
           i == r.id
<1>1. r.pc = "commit" /\ i \in Incidents /\ UNCHANGED age /\ TypeOK
  BY BusyWith DEF Commit, At, IInv
<1>2. rows[i] = NoDoc /\ r.doc = NewDoc /\ r.event = CreatedEvent(i) /\ r.event # NoEvent
  BY EventsDiffer DEF CreatesFrom
<1>3. r.event \in Events
  BY <1>1, <1>2 DEF CreatedEvent, Events, States
<1>4. /\ DoneRows = rows /\ DoneOutbox = outbox /\ DoneAudit = audit
      /\ DoneNotifications = Sents(notifications)
  BY <1>1, MappedBefore
<1>5. /\ DoneRows' = [rows EXCEPT ![i] = NewDoc]
      /\ DoneOutbox' = Append(outbox, CreatedEvent(i))
      /\ DoneAudit' = Append(audit, CreatedEvent(i))
      /\ DoneNotifications' = Sents(notifications)
  BY <1>2, CommitMaps
<1>6. /\ Append(outbox, CreatedEvent(i)) = outbox \o <<CreatedEvent(i)>>
      /\ Append(audit, CreatedEvent(i)) = audit \o <<CreatedEvent(i)>>
  BY <1>1, <1>2, <1>3, OneAppended DEF TypeOK
<1>7. ~ Lifecycle!Exists(i)
  BY <1>2, <1>4 DEF Lifecycle!Exists
<1>8. DoneRows' = [DoneRows EXCEPT ![i] = Lifecycle!NewDoc]
  BY <1>4, <1>5, SameOperators
<1>9. Lifecycle!Emit(<<Lifecycle!CreatedEvent(i)>>)
  <2>1. Lifecycle!CreatedEvent(i) = CreatedEvent(i)
    BY SameOperators
  <2>2. DoneOutbox' = DoneOutbox \o <<CreatedEvent(i)>> /\ DoneAudit' = DoneAudit \o <<CreatedEvent(i)>>
    BY <1>4, <1>5, <1>6
  <2> QED
    BY <2>1, <2>2 DEF Lifecycle!Emit
<1>10. UNCHANGED <<DoneNotifications, age>>
  BY <1>1, <1>4, <1>5
<1> QED
  BY <1>7, <1>8, <1>9, <1>10 DEF Lifecycle!Create

LEMMA CommitMoves ==
  ASSUME IInv, TypeOK', OneAtATime, NEW w \in Workers, Commit(w), NEW target \in States,
         LET r == worker[w]
             d == rows[r.id]
         IN  /\ d # NoDoc /\ CanTransition(d.state, target)
             /\ r.doc = Transitioned(d, target) /\ r.event = ChangedEvent(r.id, d.state, target)
             /\ Len(d.changes) < MaxRequests * 2
  PROVE  Lifecycle!Transition(worker[w].id, target, {})
<1> DEFINE r == worker[w]
           i == r.id
           d == rows[i]
           e == ChangedEvent(i, d.state, target)
<1>1. r.pc = "commit" /\ i \in Incidents /\ UNCHANGED age /\ TypeOK
  BY BusyWith DEF Commit, At, IInv
<1>2. r.event = e /\ r.event # NoEvent
  BY EventsDiffer
<1>3. r.event \in Events /\ d \in Docs
  <2>1. d \in Docs
    BY <1>1 DEF TypeOK
  <2> QED
    BY <1>1, <2>1, EventsTyped DEF Docs
<1>4. /\ DoneRows = rows /\ DoneOutbox = outbox /\ DoneAudit = audit
      /\ DoneNotifications = Sents(notifications)
  BY <1>1, MappedBefore
<1>5. /\ DoneRows' = [rows EXCEPT ![i] = Transitioned(d, target)]
      /\ DoneOutbox' = Append(outbox, e)
      /\ DoneAudit' = Append(audit, e)
      /\ DoneNotifications' = Sents(notifications)
  BY <1>2, CommitMaps
<1>6. Append(outbox, e) = outbox \o <<e>> /\ Append(audit, e) = audit \o <<e>>
  BY <1>1, <1>2, <1>3, OneAppended DEF TypeOK
<1>7. Lifecycle!MayChange(i)
  BY <1>4 DEF Lifecycle!MayChange, Lifecycle!Exists
<1>8. Lifecycle!MayTransition(DoneRows[i], target, {})
  BY <1>4, SameOperators
<1>9. DoneRows' = [DoneRows EXCEPT ![i] = Lifecycle!Transitioned(@, target)]
  BY <1>1, <1>4, <1>5, SameOperators
<1>10. Lifecycle!Emit(<<Lifecycle!ChangedEvent(i, DoneRows[i].state, target)>>)
  <2>1. Lifecycle!ChangedEvent(i, DoneRows[i].state, target) = e
    BY <1>4, SameOperators
  <2>2. DoneOutbox' = DoneOutbox \o <<e>> /\ DoneAudit' = DoneAudit \o <<e>>
    BY <1>4, <1>5, <1>6
  <2> HIDE DEF e
  <2> QED
    BY <2>1, <2>2 DEF Lifecycle!Emit
<1>11. UNCHANGED <<DoneNotifications, age>>
  BY <1>1, <1>4, <1>5
<1> QED
  BY <1>7, <1>8, <1>9, <1>10, <1>11 DEF Lifecycle!Transition

\* An update that is neither a transition nor an escalation.
LEMMA CommitUpdates ==
  ASSUME IInv, TypeOK', OneAtATime, NEW w \in Workers, Commit(w),
         UpdatesFrom(worker[w], rows[worker[w].id]),
         Len(rows[worker[w].id].log) < MaxRequests * (MaxPages + 1)
  PROVE  LET i == worker[w].id IN
         \/ \E a \in Assignees : Lifecycle!Assign(i, a)
         \/ Lifecycle!AddNote(i)
         \/ \E x \in Remediations : Lifecycle!LinkRemediation(i, x)
<1> DEFINE r == worker[w]
           i == r.id
           d == rows[i]
<1>1. r.pc = "commit" /\ i \in Incidents /\ UNCHANGED age
  BY BusyWith DEF Commit, At
<1>2. d # NoDoc /\ r.event = NoEvent /\ r.paging = FALSE
  BY DEF UpdatesFrom
<1>3. /\ DoneRows = rows /\ DoneOutbox = outbox /\ DoneAudit = audit
      /\ DoneNotifications = Sents(notifications)
  BY <1>1, MappedBefore
<1>4. /\ DoneRows' = [rows EXCEPT ![i] = r.doc]
      /\ DoneOutbox' = outbox /\ DoneAudit' = audit
      /\ DoneNotifications' = Sents(notifications)
  BY <1>2, CommitMaps
<1>5. DoneRows[i] = d /\ DoneRows' = [DoneRows EXCEPT ![i] = r.doc]
      /\ UNCHANGED <<DoneOutbox, DoneAudit, DoneNotifications, age>>
  BY <1>1, <1>3, <1>4
<1>6. Lifecycle!MayLog(i)
  BY <1>2, <1>3 DEF Lifecycle!MayLog, Lifecycle!Exists
<1>7. ASSUME NEW a \in Assignees, r.doc = Assigned(d, a)
      PROVE  Lifecycle!Assign(i, a)
  <2>1. DoneRows' = [DoneRows EXCEPT ![i] = Lifecycle!Assigned(@, a)]
    BY <1>5, <1>7, SameOperators
  <2> QED
    BY <1>5, <1>6, <2>1 DEF Lifecycle!Assign
<1>8. ASSUME r.doc = Noted(d)
      PROVE  Lifecycle!AddNote(i)
  <2>1. DoneRows' = [DoneRows EXCEPT ![i] = Lifecycle!Noted(@)]
    BY <1>5, <1>8, SameOperators
  <2> QED
    BY <1>5, <1>6, <2>1 DEF Lifecycle!AddNote
<1>9. ASSUME NEW x \in Remediations, r.doc = Linked(d, x)
      PROVE  Lifecycle!LinkRemediation(i, x)
  <2>1. DoneRows' = [DoneRows EXCEPT ![i] = Lifecycle!Linked(@, x)]
    BY <1>5, <1>9, SameOperators
  <2> QED
    BY <1>5, <1>6, <2>1 DEF Lifecycle!LinkRemediation
<1> QED
  BY <1>7, <1>8, <1>9 DEF UpdatesFrom

\* A decision pages through one list of channels at most.
LEMMA OneChannelList ==
  ASSUME NEW step, NEW c \in PageChannels(step), NEW d \in PageChannels(step)
  PROVE  c = d
<1>1. PICK x \in OnCallFor(step.tier) :
        c = ChannelsNamed(IF step.channels # << >> THEN step.channels ELSE x.channels)
  BY DEF PageChannels
<1>2. PICK y \in OnCallFor(step.tier) :
        d = ChannelsNamed(IF step.channels # << >> THEN step.channels ELSE y.channels)
  BY DEF PageChannels
<1>3. PICK j \in DOMAIN OnCall : /\ x = OnCall[j] /\ OnCall[j].tier = step.tier
                                 /\ \A l \in 1 .. j - 1 : OnCall[l].tier # step.tier
  BY <1>1 DEF OnCallFor
<1>4. PICK k \in DOMAIN OnCall : /\ y = OnCall[k] /\ OnCall[k].tier = step.tier
                                 /\ \A l \in 1 .. k - 1 : OnCall[l].tier # step.tier
  BY <1>2 DEF OnCallFor
<1>5. j \in Nat \ {0} /\ k \in Nat \ {0}
  BY OnCallAssumption, LenProperties
<1>6. j = k
  BY <1>3, <1>4, <1>5
<1> QED
  BY <1>1, <1>2, <1>3, <1>4, <1>6

LEMMA SamePages ==
  /\ \A d, n : Lifecycle!PagedTimes(d, n) = [d EXCEPT !.log = @ \o Pageds(n)]
  /\ \A i, t, c : [k \in DOMAIN c |-> Lifecycle!Page(i, t, c[k], "SENT")] = PagesOf(i, t, c)
  /\ \A step : PageChannels(step) = {} => Lifecycle!ChannelsOf(step) = << >>
  /\ \A step : \A c \in PageChannels(step) : Lifecycle!ChannelsOf(step) = c
<1>1. \A d, n : Lifecycle!PagedTimes(d, n) = [d EXCEPT !.log = @ \o Pageds(n)]
  BY Zenon DEF Lifecycle!PagedTimes, Pageds
<1>2. \A i, t, c : [k \in DOMAIN c |-> Lifecycle!Page(i, t, c[k], "SENT")] = PagesOf(i, t, c)
  BY Zenon DEF Lifecycle!Page, Page, PagesOf
<1>3. \A step : Lifecycle!PageChannels(step) = PageChannels(step)
  BY SameOperators
<1>4. \A step : PageChannels(step) = {} => Lifecycle!ChannelsOf(step) = << >>
  BY <1>3 DEF Lifecycle!ChannelsOf
<1>5. ASSUME NEW step, NEW c \in PageChannels(step)
      PROVE  Lifecycle!ChannelsOf(step) = c
  <2>1. Lifecycle!PageChannels(step) # {}
    BY <1>3
  <2>2. Lifecycle!ChannelsOf(step) \in Lifecycle!PageChannels(step)
    BY <2>1 DEF Lifecycle!ChannelsOf
  <2>3. Lifecycle!ChannelsOf(step) \in PageChannels(step)
    BY <1>3, <2>2
  <2> QED
    BY <2>3, OneChannelList
<1> QED
  BY <1>1, <1>2, <1>4, <1>5

LEMMA CommitClimbs ==
  ASSUME IInv, TypeOK', OneAtATime, NEW w \in Workers, Commit(w),
         ClimbsFrom(worker[w], rows[worker[w].id], age[worker[w].id])
  PROVE  \E minutes \in 0 .. age[worker[w].id] : Lifecycle!EscalateAt(worker[w].id, minutes)
<1> DEFINE r == worker[w]
           i == r.id
           d == rows[i]
<1>1. r.pc = "commit" /\ i \in Incidents /\ UNCHANGED age /\ TypeOK
      /\ r.channels \in Seq(NotificationChannels) /\ r.doc \in Docs /\ r.doc.log \in Seq(Logged)
      /\ r.doc.tier \in Tiers
  BY BusyWith DEF Commit, At, IInv
<1>2. d # NoDoc /\ r.event = NoEvent /\ d \in Docs /\ i \in Incidents
  BY <1>1 DEF ClimbsFrom, TypeOK
<1>3. /\ DoneRows = rows /\ DoneOutbox = outbox /\ DoneAudit = audit
      /\ DoneNotifications = Sents(notifications)
  BY <1>1, MappedBefore
<1>4. PICK minutes \in 0 .. age[i] : \E step \in Escalations(Severity[i], minutes, d.tier) :
          /\ r.doc = Escalated(d, step.tier)
          /\ \/ PageChannels(step) = {} /\ r.paging = FALSE
             \/ r.channels \in PageChannels(step) /\ r.paging = TRUE
  BY DEF ClimbsFrom
<1>5. PICK step \in Escalations(Severity[i], minutes, d.tier) :
          /\ r.doc = Escalated(d, step.tier)
          /\ \/ PageChannels(step) = {} /\ r.paging = FALSE
             \/ r.channels \in PageChannels(step) /\ r.paging = TRUE
  BY <1>4
<1> DEFINE c == Lifecycle!ChannelsOf(step)
           written == [r.doc EXCEPT !.log = @ \o Pageds(Len(c))]
<1>6. /\ DoneRows' = [rows EXCEPT ![i] = written]
      /\ DoneOutbox' = outbox /\ DoneAudit' = audit
      /\ DoneNotifications' = Sents(notifications) \o PagesOf(i, r.doc.tier, c)
  <2>1. CASE PageChannels(step) = {} /\ r.paging = FALSE
    <3>1. c = << >> /\ Len(c) = 0
      BY <2>1, SamePages
    <3>2. Pageds(0) = << >>
      BY PagedsTyped, EmptySeq
    <3>3. r.doc.log \o << >> = r.doc.log
      BY <1>1, ConcatEmptySeq
    <3>4. written = r.doc
      <4>1. [r.doc EXCEPT !.log = r.doc.log] = r.doc
        BY <1>1, LogReplaced
      <4> QED
        BY <3>1, <3>2, <3>3, <4>1
    <3>5. PagesOf(i, r.doc.tier, c) = << >>
      <4>1. << >> \in Seq(NotificationChannels)
        OBVIOUS
      <4>2. /\ PagesOf(i, r.doc.tier, << >>) \in Seq(Pages)
            /\ Len(PagesOf(i, r.doc.tier, << >>)) = Len(<< >>)
        BY <1>1, <4>1, PagesTyped
      <4>3. PagesOf(i, r.doc.tier, << >>) = << >>
        BY <4>2, EmptySeq
      <4> QED
        BY <3>1, <4>3
    <3>6. Sents(notifications) \o << >> = Sents(notifications)
      BY <1>1, SentsTyped, ConcatEmptySeq DEF TypeOK
    <3>7. /\ DoneRows' = [rows EXCEPT ![i] = r.doc]
          /\ DoneOutbox' = outbox /\ DoneAudit' = audit
          /\ DoneNotifications' = Sents(notifications)
      BY <1>2, <2>1, CommitMaps
    <3> HIDE DEF c, written
    <3> QED
      BY <3>4, <3>5, <3>6, <3>7
  <2>2. CASE r.channels \in PageChannels(step) /\ r.paging = TRUE
    <3>1. c = r.channels
      BY <2>2, SamePages
    <3>2. /\ DoneRows' = [rows EXCEPT ![i] = [r.doc EXCEPT !.log = @ \o Pageds(Len(r.channels))]]
          /\ DoneOutbox' = outbox /\ DoneAudit' = audit
          /\ DoneNotifications' = Sents(notifications) \o PagesOf(i, r.doc.tier, r.channels)
      BY <1>2, <2>2, CommitMaps
    <3> HIDE DEF c
    <3> QED
      BY <3>1, <3>2
  <2> QED
    BY <1>5, <2>1, <2>2
<1>7. r.doc.tier = step.tier
  <2>1. Escalated(d, step.tier).tier = step.tier
    BY <1>2, TiersOfResults
  <2> QED
    BY <1>5, <2>1
<1>8. step \in Lifecycle!Escalations(Severity[i], minutes, DoneRows[i].tier) /\ Lifecycle!Exists(i)
  BY <1>2, <1>3, <1>5, SameOperators DEF Lifecycle!Exists
<1>9. DoneRows' = [DoneRows EXCEPT ![i] = Lifecycle!PagedTimes(Lifecycle!Escalated(@, step.tier), Len(c))]
  <2>1. Lifecycle!PagedTimes(Lifecycle!Escalated(DoneRows[i], step.tier), Len(c)) = written
    <3>1. Lifecycle!Escalated(DoneRows[i], step.tier) = r.doc
      BY <1>3, <1>5, SameOperators
    <3> HIDE DEF c
    <3> QED
      BY <3>1, SamePages
  <2> HIDE DEF c, written
  <2> QED
    BY <1>2, <1>3, <1>6, <2>1
<1>10. DoneNotifications' = DoneNotifications \o
           [k \in DOMAIN c |-> Lifecycle!Page(i, step.tier, c[k], "SENT")]
  <2> HIDE DEF c
  <2> QED
    BY <1>3, <1>6, <1>7, SamePages
<1>11. UNCHANGED <<DoneOutbox, DoneAudit, age>>
  BY <1>1, <1>3, <1>6
<1>12. Lifecycle!EscalateAt(i, minutes)
  <2> HIDE DEF written
  <2> QED
    BY <1>8, <1>9, <1>10, <1>11 DEF Lifecycle!EscalateAt
<1> QED
  BY <1>4, <1>12

-----------------------------------------------------------------------------
(***************************************************************************)
(* What a request holds, and the bounds, are kept by every step.           *)
(***************************************************************************)
LEMMA RoomGrows ==
  ASSUME TypeOK
  PROVE  /\ Share \in Nat \ {0} /\ Room \in Nat
         /\ requests' = requests => Room' = Room
         /\ requests' = requests + 1 => Room' = Room + Share
         /\ Room <= MaxRequests * (MaxPages + 1)
<1>1. Share \in Nat \ {0} /\ requests \in Nat /\ MaxRequests \in Nat /\ requests <= MaxRequests
  BY MaxPagesAssumption, BoundsAssumption DEF Share, TypeOK
<1>2. ASSUME NEW m \in Nat, NEW n \in Nat
      PROVE  m * n \in Nat
  OBVIOUS
<1>3. (requests + 1) * Share = requests * Share + Share
  BY <1>1
<1>4. requests * Share <= MaxRequests * Share
  <2>1. PICK k \in Nat : MaxRequests = requests + k
    <3>1. MaxRequests - requests \in Nat /\ MaxRequests = requests + (MaxRequests - requests)
      BY <1>1
    <3> QED
      BY <3>1
  <2>2. (requests + k) * Share = requests * Share + k * Share
    BY <1>1
  <2>3. requests * Share \in Nat /\ k * Share \in Nat
    BY <1>1, <1>2
  <2> QED
    BY <2>1, <2>2, <2>3
<1>5. Room \in Nat
  BY <1>1, <1>2 DEF Room
<1>6. requests' = requests + 1 => Room' = Room + Share
  BY <1>3 DEF Room, Share
<1>7. requests' = requests => Room' = Room
  BY DEF Room, Share
<1> QED
  BY <1>1, <1>4, <1>5, <1>6, <1>7 DEF Room, Share

LEMMA LengthsTyped ==
  ASSUME TypeOK
  PROVE  /\ \A i \in Incidents : ChangesOf(i) \in Nat /\ LogOf(i) \in Nat
         /\ \A r \in Requests \cup {Idle} : ToChange(r) \in Nat
         /\ requests \in Nat /\ 2 * requests \in Nat
<1>1. ASSUME NEW i \in Incidents
      PROVE  ChangesOf(i) \in Nat /\ LogOf(i) \in Nat
  <2>1. Exists(i) => rows[i].changes \in Seq(Changes) /\ rows[i].log \in Seq(Logged)
    BY DEF TypeOK, Exists, Docs
  <2> QED
    BY <2>1, LenProperties DEF ChangesOf, LogOf
<1>2. ASSUME NEW r \in Requests \cup {Idle}
      PROVE  ToChange(r) \in Nat
  <2>1. CASE r.pc = "idle"
    BY <2>1 DEF ToChange
  <2>2. CASE r.pc # "idle"
    <3>1. r.bulk.ids \in Seq(Incidents)
      BY <2>2 DEF Requests, Idle
    <3>2. Len(r.bulk.ids) \in Nat
      BY <3>1, LenProperties
    <3>3. ToChange(r) = Len(r.bulk.ids) + 1 \/ ToChange(r) = Len(r.bulk.ids) + 0
      BY <2>2 DEF ToChange
    <3> QED
      BY <3>2, <3>3
  <2> QED
    BY <2>1, <2>2
<1> QED
  BY <1>1, <1>2, BoundsAssumption DEF TypeOK

\* A request starts.
LEMMA StartRef ==
  ASSUME IInv, TypeOK', RefInv, OneAtATime, NEW w \in Workers, NEW r, Start(w, r),
         r.pc \in {"commit", "bulk"}, HoldsResult(r), ToChange(r) <= 2
  PROVE  RefInv'
<1>1. TypeOK /\ UNCHANGED <<rows, age>> /\ requests' = requests + 1 /\ worker[w].pc = "idle"
  BY DEF IInv, Start, Busy
<1>2. \A v \in Workers : v = w /\ worker'[v] = r
  BY <1>1 DEF OneAtATime, TypeOK, Start
<1>3. r \in Requests \cup {Idle}
  BY <1>2 DEF TypeOK
<1>4. \A i : ChangesOf(i)' = ChangesOf(i) /\ LogOf(i)' = LogOf(i)
  BY <1>1 DEF ChangesOf, LogOf, Exists
<1>5. Room' = Room + Share /\ Room \in Nat /\ Share \in Nat
  BY <1>1, RoomGrows
<1>6. HoldsResult(r)' /\ PagesAfterWriting(r)'
  BY <1>1 DEF HoldsResult, PagesAfterWriting
<1>7. \A i \in Incidents : LogOf(i) <= Room /\ LogOf(i) \in Nat
  BY <1>1, LengthsTyped DEF RefInv, LogsFit
<1>8. LogFits(r)'
  <2>1. r.pc = "commit" => r.id \in Incidents
    BY <1>3 DEF Requests, Idle
  <2>2. r.pc = "commit" => LogOf(r.id)' + Share <= Room'
    BY <1>4, <1>5, <1>7, <2>1
  <2>3. Share' = Share /\ r.pc \notin {"page", "sent"}
    BY DEF Share
  <2> QED
    BY <2>2, <2>3 DEF LogFits
<1>9. ChangesFit(r)'
  <2>1. \A i \in Incidents : ChangesOf(i) <= 2 * requests
    <3>1. ToChange(worker[w]) = 0
      BY <1>1 DEF ToChange
    <3>2. \A i \in Incidents : ChangesOf(i) + ToChange(worker[w]) <= 2 * requests
      BY DEF RefInv, ChangesFit
    <3> QED
      BY <1>1, <3>1, <3>2, LengthsTyped
  <2>2. 2 * requests' = 2 * requests + 2
    BY <1>1, LengthsTyped
  <2>3. \A i \in Incidents : ChangesOf(i) \in Nat /\ ToChange(r) \in Nat /\ 2 * requests \in Nat
    BY <1>1, <1>3, LengthsTyped
  <2> QED
    BY <1>4, <2>1, <2>2, <2>3 DEF ChangesFit
<1>10. LogsFit'
  BY <1>4, <1>5, <1>7 DEF LogsFit
<1> QED
  BY <1>2, <1>6, <1>8, <1>9, <1>10 DEF RefInv

\* A step of the request that writes no document.
LEMMA MoveRef ==
  ASSUME IInv, TypeOK', RefInv, OneAtATime, NEW w \in Workers, NEW r,
         worker' = [worker EXCEPT ![w] = r], UNCHANGED <<rows, age, requests>>,
         HoldsResult(r), PagesAfterWriting(r), LogFits(r), ToChange(r) <= ToChange(worker[w])
  PROVE  RefInv'
<1>1. TypeOK
  BY DEF IInv
<1>2. \A v \in Workers : v = w /\ worker'[v] = r
  BY <1>1 DEF OneAtATime, TypeOK
<1>3. r \in Requests \cup {Idle}
  BY <1>2 DEF TypeOK
<1>4. \A i : ChangesOf(i)' = ChangesOf(i) /\ LogOf(i)' = LogOf(i)
  BY DEF ChangesOf, LogOf, Exists
<1>5. Room' = Room
  BY <1>1, RoomGrows
<1>6. HoldsResult(r)' /\ PagesAfterWriting(r)' /\ LogFits(r)'
  BY <1>4, <1>5 DEF HoldsResult, PagesAfterWriting, LogFits, Exists
<1>7. ChangesFit(r)'
  <2>1. \A i \in Incidents : ChangesOf(i) + ToChange(worker[w]) <= 2 * requests
    BY DEF RefInv, ChangesFit
  <2>2. \A i \in Incidents : ChangesOf(i) \in Nat
    BY <1>1, LengthsTyped
  <2>3. ToChange(r) \in Nat /\ ToChange(worker[w]) \in Nat /\ 2 * requests \in Nat
    BY <1>1, <1>3, LengthsTyped DEF TypeOK
  <2> QED
    BY <1>4, <2>1, <2>2, <2>3 DEF ChangesFit
<1>8. LogsFit'
  BY <1>4, <1>5 DEF LogsFit, RefInv
<1> QED
  BY <1>2, <1>6, <1>7, <1>8 DEF RefInv

LEMMA SingleIsOne ==
  ASSUME NEW r, r.pc = "commit", r.bulk = NoBulk
  PROVE  ToChange(r) <= 2
<1>1. Len(r.bulk.ids) = 0
  BY DEF NoBulk
<1>2. ToChange(r) = 0 + 1
  BY <1>1 DEF ToChange
<1> QED
  BY <1>2

LEMMA BeginRef ==
  ASSUME IInv, TypeOK', RefInv, OneAtATime, NEW w \in Workers, Begin(w)
  PROVE  RefInv'
<1>1. ASSUME NEW i \in Incidents, Create(w, i)
      PROVE  RefInv'
  <2> DEFINE r == Request("commit", i, NewDoc, CreatedEvent(i), << >>, NoBulk)
  <2>1. Start(w, r) /\ rows[i] = NoDoc
    BY <1>1 DEF Create, Exists
  <2>2. r.pc = "commit" /\ r.id = i /\ r.doc = NewDoc /\ r.event = CreatedEvent(i) /\ r.bulk = NoBulk
    BY DEF Request
  <2> HIDE DEF r
  <2>3. HoldsResult(r)
    BY <2>1, <2>2 DEF HoldsResult, CreatesFrom
  <2> QED
    BY <2>1, <2>2, <2>3, SingleIsOne, StartRef
<1>2. ASSUME NEW i \in Incidents, NEW target \in States, NEW expected, Transition(w, i, target, expected)
      PROVE  RefInv'
  <2> DEFINE d == rows[i]
             r == ToTransition(i, target, NoBulk)
  <2>1. Start(w, r) /\ d # NoDoc /\ CanTransition(d.state, target)
    BY <1>2 DEF Transition, Exists, MayTransition
  <2>2. /\ r.pc = "commit" /\ r.id = i /\ r.doc = Transitioned(d, target)
        /\ r.event = ChangedEvent(i, d.state, target) /\ r.bulk = NoBulk
    BY DEF ToTransition, Request
  <2> HIDE DEF r
  <2>3. HoldsResult(r)
    BY <2>1, <2>2 DEF HoldsResult, MovesFrom
  <2> QED
    BY <2>1, <2>2, <2>3, SingleIsOne, StartRef
<1>3. ASSUME NEW i \in Incidents, NEW d, Exists(i), Update(w, i, d),
             \/ \E a \in Assignees : d = Assigned(rows[i], a)
             \/ d = Noted(rows[i])
             \/ \E x \in Remediations : d = Linked(rows[i], x)
      PROVE  RefInv'
  <2> DEFINE r == Request("commit", i, d, NoEvent, << >>, NoBulk)
  <2>1. Start(w, r) /\ rows[i] # NoDoc
    BY <1>3 DEF Update, Exists
  <2>2. /\ r.pc = "commit" /\ r.id = i /\ r.doc = d /\ r.event = NoEvent /\ r.paging = FALSE
        /\ r.bulk = NoBulk
    BY DEF Request
  <2> HIDE DEF r
  <2>3. HoldsResult(r)
    BY <1>3, <2>1, <2>2 DEF HoldsResult, UpdatesFrom
  <2> QED
    BY <2>1, <2>2, <2>3, SingleIsOne, StartRef
<1>4. ASSUME NEW i \in Incidents, Escalate(w, i)
      PROVE  RefInv'
  <2>1. Exists(i) /\ age[i] \in Nat /\ age[i] \in 0 .. age[i]
    BY <1>4 DEF Escalate, IInv, TypeOK
  <2>2. PICK step \in Escalations(Severity[i], age[i], rows[i].tier) :
          LET d == Escalated(rows[i], step.tier)
          IN  \/ PageChannels(step) = {} /\ Update(w, i, d)
              \/ \E channels \in PageChannels(step) :
                    Start(w, [Request("commit", i, d, NoEvent, channels, NoBulk)
                                EXCEPT !.paging = TRUE])
    BY <1>4 DEF Escalate
  <2> DEFINE d == Escalated(rows[i], step.tier)
  <2>3. CASE PageChannels(step) = {} /\ Update(w, i, d)
    <3> DEFINE r == Request("commit", i, d, NoEvent, << >>, NoBulk)
    <3>1. Start(w, r)
      BY <2>3 DEF Update
    <3>2. /\ r.pc = "commit" /\ r.id = i /\ r.doc = d /\ r.event = NoEvent /\ r.paging = FALSE
          /\ r.bulk = NoBulk
      BY DEF Request
    <3> HIDE DEF r
    <3>3. HoldsResult(r)
      BY <2>1, <2>2, <2>3, <3>2 DEF HoldsResult, ClimbsFrom, Exists
    <3> QED
      BY <3>1, <3>2, <3>3, SingleIsOne, StartRef
  <2>4. ASSUME NEW channels \in PageChannels(step),
               Start(w, [Request("commit", i, d, NoEvent, channels, NoBulk) EXCEPT !.paging = TRUE])
        PROVE  RefInv'
    <3> DEFINE r == [Request("commit", i, d, NoEvent, channels, NoBulk) EXCEPT !.paging = TRUE]
    <3>1. Start(w, r)
      BY <2>4
    <3>2. /\ r.pc = "commit" /\ r.id = i /\ r.doc = d /\ r.event = NoEvent /\ r.paging = TRUE
          /\ r.channels = channels /\ r.bulk = NoBulk
      BY DEF Request
    <3> HIDE DEF r
    <3>3. HoldsResult(r)
      BY <2>1, <2>2, <3>2 DEF HoldsResult, ClimbsFrom, Exists
    <3> QED
      BY <3>1, <3>2, <3>3, SingleIsOne, StartRef
  <2> QED
    BY <2>2, <2>3, <2>4
<1>5. ASSUME NEW ids \in BulkLists, NEW target \in States, BulkTransition(w, ids, target)
      PROVE  RefInv'
  <2> DEFINE r == Request("bulk", ids[1], NoDoc, NoEvent, << >>, [ids |-> ids, target |-> target])
  <2>1. Start(w, r)
    BY <1>5 DEF BulkTransition
  <2>2. r.pc = "bulk" /\ r.bulk.ids = ids
    BY DEF Request
  <2>3. Len(ids) = 2
    BY DEF BulkLists
  <2> HIDE DEF r
  <2>4. ToChange(r) = 2 + 0
    BY <2>2, <2>3 DEF ToChange
  <2>5. HoldsResult(r)
    BY <2>2 DEF HoldsResult
  <2> QED
    BY <2>1, <2>2, <2>4, <2>5, StartRef
<1> QED
  BY <1>1, <1>2, <1>3, <1>4, <1>5 DEF Begin, Assign, AddNote, LinkRemediation

LEMMA BulkNextRef ==
  ASSUME IInv, TypeOK', RefInv, OneAtATime, NEW w \in Workers, BulkNext(w)
  PROVE  RefInv'
<1> DEFINE ids    == worker[w].bulk.ids
           i      == Head(ids)
           target == worker[w].bulk.target
           rest   == [ids |-> Tail(ids), target |-> target]
           r == IF Exists(i) /\ MayTransition(rows[i], target, {})
                THEN ToTransition(i, target, rest)
                ELSE IF rest.ids = << >> THEN Idle
                ELSE Request("bulk", i, NoDoc, NoEvent, << >>, rest)
<1>1. worker[w].pc = "bulk" /\ worker[w] \in Requests /\ ids # << >>
  BY BusyHasRequest DEF BulkNext, At, Busy, IInv, GoodRequest, HoldsWork
<1>2. worker' = [worker EXCEPT ![w] = r] /\ UNCHANGED <<rows, age, requests>>
  BY DEF BulkNext
<1>3. ids \in Seq(Incidents) /\ i \in Incidents /\ target \in States
      /\ Len(Tail(ids)) = Len(ids) - 1 /\ Len(ids) \in Nat \ {0}
  <2>1. ids \in Seq(Incidents) /\ target \in States
    BY <1>1 DEF Requests
  <2> QED
    BY <1>1, <2>1, HeadTailProperties, EmptySeq
<1>4. ToChange(worker[w]) = Len(ids) + 0
  BY <1>1 DEF ToChange
<1>5. CASE Exists(i) /\ MayTransition(rows[i], target, {})
  <2> DEFINE d == rows[i]
  <2>1. /\ r.pc = "commit" /\ r.id = i /\ r.doc = Transitioned(d, target)
        /\ r.event = ChangedEvent(i, d.state, target) /\ r.bulk = rest
    BY <1>5 DEF ToTransition, Request
  <2>2. d # NoDoc /\ CanTransition(d.state, target)
    BY <1>5 DEF Exists, MayTransition
  <2>3. rest.ids = Tail(ids)
    OBVIOUS
  <2> HIDE DEF r, ids, target, rest
  <2>4. HoldsResult(r)
    BY <1>3, <2>1, <2>2 DEF HoldsResult, MovesFrom
  <2>5. ToChange(r) = (Len(ids) - 1) + 1
    BY <1>3, <2>1, <2>3 DEF ToChange
  <2>6. PagesAfterWriting(r) /\ LogFits(r)
    BY <2>1, EventsDiffer DEF PagesAfterWriting, LogFits
  <2>7. ToChange(r) <= ToChange(worker[w])
    BY <1>3, <1>4, <2>5
  <2> QED
    BY <1>2, <2>4, <2>6, <2>7, MoveRef
<1>6. CASE ~ (Exists(i) /\ MayTransition(rows[i], target, {}))
  <2>1. r.pc = "idle" \/ (r.pc = "bulk" /\ r.bulk = rest)
    BY <1>6 DEF Idle, Request
  <2>2. rest.ids = Tail(ids)
    OBVIOUS
  <2> HIDE DEF r, ids, target, rest
  <2>3. HoldsResult(r) /\ PagesAfterWriting(r) /\ LogFits(r)
    BY <2>1 DEF HoldsResult, PagesAfterWriting, LogFits
  <2>4. ToChange(r) = 0 \/ ToChange(r) = (Len(ids) - 1) + 0
    BY <1>3, <2>1, <2>2 DEF ToChange
  <2>5. ToChange(r) <= ToChange(worker[w])
    BY <1>3, <1>4, <2>4
  <2> QED
    BY <1>2, <2>3, <2>5, MoveRef
<1> QED
  BY <1>5, <1>6

\* A request that is over, or goes on with its next id, has less to change.
LEMMA FinishedHasLess ==
  ASSUME IInv, NEW w \in Workers, Busy(w)
  PROVE  \E r : /\ Finished(w) = [worker EXCEPT ![w] = r] /\ r.pc \in {"idle", "bulk"}
                /\ ToChange(r) <= ToChange(worker[w])
                /\ worker[w].pc = "commit" => ToChange(r) + 1 <= ToChange(worker[w])
<1> DEFINE x == worker[w]
           r == IF x.bulk.ids = << >> THEN Idle ELSE [x EXCEPT !.pc = "bulk"]
<1>1. x \in Requests /\ x.pc # "idle" /\ TypeOK
  BY BusyHasRequest DEF IInv, Busy
<1>2. x.bulk.ids \in Seq(Incidents) /\ Len(x.bulk.ids) \in Nat
  <2>1. x.bulk.ids \in Seq(Incidents)
    BY <1>1 DEF Requests
  <2> QED
    BY <2>1, LenProperties
<1>3. ToChange(x) = IF x.pc = "commit" THEN Len(x.bulk.ids) + 1 ELSE Len(x.bulk.ids) + 0
  BY <1>1 DEF ToChange
<1>4. Finished(w) = [worker EXCEPT ![w] = r]
  BY DEF Finished, IInv, TypeOK
<1>5. CASE x.bulk.ids = << >>
  <2>1. r.pc = "idle"
    BY <1>5 DEF Idle
  <2> HIDE DEF r
  <2>2. ToChange(r) = 0
    BY <2>1 DEF ToChange
  <2>3. ToChange(r) <= ToChange(x) /\ (x.pc = "commit" => ToChange(r) + 1 <= ToChange(x))
    BY <1>2, <1>3, <2>2
  <2> QED
    BY <1>4, <2>1, <2>3
<1>6. CASE x.bulk.ids # << >>
  <2>1. r.pc = "bulk" /\ r.bulk = x.bulk
    BY <1>1, <1>6 DEF Requests
  <2> HIDE DEF r
  <2>2. ToChange(r) = Len(x.bulk.ids) + 0
    BY <2>1 DEF ToChange
  <2>3. ToChange(r) <= ToChange(x) /\ (x.pc = "commit" => ToChange(r) + 1 <= ToChange(x))
    BY <1>2, <1>3, <2>2
  <2> QED
    BY <1>4, <2>1, <2>3
<1> QED
  BY <1>5, <1>6

LEMMA QuietRef ==
  ASSUME IInv, TypeOK', RefInv, OneAtATime, NEW w \in Workers, Emit(w) \/ Audit(w) \/ Crash(w)
  PROVE  RefInv'
<1>1. UNCHANGED <<rows, age, requests>> /\ TypeOK
  BY DEF Emit, Audit, Crash, IInv
<1>2. \A r : r.pc \notin {"commit", "page", "sent"} =>
         HoldsResult(r) /\ PagesAfterWriting(r) /\ LogFits(r)
  BY DEF HoldsResult, PagesAfterWriting, LogFits
<1>3. CASE Emit(w)
  <2> DEFINE r == [worker[w] EXCEPT !.pc = "audit"]
  <2>1. worker[w].pc = "emit" /\ worker[w] \in Requests /\ worker' = [worker EXCEPT ![w] = r]
    BY <1>1, <1>3, BusyHasRequest DEF Emit, At, Goto, Busy, TypeOK
  <2>2. r.pc = "audit" /\ r.bulk = worker[w].bulk
    BY <2>1 DEF Requests
  <2>3. Len(r.bulk.ids) \in Nat
    BY <2>1, <2>2, LenProperties DEF Requests
  <2> HIDE DEF r
  <2>4. ToChange(r) = Len(r.bulk.ids) + 0 /\ ToChange(worker[w]) = Len(r.bulk.ids) + 0
    BY <2>1, <2>2 DEF ToChange
  <2>5. ToChange(r) <= ToChange(worker[w])
    BY <2>3, <2>4
  <2> QED
    BY <1>1, <1>2, <2>1, <2>2, <2>5, MoveRef
<1>4. CASE Audit(w)
  <2>1. PICK r : /\ Finished(w) = [worker EXCEPT ![w] = r] /\ r.pc \in {"idle", "bulk"}
                 /\ ToChange(r) <= ToChange(worker[w])
    BY <1>4, FinishedHasLess DEF Audit, At, Busy
  <2>2. worker' = [worker EXCEPT ![w] = r]
    BY <1>4, <2>1 DEF Audit
  <2> QED
    BY <1>1, <1>2, <2>1, <2>2, MoveRef
<1>5. CASE Crash(w)
  <2>1. Idle.pc = "idle" /\ ToChange(Idle) = 0 /\ worker' = [worker EXCEPT ![w] = Idle]
    BY <1>5 DEF Crash, Idle, ToChange
  <2>2. ToChange(worker[w]) \in Nat
    BY <1>1, LengthsTyped DEF TypeOK
  <2>3. ToChange(Idle) <= ToChange(worker[w])
    BY <2>1, <2>2
  <2> QED
    BY <1>1, <1>2, <2>1, <2>3, MoveRef
<1> QED
  BY <1>3, <1>4, <1>5

LEMMA PageRef ==
  ASSUME IInv, TypeOK', RefInv, OneAtATime, NEW w \in Workers, Notify(w) \/ MarkSent(w)
  PROVE  RefInv'
<1> DEFINE x == worker[w]
<1>1. UNCHANGED <<rows, age, requests>> /\ TypeOK /\ x.pc \in {"page", "sent"} /\ x.channels # << >>
  BY DEF Notify, MarkSent, At, IInv, GoodRequest, HoldsWork
<1>2. /\ x \in Requests /\ x.doc \in Docs /\ x.channels \in Seq(NotificationChannels)
      /\ x.doc.log \in Seq(Logged)
  BY <1>1, BusyWith
<1>3. /\ Exists(x.id) /\ x.doc.changes = rows[x.id].changes
      /\ Len(x.doc.log) + Len(x.channels) <= Room
  BY <1>1 DEF RefInv, PagesAfterWriting, LogFits
<1>4. ToChange(x) = Len(x.bulk.ids) + 0 /\ Len(x.bulk.ids) \in Nat
  <2>1. x.bulk.ids \in Seq(Incidents)
    BY <1>2 DEF Requests
  <2> QED
    BY <1>1, <2>1, LenProperties DEF ToChange
<1>5. ASSUME NEW r, worker' = [worker EXCEPT ![w] = r], r.pc \in {"page", "sent"}, r.id = x.id,
             r.doc.changes = x.doc.changes, r.bulk = x.bulk,
             Len(r.doc.log) + Len(r.channels) = Len(x.doc.log) + Len(x.channels)
      PROVE  RefInv'
  <2>1. HoldsResult(r) /\ PagesAfterWriting(r) /\ LogFits(r)
    BY <1>3, <1>5 DEF HoldsResult, PagesAfterWriting, LogFits
  <2>2. ToChange(r) = Len(x.bulk.ids) + 0
    BY <1>5 DEF ToChange
  <2>3. ToChange(r) <= ToChange(x)
    BY <1>4, <2>2
  <2> QED
    BY <1>1, <1>5, <2>1, <2>3, MoveRef
<1>6. CASE Notify(w)
  <2> DEFINE r == [x EXCEPT !.pc = "sent", !.slot = Len(notifications) + 1]
  <2>1. worker' = [worker EXCEPT ![w] = r]
    BY <1>1, <1>6 DEF Notify, TypeOK
  <2>2. r.pc = "sent" /\ r.id = x.id /\ r.doc = x.doc /\ r.bulk = x.bulk /\ r.channels = x.channels
    BY <1>2 DEF Requests
  <2> HIDE DEF r
  <2> QED
    BY <1>5, <2>1, <2>2
<1>7. CASE MarkSent(w)
  <2> DEFINE r == [x EXCEPT !.pc = "page", !.slot = 0, !.channels = Tail(@), !.doc = Paged(@)]
  <2>1. worker' = [worker EXCEPT ![w] = r]
    BY <1>1, <1>7 DEF MarkSent, TypeOK
  <2>2. /\ r.pc = "page" /\ r.id = x.id /\ r.doc = Paged(x.doc) /\ r.bulk = x.bulk
        /\ r.channels = Tail(x.channels)
    BY <1>2 DEF Requests
  <2> HIDE DEF r
  <2>3. r.doc.changes = x.doc.changes /\ r.doc.log = Append(x.doc.log, PagedEntry)
    BY <1>2, <2>2, LogReplaced
  <2>4. Len(r.doc.log) = Len(x.doc.log) + 1
    <3>1. PagedEntry \in Logged
      BY DEF PagedEntry, Logged
    <3> QED
      BY <1>2, <2>3, <3>1, AppendProperties
  <2>5. Len(r.channels) = Len(x.channels) - 1
    BY <1>1, <1>2, <2>2, HeadTailProperties
  <2>6. Len(x.doc.log) \in Nat /\ Len(x.channels) \in Nat
    BY <1>2, LenProperties
  <2>7. Len(r.doc.log) + Len(r.channels) = Len(x.doc.log) + Len(x.channels)
    <3>1. \A a, b \in Nat : (a + 1) + (b - 1) = a + b
      OBVIOUS
    <3> QED
      BY <2>4, <2>5, <2>6, <3>1
  <2> QED
    BY <1>5, <2>1, <2>2, <2>3, <2>7
<1> QED
  BY <1>6, <1>7

LEMMA TickRef ==
  ASSUME IInv, TypeOK', RefInv, Tick
  PROVE  RefInv'
<1>1. UNCHANGED <<rows, worker, requests>> /\ TypeOK
  BY DEF Tick, IInv
<1>2. \A i \in Incidents : age[i] \in Nat /\ age'[i] \in Nat /\ age[i] <= age'[i]
  BY <1>1, BoundsAssumption DEF Tick, TypeOK
<1>3. ASSUME NEW w \in Workers
      PROVE  HoldsResult(worker[w])'
  <2> DEFINE r == worker[w]
  <2>1. ASSUME r.pc = "commit"
        PROVE  r.id \in Incidents
    BY <1>1, <2>1, BusyWith
  <2>2. \A d : r.pc = "commit" /\ ClimbsFrom(r, d, age[r.id]) => ClimbsFrom(r, d, age'[r.id])
    <3>1. r.pc = "commit" => \A m \in 0 .. age[r.id] : m \in 0 .. age'[r.id]
      BY <1>2, <2>1
    <3> QED
      BY <3>1 DEF ClimbsFrom
  <2>3. HoldsResult(r)
    BY DEF RefInv
  <2> QED
    BY <1>1, <2>2, <2>3 DEF HoldsResult, CreatesFrom, MovesFrom, UpdatesFrom
<1>4. Room' = Room /\ \A i : ChangesOf(i)' = ChangesOf(i) /\ LogOf(i)' = LogOf(i)
  BY <1>1, RoomGrows DEF ChangesOf, LogOf, Exists
<1>5. \A w \in Workers : PagesAfterWriting(worker[w])' /\ LogFits(worker[w])' /\ ChangesFit(worker[w])'
  BY <1>1, <1>4 DEF RefInv, PagesAfterWriting, LogFits, ChangesFit, Exists, Share
<1> QED
  BY <1>3, <1>4, <1>5 DEF RefInv, LogsFit

\* A step of the request that writes its document.
LEMMA WriteRef ==
  ASSUME IInv, TypeOK', RefInv, OneAtATime, NEW w \in Workers, NEW q,
         NEW i \in Incidents, NEW d \in Docs,
         worker' = [worker EXCEPT ![w] = q], rows' = [rows EXCEPT ![i] = d],
         UNCHANGED <<age, requests>>, q.pc # "commit",
         q.pc \in {"page", "sent"} =>
            q.id = i /\ q.doc = d /\ Len(d.log) + Len(q.channels) <= Room,
         Len(d.changes) + ToChange(q) <= 2 * requests, ToChange(q) <= ToChange(worker[w]),
         Len(d.log) <= Room
  PROVE  RefInv'
<1>1. TypeOK
  BY DEF IInv
<1>2. \A v \in Workers : v = w /\ worker'[v] = q
  BY <1>1 DEF OneAtATime, TypeOK
<1>3. \A j \in Incidents : rows'[j] = IF j = i THEN d ELSE rows[j]
  BY <1>1 DEF TypeOK
<1>4. d # NoDoc
  BY NoDocAssumption
<1>5. Room' = Room
  BY <1>1, RoomGrows
<1>6. /\ ChangesOf(i)' = Len(d.changes) /\ LogOf(i)' = Len(d.log)
      /\ \A j \in Incidents : j # i => ChangesOf(j)' = ChangesOf(j) /\ LogOf(j)' = LogOf(j)
  BY <1>3, <1>4 DEF ChangesOf, LogOf, Exists
<1>7. HoldsResult(q)' /\ PagesAfterWriting(q)'
  BY <1>3, <1>4 DEF HoldsResult, PagesAfterWriting, Exists
<1>8. LogFits(q)'
  BY <1>5 DEF LogFits
<1>9. ChangesFit(q)'
  <2>1. \A j \in Incidents : ChangesOf(j) + ToChange(worker[w]) <= 2 * requests
    BY DEF RefInv, ChangesFit
  <2>2. q \in Requests \cup {Idle}
    BY <1>2 DEF TypeOK
  <2>3. /\ ToChange(q) \in Nat /\ ToChange(worker[w]) \in Nat /\ 2 * requests \in Nat
        /\ \A j \in Incidents : ChangesOf(j) \in Nat
    BY <1>1, <2>2, LengthsTyped DEF TypeOK
  <2>4. ASSUME NEW j \in Incidents
        PROVE  ChangesOf(j)' + ToChange(q) <= 2 * requests
    <3>1. CASE j = i
      BY <1>6, <3>1
    <3>2. CASE j # i
      BY <1>6, <2>1, <2>3, <3>2
    <3> QED
      BY <3>1, <3>2
  <2> QED
    BY <2>4 DEF ChangesFit
<1>10. LogsFit'
  BY <1>5, <1>6 DEF RefInv, LogsFit
<1> QED
  BY <1>2, <1>7, <1>8, <1>9, <1>10 DEF RefInv

LEMMA WritePagesRef ==
  ASSUME IInv, TypeOK', RefInv, OneAtATime, NEW w \in Workers, WritePages(w)
  PROVE  RefInv'
<1> DEFINE x == worker[w]
<1>1. /\ x.pc = "page" /\ x.channels = << >> /\ rows' = [rows EXCEPT ![x.id] = x.doc]
      /\ worker' = Finished(w) /\ UNCHANGED <<age, requests>> /\ TypeOK
  BY DEF WritePages, Write, At, IInv
<1>2. /\ x \in Requests /\ x.id \in Incidents /\ x.doc \in Docs /\ x.doc.log \in Seq(Logged)
  BY <1>1, BusyWith
<1>3. PICK q : /\ Finished(w) = [worker EXCEPT ![w] = q] /\ q.pc \in {"idle", "bulk"}
               /\ ToChange(q) <= ToChange(x)
  BY <1>1, FinishedHasLess DEF Busy
<1>4. q \in Requests \cup {Idle}
  <2>1. worker'[w] = q
    BY <1>1, <1>3 DEF TypeOK
  <2> QED
    BY <2>1 DEF TypeOK
<1>5. Len(x.doc.changes) = ChangesOf(x.id) /\ Len(x.doc.log) <= Room
  <2>1. Len(x.doc.log) + Len(x.channels) <= Room /\ Len(x.channels) = 0 /\ Len(x.doc.log) \in Nat
    BY <1>1, <1>2, LenProperties DEF RefInv, LogFits
  <2> QED
    BY <1>1, <2>1 DEF RefInv, PagesAfterWriting, ChangesOf
<1>6. Len(x.doc.changes) + ToChange(q) <= 2 * requests
  <2>1. ChangesOf(x.id) + ToChange(x) <= 2 * requests
    BY <1>2 DEF RefInv, ChangesFit
  <2>2. /\ ToChange(q) \in Nat /\ ToChange(x) \in Nat /\ ChangesOf(x.id) \in Nat
        /\ 2 * requests \in Nat
    BY <1>1, <1>2, <1>4, LengthsTyped
  <2> QED
    BY <1>3, <1>5, <2>1, <2>2
<1> QED
  BY <1>1, <1>2, <1>3, <1>5, <1>6, WriteRef

\* The lengths of what the operations make of a document.
LEMMA ResultLengths ==
  ASSUME NEW d \in Docs
  PROVE  /\ Len(d.changes) \in Nat /\ Len(d.log) \in Nat
         /\ \A t \in States : d.state \in States /\ Transitioned(d, t).log = d.log
                              /\ Len(Transitioned(d, t).changes) = Len(d.changes) + 1
         /\ \A a \in Assignees : Assigned(d, a).changes = d.changes
                                 /\ Len(Assigned(d, a).log) = Len(d.log) + 1
         /\ Noted(d).changes = d.changes /\ Len(Noted(d).log) = Len(d.log) + 1
         /\ \A x \in Remediations : Linked(d, x).changes = d.changes
                                    /\ Len(Linked(d, x).log) = Len(d.log) + 1
         /\ \A t : Escalated(d, t).changes = d.changes /\ Escalated(d, t).log = d.log
<1>1. d.changes \in Seq(Changes) /\ d.log \in Seq(Logged) /\ d.state \in States
  BY DEF Docs
<1>2. ASSUME NEW t \in States
      PROVE  /\ Transitioned(d, t).log = d.log
             /\ Len(Transitioned(d, t).changes) = Len(d.changes) + 1
  <2>1. [from |-> d.state, to |-> t] \in Changes
    BY <1>1 DEF Changes
  <2>2. Transitioned(d, t).log = d.log
        /\ Transitioned(d, t).changes = Append(d.changes, [from |-> d.state, to |-> t])
    BY DEF Transitioned, Docs
  <2> QED
    BY <1>1, <2>1, <2>2, AppendProperties
<1>3. \A e \in Logged : Len(Append(d.log, e)) = Len(d.log) + 1
  BY <1>1, AppendProperties
<1>4. /\ \A a \in Assignees : [type |-> "ASSIGNED", what |-> a] \in Logged
      /\ [type |-> "NOTE", what |-> NoOne] \in Logged
      /\ \A x \in Remediations : [type |-> "REMEDIATION", what |-> x] \in Logged
  BY DEF Logged
<1>5. /\ \A a : /\ Assigned(d, a).changes = d.changes
                /\ Assigned(d, a).log = Append(d.log, [type |-> "ASSIGNED", what |-> a])
      /\ Noted(d).changes = d.changes
      /\ Noted(d).log = Append(d.log, [type |-> "NOTE", what |-> NoOne])
      /\ \A x : /\ Linked(d, x).changes = d.changes
                /\ Linked(d, x).log = Append(d.log, [type |-> "REMEDIATION", what |-> x])
      /\ \A t : Escalated(d, t).changes = d.changes /\ Escalated(d, t).log = d.log
  BY DEF Docs, Assigned, Noted, Linked, Escalated
<1> QED
  BY <1>1, <1>2, <1>3, <1>4, <1>5, LenProperties

LEMMA ChannelsBounded ==
  ASSUME NEW sev, NEW m, NEW t, NEW step \in Escalations(sev, m, t), NEW c \in PageChannels(step)
  PROVE  c \in ChannelLists /\ Len(c) <= MaxPages
<1>0. PICK p \in PolicyFor(sev) : \E k \in StepFor(p, m) : step = Policies[p].steps[k]
  BY DEF Escalations, Due
<1>1. PICK k \in StepFor(p, m) : step = Policies[p].steps[k]
  BY <1>0
<1>2. p \in DOMAIN Policies /\ k \in DOMAIN Policies[p].steps
  BY DEF PolicyFor, StepFor, FirstMax
<1>3. PICK eng \in OnCallFor(step.tier) :
        c = ChannelsNamed(IF step.channels # << >> THEN step.channels ELSE eng.channels)
  BY DEF PageChannels
<1>4. PICK j \in DOMAIN OnCall : eng = OnCall[j]
  BY DEF OnCallFor
<1>5. c \in ChannelLists
  BY <1>1, <1>2, <1>3, <1>4 DEF ChannelLists
<1> QED
  BY <1>5, MaxPagesAssumption

LEMMA CommitRef ==
  ASSUME IInv, TypeOK', RefInv, OneAtATime, NEW w \in Workers, Commit(w)
  PROVE  RefInv'
<1> DEFINE x == worker[w]
           i == x.id
           d == rows[i]
<1>1. /\ x.pc = "commit" /\ rows' = [rows EXCEPT ![i] = x.doc]
      /\ UNCHANGED <<age, requests>> /\ TypeOK
      /\ worker' = IF x.event # NoEvent THEN Goto(w, "emit")
                   ELSE IF x.paging THEN Goto(w, "page") ELSE Finished(w)
  BY DEF Commit, Write, At, IInv
<1>2. /\ x \in Requests /\ i \in Incidents /\ x.doc \in Docs /\ x.channels \in Seq(NotificationChannels)
      /\ x.bulk.ids \in Seq(Incidents)
      /\ d # NoDoc => d \in Docs
  BY <1>1, BusyWith DEF Requests, TypeOK
<1>3. /\ HoldsResult(x) /\ LogOf(i) <= Room /\ ChangesOf(i) + ToChange(x) <= 2 * requests
      /\ x.event = NoEvent => LogOf(i) + Share <= Room
  BY <1>1, <1>2 DEF RefInv, LogsFit, ChangesFit, LogFits
<1>4. /\ LogOf(i) \in Nat /\ ChangesOf(i) \in Nat /\ 2 * requests \in Nat /\ ToChange(x) \in Nat
      /\ Len(x.bulk.ids) \in Nat /\ Share \in Nat \ {0} /\ Room \in Nat /\ MaxPages \in Nat
      /\ Share = MaxPages + 1
  <2>1. LogOf(i) \in Nat /\ ChangesOf(i) \in Nat /\ 2 * requests \in Nat /\ ToChange(x) \in Nat
    BY <1>1, <1>2, LengthsTyped
  <2>2. Len(x.bulk.ids) \in Nat
    BY <1>2, LenProperties
  <2> QED
    BY <1>1, <2>1, <2>2, RoomGrows, MaxPagesAssumption DEF Share
<1>5. d # NoDoc => LogOf(i) = Len(d.log) /\ ChangesOf(i) = Len(d.changes)
  BY DEF LogOf, ChangesOf, Exists
<1>6. /\ Len(x.doc.changes) <= ChangesOf(i) + 1 /\ Len(x.doc.log) <= Room
      /\ Len(x.doc.changes) \in Nat
      /\ x.event = NoEvent /\ x.paging = TRUE => Len(x.doc.log) + Len(x.channels) <= Room
  <2>1. CASE CreatesFrom(x, d)
    <3>1. x.doc = NewDoc /\ x.event # NoEvent
      BY <2>1, EventsDiffer DEF CreatesFrom
    <3>2. Len(x.doc.changes) = 0 /\ Len(x.doc.log) = 0
      BY <3>1 DEF NewDoc
    <3> QED
      BY <1>4, <3>1, <3>2
  <2>2. CASE MovesFrom(x, d)
    <3>1. PICK target \in States : /\ x.doc = Transitioned(d, target)
                                   /\ x.event = ChangedEvent(i, d.state, target)
      BY <2>2 DEF MovesFrom
    <3>2. d \in Docs /\ d # NoDoc /\ x.event # NoEvent
      BY <1>2, <2>2, <3>1, EventsDiffer DEF MovesFrom
    <3>3. Len(x.doc.changes) = Len(d.changes) + 1 /\ x.doc.log = d.log /\ Len(d.changes) \in Nat
      BY <3>1, <3>2, ResultLengths
    <3>4. ChangesOf(i) = Len(d.changes) /\ LogOf(i) = Len(d.log)
      BY <1>5, <3>2
    <3>5. Len(x.doc.changes) = ChangesOf(i) + 1
      BY <3>3, <3>4
    <3>6. Len(x.doc.log) = LogOf(i)
      BY <3>3, <3>4
    <3>7. Len(x.doc.log) <= Room
      BY <1>3, <3>6
    <3>8. Len(x.doc.changes) <= ChangesOf(i) + 1 /\ Len(x.doc.changes) \in Nat
      BY <1>4, <3>5
    <3> QED
      BY <3>2, <3>7, <3>8
  <2>3. CASE UpdatesFrom(x, d)
    <3>1. d \in Docs /\ d # NoDoc /\ x.event = NoEvent /\ x.paging = FALSE
      BY <1>2, <2>3 DEF UpdatesFrom
    <3>2. x.doc.changes = d.changes /\ Len(x.doc.log) = Len(d.log) + 1
      BY <2>3, <3>1, ResultLengths DEF UpdatesFrom
    <3>3. Len(d.changes) \in Nat /\ Len(d.log) \in Nat
      BY <3>1, ResultLengths
    <3>4. ChangesOf(i) = Len(d.changes) /\ LogOf(i) = Len(d.log)
      BY <1>5, <3>1
    <3>5. Len(x.doc.changes) = ChangesOf(i)
      BY <3>2, <3>4
    <3>6. Len(x.doc.log) = LogOf(i) + 1
      BY <3>2, <3>4
    <3>7. Len(x.doc.log) <= Room
      BY <1>3, <1>4, <3>1, <3>6
    <3>8. Len(x.doc.changes) <= ChangesOf(i) + 1 /\ Len(x.doc.changes) \in Nat
      BY <1>4, <3>5
    <3> QED
      BY <3>1, <3>7, <3>8
  <2>4. CASE ClimbsFrom(x, d, age[i])
    <3>1. d \in Docs /\ d # NoDoc /\ x.event = NoEvent
      BY <1>2, <2>4 DEF ClimbsFrom
    <3>2. PICK minutes \in 0 .. age[i] : \E step \in Escalations(Severity[i], minutes, d.tier) :
            /\ x.doc = Escalated(d, step.tier)
            /\ \/ PageChannels(step) = {} /\ x.paging = FALSE
               \/ x.channels \in PageChannels(step) /\ x.paging = TRUE
      BY <2>4 DEF ClimbsFrom
    <3>3. PICK step \in Escalations(Severity[i], minutes, d.tier) :
            /\ x.doc = Escalated(d, step.tier)
            /\ x.paging = TRUE => x.channels \in PageChannels(step)
      BY <3>2
    <3>4. x.doc.changes = d.changes /\ x.doc.log = d.log
      BY <3>1, <3>3, ResultLengths
    <3>5. x.paging = TRUE => Len(x.channels) <= MaxPages
      BY <3>3, ChannelsBounded
    <3>6. Len(d.changes) \in Nat /\ Len(d.log) \in Nat /\ Len(x.channels) \in Nat
      BY <1>2, <3>1, ResultLengths, LenProperties
    <3>7. ChangesOf(i) = Len(d.changes) /\ LogOf(i) = Len(d.log)
      BY <1>5, <3>1
    <3>8. Len(x.doc.changes) = ChangesOf(i)
      BY <3>4, <3>7
    <3>9. Len(x.doc.log) = LogOf(i)
      BY <3>4, <3>7
    <3>10. Len(x.doc.log) <= Room
      BY <1>3, <3>9
    <3>11. Len(x.doc.changes) <= ChangesOf(i) + 1 /\ Len(x.doc.changes) \in Nat
      BY <1>4, <3>8
    <3>12. x.paging = TRUE => Len(x.doc.log) + Len(x.channels) <= Room
      <4>1. \A a, b, m, n \in Nat : a + (m + 1) <= n /\ b <= m => a + b <= n
        OBVIOUS
      <4>2. LogOf(i) + (MaxPages + 1) <= Room
        BY <1>3, <1>4, <3>1
      <4>3. x.paging = TRUE => LogOf(i) + Len(x.channels) <= Room
        BY <1>4, <3>5, <3>6, <4>1, <4>2
      <4> QED
        BY <3>9, <4>3
    <3> QED
      BY <3>10, <3>11, <3>12
  <2> QED
    BY <1>1, <1>3, <2>1, <2>2, <2>3, <2>4 DEF HoldsResult
<1>7. ToChange(x) = Len(x.bulk.ids) + 1
  BY <1>1 DEF ToChange
<1>8. ASSUME NEW q, worker' = [worker EXCEPT ![w] = q], q.pc \notin {"commit", "sent"},
             ToChange(q) + 1 <= ToChange(x),
             q.pc = "page" => /\ q.id = i /\ q.doc = x.doc /\ q.channels = x.channels
                              /\ x.event = NoEvent /\ x.paging = TRUE
      PROVE  RefInv'
  <2>1. q \in Requests \cup {Idle}
    <3>1. worker'[w] = q
      BY <1>1, <1>8 DEF TypeOK
    <3> QED
      BY <3>1 DEF TypeOK
  <2>2. ToChange(q) \in Nat
    BY <1>1, <2>1, LengthsTyped
  <2>3. Len(x.doc.changes) + ToChange(q) <= 2 * requests /\ ToChange(q) <= ToChange(x)
    <3> DEFINE a == Len(x.doc.changes)
               b == ChangesOf(i)
               c == ToChange(q)
               e == ToChange(x)
               n == 2 * requests
    <3>1. a \in Nat /\ b \in Nat /\ c \in Nat /\ e \in Nat /\ n \in Nat
      BY <1>4, <1>6, <2>2
    <3>2. a <= b + 1 /\ c + 1 <= e /\ b + e <= n
      BY <1>3, <1>6, <1>8
    <3> HIDE DEF a, b, c, e, n
    <3>3. a + c <= n /\ c <= e
      BY <3>1, <3>2
    <3> QED
      BY <3>3 DEF a, c, e, n
  <2>4. q.pc \in {"page", "sent"} =>
           q.id = i /\ q.doc = x.doc /\ Len(x.doc.log) + Len(q.channels) <= Room
    BY <1>6, <1>8
  <2> QED
    BY <1>1, <1>2, <1>6, <1>8, <2>3, <2>4, WriteRef
<1>9. ASSUME NEW pc \in {"emit", "page"}, worker' = Goto(w, pc),
             pc = "page" => x.event = NoEvent /\ x.paging = TRUE
      PROVE  RefInv'
  <2> DEFINE q == [x EXCEPT !.pc = pc]
  <2>1. worker' = [worker EXCEPT ![w] = q]
    BY <1>1, <1>9 DEF Goto, TypeOK
  <2>2. q.pc = pc /\ q.id = i /\ q.doc = x.doc /\ q.channels = x.channels /\ q.bulk = x.bulk
    BY <1>2 DEF Requests
  <2> HIDE DEF q
  <2>3. ToChange(q) = Len(x.bulk.ids) + 0
    BY <1>9, <2>2 DEF ToChange
  <2>4. ToChange(q) + 1 <= ToChange(x)
    BY <1>4, <1>7, <2>3
  <2> QED
    BY <1>8, <1>9, <2>1, <2>2, <2>4
<1>10. ASSUME worker' = Finished(w)
       PROVE  RefInv'
  <2>1. PICK q : /\ Finished(w) = [worker EXCEPT ![w] = q] /\ q.pc \in {"idle", "bulk"}
                 /\ ToChange(q) + 1 <= ToChange(x)
    BY <1>1, FinishedHasLess DEF Busy
  <2> QED
    BY <1>8, <1>10, <2>1
<1>11. x.paging \in BOOLEAN
  BY <1>2 DEF Requests
<1> QED
  BY <1>1, <1>9, <1>10, <1>11

-----------------------------------------------------------------------------
(***************************************************************************)
(* Every step is an operation, or does only what already counted as done.  *)
(***************************************************************************)
LEMMA SameRequestsSeeSame ==
  ASSUME UNCHANGED <<rows, worker, outbox, audit, notifications>>
  PROVE  UNCHANGED <<DoneRows, DoneOutbox, DoneAudit, DoneNotifications>>
<1>1. UNCHANGED DoneRows
  BY DEF DoneRows, DoneRow, PagersOf
<1>2. UNCHANGED <<DoneOutbox, DoneAudit>>
  BY DEF DoneOutbox, DoneAudit, EventsOwed, Owing
<1>3. UNCHANGED DoneNotifications
  <2>1. Pagers' = Pagers
    BY DEF Pagers, PagersOf
  <2> QED
    BY <2>1 DEF DoneNotifications, At
<1> QED
  BY <1>1, <1>2, <1>3

LEMMA MapsInit ==
  ASSUME Init
  PROVE  Lifecycle!Init
<1>1. \A i : PagersOf(i) = {}
  BY DEF Init, Idle, PagersOf
<1>2. Pagers = {}
  BY <1>1 DEF Pagers
<1>3. EventsOwed({"emit"}) = {} /\ EventsOwed({"emit", "audit"}) = {}
  BY DEF Init, Idle, EventsOwed
<1>4. DoneOutbox = << >> /\ DoneAudit = << >>
  BY <1>3 DEF Init, DoneOutbox, DoneAudit, Owing
<1>5. DoneRows = [i \in Incidents |-> NoDoc]
  BY <1>1 DEF Init, DoneRows, DoneRow
<1>6. DoneNotifications = << >>
  <2>1. Sents(<< >>) = << >>
    <3>1. << >> \in Seq(Pages) /\ Len(<< >>) = 0
      OBVIOUS
    <3> QED
      BY <3>1, SentsTyped, EmptySeq
  <2>2. << >> \o << >> = << >>
    BY ConcatEmptySeq, EmptySeq
  <2> QED
    BY <1>2, <2>1, <2>2 DEF Init, DoneNotifications, Sents
<1> QED
  BY <1>4, <1>5, <1>6 DEF Init, Lifecycle!Init

\* A document counts as existing from its write.
LEMMA MapsExists ==
  ASSUME IInv, RefInv
  PROVE  \A i \in Incidents : Lifecycle!Exists(i) <=> Exists(i)
<1> SUFFICES ASSUME NEW i \in Incidents
             PROVE  DoneRow(i) # NoDoc <=> rows[i] # NoDoc
  BY DEF Lifecycle!Exists, Exists, DoneRows
<1>1. CASE PagersOf(i) = {}
  BY <1>1 DEF DoneRow
<1>2. CASE PagersOf(i) # {}
  <2> DEFINE w == CHOOSE w \in PagersOf(i) : TRUE
             r == worker[w]
             log == r.doc.log \o [k \in DOMAIN r.channels |->
                                    [type |-> "NOTIFICATION_SENT", what |-> NoOne]]
  <2>1. w \in PagersOf(i)
    BY <1>2
  <2> HIDE DEF w
  <2>2. w \in Workers /\ r.pc \in {"page", "sent"} /\ r.id = i
    BY <2>1 DEF PagersOf
  <2>3. rows[i] # NoDoc
    BY <2>2 DEF RefInv, PagesAfterWriting, Exists
  <2>4. r.doc \in Docs /\ r.doc.log \in Seq(Logged) /\ r.channels \in Seq(NotificationChannels)
    BY <2>2, BusyWith
  <2>5. log \in Seq(Logged)
    <3>1. DOMAIN r.channels = 1 .. Len(r.channels) /\ Len(r.channels) \in Nat
      BY <2>4, LenProperties
    <3>2. log = r.doc.log \o Pageds(Len(r.channels))
      BY <3>1 DEF Pageds
    <3>3. Pageds(Len(r.channels)) \in Seq(Logged)
      BY <3>1, PagedsTyped
    <3> HIDE DEF log
    <3> QED
      BY <2>4, <3>2, <3>3, ConcatProperties
  <2>6. DoneRow(i) = [r.doc EXCEPT !.log = log]
    BY <1>2 DEF DoneRow, w
  <2> HIDE DEF log
  <2>7. [r.doc EXCEPT !.log = log] \in Docs
    BY <2>4, <2>5 DEF Docs
  <2> QED
    BY <2>3, <2>6, <2>7, NoDocAssumption
<1> QED
  BY <1>1, <1>2

LEMMA MapsTick ==
  ASSUME IInv, RefInv, Tick
  PROVE  Lifecycle!Tick
<1>1. UNCHANGED <<DoneRows, DoneOutbox, DoneAudit, DoneNotifications>>
  BY SameRequestsSeeSame DEF Tick
<1>2. \A i \in Incidents : Lifecycle!Exists(i) <=> Exists(i)
  BY MapsExists
<1>3. \E i \in Incidents : Lifecycle!Exists(i) /\ age[i] < Horizon
  BY <1>2 DEF Tick
<1>4. age' = [i \in Incidents |->
                IF Lifecycle!Exists(i) /\ age[i] < Horizon THEN age[i] + TimeStep ELSE age[i]]
  BY <1>2 DEF Tick
<1> QED
  BY <1>1, <1>3, <1>4 DEF Lifecycle!Tick

LEMMA MapsCommit ==
  ASSUME IInv, TypeOK', RefInv, OneAtATime, NEW w \in Workers, Commit(w)
  PROVE  Operation
<1> DEFINE r == worker[w]
           i == r.id
           d == rows[i]
<1>1. r.pc = "commit" /\ i \in Incidents /\ TypeOK /\ r.bulk.ids \in Seq(Incidents)
  BY BusyWith DEF Commit, At, IInv, Requests
<1>2. \/ CreatesFrom(r, d) \/ MovesFrom(r, d) \/ UpdatesFrom(r, d)
      \/ ClimbsFrom(r, d, age[i])
  BY <1>1 DEF RefInv, HoldsResult
<1>3. CASE CreatesFrom(r, d)
  <2>1. Lifecycle!Create(i)
    BY <1>3, CommitCreates
  <2> QED
    BY <1>1, <2>1 DEF Operation, Lifecycle!Next
<1>4. CASE MovesFrom(r, d)
  <2>1. PICK target \in States : /\ CanTransition(d.state, target)
                                 /\ r.doc = Transitioned(d, target)
                                 /\ r.event = ChangedEvent(i, d.state, target)
    BY <1>4 DEF MovesFrom
  <2>2. d # NoDoc
    BY <1>4 DEF MovesFrom
  <2>3. Len(d.changes) < MaxRequests * 2
    <3> DEFINE a == Len(d.changes)
               b == Len(r.bulk.ids)
    <3>1. ToChange(r) = b + 1 /\ ChangesOf(i) = a
      BY <1>1, <2>2 DEF ToChange, ChangesOf, Exists
    <3>2. ChangesOf(i) + ToChange(r) <= 2 * requests
      BY <1>1 DEF RefInv, ChangesFit
    <3>3. a \in Nat /\ b \in Nat
      <4>1. d \in Docs
        BY <1>1, <2>2 DEF TypeOK
      <4> QED
        BY <1>1, <4>1, ResultLengths, LenProperties
    <3>4. requests \in Nat /\ requests <= MaxRequests /\ MaxRequests \in Nat
      BY <1>1, BoundsAssumption DEF TypeOK
    <3> HIDE DEF a, b
    <3>5. a + (b + 1) <= 2 * requests
      BY <3>1, <3>2
    <3>6. a < MaxRequests * 2
      BY <3>3, <3>4, <3>5
    <3> QED
      BY <3>6 DEF a
  <2>4. Lifecycle!Transition(i, target, {})
    BY <2>1, <2>2, <2>3, CommitMoves
  <2>5. {} \in Lifecycle!ExpectedValues /\ target \in Lifecycle!States
    BY SameOperators DEF Lifecycle!ExpectedValues
  <2> QED
    BY <1>1, <2>4, <2>5 DEF Operation, Lifecycle!Next
<1>5. CASE UpdatesFrom(r, d)
  <2>1. d # NoDoc /\ r.event = NoEvent
    BY <1>5 DEF UpdatesFrom
  <2>2. Len(d.log) < MaxRequests * (MaxPages + 1)
    <3> DEFINE a == Len(d.log)
               m == MaxRequests * (MaxPages + 1)
    <3>1. LogOf(i) = a /\ LogOf(i) \in Nat
      BY <1>1, <2>1, LengthsTyped DEF LogOf, Exists
    <3>2. LogOf(i) + Share <= Room
      BY <1>1, <2>1 DEF RefInv, LogFits
    <3>3. Share \in Nat \ {0} /\ Room \in Nat /\ Room <= m /\ m \in Int
      <4>1. m \in Int
        BY BoundsAssumption, MaxPagesAssumption
      <4> QED
        BY <1>1, <4>1, RoomGrows
    <3> HIDE DEF a, m
    <3>4. a < m
      BY <3>1, <3>2, <3>3
    <3> QED
      BY <3>4 DEF a, m
  <2>3. \/ \E a \in Assignees : Lifecycle!Assign(i, a)
        \/ Lifecycle!AddNote(i)
        \/ \E x \in Remediations : Lifecycle!LinkRemediation(i, x)
    BY <1>5, <2>2, CommitUpdates
  <2> QED
    BY <1>1, <2>3 DEF Operation, Lifecycle!Next
<1>6. CASE ClimbsFrom(r, d, age[i])
  <2>1. \E minutes \in 0 .. age[i] : Lifecycle!EscalateAt(i, minutes)
    BY <1>6, CommitClimbs
  <2> QED
    BY <1>1, <2>1 DEF Operation
<1> QED
  BY <1>2, <1>3, <1>4, <1>5, <1>6

LEMMA MapsStep ==
  ASSUME OneAtATime, IInv, TypeOK', RefInv, [Next]_vars
  PROVE  [cut' = {} => Operation]_Lifecycle!vars
<1>1. TypeOK
  BY DEF IInv
<1>2. ASSUME NEW w \in Workers, Begin(w)
      PROVE  UNCHANGED Lifecycle!vars
  <2>1. PICK r : r.pc \in {"commit", "bulk"} /\ Start(w, r)
    BY <1>2, BeginStarts
  <2> QED
    BY <1>1, <2>1, ReadsStutter DEF Start, Busy
<1>3. ASSUME NEW w \in Workers, BulkNext(w)
      PROVE  UNCHANGED Lifecycle!vars
  <2>1. PICK r : worker' = [worker EXCEPT ![w] = r] /\ r.pc \in {"idle", "bulk", "commit"}
    <3> DEFINE ids == worker[w].bulk.ids
               i   == Head(ids)
               target == worker[w].bulk.target
               rest   == [ids |-> Tail(ids), target |-> target]
               r == IF Exists(i) /\ MayTransition(rows[i], target, {})
                    THEN ToTransition(i, target, rest)
                    ELSE IF rest.ids = << >> THEN Idle
                    ELSE Request("bulk", i, NoDoc, NoEvent, << >>, rest)
    <3>1. worker' = [worker EXCEPT ![w] = r]
      BY <1>3 DEF BulkNext
    <3>2. r.pc \in {"idle", "bulk", "commit"}
      BY DEF Request, ToTransition, Idle
    <3> HIDE DEF r
    <3> QED
      BY <3>1, <3>2
  <2>2. worker[w].pc = "bulk" /\ UNCHANGED <<rows, outbox, audit, notifications, age>>
    BY <1>3 DEF BulkNext, At
  <2> QED
    BY <1>1, <2>1, <2>2, ReadsStutter
<1>4. ASSUME NEW w \in Workers, Proceed(w)
      PROVE  Operation \/ UNCHANGED Lifecycle!vars
  BY <1>1, <1>3, <1>4, MapsCommit, EmitStutters, AuditStutters, NotifyStutters, MarkSentStutters,
     WritePagesStutters DEF Proceed
<1>5. ASSUME NEW w \in Workers, Crash(w), cut' = {}
      PROVE  UNCHANGED Lifecycle!vars
  BY <1>5, CrashStutters
<1>6. ASSUME Tick
      PROVE  Operation
  BY <1>6, MapsTick DEF Operation, Lifecycle!Next
<1>7. ASSUME UNCHANGED vars
      PROVE  UNCHANGED Lifecycle!vars
  <2>1. UNCHANGED <<DoneRows, DoneOutbox, DoneAudit, DoneNotifications, age>>
    BY <1>7, SameRequestsSeeSame DEF vars
  <2> QED
    BY <2>1 DEF Lifecycle!vars
<1> QED
  BY <1>2, <1>4, <1>5, <1>6, <1>7 DEF Next

LEMMA RefInvInductive ==
  ASSUME OneAtATime, IInv, TypeOK', RefInv, [Next]_vars
  PROVE  RefInv'
<1>1. CASE UNCHANGED vars
  <2>1. \A i : ChangesOf(i)' = ChangesOf(i) /\ LogOf(i)' = LogOf(i) /\ (Exists(i)' <=> Exists(i))
    BY <1>1 DEF vars, ChangesOf, LogOf, Exists
  <2>2. Room' = Room
    BY <1>1 DEF vars, Room, Share
  <2> QED
    BY <1>1, <2>1, <2>2 DEF vars, RefInv, HoldsResult, PagesAfterWriting, LogFits, ChangesFit, LogsFit
<1>2. CASE Next
  BY <1>2, BeginRef, BulkNextRef, CommitRef, QuietRef, PageRef, WritePagesRef, TickRef
     DEF Next, Proceed
<1> QED
  BY <1>1, <1>2

LEMMA InitRef ==
  ASSUME Init
  PROVE  RefInv
<1>1. \A w \in Workers : worker[w] = Idle /\ worker[w].pc = "idle"
  BY DEF Init, Idle
<1>2. requests = 0 /\ \A i \in Incidents : ChangesOf(i) = 0 /\ LogOf(i) = 0
  BY DEF Init, ChangesOf, LogOf, Exists
<1>3. Room = 0
  BY <1>2, MaxPagesAssumption DEF Room, Share
<1> QED
  <2>1. LogsFit
    BY <1>2, <1>3 DEF LogsFit
  <2>2. ASSUME NEW w \in Workers
        PROVE  /\ HoldsResult(worker[w]) /\ PagesAfterWriting(worker[w]) /\ LogFits(worker[w])
               /\ ChangesFit(worker[w])
    <3>1. HoldsResult(worker[w]) /\ PagesAfterWriting(worker[w]) /\ LogFits(worker[w])
      BY <1>1 DEF HoldsResult, PagesAfterWriting, LogFits
    <3>2. ToChange(worker[w]) = 0
      BY <1>1 DEF ToChange
    <3> QED
      BY <1>2, <3>1, <3>2 DEF ChangesFit
  <2> QED
    BY <2>1, <2>2 DEF RefInv

\* Requests that do not overlap are, until one is cut off that owed a write,
\* the atomic operations of the in-memory repositories: for any incidents,
\* policies and directory (incident_service.py over repositories/sql).
THEOREM ServiceImplementsLifecycle ==
  ASSUME OneAtATime
  PROVE  Spec => ImplementsLifecycle
<1>1. Init => RefInv /\ Lifecycle!Init
  BY InitRef, MapsInit
<1>2. IInv /\ IInv' /\ RefInv /\ [Next]_vars => RefInv'
  BY RefInvInductive DEF IInv
<1>3. IInv /\ IInv' /\ RefInv /\ [Next]_vars => [cut' = {} => Operation]_Lifecycle!vars
  BY MapsStep DEF IInv
<1> QED
  BY <1>1, <1>2, <1>3, ServiceInvariant, PTL DEF Spec, ImplementsLifecycle
=============================================================================
