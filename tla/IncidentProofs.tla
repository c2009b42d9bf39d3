--------------------------- MODULE IncidentProofs ---------------------------
(***************************************************************************)
(* Every operation turns a coherent incident document into a coherent one, *)
(* and in a coherent document the post-mortem and closed states come after *)
(* the resolved one.                                                       *)
(***************************************************************************)
EXTENDS Incident, TLAPS

\* A document is created coherent (create_from_problem).
LEMMA NewDocCoherent == NewDoc \in Docs /\ Coherent(NewDoc)
<1>1. NewDoc \in Docs
  BY DEF NewDoc, Docs, States, Tiers, Changes, Logged
<1>2. WalksTheGraph(NewDoc)
  BY DEF NewDoc, WalksTheGraph
<1>3. VersionCountsChanges(NewDoc) /\ StampsMatchChanges(NewDoc)
  BY DEF NewDoc, VersionCountsChanges, StampsMatchChanges, Visited
<1>4. ClimbsRise(NewDoc) /\ AssigneeIsLogged(NewDoc)
  BY DEF NewDoc, ClimbsRise, AssigneeIsLogged
<1> QED
  BY <1>1, <1>2, <1>3, <1>4 DEF Coherent

\* The graph stays among the states.
LEMMA TransitionsAreStates ==
  ASSUME NEW src \in States, NEW dst, CanTransition(src, dst)
  PROVE  dst \in States
BY DEF CanTransition, Transitions, States

\* A legal transition keeps a document coherent (transition).
LEMMA TransitionedCoherent ==
  ASSUME NEW d \in Docs, Coherent(d),
         NEW target, CanTransition(d.state, target)
  PROVE  Transitioned(d, target) \in Docs /\ Coherent(Transitioned(d, target))
<1> DEFINE e == Transitioned(d, target)
           n == Len(d.changes)
           c == [from |-> d.state, to |-> target]
<1>1. /\ d.state \in States /\ target \in States
      /\ d.changes \in Seq(Changes) /\ n \in Nat /\ c \in Changes
      /\ d.version \in Nat
  BY TransitionsAreStates DEF Docs, Changes
<1>2. /\ e.state = target /\ e.version = d.version + 1
      /\ e.acknowledged = (d.acknowledged \/ target = "ACKNOWLEDGED")
      /\ e.resolved = (d.resolved \/ target = "RESOLVED")
      /\ e.changes = Append(d.changes, c)
      /\ e.tier = d.tier /\ e.climbs = d.climbs
      /\ e.assignee = d.assignee /\ e.log = d.log
  BY DEF Docs, Transitioned
<1>3. /\ Len(e.changes) = n + 1
      /\ e.changes[n + 1] = c
      /\ \A k \in 1 .. n : e.changes[k] = d.changes[k]
  BY <1>1, <1>2
<1>4. e \in Docs
  <2>1. Append(d.changes, c) \in Seq(Changes) /\ d.version + 1 \in Nat
    BY <1>1
  <2> QED
    BY <1>1, <2>1 DEF Transitioned, Docs
<1>5. WalksTheGraph(e)
  <2>1. WalksTheGraph(d)
    BY DEF Coherent
  <2>2. ASSUME NEW k \in 1 .. n
        PROVE  /\ CanTransition(e.changes[k].from, e.changes[k].to)
               /\ e.changes[k].from = IF k = 1 THEN "DETECTED" ELSE e.changes[k - 1].to
    <3>1. k = 1 \/ k - 1 \in 1 .. n
      BY <1>1
    <3> QED
      BY <1>3, <2>1, <3>1 DEF WalksTheGraph
  <2>3. c.from = IF n + 1 = 1 THEN "DETECTED" ELSE e.changes[n].to
    <3>1. CASE n = 0
      BY <1>1, <2>1, <3>1 DEF WalksTheGraph
    <3>2. CASE n # 0
      BY <1>1, <1>3, <2>1, <3>2 DEF WalksTheGraph
    <3> QED
      BY <3>1, <3>2
  <2>4. e.state = e.changes[Len(e.changes)].to /\ e.changes # << >>
    BY <1>1, <1>2, <1>3
  <2>5. \A k \in 1 .. Len(e.changes) : k \in 1 .. n \/ k = n + 1
    BY <1>1, <1>3
  <2> QED
    BY <1>1, <1>3, <2>2, <2>3, <2>4, <2>5 DEF WalksTheGraph
<1>6. VersionCountsChanges(e)
  BY <1>1, <1>2, <1>3 DEF Coherent, VersionCountsChanges
<1>7. ASSUME NEW s
      PROVE  Visited(e, s) <=> Visited(d, s) \/ target = s
  <2>1. \A k \in 1 .. Len(e.changes) : k \in 1 .. n \/ k = n + 1
    BY <1>1, <1>3
  <2>2. 1 .. n \subseteq 1 .. Len(e.changes) /\ n + 1 \in 1 .. Len(e.changes)
    BY <1>1, <1>3
  <2> QED
    BY <1>3, <2>1, <2>2 DEF Visited
<1>8. StampsMatchChanges(e)
  BY <1>2, <1>7 DEF Coherent, StampsMatchChanges
<1>9. ClimbsRise(e) /\ AssigneeIsLogged(e)
  BY <1>2 DEF Coherent, ClimbsRise, AssigneeIsLogged
<1> QED
  BY <1>4, <1>5, <1>6, <1>8, <1>9 DEF Coherent

\* Entries added to the log keep a document coherent, whatever they are.
LEMMA LoggedCoherent ==
  ASSUME NEW d \in Docs, Coherent(d), NEW entry \in Logged, NEW rs \in SUBSET Remediations
  PROVE  /\ [d EXCEPT !.log = Append(@, entry), !.remediations = rs] \in Docs
         /\ Coherent([d EXCEPT !.log = Append(@, entry), !.remediations = rs])
<1> DEFINE e == [d EXCEPT !.log = Append(@, entry), !.remediations = rs]
<1>1. e \in Docs
  <2>1. Append(d.log, entry) \in Seq(Logged)
    BY DEF Docs
  <2> QED
    BY <2>1 DEF Docs
<1>2. /\ e.state = d.state /\ e.version = d.version /\ e.changes = d.changes
      /\ e.acknowledged = d.acknowledged /\ e.resolved = d.resolved
      /\ e.tier = d.tier /\ e.climbs = d.climbs /\ e.assignee = d.assignee
      /\ e.log = Append(d.log, entry)
  BY DEF Docs
<1>3. /\ WalksTheGraph(e) /\ VersionCountsChanges(e)
      /\ StampsMatchChanges(e) /\ ClimbsRise(e)
  BY <1>2 DEF Coherent, WalksTheGraph, VersionCountsChanges, StampsMatchChanges,
              Visited, ClimbsRise
<1>4. AssigneeIsLogged(e)
  <2>1. /\ d.log \in Seq(Logged)
        /\ \A k \in 1 .. Len(d.log) : k \in 1 .. Len(e.log) /\ e.log[k] = d.log[k]
    BY <1>2 DEF Docs
  <2> QED
    BY <1>2, <2>1 DEF Coherent, AssigneeIsLogged
<1> QED
  BY <1>1, <1>3, <1>4 DEF Coherent

\* An assignment keeps a document coherent (assign).
LEMMA AssignedCoherent ==
  ASSUME NEW d \in Docs, Coherent(d), NEW a \in Assignees
  PROVE  Assigned(d, a) \in Docs /\ Coherent(Assigned(d, a))
<1> DEFINE e == Assigned(d, a)
           entry == [type |-> "ASSIGNED", what |-> a]
<1>1. e \in Docs
  <2>1. entry \in Logged
    BY DEF Logged
  <2>2. Append(d.log, entry) \in Seq(Logged)
    BY <2>1 DEF Docs
  <2> QED
    BY <2>2 DEF Assigned, Docs
<1>2. /\ e.state = d.state /\ e.version = d.version /\ e.changes = d.changes
      /\ e.acknowledged = d.acknowledged /\ e.resolved = d.resolved
      /\ e.tier = d.tier /\ e.climbs = d.climbs /\ e.assignee = a
      /\ e.log = Append(d.log, entry)
  BY DEF Assigned, Docs
<1>3. /\ WalksTheGraph(e) /\ VersionCountsChanges(e)
      /\ StampsMatchChanges(e) /\ ClimbsRise(e)
  BY <1>2 DEF Coherent, WalksTheGraph, VersionCountsChanges, StampsMatchChanges,
              Visited, ClimbsRise
<1>4. AssigneeIsLogged(e)
  <2>1. d.log \in Seq(Logged)
    BY DEF Docs
  <2>2. Len(e.log) \in 1 .. Len(e.log) /\ e.log[Len(e.log)] = entry
    BY <1>2, <2>1
  <2> QED
    BY <1>2, <2>2 DEF AssigneeIsLogged
<1> QED
  BY <1>1, <1>3, <1>4 DEF Coherent

\* A note, and the entry of a page, keep a document coherent (add_note, the
\* NOTIFICATION_SENT entry of evaluate_escalation).
LEMMA NotedCoherent ==
  ASSUME NEW d \in Docs, Coherent(d)
  PROVE  /\ Noted(d) \in Docs /\ Coherent(Noted(d))
         /\ Paged(d) \in Docs /\ Coherent(Paged(d))
<1>1. d.remediations \in SUBSET Remediations
  BY DEF Docs
<1>2. \A t \in {"NOTE", "NOTIFICATION_SENT"} : [type |-> t, what |-> NoOne] \in Logged
  BY DEF Logged
<1>3. \A t \in {"NOTE", "NOTIFICATION_SENT"} :
        [d EXCEPT !.log = Append(@, [type |-> t, what |-> NoOne])] =
        [d EXCEPT !.log = Append(@, [type |-> t, what |-> NoOne]),
                  !.remediations = d.remediations]
  BY DEF Docs
<1> QED
  BY <1>1, <1>2, <1>3, LoggedCoherent DEF Noted, Paged

\* A linked remediation keeps a document coherent (link_remediation).
LEMMA LinkedCoherent ==
  ASSUME NEW d \in Docs, Coherent(d), NEW r \in Remediations
  PROVE  Linked(d, r) \in Docs /\ Coherent(Linked(d, r))
<1>1. d.remediations \cup {r} \in SUBSET Remediations
  BY DEF Docs
<1>2. [type |-> "REMEDIATION", what |-> r] \in Logged
  BY DEF Logged
<1>3. Linked(d, r) = [d EXCEPT !.log = Append(@, [type |-> "REMEDIATION", what |-> r]),
                               !.remediations = d.remediations \cup {r}]
  BY DEF Linked, Docs
<1>4. /\ [d EXCEPT !.log = Append(@, [type |-> "REMEDIATION", what |-> r]),
                   !.remediations = d.remediations \cup {r}] \in Docs
      /\ Coherent([d EXCEPT !.log = Append(@, [type |-> "REMEDIATION", what |-> r]),
                            !.remediations = d.remediations \cup {r}])
  BY <1>1, <1>2, LoggedCoherent
<1> QED
  BY <1>3, <1>4

\* A climb to a higher tier keeps a document coherent (evaluate_escalation).
LEMMA EscalatedCoherent ==
  ASSUME NEW d \in Docs, Coherent(d), NEW t \in Tiers, t > d.tier
  PROVE  Escalated(d, t) \in Docs /\ Coherent(Escalated(d, t))
<1> DEFINE e == Escalated(d, t)
           n == Len(d.climbs)
<1>1. e \in Docs
  <2>1. Append(d.climbs, t) \in Seq(Tiers)
    BY DEF Docs
  <2> QED
    BY <2>1 DEF Escalated, Docs
<1>2. /\ e.state = d.state /\ e.version = d.version /\ e.changes = d.changes
      /\ e.acknowledged = d.acknowledged /\ e.resolved = d.resolved
      /\ e.assignee = d.assignee /\ e.log = d.log
      /\ e.tier = t /\ e.climbs = Append(d.climbs, t)
  BY DEF Escalated, Docs
<1>3. /\ WalksTheGraph(e) /\ VersionCountsChanges(e)
      /\ StampsMatchChanges(e) /\ AssigneeIsLogged(e)
  BY <1>2 DEF Coherent, WalksTheGraph, VersionCountsChanges, StampsMatchChanges,
              Visited, AssigneeIsLogged
<1>4. ClimbsRise(e)
  <2>1. /\ d.climbs \in Seq(Tiers) /\ n \in Nat
        /\ d.tier \in Tiers
        /\ ClimbsRise(d)
    BY DEF Docs, Coherent
  <2>2. /\ Len(e.climbs) = n + 1 /\ e.climbs[n + 1] = t
        /\ \A k \in 1 .. n : e.climbs[k] = d.climbs[k]
    BY <1>2, <2>1
  <2>3. ASSUME NEW k \in 1 .. n
        PROVE  e.climbs[k] > IF k = 1 THEN 1 ELSE e.climbs[k - 1]
    <3>1. CASE k = 1
      BY <2>1, <2>2, <3>1 DEF ClimbsRise
    <3>2. CASE k # 1
      <4>1. k - 1 \in 1 .. n
        BY <2>1, <3>2
      <4>2. d.climbs[k] > d.climbs[k - 1]
        BY <2>1, <3>2 DEF ClimbsRise
      <4> QED
        BY <2>2, <3>2, <4>1, <4>2
    <3> QED
      BY <3>1, <3>2
  <2>4. t > IF n + 1 = 1 THEN 1 ELSE e.climbs[n]
    <3>1. CASE n = 0
      BY <2>1, <3>1 DEF ClimbsRise
    <3>2. CASE n # 0
      <4>1. n \in 1 .. n /\ d.climbs # << >>
        BY <2>1, <3>2
      <4>2. d.tier = d.climbs[n]
        BY <2>1, <4>1 DEF ClimbsRise
      <4>3. n + 1 # 1 /\ e.climbs[n] = d.climbs[n]
        BY <2>1, <2>2, <4>1
      <4> QED
        BY <4>2, <4>3
    <3> QED
      BY <3>1, <3>2
  <2>5. \A k \in 1 .. Len(e.climbs) : k \in 1 .. n \/ k = n + 1
    BY <2>1, <2>2
  <2>6. e.climbs # << >> /\ e.tier = e.climbs[Len(e.climbs)]
    BY <1>2, <2>1, <2>2
  <2> QED
    BY <2>1, <2>2, <2>3, <2>4, <2>5, <2>6 DEF ClimbsRise
<1> QED
  BY <1>1, <1>3, <1>4 DEF Coherent

\* In a coherent document nothing is post-mortemed or closed unresolved: the
\* only way into POSTMORTEM is from RESOLVED, and into CLOSED from those two.
LEMMA CoherentClosedWasResolved ==
  ASSUME NEW d \in Docs, Coherent(d), d.state \in {"POSTMORTEM", "CLOSED"}
  PROVE  d.resolved
<1> DEFINE n == Len(d.changes)
<1>1. /\ d.changes \in Seq(Changes) /\ n \in Nat
      /\ WalksTheGraph(d) /\ StampsMatchChanges(d)
  BY DEF Docs, Coherent
<1>2. n # 0 /\ n \in 1 .. n /\ d.changes[n].to = d.state
  BY <1>1 DEF WalksTheGraph
<1>3. ASSUME NEW k \in 1 .. n, d.changes[k].from = "RESOLVED"
      PROVE  d.resolved
  <2>1. k - 1 \in 1 .. n /\ d.changes[k - 1].to = "RESOLVED"
    BY <1>1, <1>3 DEF WalksTheGraph
  <2> QED
    BY <1>1, <2>1 DEF StampsMatchChanges, Visited
<1>4. \A src \in States :
         /\ CanTransition(src, "POSTMORTEM") => src = "RESOLVED"
         /\ CanTransition(src, "CLOSED") => src \in {"RESOLVED", "POSTMORTEM"}
  BY DEF CanTransition, Transitions, States
<1>5. ASSUME NEW k \in 1 .. n
      PROVE  /\ d.changes[k].to = "POSTMORTEM" => d.changes[k].from = "RESOLVED"
             /\ d.changes[k].to = "CLOSED" => d.changes[k].from \in {"RESOLVED", "POSTMORTEM"}
  <2>1. CanTransition(d.changes[k].from, d.changes[k].to)
    BY <1>1 DEF WalksTheGraph
  <2>2. d.changes[k].from \in States
    <3>1. d.changes[k] \in Changes
      BY <1>1
    <3> QED
      BY <3>1 DEF Changes
  <2> QED
    BY <1>4, <2>1, <2>2
<1>6. CASE d.changes[n].from = "RESOLVED"
  BY <1>2, <1>3, <1>6
<1>7. CASE d.changes[n].from = "POSTMORTEM"
  <2>1. n - 1 \in 1 .. n /\ d.changes[n - 1].to = "POSTMORTEM"
    BY <1>1, <1>2, <1>7 DEF WalksTheGraph
  <2>2. d.changes[n - 1].from = "RESOLVED"
    BY <1>5, <2>1
  <2> QED
    BY <1>3, <2>1, <2>2
<1> QED
  BY <1>2, <1>5, <1>6, <1>7
=============================================================================
