---------------------------- MODULE PlatformProofs ----------------------------
(***************************************************************************)
(* The incidents over the in-memory repositories: whatever operations are  *)
(* applied, the outbox and the audit trail tell the life of each of them.  *)
(* And the components that share no state: a step of one is a step of none *)
(* of the others, so what is proved of each holds of them together.        *)
(***************************************************************************)
EXTENDS MCPlatform, IncidentProofs, AccessProofs, RecordsProofs

(***************************************************************************)
(* The incidents over the in-memory repositories: a list of entries tells  *)
(* the life of an incident, and goes on telling it when both grow by the   *)
(* same entry, or the list by one of another incident.                     *)
(***************************************************************************)
LEMMA CountTo ==
  ASSUME NEW n \in Nat, NEW S \in SUBSET (1 .. n), NEW k \in S
  PROVE  /\ IsFiniteSet(S) /\ Cardinality(S) \in Nat
         /\ Cardinality({j \in S : j <= k}) \in 1 .. Cardinality(S)
<1>1. IsFiniteSet(1 .. n)
  BY FS_Interval
<1>2. IsFiniteSet(S)
  BY <1>1, FS_Subset
<1> DEFINE T == {j \in S : j <= k}
<1>3. T \in SUBSET S /\ T # {}
  OBVIOUS
<1> HIDE DEF T
<1>4. IsFiniteSet(T) /\ Cardinality(T) <= Cardinality(S)
  BY <1>2, <1>3, FS_Subset
<1>5. Cardinality(T) \in Nat /\ Cardinality(S) \in Nat /\ Cardinality(T) # 0
  BY <1>2, <1>3, <1>4, FS_CardinalityType, FS_EmptySet
<1>6. Cardinality(T) \in 1 .. Cardinality(S)
  BY <1>4, <1>5
<1> QED
  BY <1>2, <1>5, <1>6 DEF T

LEMMA TellsMore ==
  ASSUME NEW entries \in Seq(Events), NEW i, NEW life \in Seq(Events), NEW e \in Events,
         Tells(entries, i, life)
  PROVE  /\ e.id = i => Tells(Append(entries, e), i, Append(life, e))
         /\ e.id # i => Tells(Append(entries, e), i, life)
<1> DEFINE n == Len(entries)
           S == EntriesOf(entries, i)
           m == Len(life)
           new == Append(entries, e)
           longer == Append(life, e)
           Rank(T, k) == Cardinality({j \in T : j <= k})
<1>1. /\ n \in Nat /\ DOMAIN entries = 1 .. n /\ DOMAIN new = 1 .. n + 1
      /\ new[n + 1] = e /\ \A k \in 1 .. n : new[k] = entries[k]
      /\ m \in Nat /\ Len(longer) = m + 1
      /\ longer[m + 1] = e /\ \A k \in 1 .. m : longer[k] = life[k]
  OBVIOUS
<1>2. S \in SUBSET (1 .. n)
  BY <1>1 DEF EntriesOf
<1>3. IsFiniteSet(S) /\ Cardinality(S) = m
  <2>1. IsFiniteSet(1 .. n)
    BY <1>1, FS_Interval
  <2> QED
    BY <1>2, <2>1, FS_Subset DEF Tells
<1>4. \A k \in S : entries[k] = life[Rank(S, k)]
  BY DEF Tells
<1>5. \A k \in S : Rank(S, k) \in 1 .. m
  BY <1>1, <1>2, <1>3, CountTo
<1>6. EntriesOf(new, i) = IF e.id = i THEN S \cup {n + 1} ELSE S
  <2>1. DOMAIN new = DOMAIN entries \cup {n + 1}
    BY <1>1
  <2> QED
    BY <1>1, <2>1 DEF EntriesOf
<1> HIDE DEF n, S, m, new, longer
<1>7. CASE e.id # i
  <2>1. EntriesOf(new, i) = S
    BY <1>6, <1>7
  <2>2. \A k \in S : new[k] = life[Rank(S, k)]
    BY <1>1, <1>2, <1>4
  <2>3. Tells(new, i, life)
    BY <1>3, <2>1, <2>2 DEF Tells, m
  <2> QED
    BY <1>7, <2>3 DEF new
<1>8. CASE e.id = i
  <2> DEFINE T == S \cup {n + 1}
  <2>1. EntriesOf(new, i) = T
    BY <1>6, <1>8
  <2>2. n + 1 \notin S
    BY <1>1, <1>2
  <2>3. Cardinality(T) = m + 1
    BY <1>3, <2>2, FS_AddElement
  <2>4. ASSUME NEW k \in S
        PROVE  new[k] = longer[Rank(T, k)]
    <3>1. {j \in T : j <= k} = {j \in S : j <= k}
      BY <1>1, <1>2
    <3>2. new[k] = life[Rank(S, k)] /\ Rank(S, k) \in 1 .. m
      BY <1>1, <1>2, <1>4, <1>5
    <3> QED
      BY <1>1, <3>1, <3>2
  <2>5. new[n + 1] = longer[Rank(T, n + 1)]
    <3>2. \A j \in S : j \in 1 .. n /\ j <= n + 1
      BY <1>1, <1>2
    <3>3. n + 1 <= n + 1
      BY <1>1
    <3>1. {j \in T : j <= n + 1} = T
      BY <3>2, <3>3
    <3> QED
      BY <1>1, <2>3, <3>1
  <2> HIDE DEF Rank
  <2>6. \A k \in T : new[k] = longer[Rank(T, k)]
    BY <2>4, <2>5
  <2>7. Tells(new, i, longer)
    BY <1>1, <2>1, <2>3, <2>6 DEF Tells, Rank
  <2> QED
    BY <1>8, <2>7 DEF new, longer
<1> QED
  BY <1>7, <1>8

\* The life of an incident, of its document.
LifeOf(i, d) ==
    IF d = NoDoc THEN << >>
    ELSE <<CreatedEvent(i)>> \o
         [k \in DOMAIN d.changes |-> ChangedEvent(i, d.changes[k].from, d.changes[k].to)]

LEMMA LivesAreOfDocuments == \A i \in Incidents : Life(i) = LifeOf(i, rows[i])
BY DEF Life, LifeOf, Exists

LEMMA LifeIsEvents ==
  ASSUME NEW i \in Incidents, NEW d \in Docs
  PROVE  /\ LifeOf(i, d) \in Seq(Events)
         /\ Len(LifeOf(i, d)) = Len(d.changes) + 1
         /\ LifeOf(i, d)[1] = CreatedEvent(i)
         /\ \A k \in 1 .. Len(d.changes) :
               LifeOf(i, d)[k + 1] = ChangedEvent(i, d.changes[k].from, d.changes[k].to)
<1> DEFINE n == Len(d.changes)
           c == [k \in 1 .. n |-> ChangedEvent(i, d.changes[k].from, d.changes[k].to)]
<1>1. d.changes \in Seq(Changes) /\ n \in Nat /\ DOMAIN d.changes = 1 .. n
  BY DEF Docs
<1>2. ASSUME NEW k \in 1 .. n
      PROVE  d.changes[k].from \in States /\ d.changes[k].to \in States
  <2>1. d.changes[k] \in Changes
    BY <1>1
  <2> QED
    BY <2>1 DEF Changes
<1>3. \A k \in 1 .. n : ChangedEvent(i, d.changes[k].from, d.changes[k].to) \in Events
  BY <1>2 DEF ChangedEvent, Events
<1>4. c \in Seq(Events) /\ Len(c) = n
  BY <1>1, <1>3
<1>5. CreatedEvent(i) \in Events
  BY DEF CreatedEvent, Events, States
<1>6. LifeOf(i, d) = <<CreatedEvent(i)>> \o c
  BY <1>1, NoDocAssumption DEF LifeOf
<1>7. \A k \in 1 .. n : c[k] = ChangedEvent(i, d.changes[k].from, d.changes[k].to)
  OBVIOUS
<1> HIDE DEF c, n
<1>8. /\ <<CreatedEvent(i)>> \o c \in Seq(Events) /\ Len(<<CreatedEvent(i)>> \o c) = n + 1
      /\ (<<CreatedEvent(i)>> \o c)[1] = CreatedEvent(i)
      /\ \A k \in 1 .. n : (<<CreatedEvent(i)>> \o c)[k + 1] = c[k]
  BY <1>1, <1>4, <1>5
<1> QED
  BY <1>6, <1>7, <1>8 DEF n

LEMMA LifeBegins ==
  ASSUME NEW i \in Incidents
  PROVE  LifeOf(i, NewDoc) = Append(LifeOf(i, NoDoc), CreatedEvent(i))
<1>1. NewDoc \in Docs /\ NewDoc.changes = << >>
  BY NewDocCoherent DEF NewDoc
<1>2. /\ LifeOf(i, NewDoc) \in Seq(Events) /\ Len(LifeOf(i, NewDoc)) = 1
      /\ LifeOf(i, NewDoc)[1] = CreatedEvent(i)
  <2>1. Len(NewDoc.changes) = 0
    BY <1>1
  <2>2. /\ LifeOf(i, NewDoc) \in Seq(Events) /\ Len(LifeOf(i, NewDoc)) = Len(NewDoc.changes) + 1
        /\ LifeOf(i, NewDoc)[1] = CreatedEvent(i)
    BY <1>1, LifeIsEvents
  <2> QED
    BY <2>1, <2>2
<1>3. Append(LifeOf(i, NoDoc), CreatedEvent(i)) = <<CreatedEvent(i)>>
  BY DEF LifeOf
<1>4. \A s \in Seq(Events) : Len(s) = 1 => s = <<s[1]>>
  OBVIOUS
<1> QED
  BY <1>2, <1>3, <1>4

LEMMA LifeGoesOn ==
  ASSUME NEW i \in Incidents, NEW d \in Docs, NEW f \in Docs, NEW src \in States, NEW dst \in States,
         f.changes = Append(d.changes, [from |-> src, to |-> dst])
  PROVE  LifeOf(i, f) = Append(LifeOf(i, d), ChangedEvent(i, src, dst))
<1> DEFINE n == Len(d.changes)
           a == LifeOf(i, f)
           b == LifeOf(i, d)
           e == ChangedEvent(i, src, dst)
<1>1. d.changes \in Seq(Changes) /\ n \in Nat /\ f.changes \in Seq(Changes)
  BY DEF Docs
<1>2. /\ Len(f.changes) = n + 1 /\ f.changes[n + 1] = [from |-> src, to |-> dst]
      /\ \A k \in 1 .. n : f.changes[k] = d.changes[k]
  BY <1>1
<1>3. /\ a \in Seq(Events) /\ Len(a) = n + 2 /\ a[1] = CreatedEvent(i) /\ a[n + 2] = e
      /\ \A k \in 1 .. n : a[k + 1] = ChangedEvent(i, d.changes[k].from, d.changes[k].to)
  <2>1. /\ a \in Seq(Events) /\ Len(a) = Len(f.changes) + 1 /\ a[1] = CreatedEvent(i)
        /\ \A k \in 1 .. Len(f.changes) :
              a[k + 1] = ChangedEvent(i, f.changes[k].from, f.changes[k].to)
    BY LifeIsEvents
  <2> HIDE DEF a
  <2>2. n + 1 \in 1 .. Len(f.changes) /\ (n + 1) + 1 = n + 2
    BY <1>1, <1>2
  <2>3. a[n + 2] = e
    BY <1>2, <2>1, <2>2
  <2>4. \A k \in 1 .. n : k \in 1 .. Len(f.changes)
    BY <1>1, <1>2
  <2> QED
    BY <1>1, <1>2, <2>1, <2>2, <2>3, <2>4
<1>4. /\ b \in Seq(Events) /\ Len(b) = n + 1 /\ b[1] = CreatedEvent(i)
      /\ \A k \in 1 .. n : b[k + 1] = ChangedEvent(i, d.changes[k].from, d.changes[k].to)
  BY LifeIsEvents
<1>5. e \in Events
  BY DEF ChangedEvent, Events
<1> HIDE DEF a, b, e, n
<1>6. /\ Append(b, e) \in Seq(Events) /\ Len(Append(b, e)) = n + 2 /\ Append(b, e)[n + 2] = e
      /\ \A k \in 1 .. n + 1 : Append(b, e)[k] = b[k]
  BY <1>1, <1>4, <1>5
<1>7. \A k \in 1 .. n + 2 : k = 1 \/ k = n + 2 \/ (k - 1 \in 1 .. n /\ (k - 1) + 1 = k)
  BY <1>1
<1>8. \A k \in 1 .. n + 2 : a[k] = Append(b, e)[k]
  <2> SUFFICES ASSUME NEW k \in 1 .. n + 2
               PROVE  a[k] = Append(b, e)[k]
    OBVIOUS
  <2>1. CASE k = 1
    BY <2>1, <1>1, <1>3, <1>4, <1>6
  <2>2. CASE k = n + 2
    BY <2>2, <1>3, <1>6
  <2>3. CASE k - 1 \in 1 .. n /\ (k - 1) + 1 = k
    <3>1. a[(k - 1) + 1] = b[(k - 1) + 1]
      BY <2>3, <1>3, <1>4
    <3>2. k \in 1 .. n + 1
      BY <2>3, <1>1
    <3> QED
      BY <2>3, <3>1, <3>2, <1>6
  <2> QED
    BY <1>7, <2>1, <2>2, <2>3
<1>9. a = Append(b, e)
  <2> DEFINE c == Append(b, e)
  <2>1. c \in Seq(Events) /\ Len(c) = n + 2 /\ \A k \in 1 .. n + 2 : a[k] = c[k]
    BY <1>6, <1>8
  <2> HIDE DEF c
  <2>2. a = c
    BY <2>1, <1>3, SeqEqual
  <2> QED
    BY <2>2 DEF c
<1> QED
  BY <1>9 DEF a, b, e

LEMMA EntryOf ==
  ASSUME NEW S, NEW s \in Seq(S), NEW k \in DOMAIN s
  PROVE  s[k] \in S
OBVIOUS

LEMMA PagedTimesCoherent ==
  ASSUME NEW d \in Docs, Coherent(d), NEW n \in Nat
  PROVE  PagedTimes(d, n) \in Docs /\ Coherent(PagedTimes(d, n))
<1> DEFINE s == [k \in 1 .. n |-> [type |-> "NOTIFICATION_SENT", what |-> NoOne]]
           e == PagedTimes(d, n)
           m == Len(d.log)
<1>1. s \in Seq(Logged) /\ d.log \in Seq(Logged) /\ m \in Nat
  <2>1. [type |-> "NOTIFICATION_SENT", what |-> NoOne] \in Logged
    BY DEF Logged
  <2>2. s \in Seq(Logged)
    BY <2>1
  <2> HIDE DEF s
  <2> QED
    BY <2>2 DEF Docs
<1>2. e = [d EXCEPT !.log = @ \o s]
  BY DEF PagedTimes
<1> HIDE DEF s, e
<1>3. d.log \o s \in Seq(Logged)
  BY <1>1
<1>4. /\ Len(d.log \o s) >= m /\ Len(d.log \o s) \in Nat
      /\ \A k \in 1 .. m : (d.log \o s)[k] = d.log[k]
  BY <1>1
<1>5. /\ e.state = d.state /\ e.version = d.version /\ e.changes = d.changes
      /\ e.acknowledged = d.acknowledged /\ e.resolved = d.resolved
      /\ e.assignee = d.assignee /\ e.tier = d.tier /\ e.climbs = d.climbs
      /\ e.log = d.log \o s
  BY <1>2 DEF Docs
<1>6. e \in Docs
  BY <1>2, <1>3 DEF Docs
<1>7. WalksTheGraph(e) /\ VersionCountsChanges(e) /\ StampsMatchChanges(e) /\ ClimbsRise(e)
  BY <1>5 DEF Coherent, WalksTheGraph, VersionCountsChanges, StampsMatchChanges, Visited, ClimbsRise
<1>8. AssigneeIsLogged(e)
  <2> SUFFICES ASSUME d.assignee # NoOne
               PROVE  \E k \in 1 .. Len(e.log) : e.log[k] = [type |-> "ASSIGNED", what |-> d.assignee]
    BY <1>5 DEF AssigneeIsLogged
  <2>1. PICK k \in 1 .. m : d.log[k] = [type |-> "ASSIGNED", what |-> d.assignee]
    BY DEF Coherent, AssigneeIsLogged
  <2>2. k \in 1 .. Len(e.log)
    BY <1>1, <1>4, <1>5
  <2> QED
    BY <1>4, <1>5, <2>1, <2>2
<1> QED
  BY <1>6, <1>7, <1>8 DEF Coherent, e

(***************************************************************************)
(* Every operation keeps the documents coherent, and adds to both lists    *)
(* the event it adds to the life of its incident.                          *)
(***************************************************************************)
TellAll(entries, docs) == \A i \in Incidents : Tells(entries, i, LifeOf(i, docs[i]))

LifeInv == TypeOK /\ DocumentsCoherent /\ TellAll(outbox, rows) /\ TellAll(audit, rows)

LEMMA TellsOneMore ==
  ASSUME NEW docs \in [Incidents -> Docs \cup {NoDoc}], NEW entries \in Seq(Events),
         TellAll(entries, docs), NEW i \in Incidents, NEW f, NEW e \in Events, e.id = i,
         LifeOf(i, f) = Append(LifeOf(i, docs[i]), e)
  PROVE  /\ Append(entries, e) \in Seq(Events)
         /\ TellAll(Append(entries, e), [docs EXCEPT ![i] = f])
<1>1. ASSUME NEW j \in Incidents
      PROVE  Tells(Append(entries, e), j, LifeOf(j, [docs EXCEPT ![i] = f][j]))
  <2>1. LifeOf(j, docs[j]) \in Seq(Events)
    <3>1. CASE docs[j] = NoDoc
      <4>1. LifeOf(j, docs[j]) = << >>
        BY <3>1 DEF LifeOf
      <4>2. << >> \in Seq(Events)
        OBVIOUS
      <4> QED
        BY <4>1, <4>2
    <3>2. CASE docs[j] \in Docs
      BY <3>2, LifeIsEvents
    <3> QED
      BY <3>1, <3>2
  <2>2. Tells(entries, j, LifeOf(j, docs[j]))
    BY DEF TellAll
  <2>3. CASE j = i
    <3>1. Tells(Append(entries, e), j, Append(LifeOf(j, docs[j]), e))
      BY <2>1, <2>2, <2>3, TellsMore
    <3>2. [docs EXCEPT ![i] = f][j] = f
      BY <2>3
    <3> QED
      BY <2>3, <3>1, <3>2
  <2>4. CASE j # i
    <3>1. Tells(Append(entries, e), j, LifeOf(j, docs[j]))
      BY <2>1, <2>2, <2>4, TellsMore
    <3>2. [docs EXCEPT ![i] = f][j] = docs[j]
      BY <2>4
    <3> QED
      BY <3>1, <3>2
  <2> QED
    BY <2>3, <2>4
<1> QED
  BY <1>1 DEF TellAll

\* An operation that adds no state change.
LEMMA TellsTheSame ==
  ASSUME NEW docs \in [Incidents -> Docs \cup {NoDoc}], NEW entries, TellAll(entries, docs),
         NEW i \in Incidents, docs[i] # NoDoc, NEW f \in Docs, f.changes = docs[i].changes
  PROVE  TellAll(entries, [docs EXCEPT ![i] = f])
<1>1. LifeOf(i, f) = LifeOf(i, docs[i])
  BY NoDocAssumption DEF LifeOf
<1> QED
  BY <1>1 DEF TellAll

LEMMA LifeTypes ==
  ASSUME LifeInv, NEW i \in Incidents, Exists(i)
  PROVE  rows[i] \in Docs /\ Coherent(rows[i])
BY DEF LifeInv, TypeOK, DocumentsCoherent, Exists

\* An incident gets another document.
LEMMA RowsStayCoherent ==
  ASSUME LifeInv, NEW i \in Incidents, NEW f \in Docs, Coherent(f),
         rows' = [rows EXCEPT ![i] = f]
  PROVE  /\ rows' \in [Incidents -> Docs \cup {NoDoc}]
         /\ DocumentsCoherent'
BY DEF LifeInv, TypeOK, DocumentsCoherent, Exists

LEMMA EmittedOne ==
  ASSUME NEW entries \in Seq(Events), NEW e \in Events
  PROVE  entries \o <<e>> = Append(entries, e)
BY AppendIsConcat

LEMMA TwoMore ==
  ASSUME NEW entries \in Seq(Events), NEW d \in Events, NEW e \in Events
  PROVE  entries \o <<d, e>> = Append(Append(entries, d), e)
OBVIOUS

LEMMA LifecycleCreateKeeps ==
  ASSUME LifeInv, NEW i \in Incidents, Create(i)
  PROVE  LifeInv'
<1>1. NewDoc \in Docs /\ Coherent(NewDoc)
  BY NewDocCoherent
<1>2. /\ rows[i] = NoDoc /\ rows' = [rows EXCEPT ![i] = NewDoc]
      /\ outbox' = outbox \o <<CreatedEvent(i)>> /\ audit' = audit \o <<CreatedEvent(i)>>
      /\ age' = age
  BY DEF Create, Emit, Exists
<1>3. CreatedEvent(i) \in Events /\ CreatedEvent(i).id = i
  BY DEF CreatedEvent, Events, States
<1>4. LifeOf(i, NewDoc) = Append(LifeOf(i, rows[i]), CreatedEvent(i))
  BY <1>2, LifeBegins
<1>5. /\ rows \in [Incidents -> Docs \cup {NoDoc}]
      /\ outbox \in Seq(Events) /\ audit \in Seq(Events)
      /\ TellAll(outbox, rows) /\ TellAll(audit, rows)
      /\ age \in [Incidents -> 0 .. Horizon + TimeStep]
  BY DEF LifeInv, TypeOK
<1> DEFINE e == CreatedEvent(i)
<1> HIDE DEF e
<1>6. outbox' = Append(outbox, e) /\ audit' = Append(audit, e)
  BY <1>2, <1>3, <1>5, EmittedOne DEF e
<1>7. /\ Append(outbox, e) \in Seq(Events) /\ TellAll(Append(outbox, e), rows')
      /\ Append(audit, e) \in Seq(Events) /\ TellAll(Append(audit, e), rows')
  BY <1>2, <1>3, <1>4, <1>5, TellsOneMore DEF e
<1>8. rows' \in [Incidents -> Docs \cup {NoDoc}] /\ DocumentsCoherent'
  BY <1>1, <1>2, RowsStayCoherent
<1> QED
  BY <1>2, <1>5, <1>6, <1>7, <1>8 DEF LifeInv, TypeOK

LEMMA LifecycleTransitionKeeps ==
  ASSUME LifeInv, NEW i \in Incidents, NEW target, NEW expected, Transition(i, target, expected)
  PROVE  LifeInv'
<1> DEFINE d == rows[i]
           f == Transitioned(d, target)
           e == ChangedEvent(i, d.state, target)
<1>1. d \in Docs /\ Coherent(d) /\ CanTransition(d.state, target)
  BY LifeTypes DEF Transition, MayChange, MayTransition
<1>2. /\ rows' = [rows EXCEPT ![i] = f]
      /\ outbox' = outbox \o <<e>> /\ audit' = audit \o <<e>>
      /\ age' = age
  BY DEF Transition, Emit
<1>3. f \in Docs /\ Coherent(f)
  BY <1>1, TransitionedCoherent
<1>4. d.state \in States /\ target \in States
  BY <1>1, TransitionsAreStates DEF Docs
<1>5. f.changes = Append(d.changes, [from |-> d.state, to |-> target])
  BY <1>1 DEF Transitioned, Docs
<1>6. e \in Events /\ e.id = i
  BY <1>4 DEF ChangedEvent, Events
<1>7. LifeOf(i, f) = Append(LifeOf(i, d), e)
  BY <1>1, <1>3, <1>4, <1>5, LifeGoesOn
<1>8. /\ rows \in [Incidents -> Docs \cup {NoDoc}]
      /\ outbox \in Seq(Events) /\ audit \in Seq(Events)
      /\ TellAll(outbox, rows) /\ TellAll(audit, rows)
      /\ age \in [Incidents -> 0 .. Horizon + TimeStep]
  BY DEF LifeInv, TypeOK
<1> HIDE DEF e, f
<1>9. outbox' = Append(outbox, e) /\ audit' = Append(audit, e)
  BY <1>2, <1>6, <1>8, EmittedOne
<1>10. /\ Append(outbox, e) \in Seq(Events) /\ TellAll(Append(outbox, e), rows')
       /\ Append(audit, e) \in Seq(Events) /\ TellAll(Append(audit, e), rows')
  BY <1>2, <1>6, <1>7, <1>8, TellsOneMore
<1>11. rows' \in [Incidents -> Docs \cup {NoDoc}] /\ DocumentsCoherent'
  BY <1>2, <1>3, RowsStayCoherent
<1> QED
  BY <1>2, <1>8, <1>9, <1>10, <1>11 DEF LifeInv, TypeOK

\* An operation that only logs.
LEMMA LoggingKeeps ==
  ASSUME LifeInv, NEW i \in Incidents, Exists(i), NEW f \in Docs, Coherent(f),
         f.changes = rows[i].changes, rows' = [rows EXCEPT ![i] = f],
         UNCHANGED <<outbox, audit, age>>
  PROVE  LifeInv'
<1>1. rows[i] # NoDoc
  BY DEF Exists
<1>2. /\ rows \in [Incidents -> Docs \cup {NoDoc}]
      /\ TellAll(outbox, rows) /\ TellAll(audit, rows)
  BY DEF LifeInv, TypeOK
<1>3. TellAll(outbox, rows') /\ TellAll(audit, rows')
  BY <1>1, <1>2, TellsTheSame
<1>4. rows' \in [Incidents -> Docs \cup {NoDoc}] /\ DocumentsCoherent'
  BY RowsStayCoherent
<1> QED
  BY <1>3, <1>4 DEF LifeInv, TypeOK

LEMMA LogsKeep ==
  ASSUME LifeInv, NEW i \in Incidents,
         \/ \E a \in Assignees : Assign(i, a)
         \/ AddNote(i)
         \/ \E r \in Remediations : LinkRemediation(i, r)
  PROVE  LifeInv'
<1>1. Exists(i) /\ UNCHANGED <<outbox, audit, age>>
  BY DEF Assign, AddNote, LinkRemediation, MayLog
<1>2. rows[i] \in Docs /\ Coherent(rows[i])
  BY <1>1, LifeTypes
<1>3. PICK f \in Docs : Coherent(f) /\ f.changes = rows[i].changes /\ rows' = [rows EXCEPT ![i] = f]
  <2>1. ASSUME NEW a \in Assignees, Assign(i, a)
        PROVE  /\ Assigned(rows[i], a).changes = rows[i].changes
               /\ rows' = [rows EXCEPT ![i] = Assigned(rows[i], a)]
    BY <1>2, <2>1 DEF Assign, Assigned, Docs
  <2>2. ASSUME AddNote(i)
        PROVE  /\ Noted(rows[i]).changes = rows[i].changes
               /\ rows' = [rows EXCEPT ![i] = Noted(rows[i])]
    BY <1>2, <2>2 DEF AddNote, Noted, Docs
  <2>3. ASSUME NEW r \in Remediations, LinkRemediation(i, r)
        PROVE  /\ Linked(rows[i], r).changes = rows[i].changes
               /\ rows' = [rows EXCEPT ![i] = Linked(rows[i], r)]
    BY <1>2, <2>3 DEF LinkRemediation, Linked, Docs
  <2> QED
    BY <1>2, <2>1, <2>2, <2>3, AssignedCoherent, NotedCoherent, LinkedCoherent
<1> QED
  BY <1>1, <1>3, LoggingKeeps

LEMMA LifecycleEscalateKeeps ==
  ASSUME LifeInv, NEW i \in Incidents, Escalate(i)
  PROVE  LifeInv'
<1>1. Exists(i) /\ UNCHANGED <<outbox, audit, age>>
  BY DEF Escalate, EscalateAt
<1>2. rows[i] \in Docs /\ Coherent(rows[i])
  BY <1>1, LifeTypes
<1>3. PICK step \in Escalations(Severity[i], age[i], rows[i].tier) :
         rows' = [rows EXCEPT ![i] = PagedTimes(Escalated(rows[i], step.tier), Len(ChannelsOf(step)))]
  BY DEF Escalate, EscalateAt
<1> DEFINE d == Escalated(rows[i], step.tier)
           n == Len(ChannelsOf(step))
<1>4. step.tier \in Tiers /\ step.tier > rows[i].tier /\ step \in Steps
  <2>1. step.tier > rows[i].tier /\ step \in Due(Severity[i], age[i])
    BY DEF Escalations
  <2>2. PICK p \in PolicyFor(Severity[i]) : \E k \in StepFor(p, age[i]) : step = Policies[p].steps[k]
    BY <2>1 DEF Due
  <2>3. p \in DOMAIN Policies
    BY DEF PolicyFor, FirstMax
  <2>4. Policies[p] \in [min_severity : Severities, steps : Seq(Steps)]
    BY <2>3, PoliciesAssumption, EntryOf
  <2>5. Policies[p].steps \in Seq(Steps) /\ StepFor(p, age[i]) \subseteq DOMAIN Policies[p].steps
    BY <2>4 DEF StepFor, FirstMax
  <2>6. step \in Steps
    BY <2>2, <2>5
  <2> QED
    BY <2>1, <2>6 DEF Steps, Tiers
<1>5. n \in Nat
  <2>1. PageChannels(step) \subseteq Seq(NotificationChannels)
    <3> SUFFICES ASSUME NEW c \in PageChannels(step)
                 PROVE  c \in Seq(NotificationChannels)
      OBVIOUS
    <3>1. PICK eng \in OnCallFor(step.tier) :
             c = ChannelsNamed(IF step.channels # << >> THEN step.channels ELSE eng.channels)
      BY DEF PageChannels
    <3>2. PICK h \in DOMAIN OnCall : eng = OnCall[h]
      BY DEF OnCallFor
    <3>3. eng \in [tier : 1 .. 3, channels : Seq(STRING)]
      BY <3>2, OnCallAssumption, EntryOf
    <3>4. ASSUME NEW names \in Seq(STRING)
          PROVE  ChannelsNamed(names) \in Seq(NotificationChannels)
      <4>1. \A k \in DOMAIN names : ChannelOf(names[k]) \in NotificationChannels
        BY DEF ChannelOf, NotificationChannels
      <4> QED
        BY <4>1 DEF ChannelsNamed
    <3> QED
      BY <1>4, <3>1, <3>3, <3>4 DEF Steps
  <2>2. ChannelsOf(step) \in Seq(NotificationChannels)
    <3>1. << >> \in Seq(NotificationChannels)
      OBVIOUS
    <3> QED
      BY <2>1, <3>1 DEF ChannelsOf
  <2> QED
    BY <2>2
<1>6. d \in Docs /\ Coherent(d)
  BY <1>2, <1>4, EscalatedCoherent
<1>7. d.changes = rows[i].changes
  BY <1>2 DEF Escalated, Docs
<1> HIDE DEF d, n
<1>8. PagedTimes(d, n) \in Docs /\ Coherent(PagedTimes(d, n))
  BY <1>5, <1>6, PagedTimesCoherent
<1>9. PagedTimes(d, n).changes = d.changes
  BY <1>6 DEF PagedTimes, Docs
<1>10. rows' = [rows EXCEPT ![i] = PagedTimes(d, n)]
  BY <1>3 DEF d, n
<1> QED
  BY <1>1, <1>7, <1>8, <1>9, <1>10, LoggingKeeps

LEMMA LifecycleTickKeeps ==
  ASSUME LifeInv, Tick
  PROVE  LifeInv'
<1>1. age' \in [Incidents -> 0 .. Horizon + TimeStep]
  BY BoundsAssumption DEF Tick, LifeInv, TypeOK
<1>2. UNCHANGED <<rows, outbox, audit>>
  BY DEF Tick
<1> QED
  BY <1>1, <1>2 DEF LifeInv, TypeOK, DocumentsCoherent, Exists

\* A bulk transition that succeeds of one id, or of two.
LEMMA LifecycleBulkKeeps ==
  ASSUME LifeInv, NEW ids \in BulkLists, NEW target, BulkTransition(ids, target)
  PROVE  LifeInv'
<1> DEFINE May(i) == MayChange(i) /\ MayTransition(rows[i], target, {})
           In(i, list) == \E k \in DOMAIN list : list[k] = i
           New(i) == Transitioned(rows[i], target)
           Told(i) == ChangedEvent(i, rows[i].state, target)
<1>1. PICK moved \in Sublists(ids) :
        /\ \A i \in Incidents : In(i, moved) <=> In(i, ids) /\ May(i)
        /\ rows' = [i \in Incidents |-> IF In(i, moved) THEN New(i) ELSE rows[i]]
        /\ Emit([k \in DOMAIN moved |-> Told(moved[k])])
        /\ UNCHANGED <<notifications, age>>
  BY DEF BulkTransition
<1>2. /\ rows \in [Incidents -> Docs \cup {NoDoc}]
      /\ outbox \in Seq(Events) /\ audit \in Seq(Events)
      /\ TellAll(outbox, rows) /\ TellAll(audit, rows)
      /\ age \in [Incidents -> 0 .. Horizon + TimeStep]
  BY DEF LifeInv, TypeOK
<1>3. ASSUME NEW i \in Incidents, May(i)
      PROVE  /\ New(i) \in Docs /\ Coherent(New(i))
             /\ Told(i) \in Events /\ Told(i).id = i
             /\ LifeOf(i, New(i)) = Append(LifeOf(i, rows[i]), Told(i))
  <2> DEFINE d == rows[i]
  <2>1. d \in Docs /\ Coherent(d) /\ CanTransition(d.state, target)
    BY <1>3, LifeTypes DEF MayChange, MayTransition
  <2>2. New(i) \in Docs /\ Coherent(New(i))
    BY <2>1, TransitionedCoherent
  <2>3. d.state \in States /\ target \in States
    BY <2>1, TransitionsAreStates DEF Docs
  <2>4. New(i).changes = Append(d.changes, [from |-> d.state, to |-> target])
    BY <2>1 DEF Transitioned, Docs
  <2>5. Told(i) \in Events /\ Told(i).id = i
    BY <2>3 DEF ChangedEvent, Events
  <2>6. LifeOf(i, New(i)) = Append(LifeOf(i, d), Told(i))
    BY <2>1, <2>2, <2>3, <2>4, LifeGoesOn
  <2> QED
    BY <2>2, <2>5, <2>6
<1> HIDE DEF May, New, Told
<1>4. ASSUME NEW i \in Incidents, In(i, moved)
      PROVE  May(i)
  BY <1>1, <1>4
<1>5. /\ rows' \in [Incidents -> Docs \cup {NoDoc}]
      /\ DocumentsCoherent'
  BY <1>1, <1>2, <1>3, <1>4 DEF LifeInv, DocumentsCoherent, Exists
<1>6. \/ \E i \in Incidents : moved = <<i>>
      \/ \E i, j \in Incidents : i # j /\ moved = <<i, j>>
  <2>1. \/ \E i \in Incidents : ids = <<i>>
        \/ \E i, j \in Incidents : i # j /\ ids = <<i, j>>
    BY DEF BulkLists
  <2>2. moved = ids \/ \E k \in DOMAIN ids : moved = <<ids[k]>>
    BY DEF Sublists
  <2>3. \A k \in DOMAIN ids : ids[k] \in Incidents
    BY <2>1
  <2> QED
    BY <2>1, <2>2, <2>3
<1>7. CASE \E i \in Incidents : moved = <<i>>
  <2>1. PICK i \in Incidents : moved = <<i>>
    BY <1>7
  <2>2. /\ \A j \in Incidents : In(j, moved) <=> j = i
        /\ DOMAIN moved = {1} /\ moved[1] = i
    BY <2>1
  <2>3. rows' = [rows EXCEPT ![i] = New(i)]
    BY <1>1, <1>2, <2>2
  <2>4. [k \in DOMAIN moved |-> Told(moved[k])] = <<Told(i)>>
    BY <2>2
  <2>5. outbox' = outbox \o <<Told(i)>> /\ audit' = audit \o <<Told(i)>>
    BY <1>1, <2>4 DEF Emit
  <2>6. May(i)
    BY <1>4, <2>2
  <2> DEFINE e == Told(i)
             f == New(i)
  <2>7. e \in Events /\ e.id = i /\ LifeOf(i, f) = Append(LifeOf(i, rows[i]), e)
    BY <1>3, <2>6
  <2> HIDE DEF e, f
  <2>8. outbox' = Append(outbox, e) /\ audit' = Append(audit, e)
    BY <1>2, <2>5, <2>7, EmittedOne DEF e
  <2>9. /\ Append(outbox, e) \in Seq(Events) /\ TellAll(Append(outbox, e), [rows EXCEPT ![i] = f])
        /\ Append(audit, e) \in Seq(Events) /\ TellAll(Append(audit, e), [rows EXCEPT ![i] = f])
    BY <1>2, <2>7, TellsOneMore
  <2>10. TellAll(outbox', rows') /\ TellAll(audit', rows')
    BY <2>3, <2>8, <2>9 DEF f
  <2>11. outbox' \in Seq(Events) /\ audit' \in Seq(Events) /\ age' = age
    BY <1>1, <2>8, <2>9
  <2> QED
    BY <1>2, <1>5, <2>10, <2>11 DEF LifeInv, TypeOK
<1>8. CASE \E i, j \in Incidents : i # j /\ moved = <<i, j>>
  <2>1. PICK i \in Incidents, j \in Incidents : i # j /\ moved = <<i, j>>
    BY <1>8
  <2>2. /\ \A h \in Incidents : In(h, moved) <=> h = i \/ h = j
        /\ DOMAIN moved = {1, 2} /\ moved[1] = i /\ moved[2] = j
    BY <2>1
  <2> DEFINE mid == [rows EXCEPT ![i] = New(i)]
  <2>3. /\ rows' = [mid EXCEPT ![j] = New(j)] /\ mid[j] = rows[j]
        /\ mid \in [Incidents -> Docs \cup {NoDoc}]
    <3> HIDE DEF In
    <3>1. New(i) \in Docs /\ New(j) \in Docs
      BY <1>3, <1>4, <2>2
    <3>2. mid \in [Incidents -> Docs \cup {NoDoc}] /\ mid[j] = rows[j]
      BY <1>2, <2>1, <3>1
    <3>3. rows' = [h \in Incidents |-> IF h = i \/ h = j THEN New(h) ELSE rows[h]]
      BY <1>1, <2>2
    <3>4. [mid EXCEPT ![j] = New(j)] = [h \in Incidents |-> IF h = i \/ h = j THEN New(h) ELSE rows[h]]
      BY <1>2, <2>1, <3>1
    <3> QED
      BY <3>2, <3>3, <3>4
  <2>4. [k \in DOMAIN moved |-> Told(moved[k])] = <<Told(i), Told(j)>>
    BY <2>2
  <2>5. outbox' = outbox \o <<Told(i), Told(j)>> /\ audit' = audit \o <<Told(i), Told(j)>>
    BY <1>1, <2>4 DEF Emit
  <2>6. May(i) /\ May(j)
    BY <1>4, <2>2
  <2> DEFINE d == Told(i)
             e == Told(j)
             f == New(i)
             g == New(j)
  <2>7. /\ d \in Events /\ d.id = i /\ LifeOf(i, f) = Append(LifeOf(i, rows[i]), d)
        /\ e \in Events /\ e.id = j /\ LifeOf(j, g) = Append(LifeOf(j, mid[j]), e)
    BY <1>3, <2>3, <2>6
  <2> HIDE DEF d, e
  <2>8. ASSUME NEW entries \in Seq(Events), TellAll(entries, rows)
        PROVE  /\ entries \o <<d, e>> \in Seq(Events)
               /\ TellAll(entries \o <<d, e>>, rows')
    <3>1. Append(entries, d) \in Seq(Events) /\ TellAll(Append(entries, d), mid)
      BY <1>2, <2>7, <2>8, TellsOneMore
    <3> DEFINE one == Append(entries, d)
    <3>2. entries \o <<d, e>> = Append(one, e)
      BY <2>7, TwoMore
    <3> HIDE DEF one, mid, g
    <3>3. Append(one, e) \in Seq(Events) /\ TellAll(Append(one, e), [mid EXCEPT ![j] = g])
      BY <2>3, <2>7, <3>1, TellsOneMore DEF one
    <3> QED
      BY <2>3, <3>2, <3>3 DEF g
  <2>9. /\ outbox' \in Seq(Events) /\ TellAll(outbox', rows')
        /\ audit' \in Seq(Events) /\ TellAll(audit', rows')
    BY <1>2, <2>5, <2>8 DEF d, e
  <2> QED
    BY <1>1, <1>2, <1>5, <2>9 DEF LifeInv, TypeOK
<1> QED
  BY <1>6, <1>7, <1>8

LEMMA LifecycleStepKeeps == ASSUME LifeInv, [Next]_vars PROVE LifeInv'
<1>1. CASE UNCHANGED vars
  BY <1>1 DEF vars, LifeInv, TypeOK, DocumentsCoherent, Exists
<1>2. CASE \E ids \in BulkLists, target \in States : BulkTransition(ids, target)
  BY <1>2, LifecycleBulkKeeps
<1>3. CASE Tick
  BY <1>3, LifecycleTickKeeps
<1>4. ASSUME NEW i \in Incidents,
             \/ Create(i)
             \/ \E target \in States, expected \in ExpectedValues : Transition(i, target, expected)
             \/ \E a \in Assignees : Assign(i, a)
             \/ AddNote(i)
             \/ \E r \in Remediations : LinkRemediation(i, r)
             \/ Escalate(i)
      PROVE  LifeInv'
  BY <1>4, LifecycleCreateKeeps, LifecycleTransitionKeeps, LogsKeep, LifecycleEscalateKeeps
<1> QED
  BY <1>1, <1>2, <1>3, <1>4 DEF Next

LEMMA LifecycleInit == ASSUME Init PROVE LifeInv
<1>1. /\ \A i \in Incidents : rows[i] = NoDoc
      /\ outbox = << >> /\ audit = << >>
      /\ rows \in [Incidents -> Docs \cup {NoDoc}]
      /\ age \in [Incidents -> 0 .. Horizon + TimeStep]
  BY BoundsAssumption DEF Init
<1>2. \A i \in Incidents : LifeOf(i, rows[i]) = << >>
  BY <1>1 DEF LifeOf
<1>3. \A i \in Incidents : Tells(<< >>, i, << >>)
  <2> SUFFICES ASSUME NEW i \in Incidents PROVE Tells(<< >>, i, << >>)
    OBVIOUS
  <2>1. EntriesOf(<< >>, i) = {}
    BY DEF EntriesOf
  <2> QED
    BY <2>1, FS_EmptySet DEF Tells
<1>4. << >> \in Seq(Events)
  OBVIOUS
<1> QED
  BY <1>1, <1>2, <1>3, <1>4 DEF LifeInv, TypeOK, TellAll, DocumentsCoherent, Exists

LEMMA LifecycleInvariant == Spec => []LifeInv
<1>1. Init => LifeInv
  BY LifecycleInit
<1>2. LifeInv /\ [Next]_vars => LifeInv'
  BY LifecycleStepKeeps
<1> QED
  BY <1>1, <1>2, PTL DEF Spec

\* Whatever operations are applied, the outbox and the audit trail tell the life
\* of every incident, in order, and its document is the result: for any
\* incidents, policies and directory (incident_service.py over the in-memory
\* repositories).
THEOREM OutboxTells == Spec => []OutboxTellsTheTimeline
<1>1. LifeInv => OutboxTellsTheTimeline
  BY LivesAreOfDocuments DEF LifeInv, TellAll, OutboxTellsTheTimeline
<1> QED
  BY <1>1, LifecycleInvariant, PTL

-----------------------------------------------------------------------------
(***************************************************************************)
(* The components together.                                                *)
(***************************************************************************)
EditedIsADocument == part = "width" => edited \in WidthDocs

LEMMA PlatformStarts ==
  ASSUME PlatformInit
  PROVE  /\ Init /\ SessionInit /\ RateInit /\ IdemInit /\ WidthInit
         /\ AuditInit /\ DailyInit /\ VenueInit /\ ScenarioInit
         /\ EditedIsADocument
BY DEF PlatformInit, EditedIsADocument

\* Editing one document is one of the things the width modules do.
LEMMA EditedStep == ASSUME edited \in WidthDocs, EditedNext PROVE WidthNext
<1>1. \A p \in Replicas, failed \in SUBSET {S \in Services : edited \in S} :
         failed \in SUBSET Services
  OBVIOUS
<1> QED
  BY <1>1 DEF EditedNext, WidthNext

LEMMA PlatformSteps ==
  ASSUME EditedIsADocument, [PlatformNext]_platformVars
  PROVE  /\ [Next]_vars /\ [SessionNext]_sessionVars /\ [RateNext]_rateVars
         /\ [IdemNext]_idemVars /\ [WidthNext]_widthVars /\ [AuditNext]_auditVars
         /\ [DailyNext]_dailyVars /\ [VenueNext]_venueVars /\ [ScenarioNext]_scenarioVars
         /\ EditedIsADocument'
<1>1. ASSUME part = "width", EditedNext PROVE WidthNext
  BY <1>1, EditedStep DEF EditedIsADocument
<1>2. UNCHANGED parts
  BY DEF PlatformNext, platformVars
<1>3. EditedIsADocument'
  BY <1>2 DEF parts, EditedIsADocument
<1> QED
  BY <1>1, <1>3 DEF PlatformNext, platformVars

\* A behaviour of the platform is one of every component: for any values of the
\* constants (core/context.py wires services that share no state).
THEOREM PlatformIsItsParts ==
  PlatformSpec => /\ Spec /\ SessionSpec /\ RateSpec /\ IdemSpec /\ WidthSpec
                  /\ AuditSpec /\ DailySpec /\ VenueSpec /\ ScenarioSpec
BY PlatformStarts, PlatformSteps, PTL
   DEF PlatformSpec, Spec, SessionSpec, RateSpec, IdemSpec, WidthSpec, AuditSpec, DailySpec,
       VenueSpec, ScenarioSpec

\* Every component keeps its types, for any values of the constants.
THEOREM PlatformKeepsTypes == PlatformSpec => []PlatformTypeOK
<1>1. LifeInv => TypeOK
  BY DEF LifeInv
<1>2. SessionInv => SessionTypeOK
  BY DEF SessionInv
<1>3. BucketInv => RateTypeOK
  BY DEF BucketInv, WindowInv
<1>4. CreationInv => IdemTypeOK
  BY DEF CreationInv
<1>5. WidthInv => WidthTypeOK
  BY DEF WidthInv
<1>6. AuditInv => AuditTypeOK
  BY DEF AuditInv
<1>7. DailyInv => DailyTypeOK
  BY DEF DailyInv
<1>8. VenueInv => VenueTypeOK
  BY DEF VenueInv
<1>9. ScenarioInv => ScenarioTypeOK
  BY DEF ScenarioInv
<1>10. /\ TypeOK /\ SessionTypeOK /\ RateTypeOK /\ IdemTypeOK /\ WidthTypeOK
       /\ AuditTypeOK /\ DailyTypeOK /\ VenueTypeOK /\ ScenarioTypeOK
       => PlatformTypeOK
  BY DEF PlatformTypeOK
<1> QED
  BY <1>1, <1>2, <1>3, <1>4, <1>5, <1>6, <1>7, <1>8, <1>9, <1>10, PlatformIsItsParts,
     LifecycleInvariant, SessionInvHolds, BucketInvHolds, CreationInductive, WidthInductive,
     AuditInvariant, DailyInvariant, VenueInvariant, ScenarioInductive, PTL
=============================================================================
