-------------------------- MODULE BurnAlertsProofs --------------------------
(***************************************************************************)
(* For any objectives, tiers, rosters and requests: nobody is told twice   *)
(* within the window of an alert unless by requests that overlap, a page   *)
(* goes down the list in order, what is silenced throughout a request is   *)
(* not paged by it, a counter never shows more than was done, and an alert *)
(* has somebody to be told if anybody is on call.                          *)
(***************************************************************************)
EXTENDS BurnAlerts, OnCallDirectory, SequenceTheorems, FiniteSetTheorems,
        WellFoundedInduction, TLAPS

\* What a request knows that pages for the alert a: it found nothing recent
\* among the notifications it saw; it has still to tell the last of the list;
\* and the one before those was told, and sent.
Paging(r, a) ==
    /\ r.seen <= Len(notes)
    /\ \A i \in 1 .. r.seen : notes[i].key = Key(a) => now - notes[i].at >= Window(a)
    /\ r.routes # << >> /\ Len(r.routes) <= Len(Routes[Key(a)[2]])
    /\ \A i \in 1 .. Len(r.routes) :
          r.routes[i] = Routes[Key(a)[2]][Len(Routes[Key(a)[2]]) - Len(r.routes) + i]
    /\ Len(r.routes) < Len(Routes[Key(a)[2]]) =>
          \E i \in 1 .. Len(notes) :
              /\ notes[i].key = Key(a) /\ notes[i].seen = r.seen /\ notes[i].sent
              /\ notes[i].to = Routes[Key(a)[2]][Len(Routes[Key(a)[2]]) - Len(r.routes)]
    /\ r.pc = "mark" => /\ r.note \in 1 .. Len(notes)
                        /\ notes[r.note].key = Key(a) /\ notes[r.note].seen = r.seen
                        /\ notes[r.note].to = Head(r.routes)

\* A request r, with the keys q that were silenced ever since it began.
RequestOK(r, q) ==
    /\ r.pc \in {"ack", "prune_ack", "silence", "prune_silence"} => r.todo # << >>
    /\ r.pc \in {"list", "add", "mark"} => r.open # << >>
    /\ \A i \in 1 .. Len(r.open) : Key(r.open[i]) \notin q
    /\ r.pc \in {"add", "mark"} => Paging(r, Head(r.open))
    /\ r.pc \in {"count", "write"} => r.action \in Kinds

RequestsOK == \A w \in Workers : RequestOK(req[w], quiet[w])

IInv ==
    /\ TypeOK
    /\ RequestsOK
    /\ ToldTwiceOnlyByOverlap
    /\ PrimaryFirst

\* How notifications change: more are added, and some are marked.
NotesGrow ==
    /\ Len(notes) <= Len(notes')
    /\ \A i \in 1 .. Len(notes) :
          /\ notes'[i].key = notes[i].key /\ notes'[i].to = notes[i].to
          /\ notes'[i].at = notes[i].at /\ notes'[i].seen = notes[i].seen
          /\ notes'[i].window = notes[i].window
          /\ notes[i].sent => notes'[i].sent

\* quiet, as every step leaves it.
QuietFollows ==
    quiet' = [w \in Workers |-> IF req'[w] = Free THEN {}
                                ELSE IF req[w] = Free THEN Silenced'
                                ELSE quiet[w] \cap Silenced']

\* Places in a list, and what is left of it.
LEMMA TailNotEmpty ==
  ASSUME NEW S, NEW s \in Seq(S), s # << >>, Len(s) # 1 \/ Len(s) > 1
  PROVE  Tail(s) # << >>
<1>1. Len(s) \in Nat \ {0} /\ Len(Tail(s)) = Len(s) - 1
  BY HeadTailProperties, LenProperties, EmptySeq
<1>2. Len(Tail(s)) # 0
  BY <1>1
<1> QED
  BY <1>2, EmptySeq

LEMMA AnEarlierPlace ==
  ASSUME NEW n \in Nat, NEW m \in Nat, m <= n, (n - m) + 1 > 1
  PROVE  n - m \in Nat /\ ((n - m) + 1) - 1 = n - m /\ m < n
OBVIOUS

LEMMA TheNextPlace ==
  ASSUME NEW n \in Nat, NEW m \in Nat, m # 0, m <= n, NEW t \in Nat, t = m - 1
  PROVE  /\ t < n /\ 1 \in 1 .. m
         /\ n - m + 1 = n - t
         /\ \A i \in 1 .. t : i + 1 \in 1 .. m /\ n - m + (i + 1) = n - t + i
OBVIOUS

LEMMA AlertFacts ==
  ASSUME NEW a \in Alerts
  PROVE  /\ Key(a) \in Keys /\ Key(a)[2] \in Severities /\ Window(a) \in Nat
         /\ Routes[Key(a)[2]] \in Seq(Everyone) /\ Routes[Key(a)[2]] # << >>
         /\ Len(Routes[Key(a)[2]]) \in Nat \ {0}
         /\ \A i, j \in 1 .. Len(Routes[Key(a)[2]]) :
               Routes[Key(a)[2]][i] = Routes[Key(a)[2]][j] => i = j
<1>1. Key(a) \in Keys /\ Key(a)[2] \in Severities /\ Window(a) \in Nat
  <2>1. a.slo \in Objectives /\ a.tier \in DOMAIN Tiers
    BY DEF Alerts
  <2> DEFINE Tier == [severity : {"page", "ticket"}, window : Nat]
  <2>2. Tiers[a.tier] \in Tier
    <3>1. Tiers \in Seq(Tier)
      BY BurnAlertsAssumption
    <3> HIDE DEF Tier
    <3>2. a.tier \in 1 .. Len(Tiers)
      BY <2>1, <3>1, LenProperties
    <3> QED
      BY <3>1, <3>2, ElementOfSeq
  <2> QED
    BY <2>1, <2>2 DEF Key, Keys, Severities, Window
<1>2. /\ Routes[Key(a)[2]] \in Seq(Everyone) \ {<< >>}
      /\ \A i, j \in DOMAIN Routes[Key(a)[2]] :
            Routes[Key(a)[2]][i] = Routes[Key(a)[2]][j] => i = j
  BY <1>1, BurnAlertsAssumption
<1>3. Len(Routes[Key(a)[2]]) \in Nat \ {0} /\ DOMAIN Routes[Key(a)[2]] = 1 .. Len(Routes[Key(a)[2]])
  BY <1>2, EmptySeq, LenProperties
<1> QED
  BY <1>1, <1>2, <1>3

\* The bounds in what a request that pages knows.
LEMMA PagingBounds ==
  ASSUME NEW r, NEW a, Paging(r, a)
  PROVE  /\ r.seen <= Len(notes) /\ r.routes # << >> /\ Len(r.routes) <= Len(Routes[Key(a)[2]])
         /\ r.pc = "mark" => r.note \in 1 .. Len(notes)
BY Zenon DEF Paging

\* A request that stands still is as it was, while others work and time goes on.
LEMMA RequestKept ==
  ASSUME TypeOK, TypeOK', NotesGrow, now <= now',
         NEW w \in Workers, req'[w] = req[w], quiet'[w] \subseteq quiet[w],
         RequestOK(req[w], quiet[w])
  PROVE  RequestOK(req[w], quiet[w])'
<1> DEFINE r == req[w]
           a == Head(req[w].open)
           R == Routes[Key(a)[2]]
<1>1. r \in Requests /\ notes \in Seq(Notes) /\ notes' \in Seq(Notes) /\ now \in Nat /\ now' \in Nat
  BY DEF TypeOK
<1>2. r.seen \in Nat /\ r.note \in Nat /\ r.open \in Seq(Alerts)
  BY <1>1 DEF Requests
<1>3. /\ Len(notes) \in Nat /\ Len(notes') \in Nat /\ Len(notes) <= Len(notes')
      /\ \A i \in 1 .. Len(notes) : notes[i] \in Notes /\ i \in 1 .. Len(notes')
  BY <1>1, LenProperties, ElementOfSeq DEF NotesGrow
<1>4. ASSUME r.pc \in {"add", "mark"}
      PROVE  Paging(req[w], Head(req[w].open))'
  <2>1. Paging(r, a) /\ a \in Alerts /\ Window(a) \in Nat
    BY <1>2, <1>4, HeadTailProperties, AlertFacts DEF RequestOK
  <2>2. r.seen <= Len(notes') /\ (r.pc = "mark" => r.note \in 1 .. Len(notes'))
    <3>1. r.seen <= Len(notes) /\ (r.pc = "mark" => r.note \in 1 .. Len(notes))
      BY <2>1, PagingBounds
    <3> QED
      BY <1>2, <1>3, <3>1
  <2>3. \A i \in 1 .. r.seen : notes'[i].key = Key(a) => now' - notes'[i].at >= Window(a)
    <3> SUFFICES ASSUME NEW i \in 1 .. r.seen, notes'[i].key = Key(a)
                 PROVE  now' - notes'[i].at >= Window(a)
      OBVIOUS
    <3>0. r.seen <= Len(notes)
      BY <2>1, PagingBounds
    <3>1. i \in 1 .. Len(notes)
      BY <1>2, <1>3, <3>0
    <3>2. notes[i].key = Key(a) /\ notes'[i].at = notes[i].at /\ notes[i].at \in Nat
      BY <1>3, <3>1 DEF NotesGrow, Notes
    <3>3. now - notes[i].at >= Window(a)
      BY <2>1, <3>2 DEF Paging
    <3> QED
      BY <1>1, <2>1, <3>2, <3>3
  <2>4. Len(r.routes) < Len(R) =>
          \E i \in 1 .. Len(notes') :
              /\ notes'[i].key = Key(a) /\ notes'[i].seen = r.seen /\ notes'[i].sent
              /\ notes'[i].to = R[Len(R) - Len(r.routes)]
    <3> SUFFICES ASSUME Len(r.routes) < Len(R)
                 PROVE  \E i \in 1 .. Len(notes') :
                           /\ notes'[i].key = Key(a) /\ notes'[i].seen = r.seen /\ notes'[i].sent
                           /\ notes'[i].to = R[Len(R) - Len(r.routes)]
      OBVIOUS
    <3>1. PICK i \in 1 .. Len(notes) :
            /\ notes[i].key = Key(a) /\ notes[i].seen = r.seen /\ notes[i].sent
            /\ notes[i].to = R[Len(R) - Len(r.routes)]
      BY <2>1 DEF Paging
    <3>2. i \in 1 .. Len(notes')
      BY <1>3
    <3> QED
      BY <3>1, <3>2 DEF NotesGrow
  <2>5. r.pc = "mark" => /\ notes'[r.note].key = Key(a) /\ notes'[r.note].seen = r.seen
                         /\ notes'[r.note].to = Head(r.routes)
    BY <2>1 DEF Paging, NotesGrow
  <2>6. /\ r.routes # << >> /\ Len(r.routes) <= Len(R)
        /\ \A i \in 1 .. Len(r.routes) : r.routes[i] = R[Len(R) - Len(r.routes) + i]
    BY <2>1 DEF Paging
  <2> HIDE DEF R
  <2> QED
    BY ZenonT(30), <2>2, <2>3, <2>4, <2>5, <2>6 DEF Paging, R
<1> QED
  BY <1>4 DEF RequestOK

\* What a step has to show: its types, how it leaves the notifications, and the
\* request it worked on.
LEMMA Enough ==
  ASSUME IInv, TypeOK', NotesGrow, now <= now', QuietFollows,
         ToldTwiceOnlyByOverlap', PrimaryFirst',
         \A w \in Workers : req'[w] = req[w] \/ RequestOK(req[w], quiet[w])'
  PROVE  IInv'
<1>1. ASSUME NEW w \in Workers, req'[w] = req[w]
      PROVE  RequestOK(req[w], quiet[w])'
  <2>1. quiet'[w] \subseteq quiet[w]
    BY <1>1 DEF QuietFollows
  <2> QED
    BY <1>1, <2>1, RequestKept DEF IInv, RequestsOK
<1> QED
  BY <1>1 DEF IInv, RequestsOK

LEMMA NotesKept ==
  ASSUME IInv, UNCHANGED notes
  PROVE  NotesGrow /\ ToldTwiceOnlyByOverlap' /\ PrimaryFirst'
<1>1. Len(notes) \in Nat
  BY LenProperties DEF IInv, TypeOK
<1> QED
  BY <1>1 DEF IInv, NotesGrow, ToldTwiceOnlyByOverlap, PrimaryFirst

LEMMA QuietType ==
  ASSUME QuietFollows, TypeOK
  PROVE  quiet' \in [Workers -> SUBSET Keys]
BY DEF QuietFollows, TypeOK, Silenced

LEMMA RowTypes ==
  ASSUME TypeOK, NEW kind \in Kinds, NEW k \in Keys, NEW t \in Nat,
         Upsert(kind, k, t) \/ Drop(kind, k)
  PROVE  rows' \in [Kinds -> [Keys -> SUBSET Nat]]
<1>1. PICK row \in SUBSET Nat : rows' = [rows EXCEPT ![kind][k] = row]
  <2>1. {t} \in SUBSET Nat /\ {} \in SUBSET Nat
    OBVIOUS
  <2> QED
    BY <2>1 DEF Upsert, Drop
<1> QED
  BY <1>1 DEF TypeOK

\* Most steps leave the notifications alone and take one request further.
LEMMA OneRequest ==
  ASSUME IInv, NEW w \in Workers, NEW r \in Requests, req' = [req EXCEPT ![w] = r],
         RequestOK(req[w], quiet[w])', UNCHANGED <<notes, now>>, QuietFollows,
         rows' \in [Kinds -> [Keys -> SUBSET Nat]], requests' \in Nat,
         counter' \in [DOMAIN Fields -> [Kinds -> Nat]], done' \in [Kinds -> Nat]
  PROVE  IInv'
<1>1. TypeOK /\ now <= now'
  BY DEF IInv, TypeOK
<1>2. req' \in [Workers -> Requests] /\ \A v \in Workers \ {w} : req'[v] = req[v]
  BY <1>1 DEF TypeOK
<1>3. TypeOK'
  BY <1>1, <1>2, QuietType DEF TypeOK
<1> QED
  BY <1>1, <1>2, <1>3, NotesKept, Enough

LEMMA FreeOK == Free \in Requests /\ \A q : RequestOK(Free, q)
<1>1. << >> \in Seq(Alerts) /\ << >> \in Seq(Everyone) /\ Len(<< >>) = 0
  BY EmptySeq
<1>2. 1 \in DOMAIN Fields
  BY DEF Fields
<1>3. Free \in Requests
  BY <1>1, <1>2 DEF Free, Requests
<1>4. /\ Free.pc = "free" /\ Free.open = << >>
  BY DEF Free
<1>5. ASSUME NEW q
      PROVE  RequestOK(Free, q)
  BY <1>1, <1>4 DEF RequestOK
<1> QED
  BY <1>3, <1>5

LEMMA ReadAlertsKeeps ==
  ASSUME IInv, QuietFollows, NEW w \in Workers, NEW q \in Burning, NEW notify \in BOOLEAN,
         ReadAlerts(w, q, notify)
  PROVE  IInv'
<1> DEFINE r == [Free EXCEPT !.pc = "ack", !.notify = notify, !.todo = q]
<1>1. q \in Seq(Alerts) /\ q # << >>
  <2>1. PICK n \in 1 .. Len(SLOs) : q \in [1 .. n -> Alerts]
    BY DEF Burning
  <2>2. n \in Nat /\ 1 \in DOMAIN q
    BY <2>1, BurnAlertsAssumption, LenProperties
  <2>3. DOMAIN << >> = {}
    OBVIOUS
  <2> QED
    BY <2>1, <2>2, <2>3, SeqDef
<1>2. r \in Requests
  BY <1>1, FreeOK DEF Free, Requests
<1>3. r.pc = "ack" /\ r.todo = q /\ r.open = << >>
  BY DEF Free
<1>4. req' = [req EXCEPT ![w] = r] /\ requests' = requests + 1
      /\ UNCHANGED <<now, rows, notes, counter, done>>
  BY DEF ReadAlerts, Begin
<1> HIDE DEF r
<1>5. req'[w] = r /\ TypeOK
  BY <1>4 DEF IInv, TypeOK
<1>6. RequestOK(req[w], quiet[w])'
  BY <1>1, <1>3, <1>5, EmptySeq DEF RequestOK
<1>7. /\ rows' \in [Kinds -> [Keys -> SUBSET Nat]] /\ requests' \in Nat
      /\ counter' \in [DOMAIN Fields -> [Kinds -> Nat]] /\ done' \in [Kinds -> Nat]
  BY <1>4, <1>5 DEF TypeOK
<1> QED
  BY <1>2, <1>4, <1>6, <1>7, OneRequest

\* The lookups: an alert goes on to be paged only if it is not silenced now.
LEMMA LookedKeeps ==
  ASSUME IInv, QuietFollows, NEW w \in Workers, NEW silenced \in BOOLEAN,
         req[w].pc \in {"silence", "prune_silence"}, Looked(w, silenced),
         ~ silenced => Key(Head(req[w].todo)) \notin Silenced',
         UNCHANGED <<now, notes, counter, done>>, rows' \in [Kinds -> [Keys -> SUBSET Nat]]
  PROVE  IInv'
<1> DEFINE r == req[w]
           a == Head(req[w].todo)
           open == IF silenced \/ ~ r.notify THEN r.open ELSE Append(r.open, a)
<1>1. TypeOK /\ r \in Requests /\ RequestOK(r, quiet[w])
  BY DEF IInv, TypeOK, RequestsOK
<1>2. /\ r.todo \in Seq(Alerts) /\ r.todo # << >> /\ r.open \in Seq(Alerts) /\ a \in Alerts
      /\ Tail(r.todo) \in Seq(Alerts) /\ Len(Tail(r.todo)) = Len(r.todo) - 1
      /\ Len(r.todo) \in Nat /\ << >> \in Seq(Alerts)
  BY <1>1, HeadTailProperties, LenProperties, EmptySeq DEF RequestOK, Requests
<1>3. r # Free
  <2>1. Free.pc = "free"
    BY DEF Free
  <2> QED
    BY <2>1
<1>4. quiet'[w] \subseteq quiet[w] /\ quiet'[w] \subseteq Silenced'
  BY <1>3 DEF QuietFollows
<1>5. open \in Seq(Alerts) /\ \A i \in 1 .. Len(open) : Key(open[i]) \notin quiet'[w]
  <2>1. CASE silenced \/ ~ r.notify
    BY <1>1, <1>2, <1>4, <2>1 DEF RequestOK
  <2>2. CASE ~ (silenced \/ ~ r.notify)
    <3>1. /\ open = Append(r.open, a) /\ open \in Seq(Alerts) /\ Len(open) = Len(r.open) + 1
          /\ \A i \in 1 .. Len(r.open) : open[i] = r.open[i]
          /\ open[Len(r.open) + 1] = a
      BY <1>2, <2>2, AppendProperties
    <3>2. Len(r.open) \in Nat
      BY <1>2, LenProperties
    <3> HIDE DEF open, r
    <3>3. \A i \in 1 .. Len(open) : i \in 1 .. Len(r.open) \/ i = Len(r.open) + 1
      BY <3>1, <3>2
    <3>4. \A i \in 1 .. Len(r.open) : Key(r.open[i]) \notin quiet'[w]
      BY <1>1, <1>4 DEF RequestOK
    <3>5. Key(a) \notin quiet'[w]
      BY <1>4, <2>2
    <3> QED
      BY <3>1, <3>3, <3>4, <3>5
  <2> QED
    BY <2>1, <2>2
<1> DEFINE n == IF Len(r.todo) > 1
                THEN [r EXCEPT !.pc = "ack", !.todo = Tail(r.todo), !.open = open]
                ELSE IF open # << >>
                THEN [r EXCEPT !.pc = "list", !.todo = << >>, !.open = open]
                ELSE Free
<1>6. req' = [req EXCEPT ![w] = n] /\ UNCHANGED requests
  BY DEF Looked, Become
<1> HIDE DEF open
<1>7. n \in Requests
  <2>1. [r EXCEPT !.pc = "ack", !.todo = Tail(r.todo), !.open = open] \in Requests
    BY <1>1, <1>2, <1>5 DEF Requests
  <2>2. [r EXCEPT !.pc = "list", !.todo = << >>, !.open = open] \in Requests
    BY <1>1, <1>2, <1>5 DEF Requests
  <2> QED
    BY <2>1, <2>2, FreeOK
<1>8. n = Free \/ (/\ n.open = open /\ n.pc = "ack" /\ n.todo # << >>)
               \/ (/\ n.open = open /\ n.pc = "list" /\ open # << >>)
  <2>1. CASE Len(r.todo) > 1
    <3>1. Tail(r.todo) # << >>
      BY <1>2, <2>1, TailNotEmpty
    <3>2. n = [r EXCEPT !.pc = "ack", !.todo = Tail(r.todo), !.open = open]
      BY <2>1
    <3> QED
      BY <1>1, <3>1, <3>2 DEF Requests
  <2>2. CASE ~ (Len(r.todo) > 1)
    BY <1>1, <2>2 DEF Requests
  <2> QED
    BY <2>1, <2>2
<1>9. req'[w] = n
  BY <1>1, <1>6 DEF TypeOK
<1> HIDE DEF n, r
<1>10. RequestOK(req[w], quiet[w])'
  <2>1. CASE n = Free
    BY <1>9, <2>1, FreeOK, EmptySeq DEF RequestOK, Free
  <2>2. CASE n # Free
    BY <1>5, <1>8, <1>9, <2>2 DEF RequestOK
  <2> QED
    BY <2>1, <2>2
<1>11. /\ counter' \in [DOMAIN Fields -> [Kinds -> Nat]] /\ done' \in [Kinds -> Nat]
       /\ requests' \in Nat
  BY <1>1, <1>6 DEF TypeOK
<1> QED
  BY <1>6, <1>7, <1>10, <1>11, OneRequest

LEMMA LookupKeeps ==
  ASSUME IInv, QuietFollows, NEW w \in Workers,
         LookForAck(w) \/ PruneAck(w) \/ LookForSilence(w) \/ PruneSilence(w)
  PROVE  IInv'
<1> DEFINE r == req[w]
           k == Key(Head(req[w].todo))
<1>1. TypeOK /\ r \in Requests /\ RequestOK(r, quiet[w])
  BY DEF IInv, TypeOK, RequestsOK
<1>2. r.pc \in {"ack", "prune_ack", "silence", "prune_silence"}
  BY DEF LookForAck, PruneAck, LookForSilence, PruneSilence
<1>3. r.todo # << >> /\ r # Free /\ k \in Keys
  <2>1. r.todo # << >> /\ r.todo \in Seq(Alerts)
    BY <1>1, <1>2 DEF RequestOK, Requests
  <2>2. Head(r.todo) \in Alerts
    BY <2>1, HeadTailProperties
  <2>3. Free.pc = "free"
    BY DEF Free
  <2> QED
    BY <1>2, <2>1, <2>2, <2>3, AlertFacts
<1>4. quiet'[w] \subseteq quiet[w]
  BY <1>3 DEF QuietFollows
<1>5. Kinds = {"ack", "silence"} /\ "ack" \in Kinds /\ "silence" \in Kinds
  BY DEF Kinds
<1>6. ASSUME LookForAck(w) \/ PruneAck(w)
      PROVE  IInv'
  <2>1. PICK pc \in {"prune_ack", "silence"} : /\ req' = [req EXCEPT ![w] = [r EXCEPT !.pc = pc]]
                                               /\ UNCHANGED requests
    BY <1>6 DEF LookForAck, PruneAck, Become
  <2>2. [r EXCEPT !.pc = pc] \in Requests
    BY <1>1 DEF Requests
  <2>3. req'[w] = [r EXCEPT !.pc = pc] /\ req'[w].pc = pc /\ req'[w].todo = r.todo
        /\ req'[w].open = r.open
    BY <1>1, <2>1 DEF TypeOK, Requests
  <2>4. RequestOK(req[w], quiet[w])'
    BY <1>1, <1>3, <1>4, <2>3 DEF RequestOK
  <2>5. rows' \in [Kinds -> [Keys -> SUBSET Nat]]
    BY <1>1, <1>3, <1>5, <1>6, RowTypes DEF LookForAck, PruneAck, TypeOK, Drop
  <2>6. /\ UNCHANGED <<now, notes>> /\ requests' \in Nat
        /\ counter' \in [DOMAIN Fields -> [Kinds -> Nat]] /\ done' \in [Kinds -> Nat]
    BY <1>1, <1>6, <2>1 DEF TypeOK, LookForAck, PruneAck
  <2> QED
    BY <2>1, <2>2, <2>4, <2>5, <2>6, OneRequest
<1>7. ASSUME LookForSilence(w), ~ Expired("silence", k), rows["silence"][k] # {}
      PROVE  IInv'
  <2>1. Looked(w, TRUE) /\ UNCHANGED <<now, rows, notes, counter, done>>
    BY <1>7 DEF LookForSilence
  <2>2. rows' \in [Kinds -> [Keys -> SUBSET Nat]] /\ r.pc = "silence"
    BY <1>1, <1>7, <2>1 DEF TypeOK, LookForSilence
  <2> QED
    BY <2>1, <2>2, LookedKeeps
<1>8. ASSUME LookForSilence(w), ~ Expired("silence", k), rows["silence"][k] = {}
      PROVE  IInv'
  <2>1. Looked(w, FALSE) /\ UNCHANGED <<now, rows, notes, counter, done>>
    BY <1>8 DEF LookForSilence
  <2>2. rows' \in [Kinds -> [Keys -> SUBSET Nat]] /\ r.pc = "silence"
    BY <1>1, <1>8, <2>1 DEF TypeOK, LookForSilence
  <2>3. k \notin Silenced'
    BY <1>8, <2>1 DEF Silenced
  <2> QED
    BY <2>1, <2>2, <2>3, LookedKeeps
<1>9. ASSUME LookForSilence(w), Expired("silence", k)
      PROVE  IInv'
  <2>1. req' = [req EXCEPT ![w] = [r EXCEPT !.pc = "prune_silence"]] /\ UNCHANGED requests
    BY <1>9 DEF LookForSilence, Become
  <2>2. [r EXCEPT !.pc = "prune_silence"] \in Requests
    BY <1>1 DEF Requests
  <2>3. req'[w].pc = "prune_silence" /\ req'[w].todo = r.todo /\ req'[w].open = r.open
    BY <1>1, <2>1 DEF TypeOK, Requests
  <2>4. RequestOK(req[w], quiet[w])'
    BY <1>1, <1>3, <1>4, <2>3 DEF RequestOK
  <2>5. /\ UNCHANGED <<now, notes>> /\ requests' \in Nat
        /\ rows' \in [Kinds -> [Keys -> SUBSET Nat]]
        /\ counter' \in [DOMAIN Fields -> [Kinds -> Nat]] /\ done' \in [Kinds -> Nat]
    BY <1>1, <1>9, <2>1 DEF TypeOK, LookForSilence
  <2> QED
    BY <2>1, <2>2, <2>4, <2>5, OneRequest
<1>10. ASSUME PruneSilence(w)
       PROVE  IInv'
  <2>1. Looked(w, FALSE) /\ Drop("silence", k) /\ UNCHANGED <<now, notes, counter, done>>
        /\ r.pc = "prune_silence"
    BY <1>10 DEF PruneSilence
  <2>2. rows' \in [Kinds -> [Keys -> SUBSET Nat]]
    BY <1>1, <1>3, <1>5, <2>1, RowTypes DEF Drop
  <2>3. rows'["silence"][k] = {}
    BY <1>1, <1>3, <1>5, <2>1 DEF TypeOK, Drop
  <2>4. k \notin Silenced'
    BY <2>3 DEF Silenced
  <2> QED
    BY <2>1, <2>2, <2>4, LookedKeeps
<1> QED
  BY <1>6, <1>7, <1>8, <1>9, <1>10

\* Paging ends for an alert, and the next one that is open is looked at.
LEMMA NextAlertOK ==
  ASSUME IInv, QuietFollows, NEW w \in Workers, NextAlert(w),
         req[w].pc \in {"list", "add", "mark"}
  PROVE  /\ requests' = requests
         /\ \E n \in Requests : req' = [req EXCEPT ![w] = n]
         /\ RequestOK(req[w], quiet[w])'
<1> DEFINE r == req[w]
           n == IF Len(r.open) = 1 THEN Free
                ELSE [Free EXCEPT !.pc = "list", !.notify = r.notify, !.open = Tail(r.open)]
<1>1. TypeOK /\ r \in Requests /\ RequestOK(r, quiet[w])
  BY DEF IInv, TypeOK, RequestsOK
<1>2. req' = [req EXCEPT ![w] = n] /\ UNCHANGED requests
  BY DEF NextAlert, Become
<1>3. /\ r.open \in Seq(Alerts) /\ r.open # << >> /\ r.notify \in BOOLEAN
      /\ Len(r.open) \in Nat \ {0}
      /\ Tail(r.open) \in Seq(Alerts) /\ Len(Tail(r.open)) = Len(r.open) - 1
      /\ \A i \in 1 .. Len(Tail(r.open)) : Tail(r.open)[i] = r.open[i + 1]
  <2>1. r.open \in Seq(Alerts) /\ r.open # << >> /\ r.notify \in BOOLEAN
    BY <1>1 DEF Requests, RequestOK
  <2> QED
    BY <2>1, HeadTailProperties, LenProperties, EmptySeq
<1>4. Free.pc = "free" /\ Free.open = << >> /\ r # Free
  <2>1. Free.pc = "free" /\ Free.open = << >>
    BY DEF Free
  <2> QED
    BY <2>1
<1>5. quiet'[w] \subseteq quiet[w]
  BY <1>4 DEF QuietFollows
<1>6. CASE Len(r.open) = 1
  <2>1. n = Free /\ req'[w] = Free
    BY <1>1, <1>2, <1>6 DEF TypeOK
  <2>2. RequestOK(req[w], quiet[w])'
    BY <1>4, <2>1, EmptySeq DEF RequestOK
  <2> QED
    BY <1>2, <2>1, <2>2, FreeOK
<1>7. CASE Len(r.open) # 1
  <2>1. /\ n = [Free EXCEPT !.pc = "list", !.notify = r.notify, !.open = Tail(r.open)]
        /\ req'[w] = n
    BY <1>1, <1>2, <1>7 DEF TypeOK
  <2>2. n \in Requests /\ n.pc = "list" /\ n.open = Tail(r.open)
    <3> HIDE DEF r
    <3> QED
      BY <1>3, <2>1, FreeOK DEF Free, Requests
  <2>3. Tail(r.open) # << >>
    BY <1>3, <1>7, TailNotEmpty
  <2>4. \A i \in 1 .. Len(Tail(r.open)) : Key(Tail(r.open)[i]) \notin quiet'[w]
    <3> SUFFICES ASSUME NEW i \in 1 .. Len(Tail(r.open))
                 PROVE  Key(Tail(r.open)[i]) \notin quiet'[w]
      OBVIOUS
    <3>1. i + 1 \in 1 .. Len(r.open) /\ Tail(r.open)[i] = r.open[i + 1]
      BY <1>3
    <3>2. Key(r.open[i + 1]) \notin quiet[w]
      BY <1>1, <3>1 DEF RequestOK
    <3> QED
      BY <1>5, <3>1, <3>2
  <2> HIDE DEF n, r
  <2>5. RequestOK(req[w], quiet[w])'
    BY <2>1, <2>2, <2>3, <2>4 DEF RequestOK
  <2> QED
    BY <1>2, <2>2, <2>5
<1> QED
  BY <1>6, <1>7

\* The first look at the notifications of an alert, and giving it up.
LEMMA ListKeeps ==
  ASSUME IInv, QuietFollows, NEW w \in Workers, List(w) \/ PagingFails(w)
  PROVE  IInv'
<1> DEFINE r == req[w]
           a == Head(req[w].open)
           R == Routes[Key(a)[2]]
<1>1. TypeOK /\ r \in Requests /\ RequestOK(r, quiet[w]) /\ r.pc \in {"list", "add", "mark"}
  BY DEF IInv, TypeOK, RequestsOK, List, PagingFails
<1>2. /\ UNCHANGED <<now, rows, notes, counter, done>>
      /\ rows' \in [Kinds -> [Keys -> SUBSET Nat]]
      /\ counter' \in [DOMAIN Fields -> [Kinds -> Nat]] /\ done' \in [Kinds -> Nat]
  BY <1>1 DEF List, PagingFails, TypeOK
<1>3. CASE NextAlert(w)
  <2>1. requests' \in Nat
    BY <1>1, <1>3, NextAlertOK DEF TypeOK
  <2> QED
    BY <1>1, <1>2, <1>3, <2>1, NextAlertOK, OneRequest
<1>4. CASE ~ NextAlert(w)
  <2> DEFINE n == [r EXCEPT !.pc = "add", !.seen = Len(notes), !.routes = R]
  <2>1. /\ ~ Recently(a) /\ req' = [req EXCEPT ![w] = n] /\ UNCHANGED requests
        /\ r.pc = "list"
    BY <1>4 DEF List, PagingFails, Become
  <2>2. r.open # << >> /\ r.open \in Seq(Alerts) /\ notes \in Seq(Notes) /\ now \in Nat
    BY <1>1 DEF RequestOK, Requests, TypeOK
  <2>3. a \in Alerts
    BY <2>2, HeadTailProperties
  <2>4. /\ Window(a) \in Nat /\ R \in Seq(Everyone) /\ R # << >> /\ Len(R) \in Nat \ {0}
    BY <2>3, AlertFacts
  <2>5. Len(notes) \in Nat /\ DOMAIN notes = 1 .. Len(notes)
        /\ \A i \in 1 .. Len(notes) : notes[i] \in Notes
    BY <2>2, LenProperties, ElementOfSeq
  <2>6. n \in Requests /\ n.pc = "add" /\ n.seen = Len(notes) /\ n.routes = R /\ n.open = r.open
    <3> HIDE DEF R
    <3> QED
      BY <1>1, <2>4, <2>5 DEF Requests
  <2>7. req'[w] = n
    BY <1>1, <2>1 DEF TypeOK
  <2>8. \A i \in 1 .. Len(notes) : notes[i].key = Key(a) => now - notes[i].at >= Window(a)
    <3> SUFFICES ASSUME NEW i \in 1 .. Len(notes), notes[i].key = Key(a)
                 PROVE  now - notes[i].at >= Window(a)
      OBVIOUS
    <3>1. ~ (now - notes[i].at < Window(a))
      BY <2>1, <2>5 DEF Recently
    <3>2. notes[i].at \in Nat
      BY <2>5 DEF Notes
    <3> QED
      BY <2>2, <2>4, <3>1, <3>2
  <2>9. quiet'[w] \subseteq quiet[w]
    <3>1. Free.pc = "free"
      BY DEF Free
    <3>2. r # Free
      BY <2>1, <3>1
    <3> QED
      BY <3>2 DEF QuietFollows
  <2> HIDE DEF n, R
  <2>10. /\ req'[w].pc = "add" /\ req'[w].seen = Len(notes) /\ req'[w].routes = R
         /\ req'[w].open = r.open /\ Head(req'[w].open) = a
    BY <2>6, <2>7
  <2> HIDE DEF a
  <2>11. RequestOK(req[w], quiet[w])'
    <3>1. Len(R) - Len(R) = 0 /\ \A i \in 1 .. Len(R) : 0 + i = i
      BY <2>4
    <3>2. Paging(req[w], Head(req[w].open))'
      <4>1. /\ req'[w].seen <= Len(notes') /\ req'[w].routes # << >>
            /\ Len(req'[w].routes) <= Len(R) /\ ~ (Len(req'[w].routes) < Len(R))
            /\ req'[w].pc # "mark"
        BY <1>2, <2>4, <2>5, <2>10
      <4>2. \A i \in 1 .. req'[w].seen :
               notes'[i].key = Key(a) => now' - notes'[i].at >= Window(a)
        BY <1>2, <2>8, <2>10
      <4>3. \A i \in 1 .. Len(req'[w].routes) :
               req'[w].routes[i] = R[Len(R) - Len(req'[w].routes) + i]
        BY <2>10, <3>1
      <4> QED
        BY <2>10, <4>1, <4>2, <4>3 DEF Paging, R
    <3>3. \A i \in 1 .. Len(r.open) : Key(r.open[i]) \notin quiet'[w]
      BY <1>1, <2>9 DEF RequestOK
    <3> QED
      BY <2>2, <2>10, <3>2, <3>3 DEF RequestOK
  <2>12. requests' \in Nat
    BY <1>1, <2>1 DEF TypeOK
  <2> QED
    BY <1>2, <2>1, <2>6, <2>11, <2>12, OneRequest
<1> QED
  BY <1>3, <1>4

\* The next on the list is told: unless others overlap, for the first time.
LEMMA AddKeeps ==
  ASSUME IInv, QuietFollows, NEW w \in Workers, Add(w)
  PROVE  IInv'
<1> DEFINE r == req[w]
           a == Head(req[w].open)
           R == Routes[Key(a)[2]]
           N == Len(notes) + 1
           p0 == Len(R) - Len(r.routes)
           new == [key |-> Key(a), window |-> Window(a), at |-> now,
                   to |-> Head(r.routes), seen |-> r.seen, sent |-> FALSE]
           n == [r EXCEPT !.pc = "mark", !.note = N]
<1>1. /\ TypeOK /\ r \in Requests /\ RequestOK(r, quiet[w]) /\ r.pc = "add"
      /\ ToldTwiceOnlyByOverlap /\ PrimaryFirst
      /\ notes' = Append(notes, new) /\ req' = [req EXCEPT ![w] = n]
      /\ UNCHANGED <<now, rows, counter, done, requests>>
  BY DEF IInv, RequestsOK, TypeOK, Add, Become
<1>2. /\ notes \in Seq(Notes) /\ now \in Nat /\ Paging(r, a)
      /\ r.open # << >> /\ r.open \in Seq(Alerts) /\ r.routes \in Seq(Everyone)
      /\ r.seen \in Nat
  BY <1>1 DEF TypeOK, RequestOK, Requests
<1>3. a \in Alerts /\ r.routes # << >>
  BY <1>2, HeadTailProperties DEF Paging
<1>4. /\ Key(a) \in Keys /\ Window(a) \in Nat /\ Len(R) \in Nat \ {0}
      /\ \A i, j \in 1 .. Len(R) : R[i] = R[j] => i = j
      /\ DOMAIN R = 1 .. Len(R)
  <2>1. R \in Seq(Everyone)
    BY <1>3, AlertFacts
  <2> QED
    BY <1>3, <2>1, AlertFacts, LenProperties
<1>5. /\ Len(r.routes) \in Nat \ {0} /\ Head(r.routes) \in Everyone
      /\ Head(r.routes) = r.routes[1]
      /\ Len(r.routes) <= Len(R) /\ r.seen <= Len(notes)
  <2>1. Len(r.routes) <= Len(R) /\ r.seen <= Len(notes)
    BY <1>2, PagingBounds
  <2>2. Len(r.routes) \in Nat \ {0}
    BY <1>2, <1>3, LenProperties, EmptySeq
  <2>3. Head(r.routes) \in Everyone /\ Head(r.routes) = r.routes[1]
    BY <1>2, <1>3, HeadTailProperties
  <2> QED
    BY <2>1, <2>2, <2>3
<1>6. p0 + 1 \in 1 .. Len(R) /\ Head(r.routes) = R[p0 + 1]
  <2>1. p0 + 1 \in 1 .. Len(R)
    <3>1. Len(R) \in Nat /\ Len(r.routes) \in Nat /\ Len(r.routes) <= Len(R)
          /\ Len(r.routes) # 0
      BY <1>4, <1>5
    <3> HIDE DEF R, r
    <3> QED
      BY <3>1
  <2>2. 1 \in 1 .. Len(r.routes)
    BY <1>5
  <2>3. r.routes[1] = R[p0 + 1]
    BY <1>2, <2>2 DEF Paging
  <2> QED
    BY <1>5, <2>1, <2>3
<1>7. new \in Notes
  BY <1>2, <1>4, <1>5 DEF Notes
<1>8. /\ notes' \in Seq(Notes) /\ Len(notes') = N /\ Len(notes) \in Nat
      /\ \A i \in 1 .. Len(notes) : notes'[i] = notes[i] /\ notes[i] \in Notes
      /\ notes'[N] = new /\ DOMAIN notes' = 1 .. N /\ DOMAIN notes = 1 .. Len(notes)
  <2> HIDE DEF new
  <2>1. /\ notes' \in Seq(Notes) /\ Len(notes') = N
        /\ \A i \in 1 .. Len(notes) : notes'[i] = notes[i]
        /\ notes'[N] = new
    BY <1>1, <1>2, <1>7, AppendProperties
  <2> QED
    BY <1>2, <2>1, LenProperties, ElementOfSeq
<1>9. NotesGrow
  BY <1>8 DEF NotesGrow
<1>10. /\ new.key = Key(a) /\ new.window = Window(a) /\ new.at = now
       /\ new.to = R[p0 + 1] /\ new.seen = r.seen
  BY <1>6
<1> HIDE DEF new
<1>11. \A i \in 1 .. N : i \in 1 .. Len(notes) \/ i = N
  BY <1>8
<1>12. ToldTwiceOnlyByOverlap'
  <2> SUFFICES ASSUME NEW i \in 1 .. N, NEW j \in 1 .. N, i < j,
                      notes'[i].key = notes'[j].key, notes'[i].to = notes'[j].to,
                      notes'[j].at - notes'[i].at < notes'[j].window
               PROVE  notes'[j].seen < i
    BY <1>8 DEF ToldTwiceOnlyByOverlap
  <2>1. i \in 1 .. Len(notes)
    BY <1>8
  <2>2. CASE j \in 1 .. Len(notes)
    BY <1>1, <1>8, <2>1, <2>2 DEF ToldTwiceOnlyByOverlap
  <2>3. CASE j = N
    <3>1. notes[i].key = Key(a) /\ now - notes[i].at < Window(a) /\ notes[i].at \in Nat
      BY <1>8, <1>10, <2>1, <2>3 DEF Notes
    <3>2. i \notin 1 .. r.seen
      <4>1. \A h \in 1 .. r.seen : notes[h].key = Key(a) => now - notes[h].at >= Window(a)
        BY <1>2 DEF Paging
      <4> HIDE DEF r, a
      <4> QED
        BY <1>2, <1>4, <3>1, <4>1
    <3> QED
      BY <1>2, <1>8, <1>10, <2>1, <2>3, <3>2
  <2> QED
    BY <1>11, <2>2, <2>3
<1>13. PrimaryFirst'
  <2> SUFFICES ASSUME NEW j \in 1 .. N, NEW p \in DOMAIN Routes[notes'[j].key[2]], p > 1,
                      notes'[j].to = Routes[notes'[j].key[2]][p]
               PROVE  \E i \in 1 .. j - 1 :
                         /\ notes'[i].key = notes'[j].key /\ notes'[i].seen = notes'[j].seen
                         /\ notes'[i].sent
                         /\ notes'[i].to = Routes[notes'[j].key[2]][p - 1]
    BY <1>8 DEF PrimaryFirst
  <2>1. CASE j \in 1 .. Len(notes)
    <3>1. notes'[j] = notes[j]
      BY <1>8, <2>1
    <3>2. PICK i \in 1 .. j - 1 :
            /\ notes[i].key = notes[j].key /\ notes[i].seen = notes[j].seen /\ notes[i].sent
            /\ notes[i].to = Routes[notes[j].key[2]][p - 1]
      BY <1>1, <1>8, <2>1, <3>1 DEF PrimaryFirst
    <3>3. notes'[i] = notes[i]
      BY <1>8, <2>1
    <3> QED
      BY <3>1, <3>2, <3>3
  <2>2. CASE j = N
    <3>1. /\ notes'[j].key = Key(a) /\ notes'[j].seen = r.seen
          /\ notes'[j].to = R[p0 + 1] /\ p \in 1 .. Len(R)
      BY <1>4, <1>8, <1>10, <2>2
    <3>2. p = p0 + 1
      BY <1>4, <1>6, <3>1
    <3>3. p0 \in Nat /\ p - 1 = p0 /\ Len(r.routes) < Len(R)
      <4>1. Len(R) \in Nat /\ Len(r.routes) \in Nat /\ Len(r.routes) <= Len(R)
        BY <1>4, <1>5
      <4>2. p = (Len(R) - Len(r.routes)) + 1
        BY <3>2
      <4>3. p > 1
        OBVIOUS
      <4>4. (Len(R) - Len(r.routes)) + 1 > 1
        BY ONLY <4>2, <4>3
      <4>5. /\ Len(R) - Len(r.routes) \in Nat /\ Len(r.routes) < Len(R)
            /\ ((Len(R) - Len(r.routes)) + 1) - 1 = Len(R) - Len(r.routes)
        BY ONLY <4>1, <4>4, AnEarlierPlace
      <4> QED
        BY <4>2, <4>5
    <3>4. PICK i \in 1 .. Len(notes) :
            /\ notes[i].key = Key(a) /\ notes[i].seen = r.seen /\ notes[i].sent
            /\ notes[i].to = R[p0]
      BY <1>2, <3>3 DEF Paging
    <3>5. i \in 1 .. j - 1 /\ notes'[i] = notes[i]
      BY <1>8, <2>2
    <3> QED
      BY <3>1, <3>3, <3>4, <3>5
  <2> QED
    BY <1>11, <2>1, <2>2
<1>14. n \in Requests
  <2>1. N \in Nat
    BY <1>8
  <2> HIDE DEF N
  <2> QED
    BY <1>1, <2>1 DEF Requests
<1>15. /\ req' \in [Workers -> Requests] /\ req'[w] = n
       /\ \A v \in Workers \ {w} : req'[v] = req[v]
  BY <1>1, <1>14 DEF TypeOK
<1>16. TypeOK'
  BY <1>1, <1>8, <1>15, QuietType DEF TypeOK
<1>17. /\ req'[w].pc = "mark" /\ req'[w].note = N /\ req'[w].seen = r.seen
       /\ req'[w].open = r.open /\ req'[w].routes = r.routes
  BY <1>1, <1>15 DEF Requests
<1>18. quiet'[w] \subseteq quiet[w]
  <2>1. Free.pc = "free"
    BY DEF Free
  <2>2. r # Free
    BY <1>1, <2>1
  <2> QED
    BY <2>2 DEF QuietFollows
<1>19. Paging(req[w], Head(req[w].open))'
  <2>1. /\ r.routes # << >> /\ Len(r.routes) <= Len(R)
        /\ \A i \in 1 .. Len(r.routes) : r.routes[i] = R[Len(R) - Len(r.routes) + i]
        /\ \A i \in 1 .. r.seen : notes[i].key = Key(a) => now - notes[i].at >= Window(a)
    BY <1>2 DEF Paging
  <2>2. Len(r.routes) < Len(R) =>
          \E i \in 1 .. Len(notes) :
              /\ notes[i].key = Key(a) /\ notes[i].seen = r.seen /\ notes[i].sent
              /\ notes[i].to = R[Len(R) - Len(r.routes)]
    BY <1>2 DEF Paging
  <2>3. Head(req'[w].open) = a /\ r.seen <= N /\ N \in 1 .. N
    BY <1>2, <1>5, <1>8, <1>17
  <2>4. new.to = Head(r.routes)
    BY DEF new
  <2> HIDE DEF n, r, a, R
  <2>5. \A i \in 1 .. r.seen : notes'[i].key = Key(a) => now' - notes'[i].at >= Window(a)
    <3>1. \A i \in 1 .. r.seen : i \in 1 .. Len(notes)
      BY <1>2, <1>5, <1>8
    <3> QED
      BY <1>1, <1>8, <2>1, <3>1
  <2>6. Len(r.routes) < Len(R) =>
          \E i \in 1 .. N :
              /\ notes'[i].key = Key(a) /\ notes'[i].seen = r.seen /\ notes'[i].sent
              /\ notes'[i].to = R[Len(R) - Len(r.routes)]
    <3>1. \A i \in 1 .. Len(notes) : i \in 1 .. N
      BY <1>8
    <3> QED
      BY <1>8, <2>2, <3>1
  <2>7. notes'[N].key = Key(a) /\ notes'[N].seen = r.seen /\ notes'[N].to = Head(r.routes)
    BY <1>8, <1>10, <2>4
  <2>8. /\ req'[w].seen <= Len(notes') /\ req'[w].routes # << >>
        /\ Len(req'[w].routes) <= Len(R) /\ req'[w].note \in 1 .. Len(notes')
    BY <1>8, <1>17, <2>1, <2>3
  <2>9. \A i \in 1 .. req'[w].seen :
           notes'[i].key = Key(a) => now' - notes'[i].at >= Window(a)
    BY <1>17, <2>5
  <2>10. \A i \in 1 .. Len(req'[w].routes) :
           req'[w].routes[i] = R[Len(R) - Len(req'[w].routes) + i]
    BY <1>17, <2>1
  <2>11. Len(req'[w].routes) < Len(R) =>
          \E i \in 1 .. Len(notes') :
              /\ notes'[i].key = Key(a) /\ notes'[i].seen = req'[w].seen /\ notes'[i].sent
              /\ notes'[i].to = R[Len(R) - Len(req'[w].routes)]
    BY <1>8, <1>17, <2>6
  <2>12. /\ notes'[req'[w].note].key = Key(a) /\ notes'[req'[w].note].seen = req'[w].seen
         /\ notes'[req'[w].note].to = Head(req'[w].routes)
    BY <1>17, <2>7
  <2> HIDE DEF N
  <2> QED
    BY <2>3, <2>8, <2>9, <2>10, <2>11, <2>12 DEF Paging, R
<1>20. RequestOK(req[w], quiet[w])'
  <2>1. \A i \in 1 .. Len(r.open) : Key(r.open[i]) \notin quiet'[w]
    BY <1>1, <1>18 DEF RequestOK
  <2> HIDE DEF n, r
  <2> QED
    BY <1>2, <1>17, <1>19, <2>1 DEF RequestOK
<1>21. now <= now'
  BY <1>1, <1>2
<1>22. \A v \in Workers : req'[v] = req[v] \/ RequestOK(req[v], quiet[v])'
  BY <1>15, <1>20
<1> QED
  BY <1>9, <1>12, <1>13, <1>16, <1>21, <1>22, Enough

\* One was told, and is marked; then the next on the list, or the next alert.
LEMMA MarkKeeps ==
  ASSUME IInv, QuietFollows, NEW w \in Workers, Mark(w)
  PROVE  IInv'
<1> DEFINE r == req[w]
           a == Head(req[w].open)
           R == Routes[Key(a)[2]]
           n == [r EXCEPT !.pc = "add", !.routes = Tail(@)]
<1>1. /\ TypeOK /\ r \in Requests /\ RequestOK(r, quiet[w]) /\ r.pc = "mark"
      /\ ToldTwiceOnlyByOverlap /\ PrimaryFirst
      /\ notes' = [notes EXCEPT ![r.note].sent = TRUE]
      /\ UNCHANGED <<now, rows, counter, done>>
  BY DEF IInv, RequestsOK, TypeOK, Mark
<1>2. /\ notes \in Seq(Notes) /\ now \in Nat /\ Paging(r, a)
      /\ r.open # << >> /\ r.open \in Seq(Alerts) /\ r.routes \in Seq(Everyone)
      /\ r.seen \in Nat /\ r.routes # << >> /\ r.note \in 1 .. Len(notes)
  <2>1. r.open # << >> /\ Paging(r, a)
    BY <1>1 DEF RequestOK
  <2> HIDE DEF r, a
  <2> QED
    BY <1>1, <2>1 DEF TypeOK, Requests, Paging
<1>3. a \in Alerts /\ Window(a) \in Nat
  BY <1>2, HeadTailProperties, AlertFacts
<1>4. /\ Len(notes) \in Nat /\ DOMAIN notes = 1 .. Len(notes)
      /\ \A i \in 1 .. Len(notes) : notes[i] \in Notes
  BY <1>2, LenProperties, ElementOfSeq
<1>5. /\ notes' \in Seq(Notes) /\ Len(notes') = Len(notes) /\ notes'[r.note].sent
      /\ \A i \in 1 .. Len(notes) :
            /\ notes'[i].key = notes[i].key /\ notes'[i].to = notes[i].to
            /\ notes'[i].at = notes[i].at /\ notes'[i].seen = notes[i].seen
            /\ notes'[i].window = notes[i].window
            /\ notes[i].sent => notes'[i].sent
  <2> DEFINE marked == [notes[r.note] EXCEPT !.sent = TRUE]
  <2>1. marked \in Notes /\ marked.sent /\ notes' = [notes EXCEPT ![r.note] = marked]
    BY <1>1, <1>2, <1>4 DEF Notes
  <2>2. /\ marked.key = notes[r.note].key /\ marked.to = notes[r.note].to
        /\ marked.at = notes[r.note].at /\ marked.seen = notes[r.note].seen
        /\ marked.window = notes[r.note].window
    BY <1>2, <1>4 DEF Notes
  <2> HIDE DEF marked
  <2>3. /\ notes' \in Seq(Notes) /\ Len(notes') = Len(notes)
        /\ \A i \in 1 .. Len(notes) : notes'[i] = IF i = r.note THEN marked ELSE notes[i]
    BY <1>2, <2>1, ExceptSeq
  <2> QED
    BY <1>2, <2>1, <2>2, <2>3
<1>6. NotesGrow /\ DOMAIN notes' = 1 .. Len(notes)
  BY <1>4, <1>5, LenProperties DEF NotesGrow
<1>7. ToldTwiceOnlyByOverlap'
  <2> SUFFICES ASSUME NEW i \in 1 .. Len(notes), NEW j \in 1 .. Len(notes), i < j,
                      notes'[i].key = notes'[j].key, notes'[i].to = notes'[j].to,
                      notes'[j].at - notes'[i].at < notes'[j].window
               PROVE  notes'[j].seen < i
    BY <1>6 DEF ToldTwiceOnlyByOverlap
  <2>1. /\ notes'[i].key = notes[i].key /\ notes'[i].to = notes[i].to /\ notes'[i].at = notes[i].at
        /\ notes'[j].key = notes[j].key /\ notes'[j].to = notes[j].to /\ notes'[j].at = notes[j].at
        /\ notes'[j].window = notes[j].window /\ notes'[j].seen = notes[j].seen
    BY <1>5
  <2>2. DOMAIN notes = 1 .. Len(notes)
    BY <1>4
  <2>3. i < j /\ notes[i].key = notes[j].key /\ notes[i].to = notes[j].to
              /\ notes[j].at - notes[i].at < notes[j].window
            => notes[j].seen < i
    BY <1>1, <2>2, Zenon DEF ToldTwiceOnlyByOverlap
  <2> QED
    BY <2>1, <2>3
<1>8. PrimaryFirst'
  <2> SUFFICES ASSUME NEW j \in 1 .. Len(notes), NEW p \in DOMAIN Routes[notes[j].key[2]],
                      p > 1, notes[j].to = Routes[notes[j].key[2]][p]
               PROVE  \E i \in 1 .. j - 1 :
                         /\ notes'[i].key = notes[j].key /\ notes'[i].seen = notes[j].seen
                         /\ notes'[i].sent
                         /\ notes'[i].to = Routes[notes[j].key[2]][p - 1]
    BY <1>5, <1>6 DEF PrimaryFirst
  <2>1. PICK i \in 1 .. j - 1 :
          /\ notes[i].key = notes[j].key /\ notes[i].seen = notes[j].seen /\ notes[i].sent
          /\ notes[i].to = Routes[notes[j].key[2]][p - 1]
    BY <1>1, <1>4 DEF PrimaryFirst
  <2>2. i \in 1 .. Len(notes)
    BY <1>4
  <2> QED
    BY <1>5, <2>1, <2>2
<1>9. /\ requests' = requests
      /\ \E m \in Requests : req' = [req EXCEPT ![w] = m]
      /\ RequestOK(req[w], quiet[w])'
  <2>1. CASE Len(r.routes) > 1
    <3>1. req' = [req EXCEPT ![w] = n] /\ requests' = requests
      BY <2>1 DEF Mark, Become
    <3>2. /\ Tail(r.routes) \in Seq(Everyone) /\ Tail(r.routes) # << >>
          /\ Len(Tail(r.routes)) = Len(r.routes) - 1 /\ Len(r.routes) \in Nat
          /\ \A i \in 1 .. Len(Tail(r.routes)) : Tail(r.routes)[i] = r.routes[i + 1]
      BY <1>2, <2>1, HeadTailProperties, TailNotEmpty, LenProperties
    <3>3. n \in Requests
      BY <1>1, <3>2 DEF Requests
    <3>4. req'[w] = n
      BY <1>1, <3>1 DEF TypeOK
    <3>5. /\ req'[w].pc = "add" /\ req'[w].seen = r.seen
          /\ req'[w].open = r.open /\ req'[w].routes = Tail(r.routes)
      BY <1>1, <3>4 DEF Requests
    <3>6. quiet'[w] \subseteq quiet[w]
      <4>1. Free.pc = "free"
        BY DEF Free
      <4>2. r # Free
        BY <1>1, <4>1
      <4> QED
        BY <4>2 DEF QuietFollows
    <3> DEFINE t == Tail(r.routes)
    <3>7. Paging(req[w], Head(req[w].open))'
      <4>1. /\ Len(r.routes) <= Len(R) /\ Len(R) \in Nat
            /\ \A i \in 1 .. Len(r.routes) : r.routes[i] = R[Len(R) - Len(r.routes) + i]
            /\ \A i \in 1 .. r.seen : notes[i].key = Key(a) => now - notes[i].at >= Window(a)
            /\ r.seen <= Len(notes)
            /\ notes[r.note].key = Key(a) /\ notes[r.note].seen = r.seen
            /\ notes[r.note].to = Head(r.routes)
        <5>1. Len(R) \in Nat
          BY <1>3, AlertFacts
        <5> HIDE DEF r, a
        <5> QED
          BY <1>1, <1>2, <5>1 DEF Paging
      <4>2. Head(req'[w].open) = a /\ Head(r.routes) = r.routes[1]
        BY <1>2, <3>5, HeadTailProperties
      <4> HIDE DEF n, r, a, R
      <4>3. /\ Len(t) < Len(R) /\ Len(t) \in Nat
            /\ \A i \in 1 .. Len(t) : t[i] = R[Len(R) - Len(t) + i]
            /\ Head(r.routes) = R[Len(R) - Len(t)]
        <5>1. Len(r.routes) \in Nat /\ Len(r.routes) # 0 /\ Len(r.routes) <= Len(R)
              /\ Len(R) \in Nat /\ Len(t) = Len(r.routes) - 1
          BY <1>2, <3>2, <4>1, EmptySeq
        <5>2. Len(t) \in Nat
          BY ONLY <5>1
        <5>3. /\ Len(t) < Len(R) /\ 1 \in 1 .. Len(r.routes)
              /\ Len(R) - Len(r.routes) + 1 = Len(R) - Len(t)
          BY ONLY <5>1, <5>2, TheNextPlace
        <5>4. \A i \in 1 .. Len(t) : /\ i + 1 \in 1 .. Len(r.routes)
                                     /\ Len(R) - Len(r.routes) + (i + 1) = Len(R) - Len(t) + i
          BY ONLY <5>1, <5>2, TheNextPlace
        <5>5. Head(r.routes) = R[Len(R) - Len(t)]
          BY <4>1, <4>2, <5>2, <5>3
        <5>6. ASSUME NEW i \in 1 .. Len(t)
              PROVE  t[i] = R[Len(R) - Len(t) + i]
          <6>1. /\ i + 1 \in 1 .. Len(r.routes)
                /\ Len(R) - Len(r.routes) + (i + 1) = Len(R) - Len(t) + i
            BY <5>4
          <6>2. r.routes[i + 1] = R[Len(R) - Len(r.routes) + (i + 1)]
            BY <4>1, <6>1
          <6> QED
            BY <3>2, <6>1, <6>2
        <5> QED
          BY <5>2, <5>3, <5>5, <5>6
      <4>4. \A i \in 1 .. r.seen : notes'[i].key = Key(a) => now' - notes'[i].at >= Window(a)
        <5>1. \A i \in 1 .. r.seen : i \in 1 .. Len(notes)
          BY <1>2, <1>4, <4>1
        <5> QED
          BY <1>1, <1>5, <4>1, <5>1
      <4>5. /\ r.note \in 1 .. Len(notes') /\ notes'[r.note].key = Key(a)
            /\ notes'[r.note].seen = r.seen /\ notes'[r.note].sent
            /\ notes'[r.note].to = R[Len(R) - Len(t)]
        BY <1>2, <1>5, <4>1, <4>3
      <4>6. r.seen <= Len(notes') /\ Len(t) <= Len(R) /\ t # << >>
        BY <1>5, <3>2, <4>1, <4>3
      <4> HIDE DEF t
      <4>7. /\ req'[w].pc # "mark" /\ req'[w].seen = r.seen /\ req'[w].routes = t
        BY <3>5 DEF t
      <4> QED
        BY <4>2, <4>3, <4>4, <4>5, <4>6, <4>7 DEF Paging, R
    <3>8. \A i \in 1 .. Len(r.open) : Key(r.open[i]) \notin quiet'[w]
      BY <1>1, <3>6 DEF RequestOK
    <3> HIDE DEF n, r
    <3>9. RequestOK(req[w], quiet[w])'
      BY <1>2, <3>5, <3>7, <3>8 DEF RequestOK
    <3> QED
      BY <3>1, <3>3, <3>9
  <2>2. CASE ~ (Len(r.routes) > 1)
    <3>1. NextAlert(w)
      BY <2>2 DEF Mark
    <3> QED
      BY <1>1, <3>1, NextAlertOK
  <2> QED
    BY <2>1, <2>2
<1>10. req' \in [Workers -> Requests] /\ \A v \in Workers \ {w} : req'[v] = req[v]
  BY <1>1, <1>9 DEF TypeOK
<1>11. TypeOK' /\ now <= now'
  BY <1>1, <1>2, <1>5, <1>9, <1>10, QuietType DEF TypeOK
<1>12. \A v \in Workers : req'[v] = req[v] \/ RequestOK(req[v], quiet[v])'
  BY <1>9, <1>10
<1> QED
  BY <1>6, <1>7, <1>8, <1>11, <1>12, Enough

\* Acknowledging, silencing and counting.
LEMMA StoreKeeps ==
  ASSUME IInv, QuietFollows, NEW w \in Workers, NEW k \in Keys,
         Acknowledge(w, k) \/ Silence(w, k)
  PROVE  IInv'
<1>1. PICK kind \in Kinds, length \in Nat : Store(w, kind, k, length)
  BY BurnAlertsAssumption DEF Acknowledge, Silence, Kinds
<1> DEFINE n == [Free EXCEPT !.pc = "count", !.action = kind]
<1>2. /\ TypeOK /\ req' = [req EXCEPT ![w] = n] /\ requests' = requests + 1
      /\ Upsert(kind, k, now + length) /\ done' = [done EXCEPT ![kind] = @ + 1]
      /\ UNCHANGED <<now, notes, counter>>
  BY <1>1 DEF Store, Begin, IInv
<1>3. n \in Requests
  BY FreeOK DEF Free, Requests
<1>4. n.pc = "count" /\ n.action = kind /\ n.open = << >>
  BY DEF Free
<1> HIDE DEF n
<1>5. req'[w] = n
  BY <1>2 DEF TypeOK
<1>6. RequestOK(req[w], quiet[w])'
  BY <1>4, <1>5, EmptySeq DEF RequestOK
<1>7. rows' \in [Kinds -> [Keys -> SUBSET Nat]]
  <2>1. now + length \in Nat
    BY <1>2 DEF TypeOK
  <2> QED
    BY <1>2, <2>1, RowTypes
<1>8. /\ requests' \in Nat /\ counter' \in [DOMAIN Fields -> [Kinds -> Nat]]
      /\ done' \in [Kinds -> Nat]
  BY <1>2 DEF TypeOK
<1> QED
  BY <1>2, <1>3, <1>6, <1>7, <1>8, OneRequest

LEMMA CountKeeps ==
  ASSUME IInv, QuietFollows, NEW w \in Workers, Count(w) \/ Write(w)
  PROVE  IInv'
<1> DEFINE r == req[w]
<1>1. /\ TypeOK /\ r \in Requests /\ RequestOK(r, quiet[w]) /\ r.pc \in {"count", "write"}
      /\ UNCHANGED <<now, rows, notes, done, requests>>
  BY DEF IInv, TypeOK, RequestsOK, Count, Write, Become
<1>2. r.action \in Kinds /\ r.field \in DOMAIN Fields /\ r.read \in Nat
  BY <1>1 DEF RequestOK, Requests
<1>3. DOMAIN Fields = {1, 2} /\ Len(Fields) = 2
  BY DEF Fields
<1>4. quiet'[w] \subseteq quiet[w]
  <2>1. Free.pc = "free"
    BY DEF Free
  <2>2. r # Free
    BY <1>1, <2>1
  <2> QED
    BY <2>2 DEF QuietFollows
<1>5. \E n \in Requests :
        /\ req' = [req EXCEPT ![w] = n]
        /\ n # Free => n.action \in Kinds /\ n.open = r.open /\ n.pc \in {"count", "write"}
  <2>1. CASE Count(w)
    <3> DEFINE n == [r EXCEPT !.pc = "write", !.read = counter[r.field][r.action]]
    <3>1. req' = [req EXCEPT ![w] = n]
      BY <2>1 DEF Count, Become
    <3>2. counter[r.field][r.action] \in Nat
      BY <1>1, <1>2 DEF TypeOK
    <3>3. n \in Requests /\ n.action = r.action /\ n.open = r.open /\ n.pc = "write"
      BY <1>1, <3>2 DEF Requests
    <3> HIDE DEF n
    <3> QED
      BY <1>2, <3>1, <3>3
  <2>2. CASE Write(w) /\ r.field = Len(Fields)
    <3>1. req' = [req EXCEPT ![w] = Free]
      BY <2>2 DEF Write, Become
    <3> QED
      BY <3>1, FreeOK
  <2>3. CASE Write(w) /\ r.field # Len(Fields)
    <3> DEFINE n == [r EXCEPT !.pc = "count", !.field = @ + 1, !.read = 0]
    <3>1. req' = [req EXCEPT ![w] = n]
      BY <2>3 DEF Write, Become
    <3>2. r.field + 1 \in DOMAIN Fields
      BY <1>2, <1>3, <2>3
    <3>3. n \in Requests /\ n.action = r.action /\ n.open = r.open /\ n.pc = "count"
      BY <1>1, <3>2 DEF Requests
    <3> HIDE DEF n
    <3> QED
      BY <1>2, <3>1, <3>3
  <2> QED
    BY <2>1, <2>2, <2>3
<1>6. PICK n \in Requests :
        /\ req' = [req EXCEPT ![w] = n]
        /\ n # Free => n.action \in Kinds /\ n.open = r.open /\ n.pc \in {"count", "write"}
  BY <1>5
<1>7. req' = [req EXCEPT ![w] = n] /\ req'[w] = n
  BY <1>1, <1>6 DEF TypeOK
<1>8. RequestOK(req[w], quiet[w])'
  <2>1. CASE n = Free
    <3>1. n.pc = "free" /\ n.open = << >>
      BY <2>1 DEF Free
    <3> QED
      BY <1>7, <3>1, EmptySeq DEF RequestOK
  <2>2. CASE n # Free
    <3>1. n.action \in Kinds /\ n.open = r.open /\ n.pc \in {"count", "write"}
      BY <1>6, <2>2
    <3>2. \A i \in 1 .. Len(r.open) : Key(r.open[i]) \notin quiet'[w]
      BY <1>1, <1>4 DEF RequestOK
    <3> HIDE DEF r
    <3> QED
      BY <1>7, <3>1, <3>2 DEF RequestOK
  <2> QED
    BY <2>1, <2>2
<1>9. /\ rows' \in [Kinds -> [Keys -> SUBSET Nat]] /\ requests' \in Nat
      /\ counter' \in [DOMAIN Fields -> [Kinds -> Nat]] /\ done' \in [Kinds -> Nat]
  <2>1. counter' = counter \/ counter' = [counter EXCEPT ![r.field][r.action] = r.read + 1]
    BY DEF Count, Write
  <2>2. r.read + 1 \in Nat
    BY <1>2
  <2>3. counter' \in [DOMAIN Fields -> [Kinds -> Nat]]
    <3>1. counter \in [DOMAIN Fields -> [Kinds -> Nat]]
      BY <1>1 DEF TypeOK
    <3>2. [counter[r.field] EXCEPT ![r.action] = r.read + 1] \in [Kinds -> Nat]
      BY <1>2, <2>2, <3>1
    <3> QED
      BY <1>2, <2>1, <3>1, <3>2
  <2> QED
    BY <1>1, <2>3 DEF TypeOK
<1> QED
  BY <1>1, <1>7, <1>8, <1>9, OneRequest

LEMMA CrashKeeps ==
  ASSUME IInv, QuietFollows, NEW w \in Workers, Crash(w)
  PROVE  IInv'
<1>1. /\ TypeOK /\ req' = [req EXCEPT ![w] = Free]
      /\ UNCHANGED <<now, rows, notes, counter, done, requests>>
  BY DEF IInv, Crash, Become
<1>2. req'[w] = Free /\ Free.pc = "free" /\ Free.open = << >>
  BY <1>1 DEF TypeOK, Free
<1>3. RequestOK(req[w], quiet[w])'
  BY <1>2, EmptySeq DEF RequestOK
<1>4. /\ rows' \in [Kinds -> [Keys -> SUBSET Nat]] /\ requests' \in Nat
      /\ counter' \in [DOMAIN Fields -> [Kinds -> Nat]] /\ done' \in [Kinds -> Nat]
  BY <1>1 DEF TypeOK
<1> QED
  BY <1>1, <1>3, <1>4, FreeOK, OneRequest

\* Taking back, the summary, and time: no request moves.
LEMMA WorldKeeps ==
  ASSUME IInv, QuietFollows,
         (\E kind \in Kinds, k \in Keys : Lift(kind, k)) \/ Summary \/ Tick
  PROVE  IInv'
<1>1. TypeOK /\ UNCHANGED <<req, notes, counter, done>>
  BY DEF IInv, Lift, Summary, Tick
<1>2. rows' \in [Kinds -> [Keys -> SUBSET Nat]]
  <2>1. CASE \E kind \in Kinds, k \in Keys : Lift(kind, k)
    <3>1. PICK kind \in Kinds, k \in Keys : Lift(kind, k)
      BY <2>1
    <3>2. 0 \in Nat /\ Drop(kind, k)
      BY <3>1 DEF Lift
    <3> QED
      BY <1>1, <3>2, RowTypes
  <2>2. CASE Summary
    <3>1. \A kind \in Kinds, k \in Keys : {t \in rows[kind][k] : now <= t} \in SUBSET Nat
      BY <1>1 DEF TypeOK
    <3> QED
      BY <2>2, <3>1 DEF Summary
  <2>3. CASE Tick
    BY <1>1, <2>3 DEF TypeOK, Tick
  <2> QED
    BY <2>1, <2>2, <2>3
<1>3. now' \in Nat /\ now <= now' /\ requests' \in Nat
  BY <1>1 DEF TypeOK, Lift, Summary, Tick
<1>4. TypeOK'
  BY <1>1, <1>2, <1>3, QuietType DEF TypeOK
<1> QED
  BY <1>1, <1>3, <1>4, NotesKept, Enough

LEMMA InitOK == Init => IInv
<1> SUFFICES ASSUME Init
             PROVE  IInv
  OBVIOUS
<1>1. << >> \in Seq(Notes) /\ DOMAIN << >> = {}
  OBVIOUS
<1>2. TypeOK
  BY <1>1, FreeOK DEF Init, TypeOK
<1>3. RequestsOK
  BY FreeOK DEF Init, RequestsOK
<1>4. ToldTwiceOnlyByOverlap /\ PrimaryFirst
  BY <1>1 DEF Init, ToldTwiceOnlyByOverlap, PrimaryFirst
<1> QED
  BY <1>2, <1>3, <1>4 DEF IInv

LEMMA NextOK == IInv /\ [Next]_vars => IInv'
<1> SUFFICES ASSUME IInv, [Next]_vars
             PROVE  IInv'
  OBVIOUS
<1>1. CASE UNCHANGED vars
  <2>1. UNCHANGED <<now, rows, notes, counter, req, requests, done, quiet>>
    BY <1>1 DEF vars
  <2>2. TypeOK /\ TypeOK' /\ now <= now'
    BY <2>1 DEF IInv, TypeOK
  <2>3. NotesGrow /\ ToldTwiceOnlyByOverlap' /\ PrimaryFirst'
    BY <2>1, NotesKept
  <2>4. ASSUME NEW w \in Workers
        PROVE  RequestOK(req[w], quiet[w])'
    BY <2>1, <2>2, <2>3, RequestKept DEF IInv, RequestsOK
  <2> QED
    BY <2>2, <2>3, <2>4 DEF IInv, RequestsOK
<1>2. CASE Next
  <2>1. QuietFollows
    BY <1>2 DEF Next, QuietFollows
  <2>2. ASSUME NEW w \in Workers, Work(w)
        PROVE  IInv'
    <3>1. \/ \E q \in Burning, notify \in BOOLEAN : ReadAlerts(w, q, notify)
          \/ LookForAck(w) \/ PruneAck(w) \/ LookForSilence(w) \/ PruneSilence(w)
          \/ List(w) \/ PagingFails(w)
          \/ Add(w)
          \/ Mark(w)
          \/ \E k \in Keys : Acknowledge(w, k) \/ Silence(w, k)
          \/ Count(w) \/ Write(w)
          \/ Crash(w)
      BY <2>2 DEF Work
    <3> QED
      BY <2>1, <3>1, ReadAlertsKeeps, LookupKeeps, ListKeeps, AddKeeps, MarkKeeps, StoreKeeps,
         CountKeeps, CrashKeeps
  <2> QED
    BY <1>2, <2>1, <2>2, WorldKeeps DEF Next
<1> QED
  BY <1>1, <1>2

LEMMA Invariant == Spec => []IInv
<1> QED
  BY InitOK, NextOK, PTL DEF Spec

\* Every state reached has the types it should.
THEOREM BurnAlertsTypeOK == Spec => []TypeOK
<1>1. IInv => TypeOK
  BY DEF IInv
<1> QED
  BY <1>1, Invariant, PTL

\* Nobody is told twice of an alert within its window, unless by requests that
\* overlap: however many requests, crashes and failed pages there are.
THEOREM BurnToldTwiceOnlyByOverlap == Spec => []ToldTwiceOnlyByOverlap
<1>1. IInv => ToldTwiceOnlyByOverlap
  BY DEF IInv
<1> QED
  BY <1>1, Invariant, PTL

\* A page goes down the list in order, however long the list.
THEOREM BurnPrimaryFirst == Spec => []PrimaryFirst
<1>1. IInv => PrimaryFirst
  BY DEF IInv
<1> QED
  BY <1>1, Invariant, PTL

\* What is silenced from before a request until its page is not paged by it.
THEOREM BurnQuietIsNotPaged == Spec => QuietIsNotPaged
<1>1. IInv => \A w \in Workers : req[w].pc = "add" => Key(Head(req[w].open)) \notin quiet[w]
  <2> SUFFICES ASSUME IInv, NEW w \in Workers, req[w].pc = "add"
               PROVE  Key(Head(req[w].open)) \notin quiet[w]
    OBVIOUS
  <2>1. RequestOK(req[w], quiet[w]) /\ req[w] \in Requests
    BY DEF IInv, RequestsOK, TypeOK
  <2>2. req[w].open # << >> /\ req[w].open \in Seq(Alerts)
    BY <2>1 DEF RequestOK, Requests
  <2>3. Head(req[w].open) = req[w].open[1] /\ 1 \in 1 .. Len(req[w].open)
    BY <2>2, HeadTailProperties, LenProperties, EmptySeq
  <2> QED
    BY <2>1, <2>3 DEF RequestOK
<1>2. IInv => [\A w \in Workers : req[w].pc = "add" /\ req'[w].pc = "mark"
                 => Key(Head(req[w].open)) \notin quiet[w]]_vars
  BY <1>1
<1> QED
  BY <1>2, Invariant, PTL DEF QuietIsNotPaged

(***************************************************************************)
(* The counters.  Whatever a request has still to count is already done:   *)
(* what a counter shows, and what a request read of it, leaves room for    *)
(* every request that has not counted there yet.                           *)
(***************************************************************************)
Pending(f, kind) ==
    {w \in Workers : /\ req[w].pc \in {"count", "write"} /\ req[w].action = kind
                     /\ req[w].field <= f}

RoomToCount(f, kind) ==
    /\ IsFiniteSet(Pending(f, kind))
    /\ counter[f][kind] + Cardinality(Pending(f, kind)) <= done[kind]
    /\ \A w \in Workers :
          req[w].pc = "write" /\ req[w].action = kind /\ req[w].field = f =>
              req[w].read + Cardinality(Pending(f, kind)) <= done[kind]

CountInv == \A f \in DOMAIN Fields, kind \in Kinds : RoomToCount(f, kind)

LEMMA CountTypes ==
  ASSUME TypeOK
  PROVE  /\ \A f \in DOMAIN Fields, kind \in Kinds : counter[f][kind] \in Nat /\ done[kind] \in Nat
         /\ \A w \in Workers : /\ req[w] \in Requests /\ req[w].read \in Nat
                               /\ req[w].field \in {1, 2} /\ req[w].action \in Kinds \cup {""}
         /\ DOMAIN Fields = {1, 2} /\ Len(Fields) = 2
<1>1. DOMAIN Fields = {1, 2} /\ Len(Fields) = 2
  BY DEF Fields
<1>2. \A w \in Workers : /\ req[w] \in Requests /\ req[w].read \in Nat
                         /\ req[w].field \in {1, 2} /\ req[w].action \in Kinds \cup {""}
  BY <1>1 DEF TypeOK, Requests
<1>3. \A f \in DOMAIN Fields, kind \in Kinds : counter[f][kind] \in Nat /\ done[kind] \in Nat
  <2>1. counter \in [DOMAIN Fields -> [Kinds -> Nat]] /\ done \in [Kinds -> Nat]
    BY DEF TypeOK
  <2> QED
    BY <2>1
<1> QED
  BY <1>1, <1>2, <1>3

\* Steps of requests that do not count leave those that do.
LEMMA OthersCount ==
  ASSUME TypeOK, CountInv, UNCHANGED <<counter, done>>,
         \A v \in Workers : req'[v].pc \in {"count", "write"} => req'[v] = req[v]
  PROVE  CountInv'
<1> SUFFICES ASSUME NEW f \in DOMAIN Fields, NEW kind \in Kinds
             PROVE  RoomToCount(f, kind)'
  BY DEF CountInv
<1> DEFINE P == Pending(f, kind)
           Q == {w \in Workers : /\ req'[w].pc \in {"count", "write"} /\ req'[w].action = kind
                                 /\ req'[w].field <= f}
<1>1. RoomToCount(f, kind) /\ counter[f][kind] \in Nat /\ done[kind] \in Nat
  BY CountTypes DEF CountInv
<1>2. Q \in SUBSET P
  BY DEF Pending
<1>3. /\ IsFiniteSet(P) /\ Cardinality(P) \in Nat
      /\ IsFiniteSet(Q) /\ Cardinality(Q) \in Nat /\ Cardinality(Q) <= Cardinality(P)
  BY <1>1, <1>2, FS_Subset, FS_CardinalityType DEF RoomToCount
<1>4. counter'[f][kind] + Cardinality(Q) <= done'[kind]
  BY <1>1, <1>3 DEF RoomToCount
<1>5. ASSUME NEW w \in Workers, req'[w].pc = "write", req'[w].action = kind, req'[w].field = f
      PROVE  req'[w].read + Cardinality(Q) <= done'[kind]
  <2>1. req'[w] = req[w] /\ req[w].read \in Nat
    BY <1>5, CountTypes
  <2>2. req[w].read + Cardinality(P) <= done[kind]
    BY <1>1, <1>5, <2>1 DEF RoomToCount
  <2> QED
    BY <1>1, <1>3, <2>1, <2>2
<1>6. Pending(f, kind)' = Q
  BY DEF Pending
<1> QED
  BY <1>3, <1>4, <1>5, <1>6 DEF RoomToCount

LEMMA LookedDoesNotCount ==
  ASSUME TypeOK, NEW w \in Workers, NEW silenced, Looked(w, silenced)
  PROVE  \E n : req' = [req EXCEPT ![w] = n] /\ n.pc \notin {"count", "write"}
<1> DEFINE r == req[w]
           open == IF silenced \/ ~ r.notify THEN r.open ELSE Append(r.open, Head(r.todo))
<1>1. r \in Requests
  BY CountTypes
<1>2. \/ req' = [req EXCEPT ![w] = [r EXCEPT !.pc = "ack", !.todo = Tail(r.todo), !.open = open]]
      \/ req' = [req EXCEPT ![w] = [r EXCEPT !.pc = "list", !.todo = << >>, !.open = open]]
      \/ req' = [req EXCEPT ![w] = Free]
  BY DEF Looked, Become
<1>3. /\ [r EXCEPT !.pc = "ack", !.todo = Tail(r.todo), !.open = open].pc = "ack"
      /\ [r EXCEPT !.pc = "list", !.todo = << >>, !.open = open].pc = "list"
      /\ Free.pc = "free"
  BY <1>1 DEF Requests, Free
<1> QED
  BY <1>2, <1>3

LEMMA NextAlertDoesNotCount ==
  ASSUME NEW w \in Workers, NextAlert(w)
  PROVE  \E n : req' = [req EXCEPT ![w] = n] /\ n.pc \notin {"count", "write"}
<1> DEFINE next == [Free EXCEPT !.pc = "list", !.notify = req[w].notify, !.open = Tail(req[w].open)]
<1>1. req' = [req EXCEPT ![w] = Free] \/ req' = [req EXCEPT ![w] = next]
  BY DEF NextAlert, Become
<1>2. Free.pc = "free" /\ next.pc = "list"
  BY DEF Free
<1> QED
  BY <1>1, <1>2

LEMMA PagingLeavesCounters ==
  ASSUME NEW w \in Workers,
         \/ \E q \in Burning, notify \in BOOLEAN : ReadAlerts(w, q, notify)
         \/ LookForAck(w) \/ PruneAck(w) \/ LookForSilence(w) \/ PruneSilence(w)
         \/ List(w) \/ Add(w) \/ Mark(w) \/ PagingFails(w) \/ Crash(w)
  PROVE  UNCHANGED <<counter, done>>
BY DEF ReadAlerts, LookForAck, PruneAck, LookForSilence, PruneSilence, List, Add, Mark,
       PagingFails, Crash

LEMMA PagingDoesNotCount ==
  ASSUME TypeOK, NEW w \in Workers,
         \/ \E q \in Burning, notify \in BOOLEAN : ReadAlerts(w, q, notify)
         \/ LookForAck(w) \/ PruneAck(w) \/ LookForSilence(w) \/ PruneSilence(w)
         \/ List(w) \/ Add(w) \/ Mark(w) \/ PagingFails(w) \/ Crash(w)
  PROVE  \E n : req' = [req EXCEPT ![w] = n] /\ n.pc \notin {"count", "write"}
<1> DEFINE r == req[w]
<1>1. r \in Requests
  BY CountTypes
<1>3. ASSUME NEW q, NEW notify, ReadAlerts(w, q, notify)
      PROVE  \E n : req' = [req EXCEPT ![w] = n] /\ n.pc \notin {"count", "write"}
  <2> DEFINE n == [Free EXCEPT !.pc = "ack", !.notify = notify, !.todo = q]
  <2>1. req' = [req EXCEPT ![w] = n]
    BY <1>3 DEF ReadAlerts, Begin
  <2>2. n.pc = "ack"
    BY DEF Free
  <2> QED
    BY <2>1, <2>2
<1>4. ASSUME NEW p, p \notin {"count", "write"}, Become(w, [r EXCEPT !.pc = p])
      PROVE  \E n : req' = [req EXCEPT ![w] = n] /\ n.pc \notin {"count", "write"}
  <2>1. [r EXCEPT !.pc = p].pc = p
    BY <1>1 DEF Requests
  <2> QED
    BY <1>4, <2>1 DEF Become
<1>5. CASE LookForAck(w) \/ PruneAck(w)
  <2>1. CASE PruneAck(w)
    BY <1>4, <2>1 DEF PruneAck
  <2>2. CASE LookForAck(w)
    <3> DEFINE p == IF Expired("ack", Key(Head(r.todo))) THEN "prune_ack" ELSE "silence"
    <3>1. Become(w, [r EXCEPT !.pc = p])
      BY <2>2 DEF LookForAck
    <3>2. p \notin {"count", "write"}
      OBVIOUS
    <3> HIDE DEF p
    <3> QED
      BY <1>4, <3>1, <3>2
  <2> QED
    BY <1>5, <2>1, <2>2
<1>6. CASE LookForSilence(w) \/ PruneSilence(w)
  <2>1. CASE \E silenced : Looked(w, silenced)
    BY <2>1, LookedDoesNotCount
  <2>2. CASE Become(w, [r EXCEPT !.pc = "prune_silence"])
    BY <1>4, <2>2
  <2> QED
    BY <1>6, <2>1, <2>2 DEF LookForSilence, PruneSilence
<1>7. CASE List(w)
  <2> DEFINE n == [r EXCEPT !.pc = "add", !.seen = Len(notes),
                            !.routes = Routes[Key(Head(r.open))[2]]]
  <2>1. NextAlert(w) \/ req' = [req EXCEPT ![w] = n]
    BY <1>7 DEF List, Become
  <2>2. n.pc = "add"
    BY <1>1 DEF Requests
  <2> HIDE DEF n
  <2>3. n.pc \notin {"count", "write"}
    BY <2>2
  <2>4. CASE NextAlert(w)
    BY <2>4, NextAlertDoesNotCount
  <2>5. CASE req' = [req EXCEPT ![w] = n]
    BY <2>3, <2>5
  <2> QED
    BY <2>1, <2>4, <2>5
<1>8. CASE Add(w)
  <2> DEFINE n == [r EXCEPT !.pc = "mark", !.note = Len(notes) + 1]
  <2>1. req' = [req EXCEPT ![w] = n]
    BY <1>8 DEF Add, Become
  <2>2. n.pc = "mark"
    BY <1>1 DEF Requests
  <2> HIDE DEF n
  <2>3. n.pc \notin {"count", "write"}
    BY <2>2
  <2> QED
    BY <2>1, <2>3
<1>9. CASE Mark(w)
  <2> DEFINE n == [r EXCEPT !.pc = "add", !.routes = Tail(@)]
  <2>1. NextAlert(w) \/ req' = [req EXCEPT ![w] = n]
    BY <1>9 DEF Mark, Become
  <2>2. n.pc = "add"
    BY <1>1 DEF Requests
  <2> HIDE DEF n
  <2>3. n.pc \notin {"count", "write"}
    BY <2>2
  <2>4. CASE NextAlert(w)
    BY <2>4, NextAlertDoesNotCount
  <2>5. CASE req' = [req EXCEPT ![w] = n]
    BY <2>3, <2>5
  <2> QED
    BY <2>1, <2>4, <2>5
<1>10. CASE PagingFails(w)
  BY <1>10, NextAlertDoesNotCount DEF PagingFails
<1>11. CASE Crash(w)
  <2>1. Free.pc = "free"
    BY DEF Free
  <2> QED
    BY <1>11, <2>1 DEF Crash, Become
<1> QED
  BY <1>3, <1>5, <1>6, <1>7, <1>8, <1>9, <1>10, <1>11

\* One more is stored, and one more has to be counted.
LEMMA StoreCounts ==
  ASSUME TypeOK, CountInv, NEW w \in Workers, NEW kind \in Kinds, NEW k, NEW length,
         Store(w, kind, k, length)
  PROVE  CountInv'
<1> DEFINE n == [Free EXCEPT !.pc = "count", !.action = kind]
<1>1. /\ req[w] = Free /\ req' = [req EXCEPT ![w] = n]
      /\ done' = [done EXCEPT ![kind] = done[kind] + 1] /\ counter' = counter
  BY DEF Store, Begin
<1>2. n.pc = "count" /\ n.action = kind /\ n.field = 1 /\ Free.pc = "free"
  BY DEF Free
<1> HIDE DEF n
<1>3. req'[w] = n /\ \A v \in Workers \ {w} : req'[v] = req[v]
  BY <1>1 DEF TypeOK
<1>4. ASSUME NEW f \in DOMAIN Fields, NEW g \in Kinds
      PROVE  RoomToCount(f, g)'
  <2> DEFINE P == Pending(f, g)
  <2>1. /\ RoomToCount(f, g) /\ counter[f][g] \in Nat /\ done[g] \in Nat /\ f \in {1, 2}
        /\ IsFiniteSet(P) /\ Cardinality(P) \in Nat
    BY CountTypes, FS_CardinalityType DEF CountInv, RoomToCount
  <2>2. w \notin P
    BY <1>1, <1>2 DEF Pending
  <2>3. ASSUME NEW v \in Workers, req'[v].pc = "write"
        PROVE  req'[v] = req[v] /\ req[v].read \in Nat
    BY <1>2, <1>3, <2>3, CountTypes
  <2>4. CASE g = kind
    <3>1. Pending(f, g)' = P \cup {w}
      BY <1>2, <1>3, <2>1, <2>4 DEF Pending
    <3>2. IsFiniteSet(P \cup {w}) /\ Cardinality(P \cup {w}) = Cardinality(P) + 1
      BY <2>1, <2>2, FS_AddElement
    <3>3. done'[g] = done[g] + 1
      BY <1>1, <2>4 DEF TypeOK
    <3>4. counter'[f][g] + Cardinality(P \cup {w}) <= done'[g]
      BY <1>1, <2>1, <3>2, <3>3 DEF RoomToCount
    <3>5. ASSUME NEW v \in Workers, req'[v].pc = "write", req'[v].action = g, req'[v].field = f
          PROVE  req'[v].read + Cardinality(P \cup {w}) <= done'[g]
      <4>1. req[v].read + Cardinality(P) <= done[g] /\ req[v].read \in Nat /\ req'[v] = req[v]
        BY <2>1, <2>3, <3>5 DEF RoomToCount
      <4> QED
        BY <2>1, <3>2, <3>3, <4>1
    <3> QED
      BY <3>1, <3>2, <3>4, <3>5 DEF RoomToCount
  <2>5. CASE g # kind
    <3>1. Pending(f, g)' = P
      BY <1>1, <1>2, <1>3, <2>5 DEF Pending
    <3>2. done'[g] = done[g]
      BY <1>1, <2>5 DEF TypeOK
    <3> QED
      BY <1>1, <2>1, <2>3, <3>1, <3>2 DEF RoomToCount
  <2> QED
    BY <2>4, <2>5
<1> QED
  BY <1>4 DEF CountInv

LEMMA CountCounts ==
  ASSUME TypeOK, CountInv, NEW w \in Workers, Count(w)
  PROVE  CountInv'
<1> DEFINE n == [req[w] EXCEPT !.pc = "write", !.read = counter[req[w].field][req[w].action]]
<1>1. /\ req[w].pc = "count" /\ req' = [req EXCEPT ![w] = n] /\ UNCHANGED <<counter, done>>
  BY DEF Count, Become
<1>2. /\ n.pc = "write" /\ n.action = req[w].action /\ n.field = req[w].field
      /\ n.read = counter[req[w].field][req[w].action]
  BY CountTypes DEF Requests
<1> HIDE DEF n
<1>3. req'[w] = n /\ \A v \in Workers \ {w} : req'[v] = req[v]
  BY <1>1 DEF TypeOK
<1>4. ASSUME NEW f \in DOMAIN Fields, NEW g \in Kinds
      PROVE  RoomToCount(f, g)'
  <2>1. RoomToCount(f, g)
    BY DEF CountInv
  <2>2. Pending(f, g)' = Pending(f, g)
    BY <1>1, <1>2, <1>3 DEF Pending
  <2> QED
    BY <1>1, <1>2, <1>3, <2>1, <2>2 DEF RoomToCount
<1> QED
  BY <1>4 DEF CountInv

\* Whoever writes has counted there.
LEMMA WriteCounts ==
  ASSUME TypeOK, CountInv, NEW w \in Workers, req[w].action \in Kinds, Write(w)
  PROVE  CountInv'
<1> DEFINE r == req[w]
           n == IF r.field = Len(Fields) THEN Free
                ELSE [r EXCEPT !.pc = "count", !.field = @ + 1, !.read = 0]
<1>1. /\ r.pc = "write" /\ req' = [req EXCEPT ![w] = n] /\ done' = done
      /\ counter' = [counter EXCEPT ![r.field][r.action] = r.read + 1]
  BY DEF Write, Become
<1>2. r \in Requests /\ r.read \in Nat /\ r.field \in {1, 2} /\ DOMAIN Fields = {1, 2}
      /\ Len(Fields) = 2
  BY CountTypes
<1>3. IF r.field = 2 THEN n.pc = "free"
      ELSE n.pc = "count" /\ n.action = r.action /\ n.field = r.field + 1
  BY <1>2 DEF Requests, Free
<1> HIDE DEF n
<1>4. req'[w] = n /\ \A v \in Workers \ {w} : req'[v] = req[v]
  BY <1>1 DEF TypeOK
<1>5. ASSUME NEW f \in DOMAIN Fields, NEW g \in Kinds
      PROVE  RoomToCount(f, g)'
  <2> DEFINE P == Pending(f, g)
  <2>1. /\ RoomToCount(f, g) /\ counter[f][g] \in Nat /\ done[g] \in Nat /\ f \in {1, 2}
        /\ IsFiniteSet(P) /\ Cardinality(P) \in Nat
    BY <1>2, CountTypes, FS_CardinalityType DEF CountInv, RoomToCount
  <2>2. ASSUME NEW v \in Workers, req'[v].pc = "write"
        PROVE  req'[v] = req[v] /\ req[v].read \in Nat
    BY <1>3, <1>4, <2>2, CountTypes
  <2>3. CASE g = r.action /\ f = r.field
    <3>1. w \in P
      BY <1>1, <1>2, <2>3 DEF Pending
    <3>2. Pending(f, g)' = P \ {w}
      BY <1>2, <1>3, <1>4, <2>3 DEF Pending
    <3>3. IsFiniteSet(P \ {w}) /\ Cardinality(P \ {w}) = Cardinality(P) - 1
      BY <2>1, <3>1, FS_RemoveElement
    <3>4. counter'[f][g] = r.read + 1
      BY <1>1, <1>2, <2>3 DEF TypeOK
    <3>5. r.read + Cardinality(P) <= done[g]
      BY <1>1, <2>1, <2>3 DEF RoomToCount
    <3>6. counter'[f][g] + Cardinality(P \ {w}) <= done'[g]
      BY <1>1, <1>2, <2>1, <3>3, <3>4, <3>5
    <3>7. ASSUME NEW v \in Workers, req'[v].pc = "write", req'[v].action = g, req'[v].field = f
          PROVE  req'[v].read + Cardinality(P \ {w}) <= done'[g]
      <4>1. req[v].read + Cardinality(P) <= done[g] /\ req[v].read \in Nat /\ req'[v] = req[v]
        BY <2>1, <2>2, <3>7 DEF RoomToCount
      <4> QED
        BY <1>1, <2>1, <3>3, <4>1
    <3> QED
      BY <3>2, <3>3, <3>6, <3>7 DEF RoomToCount
  <2>4. CASE ~ (g = r.action /\ f = r.field)
    <3>1. Pending(f, g)' = P
      BY <1>1, <1>2, <1>3, <1>4, <2>1, <2>4 DEF Pending
    <3>2. counter'[f][g] = counter[f][g]
      BY <1>1, <1>2, <2>4 DEF TypeOK
    <3> QED
      BY <1>1, <2>1, <2>2, <3>1, <3>2 DEF RoomToCount
  <2> QED
    BY <2>3, <2>4
<1> QED
  BY <1>5 DEF CountInv

LEMMA CountInductive == Spec => []CountInv
<1>1. Init => CountInv
  <2> SUFFICES ASSUME Init, NEW f \in DOMAIN Fields, NEW kind \in Kinds
               PROVE  RoomToCount(f, kind)
    BY DEF CountInv
  <2>1. Free.pc = "free"
    BY DEF Free
  <2>2. Pending(f, kind) = {} /\ \A w \in Workers : req[w].pc = "free"
    BY <2>1 DEF Init, Pending
  <2>3. counter[f][kind] = 0 /\ done[kind] = 0
    BY DEF Init
  <2> QED
    BY <2>2, <2>3, FS_EmptySet DEF RoomToCount
<1>2. ASSUME IInv, CountInv, [Next]_vars
      PROVE  CountInv'
  <2>1. TypeOK /\ \A w \in Workers : req[w].pc = "write" => req[w].action \in Kinds
    BY <1>2 DEF IInv, RequestsOK, RequestOK
  <2>2. ASSUME NEW w \in Workers, NEW n, req' = [req EXCEPT ![w] = n],
               n.pc \notin {"count", "write"}, UNCHANGED <<counter, done>>
        PROVE  CountInv'
    <3>1. \A v \in Workers : req'[v] = IF v = w THEN n ELSE req[v]
      BY <2>1, <2>2 DEF TypeOK
    <3> QED
      BY <1>2, <2>1, <2>2, <3>1, OthersCount
  <2>3. ASSUME NEW w \in Workers, Work(w)
        PROVE  CountInv'
    <3>1. CASE \E k \in Keys : Acknowledge(w, k) \/ Silence(w, k)
      BY <1>2, <2>1, <3>1, StoreCounts DEF Acknowledge, Silence, Kinds
    <3>2. CASE Count(w)
      BY <1>2, <2>1, <3>2, CountCounts
    <3>3. CASE Write(w)
      <4>1. req[w].pc = "write"
        BY <3>3 DEF Write
      <4> QED
        BY <1>2, <2>1, <3>3, <4>1, WriteCounts
    <3>4. CASE \/ \E q \in Burning, notify \in BOOLEAN : ReadAlerts(w, q, notify)
               \/ LookForAck(w) \/ PruneAck(w) \/ LookForSilence(w) \/ PruneSilence(w)
               \/ List(w) \/ Add(w) \/ Mark(w) \/ PagingFails(w) \/ Crash(w)
      BY <2>1, <2>2, <3>4, PagingDoesNotCount, PagingLeavesCounters
    <3> QED
      BY <2>3, <3>1, <3>2, <3>3, <3>4 DEF Work
  <2>4. ASSUME (\E kind \in Kinds, k \in Keys : Lift(kind, k)) \/ Summary \/ Tick \/ UNCHANGED vars
        PROVE  CountInv'
    <3>1. UNCHANGED <<req, counter, done>>
      BY <2>4 DEF Lift, Summary, Tick, vars
    <3> QED
      BY <1>2, <2>1, <3>1, OthersCount
  <2> QED
    BY <1>2, <2>3, <2>4 DEF Next
<1> QED
  BY <1>1, <1>2, Invariant, PTL DEF Spec

\* A counter never shows more than was done, whatever counts requests that
\* overlap lose: for any objectives and any number of requests
\* (BurnCounters.record).
THEOREM BurnNeverOvercounts == Spec => []NeverOvercounts
<1>1. TypeOK /\ CountInv => NeverOvercounts
  <2> SUFFICES ASSUME TypeOK, CountInv, NEW f \in DOMAIN Fields, NEW kind \in Kinds
               PROVE  counter[f][kind] <= done[kind]
    BY DEF NeverOvercounts
  <2>1. RoomToCount(f, kind) /\ counter[f][kind] \in Nat /\ done[kind] \in Nat
    BY CountTypes DEF CountInv
  <2>2. Cardinality(Pending(f, kind)) \in Nat
    BY <2>1, FS_CardinalityType DEF RoomToCount
  <2> QED
    BY <2>1, <2>2 DEF RoomToCount
<1> QED
  BY <1>1, BurnAlertsTypeOK, CountInductive, PTL

\* Of a tier that occurs in a roster, somebody is the first.
LEMMA FirstOfTier ==
  ASSUME NEW Ids, NEW roster \in Seq(EngineersOf(Ids)), NEW k \in DOMAIN roster
  PROVE  EngineerForTier(roster, roster[k].tier) # {}
<1> DEFINE T == {j \in DOMAIN roster : roster[j].tier = roster[k].tier}
<1>1. DOMAIN roster = 1 .. Len(roster) /\ Len(roster) \in Nat
  OBVIOUS
<1>2. T \subseteq Nat /\ T # {}
  BY <1>1
<1>3. \E x \in T : \A y \in T : ~(<<y, x>> \in OpToRel(<, Nat))
  BY <1>2, WFMin, NatLessThanWellFounded
<1>4. PICK x \in T : \A y \in T : ~(<<y, x>> \in OpToRel(<, Nat))
  BY <1>3
<1>5. \A y \in T : ~(y < x)
  BY <1>2, <1>4 DEF OpToRel
<1>6. \A j \in 1 .. x - 1 : roster[j].tier # roster[x].tier
  BY <1>1, <1>5
<1> QED
  BY <1>1, <1>6 DEF EngineerForTier

\* targets_for_severity "so an alert is never dropped for lack of an exact-tier
\* engineer" (services/oncall_directory.py): if anybody at all is on call,
\* somebody is to be told of an alert, though the tiers of its severity are
\* vacant, for any roster and of either severity.
THEOREM AlertsReachSomeone ==
  ASSUME NEW Ids, NEW roster \in Seq(EngineersOf(Ids)), roster # << >>,
         NEW severity \in {"page", "ticket"}
  PROVE  TargetsForSeverity(roster, severity) # {}
<1> SUFFICES ASSUME Mapped(roster, severity) = {}
             PROVE  Highest(roster) # {}
  BY DEF TargetsForSeverity
<1>1. 1 \in DOMAIN roster /\ roster[1].tier \in 1 .. 3
  <2>1. Len(roster) \in Nat \ {0}
    BY EmptySeq
  <2>2. 1 \in DOMAIN roster /\ roster[1] \in EngineersOf(Ids)
    BY <2>1, LenProperties
  <2> QED
    BY <2>2 DEF EngineersOf
<1>2. EngineerForTier(roster, roster[1].tier) # {}
  BY <1>1, FirstOfTier
<1>3. \E t \in 1 .. 3 : EngineerForTier(roster, t) # {} /\ \A u \in t + 1 .. 3 : EngineerForTier(roster, u) = {}
  <2>1. CASE EngineerForTier(roster, 3) # {}
    BY <2>1
  <2>2. CASE EngineerForTier(roster, 3) = {} /\ EngineerForTier(roster, 2) # {}
    BY <2>2
  <2>3. CASE EngineerForTier(roster, 3) = {} /\ EngineerForTier(roster, 2) = {}
    <3>1. roster[1].tier = 1
      BY <1>1, <1>2, <2>3
    <3>2. EngineerForTier(roster, 1) # {}
      BY <1>2, <3>1
    <3> QED
      BY <2>3, <3>2
  <2> QED
    BY <2>1, <2>2, <2>3
<1> QED
  BY <1>3 DEF Highest
=============================================================================
