----------------------------- MODULE BurnAlerts -----------------------------
(***************************************************************************)
(* Burn-rate alerts: reading them pages whoever is on call, unless a page  *)
(* for the same objective and severity is recent, or the alert silenced    *)
(* (services/burn_alerts.py, notification_service.py,                      *)
(* sql_burn_ack_store.py, burn_counters.py, core/context.py).              *)
(*                                                                         *)
(* Requests run in any number of processes over one database and one Redis *)
(* and suspend at every call of a store: an action is what a request does  *)
(* from one such call to the next.                                         *)
(***************************************************************************)
EXTENDS Integers, Sequences

CONSTANTS SLOs,         \* the objectives, in the order of their budgets
          Tiers,        \* the burn tiers, most urgent first: severity, and
                        \* the short window as a number of ticks
          Routes,       \* [severities -> who is told, primary first]
          AckTTL,       \* ticks an acknowledgement lasts (0 would be for ever)
          Lengths,      \* ticks a silence may last
          Workers,      \* requests that can be in flight
          MaxRequests,  \* bound: requests in all
          Horizon       \* bound: when time stops

Severities == {Tiers[t].severity : t \in DOMAIN Tiers}
Objectives == {SLOs[i] : i \in DOMAIN SLOs}
Everyone == UNION {{Routes[s][i] : i \in DOMAIN Routes[s]} : s \in Severities}

ASSUME BurnAlertsAssumption ==
    /\ SLOs \in Seq(Objectives)
    /\ Tiers \in Seq([severity : {"page", "ticket"}, window : Nat])
    /\ \A s \in Severities :
          /\ Routes[s] \in Seq(Everyone) \ {<< >>}
          /\ \A i, j \in DOMAIN Routes[s] : Routes[s][i] = Routes[s][j] => i = j
    /\ AckTTL \in Nat \ {0} /\ Lengths \subseteq Nat
    /\ MaxRequests \in Nat /\ Horizon \in Nat

Keys == Objectives \X Severities
Alerts == [slo : Objectives, tier : DOMAIN Tiers]
Key(a) == <<a.slo, Tiers[a.tier].severity>>
Window(a) == Tiers[a.tier].window

Kinds == {"ack", "silence"}
Fields == <<"total", "bucket">>

VARIABLES now,       \* ticks
          rows,      \* burn_acks: [Kinds -> [Keys -> at most one expiry]]
          notes,     \* the notifications, in the order they were added
          counter,   \* [Fields -> [Kinds -> Nat]]
          req,       \* the request a worker is busy with
          requests,  \* how many there were
          done,      \* history: acknowledgements and silences stored
          quiet      \* history: keys silenced ever since a request began

vars == <<now, rows, notes, counter, req, requests, done, quiet>>

Free == [pc |-> "free", notify |-> FALSE, todo |-> << >>, open |-> << >>, routes |-> << >>,
         seen |-> 0, note |-> 0, action |-> "", field |-> 1, read |-> 0]

Notes == [key : Keys, window : Nat, to : Everyone, at : Nat, seen : Nat, sent : BOOLEAN]
Requests ==
    [pc : {"free", "ack", "prune_ack", "silence", "prune_silence", "list", "add", "mark",
           "count", "write"},
     notify : BOOLEAN, todo : Seq(Alerts), open : Seq(Alerts), routes : Seq(Everyone),
     seen : Nat, note : Nat, action : Kinds \cup {""}, field : DOMAIN Fields,
     read : Nat]

TypeOK ==
    /\ now \in Nat /\ requests \in Nat
    /\ rows \in [Kinds -> [Keys -> SUBSET Nat]]
    /\ notes \in Seq(Notes)
    /\ counter \in [DOMAIN Fields -> [Kinds -> Nat]]
    /\ req \in [Workers -> Requests]
    /\ done \in [Kinds -> Nat]
    /\ quiet \in [Workers -> SUBSET Keys]

Init ==
    /\ now = 0 /\ requests = 0
    /\ rows = [kind \in Kinds |-> [k \in Keys |-> {}]]
    /\ notes = << >>
    /\ counter = [f \in DOMAIN Fields |-> [kind \in Kinds |-> 0]]
    /\ req = [w \in Workers |-> Free]
    /\ done = [kind \in Kinds |-> 0]
    /\ quiet = [w \in Workers |-> {}]

(***************************************************************************)
(* The store of acknowledgements and silences.                             *)
(***************************************************************************)
Expired(kind, k) == \E t \in rows[kind][k] : t < now
Upsert(kind, k, t) == rows' = [rows EXCEPT ![kind][k] = {t}]
Drop(kind, k) == rows' = [rows EXCEPT ![kind][k] = {}]

Silenced == {k \in Keys : \E t \in rows["silence"][k] : now <= t}

(***************************************************************************)
(* Requests.                                                               *)
(***************************************************************************)
Begin(w, r) ==
    /\ req[w] = Free
    /\ requests < MaxRequests
    /\ requests' = requests + 1
    /\ req' = [req EXCEPT ![w] = r]
Become(w, r) == req' = [req EXCEPT ![w] = r] /\ UNCHANGED requests

\* evaluate_burn_alerts: of each objective whose burn rates reach the factor of
\* some tier in both windows, the most urgent such tier.
Burning ==
    {q \in UNION {[1 .. n -> Alerts] : n \in 1 .. Len(SLOs)} :
        \E at \in [DOMAIN q -> DOMAIN SLOs] :
            \A i \in DOMAIN q : q[i].slo = SLOs[at[i]] /\ \A j \in 1 .. i - 1 : at[j] < at[i]}

\* burn_alerts, up to its first look at the store.
ReadAlerts(w, q, notify) ==
    /\ Begin(w, [Free EXCEPT !.pc = "ack", !.notify = notify, !.todo = q])
    /\ UNCHANGED <<now, rows, notes, counter, done>>

\* Mutant: what is silenced is marked, and paged all the same.
LookedAll(w, silenced) ==
    LET r == req[w]
        open == IF ~ r.notify THEN r.open ELSE Append(r.open, Head(r.todo))
    IN  IF Len(r.todo) > 1
        THEN Become(w, [r EXCEPT !.pc = "ack", !.todo = Tail(r.todo), !.open = open])
        ELSE IF open # << >>
        THEN Become(w, [r EXCEPT !.pc = "list", !.todo = << >>, !.open = open])
        ELSE Become(w, Free)

\* What was seen of an alert; only those that may be paged are remembered.
Looked(w, silenced) ==
    LET r == req[w]
        open == IF silenced \/ ~ r.notify THEN r.open ELSE Append(r.open, Head(r.todo))
    IN  IF Len(r.todo) > 1
        THEN Become(w, [r EXCEPT !.pc = "ack", !.todo = Tail(r.todo), !.open = open])
        ELSE IF open # << >>
        THEN Become(w, [r EXCEPT !.pc = "list", !.todo = << >>, !.open = open])
        ELSE Become(w, Free)

\* ack_for.
LookForAck(w) ==
    /\ req[w].pc = "ack"
    /\ Become(w, [req[w] EXCEPT !.pc = IF Expired("ack", Key(Head(req[w].todo)))
                                       THEN "prune_ack" ELSE "silence"])
    /\ UNCHANGED <<now, rows, notes, counter, done>>

PruneAck(w) ==
    /\ req[w].pc = "prune_ack"
    /\ Drop("ack", Key(Head(req[w].todo)))
    /\ Become(w, [req[w] EXCEPT !.pc = "silence"])
    /\ UNCHANGED <<now, notes, counter, done>>

\* is_silenced.
LookForSilence(w) ==
    LET k == Key(Head(req[w].todo))
    IN  /\ req[w].pc = "silence"
        /\ \/ Expired("silence", k) /\ Become(w, [req[w] EXCEPT !.pc = "prune_silence"])
           \/ ~ Expired("silence", k) /\ Looked(w, rows["silence"][k] # {})
        /\ UNCHANGED <<now, rows, notes, counter, done>>

PruneSilence(w) ==
    /\ req[w].pc = "prune_silence"
    /\ Drop("silence", Key(Head(req[w].todo)))
    /\ Looked(w, FALSE)
    /\ UNCHANGED <<now, notes, counter, done>>

(***************************************************************************)
(* Paging, for each alert that was not silenced when it was looked up.     *)
(***************************************************************************)
NextAlert(w) ==
    LET r == req[w]
    IN  Become(w, IF Len(r.open) = 1 THEN Free
                  ELSE [Free EXCEPT !.pc = "list", !.notify = r.notify, !.open = Tail(r.open)])

\* Mutant: only notifications that were sent count.
RecentlySent(a) ==
    \E i \in DOMAIN notes : /\ notes[i].key = Key(a) /\ notes[i].sent
                            /\ now - notes[i].at < Window(a)

Recently(a) ==
    \E i \in DOMAIN notes : notes[i].key = Key(a) /\ now - notes[i].at < Window(a)

\* notify_burn_alert, up to its first notification.
List(w) ==
    LET a == Head(req[w].open)
    IN  /\ req[w].pc = "list"
        /\ \/ Recently(a) /\ NextAlert(w)
           \/ /\ ~ Recently(a)
              /\ Become(w, [req[w] EXCEPT !.pc = "add", !.seen = Len(notes),
                                          !.routes = Routes[Key(a)[2]]])
        /\ UNCHANGED <<now, rows, notes, counter, done>>

Add(w) ==
    LET a == Head(req[w].open)
    IN  /\ req[w].pc = "add"
        /\ notes' = Append(notes, [key |-> Key(a), window |-> Window(a), at |-> now,
                                   to |-> Head(req[w].routes), seen |-> req[w].seen,
                                   sent |-> FALSE])
        /\ Become(w, [req[w] EXCEPT !.pc = "mark", !.note = Len(notes) + 1])
        /\ UNCHANGED <<now, rows, counter, done>>

Mark(w) ==
    /\ req[w].pc = "mark"
    /\ notes' = [notes EXCEPT ![req[w].note].sent = TRUE]
    /\ IF Len(req[w].routes) > 1
       THEN Become(w, [req[w] EXCEPT !.pc = "add", !.routes = Tail(@)])
       ELSE NextAlert(w)
    /\ UNCHANGED <<now, rows, counter, done>>

\* The database raises: the rest of this alert is given up, not the others.
PagingFails(w) ==
    /\ req[w].pc \in {"list", "add", "mark"}
    /\ NextAlert(w)
    /\ UNCHANGED <<now, rows, notes, counter, done>>

(***************************************************************************)
(* Acknowledging and silencing, and taking it back.  The audit records of  *)
(* these requests are read by nobody here, and left out.                   *)
(***************************************************************************)
\* The upsert; then the request goes on to count itself.
Store(w, kind, k, length) ==
    /\ Begin(w, [Free EXCEPT !.pc = "count", !.action = kind])
    /\ Upsert(kind, k, now + length)
    /\ done' = [done EXCEPT ![kind] = @ + 1]
    /\ UNCHANGED <<now, notes, counter>>

Acknowledge(w, k) == Store(w, "ack", k, AckTTL)
Silence(w, k) == \E n \in Lengths : Store(w, "silence", k, n)

Lift(kind, k) ==
    /\ requests < MaxRequests
    /\ requests' = requests + 1
    /\ Drop(kind, k)
    /\ UNCHANGED <<now, notes, counter, req, done>>

\* _incr_field: read, and write one more.
Count(w) ==
    /\ req[w].pc = "count"
    /\ Become(w, [req[w] EXCEPT !.pc = "write",
                                !.read = counter[req[w].field][req[w].action]])
    /\ UNCHANGED <<now, rows, notes, counter, done>>

\* Mutant: the new count is added to the one that is there.
WriteAdds(w) ==
    LET r == req[w]
    IN  /\ r.pc = "write"
        /\ counter' = [counter EXCEPT ![r.field][r.action] = @ + r.read + 1]
        /\ Become(w, IF r.field = Len(Fields) THEN Free
                     ELSE [r EXCEPT !.pc = "count", !.field = @ + 1, !.read = 0])
        /\ UNCHANGED <<now, rows, notes, done>>

Write(w) ==
    LET r == req[w]
    IN  /\ r.pc = "write"
        /\ counter' = [counter EXCEPT ![r.field][r.action] = r.read + 1]
        /\ Become(w, IF r.field = Len(Fields) THEN Free
                     ELSE [r EXCEPT !.pc = "count", !.field = @ + 1, !.read = 0])
        /\ UNCHANGED <<now, rows, notes, done>>

(***************************************************************************)
(* The rest of the world.                                                  *)
(***************************************************************************)
\* active_summary deletes what has expired, in one statement.
Summary ==
    /\ rows' = [kind \in Kinds |-> [k \in Keys |-> {t \in rows[kind][k] : now <= t}]]
    /\ UNCHANGED <<now, notes, counter, req, requests, done>>

Tick ==
    /\ now < Horizon
    /\ now' = now + 1
    /\ UNCHANGED <<rows, notes, counter, req, requests, done>>

\* A request is cut off where it is.
Crash(w) ==
    /\ req[w] # Free
    /\ Become(w, Free)
    /\ UNCHANGED <<now, rows, notes, counter, done>>

Work(w) ==
    \/ \E q \in Burning, notify \in BOOLEAN : ReadAlerts(w, q, notify)
    \/ LookForAck(w) \/ PruneAck(w) \/ LookForSilence(w) \/ PruneSilence(w)
    \/ List(w) \/ Add(w) \/ Mark(w) \/ PagingFails(w)
    \/ \E k \in Keys : Acknowledge(w, k) \/ Silence(w, k)
    \/ Count(w) \/ Write(w)
    \/ Crash(w)

\* quiet follows along.
Next ==
    /\ \/ \E w \in Workers : Work(w)
       \/ \E kind \in Kinds, k \in Keys : Lift(kind, k)
       \/ Summary \/ Tick
    /\ quiet' = [w \in Workers |-> IF req'[w] = Free THEN {}
                                   ELSE IF req[w] = Free THEN Silenced'
                                   ELSE quiet[w] \cap Silenced']

Spec == Init /\ [][Next]_vars

-----------------------------------------------------------------------------
(***************************************************************************)
(* Properties.                                                             *)
(***************************************************************************)
\* Nobody is told twice within the window of an alert, unless by requests
\* that overlap: the later one had looked for notifications before the
\* earlier was there, whatever failed or was cut off (notify_burn_alert).
ToldTwiceOnlyByOverlap ==
    \A i, j \in DOMAIN notes :
        i < j /\ notes[i].key = notes[j].key /\ notes[i].to = notes[j].to
              /\ notes[j].at - notes[i].at < notes[j].window
           => notes[j].seen < i

\* A page goes to the next on the list only after it was sent to the one
\* before, failures and other requests in between included (notify_burn_alert,
\* _dispatch).
PrimaryFirst ==
    \A j \in DOMAIN notes : \A p \in DOMAIN Routes[notes[j].key[2]] :
        p > 1 /\ notes[j].to = Routes[notes[j].key[2]][p] =>
            \E i \in 1 .. j - 1 :
                /\ notes[i].key = notes[j].key /\ notes[i].seen = notes[j].seen /\ notes[i].sent
                /\ notes[i].to = Routes[notes[j].key[2]][p - 1]

\* An alert that is silenced from before a request until its page would be
\* sent is not paged, though silences are read long before (burn_alerts).
QuietIsNotPaged ==
    [][\A w \in Workers : req[w].pc = "add" /\ req'[w].pc = "mark"
          => Key(Head(req[w].open)) \notin quiet[w]]_vars

\* The counters lose counts when requests overlap, but never count what was
\* not done (BurnCounters.record).
NeverOvercounts == \A f \in DOMAIN Fields, kind \in Kinds : counter[f][kind] <= done[kind]

(***************************************************************************)
(* What the comments say.                                                  *)
(***************************************************************************)
\* sql_burn_ack_store.py: expired rows are pruned on read.  A silence or an
\* acknowledgement that has not expired goes only when someone takes it back.
OnlyExpiredIsPruned ==
    [][\A kind \in Kinds, k \in Keys :
          (\E t \in rows[kind][k] : now <= t) /\ rows'[kind][k] = {}
             => requests' > requests]_vars
=============================================================================
