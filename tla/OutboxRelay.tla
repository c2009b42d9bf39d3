----------------------------- MODULE OutboxRelay -----------------------------
(***************************************************************************)
(* services/outbox_relay.py over the SQL outbox: every replica runs one    *)
(* relay, and all relays drain the same table.  A relay lists the oldest   *)
(* pending entries, publishes each to the event bus of its own process,    *)
(* and marks it; each of these is an await at which the other relays, and  *)
(* the services that add entries, go on.                                   *)
(*                                                                         *)
(* An entry is its rank by created_at, which is stamped before the entry   *)
(* is inserted: requests that overlap may insert out of that order.        *)
(* publish() swallows what its handlers raise, so only the database can    *)
(* make a relay fail.                                                      *)
(***************************************************************************)
EXTENDS Integers, FiniteSets

CONSTANTS N,           \* bound: entries ever added
          Replicas,    \* processes that run a relay
          Limit,       \* how many entries list_pending returns at most (100)
          MaxTrouble   \* bound: crashes, database errors and shutdowns

ASSUME RelayAssumption ==
    N \in Nat /\ Limit \in Nat \ {0} /\ MaxTrouble \in Nat

Entries == 1 .. N

VARIABLES status,       \* [Entries -> Statuses]; "absent" before it is added
          pc,           \* where each relay waits
          batch,        \* the entries of its drain it has not dealt with
          stopping,     \* whether its stop() was called
          older,        \* history: the older entries there when one was added
          published,    \* history: how often a replica published an entry
          interrupted,  \* history: drains of a replica that were cut off
          trouble       \* crashes, errors and shutdowns so far

vars == <<status, pc, batch, stopping, older, published, interrupted, trouble>>
relay == <<pc, batch, stopping>>
history == <<older, published, interrupted>>

Statuses == {"absent", "PENDING", "DISPATCHED", "FAILED"}

(***************************************************************************)
(*   "down"     no relay task         "wait"  between two drains           *)
(*   "publish"  before bus.publish    "mark"  before mark_dispatched       *)
(*   "fail"     before mark_failed                                         *)
(***************************************************************************)
Pcs == {"down", "wait", "publish", "mark", "fail"}

TypeOK ==
    /\ status \in [Entries -> Statuses]
    /\ pc \in [Replicas -> Pcs]
    /\ batch \in [Replicas -> SUBSET Entries]
    /\ stopping \in [Replicas -> BOOLEAN]
    /\ older \in [Entries -> SUBSET Entries]
    /\ published \in [Replicas -> [Entries -> Nat]]
    /\ interrupted \in [Replicas -> Nat]
    /\ trouble \in 0 .. MaxTrouble

Init ==
    /\ status = [e \in Entries |-> "absent"]
    /\ pc = [r \in Replicas |-> "down"]
    /\ batch = [r \in Replicas |-> {}]
    /\ stopping = [r \in Replicas |-> FALSE]
    /\ older = [e \in Entries |-> {}]
    /\ published = [r \in Replicas |-> [e \in Entries |-> 0]]
    /\ interrupted = [r \in Replicas |-> 0]
    /\ trouble = 0

\* SQLOutboxRepository.add, by whatever service.
Add(e) ==
    /\ status[e] = "absent"
    /\ status' = [status EXCEPT ![e] = "PENDING"]
    /\ older' = [older EXCEPT ![e] = {f \in Entries : f < e /\ status[f] # "absent"}]
    /\ UNCHANGED <<relay, published, interrupted, trouble>>

(***************************************************************************)
(* The life of a relay: start() at startup, stop() at shutdown.            *)
(***************************************************************************)
Goto(r, label) == pc' = [pc EXCEPT ![r] = label]

Disturb ==
    /\ trouble < MaxTrouble
    /\ trouble' = trouble + 1

Start(r) ==
    /\ pc[r] = "down"
    /\ Goto(r, "wait")
    /\ UNCHANGED <<status, batch, stopping, history, trouble>>

\* The flag only; a drain that has begun is finished first.
Stop(r) ==
    /\ pc[r] # "down" /\ ~ stopping[r]
    /\ Disturb
    /\ stopping' = [stopping EXCEPT ![r] = TRUE]
    /\ UNCHANGED <<status, pc, batch, history>>

\* Mutant: the loop only looks at the flag when there is nothing to drain.
ExitWhenDrained(r) ==
    /\ pc[r] = "wait" /\ stopping[r]
    /\ \A e \in Entries : status[e] # "PENDING"
    /\ Goto(r, "down")
    /\ stopping' = [stopping EXCEPT ![r] = FALSE]
    /\ UNCHANGED <<status, batch, history, trouble>>

Exit(r) ==
    /\ pc[r] = "wait" /\ stopping[r]
    /\ Goto(r, "down")
    /\ stopping' = [stopping EXCEPT ![r] = FALSE]
    /\ UNCHANGED <<status, batch, history, trouble>>

(***************************************************************************)
(* drain_once.                                                             *)
(***************************************************************************)
Pending == {e \in Entries : status[e] = "PENDING"}

\* list_pending: the `Limit' oldest.
\* Mutant: the newest ones.
Newest(S) == {e \in S : Cardinality({f \in S : f > e}) < Limit}

Oldest(S) == {e \in S : Cardinality({f \in S : f < e}) < Limit}

\* Mutant: the limit is applied before the status is looked at.
ListLimitsFirst(r) ==
    /\ pc[r] = "wait" /\ ~ stopping[r]
    /\ LET listed == Pending \cap Oldest({e \in Entries : status[e] # "absent"})
       IN  listed # {} /\ batch' = [batch EXCEPT ![r] = listed]
    /\ Goto(r, "publish")
    /\ UNCHANGED <<status, stopping, history, trouble>>
\* Mutant: entries are marked, then published.
ListMarksFirst(r) ==
    /\ pc[r] = "wait" /\ ~ stopping[r]
    /\ Pending # {}
    /\ batch' = [batch EXCEPT ![r] = Oldest(Pending)]
    /\ Goto(r, "mark")
    /\ UNCHANGED <<status, stopping, history, trouble>>

List(r) ==
    /\ pc[r] = "wait" /\ ~ stopping[r]
    /\ Pending # {}
    /\ batch' = [batch EXCEPT ![r] = Oldest(Pending)]
    /\ Goto(r, "publish")
    /\ UNCHANGED <<status, stopping, history, trouble>>

\* The entry of its drain that a relay is at: the batch is in order.
\* Mutant: the batch is in the order of insertion, newest first.
CurrentNewest(r, e) == e \in batch[r] /\ \A f \in batch[r] : f <= e

Current(r, e) == e \in batch[r] /\ \A f \in batch[r] : e <= f

Publish(r) ==
    /\ pc[r] = "publish"
    /\ \E e \in Entries :
          /\ Current(r, e)
          /\ published' = [published EXCEPT ![r][e] = @ + 1]
    /\ Goto(r, "mark")
    /\ UNCHANGED <<status, batch, stopping, older, interrupted, trouble>>

\* The entry gets its status, whatever it is by now, and the drain goes on.
Mark(r, s) ==
    /\ \E e \in Entries :
          /\ Current(r, e)
          /\ status' = [status EXCEPT ![e] = s]
          /\ batch' = [batch EXCEPT ![r] = @ \ {e}]
    /\ Goto(r, IF batch'[r] = {} THEN "wait" ELSE "publish")
    /\ UNCHANGED <<stopping, history, trouble>>

\* Mutant: an entry that could not be marked is left for the next drain.
MarkForRetry(r) == pc[r] = "fail" /\ Mark(r, "PENDING")

MarkDispatched(r) == pc[r] = "mark" /\ Mark(r, "DISPATCHED")
MarkFailed(r)     == pc[r] = "fail" /\ Mark(r, "FAILED")

\* A database error: mark_dispatched raises, or mark_failed does and the
\* whole drain is given up until the next poll.
MarkRaises(r) ==
    /\ pc[r] = "mark"
    /\ Disturb
    /\ Goto(r, "fail")
    /\ UNCHANGED <<status, batch, stopping, history>>

Abandon(r, label) ==
    /\ Disturb
    /\ Goto(r, label)
    /\ batch' = [batch EXCEPT ![r] = {}]
    /\ interrupted' = [interrupted EXCEPT ![r] = @ + 1]
    /\ UNCHANGED <<status, older, published>>

DrainRaises(r) == pc[r] = "fail" /\ Abandon(r, "wait") /\ UNCHANGED stopping

Crash(r) ==
    /\ pc[r] # "down"
    /\ Abandon(r, "down")
    /\ stopping' = [stopping EXCEPT ![r] = FALSE]

Drain(r) == List(r) \/ Publish(r) \/ MarkDispatched(r) \/ MarkFailed(r)

Next ==
    \/ \E e \in Entries : Add(e)
    \/ \E r \in Replicas :
          \/ Start(r) \/ Stop(r) \/ Exit(r) \/ Drain(r)
          \/ MarkRaises(r) \/ DrainRaises(r) \/ Crash(r)

Spec == Init /\ [][Next]_vars

\* A relay that has started goes on by itself, and a replica that is down is
\* started again by the platform (restart policy, minimum of one instance).
FairSpec ==
    Spec /\ \A r \in Replicas : WF_vars(Start(r) \/ Drain(r) \/ Exit(r))

-----------------------------------------------------------------------------
(***************************************************************************)
(* Properties.                                                             *)
(***************************************************************************)
WasPublished(e) == \E r \in Replicas : published[r][e] > 0
Marked(e) == status[e] \in {"DISPATCHED", "FAILED"}

\* An entry leaves the pending ones only after some replica has published it,
\* whatever crashes: this is the "at least once" of outbox_relay.py.  A FAILED
\* entry is one that could not be marked, and was published, too.
MarkedWasPublished == \A e \in Entries : Marked(e) => WasPublished(e)

\* A replica publishes an entry again only after one of its drains was cut
\* off; several replicas publish it once each at most when nothing goes wrong
\* (list_pending, then mark, without a claim in between).
DuplicatesHaveACause ==
    \A r \in Replicas, e \in Entries : published[r][e] <= 1 + interrupted[r]

\* No entry is published before an older one that was there when it was
\* added, by whichever replica (order_by created_at, limit 100).
PublishedInOrder ==
    \A e \in Entries : WasPublished(e) => \A f \in older[e] : WasPublished(f)

\* Marking races, but a marked entry never becomes pending again.
NeverPendingAgain == [][\A e \in Entries : Marked(e) => Marked(e)']_vars

\* Every entry added is published and marked in the end (the poll loop).
EveryEntryIsPublished ==
    \A e \in Entries : status[e] = "PENDING" ~> WasPublished(e) /\ Marked(e)

\* stop() returns: the drain under way ends, and the loop then sees the flag.
StopReturns == \A r \in Replicas : stopping[r] ~> pc[r] = "down"
=============================================================================
