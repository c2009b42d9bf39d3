------------------------------ MODULE Webhooks ------------------------------
(***************************************************************************)
(* services/webhook_service.py below the relay.  In OutboxRelay publishing *)
(* an entry is one step; here it is what the handler on the bus does: it   *)
(* takes a list of the subscriptions of its own process and delivers to    *)
(* those that want the event, one after the other, retrying with backoff,  *)
(* and dead-letters the ones it gives up.  At each request and each sleep  *)
(* the API of the process goes on: webhooks are registered, deleted and    *)
(* redriven.                                                               *)
(*                                                                         *)
(* A subscription is an object of the process that registered it; a        *)
(* process that ends forgets its subscriptions.  The bus of a process has  *)
(* no other handler, and a relay publishes one entry at a time, so that    *)
(* there is one delivery at a time in a process.  (redrive is never called *)
(* with an event to deliver again outside the tests.)                      *)
(***************************************************************************)
EXTENDS OutboxRelay, Sequences

CONSTANTS Hooks,        \* webhook ids
          Wants,        \* [Hooks -> SUBSET Entries]: what its event_types match
          MaxAttempts   \* attempts of one delivery (3)

ASSUME WebhooksAssumption ==
    Wants \in [Hooks -> SUBSET Entries] /\ MaxAttempts \in Nat \ {0}

VARIABLES items,      \* the repository of each process, in order of insertion
          used,       \* ids ever given out
          dead,       \* whether a subscription is dead-lettered
          failures,   \* its failure_count
          log,        \* its attempts_log
          queue,      \* what is left of a handler's list of subscriptions
          attempt,    \* attempt of the delivery under way; 0: no handler runs
          served,     \* history: subscriptions alive when the handler began
          before      \* history: entries there when one was registered

hooks == <<items, used, dead, failures, log, queue, attempt, served, before>>
wvars == <<status, pc, batch, stopping, older, published, interrupted, trouble,
           items, used, dead, failures, log, queue, attempt, served, before>>

Attempts == [entry : Entries, ok : BOOLEAN]

HooksTypeOK ==
    /\ items \in [Replicas -> Seq(Hooks)]
    /\ used \subseteq Hooks
    /\ dead \in [Hooks -> BOOLEAN]
    /\ failures \in [Hooks -> Nat]
    /\ log \in [Hooks -> Seq(Attempts)]
    /\ queue \in [Replicas -> Seq(Hooks)]
    /\ attempt \in [Replicas -> 0 .. MaxAttempts]
    /\ served \in [Replicas -> SUBSET Hooks]
    /\ before \in [Hooks -> SUBSET Entries]

HooksInit ==
    /\ items = [r \in Replicas |-> << >>]
    /\ used = {}
    /\ dead = [h \in Hooks |-> FALSE]
    /\ failures = [h \in Hooks |-> 0]
    /\ log = [h \in Hooks |-> << >>]
    /\ queue = [r \in Replicas |-> << >>]
    /\ attempt = [r \in Replicas |-> 0]
    /\ served = [r \in Replicas |-> {}]
    /\ before = [h \in Hooks |-> {}]

Listed(r) == {items[r][k] : k \in DOMAIN items[r]}
Registered == UNION {Listed(r) : r \in Replicas}

(***************************************************************************)
(* The API of a process, which is up while its relay is.                   *)
(***************************************************************************)
\* WebhookRepository.add, under a new id.
Register(r, h) ==
    /\ pc[r] # "down"
    /\ h \notin used
    /\ used' = used \cup {h}
    /\ items' = [items EXCEPT ![r] = Append(@, h)]
    /\ before' = [before EXCEPT ![h] = {e \in Entries : status[e] # "absent"}]
    /\ UNCHANGED <<vars, dead, failures, log, queue, attempt, served>>

\* A handler that runs has its own list, the one that was deleted included.
Delete(r, h) ==
    /\ \E k \in DOMAIN items[r] :
          /\ items[r][k] = h
          /\ items' = [items EXCEPT ![r] = SubSeq(@, 1, k - 1) \o SubSeq(@, k + 1, Len(@))]
    /\ UNCHANGED <<vars, used, dead, failures, log, queue, attempt, served, before>>

Redrive(r, h) ==
    /\ h \in Listed(r)
    /\ dead' = [dead EXCEPT ![h] = FALSE]
    /\ failures' = [failures EXCEPT ![h] = 0]
    /\ UNCHANGED <<vars, items, used, log, queue, attempt, served, before>>

(***************************************************************************)
(* on_event, while the relay waits in publish.  Subscriptions that do not  *)
(* want the event are passed over without an await.                        *)
(***************************************************************************)
WantsNow(h, e) == e \in Wants[h] /\ ~ dead[h]

\* queue[r] becomes the rest of q from the first subscription that wants e.
GoThrough(r, q, e) ==
    \E k \in 1 .. Len(q) + 1 :
       /\ \A j \in 1 .. k - 1 : ~ WantsNow(q[j], e)
       /\ k <= Len(q) => WantsNow(q[k], e)
       /\ queue' = [queue EXCEPT ![r] = SubSeq(q, k, Len(q))]

Handling(r) == pc[r] = "publish" /\ attempt[r] # 0
Delivering(r, h, e) ==
    Handling(r) /\ queue[r] # << >> /\ h = Head(queue[r]) /\ Current(r, e)

Begin(r) ==
    /\ pc[r] = "publish" /\ attempt[r] = 0
    /\ \E e \in Entries :
          /\ Current(r, e)
          /\ GoThrough(r, items[r], e)
          /\ served' = [served EXCEPT ![r] = {h \in Listed(r) : WantsNow(h, e)}]
    /\ attempt' = [attempt EXCEPT ![r] = 1]
    /\ UNCHANGED <<vars, items, used, dead, failures, log, before>>

Logged(h, e, ok) == log' = [log EXCEPT ![h] = Append(@, [entry |-> e, ok |-> ok])]
ToNext(r, e) ==
    /\ GoThrough(r, Tail(queue[r]), e)
    /\ attempt' = [attempt EXCEPT ![r] = 1]

\* The endpoint answers with less than 400.
Accepted(r) ==
    \E h \in Hooks, e \in Entries :
       /\ Delivering(r, h, e)
       /\ Logged(h, e, TRUE)
       /\ ToNext(r, e)
       /\ UNCHANGED <<vars, items, used, dead, failures, served, before>>

\* It answers otherwise, or not in time; the handler sleeps and tries again.
Refused(r) ==
    \E h \in Hooks, e \in Entries :
       /\ Delivering(r, h, e)
       /\ attempt[r] < MaxAttempts
       /\ Logged(h, e, FALSE)
       /\ failures' = [failures EXCEPT ![h] = @ + 1]
       /\ attempt' = [attempt EXCEPT ![r] = @ + 1]
       /\ UNCHANGED <<vars, items, used, dead, queue, served, before>>

\* Mutant: the subscription is given up one attempt early.
GivenUpEarly(r) ==
    \E h \in Hooks, e \in Entries :
       /\ Delivering(r, h, e)
       /\ attempt[r] >= MaxAttempts - 1
       /\ Logged(h, e, FALSE)
       /\ failures' = [failures EXCEPT ![h] = @ + 1]
       /\ dead' = [dead EXCEPT ![h] = TRUE]
       /\ ToNext(r, e)
       /\ UNCHANGED <<vars, items, used, served, before>>

\* Mutant: giving up raises, and the bus catches it with the rest undelivered.
GivenUpRaises(r) ==
    \E h \in Hooks, e \in Entries :
       /\ Delivering(r, h, e)
       /\ attempt[r] = MaxAttempts
       /\ Logged(h, e, FALSE)
       /\ failures' = [failures EXCEPT ![h] = @ + 1]
       /\ dead' = [dead EXCEPT ![h] = TRUE]
       /\ queue' = [queue EXCEPT ![r] = << >>]
       /\ UNCHANGED <<vars, items, used, attempt, served, before>>

\* It does for the last time.
GivenUp(r) ==
    \E h \in Hooks, e \in Entries :
       /\ Delivering(r, h, e)
       /\ attempt[r] = MaxAttempts
       /\ Logged(h, e, FALSE)
       /\ failures' = [failures EXCEPT ![h] = @ + 1]
       /\ dead' = [dead EXCEPT ![h] = TRUE]
       /\ ToNext(r, e)
       /\ UNCHANGED <<vars, items, used, served, before>>

Deliver(r) == Begin(r) \/ Accepted(r) \/ Refused(r) \/ GivenUp(r)

(***************************************************************************)
(* The relay, around its handler.                                          *)
(***************************************************************************)
\* publish returns when the handler has gone through its list.
PublishHandled(r) ==
    /\ Handling(r) /\ queue[r] = << >>
    /\ Publish(r)
    /\ attempt' = [attempt EXCEPT ![r] = 0]
    /\ served' = [served EXCEPT ![r] = {}]
    /\ UNCHANGED <<items, used, dead, failures, log, queue, before>>

\* A process that ends takes its subscriptions along.
Forget(r) ==
    /\ items' = [items EXCEPT ![r] = << >>]
    /\ queue' = [queue EXCEPT ![r] = << >>]
    /\ attempt' = [attempt EXCEPT ![r] = 0]
    /\ served' = [served EXCEPT ![r] = {}]
    /\ UNCHANGED <<used, dead, failures, log, before>>

Loop(r) ==
    \/ (Start(r) \/ List(r) \/ MarkDispatched(r) \/ MarkFailed(r)) /\ UNCHANGED hooks
    \/ Deliver(r) \/ PublishHandled(r)
    \/ Exit(r) /\ Forget(r)

WNext ==
    \/ \E e \in Entries : Add(e) /\ UNCHANGED hooks
    \/ \E r \in Replicas :
          \/ Loop(r)
          \/ (Stop(r) \/ MarkRaises(r) \/ DrainRaises(r)) /\ UNCHANGED hooks
          \/ Crash(r) /\ Forget(r)
          \/ \E h \in Hooks : Register(r, h) \/ Delete(r, h) \/ Redrive(r, h)

WSpec == Init /\ HooksInit /\ [][WNext]_wvars

-----------------------------------------------------------------------------
(***************************************************************************)
(* Properties.                                                             *)
(***************************************************************************)
\* The attempt numbered k in the log, and the ones before it, failed on e.
AllFailed(h, e, k) ==
    /\ k >= MaxAttempts
    /\ \A j \in k - MaxAttempts + 1 .. k : log[h][j] = [entry |-> e, ok |-> FALSE]

Accepts(h, e) == {k \in DOMAIN log[h] : log[h][k] = [entry |-> e, ok |-> TRUE]}
WasGivenUp(h, e) == \E k \in DOMAIN log[h] : AllFailed(h, e, k)

\* A subscription is dead-lettered only after all the attempts of a delivery
\* failed, one after the other, and nothing was delivered since, whatever is
\* redriven or deleted during the backoff (_deliver_with_retry).
DeadLetteredAfterFailures ==
    \A h \in Hooks : dead[h] => \E e \in Entries : AllFailed(h, e, Len(log[h]))

\* A dead-lettered subscription receives nothing until it is redriven (wants,
\* and the list on_event works on).
SilentUntilRedriven == [][\A h \in Hooks : dead[h] => log'[h] = log[h]]_wvars

\* When publish returns, every subscription that was alive and wanted the
\* event when the handler began has had it, or all the attempts for it have
\* failed: no other subscription's failure, deletion or redrive gets in the
\* way (on_event, _deliver_with_retry).
EveryoneIsServed ==
    [][\A r \in Replicas, e \in Entries :
          Current(r, e) /\ pc[r] = "publish" /\ pc'[r] = "mark" =>
             \A h \in served[r] : Accepts(h, e) # {} \/ WasGivenUp(h, e)]_wvars

\* A subscription never hears of an entry after a later one, retries, errors
\* of the relay and other replicas included (list_pending, drain_once, and
\* handlers that are awaited).
DeliveredInOrder ==
    \A h \in Hooks : \A k \in DOMAIN log[h] : \A j \in 1 .. k - 1 :
        log[h][k].entry \notin older[log[h][j].entry]

(***************************************************************************)
(* What the documentation promises.                                        *)
(***************************************************************************)

\* docs/ARCHITECTURE.md and USER_GUIDE.md on the outbox: an entry that was
\* marked was delivered at least once to every subscription that was there
\* before it, is still registered, and was never given up.
DeliveredAtLeastOnce ==
    \A e \in Entries : Marked(e) =>
        \A h \in Registered :
            e \in Wants[h] \ before[h] =>
                Accepts(h, e) # {} \/ \E f \in Entries : WasGivenUp(h, f)
=============================================================================
