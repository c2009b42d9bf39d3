--------------------------- MODULE DeliveryProofs ---------------------------
(***************************************************************************)
(* The relay, for any number of entries, replicas, crashes and database    *)
(* errors: an entry is marked only after it was published, and a replica   *)
(* publishes it once more only after one of its drains was cut off.  The   *)
(* invariant is strengthened with what a drain under way knows of its      *)
(* batch.                                                                  *)
(*                                                                         *)
(* The webhooks, for any number of entries, replicas, subscriptions and    *)
(* attempts: the relays below them are those of OutboxRelay, a             *)
(* subscription is dead-lettered only after its failures and silent until  *)
(* it is redriven, everyone is served, and in order.  Two invariants are   *)
(* added to IInv, the one of the relays: what a handler knows of its list  *)
(* and of the attempts behind it, and what a delivery says of the older    *)
(* entries.                                                                *)
(***************************************************************************)
EXTENDS Webhooks, FiniteSetTheorems, SequenceTheorems, TLAPS

\* The entries of its batch that a replica has yet to publish.
ToPublish(r) ==
    {e \in batch[r] : ~ (pc[r] \in {"mark", "fail"} /\ Current(r, e))}

\* What is absent is in no batch, and nobody has published it.
BatchesWereAdded ==
    \A r \in Replicas, e \in Entries :
        status[e] = "absent" => e \notin batch[r] /\ published[r][e] = 0

\* A relay between a publish and a mark has published its current entry.
CurrentWasPublished ==
    \A r \in Replicas, e \in Entries :
        pc[r] \in {"mark", "fail"} /\ Current(r, e) => published[r][e] > 0

\* What a replica has yet to publish, or might list again, it has published
\* only in drains that were cut off.
NotInThisDrain ==
    \A r \in Replicas, e \in Entries :
        (e \in ToPublish(r) \/ (status[e] = "PENDING" /\ e \notin batch[r]))
            => published[r][e] <= interrupted[r]

\* An entry in a batch comes with the older ones that were there before it,
\* except those that were published.
BatchesAreInOrder ==
    \A r \in Replicas : \A e \in batch[r] : \A f \in older[e] :
        f \in batch[r] \/ WasPublished(f)

\* What was there before an entry is older, and was added.
OlderWasAdded ==
    \A e \in Entries : \A f \in older[e] : f < e /\ status[f] # "absent"

IInv ==
    /\ TypeOK
    /\ MarkedWasPublished
    /\ DuplicatesHaveACause
    /\ BatchesWereAdded
    /\ CurrentWasPublished
    /\ NotInThisDrain
    /\ OlderWasAdded
    /\ BatchesAreInOrder
    /\ PublishedInOrder

-----------------------------------------------------------------------------
(***************************************************************************)
(* Lemmas.                                                                 *)
(***************************************************************************)

\* A batch has one current entry at most.
LEMMA CurrentIsUnique ==
  ASSUME NEW r \in Replicas, NEW e \in Entries, NEW f \in Entries,
         Current(r, e), Current(r, f)
  PROVE  e = f
BY DEF Current, Entries

\* What is listed is closed under older pending entries.
LEMMA OldestIsClosed ==
  ASSUME NEW e \in Oldest(Pending), NEW f \in Pending, f < e
  PROVE  f \in Oldest(Pending)
<1> DEFINE below(x) == {g \in Pending : g < x}
<1>1. e \in Entries /\ f \in Entries /\ Pending \subseteq Entries
  BY DEF Oldest, Pending
<1>2. IsFiniteSet(Entries)
  BY RelayAssumption, FS_Interval DEF Entries
<1>3. IsFiniteSet(below(e)) /\ below(f) \subseteq below(e)
  <2>1. below(e) \subseteq Entries
    BY <1>1
  <2>2. \A g \in Pending : g < f => g < e
    BY <1>1, RelayAssumption DEF Entries
  <2>3. below(f) \subseteq below(e)
    BY <2>2
  <2> QED
    BY <1>2, <2>1, <2>3, FS_Subset
<1>4. /\ Cardinality(below(f)) \in Nat /\ Cardinality(below(e)) \in Nat
      /\ Cardinality(below(f)) <= Cardinality(below(e))
  BY <1>3, FS_Subset, FS_CardinalityType
<1>5. Cardinality(below(e)) < Limit
  BY DEF Oldest
<1> QED
  BY <1>4, <1>5, RelayAssumption DEF Oldest

\* Nothing the invariant speaks of changes when a relay is started or
\* stopped, or goes from marking to marking as failed.
LEMMA QuietStep ==
  ASSUME IInv, TypeOK', UNCHANGED <<status, batch, older, published, interrupted>>,
         \A r \in Replicas : pc'[r] \in {"mark", "fail"} <=> pc[r] \in {"mark", "fail"}
  PROVE  IInv'
<1>1. MarkedWasPublished' /\ DuplicatesHaveACause' /\ BatchesWereAdded'
  BY DEF IInv, MarkedWasPublished, Marked, WasPublished, DuplicatesHaveACause,
         BatchesWereAdded
<1>2. CurrentWasPublished'
  BY DEF IInv, CurrentWasPublished, Current
<1>3. NotInThisDrain'
  BY DEF IInv, NotInThisDrain, ToPublish, Current
<1>4. OlderWasAdded' /\ BatchesAreInOrder' /\ PublishedInOrder'
  BY DEF IInv, OlderWasAdded, BatchesAreInOrder, PublishedInOrder, WasPublished
<1> QED
  BY <1>1, <1>2, <1>3, <1>4 DEF IInv

LEMMA AddKeepsIInv ==
  ASSUME IInv, NEW e \in Entries, Add(e)
  PROVE  IInv'
<1>1. /\ status[e] = "absent" /\ status' = [status EXCEPT ![e] = "PENDING"]
      /\ older' = [older EXCEPT ![e] = {f \in Entries : f < e /\ status[f] # "absent"}]
      /\ UNCHANGED <<pc, batch, stopping, published, interrupted, trouble>>
  BY DEF Add, relay
<1>2. TypeOK'
  BY <1>1 DEF IInv, TypeOK, Statuses
<1>3. MarkedWasPublished' /\ DuplicatesHaveACause' /\ BatchesWereAdded'
  BY <1>1 DEF IInv, TypeOK, MarkedWasPublished, Marked, WasPublished,
              DuplicatesHaveACause, BatchesWereAdded
<1>4. CurrentWasPublished'
  BY <1>1 DEF IInv, CurrentWasPublished, Current
<1>5. NotInThisDrain'
  <2> SUFFICES ASSUME NEW r \in Replicas, NEW f \in Entries,
                      f \in ToPublish(r)' \/ (status'[f] = "PENDING" /\ f \notin batch[r])
               PROVE  published[r][f] <= interrupted[r]
    BY <1>1 DEF NotInThisDrain
  <2>1. CASE f = e
    <3>1. published[r][f] = 0 /\ interrupted[r] \in Nat
      BY <1>1, <2>1 DEF IInv, BatchesWereAdded, TypeOK
    <3> QED
      BY <3>1
  <2>2. CASE f # e
    <3>1. f \in ToPublish(r) \/ (status[f] = "PENDING" /\ f \notin batch[r])
      BY <1>1, <2>2 DEF ToPublish, Current, IInv, TypeOK
    <3> QED
      BY <3>1 DEF IInv, NotInThisDrain
  <2> QED
    BY <2>1, <2>2
<1>6. OlderWasAdded'
  BY <1>1 DEF IInv, TypeOK, OlderWasAdded
<1>7. BatchesAreInOrder' /\ PublishedInOrder'
  <2>1. \A r \in Replicas : e \notin batch[r]
    BY <1>1 DEF IInv, BatchesWereAdded
  <2>2. ~ WasPublished(e)
    BY <1>1 DEF IInv, BatchesWereAdded, WasPublished
  <2>3. \A f \in Entries : f # e => older'[f] = older[f]
    BY <1>1 DEF IInv, TypeOK
  <2>4. \A f \in Entries : WasPublished(f)' <=> WasPublished(f)
    BY <1>1 DEF WasPublished
  <2> QED
    BY <1>1, <2>1, <2>2, <2>3, <2>4
       DEF IInv, TypeOK, BatchesAreInOrder, PublishedInOrder
<1> QED
  BY <1>2, <1>3, <1>4, <1>5, <1>6, <1>7 DEF IInv

\* What is listed is pending, so nothing in the new batch was published in a
\* drain that was not cut off.
LEMMA ListKeepsIInv ==
  ASSUME IInv, NEW r \in Replicas, List(r)
  PROVE  IInv'
<1> DEFINE listed == Oldest(Pending)
<1>1. /\ pc[r] = "wait" /\ pc' = [pc EXCEPT ![r] = "publish"]
      /\ batch' = [batch EXCEPT ![r] = listed]
      /\ UNCHANGED <<status, stopping, older, published, interrupted, trouble>>
  BY DEF List, Goto, history
<1>2. listed \in SUBSET Entries /\ \A e \in listed : status[e] = "PENDING"
  BY DEF Oldest, Pending
<1>0. \A e \in listed, f \in Pending : f < e => f \in listed
  BY OldestIsClosed
<1> HIDE DEF listed
<1>3. TypeOK'
  BY <1>1, <1>2 DEF IInv, TypeOK, Pcs
<1>4. MarkedWasPublished' /\ DuplicatesHaveACause' /\ BatchesWereAdded'
  BY <1>1, <1>2 DEF IInv, TypeOK, MarkedWasPublished, Marked, WasPublished,
                    DuplicatesHaveACause, BatchesWereAdded
<1>5. CurrentWasPublished'
  BY <1>1 DEF IInv, TypeOK, CurrentWasPublished, Current
<1>6. NotInThisDrain'
  <2> SUFFICES ASSUME NEW q \in Replicas, NEW e \in Entries,
                      e \in ToPublish(q)' \/ (status[e] = "PENDING" /\ e \notin batch'[q])
               PROVE  published[q][e] <= interrupted[q]
    BY <1>1 DEF NotInThisDrain
  <2>1. e \in ToPublish(q) \/ (status[e] = "PENDING" /\ e \notin batch[q])
    <3>1. CASE q = r
      BY <1>1, <1>2, <3>1 DEF ToPublish, Current, IInv, TypeOK
    <3>2. CASE q # r
      BY <1>1, <3>2 DEF ToPublish, Current, IInv, TypeOK
    <3> QED
      BY <3>1, <3>2
  <2> QED
    BY <2>1 DEF IInv, NotInThisDrain
<1>7. OlderWasAdded' /\ PublishedInOrder'
  BY <1>1 DEF IInv, OlderWasAdded, PublishedInOrder, WasPublished
<1>8. BatchesAreInOrder'
  <2> SUFFICES ASSUME NEW q \in Replicas, NEW e \in batch'[q], NEW f \in older[e]
               PROVE  f \in batch'[q] \/ WasPublished(f)
    BY <1>1 DEF BatchesAreInOrder, WasPublished
  <2>1. CASE q = r
    <3>1. e \in listed /\ e \in Entries /\ batch'[q] = listed
      BY <1>1, <1>2, <2>1 DEF IInv, TypeOK
    <3>2. f \in Entries /\ f < e /\ status[f] # "absent"
      BY <3>1 DEF IInv, TypeOK, OlderWasAdded
    <3>3. CASE status[f] = "PENDING"
      BY <1>0, <3>1, <3>2, <3>3 DEF Pending
    <3>4. CASE status[f] # "PENDING"
      <4>1. Marked(f)
        BY <3>2, <3>4 DEF IInv, TypeOK, Statuses, Marked
      <4> QED
        BY <3>2, <4>1 DEF IInv, MarkedWasPublished
    <3> QED
      BY <3>3, <3>4
  <2>2. CASE q # r
    BY <1>1, <2>2 DEF IInv, TypeOK, BatchesAreInOrder
  <2> QED
    BY <2>1, <2>2
<1> QED
  BY <1>3, <1>4, <1>5, <1>6, <1>7, <1>8 DEF IInv

\* The current entry of a batch was not published yet in this drain, and is
\* the only one that is now.
LEMMA PublishKeepsIInv ==
  ASSUME IInv, NEW r \in Replicas, Publish(r)
  PROVE  IInv'
<1>1. PICK e \in Entries :
        /\ Current(r, e)
        /\ published' = [published EXCEPT ![r][e] = @ + 1]
  BY DEF Publish
<1>2. /\ pc[r] = "publish" /\ pc' = [pc EXCEPT ![r] = "mark"]
      /\ UNCHANGED <<status, batch, stopping, older, interrupted, trouble>>
  BY DEF Publish, Goto
<1>3. published \in [Replicas -> [Entries -> Nat]] /\ interrupted \in [Replicas -> Nat]
  BY DEF IInv, TypeOK
<1>4. /\ published' \in [Replicas -> [Entries -> Nat]]
      /\ \A q \in Replicas, f \in Entries :
            published'[q][f] = IF q = r /\ f = e THEN published[q][f] + 1
                                                 ELSE published[q][f]
  BY <1>1, <1>3
<1>5. TypeOK'
  BY <1>2, <1>4 DEF IInv, TypeOK, Pcs
<1>6. MarkedWasPublished'
  BY <1>2, <1>3, <1>4 DEF IInv, MarkedWasPublished, Marked, WasPublished
<1>7. published[r][e] <= interrupted[r]
  BY <1>1, <1>2 DEF IInv, NotInThisDrain, ToPublish, Current
<1>8. DuplicatesHaveACause'
  BY <1>2, <1>3, <1>4, <1>7 DEF IInv, DuplicatesHaveACause
<1>9. BatchesWereAdded'
  BY <1>1, <1>2, <1>4 DEF IInv, BatchesWereAdded, Current
<1>10. CurrentWasPublished'
  <2> SUFFICES ASSUME NEW q \in Replicas, NEW f \in Entries,
                      pc'[q] \in {"mark", "fail"}, Current(q, f)
               PROVE  published'[q][f] > 0
    BY <1>2 DEF CurrentWasPublished, Current
  <2>1. CASE q = r
    <3>1. f = e
      BY <1>1, <2>1, CurrentIsUnique
    <3> QED
      BY <1>3, <1>4, <2>1, <3>1
  <2>2. CASE q # r
    <3>1. published[q][f] > 0
      BY <1>2, <2>2 DEF IInv, TypeOK, CurrentWasPublished
    <3> QED
      BY <1>4, <2>2, <3>1
  <2> QED
    BY <2>1, <2>2
<1>11. NotInThisDrain'
  <2> SUFFICES ASSUME NEW q \in Replicas, NEW f \in Entries,
                      f \in ToPublish(q)' \/ (status[f] = "PENDING" /\ f \notin batch[q])
               PROVE  published'[q][f] <= interrupted[q]
    BY <1>2 DEF NotInThisDrain
  <2>1. f \in ToPublish(q) \/ (status[f] = "PENDING" /\ f \notin batch[q])
    BY <1>2 DEF ToPublish, Current, IInv, TypeOK
  <2>2. published[q][f] <= interrupted[q]
    BY <2>1 DEF IInv, NotInThisDrain
  <2>3. ~ (q = r /\ f = e)
    BY <1>1, <1>2 DEF ToPublish, Current, IInv, TypeOK
  <2> QED
    BY <1>4, <2>2, <2>3
<1>12. \A f \in Entries :
         /\ (\E q \in Replicas : published[q][f] > 0) =>
                \E q \in Replicas : published'[q][f] > 0
         /\ (\E q \in Replicas : published'[q][f] > 0) =>
                f = e \/ \E q \in Replicas : published[q][f] > 0
  BY <1>3, <1>4
<1>13. OlderWasAdded' /\ BatchesAreInOrder'
  BY <1>2, <1>12 DEF IInv, TypeOK, OlderWasAdded, BatchesAreInOrder, WasPublished
<1>14. PublishedInOrder'
  <2>1. \A f \in older[e] : f \in Entries /\ f < e /\ (f \in batch[r] \/ WasPublished(f))
    BY <1>1 DEF IInv, TypeOK, OlderWasAdded, BatchesAreInOrder, Current
  <2>2. \A f \in older[e] : WasPublished(f)
    BY <1>1, <2>1 DEF Current, Entries
  <2> QED
    BY <1>2, <1>12, <2>2 DEF IInv, TypeOK, PublishedInOrder, WasPublished
<1> QED
  BY <1>5, <1>6, <1>8, <1>9, <1>10, <1>11, <1>13, <1>14 DEF IInv

\* Marking is of the current entry, which was published.
LEMMA MarkKeepsIInv ==
  ASSUME IInv, NEW r \in Replicas, NEW s \in {"DISPATCHED", "FAILED"},
         pc[r] \in {"mark", "fail"}, Mark(r, s)
  PROVE  IInv'
<1>1. PICK e \in Entries :
        /\ Current(r, e)
        /\ status' = [status EXCEPT ![e] = s]
        /\ batch' = [batch EXCEPT ![r] = @ \ {e}]
  BY DEF Mark
<1>2. /\ pc' = [pc EXCEPT ![r] = IF batch'[r] = {} THEN "wait" ELSE "publish"]
      /\ UNCHANGED <<stopping, older, published, interrupted, trouble>>
  BY DEF Mark, Goto, history
<1>3. TypeOK'
  BY <1>1, <1>2 DEF IInv, TypeOK, Statuses, Pcs
<1>4. published[r][e] > 0
  BY <1>1 DEF IInv, CurrentWasPublished
<1>5. MarkedWasPublished'
  <2> SUFFICES ASSUME NEW f \in Entries, Marked(f)'
               PROVE  WasPublished(f)
    BY <1>2 DEF MarkedWasPublished, WasPublished
  <2>1. CASE f = e
    BY <1>4, <2>1 DEF WasPublished
  <2>2. CASE f # e
    BY <1>1, <2>2 DEF IInv, TypeOK, MarkedWasPublished, Marked
  <2> QED
    BY <2>1, <2>2
<1>6. DuplicatesHaveACause'
  BY <1>2 DEF IInv, DuplicatesHaveACause
<1>7. BatchesWereAdded'
  BY <1>1, <1>2 DEF IInv, TypeOK, BatchesWereAdded
<1>8. \A q \in Replicas : q # r => batch'[q] = batch[q] /\ pc'[q] = pc[q]
  BY <1>1, <1>2 DEF IInv, TypeOK
<1>9. /\ batch'[r] = batch[r] \ {e} /\ pc'[r] \notin {"mark", "fail"}
      /\ \A f \in Entries : status'[f] = "PENDING" => f # e /\ status[f] = "PENDING"
  BY <1>1, <1>2 DEF IInv, TypeOK
<1>10. CurrentWasPublished'
  BY <1>2, <1>8, <1>9 DEF IInv, CurrentWasPublished, Current
<1>11. NotInThisDrain'
  <2> SUFFICES ASSUME NEW q \in Replicas, NEW f \in Entries,
                      f \in ToPublish(q)' \/ (status'[f] = "PENDING" /\ f \notin batch'[q])
               PROVE  published[q][f] <= interrupted[q]
    BY <1>2 DEF NotInThisDrain
  <2>1. f \in ToPublish(q) \/ (status[f] = "PENDING" /\ f \notin batch[q])
    <3>1. CASE q = r
      <4>1. f # e
        BY <1>9, <3>1 DEF ToPublish
      <4>2. ~ Current(r, f)
        BY <1>1, <4>1, CurrentIsUnique
      <4> QED
        BY <1>9, <3>1, <4>1, <4>2 DEF ToPublish
    <3>2. CASE q # r
      BY <1>8, <1>9, <3>2 DEF ToPublish, Current
    <3> QED
      BY <3>1, <3>2
  <2> QED
    BY <2>1 DEF IInv, NotInThisDrain
<1>12. OlderWasAdded' /\ PublishedInOrder'
  BY <1>1, <1>2 DEF IInv, TypeOK, OlderWasAdded, PublishedInOrder, WasPublished
<1>13. BatchesAreInOrder'
  <2>1. WasPublished(e)
    BY <1>4 DEF WasPublished
  <2> QED
    BY <1>2, <1>8, <1>9, <2>1 DEF IInv, BatchesAreInOrder, WasPublished
<1> QED
  BY <1>3, <1>5, <1>6, <1>7, <1>10, <1>11, <1>12, <1>13 DEF IInv

\* A drain that is cut off is counted, so that what it has published and not
\* marked may be published once more.
LEMMA AbandonKeepsIInv ==
  ASSUME IInv, NEW r \in Replicas, NEW label \in {"wait", "down"},
         Abandon(r, label), stopping' \in [Replicas -> BOOLEAN]
  PROVE  IInv'
<1>1. /\ trouble < MaxTrouble /\ trouble' = trouble + 1
      /\ pc' = [pc EXCEPT ![r] = label]
      /\ batch' = [batch EXCEPT ![r] = {}]
      /\ interrupted' = [interrupted EXCEPT ![r] = @ + 1]
      /\ UNCHANGED <<status, older, published>>
  BY DEF Abandon, Disturb, Goto
<1>2. TypeOK'
  BY <1>1, RelayAssumption DEF IInv, TypeOK, Pcs
<1>3. MarkedWasPublished' /\ BatchesWereAdded'
  BY <1>1 DEF IInv, TypeOK, MarkedWasPublished, Marked, WasPublished, BatchesWereAdded
<1>4. /\ published \in [Replicas -> [Entries -> Nat]]
      /\ \A q \in Replicas : /\ interrupted[q] \in Nat
                             /\ interrupted'[q] = interrupted[q] + IF q = r THEN 1 ELSE 0
  BY <1>1 DEF IInv, TypeOK
<1>5. DuplicatesHaveACause'
  BY <1>1, <1>4 DEF IInv, DuplicatesHaveACause
<1>6. \A q \in Replicas : q # r => batch'[q] = batch[q] /\ pc'[q] = pc[q]
  BY <1>1 DEF IInv, TypeOK
<1>7. batch'[r] = {} /\ pc'[r] \notin {"mark", "fail"}
  BY <1>1 DEF IInv, TypeOK
<1>8. CurrentWasPublished'
  BY <1>1, <1>6, <1>7 DEF IInv, CurrentWasPublished, Current
<1>9. NotInThisDrain'
  <2> SUFFICES ASSUME NEW q \in Replicas, NEW f \in Entries,
                      f \in ToPublish(q)' \/ (status[f] = "PENDING" /\ f \notin batch'[q])
               PROVE  published[q][f] <= interrupted'[q]
    BY <1>1 DEF NotInThisDrain
  <2>1. CASE q = r
    BY <1>4, <2>1 DEF IInv, DuplicatesHaveACause
  <2>2. CASE q # r
    <3>1. f \in ToPublish(q) \/ (status[f] = "PENDING" /\ f \notin batch[q])
      BY <1>6, <2>2 DEF ToPublish, Current
    <3> QED
      BY <1>4, <2>2, <3>1 DEF IInv, NotInThisDrain
  <2> QED
    BY <2>1, <2>2
<1>10. OlderWasAdded' /\ PublishedInOrder'
  BY <1>1 DEF IInv, OlderWasAdded, PublishedInOrder, WasPublished
<1>11. BatchesAreInOrder'
  BY <1>1, <1>6, <1>7 DEF IInv, BatchesAreInOrder, WasPublished
<1> QED
  BY <1>2, <1>3, <1>5, <1>8, <1>9, <1>10, <1>11 DEF IInv

-----------------------------------------------------------------------------
(***************************************************************************)
(* The theorems.                                                           *)
(***************************************************************************)

\* The strengthened invariant holds initially and is kept by every step.
LEMMA IInvInductive ==
  /\ Init => IInv
  /\ IInv /\ [Next]_vars => IInv'
<1>1. ASSUME Init
      PROVE  IInv
  BY <1>1, RelayAssumption
     DEF Init, IInv, TypeOK, Statuses, Pcs, MarkedWasPublished, Marked,
         DuplicatesHaveACause, BatchesWereAdded, CurrentWasPublished, NotInThisDrain, ToPublish,
         OlderWasAdded, BatchesAreInOrder, PublishedInOrder, WasPublished
<1>2. ASSUME IInv, NEW r \in Replicas, Start(r) \/ Stop(r) \/ Exit(r) \/ MarkRaises(r)
      PROVE  IInv'
  <2>1. UNCHANGED <<status, batch, older, published, interrupted>>
    BY <1>2 DEF Start, Stop, Exit, MarkRaises, history
  <2>2. TypeOK'
    <3>1. trouble' \in 0 .. MaxTrouble
      BY <1>2, RelayAssumption
         DEF IInv, TypeOK, Start, Stop, Exit, MarkRaises, Disturb
    <3>2. pc' \in [Replicas -> Pcs] /\ stopping' \in [Replicas -> BOOLEAN]
      BY <1>2 DEF IInv, TypeOK, Pcs, Start, Stop, Exit, MarkRaises, Goto
    <3> QED
      BY <1>2, <2>1, <3>1, <3>2 DEF IInv, TypeOK
  <2>3. \A q \in Replicas : pc'[q] \in {"mark", "fail"} <=> pc[q] \in {"mark", "fail"}
    BY <1>2 DEF IInv, TypeOK, Start, Stop, Exit, MarkRaises, Goto
  <2> QED
    BY <1>2, <2>1, <2>2, <2>3, QuietStep
<1>3. ASSUME IInv, NEW r \in Replicas, DrainRaises(r) \/ Crash(r)
      PROVE  IInv'
  <2>1. stopping' \in [Replicas -> BOOLEAN]
    BY <1>3 DEF IInv, TypeOK, DrainRaises, Crash
  <2> QED
    BY <1>3, <2>1, AbandonKeepsIInv DEF DrainRaises, Crash
<1>4. ASSUME IInv, NEW r \in Replicas, Drain(r)
      PROVE  IInv'
  BY <1>4, ListKeepsIInv, PublishKeepsIInv, MarkKeepsIInv
     DEF Drain, MarkDispatched, MarkFailed
<1>5. ASSUME IInv, UNCHANGED vars
      PROVE  IInv'
  <2>1. /\ UNCHANGED <<status, pc, batch, older, published, interrupted>>
        /\ TypeOK'
    BY <1>5 DEF vars, IInv, TypeOK
  <2> QED
    BY <1>5, <2>1, QuietStep
<1> QED
  BY <1>1, <1>2, <1>3, <1>4, <1>5, AddKeepsIInv DEF Next

\* Every behaviour of the relays keeps the strengthened invariant.
THEOREM RelayInvariant == Spec => []IInv
BY IInvInductive, PTL DEF Spec

\* At least once: a marked entry was published, for any number of replicas,
\* crashes and database errors.
THEOREM RelayMarkedWasPublished == Spec => []MarkedWasPublished
<1>1. IInv => MarkedWasPublished
  BY DEF IInv
<1> QED
  BY <1>1, RelayInvariant, PTL

\* A replica repeats itself only after a drain that was cut off.
THEOREM RelayDuplicatesHaveACause == Spec => []DuplicatesHaveACause
<1>1. IInv => DuplicatesHaveACause
  BY DEF IInv
<1> QED
  BY <1>1, RelayInvariant, PTL

\* Entries are published in order, whatever batches two replicas get.
THEOREM RelayPublishedInOrder == Spec => []PublishedInOrder
<1>1. IInv => PublishedInOrder
  BY DEF IInv
<1> QED
  BY <1>1, RelayInvariant, PTL

\* No step takes a mark away.
LEMMA MarkedForGood ==
  ASSUME IInv, [Next]_vars, NEW e \in Entries, Marked(e)
  PROVE  Marked(e)'
<1>1. status \in [Entries -> Statuses]
  BY DEF IInv, TypeOK
<1>2. CASE \E f \in Entries : Add(f)
  BY <1>1, <1>2 DEF Add, Marked
<1>3. CASE \E r \in Replicas : MarkDispatched(r) \/ MarkFailed(r)
  BY <1>1, <1>3 DEF MarkDispatched, MarkFailed, Mark, Marked
<1>4. CASE UNCHANGED status
  BY <1>4 DEF Marked
<1> QED
  BY <1>2, <1>3, <1>4 DEF Next, Drain, Start, Stop, Exit, List, Publish,
     MarkRaises, DrainRaises, Crash, Abandon, vars

\* A marked entry never becomes pending again.
THEOREM RelayNeverPendingAgain == Spec => NeverPendingAgain
<1>1. IInv /\ [Next]_vars => [\A e \in Entries : Marked(e) => Marked(e)']_vars
  BY MarkedForGood
<1> QED
  BY <1>1, RelayInvariant, PTL DEF Spec, NeverPendingAgain

-----------------------------------------------------------------------------
Members(s) == {s[k] : k \in DOMAIN s}
NoRepeats(s) == \A j, k \in DOMAIN s : s[j] = s[k] => j = k

\* The subscriptions a process can deliver to.
Own(r) == Members(items[r]) \cup Members(queue[r])

\* The last n attempts in the log failed on e.
Trailing(h, e, n) ==
    /\ n <= Len(log[h])
    /\ \A j \in Len(log[h]) - n + 1 .. Len(log[h]) :
          log[h][j] = [entry |-> e, ok |-> FALSE]

\* A subscription is in one process, once in each of its lists.
OwnedOnce ==
    \A r \in Replicas :
        /\ NoRepeats(items[r]) /\ NoRepeats(queue[r])
        /\ Own(r) \subseteq used
        /\ \A s \in Replicas \ {r} : Own(r) \cap Own(s) = {}

\* A handler runs while its relay waits in publish, and only then has a list.
HandlersPublish ==
    \A r \in Replicas :
        /\ attempt[r] # 0 => pc[r] = "publish"
        /\ queue[r] # << >> => attempt[r] # 0

\* The one delivered to was not given up, and has refused the event as often
\* as it was attempted before.
DeliveryUnderWay ==
    \A r \in Replicas : queue[r] # << >> =>
        /\ ~ dead[Head(queue[r])]
        /\ \A e \in Entries :
              Current(r, e) => Trailing(Head(queue[r]), e, attempt[r] - 1)

Had(h, e) == Accepts(h, e) # {} \/ WasGivenUp(h, e)

\* Who was alive when the handler began has had the event or is in its list,
\* and alive.
ServedOrWaiting ==
    \A r \in Replicas, e \in Entries : attempt[r] # 0 /\ Current(r, e) =>
        \A h \in served[r] :
            Had(h, e) \/ (h \in Members(queue[r]) /\ WantsNow(h, e))

HInv ==
    /\ HooksTypeOK
    /\ OwnedOnce
    /\ HandlersPublish
    /\ DeliveryUnderWay
    /\ ServedOrWaiting
    /\ DeadLetteredAfterFailures

\* A batch has the older ones of its entries, but for those that were marked.
OlderInBatchOrMarked ==
    \A r \in Replicas : \A f \in batch[r] : \A e \in older[f] :
        e \in batch[r] \/ Marked(e)

\* Who has heard of an entry will not hear of an older one: it was marked, and
\* the process has it in no batch.
OlderIsOver ==
    \A h \in Hooks : \A k \in DOMAIN log[h] : \A e \in older[log[h][k].entry] :
        /\ Marked(e)
        /\ \A r \in Replicas : h \in Own(r) => e \notin batch[r]

LoggedWasAdded ==
    \A h \in Hooks : /\ \A k \in DOMAIN log[h] : status[log[h][k].entry] # "absent"
                     /\ log[h] # << >> => h \in used

OInv ==
    /\ OlderInBatchOrMarked
    /\ OlderIsOver
    /\ LoggedWasAdded
    /\ DeliveredInOrder

-----------------------------------------------------------------------------
(***************************************************************************)
(* The relays below.                                                       *)
(***************************************************************************)

\* What the webhooks do is, for the relays, a step or nothing.
LEMMA WebhooksAreARelay ==
  /\ Init /\ HooksInit => Init
  /\ [WNext]_wvars => [Next]_vars
<1>1. ASSUME WNext
      PROVE  [Next]_vars
  <2>1. ASSUME NEW r \in Replicas, Deliver(r)
        PROVE  UNCHANGED vars
    BY <2>1 DEF Deliver, Begin, Accepted, Refused, GivenUp
  <2>2. ASSUME NEW r \in Replicas, NEW h \in Hooks,
               Register(r, h) \/ Delete(r, h) \/ Redrive(r, h)
        PROVE  UNCHANGED vars
    BY <2>2 DEF Register, Delete, Redrive
  <2>3. ASSUME NEW r \in Replicas, Loop(r)
        PROVE  [Next]_vars
    BY <2>1, <2>3 DEF Loop, PublishHandled, Next, Drain
  <2> QED
    BY <1>1, <2>2, <2>3 DEF WNext, Next
<1>2. UNCHANGED wvars => UNCHANGED vars
  BY DEF wvars, vars
<1> QED
  BY <1>1, <1>2

\* Publishing through the webhooks implements the outbox and its relays.
THEOREM WebhooksImplementRelay == WSpec => Spec
BY WebhooksAreARelay, PTL DEF WSpec, Spec

LEMMA WebhooksKeepIInv == WSpec => []IInv
BY WebhooksImplementRelay, RelayInvariant, PTL

-----------------------------------------------------------------------------
(***************************************************************************)
(* Lists and logs.                                                         *)
(***************************************************************************)

\* What going through a list leaves: the rest of the list, from the first
\* that wants the event.
LEMMA GoingThrough ==
  ASSUME HooksTypeOK, NEW r \in Replicas, NEW q \in Seq(Hooks), NEW e \in Entries,
         GoThrough(r, q, e)
  PROVE  /\ queue' \in [Replicas -> Seq(Hooks)]
         /\ \A s \in Replicas \ {r} : queue'[s] = queue[s]
         /\ Members(queue'[r]) \subseteq Members(q)
         /\ NoRepeats(q) => NoRepeats(queue'[r])
         /\ queue'[r] # << >> =>
               Head(queue'[r]) \in Members(q) /\ WantsNow(Head(queue'[r]), e)
         /\ \A g \in Members(q) : WantsNow(g, e) => g \in Members(queue'[r])
<1>1. PICK k \in 1 .. Len(q) + 1 :
        /\ \A j \in 1 .. k - 1 : ~ WantsNow(q[j], e)
        /\ k <= Len(q) => WantsNow(q[k], e)
        /\ queue' = [queue EXCEPT ![r] = SubSeq(q, k, Len(q))]
  BY DEF GoThrough
<1>2. Len(q) \in Nat /\ DOMAIN q = 1 .. Len(q) /\ \A i \in 1 .. Len(q) : q[i] \in Hooks
  BY ElementOfSeq, LenProperties
<1> DEFINE p == SubSeq(q, k, Len(q))
<1>3. /\ p \in Seq(Hooks)
      /\ Len(p) = IF k <= Len(q) THEN Len(q) - k + 1 ELSE 0
      /\ \A i \in 1 .. Len(q) - k + 1 : p[i] = q[k + i - 1]
  <2>1. \A i \in k .. Len(q) : q[i] \in Hooks
    BY <1>2
  <2>2. k \in Int /\ Len(q) \in Int
    BY <1>2
  <2> QED
    BY <2>1, <2>2, SubSeqProperties
<1>4. queue'[r] = p /\ queue' \in [Replicas -> Seq(Hooks)]
      /\ \A s \in Replicas \ {r} : queue'[s] = queue[s]
  BY <1>1, <1>3 DEF HooksTypeOK
<1>5. DOMAIN p = 1 .. Len(p)
  BY <1>3, LenProperties
<1> HIDE DEF p
<1>6. \A i \in DOMAIN p : k + i - 1 \in DOMAIN q /\ p[i] = q[k + i - 1]
  BY SMTT(20), <1>2, <1>3, <1>5
<1>7. Members(p) \subseteq Members(q)
  BY <1>6 DEF Members
<1>8. NoRepeats(q) => NoRepeats(p)
  <2> SUFFICES ASSUME NoRepeats(q), NEW i \in DOMAIN p, NEW j \in DOMAIN p, p[i] = p[j]
               PROVE  i = j
    BY DEF NoRepeats
  <2>1. k + i - 1 = k + j - 1
    BY <1>6 DEF NoRepeats
  <2> QED
    BY <1>2, <1>3, <1>5, <2>1
<1>9. ASSUME p # << >>
      PROVE  Head(p) \in Members(q) /\ WantsNow(Head(p), e)
  <2>1. k <= Len(q) /\ p[1] = q[k] /\ k \in DOMAIN q
    BY <1>2, <1>3, <1>9, EmptySeq
  <2>2. Head(p) = p[1]
    BY <1>3, <1>9
  <2> QED
    BY <1>1, <2>1, <2>2 DEF Members
<1>10. ASSUME NEW g \in Members(q), WantsNow(g, e)
       PROVE  g \in Members(p)
  <2>1. PICK j \in 1 .. Len(q) : g = q[j]
    BY <1>2 DEF Members
  <2>2. j >= k
    BY <1>1, <1>2, <1>10, <2>1
  <2>3. j - k + 1 \in DOMAIN p /\ p[j - k + 1] = q[j]
    <3>1. /\ j \in Int /\ k \in Int /\ Len(q) \in Int
          /\ j - k + 1 \in 1 .. Len(q) - k + 1 /\ k <= Len(q)
      BY <1>2, <2>1, <2>2
    <3>2. k + (j - k + 1) - 1 = j
      BY <3>1
    <3> QED
      BY <1>3, <1>5, <3>1, <3>2
  <2> QED
    BY <2>1, <2>3 DEF Members
<1> QED
  BY <1>4, <1>7, <1>8, <1>9, <1>10

\* The rest of a list without repetitions does not have its head.
LEMMA RestOfList ==
  ASSUME NEW q \in Seq(Hooks), q # << >>, NoRepeats(q)
  PROVE  /\ Tail(q) \in Seq(Hooks) /\ NoRepeats(Tail(q))
         /\ Head(q) \in Hooks
         /\ Members(q) = {Head(q)} \cup Members(Tail(q))
         /\ Head(q) \notin Members(Tail(q))
<1>1. /\ Tail(q) \in Seq(Hooks) /\ Head(q) \in Hooks /\ Len(Tail(q)) = Len(q) - 1
      /\ \A i \in 1 .. Len(Tail(q)) : Tail(q)[i] = q[i + 1]
  BY HeadTailProperties
<1>2. /\ DOMAIN q = 1 .. Len(q) /\ DOMAIN Tail(q) = 1 .. Len(Tail(q))
      /\ Len(q) \in Nat \ {0} /\ Head(q) = q[1]
  BY <1>1, LenProperties, EmptySeq
<1> DEFINE t == Tail(q)
<1>3. /\ DOMAIN t = 1 .. Len(q) - 1
      /\ \A i \in DOMAIN t : i + 1 \in DOMAIN q /\ i + 1 # 1 /\ t[i] = q[i + 1]
      /\ \A j \in DOMAIN q : j # 1 => j - 1 \in DOMAIN t /\ t[j - 1] = q[j]
      /\ 1 \in DOMAIN q
  <2>1. DOMAIN t = 1 .. Len(q) - 1
    BY <1>1, <1>2
  <2> QED
    BY <1>1, <1>2, <2>1
<1> HIDE DEF t
<1>4. Members(q) = {q[1]} \cup Members(t)
  <2>1. Members(q) \subseteq {q[1]} \cup Members(t)
    BY <1>3 DEF Members
  <2>2. {q[1]} \cup Members(t) \subseteq Members(q)
    BY <1>3 DEF Members
  <2> QED
    BY <2>1, <2>2
<1>5. q[1] \notin Members(t)
  BY <1>3 DEF Members, NoRepeats
<1>6. NoRepeats(t)
  <2> SUFFICES ASSUME NEW i \in DOMAIN t, NEW j \in DOMAIN t, t[i] = t[j]
               PROVE  i = j
    BY DEF NoRepeats
  <2>1. i + 1 = j + 1
    BY <1>3 DEF NoRepeats
  <2> QED
    BY <1>2, <1>3, <2>1
<1> QED
  BY <1>1, <1>2, <1>4, <1>5, <1>6 DEF t

\* An attempt that is logged takes nothing away.
LEMMA Logging ==
  ASSUME HooksTypeOK, NEW h \in Hooks, NEW e \in Entries, NEW ok \in BOOLEAN,
         Logged(h, e, ok)
  PROVE  /\ log' \in [Hooks -> Seq(Attempts)]
         /\ \A g \in Hooks \ {h} : log'[g] = log[g]
         /\ Len(log[h]) \in Nat /\ Len(log'[h]) = Len(log[h]) + 1
         /\ DOMAIN log[h] = 1 .. Len(log[h]) /\ DOMAIN log'[h] = 1 .. Len(log[h]) + 1
         /\ \A j \in 1 .. Len(log[h]) : log'[h][j] = log[h][j]
         /\ log'[h][Len(log[h]) + 1] = [entry |-> e, ok |-> ok]
<1> DEFINE x == [entry |-> e, ok |-> ok]
<1>1. x \in Attempts /\ log[h] \in Seq(Attempts)
  BY DEF HooksTypeOK, Attempts
<1>2. log' = [log EXCEPT ![h] = Append(@, x)]
  BY DEF Logged
<1>3. /\ Append(log[h], x) \in Seq(Attempts)
      /\ Len(Append(log[h], x)) = Len(log[h]) + 1
      /\ \A j \in 1 .. Len(log[h]) : Append(log[h], x)[j] = log[h][j]
      /\ Append(log[h], x)[Len(log[h]) + 1] = x
  BY <1>1, AppendProperties
<1>4. log'[h] = Append(log[h], x) /\ log' \in [Hooks -> Seq(Attempts)]
      /\ \A g \in Hooks \ {h} : log'[g] = log[g]
  BY <1>2, <1>3 DEF HooksTypeOK
<1>5. Len(log[h]) \in Nat /\ DOMAIN log[h] = 1 .. Len(log[h])
  BY <1>1, LenProperties
<1>6. DOMAIN log'[h] = 1 .. Len(log[h]) + 1
  BY <1>3, <1>4, LenProperties
<1> QED
  BY <1>3, <1>4, <1>5, <1>6

\* Who has had an event has had it for good.
LEMMA HadForGood ==
  ASSUME HooksTypeOK, NEW h \in Hooks, NEW e \in Entries, NEW ok \in BOOLEAN,
         Logged(h, e, ok), NEW g \in Hooks, NEW f \in Entries, Had(g, f)
  PROVE  Had(g, f)'
<1>0. /\ \A x \in Hooks \ {h} : log'[x] = log[x]
      /\ Len(log[h]) \in Nat
      /\ DOMAIN log[h] = 1 .. Len(log[h]) /\ DOMAIN log'[h] = 1 .. Len(log[h]) + 1
      /\ \A j \in 1 .. Len(log[h]) : log'[h][j] = log[h][j]
  BY Logging
<1>1. CASE g # h
  <2>1. log'[g] = log[g]
    BY <1>0, <1>1
  <2> QED
    BY <2>1 DEF Had, Accepts, WasGivenUp, AllFailed
<1>2. CASE g = h /\ Accepts(g, f) # {}
  <2>1. PICK k \in DOMAIN log[h] : log[h][k] = [entry |-> f, ok |-> TRUE]
    BY <1>2 DEF Accepts
  <2>2. k \in DOMAIN log'[h] /\ log'[h][k] = [entry |-> f, ok |-> TRUE]
    BY <1>0, <2>1
  <2> QED
    BY <1>2, <2>2 DEF Had, Accepts
<1>3. CASE g = h /\ WasGivenUp(g, f)
  <2>1. PICK k \in 1 .. Len(log[h]) : AllFailed(h, f, k)
    BY <1>0, <1>3 DEF WasGivenUp
  <2>2. k \in DOMAIN log'[h] /\ \A j \in k - MaxAttempts + 1 .. k : j \in 1 .. Len(log[h])
    BY <1>0, <2>1, WebhooksAssumption DEF AllFailed
  <2>3. AllFailed(h, f, k)'
    BY <1>0, <2>1, <2>2 DEF AllFailed
  <2> QED
    BY <1>3, <2>2, <2>3 DEF Had, WasGivenUp
<1> QED
  BY <1>1, <1>2, <1>3 DEF Had
-----------------------------------------------------------------------------
(***************************************************************************)
(* What the handlers know is kept by every step.                           *)
(***************************************************************************)

\* Lists may only become shorter.
LEMMA OwnedLess ==
  ASSUME OwnedOnce, used \subseteq used',
         \A r \in Replicas : /\ NoRepeats(items'[r]) /\ NoRepeats(queue'[r])
                             /\ Own(r)' \subseteq Own(r)
  PROVE  OwnedOnce'
BY DEF OwnedOnce

\* A step of the relays is not in a process whose handler runs.
LEMMA RelayKeepsHInv ==
  ASSUME HInv, UNCHANGED hooks,
         \A r \in Replicas : attempt[r] # 0 => pc'[r] = pc[r] /\ batch'[r] = batch[r]
  PROVE  HInv'
<1>1. UNCHANGED <<items, used, dead, failures, log, queue, attempt, served, before>>
  BY DEF hooks
<1>2. HooksTypeOK' /\ OwnedOnce' /\ DeadLetteredAfterFailures'
  <2>1. HooksTypeOK'
    BY <1>1 DEF HInv, HooksTypeOK
  <2>2. OwnedOnce'
    BY <1>1 DEF HInv, OwnedOnce, Own
  <2>3. DeadLetteredAfterFailures'
    BY <1>1 DEF HInv, DeadLetteredAfterFailures, AllFailed
  <2> QED
    BY <2>1, <2>2, <2>3
<1>3. HandlersPublish'
  BY <1>1 DEF HInv, HandlersPublish
<1>4. \A r \in Replicas, e \in Entries : attempt[r] # 0 => (Current(r, e)' <=> Current(r, e))
  BY DEF Current
<1>5. DeliveryUnderWay'
  BY <1>1, <1>4 DEF HInv, HandlersPublish, DeliveryUnderWay, Trailing
<1>6. ServedOrWaiting'
  <2>1. \A h \in Hooks, e \in Entries : Had(h, e)' <=> Had(h, e)
    BY <1>1 DEF Had, Accepts, WasGivenUp, AllFailed
  <2>2. \A h \in Hooks, e \in Entries : WantsNow(h, e)' <=> WantsNow(h, e)
    BY <1>1 DEF WantsNow
  <2>3. \A r \in Replicas : served[r] \subseteq Hooks
    BY DEF HInv, HooksTypeOK
  <2> QED
    BY <1>1, <1>4, <2>1, <2>2, <2>3 DEF HInv, ServedOrWaiting
<1> QED
  BY <1>2, <1>3, <1>5, <1>6 DEF HInv

\* A handler that begins has in its list who wants the event.
LEMMA BeginKeepsHInv ==
  ASSUME HInv, NEW r \in Replicas, Begin(r)
  PROVE  HInv'
<1>1. PICK e \in Entries : /\ Current(r, e)
                           /\ GoThrough(r, items[r], e)
                           /\ served' = [served EXCEPT ![r] = {h \in Listed(r) : WantsNow(h, e)}]
  BY DEF Begin
<1>2. /\ pc[r] = "publish" /\ attempt[r] = 0
      /\ attempt' = [attempt EXCEPT ![r] = 1]
      /\ UNCHANGED <<status, pc, batch, items, used, dead, failures, log, before>>
  BY DEF Begin, vars
<1>3. HooksTypeOK /\ OwnedOnce /\ items[r] \in Seq(Hooks) /\ NoRepeats(items[r])
  BY DEF HInv, HooksTypeOK, OwnedOnce
<1>4. /\ queue' \in [Replicas -> Seq(Hooks)]
      /\ \A s \in Replicas \ {r} : queue'[s] = queue[s]
      /\ Members(queue'[r]) \subseteq Members(items[r])
      /\ NoRepeats(queue'[r])
      /\ queue'[r] # << >> => WantsNow(Head(queue'[r]), e)
      /\ \A g \in Members(items[r]) : WantsNow(g, e) => g \in Members(queue'[r])
  BY <1>1, <1>3, GoingThrough
<1>5. /\ attempt'[r] = 1 /\ attempt' \in [Replicas -> 0 .. MaxAttempts]
      /\ \A s \in Replicas \ {r} : attempt'[s] = attempt[s] /\ served'[s] = served[s]
      /\ served'[r] = {h \in Listed(r) : WantsNow(h, e)}
      /\ served' \in [Replicas -> SUBSET Hooks]
  <2>1. Listed(r) \subseteq Hooks
    BY <1>3, ElementOfSeq, LenProperties DEF Listed
  <2> QED
    BY <1>1, <1>2, <1>3, <2>1, WebhooksAssumption DEF HooksTypeOK
<1>6. HooksTypeOK'
  BY <1>2, <1>3, <1>4, <1>5 DEF HooksTypeOK
<1>7. OwnedOnce'
  <2>1. \A s \in Replicas : Own(s)' \subseteq Own(s)
    BY <1>2, <1>4 DEF Own
  <2>2. \A s \in Replicas : NoRepeats(items'[s]) /\ NoRepeats(queue'[s])
    BY <1>2, <1>3, <1>4 DEF OwnedOnce
  <2> QED
    BY <1>2, <1>3, <2>1, <2>2, OwnedLess
<1>8. HandlersPublish'
  BY SMTT(20), <1>2, <1>4, <1>5 DEF HInv, HandlersPublish
<1>9. DeliveryUnderWay'
  <2> SUFFICES ASSUME NEW s \in Replicas, queue'[s] # << >>
               PROVE  /\ ~ dead[Head(queue'[s])]
                      /\ \A f \in Entries :
                            Current(s, f) => Trailing(Head(queue'[s]), f, attempt'[s] - 1)
    BY <1>2 DEF DeliveryUnderWay, Current, Trailing
  <2>1. CASE s = r
    <3>1. Head(queue'[r]) \in Hooks
      BY <1>4, <2>1, HeadTailProperties
    <3>2. Len(log[Head(queue'[r])]) \in Nat
      BY <1>3, <3>1, LenProperties DEF HooksTypeOK
    <3>3. ~ dead[Head(queue'[r])] /\ attempt'[r] - 1 = 0
      BY <1>4, <1>5, <2>1 DEF WantsNow
    <3> QED
      BY <2>1, <3>2, <3>3 DEF Trailing
  <2>2. CASE s # r
    BY <1>4, <1>5, <2>2 DEF HInv, DeliveryUnderWay
  <2> QED
    BY <2>1, <2>2
<1>10. ServedOrWaiting'
  <2> SUFFICES ASSUME NEW s \in Replicas, NEW f \in Entries, attempt'[s] # 0, Current(s, f),
                      NEW h \in served'[s]
               PROVE  Had(h, f) \/ (h \in Members(queue'[s]) /\ WantsNow(h, f))
    BY <1>2 DEF ServedOrWaiting, Had, Accepts, WasGivenUp, AllFailed, WantsNow, Current
  <2>1. CASE s = r
    <3>1. f = e
      BY <1>1, <2>1, CurrentIsUnique
    <3>2. h \in Members(items[r]) /\ WantsNow(h, e)
      BY <1>5, <2>1 DEF Listed, Members
    <3> QED
      BY <1>4, <2>1, <3>1, <3>2
  <2>2. CASE s # r
    BY <1>4, <1>5, <2>2 DEF HInv, ServedOrWaiting
  <2> QED
    BY <2>1, <2>2
<1>11. DeadLetteredAfterFailures'
  BY <1>2 DEF HInv, DeadLetteredAfterFailures, AllFailed
<1> QED
  BY <1>6, <1>7, <1>8, <1>9, <1>10, <1>11 DEF HInv

\* What a delivery is of: the head of the list, alive, and nobody else's.
LEMMA TheOneDeliveredTo ==
  ASSUME HInv, NEW r \in Replicas, NEW h \in Hooks, NEW e \in Entries, Delivering(r, h, e)
  PROVE  /\ pc[r] = "publish" /\ attempt[r] \in 1 .. MaxAttempts
         /\ queue[r] \in Seq(Hooks) /\ queue[r] # << >> /\ h = Head(queue[r])
         /\ Tail(queue[r]) \in Seq(Hooks) /\ NoRepeats(Tail(queue[r]))
         /\ Members(queue[r]) = {h} \cup Members(Tail(queue[r]))
         /\ h \notin Members(Tail(queue[r]))
         /\ ~ dead[h] /\ Trailing(h, e, attempt[r] - 1)
         /\ \A s \in Replicas \ {r} : h \notin Own(s)
<1>1. pc[r] = "publish" /\ attempt[r] # 0 /\ queue[r] # << >> /\ h = Head(queue[r])
      /\ Current(r, e)
  BY DEF Delivering, Handling
<1>2. attempt[r] \in 0 .. MaxAttempts /\ queue[r] \in Seq(Hooks) /\ NoRepeats(queue[r])
  BY DEF HInv, HooksTypeOK, OwnedOnce
<1>3. attempt[r] \in 1 .. MaxAttempts
  BY <1>1, <1>2, WebhooksAssumption
<1>4. /\ Tail(queue[r]) \in Seq(Hooks) /\ NoRepeats(Tail(queue[r]))
      /\ Members(queue[r]) = {h} \cup Members(Tail(queue[r]))
      /\ h \notin Members(Tail(queue[r]))
  BY <1>1, <1>2, RestOfList
<1>5. ~ dead[h] /\ Trailing(h, e, attempt[r] - 1)
  BY <1>1 DEF HInv, DeliveryUnderWay
<1>6. \A s \in Replicas \ {r} : h \notin Own(s)
  BY <1>4 DEF HInv, OwnedOnce, Own
<1> QED
  BY <1>1, <1>2, <1>3, <1>4, <1>5, <1>6

\* One failed attempt more.
LEMMA OneMoreFailure ==
  ASSUME HooksTypeOK, NEW h \in Hooks, NEW e \in Entries, Logged(h, e, FALSE),
         NEW n \in Nat, Trailing(h, e, n)
  PROVE  Trailing(h, e, n + 1)'
<1>1. /\ Len(log[h]) \in Nat /\ Len(log'[h]) = Len(log[h]) + 1
      /\ \A j \in 1 .. Len(log[h]) : log'[h][j] = log[h][j]
      /\ log'[h][Len(log[h]) + 1] = [entry |-> e, ok |-> FALSE]
  BY Logging
<1>2. n + 1 <= Len(log'[h])
  BY <1>1 DEF Trailing
<1>3. ASSUME NEW j \in Len(log'[h]) - (n + 1) + 1 .. Len(log'[h])
      PROVE  log'[h][j] = [entry |-> e, ok |-> FALSE]
  <2>1. CASE j = Len(log[h]) + 1
    BY <1>1, <2>1
  <2>2. CASE j # Len(log[h]) + 1
    <3>1. j \in Len(log[h]) - n + 1 .. Len(log[h]) /\ j \in 1 .. Len(log[h])
      BY <1>1, <1>3, <2>2 DEF Trailing
    <3> QED
      BY <1>1, <3>1 DEF Trailing
  <2> QED
    BY <2>1, <2>2
<1> QED
  BY <1>2, <1>3 DEF Trailing

\* After the last failure the subscription has had its attempts.
LEMMA AllAttemptsFailed ==
  ASSUME HooksTypeOK, NEW h \in Hooks, NEW e \in Entries, Logged(h, e, FALSE),
         Trailing(h, e, MaxAttempts - 1)
  PROVE  AllFailed(h, e, Len(log[h]))' /\ Had(h, e)'
<1>1. MaxAttempts - 1 \in Nat /\ MaxAttempts \in Nat \ {0}
  BY WebhooksAssumption
<1>2. Trailing(h, e, (MaxAttempts - 1) + 1)'
  BY <1>1, OneMoreFailure
<1>3. Trailing(h, e, MaxAttempts)'
  <2>1. (MaxAttempts - 1) + 1 = MaxAttempts
    BY <1>1
  <2> QED
    BY <1>2, <2>1
<1>4. /\ Len(log[h]) \in Nat /\ Len(log'[h]) = Len(log[h]) + 1
      /\ DOMAIN log'[h] = 1 .. Len(log[h]) + 1
  BY Logging
<1>5. AllFailed(h, e, Len(log[h]))'
  BY <1>1, <1>3, <1>4 DEF Trailing, AllFailed
<1>6. Len(log'[h]) \in DOMAIN log'[h]
  BY <1>4
<1> QED
  BY <1>5, <1>6 DEF Had, WasGivenUp

\* A delivery that has ended, and who is next: the others see nothing of it.
LEMMA MovingOnKeepsHInv ==
  ASSUME HInv, NEW r \in Replicas, NEW h \in Hooks, NEW e \in Entries, NEW ok \in BOOLEAN,
         Delivering(r, h, e), Logged(h, e, ok), ToNext(r, e),
         UNCHANGED <<vars, items, used, served, before>>,
         failures' \in [Hooks -> Nat], dead' \in [Hooks -> BOOLEAN],
         \A g \in Hooks \ {h} : dead'[g] = dead[g],
         dead'[h] => AllFailed(h, e, Len(log[h]))', Had(h, e)'
  PROVE  HInv'
<1>1. UNCHANGED <<status, pc, batch, items, used, served, before>>
  BY DEF vars
<1>2. /\ pc[r] = "publish" /\ attempt[r] \in 1 .. MaxAttempts
      /\ Tail(queue[r]) \in Seq(Hooks) /\ NoRepeats(Tail(queue[r]))
      /\ Members(queue[r]) = {h} \cup Members(Tail(queue[r]))
      /\ h \notin Members(Tail(queue[r]))
      /\ \A s \in Replicas \ {r} : h \notin Own(s)
  BY TheOneDeliveredTo
<1>3. HooksTypeOK /\ OwnedOnce /\ Current(r, e)
  BY DEF HInv, Delivering
<1>4. /\ queue' \in [Replicas -> Seq(Hooks)]
      /\ \A s \in Replicas \ {r} : queue'[s] = queue[s]
      /\ Members(queue'[r]) \subseteq Members(Tail(queue[r]))
      /\ NoRepeats(queue'[r])
      /\ queue'[r] # << >> =>
            Head(queue'[r]) \in Members(Tail(queue[r])) /\ WantsNow(Head(queue'[r]), e)
      /\ \A g \in Members(Tail(queue[r])) : WantsNow(g, e) => g \in Members(queue'[r])
  BY <1>2, <1>3, GoingThrough DEF ToNext
<1>5. /\ attempt' \in [Replicas -> 0 .. MaxAttempts] /\ attempt'[r] = 1
      /\ \A s \in Replicas \ {r} : attempt'[s] = attempt[s]
  BY <1>3, WebhooksAssumption DEF ToNext, HooksTypeOK
<1>6. log' \in [Hooks -> Seq(Attempts)] /\ \A g \in Hooks \ {h} : log'[g] = log[g]
  BY <1>3, Logging
<1>7. HooksTypeOK'
  BY <1>1, <1>3, <1>4, <1>5, <1>6 DEF HooksTypeOK
<1>8. OwnedOnce'
  <2>1. \A s \in Replicas : Own(s)' \subseteq Own(s)
    BY <1>1, <1>2, <1>4 DEF Own
  <2>2. \A s \in Replicas : NoRepeats(items'[s]) /\ NoRepeats(queue'[s])
    BY <1>1, <1>3, <1>4 DEF OwnedOnce
  <2> QED
    BY <1>1, <1>3, <2>1, <2>2, OwnedLess
<1>9. HandlersPublish'
  <2> SUFFICES ASSUME NEW s \in Replicas
               PROVE  /\ attempt'[s] # 0 => pc[s] = "publish"
                      /\ queue'[s] # << >> => attempt'[s] # 0
    BY <1>1 DEF HandlersPublish
  <2>1. CASE s = r
    BY <1>2, <1>5, <2>1
  <2>2. CASE s # r
    BY <1>4, <1>5, <2>2 DEF HInv, HandlersPublish
  <2> QED
    BY <2>1, <2>2
<1>10. \A s \in Replicas : queue'[s] # << >> =>
          Head(queue'[s]) \in Hooks /\ Head(queue'[s]) \in Members(queue'[s])
  <2> SUFFICES ASSUME NEW s \in Replicas, queue'[s] # << >>
               PROVE  Head(queue'[s]) \in Hooks /\ Head(queue'[s]) \in Members(queue'[s])
    OBVIOUS
  <2>1. queue'[s] \in Seq(Hooks)
    BY <1>4
  <2>2. 1 \in DOMAIN queue'[s] /\ Head(queue'[s]) = queue'[s][1]
    BY <2>1, LenProperties, EmptySeq
  <2> QED
    BY <2>1, <2>2, HeadTailProperties DEF Members
<1>11. DeliveryUnderWay'
  <2> SUFFICES ASSUME NEW s \in Replicas, queue'[s] # << >>
               PROVE  /\ ~ dead'[Head(queue'[s])]
                      /\ \A f \in Entries : Current(s, f) =>
                            Trailing(Head(queue[s]), f, attempt[s] - 1)'
    BY <1>1 DEF DeliveryUnderWay, Current
  <2>1. CASE s = r
    <3>1. Head(queue'[r]) \in Hooks \ {h} /\ ~ dead[Head(queue'[r])]
      BY <1>2, <1>4, <1>10, <2>1 DEF WantsNow
    <3>2. Len(log'[Head(queue'[r])]) \in Nat /\ attempt'[r] - 1 = 0
      BY <1>5, <1>6, <3>1, LenProperties
    <3> QED
      BY <2>1, <3>1, <3>2 DEF Trailing
  <2>2. CASE s # r
    <3>1. queue'[s] = queue[s] /\ attempt'[s] = attempt[s]
      BY <1>4, <1>5, <2>2
    <3>2. Head(queue[s]) \in Hooks \ {h}
      BY <1>2, <1>10, <2>2, <3>1 DEF Own
    <3>3. /\ log'[Head(queue[s])] = log[Head(queue[s])]
          /\ dead'[Head(queue[s])] = dead[Head(queue[s])]
      BY <1>6, <3>2
    <3> QED
      BY <3>1, <3>3 DEF HInv, DeliveryUnderWay, Trailing
  <2> QED
    BY <2>1, <2>2
<1>12. ServedOrWaiting'
  <2> SUFFICES ASSUME NEW s \in Replicas, NEW f \in Entries, attempt'[s] # 0, Current(s, f),
                      NEW g \in served[s]
               PROVE  Had(g, f)' \/ (g \in Members(queue'[s]) /\ WantsNow(g, f)')
    BY <1>1 DEF ServedOrWaiting, Current
  <2>1. g \in Hooks
    BY <1>3 DEF HooksTypeOK
  <2>2. attempt[s] # 0
    BY <1>2, <1>5
  <2>3. CASE Had(g, f)
    BY <1>3, <2>1, <2>3, HadForGood
  <2>4. CASE g \in Members(queue[s]) /\ WantsNow(g, f)
    <3>1. CASE s = r /\ g = h
      <4>1. f = e
        BY <1>3, <3>1, CurrentIsUnique
      <4> QED
        BY <3>1, <4>1
    <3>2. CASE s = r /\ g # h
      <4>1. f = e
        BY <1>3, <3>2, CurrentIsUnique
      <4> QED
        BY <1>2, <1>4, <2>1, <2>4, <3>2, <4>1 DEF WantsNow
    <3>3. CASE s # r
      <4>1. g # h
        BY <1>2, <2>4, <3>3 DEF Own
      <4> QED
        BY <1>4, <2>1, <2>4, <3>3, <4>1 DEF WantsNow
    <3> QED
      BY <3>1, <3>2, <3>3
  <2> QED
    BY <2>2, <2>3, <2>4 DEF HInv, ServedOrWaiting
<1>13. DeadLetteredAfterFailures'
  <2> SUFFICES ASSUME NEW g \in Hooks, dead'[g]
               PROVE  \E f \in Entries : AllFailed(g, f, Len(log[g]))'
    BY DEF DeadLetteredAfterFailures
  <2>1. CASE g = h
    BY <2>1
  <2>2. CASE g # h
    <3>1. log'[g] = log[g] /\ dead[g]
      BY <1>6, <2>2
    <3>2. PICK f \in Entries : AllFailed(g, f, Len(log[g]))
      BY <3>1 DEF HInv, DeadLetteredAfterFailures
    <3>3. AllFailed(g, f, Len(log[g]))'
      BY <3>1, <3>2 DEF AllFailed
    <3> QED
      BY <3>3
  <2> QED
    BY <2>1, <2>2
<1> QED
  BY <1>7, <1>8, <1>9, <1>11, <1>12, <1>13 DEF HInv

LEMMA AcceptedKeepsHInv ==
  ASSUME HInv, NEW r \in Replicas, Accepted(r)
  PROVE  HInv'
<1>1. PICK h \in Hooks, e \in Entries :
        /\ Delivering(r, h, e) /\ Logged(h, e, TRUE) /\ ToNext(r, e)
        /\ UNCHANGED <<vars, items, used, dead, failures, served, before>>
  BY DEF Accepted
<1>2. HooksTypeOK /\ ~ dead[h]
  BY <1>1, TheOneDeliveredTo DEF HInv
<1>3. /\ Len(log[h]) + 1 \in DOMAIN log'[h]
      /\ log'[h][Len(log[h]) + 1] = [entry |-> e, ok |-> TRUE]
  <2>1. Len(log[h]) \in Nat /\ DOMAIN log'[h] = 1 .. Len(log[h]) + 1
        /\ log'[h][Len(log[h]) + 1] = [entry |-> e, ok |-> TRUE]
    BY <1>1, <1>2, Logging
  <2> QED
    BY <2>1
<1>4. Had(h, e)'
  BY <1>3 DEF Had, Accepts
<1>5. UNCHANGED <<vars, items, used, served, before>> /\ UNCHANGED <<dead, failures>>
  BY <1>1
<1>6. /\ failures' \in [Hooks -> Nat] /\ dead' \in [Hooks -> BOOLEAN] /\ ~ dead'[h]
      /\ \A g \in Hooks \ {h} : dead'[g] = dead[g]
  BY <1>2, <1>5 DEF HooksTypeOK
<1> QED
  BY <1>1, <1>4, <1>5, <1>6, MovingOnKeepsHInv

LEMMA GivenUpKeepsHInv ==
  ASSUME HInv, NEW r \in Replicas, GivenUp(r)
  PROVE  HInv'
<1>1. PICK h \in Hooks, e \in Entries :
        /\ Delivering(r, h, e) /\ attempt[r] = MaxAttempts
        /\ Logged(h, e, FALSE) /\ ToNext(r, e)
        /\ failures' = [failures EXCEPT ![h] = @ + 1]
        /\ dead' = [dead EXCEPT ![h] = TRUE]
        /\ UNCHANGED <<vars, items, used, served, before>>
  BY DEF GivenUp
<1>2. HooksTypeOK /\ Trailing(h, e, MaxAttempts - 1)
  BY <1>1, TheOneDeliveredTo DEF HInv
<1>3. AllFailed(h, e, Len(log[h]))' /\ Had(h, e)'
  BY <1>1, <1>2, AllAttemptsFailed
<1>4. /\ failures' \in [Hooks -> Nat] /\ dead' \in [Hooks -> BOOLEAN]
      /\ \A g \in Hooks \ {h} : dead'[g] = dead[g]
  BY <1>1, <1>2 DEF HooksTypeOK
<1> QED
  BY <1>1, <1>3, <1>4, MovingOnKeepsHInv

\* A refusal before the last: the subscription stays at the head of the list.
LEMMA RefusedKeepsHInv ==
  ASSUME HInv, NEW r \in Replicas, Refused(r)
  PROVE  HInv'
<1>1. PICK h \in Hooks, e \in Entries :
        /\ Delivering(r, h, e) /\ attempt[r] < MaxAttempts
        /\ Logged(h, e, FALSE)
        /\ failures' = [failures EXCEPT ![h] = @ + 1]
        /\ attempt' = [attempt EXCEPT ![r] = @ + 1]
        /\ UNCHANGED <<vars, items, used, dead, queue, served, before>>
  BY DEF Refused
<1>2. UNCHANGED <<status, pc, batch, items, used, dead, queue, served, before>>
  BY <1>1 DEF vars
<1>3. /\ HooksTypeOK /\ OwnedOnce /\ Current(r, e)
      /\ pc[r] = "publish" /\ attempt[r] \in 1 .. MaxAttempts
      /\ h = Head(queue[r]) /\ ~ dead[h] /\ Trailing(h, e, attempt[r] - 1)
      /\ \A s \in Replicas \ {r} : h \notin Own(s)
  BY <1>1, TheOneDeliveredTo DEF HInv, Delivering
<1>4. /\ attempt' \in [Replicas -> 0 .. MaxAttempts] /\ attempt'[r] = attempt[r] + 1
      /\ \A s \in Replicas \ {r} : attempt'[s] = attempt[s]
  BY SMTT(30), <1>1, <1>3, WebhooksAssumption DEF HooksTypeOK
<1>5. log' \in [Hooks -> Seq(Attempts)] /\ \A g \in Hooks \ {h} : log'[g] = log[g]
  BY <1>1, <1>3, Logging
<1>6. HooksTypeOK'
  <2>1. failures' \in [Hooks -> Nat]
    BY <1>1, <1>3 DEF HooksTypeOK
  <2> QED
    BY <1>2, <1>3, <1>4, <1>5, <2>1 DEF HooksTypeOK
<1>7. OwnedOnce'
  BY <1>2, <1>3 DEF OwnedOnce, Own
<1>8. HandlersPublish'
  <2> SUFFICES ASSUME NEW s \in Replicas
               PROVE  /\ attempt'[s] # 0 => pc[s] = "publish"
                      /\ queue[s] # << >> => attempt'[s] # 0
    BY <1>2 DEF HandlersPublish
  <2>1. CASE s = r
    BY <1>3, <1>4, <2>1
  <2>2. CASE s # r
    BY <1>4, <2>2 DEF HInv, HandlersPublish
  <2> QED
    BY <2>1, <2>2
<1>9. DeliveryUnderWay'
  <2> SUFFICES ASSUME NEW s \in Replicas, queue[s] # << >>
               PROVE  /\ ~ dead[Head(queue[s])]
                      /\ \A f \in Entries : Current(s, f) =>
                            Trailing(Head(queue[s]), f, attempt[s] - 1)'
    BY <1>2 DEF DeliveryUnderWay, Current
  <2>1. CASE s = r
    <3>1. PICK n \in Nat : n = attempt[r] - 1 /\ n + 1 = attempt'[r] - 1
      BY <1>3, <1>4
    <3>2. Trailing(h, e, n)
      BY <1>3, <3>1
    <3>3. Trailing(h, e, n + 1)'
      BY <1>1, <1>3, <3>2, OneMoreFailure
    <3>4. \A f \in Entries : Current(r, f) => f = e
      BY <1>3, CurrentIsUnique
    <3>5. Trailing(Head(queue[r]), e, attempt[r] - 1)'
      BY <1>2, <1>3, <3>1, <3>3 DEF Trailing
    <3> QED
      BY <1>3, <2>1, <3>4, <3>5
  <2>2. CASE s # r
    <3>1. queue[s] \in Seq(Hooks)
      BY <1>3 DEF HooksTypeOK
    <3>2. 1 \in DOMAIN queue[s] /\ Head(queue[s]) = queue[s][1] /\ Head(queue[s]) \in Hooks
      BY <3>1, LenProperties, EmptySeq, HeadTailProperties
    <3>3. log'[Head(queue[s])] = log[Head(queue[s])] /\ attempt'[s] = attempt[s]
      BY <1>3, <1>4, <1>5, <2>2, <3>2 DEF Own, Members
    <3> QED
      BY <1>2, <3>3 DEF HInv, DeliveryUnderWay, Trailing
  <2> QED
    BY <2>1, <2>2
<1>10. ServedOrWaiting'
  <2> SUFFICES ASSUME NEW s \in Replicas, NEW f \in Entries, attempt'[s] # 0, Current(s, f),
                      NEW g \in served[s]
               PROVE  Had(g, f)' \/ (g \in Members(queue[s]) /\ WantsNow(g, f))
    BY <1>2 DEF ServedOrWaiting, Current, WantsNow
  <2>1. g \in Hooks /\ attempt[s] # 0
    BY <1>3, <1>4 DEF HooksTypeOK
  <2>2. Had(g, f) => Had(g, f)'
    BY <1>1, <1>3, <2>1, HadForGood
  <2> QED
    BY <2>1, <2>2 DEF HInv, ServedOrWaiting
<1>11. DeadLetteredAfterFailures'
  <2> SUFFICES ASSUME NEW g \in Hooks, dead[g]
               PROVE  \E f \in Entries : AllFailed(g, f, Len(log[g]))'
    BY <1>2 DEF DeadLetteredAfterFailures
  <2>1. log'[g] = log[g]
    BY <1>3, <1>5
  <2>2. PICK f \in Entries : AllFailed(g, f, Len(log[g]))
    BY DEF HInv, DeadLetteredAfterFailures
  <2>3. AllFailed(g, f, Len(log[g]))'
    BY <2>1, <2>2 DEF AllFailed
  <2> QED
    BY <2>3
<1> QED
  BY <1>6, <1>7, <1>8, <1>9, <1>10, <1>11 DEF HInv

\* A handler that is over, of a process that has its subscriptions or forgets
\* them.
LEMMA EndingKeepsHInv ==
  ASSUME HInv, NEW r \in Replicas,
         queue' = [queue EXCEPT ![r] = << >>],
         attempt' = [attempt EXCEPT ![r] = 0],
         served' = [served EXCEPT ![r] = {}],
         items' = items \/ items' = [items EXCEPT ![r] = << >>],
         UNCHANGED <<used, dead, failures, log, before>>,
         \A s \in Replicas \ {r} : pc'[s] = pc[s] /\ batch'[s] = batch[s]
  PROVE  HInv'
<1>1. HooksTypeOK /\ OwnedOnce
  BY DEF HInv
<1>2. << >> \in Seq(Hooks) /\ Members(<< >>) = {} /\ NoRepeats(<< >>)
  BY EmptySeq DEF Members, NoRepeats
<1>3. /\ queue'[r] = << >> /\ attempt'[r] = 0
      /\ \A s \in Replicas \ {r} : queue'[s] = queue[s] /\ attempt'[s] = attempt[s]
                                   /\ served'[s] = served[s]
      /\ \A s \in Replicas : items'[s] = items[s] \/ items'[s] = << >>
  BY <1>1 DEF HooksTypeOK
<1>4. HooksTypeOK'
  <2>1. items' \in [Replicas -> Seq(Hooks)] /\ queue' \in [Replicas -> Seq(Hooks)]
    BY <1>1, <1>2 DEF HooksTypeOK
  <2>2. attempt' \in [Replicas -> 0 .. MaxAttempts] /\ served' \in [Replicas -> SUBSET Hooks]
    BY <1>1, WebhooksAssumption DEF HooksTypeOK
  <2> QED
    BY <1>1, <2>1, <2>2 DEF HooksTypeOK
<1>5. OwnedOnce'
  <2>1. \A s \in Replicas : /\ NoRepeats(items'[s]) /\ NoRepeats(queue'[s])
                            /\ Members(items'[s]) \subseteq Members(items[s])
                            /\ Members(queue'[s]) \subseteq Members(queue[s])
    BY <1>1, <1>2, <1>3 DEF OwnedOnce
  <2>2. \A s \in Replicas : Own(s)' \subseteq Own(s)
    BY <2>1 DEF Own
  <2> QED
    BY <1>1, <2>1, <2>2, OwnedLess
<1>6. HandlersPublish'
  BY <1>3 DEF HInv, HandlersPublish
<1>7. DeliveryUnderWay'
  <2> SUFFICES ASSUME NEW s \in Replicas \ {r}, queue[s] # << >>
               PROVE  /\ ~ dead[Head(queue[s])]
                      /\ \A f \in Entries : Current(s, f) =>
                            Trailing(Head(queue[s]), f, attempt[s] - 1)
    BY <1>3 DEF DeliveryUnderWay, Current, Trailing
  <2> QED
    BY DEF HInv, DeliveryUnderWay
<1>8. ServedOrWaiting'
  <2> SUFFICES ASSUME NEW s \in Replicas \ {r}, NEW f \in Entries,
                      attempt[s] # 0, Current(s, f), NEW g \in served[s]
               PROVE  Had(g, f) \/ (g \in Members(queue[s]) /\ WantsNow(g, f))
    BY <1>3 DEF ServedOrWaiting, Current, Had, Accepts, WasGivenUp, AllFailed, WantsNow
  <2> QED
    BY DEF HInv, ServedOrWaiting
<1>9. DeadLetteredAfterFailures'
  BY DEF HInv, DeadLetteredAfterFailures, AllFailed
<1> QED
  BY <1>4, <1>5, <1>6, <1>7, <1>8, <1>9 DEF HInv

\* The API changes who is listed and who is alive, never what a handler has.
LEMMA ApiKeepsHInv ==
  ASSUME HInv, UNCHANGED <<vars, log, queue, attempt, served>>,
         HooksTypeOK', OwnedOnce', \A h \in Hooks : dead'[h] => dead[h]
  PROVE  HInv'
<1>1. UNCHANGED <<pc, batch>>
  BY DEF vars
<1>2. HandlersPublish'
  BY <1>1 DEF HInv, HandlersPublish
<1>3. DeliveryUnderWay'
  <2> SUFFICES ASSUME NEW r \in Replicas, queue[r] # << >>
               PROVE  /\ ~ dead'[Head(queue[r])]
                      /\ \A e \in Entries : Current(r, e) =>
                            Trailing(Head(queue[r]), e, attempt[r] - 1)
    BY <1>1 DEF DeliveryUnderWay, Current, Trailing
  <2>1. Head(queue[r]) \in Hooks
    BY HeadTailProperties DEF HInv, HooksTypeOK
  <2> QED
    BY <2>1 DEF HInv, DeliveryUnderWay
<1>4. ServedOrWaiting'
  <2> SUFFICES ASSUME NEW r \in Replicas, NEW e \in Entries, attempt[r] # 0, Current(r, e),
                      NEW h \in served[r]
               PROVE  Had(h, e) \/ (h \in Members(queue[r]) /\ WantsNow(h, e)')
    BY <1>1 DEF ServedOrWaiting, Current, Had, Accepts, WasGivenUp, AllFailed
  <2>1. h \in Hooks
    BY DEF HInv, HooksTypeOK
  <2> QED
    BY <2>1 DEF HInv, ServedOrWaiting, WantsNow
<1>5. DeadLetteredAfterFailures'
  BY DEF HInv, DeadLetteredAfterFailures, AllFailed
<1> QED
  BY <1>2, <1>3, <1>4, <1>5 DEF HInv

LEMMA RegisterKeepsHInv ==
  ASSUME HInv, NEW r \in Replicas, NEW h \in Hooks, Register(r, h)
  PROVE  HInv'
<1>1. /\ h \notin used /\ used' = used \cup {h}
      /\ items' = [items EXCEPT ![r] = Append(@, h)]
      /\ before' = [before EXCEPT ![h] = {e \in Entries : status[e] # "absent"}]
      /\ UNCHANGED <<vars, dead, failures, log, queue, attempt, served>>
  BY DEF Register
<1>2. HooksTypeOK /\ OwnedOnce
  BY DEF HInv
<1> DEFINE s == items[r]
           t == Append(s, h)
<1>3. /\ s \in Seq(Hooks) /\ t \in Seq(Hooks) /\ Len(t) = Len(s) + 1
      /\ \A i \in 1 .. Len(s) : t[i] = s[i]
      /\ t[Len(s) + 1] = h
  BY <1>2, AppendProperties DEF HooksTypeOK
<1>4. Len(s) \in Nat /\ DOMAIN s = 1 .. Len(s) /\ DOMAIN t = 1 .. Len(s) + 1
  BY <1>3, LenProperties
<1> HIDE DEF s, t
<1>5. Members(t) \subseteq Members(s) \cup {h}
  BY <1>3, <1>4 DEF Members
<1>6. NoRepeats(s) /\ h \notin Members(s)
  BY <1>1, <1>2 DEF OwnedOnce, Own, s
<1>7. NoRepeats(t)
  <2> SUFFICES ASSUME NEW i \in DOMAIN t, NEW j \in DOMAIN t, t[i] = t[j]
               PROVE  i = j
    BY DEF NoRepeats
  <2>1. \A k \in DOMAIN t : k # Len(s) + 1 => k \in DOMAIN s /\ t[k] = s[k] /\ t[k] # h
    BY <1>3, <1>4, <1>6 DEF Members
  <2> QED
    BY <1>3, <1>6, <2>1 DEF NoRepeats
<1>8. items'[r] = t /\ items' \in [Replicas -> Seq(Hooks)]
      /\ \A q \in Replicas \ {r} : items'[q] = items[q]
  BY <1>1, <1>2, <1>3 DEF HooksTypeOK, s, t
<1>9. HooksTypeOK'
  <2>1. used' \subseteq Hooks /\ before' \in [Hooks -> SUBSET Entries]
    BY <1>1, <1>2 DEF HooksTypeOK
  <2> QED
    BY <1>1, <1>2, <1>8, <2>1 DEF HooksTypeOK
<1>10. OwnedOnce'
  <2>1. Own(r)' \subseteq Own(r) \cup {h} /\ \A q \in Replicas \ {r} : Own(q)' = Own(q)
    BY <1>1, <1>5, <1>8 DEF Own, s
  <2>2. \A q \in Replicas : NoRepeats(items'[q]) /\ NoRepeats(queue'[q])
    BY <1>1, <1>2, <1>7, <1>8 DEF OwnedOnce
  <2>3. \A q \in Replicas : h \notin Own(q)
    BY <1>1, <1>2 DEF OwnedOnce
  <2> QED
    BY <1>1, <1>2, <2>1, <2>2, <2>3 DEF OwnedOnce
<1> QED
  BY <1>1, <1>9, <1>10, ApiKeepsHInv

\* What a deletion leaves of the lists.
LEMMA DeletedFromList ==
  ASSUME HooksTypeOK, NEW r \in Replicas, NEW h \in Hooks, Delete(r, h)
  PROVE  /\ items' \in [Replicas -> Seq(Hooks)]
         /\ \A q \in Replicas : /\ Members(items'[q]) \subseteq Members(items[q])
                                /\ NoRepeats(items[q]) => NoRepeats(items'[q])
<1> DEFINE s == items[r]
<1>1. PICK k \in DOMAIN s :
        items' = [items EXCEPT ![r] = SubSeq(s, 1, k - 1) \o SubSeq(s, k + 1, Len(s))]
  BY DEF Delete
<1>3. s \in Seq(Hooks)
  BY DEF HooksTypeOK
<1>4. Len(s) \in Nat /\ DOMAIN s = 1 .. Len(s) /\ k \in 1 .. Len(s)
      /\ \A i \in 1 .. Len(s) : s[i] \in Hooks
  BY <1>3, LenProperties, ElementOfSeq
<1> DEFINE a == SubSeq(s, 1, k - 1)
           b == SubSeq(s, k + 1, Len(s))
           t == a \o b
<1>5. items'[r] = t /\ \A q \in Replicas \ {r} : items'[q] = items[q]
  BY <1>1 DEF HooksTypeOK
<1> HIDE DEF s
<1>6. /\ a \in Seq(Hooks) /\ Len(a) = k - 1
      /\ \A i \in 1 .. k - 1 : a[i] = s[i]
  <2>1. 1 \in Int /\ k - 1 \in Int /\ \A i \in 1 .. k - 1 : s[i] \in Hooks
    BY <1>4
  <2>2. /\ a \in Seq(Hooks) /\ Len(a) = IF 1 <= k - 1 THEN (k - 1) - 1 + 1 ELSE 0
        /\ \A i \in 1 .. (k - 1) - 1 + 1 : a[i] = s[1 + i - 1]
    BY <2>1, SubSeqProperties
  <2> HIDE DEF a
  <2>3. Len(a) = k - 1
    BY <1>4, <2>2
  <2>4. \A i \in 1 .. k - 1 : i \in 1 .. (k - 1) - 1 + 1 /\ 1 + i - 1 = i
    BY <1>4
  <2> QED
    BY <2>2, <2>3, <2>4
<1>7. /\ b \in Seq(Hooks) /\ Len(b) = Len(s) - k
      /\ \A i \in 1 .. Len(s) - k : b[i] = s[k + i]
  <2>1. k + 1 \in Int /\ Len(s) \in Int /\ \A i \in k + 1 .. Len(s) : s[i] \in Hooks
    BY <1>4
  <2>2. /\ b \in Seq(Hooks)
        /\ Len(b) = IF k + 1 <= Len(s) THEN Len(s) - (k + 1) + 1 ELSE 0
        /\ \A i \in 1 .. Len(s) - (k + 1) + 1 : b[i] = s[(k + 1) + i - 1]
    BY SMTT(20), <2>1, SubSeqProperties
  <2> HIDE DEF b
  <2>3. Len(b) = Len(s) - k
    BY <1>4, <2>2
  <2>4. \A i \in 1 .. Len(s) - k : i \in 1 .. Len(s) - (k + 1) + 1 /\ (k + 1) + i - 1 = k + i
    BY <1>4
  <2> QED
    BY <2>2, <2>3, <2>4
<1> HIDE DEF a, b
<1>8. /\ t \in Seq(Hooks) /\ Len(t) = Len(s) - 1
      /\ \A i \in 1 .. Len(s) - 1 : t[i] = IF i < k THEN s[i] ELSE s[i + 1]
  <2>1. /\ t \in Seq(Hooks) /\ Len(t) = Len(a) + Len(b)
        /\ \A i \in 1 .. Len(a) + Len(b) :
              t[i] = IF i <= Len(a) THEN a[i] ELSE b[i - Len(a)]
    BY <1>6, <1>7, ConcatProperties
  <2> HIDE DEF t
  <2>2. Len(t) = Len(s) - 1
    BY <1>4, <1>6, <1>7, <2>1
  <2>3. ASSUME NEW i \in 1 .. Len(s) - 1
        PROVE  t[i] = IF i < k THEN s[i] ELSE s[i + 1]
    <3>1. CASE i < k
      <4>1. i \in 1 .. k - 1 /\ i <= Len(a) /\ i \in 1 .. Len(a) + Len(b)
        BY <1>4, <1>6, <1>7, <3>1
      <4> QED
        BY <1>6, <2>1, <3>1, <4>1
    <3>2. CASE ~ (i < k)
      <4>1. i - (k - 1) \in 1 .. Len(s) - k /\ k + (i - (k - 1)) = i + 1
        BY <1>4, <3>2
      <4>2. ~ (i <= Len(a)) /\ i \in 1 .. Len(a) + Len(b) /\ i - Len(a) = i - (k - 1)
        BY <1>4, <1>6, <1>7, <3>2
      <4> QED
        BY <1>7, <2>1, <3>2, <4>1, <4>2
    <3> QED
      BY <3>1, <3>2
  <2> QED
    BY <2>1, <2>2, <2>3
<1> HIDE DEF t
<1>9. DOMAIN t = 1 .. Len(s) - 1
  BY <1>4, <1>8, LenProperties
<1>10. Members(t) \subseteq Members(s)
  BY <1>4, <1>8, <1>9 DEF Members
<1>11. NoRepeats(s) => NoRepeats(t)
  <2> SUFFICES ASSUME NoRepeats(s), NEW i \in DOMAIN t, NEW j \in DOMAIN t, t[i] = t[j]
               PROVE  i = j
    BY DEF NoRepeats
  <2>1. PICK x \in DOMAIN s : t[i] = s[x] /\ x = IF i < k THEN i ELSE i + 1
    BY <1>4, <1>8, <1>9
  <2>2. PICK y \in DOMAIN s : t[j] = s[y] /\ y = IF j < k THEN j ELSE j + 1
    BY <1>4, <1>8, <1>9
  <2>3. x = y
    BY <1>3, <2>1, <2>2 DEF NoRepeats
  <2> QED
    BY <1>4, <1>9, <2>1, <2>2, <2>3
<1>12. items' \in [Replicas -> Seq(Hooks)]
  BY <1>1, <1>5, <1>8 DEF HooksTypeOK
<1> QED
  BY <1>5, <1>10, <1>11, <1>12 DEF s

LEMMA DeleteKeepsHInv ==
  ASSUME HInv, NEW r \in Replicas, NEW h \in Hooks, Delete(r, h)
  PROVE  HInv'
<1>1. UNCHANGED <<vars, used, dead, failures, log, queue, attempt, served, before>>
  BY DEF Delete
<1>2. HooksTypeOK /\ OwnedOnce
  BY DEF HInv
<1>3. /\ items' \in [Replicas -> Seq(Hooks)]
      /\ \A q \in Replicas : /\ Members(items'[q]) \subseteq Members(items[q])
                             /\ NoRepeats(items[q]) => NoRepeats(items'[q])
  BY <1>2, DeletedFromList
<1>4. HooksTypeOK'
  BY <1>1, <1>2, <1>3 DEF HooksTypeOK
<1>5. OwnedOnce'
  <2>1. \A q \in Replicas : Own(q)' \subseteq Own(q)
    BY <1>1, <1>3 DEF Own
  <2>2. \A q \in Replicas : NoRepeats(items'[q]) /\ NoRepeats(queue'[q])
    BY <1>1, <1>2, <1>3 DEF OwnedOnce
  <2> QED
    BY <1>1, <1>2, <2>1, <2>2, OwnedLess
<1> QED
  BY <1>1, <1>4, <1>5, ApiKeepsHInv

LEMMA RedriveKeepsHInv ==
  ASSUME HInv, NEW r \in Replicas, NEW h \in Hooks, Redrive(r, h)
  PROVE  HInv'
<1>1. /\ dead' = [dead EXCEPT ![h] = FALSE] /\ failures' = [failures EXCEPT ![h] = 0]
      /\ UNCHANGED <<vars, items, used, log, queue, attempt, served, before>>
  BY DEF Redrive
<1>2. HooksTypeOK /\ OwnedOnce
  BY DEF HInv
<1>3. HooksTypeOK' /\ \A g \in Hooks : dead'[g] => dead[g]
  BY <1>1, <1>2 DEF HooksTypeOK
<1>4. OwnedOnce'
  BY <1>1, <1>2 DEF OwnedOnce, Own
<1> QED
  BY <1>1, <1>3, <1>4, ApiKeepsHInv

\* Every step keeps what the handlers know.
LEMMA HInvInductive ==
  /\ HooksInit => HInv
  /\ IInv /\ HInv /\ [WNext]_wvars => HInv'
<1>1. ASSUME HooksInit
      PROVE  HInv
  <2>1. << >> \in Seq(Hooks) /\ << >> \in Seq(Attempts)
        /\ Members(<< >>) = {} /\ NoRepeats(<< >>)
    BY EmptySeq DEF Members, NoRepeats
  <2>2. HooksTypeOK
    BY <1>1, <2>1, WebhooksAssumption DEF HooksInit, HooksTypeOK
  <2>3. OwnedOnce
    BY <1>1, <2>1 DEF HooksInit, OwnedOnce, Own
  <2>4. HandlersPublish /\ DeliveryUnderWay /\ ServedOrWaiting /\ DeadLetteredAfterFailures
    BY <1>1 DEF HooksInit, HandlersPublish, DeliveryUnderWay, ServedOrWaiting,
                DeadLetteredAfterFailures
  <2> QED
    BY <2>2, <2>3, <2>4 DEF HInv
<1>2. ASSUME IInv, HInv, UNCHANGED hooks,
             \/ \E e \in Entries : Add(e)
             \/ \E r \in Replicas : \/ Start(r) \/ Stop(r) \/ List(r) \/ MarkDispatched(r)
                                    \/ MarkFailed(r) \/ MarkRaises(r) \/ DrainRaises(r)
      PROVE  HInv'
  <2>1. TypeOK /\ \A r \in Replicas : attempt[r] # 0 => pc[r] = "publish"
    BY <1>2 DEF IInv, HInv, HandlersPublish
  <2>2. ASSUME NEW r \in Replicas, attempt[r] # 0
        PROVE  pc'[r] = pc[r] /\ batch'[r] = batch[r]
    BY <1>2, <2>1, <2>2
       DEF TypeOK, Add, relay, Start, Stop, List, MarkDispatched, MarkFailed, Mark,
           MarkRaises, DrainRaises, Abandon, Goto
  <2> QED
    BY <1>2, <2>2, RelayKeepsHInv
<1>3. ASSUME IInv, HInv, NEW r \in Replicas,
             PublishHandled(r) \/ (Exit(r) /\ Forget(r)) \/ (Crash(r) /\ Forget(r))
      PROVE  HInv'
  <2>1. \A s \in Replicas \ {r} : pc'[s] = pc[s] /\ batch'[s] = batch[s]
    BY <1>3 DEF IInv, TypeOK, PublishHandled, Publish, Exit, Crash, Abandon, Goto
  <2>2. CASE PublishHandled(r)
    <3>1. HooksTypeOK /\ queue[r] = << >>
      BY <1>3, <2>2 DEF HInv, PublishHandled
    <3>2. queue' = [queue EXCEPT ![r] = << >>]
      BY <2>2, <3>1 DEF HooksTypeOK, PublishHandled
    <3> QED
      BY <1>3, <2>1, <2>2, <3>2, EndingKeepsHInv DEF PublishHandled
  <2>3. CASE Forget(r)
    BY <1>3, <2>1, <2>3, EndingKeepsHInv DEF Forget
  <2> QED
    BY <1>3, <2>2, <2>3
<1>4. ASSUME HInv, NEW r \in Replicas, Deliver(r)
      PROVE  HInv'
  BY <1>4, BeginKeepsHInv, AcceptedKeepsHInv, RefusedKeepsHInv, GivenUpKeepsHInv
     DEF Deliver
<1>5. ASSUME HInv, UNCHANGED wvars
      PROVE  HInv'
  BY <1>5, RelayKeepsHInv DEF wvars, hooks
<1> QED
  BY <1>1, <1>2, <1>3, <1>4, <1>5, RegisterKeepsHInv, DeleteKeepsHInv, RedriveKeepsHInv
     DEF WNext, Loop

\* What the handlers know holds in every behaviour.
THEOREM WebhooksInvariant == WSpec => []HInv
<1>1. IInv /\ HInv /\ [WNext]_wvars => HInv'
  BY HInvInductive
<1>2. Init /\ HooksInit => HInv
  BY HInvInductive
<1> QED
  BY <1>1, <1>2, WebhooksKeepIInv, PTL DEF WSpec

\* A subscription is dead-lettered only when all its attempts have failed, with
\* nothing delivered since, whatever the API does during the backoff.
THEOREM WebhooksDeadLetteredAfterFailures == WSpec => []DeadLetteredAfterFailures
<1>1. HInv => DeadLetteredAfterFailures
  BY DEF HInv
<1> QED
  BY <1>1, WebhooksInvariant, PTL

\* No subscription hears of anything while it is dead-lettered.
THEOREM WebhooksSilentUntilRedriven == WSpec => SilentUntilRedriven
<1>1. HInv /\ [WNext]_wvars => [\A h \in Hooks : dead[h] => log'[h] = log[h]]_wvars
  <2> SUFFICES ASSUME HInv, WNext, NEW g \in Hooks, dead[g]
               PROVE  log'[g] = log[g]
    OBVIOUS
  <2>1. ASSUME NEW r \in Replicas, NEW h \in Hooks, NEW e \in Entries, NEW ok \in BOOLEAN,
               Delivering(r, h, e), Logged(h, e, ok)
        PROVE  log'[g] = log[g]
    <3>1. g # h
      BY <2>1, TheOneDeliveredTo
    <3> QED
      BY <2>1, <3>1, Logging DEF HInv
  <2>2. CASE UNCHANGED log
    BY <2>2
  <2>3. CASE \E r \in Replicas : Accepted(r) \/ Refused(r) \/ GivenUp(r)
    BY <2>1, <2>3 DEF Accepted, Refused, GivenUp
  <2> QED
    BY <2>2, <2>3 DEF WNext, Loop, Deliver, hooks, Begin, PublishHandled, Forget,
                      Register, Delete, Redrive
<1> QED
  BY <1>1, WebhooksInvariant, PTL DEF WSpec, SilentUntilRedriven

\* When publish returns, everyone who was to have the event has had it, or has
\* refused it as often as there are attempts.
THEOREM WebhooksEveryoneIsServed == WSpec => EveryoneIsServed
<1> DEFINE Served == \A r \in Replicas, e \in Entries :
                        Current(r, e) /\ pc[r] = "publish" /\ pc'[r] = "mark" =>
                           \A h \in served[r] : Accepts(h, e) # {} \/ WasGivenUp(h, e)
<1>1. IInv /\ HInv /\ [WNext]_wvars => [Served]_wvars
  <2> SUFFICES ASSUME IInv, HInv, WNext, NEW r \in Replicas, NEW e \in Entries,
                      Current(r, e), pc[r] = "publish", pc'[r] = "mark", NEW h \in served[r]
               PROVE  Had(h, e)
    BY DEF Had
  <2>1. TypeOK
    BY DEF IInv
  <2>2. PublishHandled(r)
    <3>1. CASE \E s \in Replicas : PublishHandled(s)
      BY ZenonT(60), <2>1, <3>1 DEF TypeOK, PublishHandled, Publish, Goto
    <3>2. CASE pc' = pc
      BY <3>2
    <3>3. CASE \E s \in Replicas : \/ Start(s) \/ List(s) \/ MarkDispatched(s) \/ MarkFailed(s)
                                   \/ Exit(s) \/ MarkRaises(s) \/ DrainRaises(s) \/ Crash(s)
      BY <2>1, <3>3 DEF TypeOK, Start, List, MarkDispatched, MarkFailed, Mark, Exit,
                        MarkRaises, DrainRaises, Crash, Abandon, Goto
    <3> QED
      BY <3>1, <3>2, <3>3 DEF WNext, Loop, Deliver, Add, relay, Stop, Begin, Accepted,
                              Refused, GivenUp, Register, Delete, Redrive, vars
  <2>3. attempt[r] # 0 /\ queue[r] = << >> /\ Members(<< >>) = {}
    BY <2>2 DEF PublishHandled, Handling, Members
  <2> QED
    BY <2>3 DEF HInv, ServedOrWaiting
<1> QED
  BY <1>1, WebhooksInvariant, WebhooksKeepIInv, PTL DEF WSpec, EveryoneIsServed

-----------------------------------------------------------------------------
(***************************************************************************)
(* The order of the deliveries.                                            *)
(***************************************************************************)

\* What is logged is about entries.
LEMMA LogsAreOfEntries ==
  ASSUME HooksTypeOK, NEW h \in Hooks, NEW k \in DOMAIN log[h]
  PROVE  log[h][k].entry \in Entries
<1>1. log[h] \in Seq(Attempts)
  BY DEF HooksTypeOK
<1>2. log[h][k] \in Attempts
  BY <1>1, ElementOfSeq, LenProperties
<1> QED
  BY <1>2 DEF Attempts

\* What a step of the relays does to the entries that are there: nothing to
\* what is older, and only pending ones get into a batch.
LEMMA RelayAndOrder ==
  ASSUME IInv, [Next]_vars
  PROVE  /\ \A e \in Entries : status[e] # "absent" =>
               status'[e] # "absent" /\ older'[e] = older[e]
         /\ \A r \in Replicas : batch'[r] \subseteq batch[r] \cup Pending
<1>1. TypeOK
  BY DEF IInv
<1>2. CASE \E e \in Entries : Add(e)
  BY <1>1, <1>2 DEF TypeOK, Add, relay
<1>3. CASE \E r \in Replicas : List(r)
  BY <1>1, <1>3 DEF TypeOK, List, Oldest, history
<1>4. CASE \E r \in Replicas : MarkDispatched(r) \/ MarkFailed(r)
  BY <1>1, <1>4 DEF TypeOK, MarkDispatched, MarkFailed, Mark, history
<1>5. CASE \E r \in Replicas : DrainRaises(r) \/ Crash(r)
  BY <1>1, <1>5 DEF TypeOK, DrainRaises, Crash, Abandon
<1>6. CASE UNCHANGED <<status, older, batch>>
  BY <1>6
<1> QED
  BY <1>2, <1>3, <1>4, <1>5, <1>6
     DEF Next, Drain, Start, Stop, Exit, Publish, MarkRaises, history, vars

\* Batches stay closed under what is older, but for what was marked.
LEMMA BatchesStayClosed ==
  ASSUME IInv, [Next]_vars, OlderInBatchOrMarked
  PROVE  OlderInBatchOrMarked'
<1> SUFFICES ASSUME NEW r \in Replicas, NEW f \in batch'[r], NEW e \in older'[f],
                    ~ Marked(e)'
             PROVE  e \in batch'[r]
  BY DEF OlderInBatchOrMarked
<1>1. TypeOK
  BY DEF IInv
<1>2. f \in Entries /\ status[f] # "absent" /\ older'[f] = older[f]
  <2>1. f \in batch[r] \/ f \in Pending
    BY RelayAndOrder
  <2>2. f \in Entries /\ status[f] # "absent"
    BY <1>1, <2>1 DEF IInv, TypeOK, BatchesWereAdded, Pending
  <2> QED
    BY <2>2, RelayAndOrder
<1>3. e \in Entries /\ e < f /\ status[e] # "absent" /\ ~ Marked(e)
  <2>1. e \in Entries /\ e < f /\ status[e] # "absent"
    BY <1>1, <1>2 DEF IInv, TypeOK, OlderWasAdded
  <2> QED
    BY <2>1, MarkedForGood
<1>4. CASE f \in batch[r]
  <2>1. e \in batch[r]
    BY <1>2, <1>3, <1>4 DEF OlderInBatchOrMarked
  <2>2. CASE batch'[r] = batch[r]
    BY <2>1, <2>2
  <2>3. CASE List(r)
    <3>1. f \in Oldest(Pending) /\ batch'[r] = Oldest(Pending)
      BY <1>1, <2>3 DEF TypeOK, List
    <3>2. e \in Pending
      BY <1>1, <1>3 DEF TypeOK, Statuses, Marked, Pending
    <3> QED
      BY <1>3, <3>1, <3>2, OldestIsClosed
  <2>4. CASE MarkDispatched(r) \/ MarkFailed(r)
    <3>1. PICK x \in Entries : batch'[r] = batch[r] \ {x} /\ Marked(x)'
      BY <1>1, <2>4 DEF TypeOK, MarkDispatched, MarkFailed, Mark, Marked
    <3> QED
      BY <2>1, <3>1
  <2>5. CASE DrainRaises(r) \/ Crash(r)
    BY <1>1, <2>5 DEF TypeOK, DrainRaises, Crash, Abandon
  <2>6. CASE \E q \in Replicas \ {r} : \/ List(q) \/ MarkDispatched(q) \/ MarkFailed(q)
                                       \/ DrainRaises(q) \/ Crash(q)
    BY <1>1, <2>1, <2>6 DEF TypeOK, List, MarkDispatched, MarkFailed, Mark, DrainRaises,
                            Crash, Abandon
  <2> QED
    BY <2>2, <2>3, <2>4, <2>5, <2>6
       DEF Next, Drain, Add, relay, Start, Stop, Exit, Publish, MarkRaises, vars
<1>5. CASE f \notin batch[r]
  <2>1. List(r)
    BY <1>1, <1>5
       DEF TypeOK, Next, Drain, Add, relay, Start, Stop, Exit, List, Publish, MarkRaises,
           MarkDispatched, MarkFailed, Mark, DrainRaises, Crash, Abandon, vars
  <2>2. f \in Oldest(Pending) /\ batch'[r] = Oldest(Pending)
    BY <1>1, <2>1 DEF TypeOK, List
  <2>3. e \in Pending
    BY <1>1, <1>3 DEF TypeOK, Statuses, Marked, Pending
  <2> QED
    BY <1>3, <2>2, <2>3, OldestIsClosed
<1> QED
  BY <1>4, <1>5

\* Steps in which nothing is delivered, and only new subscriptions come in.
LEMMA QuietKeepsOInv ==
  ASSUME IInv, HooksTypeOK, OInv, [Next]_vars, UNCHANGED log, used \subseteq used',
         \A r \in Replicas : \A h \in Own(r)' : h \in Own(r) \/ log[h] = << >>
  PROVE  OInv'
<1>1. OlderInBatchOrMarked'
  BY BatchesStayClosed DEF OInv
<1>2. ASSUME NEW h \in Hooks, NEW k \in DOMAIN log[h]
      PROVE  /\ log[h][k].entry \in Entries
             /\ status'[log[h][k].entry] # "absent"
             /\ older'[log[h][k].entry] = older[log[h][k].entry]
             /\ older[log[h][k].entry] \subseteq Entries
             /\ log[h] # << >>
  <2>1. log[h][k].entry \in Entries /\ status[log[h][k].entry] # "absent"
    BY LogsAreOfEntries DEF OInv, LoggedWasAdded
  <2>2. log[h] # << >>
    OBVIOUS
  <2> QED
    BY <2>1, <2>2, RelayAndOrder DEF IInv, TypeOK
<1>3. OlderIsOver'
  <2> SUFFICES ASSUME NEW h \in Hooks, NEW k \in DOMAIN log[h],
                      NEW e \in older[log[h][k].entry]
               PROVE  /\ Marked(e)'
                      /\ \A r \in Replicas : h \in Own(r)' => e \notin batch'[r]
    BY <1>2 DEF OlderIsOver
  <2>1. /\ e \in Entries /\ Marked(e) /\ e \notin Pending
        /\ \A r \in Replicas : h \in Own(r) => e \notin batch[r]
    BY <1>2 DEF OInv, OlderIsOver, Marked, Pending
  <2>2. Marked(e)'
    BY <2>1, MarkedForGood
  <2>3. \A r \in Replicas : h \in Own(r)' => h \in Own(r)
    BY <1>2
  <2> QED
    BY <2>1, <2>2, <2>3, RelayAndOrder
<1>4. LoggedWasAdded'
  <2>1. \A h \in Hooks : \A k \in DOMAIN log[h] : status'[log[h][k].entry] # "absent"
    BY <1>2
  <2> QED
    BY <2>1 DEF OInv, LoggedWasAdded
<1>5. DeliveredInOrder'
  <2> SUFFICES ASSUME NEW h \in Hooks, NEW k \in DOMAIN log[h], NEW j \in 1 .. k - 1
               PROVE  log[h][k].entry \notin older'[log[h][j].entry]
    BY DEF DeliveredInOrder
  <2>1. j \in DOMAIN log[h]
    BY LenProperties DEF HooksTypeOK
  <2> QED
    BY <1>2, <2>1 DEF OInv, DeliveredInOrder
<1> QED
  BY <1>1, <1>3, <1>4, <1>5 DEF OInv

\* A delivery is of the oldest entry of the batch, so that all that is older
\* was marked; and it is to a subscription that has heard of nothing later.
LEMMA DeliveryKeepsOInv ==
  ASSUME IInv, HInv, OInv, NEW r \in Replicas, NEW h \in Hooks, NEW e \in Entries,
         NEW ok \in BOOLEAN, Delivering(r, h, e), Logged(h, e, ok),
         UNCHANGED <<vars, used>>, \A q \in Replicas : Own(q)' \subseteq Own(q)
  PROVE  OInv'
<1>1. UNCHANGED <<status, batch, older>>
  BY DEF vars
<1>2. /\ HooksTypeOK /\ e \in batch[r] /\ \A f \in batch[r] : e <= f
      /\ h \in Own(r) /\ \A q \in Replicas \ {r} : h \notin Own(q)
  <2>1. h \in Own(r) /\ \A q \in Replicas \ {r} : h \notin Own(q)
    BY TheOneDeliveredTo DEF Own
  <2> QED
    BY <2>1 DEF HInv, Delivering, Current
<1>3. /\ \A g \in Hooks \ {h} : log'[g] = log[g]
      /\ Len(log[h]) \in Nat
      /\ DOMAIN log[h] = 1 .. Len(log[h]) /\ DOMAIN log'[h] = 1 .. Len(log[h]) + 1
      /\ \A j \in 1 .. Len(log[h]) : log'[h][j] = log[h][j]
      /\ log'[h][Len(log[h]) + 1].entry = e
  <2>1. /\ \A g \in Hooks \ {h} : log'[g] = log[g]
        /\ Len(log[h]) \in Nat
        /\ DOMAIN log[h] = 1 .. Len(log[h]) /\ DOMAIN log'[h] = 1 .. Len(log[h]) + 1
        /\ \A j \in 1 .. Len(log[h]) : log'[h][j] = log[h][j]
        /\ log'[h][Len(log[h]) + 1] = [entry |-> e, ok |-> ok]
    BY <1>2, Logging
  <2> QED
    BY <2>1
<1>4. \A k \in DOMAIN log'[h] : \/ k \in DOMAIN log[h] /\ log'[h][k] = log[h][k]
                                \/ log'[h][k].entry = e /\ k = Len(log[h]) + 1
  BY <1>3
<1>5. OlderInBatchOrMarked'
  BY <1>1 DEF OInv, OlderInBatchOrMarked, Marked
<1>6. \A x \in older[e] : Marked(x) /\ x \notin batch[r]
  <2> SUFFICES ASSUME NEW x \in older[e]
               PROVE  Marked(x) /\ x \notin batch[r]
    OBVIOUS
  <2>1. x \in Entries /\ x < e /\ (x \in batch[r] \/ Marked(x))
    BY <1>2 DEF IInv, TypeOK, OlderWasAdded, OInv, OlderInBatchOrMarked
  <2> QED
    BY <1>2, <2>1 DEF Entries
<1>7. OlderIsOver'
  <2> SUFFICES ASSUME NEW g \in Hooks, NEW k \in DOMAIN log'[g],
                      NEW x \in older[log'[g][k].entry]
               PROVE  /\ Marked(x)
                      /\ \A q \in Replicas : g \in Own(q)' => x \notin batch[q]
    BY <1>1 DEF OlderIsOver, Marked
  <2>1. CASE g = h /\ log'[h][k].entry = e
    BY <1>2, <1>6, <2>1
  <2>2. CASE k \in DOMAIN log[g] /\ log'[g][k] = log[g][k]
    BY <2>2 DEF OInv, OlderIsOver
  <2> QED
    BY <1>3, <1>4, <2>1, <2>2
<1>8. LoggedWasAdded'
  <2>1. status[e] # "absent"
    BY <1>2 DEF IInv, BatchesWereAdded
  <2>2. h \in used
    BY <1>2 DEF HInv, OwnedOnce
  <2> SUFFICES ASSUME NEW g \in Hooks
               PROVE  /\ \A k \in DOMAIN log'[g] : status[log'[g][k].entry] # "absent"
                      /\ log'[g] # << >> => g \in used
    BY <1>1 DEF LoggedWasAdded
  <2>3. CASE g = h
    BY <1>4, <2>1, <2>2, <2>3 DEF OInv, LoggedWasAdded
  <2>4. CASE g # h
    BY <1>3, <2>4 DEF OInv, LoggedWasAdded
  <2> QED
    BY <2>3, <2>4
<1>9. DeliveredInOrder'
  <2> SUFFICES ASSUME NEW g \in Hooks, NEW k \in DOMAIN log'[g], NEW j \in 1 .. k - 1
               PROVE  log'[g][k].entry \notin older[log'[g][j].entry]
    BY <1>1 DEF DeliveredInOrder
  <2>1. CASE g # h
    BY <1>3, <2>1 DEF OInv, DeliveredInOrder
  <2>2. CASE g = h /\ k \in 1 .. Len(log[h])
    <3>1. j \in 1 .. Len(log[h])
      BY <1>3, <2>2
    <3> QED
      BY <1>3, <2>2, <3>1 DEF OInv, DeliveredInOrder
  <2>3. CASE g = h /\ k = Len(log[h]) + 1
    <3>1. j \in DOMAIN log[h] /\ log'[h][j] = log[h][j] /\ log'[h][k].entry = e
      BY <1>3, <2>3
    <3> QED
      BY <1>2, <2>3, <3>1 DEF OInv, OlderIsOver
  <2> QED
    BY <1>3, <2>1, <2>2, <2>3
<1> QED
  BY <1>5, <1>7, <1>8, <1>9 DEF OInv

\* No step of WNext but a delivery adds to a log, and only Register to who is
\* in a process.
LEMMA OInvInductive ==
  /\ Init /\ HooksInit => OInv
  /\ IInv /\ HInv /\ HInv' /\ OInv /\ [WNext]_wvars => OInv'
<1>1. ASSUME Init, HooksInit
      PROVE  OInv
  <2>1. \A h \in Hooks : log[h] = << >> /\ DOMAIN log[h] = {}
    BY <1>1 DEF HooksInit
  <2> QED
    BY <1>1, <2>1 DEF Init, OInv, OlderInBatchOrMarked, OlderIsOver, LoggedWasAdded,
                      DeliveredInOrder
<1> SUFFICES ASSUME IInv, HInv, HInv', OInv, [WNext]_wvars
             PROVE  OInv'
  BY <1>1
<1>2. HooksTypeOK /\ HooksTypeOK' /\ [Next]_vars
  BY WebhooksAreARelay DEF HInv
<1>3. ASSUME NEW r \in Replicas, Accepted(r) \/ Refused(r) \/ GivenUp(r)
      PROVE  OInv'
  <2>1. PICK h \in Hooks, e \in Entries, ok \in BOOLEAN :
          /\ Delivering(r, h, e) /\ Logged(h, e, ok)
          /\ ToNext(r, e) \/ UNCHANGED queue
          /\ UNCHANGED <<vars, items, used>>
    BY <1>3 DEF Accepted, Refused, GivenUp
  <2>2. \A q \in Replicas : Own(q)' \subseteq Own(q)
    <3>1. CASE ToNext(r, e)
      <4>1. Tail(queue[r]) \in Seq(Hooks) /\ Members(Tail(queue[r])) \subseteq Members(queue[r])
        BY <2>1, TheOneDeliveredTo
      <4>2. /\ \A s \in Replicas \ {r} : queue'[s] = queue[s]
            /\ Members(queue'[r]) \subseteq Members(Tail(queue[r]))
        BY <1>2, <3>1, <4>1, GoingThrough DEF ToNext
      <4> QED
        BY <2>1, <4>1, <4>2 DEF Own
    <3>2. CASE UNCHANGED queue
      BY <2>1, <3>2 DEF Own
    <3> QED
      BY <2>1, <3>1, <3>2
  <2> QED
    BY <2>1, <2>2, DeliveryKeepsOInv
<1>4. ASSUME NEW r \in Replicas, NEW h \in Hooks, Register(r, h)
      PROVE  OInv'
  <2>1. /\ h \notin used /\ used' = used \cup {h} /\ UNCHANGED <<log, queue>>
        /\ items' = [items EXCEPT ![r] = Append(@, h)]
    BY <1>4 DEF Register
  <2>2. log[h] = << >>
    BY <2>1 DEF OInv, LoggedWasAdded
  <2>3. Members(Append(items[r], h)) \subseteq Members(items[r]) \cup {h}
    <3>1. items[r] \in Seq(Hooks)
      BY <1>2 DEF HooksTypeOK
    <3>2. /\ Append(items[r], h) \in Seq(Hooks)
          /\ Len(Append(items[r], h)) = Len(items[r]) + 1
          /\ \A i \in 1 .. Len(items[r]) : Append(items[r], h)[i] = items[r][i]
          /\ Append(items[r], h)[Len(items[r]) + 1] = h
      BY <3>1, AppendProperties
    <3>3. /\ DOMAIN items[r] = 1 .. Len(items[r]) /\ Len(items[r]) \in Nat
          /\ DOMAIN Append(items[r], h) = 1 .. Len(items[r]) + 1
      BY <3>1, <3>2, LenProperties
    <3> QED
      BY <3>2, <3>3 DEF Members
  <2>4. \A q \in Replicas : \A g \in Own(q)' : g \in Own(q) \/ g = h
    BY <1>2, <2>1, <2>3 DEF HooksTypeOK, Own
  <2> QED
    BY <1>2, <2>1, <2>2, <2>4, QuietKeepsOInv
<1>5. ASSUME UNCHANGED <<log, used>>, \A q \in Replicas : Own(q)' \subseteq Own(q)
      PROVE  OInv'
  BY <1>2, <1>5, QuietKeepsOInv
<1>6. ASSUME NEW r \in Replicas, NEW h \in Hooks, Delete(r, h)
      PROVE  OInv'
  <2>1. UNCHANGED <<log, used, queue>>
    BY <1>6 DEF Delete
  <2>2. \A q \in Replicas : Members(items'[q]) \subseteq Members(items[q])
    BY <1>2, <1>6, DeletedFromList
  <2> QED
    BY <1>5, <2>1, <2>2 DEF Own
<1>7. ASSUME NEW r \in Replicas, Begin(r)
      PROVE  OInv'
  <2>1. PICK e \in Entries : GoThrough(r, items[r], e)
    BY <1>7 DEF Begin
  <2>2. UNCHANGED <<log, used, items>> /\ items[r] \in Seq(Hooks)
    BY <1>2, <1>7 DEF Begin, HooksTypeOK
  <2>3. /\ \A s \in Replicas \ {r} : queue'[s] = queue[s]
        /\ Members(queue'[r]) \subseteq Members(items[r])
    BY <1>2, <2>1, <2>2, GoingThrough
  <2> QED
    BY <1>5, <2>2, <2>3 DEF Own
<1>8. ASSUME NEW r \in Replicas, Forget(r)
      PROVE  OInv'
  <2>1. Members(<< >>) = {}
    BY DEF Members
  <2>2. \A q \in Replicas : Own(q)' \subseteq Own(q)
    BY <1>2, <1>8, <2>1 DEF Forget, HooksTypeOK, Own
  <2> QED
    BY <1>5, <1>8, <2>2 DEF Forget
<1>9. ASSUME UNCHANGED <<log, used, items, queue>>
      PROVE  OInv'
  BY <1>5, <1>9 DEF Own
<1> QED
  BY <1>3, <1>4, <1>6, <1>7, <1>8, <1>9
     DEF WNext, Loop, Deliver, hooks, PublishHandled, Redrive, wvars

\* Deliveries to a subscription are in the order in which entries are added,
\* for any number of replicas, retries and drains that are cut off.
THEOREM WebhooksDeliveredInOrder == WSpec => []DeliveredInOrder
<1>1. Init /\ HooksInit => OInv
  BY OInvInductive
<1>2. IInv /\ HInv /\ HInv' /\ OInv /\ [WNext]_wvars => OInv'
  BY OInvInductive
<1>3. OInv => DeliveredInOrder
  BY DEF OInv
<1> QED
  BY <1>1, <1>2, <1>3, WebhooksInvariant, WebhooksKeepIInv, PTL DEF WSpec
=============================================================================
