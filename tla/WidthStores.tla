----------------------------- MODULE WidthStores -----------------------------
(***************************************************************************)
(* Runbooks and their executions, post-mortems, change events and feedback *)
(* on problems: a service answers reads from the memory of its process,    *)
(* changes that first, and then awaits the save of the whole document      *)
(* (services/runbook_service.py, postmortem_service.py,                    *)
(* change_event_service.py, davis_feedback_service.py,                     *)
(* repositories/sql/width_stores.py). Memory is read from the table when   *)
(* the process starts, and never again (AppContext.startup).               *)
(*                                                                         *)
(* A document is the set of the edits that it holds. A save is a           *)
(* transaction of its own that selects the row, and with the answer begins *)
(* to insert it, to update it, or, when it holds the document already,     *)
(* to leave it. What it writes is the document as it was when it was       *)
(* changed; a problem's feedback is the object in memory itself, which is  *)
(* serialised with that answer and may change again until the commit.      *)
(***************************************************************************)
EXTENDS Integers, FiniteSets

CONSTANTS Replicas,         \* processes
          Saves,            \* requests that can await their save at a time
          WidthDocs,             \* what has an id: unions of the next four
          Runbooks, Seeds,  \* runbooks, and those the code comes with
          Executions,       \* records of runbooks that were run
          Live,             \* feedback on a problem
          MaxEdits          \* bound: edits

ASSUME WidthAssumption ==
    /\ Seeds \subseteq Runbooks
    /\ Runbooks \cup Executions \cup Live \subseteq WidthDocs
    /\ Runbooks \cap (Executions \cup Live) = {} /\ Executions \cap Live = {}
    /\ MaxEdits \in Nat

VARIABLES table,            \* per document: the edits its row holds
          memory,           \* the same in each process
          saves,            \* requests in flight
          seeding,          \* per process that starts: seeds it has yet to store
          edits,            \* edits so far
          answered,         \* edits whose request was answered
          deleted,          \* runbooks whose deletion was answered
          foreign,          \* history: per process, what others changed since it loaded
          blind,            \* history: per process, what it failed to load
          ahead,            \* history: per process, what it failed to save
          strayed           \* history: documents that lost track, see below

widthHistory == <<foreign, blind, ahead, strayed>>
widthVars == <<table, memory, saves, seeding, edits, answered, deleted, widthHistory>>

Edits == 1 .. MaxEdits
NoDocument == {0}           \* no document, no row
Documents == (SUBSET Edits) \cup {NoDocument}
NoSave == [pc |-> "none"]
Services == {Runbooks \cup Executions, Live, WidthDocs \ (Runbooks \cup Executions \cup Live)}

SaveRecords == [pc : {"dispatch", "select", "insert", "update", "keep", "delete"},
                replica : Replicas, doc : WidthDocs, content : Documents, edit : Edits \cup {0}]

WidthTypeOK ==
    /\ table \in [WidthDocs -> Documents]
    /\ memory \in [Replicas -> [WidthDocs -> Documents]]
    /\ saves \in [Saves -> {NoSave} \cup SaveRecords]
    /\ seeding \in [Replicas -> SUBSET Seeds]
    /\ edits \in 0 .. MaxEdits
    /\ answered \subseteq WidthDocs \X Edits
    /\ deleted \subseteq Runbooks
    /\ {foreign, blind, ahead} \subseteq [Replicas -> SUBSET WidthDocs]
    /\ strayed \subseteq WidthDocs

\* Processes that started with empty tables, and stored their seeds.
WidthInit ==
    /\ table = [d \in WidthDocs |-> IF d \in Seeds THEN {} ELSE NoDocument]
    /\ memory = [p \in Replicas |-> table]
    /\ saves = [s \in Saves |-> NoSave]
    /\ seeding = [p \in Replicas |-> {}]
    /\ edits = 0
    /\ answered = {} /\ deleted = {} /\ strayed = {}
    /\ foreign = [p \in Replicas |-> {}]
    /\ blind = [p \in Replicas |-> {}]
    /\ ahead = [p \in Replicas |-> {}]

(***************************************************************************)
(* Requests: memory first.                                                 *)
(***************************************************************************)
Serving(p) == seeding[p] = {}
Knows(p, d) == memory[p][d] # NoDocument
Saving(d) == \E s \in Saves : saves[s] # NoSave /\ saves[s].doc = d
Unheard(d) == table[d] = NoDocument /\ ~Saving(d) /\ \A p \in Replicas : ~Knows(p, d)

\* Another request than s saves d and is past the point at which it takes
\* what it writes.
Outrun(s, d) ==
    \E t \in Saves \ {s} :
        saves[t] # NoSave /\ saves[t].doc = d /\ (d \in Live => saves[t].pc # "select")

\* A request s changes d at p: this is foreign to the others, and p may not
\* know what it changes, or may write it while an older save is under way.
Touches(s, p, d) ==
    /\ foreign' = [q \in Replicas |-> IF q = p THEN foreign[q] ELSE foreign[q] \cup {d}]
    /\ strayed' = IF d \in foreign[p] \cup blind[p] \/ Outrun(s, d)
                  THEN strayed \cup {d} ELSE strayed

Save(s, p, d, pc, content, edit) ==
    saves' = [saves EXCEPT ![s] =
                 [pc |-> pc, replica |-> p, doc |-> d, content |-> content, edit |-> edit]]

\* Put a document with one more edit into memory, and begin to save it.
Change(s, p, d) ==
    LET had == IF Knows(p, d) THEN memory[p][d] ELSE {}
        content == had \cup {edits + 1}
    IN  /\ edits < MaxEdits /\ edits' = edits + 1
        /\ memory' = [memory EXCEPT ![p][d] = content]
        /\ Save(s, p, d, "select", content, edits + 1)
        /\ Touches(s, p, d)
        /\ UNCHANGED <<table, seeding, answered, deleted, blind, ahead>>

\* create_runbook, create, record: under an id nobody had.
Make(s, p, d) ==
    /\ saves[s] = NoSave /\ Serving(p)
    /\ d \notin Live \cup Seeds \cup Executions \cup deleted
    /\ Unheard(d)
    /\ Change(s, p, d)

\* update_runbook, update and what calls it, link_incident: of a document
\* that the process knows; record_feedback, of any problem.
UpdateDoc(s, p, d) ==
    /\ saves[s] = NoSave /\ Serving(p)
    /\ d \in Live \/ (Knows(p, d) /\ d \notin Executions)
    /\ Change(s, p, d)

\* execute_runbook awaits the dispatch of a step before it records.
Execute(s, p, r, x) ==
    /\ saves[s] = NoSave /\ Serving(p)
    /\ r \in Runbooks /\ Knows(p, r)
    /\ x \in Executions /\ Unheard(x)
    /\ Save(s, p, x, "dispatch", NoDocument, 0)
    /\ UNCHANGED <<table, memory, seeding, edits, answered, deleted, widthHistory>>

Dispatched(s) ==
    /\ saves[s] # NoSave /\ saves[s].pc = "dispatch"
    /\ Change(s, saves[s].replica, saves[s].doc)

Delete(s, p, d) ==
    /\ saves[s] = NoSave /\ Serving(p)
    /\ d \in Runbooks /\ Knows(p, d)
    /\ memory' = [memory EXCEPT ![p][d] = NoDocument]
    /\ Save(s, p, d, "delete", NoDocument, 0)
    /\ Touches(s, p, d)
    /\ UNCHANGED <<table, seeding, edits, answered, deleted, blind, ahead>>

(***************************************************************************)
(* The save.                                                               *)
(***************************************************************************)
SaveIs(s, pcs) == saves[s] # NoSave /\ saves[s].pc \in pcs

\* Mutant: every save takes the document as it was changed.
CapturedEarly(s) == saves[s].content

\* What a save takes to write. Of feedback this is the object in memory.
Captured(s) ==
    IF saves[s].doc \in Live THEN memory[saves[s].replica][saves[s].doc] ELSE saves[s].content

\* merge and the flush: is there a row, and does it hold the document? Only
\* what differs is updated.
SelectRow(s) ==
    /\ SaveIs(s, {"select"})
    /\ LET row == table[saves[s].doc]
           pc == CASE row = NoDocument -> "insert"
                   [] row = Captured(s) -> "keep"
                   [] OTHER -> "update"
       IN  saves' = [saves EXCEPT ![s] = [@ EXCEPT !.pc = pc, !.content = Captured(s)]]
    /\ UNCHANGED <<table, memory, seeding, edits, answered, deleted, widthHistory>>

\* commit, and the answer: a row is inserted where there still is none, or
\* updated where there still is one.
Commit(s) ==
    /\ SaveIs(s, {"insert", "update", "keep"})
    /\ SaveIs(s, {"insert"}) => table[saves[s].doc] = NoDocument
    /\ SaveIs(s, {"update"}) => table[saves[s].doc] # NoDocument
    /\ table' = IF SaveIs(s, {"keep"}) THEN table
                ELSE [table EXCEPT ![saves[s].doc] = saves[s].content]
    /\ answered' = answered \cup {<<saves[s].doc, saves[s].edit>>}
    /\ ahead' = [ahead EXCEPT ![saves[s].replica] = @ \ {saves[s].doc}]
    /\ saves' = [saves EXCEPT ![s] = NoSave]
    /\ UNCHANGED <<memory, seeding, edits, deleted, foreign, blind, strayed>>

\* Mutant: a runbook is deleted from memory only.
ForgetRow(s) ==
    /\ SaveIs(s, {"delete"})
    /\ deleted' = deleted \cup {saves[s].doc}
    /\ saves' = [saves EXCEPT ![s] = NoSave]
    /\ UNCHANGED <<table, memory, seeding, edits, answered, widthHistory>>

DeleteRow(s) ==
    /\ SaveIs(s, {"delete"})
    /\ table' = [table EXCEPT ![saves[s].doc] = NoDocument]
    /\ deleted' = deleted \cup {saves[s].doc}
    /\ ahead' = [ahead EXCEPT ![saves[s].replica] = @ \ {saves[s].doc}]
    /\ saves' = [saves EXCEPT ![s] = NoSave]
    /\ UNCHANGED <<memory, seeding, edits, answered, foreign, blind, strayed>>

\* The row came or went meanwhile, the database cannot be reached, or the
\* client leaves: memory keeps what the table does not get.
FailSave(s) ==
    /\ saves[s] # NoSave
    /\ ahead' = IF SaveIs(s, {"dispatch"}) THEN ahead
                ELSE [ahead EXCEPT ![saves[s].replica] = @ \cup {saves[s].doc}]
    /\ saves' = [saves EXCEPT ![s] = NoSave]
    /\ UNCHANGED <<table, memory, seeding, edits, answered, deleted, foreign, blind, strayed>>

(***************************************************************************)
(* Startup.                                                                *)
(***************************************************************************)
Inherent(d) == IF d \in Seeds THEN {} ELSE NoDocument

\* The process ends, and its requests; it starts with what it can load. A
\* service whose load fails starts with what the code comes with.
Boot(p, failed) ==
    LET lost == UNION failed
        rest == [s \in Saves |-> IF saves[s] # NoSave /\ saves[s].replica = p THEN NoSave ELSE saves[s]]
        missing == {d \in Seeds \ lost : table[d] = NoDocument}
    IN  /\ Serving(p)
        /\ memory' = [memory EXCEPT ![p] =
              [d \in WidthDocs |-> IF d \in lost \/ table[d] = NoDocument THEN Inherent(d) ELSE table[d]]]
        /\ saves' = rest
        /\ seeding' = [seeding EXCEPT ![p] = missing]
        /\ foreign' = [q \in Replicas |->
              IF q = p THEN {rest[s].doc : s \in {t \in Saves : rest[t] # NoSave}}
                            \cup UNION {seeding[r] : r \in Replicas \ {p}}
              ELSE foreign[q] \cup missing]
        /\ blind' = [blind EXCEPT ![p] = lost]
        /\ ahead' = [ahead EXCEPT ![p] = {}]
        /\ UNCHANGED <<table, edits, answered, deleted, strayed>>

\* load stores the seeds it found no row for, one after the other.
StoreSeed(p, d) ==
    /\ d \in seeding[p]
    /\ table' = [table EXCEPT ![d] = {}]
    /\ seeding' = [seeding EXCEPT ![p] = @ \ {d}]
    /\ strayed' = IF d \in foreign[p] THEN strayed \cup {d} ELSE strayed
    /\ UNCHANGED <<memory, saves, edits, answered, deleted, foreign, blind, ahead>>

\* Storing them fails; startup goes on.
FailSeed(p) ==
    /\ seeding[p] # {}
    /\ ahead' = [ahead EXCEPT ![p] = @ \cup seeding[p]]
    /\ seeding' = [seeding EXCEPT ![p] = {}]
    /\ UNCHANGED <<table, memory, saves, edits, answered, deleted, foreign, blind, strayed>>

Request(d) ==
    \E s \in Saves, p \in Replicas :
        \/ Make(s, p, d) \/ UpdateDoc(s, p, d) \/ Delete(s, p, d)
        \/ \E r \in Runbooks : Execute(s, p, r, d)

GoOn == \E s \in Saves : Dispatched(s) \/ SelectRow(s) \/ Commit(s) \/ DeleteRow(s) \/ FailSave(s)
SeedStep == \E p \in Replicas : FailSeed(p) \/ \E d \in Seeds : StoreSeed(p, d)

WidthNext ==
    \/ \E d \in WidthDocs : Request(d)
    \/ GoOn
    \/ \E p \in Replicas, failed \in SUBSET Services : Boot(p, failed)
    \/ SeedStep

WidthSpec == WidthInit /\ [][WidthNext]_widthVars

-----------------------------------------------------------------------------
(***************************************************************************)
(* Properties. A document is strayed once a process changed it that did    *)
(* not know what another had made of it, or that had failed to load it, or *)
(* while it was being saved already; feedback, once it was changed while a *)
(* save of it had been serialised and was not over.                        *)
(***************************************************************************)
\* What a process shows is what is stored, and what it will show after a
\* restart, for every document that nobody else changed, that was loaded,
\* that is not being saved and whose last save did not fail: deleted ones,
\* seeds, and feedback given while an earlier one still awaits the SELECT of
\* its save included (update, _persist, delete_runbook, record_feedback, load).
ShownIsStored ==
    \A p \in Replicas, d \in WidthDocs :
        d \notin strayed \cup foreign[p] \cup blind[p] \cup ahead[p] \cup seeding[p] /\ ~Saving(d)
            => memory[p][d] = table[d]

\* An edit that was answered stays in the table until its runbook is
\* deleted, whatever is saved, fails and restarts after it, unless the
\* document strayed: two saves of a runbook, or of feedback that was
\* serialised for one before the other came, may land in either order (save,
\* record_feedback).
AnsweredIsKept ==
    \A d \in WidthDocs \ (strayed \cup deleted) : \A e \in Edits :
        <<d, e>> \in answered => e \in table[d]
=============================================================================
