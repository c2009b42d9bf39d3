----------------------------- MODULE AuditPages -----------------------------
(***************************************************************************)
(* Reading the audit log while it is written: by cursor, in ascending id   *)
(* (api/routes_audit.py), and by offset, newest first, over the first      *)
(* ScanLimit rows (api/routes_auth.py, routes_analysis.py), out of         *)
(* SQLAuditLogRepository. An id is a millisecond followed by a random      *)
(* number, and is made before its row is committed.                        *)
(*                                                                         *)
(* The entries of the module are those the reader asks for: the filters    *)
(* are part of the query. The processes that write have one clock.         *)
(***************************************************************************)
EXTENDS Integers, FiniteSets

CONSTANTS Writers,          \* entries that can await their commit at a time
          Salts,            \* random numbers: 0 .. Salts - 1
          PageLimit,        \* what the client asks for at a time
          ScanLimit,        \* 10_000
          AuditHorizon,     \* bound: milliseconds
          MaxEntries        \* bound: entries

ASSUME AuditAssumption ==
    /\ Salts \in Nat \ {0} /\ PageLimit \in Nat \ {0} /\ ScanLimit \in Nat \ {0}
    /\ AuditHorizon \in Nat /\ MaxEntries \in Nat

VARIABLES millis,           \* the clock
          minted,           \* ids made so far
          pending,          \* per writer: the id that awaits its commit
          log,              \* ids that have a row
          reader,           \* the client that reads page by page
          seen,             \* ids it was given
          twice,            \* history: ids it was given again
          before,           \* history: rows there were when it began
          late,             \* history: rows committed behind the reader
          inFlight          \* history: ids pending when the last page was read

readVars == <<reader, seen, twice, before>>
auditVars == <<millis, minted, pending, log, late, inFlight, readVars>>

StartPages == -1                 \* before every id
NoEntry == -1
AuditIds == 0 .. (AuditHorizon + 1) * Salts - 1
MillisOf(id) == id \div Salts

AuditTypeOK ==
    /\ millis \in 0 .. AuditHorizon
    /\ minted \subseteq AuditIds
    /\ log \subseteq minted
    /\ pending \in [Writers -> AuditIds \cup {NoEntry}]
    /\ reader \in [by : {"cursor", "offset"}, at : Nat \cup {StartPages}, done : BOOLEAN]
    /\ {seen, twice, before, late} \subseteq SUBSET log
    /\ inFlight \subseteq minted

AuditInit ==
    /\ millis = 0
    /\ minted = {} /\ log = {} /\ late = {} /\ inFlight = {}
    /\ pending = [w \in Writers |-> NoEntry]
    /\ \/ reader = [by |-> "cursor", at |-> StartPages, done |-> FALSE]
       \/ reader = [by |-> "offset", at |-> 0, done |-> FALSE]
    /\ seen = {} /\ twice = {} /\ before = {}

\* The n lowest, and the n highest, of a set.
Lowest(S, n) == {x \in S : Cardinality({y \in S : y < x}) < n}
Highest(S, n) == {x \in S : Cardinality({y \in S : y > x}) < n}

\* What auth_events and the others ask of the repository: rows in ascending id.
Scanned == Lowest(log, ScanLimit)

(***************************************************************************)
(* Writing.                                                                *)
(***************************************************************************)
\* Mutant: an id without its time.
MintAny(w, id) ==
    /\ pending[w] = NoEntry
    /\ Cardinality(minted) < MaxEntries
    /\ id \in AuditIds \ minted
    /\ minted' = minted \cup {id}
    /\ pending' = [pending EXCEPT ![w] = id]
    /\ UNCHANGED <<millis, log, late, inFlight, readVars>>

\* new_audit_id.
Mint(w, id) ==
    /\ pending[w] = NoEntry
    /\ Cardinality(minted) < MaxEntries
    /\ id \in AuditIds \ minted /\ MillisOf(id) = millis
    /\ minted' = minted \cup {id}
    /\ pending' = [pending EXCEPT ![w] = id]
    /\ UNCHANGED <<millis, log, late, inFlight, readVars>>

\* add. The history notes a row that comes behind the cursor, or that pushes
\* another one out of the rows that are scanned for an offset.
Record(w) ==
    /\ pending[w] # NoEntry
    /\ log' = log \cup {pending[w]}
    /\ late' = IF \/ reader.by = "cursor" /\ pending[w] <= reader.at
                  \/ reader.by = "offset" /\ ~(Scanned \subseteq Scanned')
               THEN late \cup {pending[w]} ELSE late
    /\ pending' = [pending EXCEPT ![w] = NoEntry]
    /\ UNCHANGED <<millis, minted, inFlight, readVars>>

RecordFails(w) ==
    /\ pending[w] # NoEntry
    /\ pending' = [pending EXCEPT ![w] = NoEntry]
    /\ UNCHANGED <<millis, minted, log, late, inFlight, readVars>>

AuditTick ==
    /\ millis < AuditHorizon
    /\ millis' = millis + 1
    /\ UNCHANGED <<minted, pending, log, late, inFlight, readVars>>

(***************************************************************************)
(* Reading.                                                                *)
(***************************************************************************)
\* query, after a cursor.
RestAfter(cursor) == {id \in log : id > cursor}

NextCursor(fetched, page) == CHOOSE x \in page : \A y \in page : y <= x

Give(page) ==
    /\ seen' = seen \cup page
    /\ twice' = twice \cup (seen \cap page)
    /\ inFlight' = {pending[w] : w \in Writers} \ {NoEntry}

\* query_audit: one entry more than the page tells whether there is another.
ReadByCursor ==
    /\ reader.by = "cursor" /\ ~reader.done
    /\ before' = IF reader.at = StartPages THEN log ELSE before
    /\ LET fetched == Lowest(RestAfter(reader.at), PageLimit + 1)
           page == Lowest(fetched, PageLimit)
       IN  /\ Give(page)
           /\ reader' = IF fetched = page
                        THEN [reader EXCEPT !.done = TRUE]
                        ELSE [reader EXCEPT !.at = NextCursor(fetched, page)]
    /\ UNCHANGED <<millis, minted, pending, log, late>>

\* Mutant: a page begins where the last one would end if nothing came.
OffsetPageShort(offset) ==
    Highest(Scanned, offset + PageLimit) \ Highest(Scanned, offset + 1)

\* auth_events, slo_burn_events: rows[offset : offset + limit].
OffsetPage(offset) ==
    Highest(Scanned, offset + PageLimit) \ Highest(Scanned, offset)

\* The client asks for the next page until one is not full.
ReadByOffset ==
    /\ reader.by = "offset" /\ ~reader.done
    /\ before' = IF reader.at = 0 THEN log ELSE before
    /\ LET page == OffsetPage(reader.at)
       IN  /\ Give(page)
           /\ reader' = [reader EXCEPT !.at = @ + PageLimit,
                                       !.done = Cardinality(page) < PageLimit]
    /\ UNCHANGED <<millis, minted, pending, log, late>>

AuditNext ==
    \/ \E w \in Writers : Record(w) \/ RecordFails(w) \/ \E id \in AuditIds : Mint(w, id)
    \/ ReadByCursor \/ ReadByOffset
    \/ AuditTick

AuditSpec == AuditInit /\ [][AuditNext]_auditVars

-----------------------------------------------------------------------------
(***************************************************************************)
(* Properties.                                                             *)
(***************************************************************************)
\* Following the cursor, a client is given nothing twice, all there was when
\* it began, and all that the cursor has passed - except what was committed
\* after the cursor had passed its id (query_audit, query).
CursorMissesOnlyLate ==
    reader.by = "cursor" =>
        /\ twice = {}
        /\ {id \in log : id <= reader.at} \subseteq seen \cup late
        /\ reader.done => before \subseteq seen

\* Paging by offset, a client is given at least once what there was when it
\* began and is among the oldest ScanLimit rows - unless a row was committed
\* late among these, which pushed another one out and moved others up, behind
\* the offset. Newer rows than these it is never given (auth_events,
\* slo_burn_events).
OffsetMissesOnlyPushed ==
    reader.by = "offset" /\ reader.done /\ late = {} => before \cap Scanned \subseteq seen

\* What either way of paging promises, and what it does not: rows are written
\* behind the reader, and the code gives these to nobody who has gone past
\* (query_audit; auth_events, slo_burn_events).
PagesMissOnlyLateRows == CursorMissesOnlyLate /\ OffsetMissesOnlyPushed

\* What the cursor passed by was being written when a page was read, or is
\* of the millisecond at which the cursor stands: one that is made in a
\* later millisecond is never passed by (new_audit_id, query_audit).
PassedByWasPending ==
    [][reader.by = "cursor" =>
         \A id \in late' \ late : id \in inFlight \/ MillisOf(id) = MillisOf(reader.at)]_auditVars

\* docs/ARCHITECTURE.md says that following the cursor leaves no gaps while
\* others insert: what the cursor has passed was given to the client. It is
\* not so of a row whose id was made before the cursor passed, and that was
\* committed after (add, query).
NoGaps == reader.by = "cursor" => {id \in log : id <= reader.at} \subseteq seen
=============================================================================
