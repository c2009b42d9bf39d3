------------------------- MODULE IdempotentCreation -------------------------
(***************************************************************************)
(* POST /incidents with an Idempotency-Key (api/routes_incidents.py): the  *)
(* response to a key is remembered in the memory of the process that gave  *)
(* it (services/idempotency.py), which keeps the Capacity keys used last.  *)
(*                                                                         *)
(* Between the look into the memory and the store into it, the request     *)
(* awaits the problem and every step of create_from_problem; of these the  *)
(* module keeps the one that inserts the incident.                         *)
(***************************************************************************)
EXTENDS Integers, SequencesExt

CONSTANTS Servers,          \* processes
          IdemKeys,         \* idempotency keys
          Posts,            \* requests that can be in flight at a time
          IdemCapacity,     \* responses a process remembers
          MaxUses,          \* bound: requests that the processes that run have answered
          MaxMade           \* bound: incidents

ASSUME IdemAssumption == IdemCapacity \in Nat \ {0} /\ MaxUses \in Nat /\ MaxMade \in Nat

VARIABLES remembered,       \* per process: its keys, the one used last at the end
          posts,            \* requests in flight
          made,             \* incidents created per key
          uses,             \* history: per process, the keys it answered
          excused           \* history: keys whose retry may create again

idemVars == <<remembered, posts, made, uses, excused>>

NoPost == [pc |-> "none"]
InFlight == [pc : {"creating", "storing"}, server : Servers, key : IdemKeys]

IdemTypeOK ==
    /\ remembered \in [Servers -> Seq(IdemKeys)]
    /\ posts \in [Posts -> {NoPost} \cup InFlight]
    /\ made \in [IdemKeys -> Nat]
    /\ uses \in [Servers -> Seq(IdemKeys)]
    /\ excused \subseteq IdemKeys

IdemInit ==
    /\ remembered = [s \in Servers |-> << >>]
    /\ posts = [r \in Posts |-> NoPost]
    /\ made = [k \in IdemKeys |-> 0]
    /\ uses = [s \in Servers |-> << >>]
    /\ excused = {}

Known(s) == ToSet(remembered[s])
Place(seq, k) == CHOOSE n \in DOMAIN seq : seq[n] = k
Moved(seq, k) ==
    Append(IF k \in ToSet(seq) THEN RemoveAt(seq, Place(seq, k)) ELSE seq, k)

\* Mutant: a key that is asked for keeps its place.
TouchNot(seq, k) == seq

\* get moves the key to the end.
Touch(seq, k) == Moved(seq, k)

\* Mutant: what was put last goes first.
PutFirst(seq, k) ==
    LET moved == Moved(seq, k)
    IN  IF Len(moved) > IdemCapacity THEN SubSeq(moved, 1, IdemCapacity) ELSE moved

\* put: the first keys go while there are too many.
Put(seq, k) ==
    LET moved == Moved(seq, k)
    IN  IF Len(moved) > IdemCapacity
        THEN SubSeq(moved, Len(moved) - IdemCapacity + 1, Len(moved)) ELSE moved

Creating(k) == \E r \in Posts : posts[r] # NoPost /\ posts[r].key = k
KnownElsewhere(s, k) == \E q \in Servers \ {s} : k \in Known(q)

Answered == FoldFunction(LAMBDA u, n : Len(u) + n, 0, uses)
Started == SumFunction(made) + Cardinality({r \in Posts : posts[r] # NoPost})

\* create_incident, up to its first await: a key that is known is answered
\* at once, with the response it had.
CreateWithKey(r, s, k) ==
    /\ posts[r] = NoPost
    /\ Answered < MaxUses /\ Started < MaxMade
    /\ \/ /\ k \in Known(s)
          /\ remembered' = [remembered EXCEPT ![s] = Touch(@, k)]
          /\ uses' = [uses EXCEPT ![s] = Append(@, k)]
          /\ UNCHANGED <<posts, excused>>
       \/ /\ k \notin Known(s)
          /\ posts' = [posts EXCEPT ![r] = [pc |-> "creating", server |-> s, key |-> k]]
          /\ excused' = IF Creating(k) \/ KnownElsewhere(s, k) THEN excused \cup {k} ELSE excused
          /\ UNCHANGED <<remembered, uses>>
    /\ UNCHANGED made

PostIs(r, pc) == posts[r] # NoPost /\ posts[r].pc = pc
Finish(r) == posts' = [posts EXCEPT ![r] = NoPost]

\* No such problem, another's venue, or a problem source that cannot be
\* reached: nothing was created.
Refuse(r) ==
    /\ PostIs(r, "creating")
    /\ Finish(r)
    /\ UNCHANGED <<remembered, made, uses, excused>>

Insert(r) ==
    /\ PostIs(r, "creating")
    /\ made' = [made EXCEPT ![posts[r].key] = @ + 1]
    /\ posts' = [posts EXCEPT ![r].pc = "storing"]
    /\ UNCHANGED <<remembered, uses, excused>>

\* A key that is pushed out may create again.
Store(r) ==
    /\ PostIs(r, "storing")
    /\ LET s == posts[r].server
           k == posts[r].key
           kept == Put(remembered[s], k)
       IN  /\ remembered' = [remembered EXCEPT ![s] = kept]
           /\ excused' = excused \cup (Known(s) \ ToSet(kept))
           /\ uses' = [uses EXCEPT ![s] = Append(@, k)]
    /\ Finish(r)
    /\ UNCHANGED made

\* A later step of create_from_problem fails, or the request is cancelled:
\* the incident is there and its key is not remembered.
Break(r) ==
    /\ PostIs(r, "storing")
    /\ excused' = excused \cup {posts[r].key}
    /\ Finish(r)
    /\ UNCHANGED <<remembered, made, uses>>

\* A process ends, with its memory and its requests, and starts again.
Restart(s) ==
    LET gone == {r \in Posts : posts[r] # NoPost /\ posts[r].server = s}
    IN  /\ remembered[s] # << >> \/ gone # {}
        /\ remembered' = [remembered EXCEPT ![s] = << >>]
        /\ uses' = [uses EXCEPT ![s] = << >>]
        /\ posts' = [r \in Posts |-> IF r \in gone THEN NoPost ELSE posts[r]]
        /\ excused' = excused \cup Known(s) \cup {posts[r].key : r \in {q \in gone : posts[q].pc = "storing"}}
        /\ UNCHANGED made

IdemNext ==
    \/ \E r \in Posts, s \in Servers, k \in IdemKeys : CreateWithKey(r, s, k)
    \/ \E r \in Posts : Refuse(r) \/ Insert(r) \/ Store(r) \/ Break(r)
    \/ \E s \in Servers : Restart(s)

IdemSpec == IdemInit /\ [][IdemNext]_idemVars

-----------------------------------------------------------------------------
(***************************************************************************)
(* Properties.                                                             *)
(***************************************************************************)
\* A key creates one incident, however often and whenever it is retried,
\* unless two requests with it were in flight at once, another process
\* answered it, its process ended or pushed it out, or the request that
\* created was broken off (create_incident; the hazards are those causes).
OneIncidentPerKey == \A k \in IdemKeys \ excused : made[k] <= 1

\* The keys used after the last use of k.
UsedSince(seq, k) ==
    {seq[i] : i \in {j \in DOMAIN seq : \A h \in j .. Len(seq) : seq[h] # k}}

\* A process knows the keys it answered with fewer than IdemCapacity others
\* since, and no other: a retry is answered again as long as it is among
\* the last, which a replay counts for as much as a creation (get, put).
RecentKeysAreKnown ==
    \A s \in Servers :
        Known(s) = {k \in ToSet(uses[s]) : Cardinality(UsedSince(uses[s], k)) < IdemCapacity}
=============================================================================
