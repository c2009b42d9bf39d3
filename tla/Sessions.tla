------------------------------ MODULE Sessions ------------------------------
(***************************************************************************)
(* Login sessions over SQL: a login starts a family of refresh tokens,     *)
(* every refresh consumes the token it is given and issues the next of its *)
(* family, a logout ends the family, and a background task prunes what is  *)
(* of no more use (services/refresh_store.py, services/prune_scheduler.py, *)
(* repositories/refresh_tokens.py, api/routes_auth.py).                    *)
(*                                                                         *)
(* Every repository call is a transaction of its own, so a refresh is four *)
(* reads and two writes between which anything can happen. Requests are    *)
(* served by any process.                                                  *)
(***************************************************************************)
EXTENDS Integers, FiniteSets

CONSTANTS Tokens,            \* an interval of Nat; a family is named by its first token
          NoToken,
          SessionWorkers,    \* requests that can be in flight at a time
          Lifetime,          \* ttl_seconds, in ticks
          MaxLogins,         \* bound: families
          SessionHorizon     \* bound: ticks

ASSUME SessionAssumption ==
    /\ Tokens \subseteq Nat /\ NoToken \notin Tokens
    /\ Lifetime \in Nat
    /\ MaxLogins \in Nat /\ SessionHorizon \in Nat

VARIABLES clock,             \* time.time()
          issued,            \* tokens made so far
          family,            \* [Tokens -> Tokens]
          expires,           \* [Tokens -> Nat]
          stored,            \* tokens that have a row
          consumed, revoked, \* flags of the rows, kept when the row is gone
          held,              \* tokens a client has received
          visit,             \* requests in flight
          ended,             \* history: families that were revoked
          overlapped,        \* history: families two requests worked on at once
          dropped            \* history: families whose next token got lost

sessionRows == <<issued, family, expires, stored, consumed, revoked>>
sessionHistory == <<ended, overlapped, dropped>>
sessionVars == <<clock, sessionRows, held, visit, sessionHistory>>

Idle == [pc |-> "idle", token |-> NoToken, subject |-> FALSE, used |-> FALSE]
RefreshSteps == {"look", "lookFamily", "get", "getFamily", "reuse", "consume", "issue"}
LogoutSteps == {"find", "end"}
Visits == {Idle} \cup [pc : RefreshSteps \cup LogoutSteps, token : Tokens,
                       subject : BOOLEAN, used : BOOLEAN]

SessionTypeOK ==
    /\ clock \in Nat
    /\ issued \subseteq Tokens
    /\ stored \subseteq issued
    /\ held \subseteq issued
    /\ consumed \subseteq issued
    /\ revoked \subseteq issued
    /\ family \in [Tokens -> Tokens]
    /\ expires \in [Tokens -> Nat]
    /\ visit \in [SessionWorkers -> Visits]
    /\ ended \subseteq Tokens /\ overlapped \subseteq Tokens /\ dropped \subseteq Tokens

SessionInit ==
    /\ clock = 0
    /\ issued = {} /\ stored = {} /\ consumed = {} /\ revoked = {} /\ held = {}
    /\ family = [t \in Tokens |-> t]
    /\ expires = [t \in Tokens |-> 0]
    /\ visit = [w \in SessionWorkers |-> Idle]
    /\ ended = {} /\ overlapped = {} /\ dropped = {}

(***************************************************************************)
(* The repository.                                                         *)
(***************************************************************************)
Families == {t \in issued : family[t] = t}
Members(f) == {t \in issued : family[t] = f}

IsFamilyRevoked(f) == \E t \in stored \cap revoked : family[t] = f

\* RefreshRecord.is_live.
IsLive(t) == t \in stored \ (revoked \cup consumed) /\ expires[t] >= clock

\* issue: a random token, of which the model keeps the order.
Issue(t, f) ==
    /\ issued = 1 .. t - 1
    /\ issued' = issued \cup {t}
    /\ stored' = stored \cup {t}
    /\ family' = [family EXCEPT ![t] = f]
    /\ expires' = [expires EXCEPT ![t] = clock + Lifetime]
    /\ UNCHANGED <<consumed, revoked>>

RevokeFamily(f) ==
    /\ revoked' = revoked \cup (stored \cap Members(f))
    /\ ended' = ended \cup {f}
    /\ UNCHANGED <<issued, family, expires, stored, consumed>>

\* prune deletes rows that no request can use.
Prunable(t) == expires[t] < clock \/ t \in consumed \/ t \in revoked
\* Mutant: rows about to expire go, too.
PrunedEarly == {t \in stored : ~(expires[t] <= clock \/ t \in consumed \/ t \in revoked)}

Pruned == {t \in stored : ~Prunable(t)}

(***************************************************************************)
(* Requests.                                                               *)
(***************************************************************************)
Working(f) == \E w \in SessionWorkers : visit[w] # Idle /\ family[visit[w].token] = f

\* A request that brings a token, while another may work on its family.
Begin(w, t, pc) ==
    /\ visit[w] = Idle
    /\ t \in held
    /\ visit' = [visit EXCEPT ![w] = [pc |-> pc, token |-> t, subject |-> FALSE, used |-> FALSE]]
    /\ overlapped' = IF Working(family[t]) THEN overlapped \cup {family[t]} ELSE overlapped
    /\ UNCHANGED <<clock, sessionRows, held, ended, dropped>>

GoTo(w, pc) == visit' = [visit EXCEPT ![w].pc = pc]
Leave(w) == visit' = [visit EXCEPT ![w] = Idle]
ReadOnly == UNCHANGED <<clock, sessionRows, held, sessionHistory>>

\* login: issue a first token; the answer may not arrive.
Login(t) ==
    /\ Cardinality(Families) < MaxLogins
    /\ Issue(t, t)
    /\ held' \in {held, held \cup {t}}
    /\ UNCHANGED <<clock, visit, sessionHistory>>

Refresh(w, t) == Begin(w, t, "look")
Logout(w, t) == Begin(w, t, "find")

\* subject_for: get, and its family.
Look(w) ==
    /\ visit[w].pc = "look"
    /\ GoTo(w, IF IsLive(visit[w].token) THEN "lookFamily" ELSE "get")
    /\ ReadOnly

LookFamily(w) ==
    /\ visit[w].pc = "lookFamily"
    /\ visit' = [visit EXCEPT ![w].pc = "get",
                              ![w].subject = ~IsFamilyRevoked(family[visit[w].token])]
    /\ ReadOnly

\* rotate: get, and what it finds is used after the next reads.
Get(w) ==
    /\ visit[w].pc = "get"
    /\ LET t == visit[w].token
       IN  IF t \in stored \ revoked
           THEN visit' = [visit EXCEPT ![w].pc = "getFamily", ![w].used = t \in consumed]
           ELSE Leave(w)
    /\ ReadOnly

\* Mutant: a token that expires is rotated for another tick.
GetFamilyLate(w) ==
    /\ visit[w].pc = "getFamily"
    /\ LET t == visit[w].token
       IN  IF IsFamilyRevoked(family[t])
           THEN Leave(w)
           ELSE GoTo(w, IF visit[w].used THEN "reuse" ELSE "consume")
    /\ ReadOnly

GetFamily(w) ==
    /\ visit[w].pc = "getFamily"
    /\ LET t == visit[w].token
       IN  IF IsFamilyRevoked(family[t]) \/ expires[t] < clock
           THEN Leave(w)
           ELSE GoTo(w, IF visit[w].used THEN "reuse" ELSE "consume")
    /\ ReadOnly

\* A token presented again ends its session.
Reuse(w) ==
    /\ visit[w].pc = "reuse"
    /\ RevokeFamily(family[visit[w].token])
    /\ Leave(w)
    /\ UNCHANGED <<clock, held, overlapped, dropped>>

\* mark_consumed has no effect on a row that is gone.
Consume(w) ==
    /\ visit[w].pc = "consume"
    /\ consumed' = consumed \cup ({visit[w].token} \cap stored)
    /\ GoTo(w, "issue")
    /\ UNCHANGED <<clock, issued, family, expires, stored, revoked, held, sessionHistory>>

\* The successor is stored, and answered if the subject was found.
IssueNext(w, t) ==
    LET f == family[visit[w].token]
    IN  /\ visit[w].pc = "issue"
        /\ Issue(t, f)
        /\ \/ visit[w].subject /\ held' = held \cup {t} /\ UNCHANGED dropped
           \/ UNCHANGED held /\ dropped' = dropped \cup {f}
        /\ Leave(w)
        /\ UNCHANGED <<clock, ended, overlapped>>

\* logout: revoke_token.
Find(w) ==
    /\ visit[w].pc = "find"
    /\ IF visit[w].token \in stored THEN GoTo(w, "end") ELSE Leave(w)
    /\ ReadOnly

\* Mutant: only the token that was presented is revoked.
EndOne(w) ==
    /\ visit[w].pc = "end"
    /\ revoked' = revoked \cup {visit[w].token}
    /\ ended' = ended \cup {family[visit[w].token]}
    /\ Leave(w)
    /\ UNCHANGED <<clock, issued, family, expires, stored, consumed, held, overlapped, dropped>>

End(w) ==
    /\ visit[w].pc = "end"
    /\ RevokeFamily(family[visit[w].token])
    /\ Leave(w)
    /\ UNCHANGED <<clock, held, overlapped, dropped>>

\* The process ends, or the database cannot be reached.
CutOff(w) ==
    /\ visit[w] # Idle
    /\ dropped' = IF visit[w].pc = "issue" THEN dropped \cup {family[visit[w].token]} ELSE dropped
    /\ Leave(w)
    /\ UNCHANGED <<clock, sessionRows, held, ended, overlapped>>

(***************************************************************************)
(* The prune task, and time.                                               *)
(***************************************************************************)
\* A sweep is one statement; one that fails is logged.
Sweep ==
    /\ stored' = Pruned
    /\ UNCHANGED <<clock, issued, family, expires, consumed, revoked, held, visit, sessionHistory>>

SessionTick ==
    /\ clock < SessionHorizon
    /\ clock' = clock + 1
    /\ UNCHANGED <<sessionRows, held, visit, sessionHistory>>

Visit(w) ==
    \/ Look(w) \/ LookFamily(w) \/ Get(w) \/ GetFamily(w) \/ Reuse(w) \/ Consume(w)
    \/ \E t \in Tokens : IssueNext(w, t)
    \/ Find(w) \/ End(w)

SessionNext ==
    \/ \E t \in Tokens : Login(t)
    \/ \E w \in SessionWorkers, t \in Tokens : Refresh(w, t) \/ Logout(w, t)
    \/ \E w \in SessionWorkers : Visit(w) \/ CutOff(w)
    \/ Sweep \/ SessionTick

SessionSpec == SessionInit /\ [][SessionNext]_sessionVars

-----------------------------------------------------------------------------
(***************************************************************************)
(* Properties.                                                             *)
(***************************************************************************)
Usable(t) == t \in stored \ (consumed \cup revoked)

\* A session has one usable token, or a refresh that is about to store the
\* next, unless two requests worked on it at once: never two, and none only
\* if it was ended, its next token was lost, or the last one expired. That
\* is, rotation and pruning never leave a client without its session
\* (rotate, prune).
OneTokenPerSession ==
    \A f \in Tokens \ overlapped :
        /\ \A t, u \in Members(f) : Usable(t) /\ Usable(u) => t = u
        /\ f \in Families \ (ended \cup dropped) =>
              \/ \E t \in Members(f) : Usable(t)
              \/ \E t \in Members(f) \ (stored \cup consumed) : expires[t] < clock
              \/ \E w \in SessionWorkers : visit[w].pc = "issue" /\ family[visit[w].token] = f

\* A session that was ended, by a logout or by a token that was presented
\* again, stays ended after its rows are pruned, unless another request
\* worked on it at once (revoke_family, is_family_revoked).
EndedStaysEnded ==
    \A f \in ended \ overlapped : \A t \in Members(f) : ~Usable(t)

\* A token that was consumed is answered with its successor: rotate does not
\* succeed where subject_for, earlier in the request, did not. Where requests
\* overlapped it may: pruning the rows that told of a revoked family lets one
\* that was issued at that moment pass again (refresh, prune).
RotatedIsAnswered ==
    \A w \in SessionWorkers :
        visit[w].pc \in {"consume", "issue"} /\ family[visit[w].token] \notin overlapped
            => visit[w].subject
=============================================================================
