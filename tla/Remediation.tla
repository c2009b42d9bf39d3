---------------------------- MODULE Remediation ----------------------------
(***************************************************************************)
(* Remediation: an analysis proposes actions, the guardrails approve some, *)
(* people approve, reject and execute them, and what is executed is sent   *)
(* to an automation backend (services/store.py, api/routes.py,             *)
(* services/remediation.py, services/dispatch_service.py).                 *)
(*                                                                         *)
(* The store is an object of one process, and so are the settings: an      *)
(* action is known where it was proposed, until that process ends.         *)
(* Handlers of the store do not await; analyze awaits the agent before it  *)
(* touches the store, and execute the backend after it has.                *)
(***************************************************************************)
EXTENDS Integers, Sequences

CONSTANTS Actions,       \* ids of actions, new in each analysis
          Risk,          \* [Actions -> Risks]
          Ranks,         \* ranks of the severities: an interval
          Workers,       \* executions that can be under way at a time
          MaxDecisions   \* bound: decisions in the log of a process

Risks == {"LOW", "MEDIUM", "HIGH"}

ASSUME RemediationAssumption ==
    /\ Risk \in [Actions -> Risks]
    /\ Ranks \subseteq Nat
    /\ MaxDecisions \in Nat

VARIABLES standing,      \* [Actions -> Standings]: the status of an action;
                         \* "absent": not in the store
          decided,       \* the decisions, in order
          auto,          \* auto_approve_low_risk
          ceiling,       \* rank of max_auto_approve_severity; {}: no severity
          waiting,       \* the action of an execution that awaits the backend
          proposed,      \* history: ids given out by the planner
          approvals,     \* history: how often an action was approved
          sent           \* history: how often it was sent to the backend

store == <<standing, decided, proposed, approvals>>
settings == <<auto, ceiling>>
remediationVars ==
    <<standing, decided, auto, ceiling, waiting, proposed, approvals, sent>>

Approved == {"APPROVED", "AUTO_APPROVED"}
Standings == Approved \cup {"absent", "PROPOSED", "REJECTED", "EXECUTED"}
Decisions == [action : Actions, approved : BOOLEAN, auto : BOOLEAN]
AtMostOne(S) == {{}} \cup {{x} : x \in S}

RemediationTypeOK ==
    /\ standing \in [Actions -> Standings]
    /\ decided \in Seq(Decisions)
    /\ auto \in BOOLEAN
    /\ ceiling \in AtMostOne(Ranks)
    /\ waiting \in [Workers -> AtMostOne(Actions)]
    /\ proposed \subseteq Actions
    /\ approvals \in [Actions -> Nat]
    /\ sent \in [Actions -> Nat]

RemediationInit ==
    /\ standing = [a \in Actions |-> "absent"]
    /\ decided = << >>
    /\ auto \in BOOLEAN
    /\ ceiling \in AtMostOne(Ranks)
    /\ waiting = [w \in Workers |-> {}]
    /\ proposed = {}
    /\ approvals = [a \in Actions |-> 0]
    /\ sent = [a \in Actions |-> 0]

(***************************************************************************)
(* Proposals.                                                              *)
(***************************************************************************)
\* Mutant: any action within the ceiling.
CanAutoApproveAny(a, severity) == auto /\ \E r \in ceiling : severity <= r

\* A ceiling that names no severity raises, which leaves the actions
\* registered and undecided.
CanAutoApprove(a, severity) ==
    auto /\ Risk[a] = "LOW" /\ \E r \in ceiling : severity <= r

\* plan_remediations: one action of low risk, for a database after one of
\* medium risk.
Plans ==
    {S \in SUBSET (Actions \ proposed) :
        \E low \in S : /\ Risk[low] = "LOW"
                       /\ \A a \in S \ {low} : Risk[a] = "MEDIUM" /\ S = {a, low}}

\* analyze: register, then decide for those the guardrails let through.
Analyze(S, severity) ==
    LET approved == {a \in S : CanAutoApprove(a, severity)}
    IN  /\ S \in Plans
        /\ proposed' = proposed \cup S
        /\ standing' = [a \in Actions |-> IF a \in approved THEN "AUTO_APPROVED"
                                          ELSE IF a \in S THEN "PROPOSED" ELSE standing[a]]
        /\ approvals' = [a \in Actions |-> approvals[a] + IF a \in approved THEN 1 ELSE 0]
        /\ \/ approved = {} /\ UNCHANGED decided
           \/ \E a \in approved :
                 decided' = Append(decided, [action |-> a, approved |-> TRUE, auto |-> TRUE])
        /\ UNCHANGED <<settings, waiting, sent>>

(***************************************************************************)
(* Decisions and settings.                                                 *)
(***************************************************************************)
\* decide, for approve and reject: whatever the status.
Decide(a, approved) ==
    /\ standing[a] # "absent"
    /\ Len(decided) < MaxDecisions
    /\ standing' = [standing EXCEPT ![a] = IF approved THEN "APPROVED" ELSE "REJECTED"]
    /\ decided' = Append(decided, [action |-> a, approved |-> approved, auto |-> FALSE])
    /\ approvals' = [approvals EXCEPT ![a] = @ + IF approved THEN 1 ELSE 0]
    /\ UNCHANGED <<settings, waiting, proposed, sent>>

\* update_settings takes any string for a severity.
UpdateSettings ==
    /\ auto' \in BOOLEAN
    /\ ceiling' \in AtMostOne(Ranks)
    /\ UNCHANGED <<store, waiting, sent>>

(***************************************************************************)
(* Execution.                                                              *)
(***************************************************************************)
Send(w, a) ==
    /\ waiting[w] = {}
    /\ waiting' = [waiting EXCEPT ![w] = {a}]
    /\ sent' = [sent EXCEPT ![a] = @ + 1]

\* execute up to its await: the check, the mark and the request.
Execute(w, a) ==
    /\ standing[a] \in Approved
    /\ standing' = [standing EXCEPT ![a] = "EXECUTED"]
    /\ Send(w, a)
    /\ UNCHANGED <<decided, proposed, approvals, settings>>

\* Mutant: a failed dispatch leaves the action as it was when it was checked.
AnsweredRestores(w) ==
    /\ waiting[w] # {}
    /\ waiting' = [waiting EXCEPT ![w] = {}]
    /\ \/ UNCHANGED standing
       \/ \E a \in waiting[w] : standing' = [standing EXCEPT ![a] = "APPROVED"]
    /\ UNCHANGED <<decided, proposed, approvals, settings, sent>>

\* Mutant: the action is marked (again) when the backend has answered.
AnsweredMarks(w) ==
    /\ waiting[w] # {}
    /\ waiting' = [waiting EXCEPT ![w] = {}]
    /\ standing' = [a \in Actions |-> IF a \in waiting[w] THEN "EXECUTED" ELSE standing[a]]
    /\ UNCHANGED <<decided, proposed, approvals, settings, sent>>

\* The backend answers, or the request fails: the action stays executed.
Answered(w) ==
    /\ waiting[w] # {}
    /\ waiting' = [waiting EXCEPT ![w] = {}]
    /\ UNCHANGED <<store, settings, sent>>

\* The process ends: the store is gone, and the settings are read from the
\* environment of the next one.
Restart ==
    /\ standing' = [a \in Actions |-> "absent"]
    /\ decided' = << >>
    /\ auto' \in BOOLEAN
    /\ ceiling' \in AtMostOne(Ranks)
    /\ waiting' = [w \in Workers |-> {}]
    /\ UNCHANGED <<proposed, approvals, sent>>

RemediationNext ==
    \/ \E S \in Plans, severity \in Ranks : Analyze(S, severity)
    \/ \E a \in Actions, approved \in BOOLEAN : Decide(a, approved)
    \/ \E w \in Workers, a \in Actions : Execute(w, a)
    \/ \E w \in Workers : Answered(w)
    \/ UpdateSettings
    \/ Restart

RemediationSpec == RemediationInit /\ [][RemediationNext]_remediationVars

-----------------------------------------------------------------------------
(***************************************************************************)
(* Properties.                                                             *)
(***************************************************************************)
\* The last decision on an action is an approval, or a rejection.
LastIs(a, approved) ==
    \E k \in DOMAIN decided :
        /\ decided[k].action = a /\ decided[k].approved = approved
        /\ \A j \in k + 1 .. Len(decided) : decided[j].action # a

ApprovedByHand(a) ==
    \E k \in DOMAIN decided : decided[k] = [action |-> a, approved |-> TRUE, auto |-> FALSE]

\* A runbook is sent to the backend at most as often as it was approved,
\* however executions, their failures and new decisions overlap (execute
\* checks and marks before it awaits the dispatch).
OneLaunchPerApproval == \A a \in Actions : sent[a] <= approvals[a]

\* The status of an action agrees with the last decision on it in the log,
\* decisions during a dispatch included: what was rejected does not come to
\* be approved or executed, nor the other way round (decide, mark_executed).
StatusIsTheLastWord ==
    \A a \in Actions :
        /\ standing[a] \in Approved \cup {"EXECUTED"} => LastIs(a, TRUE)
        /\ standing[a] = "REJECTED" => LastIs(a, FALSE)
        /\ standing[a] \in {"absent", "PROPOSED"} =>
              \A k \in DOMAIN decided : decided[k].action # a

\* What is sent was approved last, and by a person if its risk is not low,
\* whatever the guardrails were set to in between (can_auto_approve).
StartedAsDecided ==
    [][\A a \in Actions : sent'[a] > sent[a] =>
          LastIs(a, TRUE) /\ (Risk[a] = "LOW" \/ ApprovedByHand(a))]_remediationVars
=============================================================================
