-------------------------- MODULE RemediationProofs --------------------------
(***************************************************************************)
(* For any actions, executions and settings: a runbook is sent at most as  *)
(* often as it was approved, and the status of an action agrees with the   *)
(* last decision on it.  The invariant adds that an approved action has an *)
(* approval left, and that an approval in the log of an action whose risk  *)
(* is not low is by hand.                                                  *)
(***************************************************************************)
EXTENDS Remediation, SequenceTheorems, TLAPS

\* An action that may be executed was approved more often than sent.
ApprovalLeft ==
    \A a \in Actions : standing[a] \in Approved => sent[a] + 1 <= approvals[a]

\* The guardrails approve nothing of a higher risk.
AutoIsLowRisk ==
    \A k \in DOMAIN decided :
        decided[k].approved /\ Risk[decided[k].action] # "LOW" => ~ decided[k].auto

OnlyProposed == \A a \in Actions : standing[a] # "absent" => a \in proposed

IInv ==
    /\ RemediationTypeOK
    /\ OneLaunchPerApproval
    /\ ApprovalLeft
    /\ StatusIsTheLastWord
    /\ AutoIsLowRisk
    /\ OnlyProposed

\* What one decision more does to the log.
LEMMA Deciding ==
  ASSUME RemediationTypeOK, NEW d \in Decisions, decided' = Append(decided, d)
  PROVE  /\ decided' \in Seq(Decisions)
         /\ LastIs(d.action, d.approved)'
         /\ \A a \in Actions \ {d.action}, v \in BOOLEAN : LastIs(a, v) => LastIs(a, v)'
         /\ \A a \in Actions \ {d.action} :
               (\A k \in DOMAIN decided : decided[k].action # a) =>
                  \A k \in DOMAIN decided' : decided'[k].action # a
         /\ \A k \in DOMAIN decided' : decided'[k] = d \/ (k \in DOMAIN decided /\ decided'[k] = decided[k])
<1>1. decided \in Seq(Decisions)
  BY DEF RemediationTypeOK
<1>2. /\ decided' \in Seq(Decisions) /\ Len(decided') = Len(decided) + 1
      /\ \A i \in 1 .. Len(decided) : decided'[i] = decided[i]
      /\ decided'[Len(decided) + 1] = d
  BY <1>1, AppendProperties
<1>3. /\ Len(decided) \in Nat /\ DOMAIN decided = 1 .. Len(decided)
      /\ DOMAIN decided' = 1 .. Len(decided) + 1
  BY <1>1, <1>2, LenProperties
<1>4. LastIs(d.action, d.approved)'
  <2>1. Len(decided) + 1 \in DOMAIN decided' /\ Len(decided) + 1 + 1 > Len(decided')
    BY <1>2, <1>3
  <2> QED
    BY <1>2, <1>3, <2>1 DEF LastIs
<1>5. ASSUME NEW a \in Actions \ {d.action}, NEW v \in BOOLEAN, LastIs(a, v)
      PROVE  LastIs(a, v)'
  <2>1. PICK k \in 1 .. Len(decided) :
          /\ decided[k].action = a /\ decided[k].approved = v
          /\ \A j \in k + 1 .. Len(decided) : decided[j].action # a
    BY <1>3, <1>5 DEF LastIs
  <2>2. k \in DOMAIN decided' /\ decided'[k] = decided[k]
    BY <1>2, <1>3
  <2>3. \A j \in k + 1 .. Len(decided') : decided'[j].action # a
    <3> SUFFICES ASSUME NEW j \in k + 1 .. Len(decided')
                 PROVE  decided'[j].action # a
      OBVIOUS
    <3>1. CASE j = Len(decided) + 1
      BY <1>2, <3>1
    <3>2. CASE j # Len(decided) + 1
      <4>1. j \in k + 1 .. Len(decided) /\ j \in 1 .. Len(decided)
        BY <1>2, <1>3, <3>2
      <4> QED
        BY <1>2, <2>1, <4>1
    <3> QED
      BY <3>1, <3>2
  <2> QED
    BY <2>1, <2>2, <2>3 DEF LastIs
<1>6. \A k \in DOMAIN decided' : decided'[k] = d \/ (k \in DOMAIN decided /\ decided'[k] = decided[k])
  BY <1>2, <1>3
<1> QED
  BY <1>2, <1>4, <1>5, <1>6

LEMMA AnalyzeKeepsIInv ==
  ASSUME IInv, NEW S \in Plans, NEW severity \in Ranks, Analyze(S, severity)
  PROVE  IInv'
<1> DEFINE approved == {a \in S : CanAutoApprove(a, severity)}
<1>1. /\ proposed' = proposed \cup S
      /\ standing' = [a \in Actions |-> IF a \in approved THEN "AUTO_APPROVED"
                                      ELSE IF a \in S THEN "PROPOSED" ELSE standing[a]]
      /\ approvals' = [a \in Actions |-> approvals[a] + IF a \in approved THEN 1 ELSE 0]
      /\ \/ approved = {} /\ UNCHANGED decided
         \/ \E a \in approved :
               decided' = Append(decided, [action |-> a, approved |-> TRUE, auto |-> TRUE])
      /\ UNCHANGED <<auto, ceiling, waiting, sent>>
  BY DEF Analyze, settings
<1>2. /\ S \subseteq Actions \ proposed /\ approved \subseteq S
      /\ \A a \in approved : Risk[a] = "LOW"
      /\ \A a, b \in approved : a = b
  BY DEF Plans, CanAutoApprove
<1> HIDE DEF approved
<1>3. RemediationTypeOK /\ \A a \in S : standing[a] = "absent"
  BY <1>2 DEF IInv, OnlyProposed
<1>4. CASE approved = {}
  <2>1. /\ UNCHANGED decided
        /\ \A a \in Actions : approvals'[a] = approvals[a]
        /\ \A a \in Actions : standing'[a] = IF a \in S THEN "PROPOSED" ELSE standing[a]
    BY <1>1, <1>3, <1>4 DEF RemediationTypeOK
  <2>2. RemediationTypeOK'
    BY <1>1, <1>2, <1>3, <1>4, <2>1 DEF RemediationTypeOK, Standings, Approved
  <2>3. OneLaunchPerApproval' /\ ApprovalLeft' /\ AutoIsLowRisk' /\ OnlyProposed'
    BY <1>1, <1>2, <2>1 DEF IInv, OneLaunchPerApproval, ApprovalLeft, AutoIsLowRisk,
                            OnlyProposed, Approved
  <2>4. StatusIsTheLastWord'
    BY <1>2, <1>3, <2>1 DEF IInv, StatusIsTheLastWord, LastIs, Approved
  <2> QED
    BY <2>2, <2>3, <2>4 DEF IInv
<1>5. CASE approved # {}
  <2>1. PICK b \in approved :
          decided' = Append(decided, [action |-> b, approved |-> TRUE, auto |-> TRUE])
    BY <1>1, <1>5
  <2> DEFINE d == [action |-> b, approved |-> TRUE, auto |-> TRUE]
  <2>2. /\ b \in S /\ b \in Actions /\ d \in Decisions /\ Risk[b] = "LOW" /\ standing[b] = "absent"
        /\ d.action = b /\ d.approved = TRUE /\ decided' = Append(decided, d)
    BY <1>2, <1>3, <2>1 DEF Decisions
  <2> HIDE DEF d
  <2>3. /\ \A a \in Actions : approvals'[a] = approvals[a] + IF a = b THEN 1 ELSE 0
        /\ \A a \in Actions : standing'[a] = IF a = b THEN "AUTO_APPROVED"
                                           ELSE IF a \in S THEN "PROPOSED" ELSE standing[a]
    BY <1>1, <1>2, <2>1
  <2>4. /\ decided' \in Seq(Decisions) /\ LastIs(b, TRUE)'
        /\ \A a \in Actions \ {b}, v \in BOOLEAN : LastIs(a, v) => LastIs(a, v)'
        /\ \A a \in Actions \ {b} :
              (\A k \in DOMAIN decided : decided[k].action # a) =>
                 \A k \in DOMAIN decided' : decided'[k].action # a
        /\ \A k \in DOMAIN decided' : decided'[k] = d \/ (k \in DOMAIN decided /\ decided'[k] = decided[k])
    BY <1>3, <2>2, Deciding
  <2>5. RemediationTypeOK'
    <3>1. /\ standing' \in [Actions -> Standings] /\ approvals' \in [Actions -> Nat]
          /\ proposed' \subseteq Actions
      BY <1>1, <1>2, <1>3 DEF RemediationTypeOK, Standings, Approved
    <3> QED
      BY <1>1, <1>3, <2>4, <3>1 DEF RemediationTypeOK
  <2>6. OneLaunchPerApproval' /\ ApprovalLeft'
    BY <1>1, <1>3, <2>3 DEF IInv, RemediationTypeOK, OneLaunchPerApproval, ApprovalLeft, Approved
  <2>7. AutoIsLowRisk' /\ OnlyProposed'
    BY <1>1, <2>2, <2>3, <2>4 DEF IInv, AutoIsLowRisk, OnlyProposed
  <2>8. StatusIsTheLastWord'
    BY ZenonT(30), <1>3, <2>2, <2>3, <2>4 DEF IInv, StatusIsTheLastWord, Approved
  <2> QED
    BY <2>5, <2>6, <2>7, <2>8 DEF IInv
<1> QED
  BY <1>4, <1>5

LEMMA DecideKeepsIInv ==
  ASSUME IInv, NEW b \in Actions, NEW v \in BOOLEAN, Decide(b, v)
  PROVE  IInv'
<1> DEFINE d == [action |-> b, approved |-> v, auto |-> FALSE]
<1>1. /\ standing[b] # "absent"
      /\ standing' = [standing EXCEPT ![b] = IF v THEN "APPROVED" ELSE "REJECTED"]
      /\ decided' = Append(decided, d)
      /\ approvals' = [approvals EXCEPT ![b] = @ + IF v THEN 1 ELSE 0]
      /\ UNCHANGED <<auto, ceiling, waiting, proposed, sent>>
  BY DEF Decide, settings
<1>2. RemediationTypeOK /\ d \in Decisions /\ d.action = b /\ d.approved = v /\ d.auto = FALSE
  BY DEF IInv, Decisions
<1> HIDE DEF d
<1>3. /\ decided' \in Seq(Decisions) /\ LastIs(b, v)'
      /\ \A a \in Actions \ {b}, x \in BOOLEAN : LastIs(a, x) => LastIs(a, x)'
      /\ \A a \in Actions \ {b} :
            (\A k \in DOMAIN decided : decided[k].action # a) =>
               \A k \in DOMAIN decided' : decided'[k].action # a
      /\ \A k \in DOMAIN decided' : decided'[k] = d \/ (k \in DOMAIN decided /\ decided'[k] = decided[k])
  BY <1>1, <1>2, Deciding
<1>4. /\ \A a \in Actions : approvals'[a] = approvals[a] + IF a = b /\ v THEN 1 ELSE 0
      /\ \A a \in Actions : standing'[a] = IF a = b THEN IF v THEN "APPROVED" ELSE "REJECTED"
                                         ELSE standing[a]
  BY <1>1, <1>2 DEF RemediationTypeOK
<1>5. RemediationTypeOK'
  <2>1. standing' \in [Actions -> Standings] /\ approvals' \in [Actions -> Nat]
    BY <1>1, <1>2 DEF RemediationTypeOK, Standings, Approved
  <2> QED
    BY <1>1, <1>2, <1>3, <2>1 DEF RemediationTypeOK
<1>6. OneLaunchPerApproval' /\ ApprovalLeft'
  BY <1>1, <1>2, <1>4 DEF IInv, RemediationTypeOK, OneLaunchPerApproval, ApprovalLeft, Approved
<1>7. AutoIsLowRisk' /\ OnlyProposed'
  BY <1>1, <1>2, <1>3, <1>4 DEF IInv, AutoIsLowRisk, OnlyProposed
<1>8. StatusIsTheLastWord'
  BY <1>3, <1>4 DEF IInv, StatusIsTheLastWord, Approved
<1> QED
  BY <1>5, <1>6, <1>7, <1>8 DEF IInv

LEMMA ExecuteKeepsIInv ==
  ASSUME IInv, NEW w \in Workers, NEW b \in Actions, Execute(w, b)
  PROVE  IInv'
<1>1. /\ standing[b] \in Approved
      /\ standing' = [standing EXCEPT ![b] = "EXECUTED"]
      /\ waiting' = [waiting EXCEPT ![w] = {b}]
      /\ sent' = [sent EXCEPT ![b] = @ + 1]
      /\ UNCHANGED <<decided, proposed, approvals, auto, ceiling>>
  BY DEF Execute, Send, settings
<1>2. RemediationTypeOK
  BY DEF IInv
<1>3. RemediationTypeOK'
  <2>1. standing' \in [Actions -> Standings] /\ sent' \in [Actions -> Nat]
    BY <1>1, <1>2 DEF RemediationTypeOK, Standings, Approved
  <2>2. {b} \in AtMostOne(Actions)
    BY DEF AtMostOne
  <2>3. waiting' \in [Workers -> AtMostOne(Actions)]
    BY <1>1, <1>2, <2>2 DEF RemediationTypeOK
  <2> QED
    BY <1>1, <1>2, <2>1, <2>3 DEF RemediationTypeOK
<1>4. /\ \A a \in Actions : sent'[a] = sent[a] + IF a = b THEN 1 ELSE 0
      /\ \A a \in Actions : standing'[a] = IF a = b THEN "EXECUTED" ELSE standing[a]
  BY <1>1, <1>2 DEF RemediationTypeOK
<1>5. OneLaunchPerApproval' /\ ApprovalLeft'
  BY <1>1, <1>2, <1>4 DEF IInv, RemediationTypeOK, OneLaunchPerApproval, ApprovalLeft, Approved
<1>6. AutoIsLowRisk' /\ OnlyProposed'
  BY <1>1, <1>4 DEF IInv, AutoIsLowRisk, OnlyProposed, Approved
<1>7. StatusIsTheLastWord'
  BY <1>1, <1>4 DEF IInv, StatusIsTheLastWord, LastIs, Approved
<1> QED
  BY <1>3, <1>5, <1>6, <1>7 DEF IInv

\* Steps that leave the actions, the log and what was sent alone.
LEMMA QuietStep ==
  ASSUME IInv, RemediationTypeOK', UNCHANGED <<standing, decided, proposed, approvals, sent>>
  PROVE  IInv'
BY DEF IInv, OneLaunchPerApproval, ApprovalLeft, StatusIsTheLastWord, LastIs, AutoIsLowRisk,
       OnlyProposed

LEMMA RestartKeepsIInv ==
  ASSUME IInv, Restart
  PROVE  IInv'
<1>1. << >> \in Seq(Decisions) /\ DOMAIN << >> = {}
  BY EmptySeq
<1>2. RemediationTypeOK'
  BY <1>1 DEF IInv, RemediationTypeOK, Restart, Standings, AtMostOne
<1>3. OneLaunchPerApproval' /\ ApprovalLeft' /\ AutoIsLowRisk' /\ OnlyProposed'
  BY <1>1 DEF IInv, Restart, OneLaunchPerApproval, ApprovalLeft, AutoIsLowRisk, OnlyProposed,
              Approved
<1>4. StatusIsTheLastWord'
  BY <1>1 DEF Restart, StatusIsTheLastWord, Approved
<1> QED
  BY <1>2, <1>3, <1>4 DEF IInv

LEMMA IInvInductive ==
  /\ RemediationInit => IInv
  /\ IInv /\ [RemediationNext]_remediationVars => IInv'
<1>1. ASSUME RemediationInit
      PROVE  IInv
  <2>1. << >> \in Seq(Decisions) /\ DOMAIN << >> = {}
    BY EmptySeq
  <2>2. RemediationTypeOK
    BY <1>1, <2>1 DEF RemediationInit, RemediationTypeOK, Standings, AtMostOne
  <2> QED
    BY <1>1, <2>1, <2>2 DEF RemediationInit, IInv, OneLaunchPerApproval, ApprovalLeft, Approved,
                            StatusIsTheLastWord, AutoIsLowRisk, OnlyProposed
<1>2. ASSUME IInv, (\E w \in Workers : Answered(w)) \/ UpdateSettings \/ UNCHANGED remediationVars
      PROVE  IInv'
  <2>1. UNCHANGED <<standing, decided, proposed, approvals, sent>>
    BY <1>2 DEF Answered, UpdateSettings, store, remediationVars
  <2>2. RemediationTypeOK'
    <3>1. waiting' \in [Workers -> AtMostOne(Actions)]
      BY <1>2 DEF IInv, RemediationTypeOK, Answered, UpdateSettings, AtMostOne, remediationVars
    <3>2. auto' \in BOOLEAN /\ ceiling' \in AtMostOne(Ranks)
      BY <1>2 DEF IInv, RemediationTypeOK, Answered, UpdateSettings, settings, remediationVars
    <3> QED
      BY <1>2, <2>1, <3>1, <3>2 DEF IInv, RemediationTypeOK
  <2> QED
    BY <1>2, <2>1, <2>2, QuietStep
<1> QED
  BY <1>1, <1>2, AnalyzeKeepsIInv, DecideKeepsIInv, ExecuteKeepsIInv, RestartKeepsIInv
     DEF RemediationNext

\* The strengthened invariant holds in every behaviour.
THEOREM RemediationInvariant == RemediationSpec => []IInv
BY IInvInductive, PTL DEF RemediationSpec

\* A runbook is launched at most once for each approval of it, however requests
\* to execute it and decisions on it overlap.
THEOREM RemediationOneLaunchPerApproval == RemediationSpec => []OneLaunchPerApproval
<1>1. IInv => OneLaunchPerApproval
  BY DEF IInv
<1> QED
  BY <1>1, RemediationInvariant, PTL

\* Status and decision log never disagree.
THEOREM RemediationStatusIsTheLastWord == RemediationSpec => []StatusIsTheLastWord
<1>1. IInv => StatusIsTheLastWord
  BY DEF IInv
<1> QED
  BY <1>1, RemediationInvariant, PTL

\* Nothing is sent that was not approved last, nor, unless its risk is low, that
\* no person approved.
THEOREM RemediationStartedAsDecided == RemediationSpec => StartedAsDecided
<1> DEFINE AsDecided == \A a \in Actions : sent'[a] > sent[a] =>
                           LastIs(a, TRUE) /\ (Risk[a] = "LOW" \/ ApprovedByHand(a))
<1>1. IInv /\ [RemediationNext]_remediationVars => [AsDecided]_remediationVars
  <2> SUFFICES ASSUME IInv, RemediationNext, NEW a \in Actions, sent'[a] > sent[a]
               PROVE  LastIs(a, TRUE) /\ (Risk[a] = "LOW" \/ ApprovedByHand(a))
    OBVIOUS
  <2>1. sent \in [Actions -> Nat] /\ decided \in Seq(Decisions)
    BY DEF IInv, RemediationTypeOK
  <2>2. standing[a] \in Approved
    <3>1. CASE UNCHANGED sent
      BY <2>1, <3>1
    <3>2. CASE \E w \in Workers, b \in Actions : Execute(w, b)
      BY <2>1, <3>2 DEF Execute, Send
    <3> QED
      BY <3>1, <3>2 DEF RemediationNext, Analyze, Decide, Answered, UpdateSettings, Restart
  <2>3. LastIs(a, TRUE)
    BY <2>2 DEF IInv, StatusIsTheLastWord
  <2>4. ASSUME Risk[a] # "LOW"
        PROVE  ApprovedByHand(a)
    <3>1. PICK k \in DOMAIN decided : decided[k].action = a /\ decided[k].approved = TRUE
      BY <2>3 DEF LastIs
    <3>2. decided[k] \in Decisions
      BY <2>1, ElementOfSeq, LenProperties
    <3>3. decided[k].auto = FALSE
      BY <2>4, <3>1, <3>2 DEF IInv, AutoIsLowRisk, Decisions
    <3>4. decided[k] = [action |-> a, approved |-> TRUE, auto |-> FALSE]
      BY <3>1, <3>2, <3>3 DEF Decisions
    <3> QED
      BY <3>4 DEF ApprovedByHand
  <2> QED
    BY <2>3, <2>4
<1> QED
  BY <1>1, RemediationInvariant, PTL DEF RemediationSpec, StartedAsDecided
=============================================================================
