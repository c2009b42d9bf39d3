----------------------------- MODULE Escalation -----------------------------
(***************************************************************************)
(* services/escalation_engine.py and the policy model it evaluates         *)
(* (models/notification.py): which tier an incident of a severity should   *)
(* have reached after a time, and through which channels to page.          *)
(*                                                                         *)
(* A decision is a relation rather than a function, so that nothing has to *)
(* be chosen where there is no policy: Due(sev, m) is the set of steps     *)
(* that policy_for and step_for_elapsed return, empty for None.            *)
(***************************************************************************)
EXTENDS Integers, Sequences, FiniteSets

CONSTANTS Policies,   \* sequence of [min_severity : rank, steps : Seq(steps)]
          OnCall      \* sequence of [tier : 1..3, channels : Seq(channels)]

\* Severity.rank: INFO, LOW, MEDIUM, HIGH, CRITICAL.
Severities == 0 .. 4

Steps == [tier : 1 .. 3, after : Nat, channels : Seq(STRING)]

ASSUME PoliciesAssumption ==
    Policies \in Seq([min_severity : Severities, steps : Seq(Steps)])
ASSUME OnCallAssumption ==
    OnCall \in Seq([tier : 1 .. 3, channels : Seq(STRING)])

\* Python's max(): the first of the largest.
FirstMax(S, f) ==
    {k \in S : \A j \in S : f[j] <= f[k] /\ (f[j] = f[k] => k <= j)}

\* policy_for: the applicable policy with the highest minimum severity.
PolicyFor(sev) ==
    LET applicable == {k \in DOMAIN Policies : sev >= Policies[k].min_severity}
    IN  FirstMax(applicable, [k \in applicable |-> Policies[k].min_severity])

\* step_for_elapsed: the elapsed step with the highest threshold.
StepFor(p, minutes) ==
    LET steps   == Policies[p].steps
        elapsed == {k \in DOMAIN steps : minutes >= steps[k].after}
    IN  FirstMax(elapsed, [k \in elapsed |-> steps[k].after])

\* evaluate, without the comparison to the incident's tier.
Due(sev, minutes) ==
    UNION {{Policies[p].steps[k] : k \in StepFor(p, minutes)} : p \in PolicyFor(sev)}

\* on_call_for: the first engineer of the tier.
OnCallFor(tier) ==
    {OnCall[k] : k \in {k \in DOMAIN OnCall :
                          /\ OnCall[k].tier = tier
                          /\ \A j \in 1 .. k - 1 : OnCall[j].tier # tier}}

\* The steps for which should_escalate is true for an incident at `tier'.
Escalations(sev, minutes, tier) == {s \in Due(sev, minutes) : s.tier > tier}

\* NotificationChannel. A name that is none of these stands for e-mail.
NotificationChannels == {"email", "sms", "slack", "pagerduty", "webhook"}
ChannelOf(name) == IF name \in NotificationChannels THEN name ELSE "email"
ChannelsNamed(names) == [c \in DOMAIN names |-> ChannelOf(names[c])]

\* The channels evaluate_escalation pages: `decision.channels or
\* engineer.channels' when somebody is on call for the tier, none otherwise.
PageChannels(step) ==
    {ChannelsNamed(IF step.channels # << >> THEN step.channels ELSE eng.channels) :
       eng \in OnCallFor(step.tier)}
=============================================================================
