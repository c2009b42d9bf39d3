--------------------------- MODULE OnCallDirectory ---------------------------
(***************************************************************************)
(* Whom an alert of a severity is told, and through which channels         *)
(* (services/oncall_directory.py, notification_service.py), for a roster:  *)
(* a sequence of engineers. It gives the constant Routes of BurnAlerts.    *)
(***************************************************************************)
EXTENDS Integers, Sequences

EngineersOf(Ids) == [id : Ids, tier : 1 .. 3, channels : Seq(STRING)]

\* _SEVERITY_TIERS: primary first.
SeverityTiers(severity) == IF severity = "page" THEN <<3, 2>> ELSE <<2, 1>>

\* _BURN_ROUTING, where the roster is empty: channels and whom they reach.
BurnRouting(severity) ==
    IF severity = "page"
    THEN <<<<"pagerduty", "oncall-sre">>, <<"sms", "number">>>>
    ELSE <<<<"email", "sre">>, <<"slack", "slo-alerts">>>>

\* set_roster, engineer_for_tier: of each tier the first engineer.
EngineerForTier(roster, tier) ==
    {roster[k] : k \in {k \in DOMAIN roster :
                          /\ roster[k].tier = tier
                          /\ \A j \in 1 .. k - 1 : roster[j].tier # tier}}

\* An engineer who is the first of both tiers is told once.
Mapped(roster, severity) ==
    LET tiers == SeverityTiers(severity)
        first == EngineerForTier(roster, tiers[1])
        second == {e \in EngineerForTier(roster, tiers[2]) : \A f \in first : f.id # e.id}
    IN  IF first = {} THEN {<<e>> : e \in second}
        ELSE IF second = {} THEN {<<f>> : f \in first}
        ELSE {<<f, e>> : f \in first, e \in second}

\* Where both tiers are vacant, the highest that is not.
Highest(roster) ==
    UNION {EngineerForTier(roster, tier) :
             tier \in {t \in 1 .. 3 : \A u \in t + 1 .. 3 : EngineerForTier(roster, u) = {}}}

\* targets_for_severity: at most one sequence; none if there is nobody at all.
TargetsForSeverity(roster, severity) ==
    IF Mapped(roster, severity) # {} THEN Mapped(roster, severity)
    ELSE {<<e>> : e \in Highest(roster)}

\* _channels: names that are none of the channels are dropped, and e-mail is
\* what is left when all are.
ChannelsOfEngineer(e) ==
    LET known == SelectSeq(e.channels, LAMBDA name :
                     name \in {"email", "sms", "slack", "pagerduty", "webhook"})
    IN  IF known = << >> THEN <<"email">> ELSE known

\* notify_burn_alert: target by target, channel by channel.
RoutesOfEngineer(e) ==
    [c \in DOMAIN ChannelsOfEngineer(e) |-> <<ChannelsOfEngineer(e)[c], e.id>>]
RoutesFor(roster, severity) ==
    IF TargetsForSeverity(roster, severity) = {} THEN BurnRouting(severity)
    ELSE LET targets == CHOOSE q \in TargetsForSeverity(roster, severity) : TRUE
         IN  IF Len(targets) = 1 THEN RoutesOfEngineer(targets[1])
             ELSE RoutesOfEngineer(targets[1]) \o RoutesOfEngineer(targets[2])
=============================================================================
