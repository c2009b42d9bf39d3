---------------------------- MODULE MCBurnAlerts ----------------------------
(* Values for the constants of BurnAlerts. *)
EXTENDS BurnAlerts, OnCallDirectory, TLC

CONSTANTS s1, s2

OneSLO == <<s1>>
TwoSLOs == <<s1, s2>>

OneTier == <<[severity |-> "page", window |-> 1]>>
\* A roster of two tiers; one engineer has a channel that is none of them.
MCRoster ==
    <<[id |-> "commander", tier |-> 3, channels |-> <<"pagerduty">>],
      [id |-> "sre", tier |-> 2, channels |-> <<"phone">>]>>
MCRoutes == [severity \in {"page"} |-> RoutesFor(MCRoster, severity)]

Symmetric == Permutations(Workers)
=============================================================================
