---------------------------- MODULE OpsDefaults ----------------------------
(***************************************************************************)
(* The escalation policies and the on-call roster that                     *)
(* services/ops_defaults.py builds, times in minutes.  They are the values *)
(* of the constants Policies and OnCall in the runs.                       *)
(***************************************************************************)
EXTENDS Integers, Sequences

DefaultPolicies ==
    <<[min_severity |-> 2,
       steps |-> <<[tier |-> 1, after |-> 0,  channels |-> <<"email">>],
                   [tier |-> 2, after |-> 10, channels |-> <<"slack">>]>>],
      [min_severity |-> 3,
       steps |-> <<[tier |-> 1, after |-> 0,  channels |-> <<"email", "slack">>],
                   [tier |-> 2, after |-> 5,  channels |-> <<"sms">>],
                   [tier |-> 3, after |-> 15, channels |-> <<"pagerduty">>]>>]>>

DefaultOnCall ==
    <<[tier |-> 1, channels |-> <<"email">>],
      [tier |-> 2, channels |-> <<"slack", "sms">>],
      [tier |-> 3, channels |-> <<"pagerduty">>]>>
=============================================================================
