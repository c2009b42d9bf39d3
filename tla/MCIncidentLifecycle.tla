------------------------ MODULE MCIncidentLifecycle ------------------------
(* Values for the constants of IncidentLifecycle. *)
EXTENDS IncidentLifecycle, OpsDefaults

CONSTANTS i1, i2

\* One incident of severity HIGH and one of severity MEDIUM.
MCSeverity == [i \in Incidents |-> IF i = i1 THEN 3 ELSE 2]
=============================================================================
