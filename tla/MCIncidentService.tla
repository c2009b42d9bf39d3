------------------------- MODULE MCIncidentService -------------------------
(* Values for the constants of IncidentService. *)
EXTENDS IncidentServiceRefinement, OpsDefaults, TLC

CONSTANTS i1, i2

\* One incident of severity HIGH and one of severity MEDIUM.
MCSeverity == [i \in Incidents |-> IF i = i1 THEN 3 ELSE 2]

\* Callers send no expected_version, or one of the first versions.
AnyVersion == {{}, {0}, {1}}
\* Callers always send the version they saw.
AlwaysVersioned == {{v} : v \in 0 .. MaxRequests}
NeverVersioned == {{}}

WorkerSymmetry == Permutations(Workers)
=============================================================================
