----------------------------- MODULE MCPlatform -----------------------------
(***************************************************************************)
(* The components that share no state, in one run: a behaviour is one of   *)
(* the component "part", with the others where they started. Of the width  *)
(* modules a behaviour edits one document, which the other documents do    *)
(* not affect.                                                             *)
(***************************************************************************)
EXTENDS MCIncidentLifecycle, Sessions, RateLimits, IdempotentCreation,
        WidthStores, AuditPages, DailyDigest, VenueDigests, ScenarioCaches

CONSTANTS u1, u2, sc1, sc2, oa, ob, oc, m1, m2

\* Two venues; two scenarios, of two objectives and of one.
MCVenueOrder == <<u1, u2>>
MCScenarioSLOs == [s \in Scenarios |-> IF s = sc1 THEN <<oa, ob>> ELSE <<oc>>]

\* Requests and processes come from one set of two: no part tells them apart.
Actors == {m1, m2}
ActorSymmetry == Permutations(Actors)

VARIABLES part, edited

parts == <<part, edited>>
Parts == {"lifecycle", "sessions", "rates", "creation", "width", "audit",
          "daily", "venues", "scenario"}

\* Where a part may start in several states, the others start in one of them.
PlatformInit ==
    /\ part \in Parts
    /\ edited \in IF part = "width" THEN WidthDocs ELSE {CHOOSE d \in WidthDocs : TRUE}
    /\ Init /\ SessionInit /\ RateInit /\ IdemInit /\ WidthInit
    /\ AuditInit /\ DailyInit /\ VenueInit /\ ScenarioInit
    /\ part = "rates" \/ limiter = "bucket"
    /\ part = "audit" \/ reader.by = "cursor"
    /\ part = "daily" \/ (wall = 0 /\ loop = "daily")
    /\ part = "scenario" \/ (client = "mock" /\ budgets = {})

\* The services that start, and those of them that fail to load.
EditedNext ==
    \/ Request(edited) \/ GoOn \/ SeedStep
    \/ \E p \in Replicas, failed \in SUBSET {S \in Services : edited \in S} : Boot(p, failed)

PlatformNext ==
    \/ /\ part = "lifecycle" /\ Next
       /\ UNCHANGED <<parts, sessionVars, rateVars, idemVars, widthVars, auditVars,
                      dailyVars, venueVars, scenarioVars>>
    \/ /\ part = "sessions" /\ SessionNext
       /\ UNCHANGED <<parts, vars, rateVars, idemVars, widthVars, auditVars,
                      dailyVars, venueVars, scenarioVars>>
    \/ /\ part = "rates" /\ RateNext
       /\ UNCHANGED <<parts, vars, sessionVars, idemVars, widthVars, auditVars,
                      dailyVars, venueVars, scenarioVars>>
    \/ /\ part = "creation" /\ IdemNext
       /\ UNCHANGED <<parts, vars, sessionVars, rateVars, widthVars, auditVars,
                      dailyVars, venueVars, scenarioVars>>
    \/ /\ part = "width" /\ EditedNext
       /\ UNCHANGED <<parts, vars, sessionVars, rateVars, idemVars, auditVars,
                      dailyVars, venueVars, scenarioVars>>
    \/ /\ part = "audit" /\ AuditNext
       /\ UNCHANGED <<parts, vars, sessionVars, rateVars, idemVars, widthVars,
                      dailyVars, venueVars, scenarioVars>>
    \/ /\ part = "daily" /\ DailyNext
       /\ UNCHANGED <<parts, vars, sessionVars, rateVars, idemVars, widthVars,
                      auditVars, venueVars, scenarioVars>>
    \/ /\ part = "venues" /\ VenueNext
       /\ UNCHANGED <<parts, vars, sessionVars, rateVars, idemVars, widthVars,
                      auditVars, dailyVars, scenarioVars>>
    \/ /\ part = "scenario" /\ ScenarioNext
       /\ UNCHANGED <<parts, vars, sessionVars, rateVars, idemVars, widthVars,
                      auditVars, dailyVars, venueVars>>

platformVars == <<parts, vars, sessionVars, rateVars, idemVars, widthVars, auditVars,
                  dailyVars, venueVars, scenarioVars>>

PlatformSpec == PlatformInit /\ [][PlatformNext]_platformVars

\* Type correctness of every part.
PlatformTypeOK ==
    /\ TypeOK /\ SessionTypeOK /\ RateTypeOK /\ IdemTypeOK /\ WidthTypeOK
    /\ AuditTypeOK /\ DailyTypeOK /\ VenueTypeOK /\ ScenarioTypeOK
=============================================================================
