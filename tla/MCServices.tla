----------------------------- MODULE MCServices -----------------------------
(***************************************************************************)
(* Services of the process that share no state, in one run: a behaviour is *)
(* one of the component "part", with the others where they started.        *)
(***************************************************************************)
EXTENDS MCWebhooks, Remediation, BurnRates

CONSTANTS m1, availability, stream, latency, tickets, app

\* One action of medium risk; three severities.
MCRisk == [a \in Actions |-> IF a = m1 THEN "MEDIUM" ELSE "LOW"]
MCRanks == 0 .. 2

\* The objectives of the scenarios, by their ids and targets; a tenant whose
\* last hour is hot, and one whose spike is over.
MCShape ==
    [o \in Shapes |-> CASE o = stream -> 0 [] o \in {availability, app} -> 1
                        [] o = latency -> 2 [] o = tickets -> 3]
MCBudgeted ==
    [o \in Shapes |-> CASE o = stream -> 50 [] o \in {latency, app} -> 100
                        [] o \in {availability, tickets} -> 10]
MCHotSpells == {61 .. 72, 31 .. 60}

VARIABLE part

Parts == {"webhooks", "remediation", "rates"}

\* Where a part may start in several states, the others start in one of them.
ServicesInit ==
    /\ part \in Parts
    /\ Init /\ HooksInit /\ RemediationInit /\ BurnRateInit
    /\ part = "remediation" \/ (auto = FALSE /\ ceiling = {})
    /\ part = "rates" \/ slo = stream

ServicesNext ==
    \/ /\ part = "webhooks" /\ WNext
       /\ UNCHANGED <<part, remediationVars, burnRateVars>>
    \/ /\ part = "remediation" /\ RemediationNext
       /\ UNCHANGED <<part, wvars, burnRateVars>>
    \/ /\ part = "rates" /\ BurnRateNext
       /\ UNCHANGED <<part, wvars, remediationVars>>

servicesVars == <<part, wvars, remediationVars, burnRateVars>>

ServicesSpec == ServicesInit /\ [][ServicesNext]_servicesVars
=============================================================================
