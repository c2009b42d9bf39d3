----------------------------- MODULE MCWebhooks -----------------------------
(* Values for the constants of Webhooks. *)
EXTENDS Webhooks

CONSTANTS h1

\* One webhook is for all events, the others for those of one kind.
MCWants == [h \in Hooks |-> IF h = h1 THEN Entries ELSE {e \in Entries : e > 1}]
=============================================================================
