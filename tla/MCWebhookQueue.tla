---------------------------- MODULE MCWebhookQueue ---------------------------
(* Instances of WebhookQueue for TLC. *)
EXTENDS WebhookQueue

CONSTANTS h1, h2, e1, c1

MCMatches == {<<h1, e1>>, <<h2, e1>>}
OneEvent == [c \in Calls |-> e1]
Faults == {"insertFails", "recordFails", "interrupted"}
==============================================================================
