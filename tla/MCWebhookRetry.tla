---------------------------- MODULE MCWebhookRetry ----------------------------
(* Two events of one tenant, an activation and a cancellation.              *)
EXTENDS WebhookRetry

CONSTANTS e1, e2, t1

Events == {e1, e2}
OneEvent == {e1}
Tenants == {t1}
Owner == [e \in Event |-> t1]
Effects == [e \in Event |-> IF e = e1 THEN "active" ELSE "canceled"]
=============================================================================
