-------------------------- MODULE MCWebhookDelivery --------------------------
(* Instances of WebhookDelivery for TLC. *)
EXTENDS WebhookDelivery

CONSTANTS v1, v2, e1, e2

\* e1 takes every event, e2 only v1.
MCDeliveries == {<<v, e>> \in Events \X Endpoints : e = e1 \/ v = v1}

OneDelivery == {<<v1, e1>>}
=============================================================================
