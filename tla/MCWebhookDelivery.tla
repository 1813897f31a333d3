------------------------- MODULE MCWebhookDelivery -------------------------
(* Two dispatchers over two deliveries of one subscription.       *)
EXTENDS WebhookDelivery

CONSTANTS d1, d2, r1, r2

MCTwo == {d1, d2}
MCDispatchers == {r1, r2}
MCBackoff == [n \in 1..(MaxAttempts - 1) |-> n]
=============================================================================
