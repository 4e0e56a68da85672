------------------------- MODULE MCWebhookDelivery -------------------------
(* Instances of WebhookDelivery in which every log has the one subscription. *)
EXTENDS WebhookDelivery

MCSubOf == [l \in Logs |-> CHOOSE s \in Subs : TRUE]
=============================================================================
