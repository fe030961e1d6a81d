------------------------- MODULE MCWebhookDelivery -------------------------
(***************************************************************************)
(* Instances of WebhookDelivery for TLC: all deliveries are of hook "h".    *)
(***************************************************************************)
EXTENDS WebhookDelivery, TLC

MCHookOf == [d \in Deliveries |-> "h"]

\* Deliveries of one hook are interchangeable, as are workers.
MCSymmetry == Permutations(Workers) \cup Permutations(Deliveries)
=============================================================================
