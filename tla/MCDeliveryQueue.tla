-------------------------- MODULE MCDeliveryQueue --------------------------
(* Small instances of DeliveryQueue. *)
EXTENDS DeliveryQueue, TLC

CONSTANTS e1, e2, boot, wa

TwoEntries == {e1, e2}
SelectsOne == (wa :> {e1})
SelectsNone == <<>>
=============================================================================
