-------------------------- MODULE MCNapCatDelivery --------------------------
(* One private reply of two bubbles on one QQ connection. *)
EXTENDS NapCatDelivery, TLC

CONSTANTS c1, d1, b1, b2, l1, l2, m1, m2

MCConnectionOf == d1 :> c1
MCPlanOf  == b1 :> d1 @@ b2 :> d1
MCOrdinal == b1 :> 0 @@ b2 :> 1
MCDelay   == b1 :> 1 @@ b2 :> 0
==============================================================================
