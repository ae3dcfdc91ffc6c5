-------------------------- MODULE MCChannelDelivery --------------------------
(* Two plans on one connection: a reply (d1) of two required bubbles and an    *)
(* optional sticker, and a proactive greeting (d2).                            *)
EXTENDS ChannelDelivery, TLC

CONSTANTS c1, d1, d2, b1, b2, sticker, hello, l1, l2, m1, m2

MCConnectionOf == d1 :> c1 @@ d2 :> c1
MCPlanOf  == b1 :> d1 @@ b2 :> d1 @@ sticker :> d1 @@ hello :> d2
MCOrdinal == b1 :> 0 @@ b2 :> 1 @@ sticker :> 2 @@ hello :> 0
MCDelay   == b1 :> 1 @@ b2 :> 0 @@ sticker :> 0 @@ hello :> 0

\* Lease and message ids are only ever compared for equality.
Symmetry == Permutations(Leases) \cup Permutations(Messages)
==============================================================================
