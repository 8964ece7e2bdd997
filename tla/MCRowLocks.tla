----------------------------- MODULE MCRowLocks ------------------------------
(***************************************************************************)
(* Two traders, an ad of every kind, and an order on two of the ads.       *)
(***************************************************************************)
EXTENDS RowLocks, TLC

CONSTANTS c1, c2, c3, a, b, l1, l2, l3, o1, o2

MCAds ==
    (l1 :> [creator |-> a, side |-> "SELL", source |-> "P2P_WALLET"])
    @@ (l2 :> [creator |-> b, side |-> "BUY", source |-> "P2P_WALLET"])
    @@ (l3 :> [creator |-> b, side |-> "SELL", source |-> "MAIN_WALLET_LEGACY"])

MCOrders ==
    (o1 :> [ad |-> l1, seller |-> a, buyer |-> b])
    @@ (o2 :> [ad |-> l2, seller |-> a, buyer |-> b])

MCIds == (a :> 1) @@ (b :> 2)
=============================================================================
