---------------------------- MODULE MCP2PEscrow -----------------------------
(***************************************************************************)
(* Small instances of the P2P marketplace for TLC.                         *)
(***************************************************************************)
EXTENDS P2PEscrow, TLC

CONSTANTS u1, u2, l1, l2, l3, o1, o2, m1, n1, n2, k1, q1, s1, s2

\* u1 comes with BIUSD; u2 comes with enough to sell into a BUY ad.
MCInitMain == (u1 :> 7) @@ (u2 :> 3)
MCHold == (u1 :> 1) @@ (u2 :> 0)
MCLegacyMain == (u1 :> 2) @@ (u2 :> 0)
MCNoHold == [u \in Users |-> 0]
MCNamed == (u1 :> n1) @@ (u2 :> n2)
MCUnnamed == [u \in Users |-> NoName]
MCAccounts == Users \X Methods
MCNoAds == {}
MCSellerAccount == {<<u1, m1>>}

\* Both migration epochs: an ad on main wallet funds and one without fees.
MCLegacyAds ==
    {[listing |-> l1, creator |-> u1, amount |-> 1,
      source |-> "MAIN_WALLET_LEGACY", price |-> 1],
     [listing |-> l2, creator |-> u1, amount |-> 1,
      source |-> "P2P_WALLET", price |-> 1]}

\* Orders are alike, and so are the sweepers.
OrderSymmetry == Permutations(Orders) \cup Permutations(Sweepers)
=============================================================================
