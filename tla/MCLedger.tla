------------------------------ MODULE MCLedger ------------------------------
(***************************************************************************)
(* A small instance of the ledger for TLC: u1 is a user, u2 may be a desk. *)
(***************************************************************************)
EXTENDS Ledger, TLC

CONSTANTS u1, u2, r1, h1

\* Assets that deposits, swaps, withdrawals and fills all touch.
MCAssets == {"BIUSD", "USDC"}
MCMarket == {<<"USDC", "BIUSD">>}
MCNone == {}
MCBalance == (u1 :> ("BIUSD" :> 0 @@ "USDC" :> 2)) @@ (u2 :> ("BIUSD" :> 1 @@ "USDC" :> 0))
=============================================================================
