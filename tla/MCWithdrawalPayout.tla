------------------------- MODULE MCWithdrawalPayout -------------------------
(***************************************************************************)
(* Small instances of the withdrawal payout for TLC.                       *)
(***************************************************************************)
EXTENDS WithdrawalPayout, TLC

CONSTANTS u1, r1, r2, t1, t2, t3, w1, w2

MCAssets == {"USDC", "BIUSD"}
MCBalance == u1 :> ("USDC" :> 2 @@ "BIUSD" :> 0)
MCNone == {}
WorkerSymmetry == Permutations(Workers) \cup Permutations(Txs)
=============================================================================
