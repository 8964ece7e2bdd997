-------------------------- MODULE MCDepositListener -------------------------
(***************************************************************************)
(* Small instances of the deposit listener for TLC.                        *)
(***************************************************************************)
EXTENDS DepositListener, TLC

CONSTANTS u1, u2, h1, h2

MCAssets == {"BIUSD"}
MCBalance == [a \in {u1, u2} |-> [x \in MCAssets |-> 0]]
MCNone == {}
=============================================================================
