--------------------------- MODULE MCTradeGateway ---------------------------
(***************************************************************************)
(* Small instances of the trade gateway for TLC.                           *)
(***************************************************************************)
EXTENDS TradeGateway, TLC

CONSTANTS h1, h2, o1, o2, o3

=============================================================================
