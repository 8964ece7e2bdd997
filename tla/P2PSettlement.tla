--------------------------- MODULE P2PSettlement ----------------------------
(***************************************************************************)
(* The pure arithmetic of the P2P marketplace: the fee each side pays, what*)
(* the seller escrows and the buyer receives, the fiat value of an amount, *)
(* and which order amounts an ad accepts.  Amounts are raw units of BIUSD, *)
(* fiat values are paise.  A price is the number of paise of PriceScale    *)
(* raw units (the code has a fee of 1/100 and a scale of 1000000).         *)
(***************************************************************************)
EXTENDS Integers

CONSTANTS
    FeeDivisor,   \* each side pays amount \div FeeDivisor
    PriceScale    \* raw units a price is quoted for

ASSUME SettlementAssumption ==
    /\ FeeDivisor \in Nat \ {0, 1}
    /\ PriceScale \in Nat \ {0}

FeeModels == {"LEGACY_FIAT", "BIUSD_1PCT_EACH"}

\* The fee of one side; the fraction of a raw unit is dropped.
FeeOf(model, amount) ==
    IF model = "BIUSD_1PCT_EACH" THEN amount \div FeeDivisor ELSE 0

BuyerCredit(model, amount) == amount - FeeOf(model, amount)

\* Mutated form: the seller's fee is not put aside with the amount.
SellerDebitWithoutFee(model, amount) == amount

SellerDebit(model, amount) == amount + FeeOf(model, amount)

\* Fiat value in paise, rounded half up as the code's two-decimal rounding.
Fiat(amount, price) == (2 * amount * price + PriceScale) \div (2 * PriceScale)

\* The limits an ad may carry.
ValidLimits(amount, price, min, max) ==
    0 < min /\ min <= max /\ max <= Fiat(amount, price)

\* Mutated form: the rest of the ad may be worth less than its minimum.
OrderFitsLoosely(remaining, want, price, min, max) ==
    /\ want <= remaining
    /\ min <= Fiat(want, price)
    /\ Fiat(want, price) <= max

\* An order of want units may be taken from an ad with remaining units left:
\* its value is within the limits, and it leaves nothing or at least the minimum.
OrderFits(remaining, want, price, min, max) ==
    /\ want <= remaining
    /\ min <= Fiat(want, price)
    /\ Fiat(want, price) <= max
    /\ remaining = want \/ min <= Fiat(remaining - want, price)
=============================================================================
