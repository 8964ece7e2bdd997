--------------------------- MODULE EscrowContract ---------------------------
(***************************************************************************)
(* What the P2P marketplace promises about money, without wallets, ads,    *)
(* proofs, appeals, sweeps or clocks.  Everybody has one purse.  A deal    *)
(* takes the seller's whole charge out of his purse into a vault of its    *)
(* own; the vault is emptied once, either to the buyer, who gets what was  *)
(* agreed while the house keeps the rest, or back to the seller.  No other *)
(* step of the marketplace moves money from one purse to another.          *)
(***************************************************************************)
EXTENDS Integers

CONSTANTS Users, Orders, Nobody

VARIABLES
    purse,     \* what each user owns, in all his wallets and reservations
    vault,     \* what each deal holds
    deal,      \* parties, the price agreed for the buyer and the outcome
    income     \* what the house has earned

contract == <<purse, vault, deal, income>>

NoDeal == [state |-> "none", seller |-> Nobody, buyer |-> Nobody, gets |-> 0]

Init ==
    /\ purse \in [Users -> Nat]
    /\ vault = [o \in Orders |-> 0]
    /\ deal = [o \in Orders |-> NoDeal]
    /\ income = 0

Terms == [state : {"held"}, seller : Users, buyer : Users, gets : Nat \ {0}]

\* A deal is struck on terms the two parties are free to choose: the seller puts
\* a charge aside that covers what the buyer is to get.
Strike(o) ==
    LET terms  == deal'[o]
        charge == vault'[o]
    IN
    /\ deal[o] = NoDeal
    /\ terms \in Terms
    /\ terms.seller # terms.buyer
    /\ terms.gets <= charge /\ charge <= purse[terms.seller]
    /\ purse' = [purse EXCEPT ![terms.seller] = @ - charge]
    /\ vault' = [vault EXCEPT ![o] = charge]
    /\ deal' = [deal EXCEPT ![o] = terms]
    /\ UNCHANGED income

Deliver(o) ==
    /\ deal[o].state = "held"
    /\ deal' = [deal EXCEPT ![o].state = "delivered"]
    /\ purse' = [purse EXCEPT ![deal[o].buyer] = @ + deal[o].gets]
    /\ income' = income + vault[o] - deal[o].gets
    /\ vault' = [vault EXCEPT ![o] = 0]

Return(o) ==
    /\ deal[o].state = "held"
    /\ deal' = [deal EXCEPT ![o].state = "returned"]
    /\ purse' = [purse EXCEPT ![deal[o].seller] = @ + vault[o]]
    /\ vault' = [vault EXCEPT ![o] = 0]
    /\ UNCHANGED income

Next == \E o \in Orders : Strike(o) \/ Deliver(o) \/ Return(o)

Spec == Init /\ [][Next]_contract
=============================================================================
