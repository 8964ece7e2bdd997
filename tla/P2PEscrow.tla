------------------------------ MODULE P2PEscrow -----------------------------
(***************************************************************************)
(* The P2P marketplace of the backend: wallets, ads (listings), orders with*)
(* their escrow, appeals, and the sweep that expires unpaid orders.        *)
(*                                                                         *)
(* Every repository method is one database transaction that takes its row  *)
(* locks before it reads what it decides on, so a method is one action.    *)
(* What is not in one transaction is split: ExpirePendingOrders reads the  *)
(* ids of due orders first and cancels them one transaction at a time.     *)
(* A method that returns an error rolls back, which is no step at all.     *)
(***************************************************************************)
EXTENDS P2PSettlement, Totals

CONSTANTS
    Users, Listings, Orders,   \* rows that may come to exist
    Methods,                   \* payment methods
    Names,                     \* lower-cased P2P usernames
    Keys,                      \* idempotency keys of orders
    RequestIds,                \* request ids of funding transfers
    Amounts,                   \* raw amounts requests carry
    Prices,                    \* prices an admin may enter for a day
    Limits,                    \* order limits (paise) an ad may ask for
    Sweepers,                  \* callers of ExpirePendingOrders
    SweepLimit,                \* ids one sweep reads (100 by the ticker, 50 by readers)
    MaxAborts,                 \* bound: sweeps cut short by an error or a crash
    MaxProofs,                 \* payment proofs per order (3 in the code)
    InitMain,                  \* BIUSD in the main wallet at the start
    Hold,                      \* BIUSD held by the user's open withdrawals
    InitNames, InitAccounts,   \* usernames and payment accounts at the start
    LegacyAds,                 \* ads that predate the P2P wallet or the fee
    Nobody, NoListing, NoKey, NoName

LegacyAd == [listing : Listings, creator : Users, amount : Nat \ {0},
             source : {"P2P_WALLET", "MAIN_WALLET_LEGACY"}, price : Prices]

ASSUME MarketAssumption ==
    /\ Amounts \subseteq Nat /\ Prices \subseteq Nat \ {0} /\ Limits \subseteq Nat
    /\ SweepLimit \in Nat \ {0} /\ MaxAborts \in Nat /\ MaxProofs \in Nat \ {0}
    /\ InitMain \in [Users -> Nat] /\ Hold \in [Users -> Nat]
    /\ InitNames \in [Users -> Names \cup {NoName}]
    /\ \A u, v \in Users : u # v /\ InitNames[u] = InitNames[v] => InitNames[u] = NoName
    /\ InitAccounts \subseteq Users \X Methods
    /\ IsFiniteSet(Listings) /\ IsFiniteSet(Orders) /\ IsFiniteSet(RequestIds)
    /\ IsFiniteSet(LegacyAds) /\ LegacyAds \subseteq LegacyAd
    /\ \A a \in LegacyAds : Fiat(a.amount, a.price) > 0
    /\ \A a, b \in LegacyAds : a.listing = b.listing => a = b
    /\ Nobody \notin Users /\ NoListing \notin Listings
    /\ NoKey \notin Keys /\ NoName \notin Names

VARIABLES
    main, mainLocked,     \* user_balances: BIUSD and BIUSD_locked
    avail, reserved,      \* p2p_wallet_balances: available_raw, reserved_raw
    adminFees,            \* p2p_admin_wallet_balances
    funding,              \* amount of the main_to_p2p entry of a user and id
    username, accounts,   \* users.p2p_username, p2p_payment_accounts
    listing, order,       \* p2p_listings, p2p_orders
    sweep,                \* ids each sweeper has read and not yet cancelled
    aborts                \* sweeps cut short so far

wallets == <<main, mainLocked, avail, reserved, adminFees, funding>>
profile == <<username, accounts>>
vars == <<wallets, profile, listing, order, sweep, aborts>>

Sides == {"BUY", "SELL"}
Sources == {"P2P_WALLET", "MAIN_WALLET_LEGACY"}
OpenStatuses == {"pending_payment", "payment_made", "appeal"}
FinalStatuses == {"completed", "cancelled"}

ListingRow ==
    [status : {"NONE", "ACTIVE", "FILLED", "CANCELLED"}, side : Sides,
     creator : Users \cup {Nobody}, amount : Nat, remaining : Nat, price : Nat,
     min : Nat, max : Nat, methods : SUBSET Methods, source : Sources,
     feeModel : FeeModels]

OrderRow ==
    [status : {"none"} \cup OpenStatuses \cup FinalStatuses,
     listing : Listings \cup {NoListing},
     seller : Users \cup {Nobody}, buyer : Users \cup {Nobody},
     taker : Users \cup {Nobody}, amount : Nat, fee : Nat, credit : Nat,
     debit : Nat, escrow : Nat, key : Keys \cup {NoKey}, proofs : 0..MaxProofs,
     elapsed : BOOLEAN,        \* the 15 minute payment window has passed
     appealable : BOOLEAN,     \* 10 minutes have passed since it was marked paid
     appealedBy : Users \cup {Nobody}, cancelledBy : Users \cup {Nobody}]

\* Rows that do not exist yet.
FreeListing ==
    [status |-> "NONE", side |-> "SELL", creator |-> Nobody, amount |-> 0,
     remaining |-> 0, price |-> 0, min |-> 0, max |-> 0, methods |-> {},
     source |-> "P2P_WALLET", feeModel |-> "BIUSD_1PCT_EACH"]

FreeOrder ==
    [status |-> "none", listing |-> NoListing, seller |-> Nobody,
     buyer |-> Nobody, taker |-> Nobody, amount |-> 0, fee |-> 0, credit |-> 0,
     debit |-> 0, escrow |-> 0, key |-> NoKey, proofs |-> 0, elapsed |-> FALSE,
     appealable |-> FALSE, appealedBy |-> Nobody, cancelledBy |-> Nobody]

-----------------------------------------------------------------------------
(* The database as the migrations leave it: ads that reserve main wallet   *)
(* funds or carry no fee stay open with the source and model they had.     *)

MigratedRow(a) ==
    [status |-> "ACTIVE", side |-> "SELL", creator |-> a.creator,
     amount |-> a.amount, remaining |-> a.amount, price |-> a.price,
     min |-> 1, max |-> Fiat(a.amount, a.price), methods |-> Methods,
     source |-> a.source, feeModel |-> "LEGACY_FIAT"]

\* What the ads of u that are funded from source had reserved.  The oldest ads
\* reserve USDC_locked and settle over the USDC columns; the model has one
\* asset, so that main and mainLocked stand for both.
LegacyReserve(u, source) ==
    Total([a \in LegacyAds |->
             IF a.creator = u /\ a.source = source THEN a.amount ELSE 0])

Init ==
    /\ main = InitMain
    /\ mainLocked = [u \in Users |-> LegacyReserve(u, "MAIN_WALLET_LEGACY")]
    /\ avail = [u \in Users |-> 0]
    /\ reserved = [u \in Users |-> LegacyReserve(u, "P2P_WALLET")]
    /\ adminFees = 0
    /\ funding = [u \in Users |-> [k \in RequestIds |-> 0]]
    /\ username = InitNames
    /\ accounts = InitAccounts
    /\ listing = [l \in Listings |->
                    IF \E a \in LegacyAds : a.listing = l
                    THEN MigratedRow(CHOOSE a \in LegacyAds : a.listing = l)
                    ELSE FreeListing]
    /\ order = [o \in Orders |-> FreeOrder]
    /\ sweep = [s \in Sweepers |-> {}]
    /\ aborts = 0

-----------------------------------------------------------------------------
(* Profile, payment accounts and the P2P wallet.                           *)

\* Mutated form: any positive balance will do.
CoversSomething(balance, amount) == balance > 0

\* The guard of every balance update (WHERE balance >= amount).
Covers(balance, amount) == balance >= amount

\* Mutated form: names are compared among the users that have posted an ad only.
NameFreeAmongSellers(u, n) ==
    \A v \in Users \ {u} : username[v] = n => \A l \in Listings : listing[l].creator # v

\* The unique index on lower(p2p_username).
NameFree(u, n) == \A v \in Users \ {u} : username[v] # n

EstablishP2PUsername(u, n) ==
    /\ username[u] \in {NoName, n}
    /\ NameFree(u, n)
    /\ username' = [username EXCEPT ![u] = n]
    /\ UNCHANGED <<wallets, accounts, listing, order, sweep, aborts>>

UpsertPaymentAccount(u, m) ==
    /\ accounts' = accounts \cup {<<u, m>>}
    /\ UNCHANGED <<wallets, username, listing, order, sweep, aborts>>

\* Mutated form: the entry of the id is not looked up.
AlwaysUnfunded(u, k) == TRUE

\* No main_to_p2p entry carries the id yet; a repeated id changes nothing.
Unfunded(u, k) == funding[u][k] = 0

FundWalletAsset(u, amount, k) ==
    /\ amount > 0
    /\ Unfunded(u, k)
    /\ Covers(main[u] - mainLocked[u] - Hold[u], amount)
    /\ main' = [main EXCEPT ![u] = @ - amount]
    /\ avail' = [avail EXCEPT ![u] = @ + amount]
    /\ funding' = [funding EXCEPT ![u][k] = amount]
    /\ UNCHANGED <<mainLocked, reserved, adminFees, profile, listing, order, sweep, aborts>>

-----------------------------------------------------------------------------
(* Ads.                                                                    *)

\* A SELL ad moves the seller's debit for the whole amount from available to
\* reserved; a BUY ad moves nothing until somebody sells into it.
CreateListing(u, l, side, amount, methods, n, price, min, max) ==
    LET debit == SellerDebit("BIUSD_1PCT_EACH", amount) IN
    /\ listing[l].status = "NONE"
    /\ amount > 0 /\ methods # {}
    /\ username[u] # NoName \/ (n # NoName /\ NameFree(u, n))
    /\ username' = [username EXCEPT ![u] = IF @ = NoName THEN n ELSE @]
    /\ ValidLimits(amount, price, min, max)
    /\ BuyerCredit("BIUSD_1PCT_EACH", amount) > 0
    /\ \/ /\ side = "SELL"
          /\ \A m \in methods : <<u, m>> \in accounts
          /\ Covers(avail[u], debit)
          /\ avail' = [avail EXCEPT ![u] = @ - debit]
          /\ reserved' = [reserved EXCEPT ![u] = @ + debit]
       \/ /\ side = "BUY"
          /\ UNCHANGED <<avail, reserved>>
    /\ listing' = [listing EXCEPT ![l] =
         [status |-> "ACTIVE", side |-> side, creator |-> u, amount |-> amount,
          remaining |-> amount, price |-> price, min |-> min, max |-> max,
          methods |-> methods, source |-> "P2P_WALLET",
          feeModel |-> "BIUSD_1PCT_EACH"]]
    /\ UNCHANGED <<main, mainLocked, adminFees, funding, accounts, order, sweep, aborts>>

\* What the reservation still holds for the ad.
Unsold(ad) == SellerDebit(ad.feeModel, ad.remaining)

\* The unused part of the reservation goes back to its owner.
CancelListing(l) ==
    LET ad == listing[l]
        release == Unsold(ad)
    IN
    /\ ad.status = "ACTIVE"
    /\ \/ /\ ad.side = "BUY"
          /\ UNCHANGED wallets
       \/ /\ ad.side = "SELL" /\ ad.source = "P2P_WALLET"
          /\ BuyerCredit(ad.feeModel, ad.remaining) > 0 \/ ad.feeModel = "LEGACY_FIAT"
          /\ Covers(reserved[ad.creator], release)
          /\ reserved' = [reserved EXCEPT ![ad.creator] = @ - release]
          /\ avail' = [avail EXCEPT ![ad.creator] = @ + release]
          /\ UNCHANGED <<main, mainLocked, adminFees, funding>>
       \/ /\ ad.side = "SELL" /\ ad.source = "MAIN_WALLET_LEGACY"
          /\ Covers(mainLocked[ad.creator], ad.remaining)
          /\ mainLocked' = [mainLocked EXCEPT ![ad.creator] = @ - ad.remaining]
          /\ UNCHANGED <<main, avail, reserved, adminFees, funding>>
    /\ listing' = [listing EXCEPT ![l].status = "CANCELLED"]
    /\ UNCHANGED <<profile, order, sweep, aborts>>

-----------------------------------------------------------------------------
(* Orders.                                                                 *)

\* Mutated form: keys are unique per buyer, as an earlier index had it.
KeyUsedAsBuyer(t, k) ==
    k # NoKey /\ \E o \in Orders : order[o].buyer = t /\ order[o].key = k

\* Keys are unique per taker.
KeyUsed(t, k) ==
    k # NoKey /\ \E o \in Orders : order[o].taker = t /\ order[o].key = k

\* The seller's debit moves into the order's escrow: from the available
\* balance of the taker of a BUY ad, from the reservation behind a SELL ad.
MoveToEscrow(ad, seller, amount, debit) ==
    \/ /\ ad.side = "BUY"
       /\ Covers(avail[seller], debit)
       /\ avail' = [avail EXCEPT ![seller] = @ - debit]
       /\ UNCHANGED <<main, mainLocked, reserved>>
    \/ /\ ad.side = "SELL" /\ ad.source = "P2P_WALLET"
       /\ Covers(reserved[seller], debit)
       /\ reserved' = [reserved EXCEPT ![seller] = @ - debit]
       /\ UNCHANGED <<main, mainLocked, avail>>
    \/ /\ ad.side = "SELL" /\ ad.source = "MAIN_WALLET_LEGACY"
       /\ Covers(main[seller], amount) /\ Covers(mainLocked[seller], amount)
       /\ main' = [main EXCEPT ![seller] = @ - amount]
       /\ mainLocked' = [mainLocked EXCEPT ![seller] = @ - amount]
       /\ UNCHANGED <<avail, reserved>>

CreateOrder(t, l, o, amount, m, k) ==
    LET ad     == listing[l]
        seller == IF ad.side = "BUY" THEN t ELSE ad.creator
        buyer  == IF ad.side = "BUY" THEN ad.creator ELSE t
        debit  == SellerDebit(ad.feeModel, amount)
        credit == BuyerCredit(ad.feeModel, amount)
    IN
    /\ order[o].status = "none"
    /\ amount > 0
    /\ ~KeyUsed(t, k)
    /\ ad.status = "ACTIVE"
    /\ t # ad.creator
    /\ m \in ad.methods
    /\ OrderFits(ad.remaining, amount, ad.price, ad.min, ad.max)
    /\ <<seller, m>> \in accounts
    /\ credit > 0
    /\ MoveToEscrow(ad, seller, amount, debit)
    /\ listing' = [listing EXCEPT ![l].remaining = @ - amount,
                                  ![l].status = IF ad.remaining = amount
                                                THEN "FILLED" ELSE @]
    /\ order' = [order EXCEPT ![o] =
         [FreeOrder EXCEPT !.status = "pending_payment", !.listing = l,
            !.seller = seller, !.buyer = buyer, !.taker = t, !.amount = amount,
            !.fee = FeeOf(ad.feeModel, amount), !.credit = credit,
            !.debit = debit, !.escrow = debit, !.key = k]]
    /\ UNCHANGED <<adminFees, funding, profile, sweep, aborts>>

\* Mutated form: the escrow column keeps its value.
ClosedKeepingEscrow(row, status, by) ==
    [row EXCEPT !.status = status, !.cancelledBy = by]

\* The final update of an order row.
Closed(row, status, by) ==
    [row EXCEPT !.escrow = 0, !.status = status, !.cancelledBy = by]

\* Mutated form: a cancelled ad is reopened as well.
ReopensAlways(ad) == ad.side = "BUY" \/ ad.source = "P2P_WALLET"

\* Mutated form: an ad that is sold out stays FILLED.
ReopensActive(ad) ==
    ad.status = "ACTIVE" /\ (ad.side = "BUY" \/ ad.source = "P2P_WALLET")

\* Mutated form: the source of the ad's funds is not looked at.
ReopensLegacy(ad) == ad.status # "CANCELLED"

\* A refund gives the amount back to the ad.
Reopens(ad) ==
    ad.status # "CANCELLED" /\ (ad.side = "BUY" \/ ad.source = "P2P_WALLET")

\* refundTx: the escrow goes back to the seller, and the amount to the ad
\* unless the ad is cancelled or reserved main wallet funds.
Refund(o, by) ==
    LET row    == order[o]
        ad     == listing[row.listing]
        reopen == Reopens(ad)
    IN
    /\ row.escrow # 0
    /\ IF ad.side = "SELL" /\ reopen
       THEN /\ reserved' = [reserved EXCEPT ![row.seller] = @ + row.escrow]
            /\ UNCHANGED avail
       ELSE /\ avail' = [avail EXCEPT ![row.seller] = @ + row.escrow]
            /\ UNCHANGED reserved
    /\ listing' = IF reopen
                  THEN [listing EXCEPT ![row.listing].remaining = @ + row.amount,
                                       ![row.listing].status = "ACTIVE"]
                  ELSE listing
    /\ order' = [order EXCEPT ![o] = Closed(@, "cancelled", by)]
    /\ UNCHANGED <<main, mainLocked, adminFees, funding, profile>>

\* releaseOrder: the buyer is credited and both fees go to the admin wallet.
Settle(o) ==
    LET row == order[o] IN
    /\ row.escrow # 0
    /\ avail' = [avail EXCEPT ![row.buyer] = @ + row.credit]
    /\ adminFees' = adminFees + 2 * row.fee
    /\ order' = [order EXCEPT ![o] = Closed(@, "completed", row.cancelledBy)]
    /\ UNCHANGED <<main, mainLocked, reserved, funding, profile, listing, sweep, aborts>>

AddOrderProof(o) ==
    /\ order[o].status \in {"pending_payment", "payment_made"}
    /\ order[o].proofs < MaxProofs
    /\ order' = [order EXCEPT ![o].proofs = @ + 1]
    /\ UNCHANGED <<wallets, profile, listing, sweep, aborts>>

\* The buyer attests the payment and has uploaded a proof.  The window is
\* compared with the server's clock before the update commits, while `elapsed`
\* is the database's now() that sweeps look at without a lock: the window may
\* pass, and a sweep may read the id, between the comparison and the commit.
MarkPaid(o) ==
    /\ order[o].status = "pending_payment"
    /\ order[o].proofs > 0
    /\ order' = [order EXCEPT ![o].status = "payment_made", ![o].appealable = FALSE]
    /\ UNCHANGED <<wallets, profile, listing, sweep, aborts>>

\* After the payment window the same call cancels the order instead.
MarkPaidTooLate(o) ==
    /\ order[o].status = "pending_payment"
    /\ order[o].proofs > 0
    /\ order[o].elapsed
    /\ Refund(o, order[o].buyer)
    /\ UNCHANGED <<sweep, aborts>>

CancelOrder(o) ==
    /\ order[o].status = "pending_payment"
    /\ Refund(o, order[o].buyer)
    /\ UNCHANGED <<sweep, aborts>>

ReleaseOrder(o) == order[o].status = "payment_made" /\ Settle(o)

AppealOrder(u, o) ==
    /\ u \in {order[o].buyer, order[o].seller}
    /\ order[o].status = "payment_made"
    /\ order[o].appealable
    /\ order' = [order EXCEPT ![o].status = "appeal", ![o].appealedBy = u]
    /\ UNCHANGED <<wallets, profile, listing, sweep, aborts>>

CancelAppeal(o) ==
    /\ order[o].status = "appeal"
    /\ order' = [order EXCEPT ![o].status = "payment_made", ![o].appealedBy = Nobody]
    /\ UNCHANGED <<wallets, profile, listing, sweep, aborts>>

ResolveAppealRelease(o) == order[o].status = "appeal" /\ Settle(o)

ResolveAppealRefund(o) ==
    /\ order[o].status = "appeal"
    /\ Refund(o, Nobody)
    /\ UNCHANGED <<sweep, aborts>>

-----------------------------------------------------------------------------
(* Time.                                                                   *)

PaymentWindowElapses(o) ==
    /\ order[o].status = "pending_payment"
    /\ ~order[o].elapsed
    /\ order' = [order EXCEPT ![o].elapsed = TRUE]
    /\ UNCHANGED <<wallets, profile, listing, sweep, aborts>>

AppealWindowOpens(o) ==
    /\ order[o].status = "payment_made"
    /\ ~order[o].appealable
    /\ order' = [order EXCEPT ![o].appealable = TRUE]
    /\ UNCHANGED <<wallets, profile, listing, sweep, aborts>>

-----------------------------------------------------------------------------
(* ExpirePendingOrders, called by the ticker of main and by every read of  *)
(* ads and orders.  The ids are read without a lock.                       *)

\* Mutated form: the expiry time is not compared.
DueAtOnce == {o \in Orders : order[o].status = "pending_payment"}

\* Mutated form: orders with a payment proof are passed over.
DueWithoutProof ==
    {o \in Orders : /\ order[o].status = "pending_payment" /\ order[o].elapsed
                    /\ order[o].proofs = 0}

Due == {o \in Orders : order[o].status = "pending_payment" /\ order[o].elapsed}

SweepStart(s) ==
    /\ sweep[s] = {} /\ Due # {}
    /\ \E ids \in SUBSET Due :
         /\ \/ Cardinality(ids) = SweepLimit
            \/ ids = Due /\ Cardinality(ids) < SweepLimit
         /\ sweep' = [sweep EXCEPT ![s] = ids]
    /\ UNCHANGED <<wallets, profile, listing, order, aborts>>

\* Mutated form: the status is not read again under the row lock.
AnyOpen(o) == order[o].status \in OpenStatuses

\* cancelOrder's check of the locked row.
Unpaid(o) == order[o].status = "pending_payment"

\* One cancelOrder of the loop; an order that has moved on is left alone.
SweepCancel(s, o) ==
    /\ o \in sweep[s]
    /\ sweep' = [sweep EXCEPT ![s] = @ \ {o}]
    /\ \/ Unpaid(o) /\ Refund(o, order[o].buyer)
       \/ /\ ~Unpaid(o)
          /\ UNCHANGED <<wallets, profile, listing, order>>
    /\ UNCHANGED aborts

\* Any other error ends the loop, as does a crash.
SweepAbort(s) ==
    /\ sweep[s] # {} /\ aborts < MaxAborts
    /\ sweep' = [sweep EXCEPT ![s] = {}]
    /\ aborts' = aborts + 1
    /\ UNCHANGED <<wallets, profile, listing, order>>

-----------------------------------------------------------------------------
FundingStep(u) == \E amount \in Amounts, k \in RequestIds : FundWalletAsset(u, amount, k)

ProfileStep ==
    \E u \in Users :
       \/ \E n \in Names : EstablishP2PUsername(u, n)
       \/ \E m \in Methods : UpsertPaymentAccount(u, m)
       \/ FundingStep(u)

ListingStep ==
    \E l \in Listings :
       \/ CancelListing(l)
       \/ \E u \in Users, side \in Sides, amount \in Amounts,
             methods \in SUBSET Methods, n \in Names \cup {NoName}, price \in Prices :
            \E min \in Limits \cup {1}, max \in Limits \cup {Fiat(amount, price)} :
               CreateListing(u, l, side, amount, methods, n, price, min, max)

OrderStep ==
    \E o \in Orders :
       \/ \E t \in Users, l \in Listings, amount \in Amounts, m \in Methods,
             k \in Keys \cup {NoKey} : CreateOrder(t, l, o, amount, m, k)
       \/ AddOrderProof(o) \/ MarkPaid(o) \/ MarkPaidTooLate(o)
       \/ CancelOrder(o) \/ ReleaseOrder(o)
       \/ \E u \in Users : AppealOrder(u, o)
       \/ CancelAppeal(o) \/ ResolveAppealRelease(o) \/ ResolveAppealRefund(o)
       \/ PaymentWindowElapses(o) \/ AppealWindowOpens(o)

SweepStep ==
    \E s \in Sweepers :
       \/ SweepStart(s) \/ SweepAbort(s)
       \/ \E o \in Orders : SweepCancel(s, o)

Next == ProfileStep \/ ListingStep \/ OrderStep \/ SweepStep

Spec == Init /\ [][Next]_vars

\* The ticker of main runs a sweep every 30 seconds and a sweep runs to its
\* end; nothing makes a user or an admin act.
SweepFairness ==
    \A s \in Sweepers : /\ WF_vars(SweepStart(s))
                        /\ \A o \in Orders : WF_vars(SweepCancel(s, o))

FairSpec == Spec /\ SweepFairness

-----------------------------------------------------------------------------
(* Properties.                                                             *)

\* Every row has its type; in particular no balance, reservation or escrow
\* is ever negative (the CHECK constraints of the schema never fire).
TypeOK ==
    /\ main \in [Users -> Nat] /\ mainLocked \in [Users -> Nat]
    /\ avail \in [Users -> Nat] /\ reserved \in [Users -> Nat]
    /\ adminFees \in Nat /\ funding \in [Users -> [RequestIds -> Nat]]
    /\ username \in [Users -> Names \cup {NoName}]
    /\ accounts \subseteq Users \X Methods
    /\ listing \in [Listings -> ListingRow] /\ order \in [Orders -> OrderRow]
    /\ sweep \in [Sweepers -> SUBSET Orders] /\ aborts \in 0..MaxAborts

\* An order's escrow is the seller's whole debit while the order is open and
\* nothing afterwards, and the debit is exactly what the buyer and the two
\* fees take: no path of release, refund, appeal or expiry leaves a rest.
EscrowMatchesStatus ==
    \A o \in Orders :
       LET row == order[o] IN
       /\ row.escrow = IF row.status \in OpenStatuses THEN row.debit ELSE 0
       /\ row.debit = row.credit + 2 * row.fee

IsLegacyMain(o) ==
    order[o].status # "none" /\ listing[order[o].listing].source = "MAIN_WALLET_LEGACY"

Funded(u) == Total(funding[u])

\* What completed purchases have brought u.
Bought(u) ==
    Total([o \in Orders |->
             IF order[o].buyer = u /\ order[o].status = "completed"
             THEN order[o].credit ELSE 0])

\* What u's open and completed sales took from the P2P wallet.
Sold(u) ==
    Total([o \in Orders |->
             IF /\ order[o].seller = u /\ ~IsLegacyMain(o)
                /\ order[o].status \in OpenStatuses \cup {"completed"}
             THEN order[o].debit ELSE 0])

\* What u's orders took from the main wallet, and what of it was refunded
\* (into the P2P wallet).
LegacyDebited(u) ==
    Total([o \in Orders |->
             IF order[o].seller = u /\ IsLegacyMain(o) THEN order[o].debit ELSE 0])
LegacyRefunded(u) ==
    Total([o \in Orders |->
             IF order[o].seller = u /\ IsLegacyMain(o) /\ order[o].status = "cancelled"
             THEN order[o].debit ELSE 0])

\* Every user's statement adds up: both wallets hold exactly what the funding
\* entries and the orders say, and the fee wallet the fees of the completed
\* orders.  No interleaving of retries, sweeps, appeals and cancelled ads
\* credits or debits anybody twice.
StatementsBalance ==
    /\ \A u \in Users :
         /\ avail[u] + reserved[u] + Sold(u)
              = LegacyReserve(u, "P2P_WALLET") + Funded(u) + Bought(u) + LegacyRefunded(u)
         /\ main[u] + Funded(u) + LegacyDebited(u) = InitMain[u]
    /\ adminFees = Total([o \in Orders |->
                            IF order[o].status = "completed" THEN 2 * order[o].fee ELSE 0])

ReservesFor(u, l) ==
    /\ listing[l].status = "ACTIVE" /\ listing[l].side = "SELL"
    /\ listing[l].source = "P2P_WALLET" /\ listing[l].creator = u

Committed(u) ==
    Total([l \in Listings |->
             IF ReservesFor(u, l)
             THEN SellerDebit(listing[l].feeModel, listing[l].remaining) ELSE 0])

\* Orders that have drawn on the reservation of one of u's ads for good.
Draws(u) ==
    {o \in Orders :
        /\ order[o].seller = u /\ order[o].status # "none" /\ ~IsLegacyMain(o)
        /\ listing[order[o].listing].side = "SELL"
        /\ \/ order[o].status # "cancelled"
           \/ listing[order[o].listing].status = "CANCELLED"}

\* A seller's one reserved balance always covers the remaining amounts, fees
\* included, of all the ads that draw on it, although each order rounds its
\* fee on its own: "not reserved for this listing" and "reservation is
\* inconsistent" cannot happen.  What the rounding strands there, where no
\* operation can reach it any more, is at most one raw unit per order.
ReserveMatchesAds ==
    \A u \in Users :
       /\ Committed(u) <= reserved[u]
       /\ reserved[u] - Committed(u) <= Cardinality(Draws(u))

TakenFrom(l) ==
    Total([o \in Orders |->
             IF /\ order[o].listing = l
                /\ order[o].status # "cancelled" \/ IsLegacyMain(o)
             THEN order[o].amount ELSE 0])

\* An ad never sells more than it offered: until it is cancelled, what remains
\* and what its live orders took is the whole, and it is FILLED exactly when
\* nothing remains.  A refund after the cancellation gives nothing back to it.
AdAccounting ==
    \A l \in Listings :
       LET ad == listing[l] IN
       /\ ad.status \in {"ACTIVE", "FILLED"} => ad.remaining + TakenFrom(l) = ad.amount
       /\ ad.status = "CANCELLED" => ad.remaining + TakenFrom(l) <= ad.amount
       /\ ad.status # "NONE" => (ad.status = "FILLED" <=> ad.remaining = 0)

\* A price fine enough that every paise value is the value of some amount, and
\* limits wide enough to split what is left.
Divisible(ad) == ad.price <= PriceScale /\ 2 * ad.min <= ad.max

\* An ad with such limits can be taken as long as it is open: whatever orders
\* and refunds have left of it, some amount lies between the minimum and the
\* maximum and leaves nothing or a remainder that can itself be sold.
OpenAdsTakeable ==
    \A l \in Listings :
       LET ad == listing[l] IN
       (ad.status = "ACTIVE" /\ Divisible(ad)) =>
          \E want \in 1..ad.remaining :
             /\ OrderFits(ad.remaining, want, ad.price, ad.min, ad.max)
             /\ BuyerCredit(ad.feeModel, want) > 0

\* Whoever posts an ad is known by a username of his own, however the name was
\* established, and the seller of a SELL ad can be paid by each of its methods.
CreatorsIdentified ==
    \A l \in Listings :
       LET ad == listing[l] IN
       (ad.status # "NONE" /\ ad.feeModel # "LEGACY_FIAT") =>
          /\ username[ad.creator] # NoName
          /\ \A v \in Users \ {ad.creator} : username[v] # username[ad.creator]
          /\ ad.side = "SELL" => \A m \in ad.methods : <<ad.creator, m>> \in accounts

\* A retried order request never makes a second order.
OneOrderPerKey ==
    \A o, p \in Orders :
       (o # p /\ order[o].key # NoKey /\ order[o].taker = order[p].taker)
          => order[o].key # order[p].key

\* What a sweep takes off its list it leaves alone, unless the order is past
\* its window and still unpaid at that moment, however stale the list is.
ExpiresOnlyUnpaid ==
    [][\A s \in Sweepers : \A o \in sweep[s] \ sweep'[s] :
          order'[o] # order[o] =>
             order[o].elapsed /\ order[o].status = "pending_payment"]_vars

MayFollow(old, new) ==
    \/ new = old
    \/ old = "none" /\ new = "pending_payment"
    \/ old = "pending_payment" /\ new \in {"payment_made", "cancelled"}
    \/ old = "payment_made" /\ new \in {"completed", "appeal"}
    \/ old = "appeal" /\ new \in {"payment_made", "completed", "cancelled"}

\* Once the buyer has marked the payment only the seller or an admin ends the
\* order, never a late sweep or a cancellation, and an ended order is final.
OrderLifecycle ==
    [][\A o \in Orders :
         /\ MayFollow(order[o].status, order'[o].status)
         /\ order[o].status \in FinalStatuses => order'[o] = order[o]]_vars

\* An order whose window has passed does not stay unpaid: it is expired (or
\* its late buyer or the buyer's cancellation gets there first), also when
\* sweeps fail or crash half-way a bounded number of times.
ElapsedOrdersEnd ==
    \A o \in Orders :
       (order[o].status = "pending_payment" /\ order[o].elapsed)
          ~> (order[o].status # "pending_payment")

-----------------------------------------------------------------------------
(* The contract the marketplace implements.                                *)

Purse == [u \in Users |-> main[u] + avail[u] + reserved[u]]

Outcome(status) ==
    CASE status = "none" -> "none"
      [] status \in OpenStatuses -> "held"
      [] status = "completed" -> "delivered"
      [] status = "cancelled" -> "returned"

DealOf(row) ==
    [state |-> Outcome(row.status), seller |-> row.seller,
     buyer |-> row.buyer, gets |-> row.credit]

Contract == INSTANCE EscrowContract WITH
    purse  <- Purse,
    vault  <- [o \in Orders |-> order[o].escrow],
    deal   <- [o \in Orders |-> DealOf(order[o])],
    income <- adminFees

\* The marketplace implements the contract: funding, ads in any state, partial
\* orders, proofs, appeals, sweeps and retries move no money between people;
\* an order takes its charge from the seller once and gives it away once.
KeepsContract == Contract!Spec
=============================================================================
