-------------------------- MODULE P2PEscrow_proofs --------------------------
(***************************************************************************)
(* Theorems about the P2P marketplace, for every set of users, ads, orders *)
(* and sweepers, every amount, price and limit and every fee divisor.      *)
(***************************************************************************)
EXTENDS P2PEscrow, Totals_proofs

-----------------------------------------------------------------------------
(* Arithmetic of the settlement.                                           *)

\* A fee is a natural number that does not exceed the amount.
LEMMA FeeType ==
    ASSUME NEW model, NEW amount \in Nat
    PROVE  FeeOf(model, amount) \in Nat /\ FeeOf(model, amount) <= amount
BY SettlementAssumption DEF FeeOf

\* The value of an amount is a natural number of paise.
LEMMA FiatType ==
    ASSUME NEW amount \in Nat, NEW price \in Nat
    PROVE  Fiat(amount, price) \in Nat
<1>1. 2 * amount * price + PriceScale \in Nat /\ 2 * PriceScale \in Nat \ {0}
  BY SettlementAssumption
<1> QED
  BY <1>1 DEF Fiat

\* Fees of parts, each rounded down, never exceed the fee of the whole, and
\* fall short of it by at most one raw unit.
LEMMA FeeSplit ==
    ASSUME NEW model, NEW a \in Nat, NEW b \in Nat
    PROVE  /\ FeeOf(model, a) + FeeOf(model, b) <= FeeOf(model, a + b)
           /\ FeeOf(model, a + b) <= FeeOf(model, a) + FeeOf(model, b) + 1
<1> DEFINE d == FeeDivisor
           p == a \div d
           q == b \div d
           r == (a + b) \div d
<1>1. d \in Nat \ {0} /\ p \in Nat /\ q \in Nat /\ r \in Nat
  BY SettlementAssumption
<1>2. /\ d * p <= a /\ a < d * p + d
      /\ d * q <= b /\ b < d * q + d
      /\ d * r <= a + b /\ a + b < d * r + d
  <2>1. a = d * p + (a % d) /\ a % d \in 0..(d - 1)
    BY SettlementAssumption
  <2>2. b = d * q + (b % d) /\ b % d \in 0..(d - 1)
    BY SettlementAssumption
  <2>3. a + b = d * r + ((a + b) % d) /\ (a + b) % d \in 0..(d - 1)
    BY SettlementAssumption
  <2> HIDE DEF d, p, q, r
  <2> QED
    BY <1>1, <2>1, <2>2, <2>3
<1> HIDE DEF d, p, q, r
<1>3. d * (p + q) < d * (r + 1)
  <2>1. d * (p + q) = d * p + d * q /\ d * (r + 1) = d * r + d
    BY <1>1
  <2> QED
    BY <1>1, <1>2, <2>1
<1>4. d * r < d * (p + q + 2)
  <2>1. d * (p + q + 2) = d * p + d * q + d + d
    BY <1>1
  <2> QED
    BY <1>1, <1>2, <2>1
<1>5. p + q < r + 1
  BY <1>1, <1>3
<1>6. r < p + q + 2
  BY <1>1, <1>4
<1>7. p + q <= r /\ r <= p + q + 1
  BY <1>1, <1>5, <1>6
<1> QED
  BY <1>7 DEF FeeOf, d, p, q, r
-----------------------------------------------------------------------------
(* Type correctness.                                                       *)

\* The two rows no request has filled yet are rows.
LEMMA FreeRowTypes ==
    FreeListing \in ListingRow /\ FreeOrder \in OrderRow
<1>1. FreeListing \in ListingRow
  BY DEF FreeListing, ListingRow, Sides, Sources, FeeModels
<1>2. 0 \in 0..MaxProofs
  BY MarketAssumption
<1>3. FreeOrder \in OrderRow
  BY <1>2 DEF FreeOrder, OrderRow
<1> QED
  BY <1>1, <1>3

\* Every migrated ad is a row.
LEMMA MigratedRowType ==
    ASSUME NEW a \in LegacyAds
    PROVE  MigratedRow(a) \in ListingRow
<1>1. /\ a.creator \in Users /\ a.amount \in Nat /\ a.price \in Nat
      /\ a.source \in Sources
  BY MarketAssumption DEF LegacyAd, Sources
<1>2. Fiat(a.amount, a.price) \in Nat
  BY <1>1, FiatType
<1> QED
  BY <1>1, <1>2 DEF MigratedRow, ListingRow, Sides, FeeModels

\* Updates of an order row keep its type.
LEMMA OrderRowUpdates ==
    ASSUME NEW row \in OrderRow
    PROVE  /\ \A st \in OpenStatuses, w \in BOOLEAN :
                 [row EXCEPT !.status = st, !.appealable = w] \in OrderRow
           /\ \A st \in OpenStatuses, u \in Users \cup {Nobody} :
                 [row EXCEPT !.status = st, !.appealedBy = u] \in OrderRow
           /\ \A n \in 0..MaxProofs : [row EXCEPT !.proofs = n] \in OrderRow
           /\ \A w \in BOOLEAN : /\ [row EXCEPT !.elapsed = w] \in OrderRow
                                 /\ [row EXCEPT !.appealable = w] \in OrderRow
           /\ \A st \in FinalStatuses, u \in Users \cup {Nobody} :
                 Closed(row, st, u) \in OrderRow
<1>1. ASSUME NEW st \in OpenStatuses, NEW w \in BOOLEAN
      PROVE  [row EXCEPT !.status = st, !.appealable = w] \in OrderRow
  BY DEF OrderRow
<1>2. ASSUME NEW st \in OpenStatuses, NEW u \in Users \cup {Nobody}
      PROVE  [row EXCEPT !.status = st, !.appealedBy = u] \in OrderRow
  BY DEF OrderRow
<1>3. ASSUME NEW n \in 0..MaxProofs PROVE [row EXCEPT !.proofs = n] \in OrderRow
  BY DEF OrderRow
<1>4. ASSUME NEW w \in BOOLEAN
      PROVE  /\ [row EXCEPT !.elapsed = w] \in OrderRow
             /\ [row EXCEPT !.appealable = w] \in OrderRow
  BY DEF OrderRow
<1>5. ASSUME NEW st \in FinalStatuses, NEW u \in Users \cup {Nobody}
      PROVE  Closed(row, st, u) \in OrderRow
  BY DEF OrderRow, Closed
<1> QED
  BY <1>1, <1>2, <1>3, <1>4, <1>5

\* Reservations that predate the P2P wallet are natural numbers.
LEMMA LegacyReserveType ==
    ASSUME NEW u, NEW source
    PROVE  LegacyReserve(u, source) \in Nat
<1> DEFINE f == [a \in LegacyAds |->
                   IF a.creator = u /\ a.source = source THEN a.amount ELSE 0]
<1>1. \A a \in LegacyAds : a.amount \in Nat
  BY MarketAssumption DEF LegacyAd
<1>2. f \in [LegacyAds -> Nat]
  BY <1>1
<1> HIDE DEF f
<1>3. Total(f) \in Nat
  BY <1>2, TotalType, MarketAssumption
<1> QED
  BY <1>3 DEF LegacyReserve, f

\* The initial rows, of either migration epoch, have their types.
LEMMA InitTypeOK == Init => TypeOK
<1> SUFFICES ASSUME Init PROVE TypeOK
  OBVIOUS
<1>1. main \in [Users -> Nat] /\ mainLocked \in [Users -> Nat]
  BY MarketAssumption, LegacyReserveType DEF Init
<1>2. avail \in [Users -> Nat] /\ reserved \in [Users -> Nat] /\ adminFees \in Nat
  BY LegacyReserveType DEF Init
<1>3. funding \in [Users -> [RequestIds -> Nat]]
  BY DEF Init
<1>4. username \in [Users -> Names \cup {NoName}] /\ accounts \subseteq Users \X Methods
  BY MarketAssumption DEF Init
<1>5. listing \in [Listings -> ListingRow]
  <2> SUFFICES ASSUME NEW l \in Listings
               PROVE  (IF \E a \in LegacyAds : a.listing = l
                       THEN MigratedRow(CHOOSE a \in LegacyAds : a.listing = l)
                       ELSE FreeListing) \in ListingRow
    BY DEF Init
  <2>1. CASE \E a \in LegacyAds : a.listing = l
    <3>1. (CHOOSE a \in LegacyAds : a.listing = l) \in LegacyAds
      BY <2>1
    <3> QED
      BY <2>1, <3>1, MigratedRowType
  <2>2. CASE ~\E a \in LegacyAds : a.listing = l
    BY <2>2, FreeRowTypes
  <2> QED
    BY <2>1, <2>2
<1>6. order \in [Orders -> OrderRow]
  BY FreeRowTypes DEF Init
<1>7. sweep \in [Sweepers -> SUBSET Orders] /\ aborts \in 0..MaxAborts
  BY MarketAssumption DEF Init
<1> QED
  BY <1>1, <1>2, <1>3, <1>4, <1>5, <1>6, <1>7 DEF TypeOK

\* The profile and the funding of the P2P wallet.
LEMMA ProfileTypeOK == TypeOK /\ ProfileStep => TypeOK'
<1> SUFFICES ASSUME TypeOK, ProfileStep PROVE TypeOK'
  OBVIOUS
<1> PICK u \in Users :
       \/ \E n \in Names : EstablishP2PUsername(u, n)
       \/ \E m \in Methods : UpsertPaymentAccount(u, m)
       \/ \E amount \in Amounts, k \in RequestIds : FundWalletAsset(u, amount, k)
  BY DEF ProfileStep, FundingStep
<1>1. ASSUME NEW n \in Names, EstablishP2PUsername(u, n) PROVE TypeOK'
  BY <1>1 DEF EstablishP2PUsername, wallets, TypeOK
<1>2. ASSUME NEW m \in Methods, UpsertPaymentAccount(u, m) PROVE TypeOK'
  BY <1>2 DEF UpsertPaymentAccount, wallets, TypeOK
<1>3. ASSUME NEW amount \in Amounts, NEW k \in RequestIds, FundWalletAsset(u, amount, k)
      PROVE  TypeOK'
  <2>1. /\ amount \in Nat /\ main[u] \in Nat /\ mainLocked[u] \in Nat /\ Hold[u] \in Nat
        /\ avail[u] \in Nat /\ funding[u] \in [RequestIds -> Nat]
    BY MarketAssumption DEF TypeOK
  <2>2. main[u] - amount \in Nat /\ avail[u] + amount \in Nat
    BY <1>3, <2>1 DEF FundWalletAsset, Covers
  <2>3. main' \in [Users -> Nat] /\ avail' \in [Users -> Nat]
    BY <1>3, <2>2 DEF FundWalletAsset, TypeOK
  <2>4. funding' \in [Users -> [RequestIds -> Nat]]
    BY <1>3, <2>1 DEF FundWalletAsset, TypeOK
  <2> QED
    BY <1>3, <2>3, <2>4 DEF FundWalletAsset, profile, TypeOK
<1> QED
  BY <1>1, <1>2, <1>3

\* Posting and cancelling an ad.
LEMMA ListingTypeOK == TypeOK /\ ListingStep => TypeOK'
<1> SUFFICES ASSUME TypeOK, ListingStep PROVE TypeOK'
  OBVIOUS
<1> PICK l \in Listings :
       \/ CancelListing(l)
       \/ \E u \in Users, side \in Sides, amount \in Amounts,
             methods \in SUBSET Methods, n \in Names \cup {NoName}, price \in Prices :
            \E min \in Limits \cup {1}, max \in Limits \cup {Fiat(amount, price)} :
               CreateListing(u, l, side, amount, methods, n, price, min, max)
  BY DEF ListingStep
<1>1. ASSUME CancelListing(l) PROVE TypeOK'
  <2> DEFINE ad == listing[l]
             u  == ad.creator
             release == Unsold(ad)
  <2>1. ad \in ListingRow
    BY DEF TypeOK
  <2>2. ad.remaining \in Nat /\ release \in Nat
    BY <2>1, FeeType DEF ListingRow, Unsold, SellerDebit
  <2>3. [ad EXCEPT !.status = "CANCELLED"] \in ListingRow
    BY <2>1 DEF ListingRow
  <2>4. listing' \in [Listings -> ListingRow]
    BY <1>1, <2>3 DEF CancelListing, TypeOK
  <2> HIDE DEF release
  <2>5. /\ reserved' \in [Users -> Nat] /\ avail' \in [Users -> Nat]
        /\ mainLocked' \in [Users -> Nat]
        /\ UNCHANGED <<main, adminFees, funding>>
    <3>1. CASE ad.side = "BUY"
      BY <1>1, <3>1 DEF CancelListing, wallets, TypeOK, ListingRow, Sides
    <3>2. CASE ad.side = "SELL" /\ ad.source = "P2P_WALLET"
      <4>1. /\ Covers(reserved[u], release)
            /\ reserved' = [reserved EXCEPT ![u] = @ - release]
            /\ avail' = [avail EXCEPT ![u] = @ + release]
            /\ UNCHANGED <<main, mainLocked, adminFees, funding>>
        BY <1>1, <3>2 DEF CancelListing, release
      <4>2. u \in Users => reserved[u] - release \in Nat /\ avail[u] + release \in Nat
        BY <2>2, <4>1 DEF Covers, TypeOK
      <4> QED
        BY <4>1, <4>2 DEF TypeOK
    <3>3. CASE ad.side = "SELL" /\ ad.source = "MAIN_WALLET_LEGACY"
      <4>1. /\ Covers(mainLocked[u], ad.remaining)
            /\ mainLocked' = [mainLocked EXCEPT ![u] = @ - ad.remaining]
            /\ UNCHANGED <<main, avail, reserved, adminFees, funding>>
        BY <1>1, <3>3 DEF CancelListing
      <4>2. u \in Users => mainLocked[u] - ad.remaining \in Nat
        BY <2>2, <4>1 DEF Covers, TypeOK
      <4> QED
        BY <4>1, <4>2 DEF TypeOK
    <3> QED
      BY <1>1, <3>1, <3>2, <3>3 DEF CancelListing
  <2> QED
    BY <1>1, <2>4, <2>5 DEF CancelListing, profile, TypeOK
<1>2. ASSUME NEW u \in Users, NEW side \in Sides, NEW amount \in Amounts,
             NEW methods \in SUBSET Methods, NEW n \in Names \cup {NoName},
             NEW price \in Prices, NEW min \in Limits \cup {1},
             NEW max \in Limits \cup {Fiat(amount, price)},
             CreateListing(u, l, side, amount, methods, n, price, min, max)
      PROVE  TypeOK'
  <2> DEFINE debit == SellerDebit("BIUSD_1PCT_EACH", amount)
  <2>1. amount \in Nat /\ price \in Nat /\ min \in Nat /\ max \in Nat
    <3>1. amount \in Nat /\ price \in Nat /\ min \in Nat
      BY MarketAssumption
    <3>2. Fiat(amount, price) \in Nat
      BY <3>1, FiatType
    <3>3. max \in Nat
      BY <3>2, MarketAssumption
    <3> QED
      BY <3>1, <3>3
  <2>2. debit \in Nat
    BY <2>1, FeeType DEF SellerDebit
  <2>3. listing' \in [Listings -> ListingRow]
    <3>1. [status |-> "ACTIVE", side |-> side, creator |-> u, amount |-> amount,
           remaining |-> amount, price |-> price, min |-> min, max |-> max,
           methods |-> methods, source |-> "P2P_WALLET",
           feeModel |-> "BIUSD_1PCT_EACH"] \in ListingRow
      BY <2>1 DEF ListingRow, Sources, FeeModels
    <3> QED
      BY <1>2, <3>1 DEF CreateListing, TypeOK
  <2> HIDE DEF debit
  <2>4. avail' \in [Users -> Nat] /\ reserved' \in [Users -> Nat]
    <3>1. \/ /\ Covers(avail[u], debit)
             /\ avail' = [avail EXCEPT ![u] = @ - debit]
             /\ reserved' = [reserved EXCEPT ![u] = @ + debit]
          \/ UNCHANGED <<avail, reserved>>
      BY <1>2 DEF CreateListing, debit
    <3>2. /\ Covers(avail[u], debit) => avail[u] - debit \in Nat
          /\ reserved[u] + debit \in Nat
      BY <2>2 DEF Covers, TypeOK
    <3> QED
      BY <3>1, <3>2 DEF TypeOK
  <2>5. username' \in [Users -> Names \cup {NoName}]
    BY <1>2 DEF CreateListing, TypeOK
  <2> QED
    BY <1>2, <2>3, <2>4, <2>5 DEF CreateListing, TypeOK
<1> QED
  BY <1>1, <1>2

\* So do updates of what remains of an ad.
LEMMA ListingUpdates ==
    ASSUME NEW f \in [Listings -> ListingRow], NEW l \in Listings, NEW r \in Nat,
           NEW st \in {"ACTIVE", "FILLED", "CANCELLED"}
    PROVE  [f EXCEPT ![l].remaining = r, ![l].status = st] \in [Listings -> ListingRow]
<1>1. [f[l] EXCEPT !.remaining = r] \in ListingRow
  BY DEF ListingRow
<1>2. [[f[l] EXCEPT !.remaining = r] EXCEPT !.status = st] \in ListingRow
  BY <1>1 DEF ListingRow
<1> QED
  BY <1>1, <1>2

\* A debit that the balance covers leaves natural numbers.
LEMMA DebitType ==
    ASSUME NEW f \in [Users -> Nat], NEW u, NEW n \in Nat, u \in Users => Covers(f[u], n)
    PROVE  [f EXCEPT ![u] = @ - n] \in [Users -> Nat]
<1>1. CASE u \in Users
  <2>1. f[u] - n \in Nat
    BY <1>1 DEF Covers
  <2> QED
    BY <2>1
<1>2. CASE u \notin Users
  BY <1>2
<1> QED
  BY <1>1, <1>2

\* A credit leaves natural numbers.
LEMMA CreditType ==
    ASSUME NEW f \in [Users -> Nat], NEW u, NEW n \in Nat
    PROVE  [f EXCEPT ![u] = @ + n] \in [Users -> Nat]
<1>1. CASE u \in Users
  <2>1. f[u] + n \in Nat
    BY <1>1
  <2> QED
    BY <2>1
<1>2. CASE u \notin Users
  BY <1>2
<1> QED
  BY <1>1, <1>2

\* A refund keeps every type.
LEMMA RefundTypeOK ==
    ASSUME TypeOK, NEW o \in Orders, NEW by \in Users \cup {Nobody}, Refund(o, by)
    PROVE  /\ avail' \in [Users -> Nat] /\ reserved' \in [Users -> Nat]
           /\ listing' \in [Listings -> ListingRow] /\ order' \in [Orders -> OrderRow]
           /\ UNCHANGED <<main, mainLocked, adminFees, funding, username, accounts>>
<1> DEFINE row == order[o]
           l   == row.listing
           ad  == listing[l]
<1>1. row \in OrderRow /\ row.escrow \in Nat /\ row.amount \in Nat
  BY DEF TypeOK, OrderRow
<1>2. avail' \in [Users -> Nat] /\ reserved' \in [Users -> Nat]
  <2>1. avail \in [Users -> Nat] /\ reserved \in [Users -> Nat]
    BY DEF TypeOK
  <2>2. \/ /\ reserved' = [reserved EXCEPT ![row.seller] = @ + row.escrow]
           /\ avail' = avail
        \/ /\ avail' = [avail EXCEPT ![row.seller] = @ + row.escrow]
           /\ reserved' = reserved
    BY DEF Refund
  <2>3. row.escrow \in Nat
    BY <1>1
  <2> DEFINE n == row.escrow
             u == row.seller
  <2>4. /\ [reserved EXCEPT ![u] = @ + n] \in [Users -> Nat]
        /\ [avail EXCEPT ![u] = @ + n] \in [Users -> Nat]
    <3>1. n \in Nat
      BY <2>3
    <3> HIDE DEF n, u
    <3> QED
      BY <2>1, <3>1, CreditType
  <2> QED
    BY <2>1, <2>2, <2>4
<1>3. listing' \in [Listings -> ListingRow]
  <2>1. \/ listing' = listing
        \/ listing' = [listing EXCEPT ![l].remaining = @ + row.amount, ![l].status = "ACTIVE"]
    BY DEF Refund
  <2>2. CASE l \in Listings
    <3>1. ad.remaining \in Nat
      BY <2>2 DEF TypeOK, ListingRow
    <3>2. ad.remaining + row.amount \in Nat
      BY <1>1, <3>1
    <3>3. [listing EXCEPT ![l].remaining = ad.remaining + row.amount, ![l].status = "ACTIVE"]
            \in [Listings -> ListingRow]
      BY <2>2, <3>2, ListingUpdates DEF TypeOK
    <3> QED
      BY <2>1, <3>3 DEF TypeOK
  <2>3. CASE l \notin Listings
    BY <2>1, <2>3 DEF TypeOK
  <2> QED
    BY <2>2, <2>3
<1>4. order' \in [Orders -> OrderRow]
  <2>1. Closed(row, "cancelled", by) \in OrderRow
    BY <1>1, OrderRowUpdates DEF FinalStatuses
  <2> QED
    BY <2>1 DEF Refund, TypeOK
<1> QED
  BY <1>2, <1>3, <1>4 DEF Refund, profile

\* A release keeps every type.
LEMMA SettleTypeOK ==
    ASSUME TypeOK, NEW o \in Orders, Settle(o)
    PROVE  TypeOK'
<1> DEFINE row == order[o]
<1>1. row \in OrderRow /\ row.credit \in Nat /\ row.fee \in Nat
  BY DEF TypeOK, OrderRow
<1>2. avail' \in [Users -> Nat]
  <2>1. row.buyer \in Users => avail[row.buyer] + row.credit \in Nat
    BY <1>1 DEF TypeOK
  <2> QED
    BY <2>1 DEF Settle, TypeOK
<1>3. adminFees' \in Nat
  BY <1>1 DEF Settle, TypeOK
<1>4. order' \in [Orders -> OrderRow]
  <2>1. row.cancelledBy \in Users \cup {Nobody}
    BY <1>1 DEF OrderRow
  <2>2. Closed(row, "completed", row.cancelledBy) \in OrderRow
    BY <1>1, <2>1, OrderRowUpdates DEF FinalStatuses
  <2> QED
    BY <2>2 DEF Settle, TypeOK
<1> QED
  BY <1>2, <1>3, <1>4 DEF Settle, profile, TypeOK

\* Taking an ad keeps every type.
LEMMA CreateOrderTypeOK ==
    ASSUME TypeOK, NEW t \in Users, NEW l \in Listings, NEW o \in Orders,
           NEW amount \in Amounts, NEW m \in Methods, NEW k \in Keys \cup {NoKey},
           CreateOrder(t, l, o, amount, m, k)
    PROVE  TypeOK'
<1> DEFINE ad     == listing[l]
           seller == IF ad.side = "BUY" THEN t ELSE ad.creator
           buyer  == IF ad.side = "BUY" THEN ad.creator ELSE t
           debit  == SellerDebit(ad.feeModel, amount)
           credit == BuyerCredit(ad.feeModel, amount)
           fee    == FeeOf(ad.feeModel, amount)
<1>1. ad \in ListingRow /\ amount \in Nat
  BY MarketAssumption DEF TypeOK
<1>2. debit \in Nat /\ credit \in Nat /\ fee \in Nat
  BY <1>1, FeeType DEF SellerDebit, BuyerCredit
<1>3. seller \in Users \cup {Nobody} /\ buyer \in Users \cup {Nobody}
  BY <1>1 DEF ListingRow
<1>4. order' \in [Orders -> OrderRow]
  <2> DEFINE parties == [FreeOrder EXCEPT !.status = "pending_payment", !.listing = l,
                           !.seller = seller, !.buyer = buyer, !.taker = t]
             money   == [parties EXCEPT !.amount = amount, !.fee = fee, !.credit = credit,
                           !.debit = debit, !.escrow = debit]
             new     == [money EXCEPT !.key = k]
  <2>1. parties \in OrderRow
    <3> HIDE DEF seller, buyer
    <3> QED
      BY <1>3, FreeRowTypes DEF OrderRow, OpenStatuses
  <2>2. money \in OrderRow
    <3> HIDE DEF parties, fee, credit, debit
    <3> QED
      BY <1>1, <1>2, <2>1 DEF OrderRow
  <2>3. new \in OrderRow
    <3> HIDE DEF money
    <3> QED
      BY <2>2 DEF OrderRow
  <2>4. order' = [order EXCEPT ![o] = new]
    BY DEF CreateOrder
  <2> HIDE DEF new
  <2> QED
    BY <2>3, <2>4 DEF TypeOK
<1>5. listing' \in [Listings -> ListingRow]
  <2>1. amount <= ad.remaining /\ ad.status = "ACTIVE"
    BY DEF CreateOrder, OrderFits
  <2>2. ad.remaining - amount \in Nat
    BY <1>1, <2>1 DEF ListingRow
  <2> DEFINE st == IF ad.remaining = amount THEN "FILLED" ELSE ad.status
  <2>3. st \in {"ACTIVE", "FILLED"}
    BY <2>1
  <2>4. listing' = [listing EXCEPT ![l].remaining = ad.remaining - amount, ![l].status = st]
    BY <1>1 DEF CreateOrder, TypeOK
  <2> HIDE DEF st
  <2> QED
    BY <2>2, <2>3, <2>4, ListingUpdates DEF TypeOK
<1>6. MoveToEscrow(ad, seller, amount, debit)
  BY DEF CreateOrder
<1> HIDE DEF seller, debit, ad
<1>7. /\ avail' \in [Users -> Nat] /\ reserved' \in [Users -> Nat]
      /\ main' \in [Users -> Nat] /\ mainLocked' \in [Users -> Nat]
  <2>1. CASE /\ Covers(avail[seller], debit)
             /\ avail' = [avail EXCEPT ![seller] = @ - debit]
             /\ UNCHANGED <<main, mainLocked, reserved>>
    BY <1>2, <2>1, DebitType DEF TypeOK
  <2>2. CASE /\ Covers(reserved[seller], debit)
             /\ reserved' = [reserved EXCEPT ![seller] = @ - debit]
             /\ UNCHANGED <<main, mainLocked, avail>>
    BY <1>2, <2>2, DebitType DEF TypeOK
  <2>3. CASE /\ Covers(main[seller], amount) /\ Covers(mainLocked[seller], amount)
             /\ main' = [main EXCEPT ![seller] = @ - amount]
             /\ mainLocked' = [mainLocked EXCEPT ![seller] = @ - amount]
             /\ UNCHANGED <<avail, reserved>>
    BY <1>1, <2>3, DebitType DEF TypeOK
  <2> QED
    BY <1>6, <2>1, <2>2, <2>3 DEF MoveToEscrow
<1> QED
  BY <1>4, <1>5, <1>7 DEF CreateOrder, profile, TypeOK

\* Orders, from creation to the end.
LEMMA OrderTypeOK == TypeOK /\ OrderStep => TypeOK'
<1> SUFFICES ASSUME TypeOK, NEW o \in Orders,
               \/ \E t \in Users, l \in Listings, amount \in Amounts, m \in Methods,
                     k \in Keys \cup {NoKey} : CreateOrder(t, l, o, amount, m, k)
               \/ AddOrderProof(o) \/ MarkPaid(o) \/ MarkPaidTooLate(o)
               \/ CancelOrder(o) \/ ReleaseOrder(o)
               \/ \E u \in Users : AppealOrder(u, o)
               \/ CancelAppeal(o) \/ ResolveAppealRelease(o) \/ ResolveAppealRefund(o)
               \/ PaymentWindowElapses(o) \/ AppealWindowOpens(o)
             PROVE  TypeOK'
  BY DEF OrderStep
<1>0. order[o] \in OrderRow
  BY DEF TypeOK
<1>1. ASSUME NEW row \in OrderRow, order' = [order EXCEPT ![o] = row],
             UNCHANGED <<wallets, profile, listing, sweep, aborts>>
      PROVE  TypeOK'
  BY <1>1 DEF TypeOK, wallets, profile
<1>2. ASSUME NEW by \in Users \cup {Nobody}, Refund(o, by), UNCHANGED <<sweep, aborts>>
      PROVE  TypeOK'
  BY <1>2, RefundTypeOK DEF TypeOK
<1>3. order[o].buyer \in Users \cup {Nobody}
  BY <1>0 DEF OrderRow
<1>4. CASE \E t \in Users, l \in Listings, amount \in Amounts, m \in Methods,
              k \in Keys \cup {NoKey} : CreateOrder(t, l, o, amount, m, k)
  BY <1>4, CreateOrderTypeOK
<1>5. CASE AddOrderProof(o)
  <2>1. order[o].proofs + 1 \in 0..MaxProofs
    BY <1>0, <1>5, MarketAssumption DEF AddOrderProof, OrderRow
  <2>2. [order[o] EXCEPT !.proofs = @ + 1] \in OrderRow
    BY <1>0, <2>1, OrderRowUpdates
  <2> QED
    BY <1>1, <1>5, <2>2 DEF AddOrderProof
<1>6. CASE MarkPaid(o)
  <2>1. [order[o] EXCEPT !.status = "payment_made", !.appealable = FALSE] \in OrderRow
    BY <1>0, OrderRowUpdates DEF OpenStatuses
  <2>2. order' = [order EXCEPT ![o] =
                    [order[o] EXCEPT !.status = "payment_made", !.appealable = FALSE]]
    BY <1>6 DEF MarkPaid, TypeOK
  <2> QED
    BY <1>1, <1>6, <2>1, <2>2 DEF MarkPaid
<1>7. CASE MarkPaidTooLate(o)
  BY <1>2, <1>3, <1>7 DEF MarkPaidTooLate
<1>8. CASE CancelOrder(o)
  BY <1>2, <1>3, <1>8 DEF CancelOrder
<1>9. CASE ReleaseOrder(o) \/ ResolveAppealRelease(o)
  BY <1>9, SettleTypeOK DEF ReleaseOrder, ResolveAppealRelease
<1>10. CASE \E u \in Users : AppealOrder(u, o)
  <2> PICK u \in Users : AppealOrder(u, o)
    BY <1>10
  <2>1. [order[o] EXCEPT !.status = "appeal", !.appealedBy = u] \in OrderRow
    BY <1>0, OrderRowUpdates DEF OpenStatuses
  <2>2. order' = [order EXCEPT ![o] =
                    [order[o] EXCEPT !.status = "appeal", !.appealedBy = u]]
    BY DEF AppealOrder, TypeOK
  <2> QED
    BY <1>1, <2>1, <2>2 DEF AppealOrder
<1>11. CASE CancelAppeal(o)
  <2>1. [order[o] EXCEPT !.status = "payment_made", !.appealedBy = Nobody] \in OrderRow
    BY <1>0, OrderRowUpdates DEF OpenStatuses
  <2>2. order' = [order EXCEPT ![o] =
                    [order[o] EXCEPT !.status = "payment_made", !.appealedBy = Nobody]]
    BY <1>11 DEF CancelAppeal, TypeOK
  <2> QED
    BY <1>1, <1>11, <2>1, <2>2 DEF CancelAppeal
<1>12. CASE ResolveAppealRefund(o)
  BY <1>2, <1>12 DEF ResolveAppealRefund
<1>13. CASE PaymentWindowElapses(o)
  <2>1. [order[o] EXCEPT !.elapsed = TRUE] \in OrderRow
    BY <1>0, OrderRowUpdates
  <2> QED
    BY <1>1, <1>13, <2>1 DEF PaymentWindowElapses
<1>14. CASE AppealWindowOpens(o)
  <2>1. [order[o] EXCEPT !.appealable = TRUE] \in OrderRow
    BY <1>0, OrderRowUpdates
  <2> QED
    BY <1>1, <1>14, <2>1 DEF AppealWindowOpens
<1> QED
  BY <1>4, <1>5, <1>6, <1>7, <1>8, <1>9, <1>10, <1>11, <1>12, <1>13, <1>14

\* The sweep.
LEMMA SweepTypeOK == TypeOK /\ SweepStep => TypeOK'
<1> SUFFICES ASSUME TypeOK, NEW s \in Sweepers,
                    SweepStart(s) \/ SweepAbort(s) \/ \E o \in Orders : SweepCancel(s, o)
             PROVE  TypeOK'
  BY DEF SweepStep
<1>1. CASE SweepStart(s)
  <2>1. PICK ids \in SUBSET Due : sweep' = [sweep EXCEPT ![s] = ids]
    BY <1>1 DEF SweepStart
  <2>2. ids \in SUBSET Orders
    BY DEF Due
  <2> QED
    BY <1>1, <2>1, <2>2 DEF SweepStart, TypeOK, wallets, profile
<1>2. CASE SweepAbort(s)
  <2>1. aborts + 1 \in 0..MaxAborts
    BY <1>2, MarketAssumption DEF SweepAbort, TypeOK
  <2> QED
    BY <1>2, <2>1 DEF SweepAbort, TypeOK, wallets, profile
<1>3. CASE \E o \in Orders : SweepCancel(s, o)
  <2> PICK o \in Orders : SweepCancel(s, o)
    BY <1>3
  <2>1. sweep' \in [Sweepers -> SUBSET Orders]
    BY DEF SweepCancel, TypeOK
  <2>2. CASE Refund(o, order[o].buyer)
    <3>1. order[o].buyer \in Users \cup {Nobody}
      BY DEF TypeOK, OrderRow
    <3> QED
      BY <2>1, <2>2, <3>1, RefundTypeOK DEF SweepCancel, TypeOK
  <2>3. CASE UNCHANGED <<wallets, profile, listing, order>>
    BY <2>1, <2>3 DEF SweepCancel, TypeOK, wallets, profile
  <2> QED
    BY <2>2, <2>3 DEF SweepCancel
<1> QED
  BY <1>1, <1>2, <1>3

\* Every step keeps every type.
LEMMA StepTypeOK == TypeOK /\ [Next]_vars => TypeOK'
<1> SUFFICES ASSUME TypeOK, [Next]_vars PROVE TypeOK'
  OBVIOUS
<1>1. CASE Next
  BY <1>1, ProfileTypeOK, ListingTypeOK, OrderTypeOK, SweepTypeOK DEF Next
<1>2. CASE UNCHANGED vars
  BY <1>2 DEF vars, wallets, profile, TypeOK
<1> QED
  BY <1>1, <1>2

\* Every row keeps its type and no balance, reservation, lock or escrow is
\* ever negative: the guards of the balance updates are enough, and the CHECK
\* constraints of the schema are never what stops a request.
THEOREM TypeCorrect == Spec => []TypeOK
BY InitTypeOK, StepTypeOK, PTL DEF Spec

-----------------------------------------------------------------------------
(* The life of an order.                                                   *)

SameMoney(old, new) ==
    /\ new.escrow = old.escrow /\ new.debit = old.debit
    /\ new.credit = old.credit /\ new.fee = old.fee

\* What one step may do to one order row.
RowStep(old, new) ==
    \/ new = old
    \/ /\ old.status = "none" /\ new.status = "pending_payment"
       /\ new.escrow = new.debit /\ new.debit = new.credit + 2 * new.fee
    \/ /\ old.status \in OpenStatuses /\ new.status \in OpenStatuses
       /\ MayFollow(old.status, new.status) \/ new.status = old.status
       /\ SameMoney(old, new)
    \/ /\ old.status \in OpenStatuses /\ new.status \in FinalStatuses
       /\ MayFollow(old.status, new.status)
       /\ new.escrow = 0 /\ new.debit = old.debit
       /\ new.credit = old.credit /\ new.fee = old.fee

\* A row is opened, moved between the open statuses with its money untouched,
\* or closed with an empty escrow, and every other row keeps its value.
LEMMA RowSteps ==
    ASSUME TypeOK, [Next]_vars, NEW p \in Orders
    PROVE  RowStep(order[p], order'[p])
<1>1. ASSUME NEW o \in Orders, NEW by, Refund(o, by),
             order[o].status \in {"pending_payment", "appeal"}
      PROVE  RowStep(order[p], order'[p])
  <2>1. order' = [order EXCEPT ![o] = Closed(@, "cancelled", by)]
    BY <1>1 DEF Refund
  <2> QED
    BY <1>1, <2>1 DEF TypeOK, OrderRow, Closed, RowStep, MayFollow, OpenStatuses, FinalStatuses
<1>2. ASSUME NEW o \in Orders, Settle(o),
             order[o].status \in {"payment_made", "appeal"}
      PROVE  RowStep(order[p], order'[p])
  <2>1. order' = [order EXCEPT ![o] = Closed(@, "completed", order[o].cancelledBy)]
    BY <1>2 DEF Settle
  <2> QED
    BY <1>2, <2>1 DEF TypeOK, OrderRow, Closed, RowStep, MayFollow, OpenStatuses, FinalStatuses
<1>3. CASE UNCHANGED order
  BY <1>3 DEF RowStep
<1>4. CASE ProfileStep \/ ListingStep
  <2>1. UNCHANGED order
    BY <1>4 DEF ProfileStep, FundingStep, ListingStep, EstablishP2PUsername, UpsertPaymentAccount,
                FundWalletAsset, CancelListing, CreateListing
  <2> QED
    BY <1>3, <2>1
<1>5. CASE SweepStep
  <2>1. UNCHANGED order \/ \E o \in Orders : Unpaid(o) /\ Refund(o, order[o].buyer)
    BY <1>5 DEF SweepStep, SweepStart, SweepAbort, SweepCancel
  <2> QED
    BY <1>1, <1>3, <2>1 DEF Unpaid
<1>6. CASE OrderStep
  <2> PICK o \in Orders :
               \/ \E t \in Users, l \in Listings, amount \in Amounts, m \in Methods,
                     k \in Keys \cup {NoKey} : CreateOrder(t, l, o, amount, m, k)
               \/ AddOrderProof(o) \/ MarkPaid(o) \/ MarkPaidTooLate(o)
               \/ CancelOrder(o) \/ ReleaseOrder(o)
               \/ \E u \in Users : AppealOrder(u, o)
               \/ CancelAppeal(o) \/ ResolveAppealRelease(o) \/ ResolveAppealRefund(o)
               \/ PaymentWindowElapses(o) \/ AppealWindowOpens(o)
    BY <1>6 DEF OrderStep
  <2>1. ASSUME NEW t \in Users, NEW l \in Listings, NEW amount \in Amounts,
               NEW m \in Methods, NEW k \in Keys \cup {NoKey},
               CreateOrder(t, l, o, amount, m, k)
        PROVE  RowStep(order[p], order'[p])
    <3> DEFINE ad     == listing[l]
               fee    == FeeOf(ad.feeModel, amount)
               new    == order'[o]
    <3>1. fee \in Nat /\ amount \in Nat
      BY MarketAssumption, FeeType
    <3>2. new.debit = amount + fee /\ new.credit = amount - fee /\ new.fee = fee
      BY <2>1 DEF CreateOrder, TypeOK, FreeOrder, SellerDebit, BuyerCredit
    <3>3. new.status = "pending_payment" /\ new.escrow = new.debit /\ order[o].status = "none"
      BY <2>1 DEF CreateOrder, TypeOK, FreeOrder
    <3>4. new.debit = new.credit + 2 * new.fee
      <4> HIDE DEF new, fee
      <4> QED
        BY <3>1, <3>2
    <3>5. p # o => order'[p] = order[p]
      BY <2>1 DEF CreateOrder, TypeOK
    <3> QED
      BY <3>3, <3>4, <3>5 DEF RowStep
  <2>2. CASE AddOrderProof(o)
    BY <2>2 DEF AddOrderProof, TypeOK, OrderRow, RowStep, SameMoney, OpenStatuses
  <2>3. CASE MarkPaid(o)
    BY <2>3 DEF MarkPaid, TypeOK, OrderRow, RowStep, SameMoney, MayFollow, OpenStatuses
  <2>4. CASE \E u \in Users : AppealOrder(u, o)
    <3> PICK u \in Users : AppealOrder(u, o)
      BY <2>4
    <3> DEFINE new == [order[o] EXCEPT !.status = "appeal", !.appealedBy = u]
    <3>1. order[o].status = "payment_made" /\ order' = [order EXCEPT ![o] = new]
      BY DEF AppealOrder, TypeOK
    <3>2. new.status = "appeal" /\ SameMoney(order[o], new)
      BY DEF TypeOK, OrderRow, SameMoney
    <3> HIDE DEF new
    <3> QED
      BY <3>1, <3>2 DEF TypeOK, RowStep, MayFollow, OpenStatuses
  <2>5. CASE CancelAppeal(o)
    BY <2>5 DEF CancelAppeal, TypeOK, OrderRow, RowStep, SameMoney, MayFollow, OpenStatuses
  <2>6. CASE PaymentWindowElapses(o)
    BY <2>6 DEF PaymentWindowElapses, TypeOK, OrderRow, RowStep, SameMoney, OpenStatuses
  <2>7. CASE AppealWindowOpens(o)
    BY <2>7 DEF AppealWindowOpens, TypeOK, OrderRow, RowStep, SameMoney, OpenStatuses
  <2>8. CASE MarkPaidTooLate(o) \/ CancelOrder(o) \/ ResolveAppealRefund(o)
    BY <1>1, <2>8 DEF MarkPaidTooLate, CancelOrder, ResolveAppealRefund
  <2>9. CASE ReleaseOrder(o) \/ ResolveAppealRelease(o)
    BY <1>2, <2>9 DEF ReleaseOrder, ResolveAppealRelease
  <2> QED
    BY <2>1, <2>2, <2>3, <2>4, <2>5, <2>6, <2>7, <2>8, <2>9
<1>7. CASE UNCHANGED vars
  BY <1>3, <1>7 DEF vars
<1> QED
  BY <1>4, <1>5, <1>6, <1>7 DEF Next

\* The escrow of an order is the seller's whole debit while it is open and
\* nothing once it has ended, and the debit is what buyer and fees take.
THEOREM EscrowCorrect == Spec => []EscrowMatchesStatus
<1>1. Init => EscrowMatchesStatus
  BY DEF Init, EscrowMatchesStatus, FreeOrder, OpenStatuses
<1>2. TypeOK /\ EscrowMatchesStatus /\ [Next]_vars => EscrowMatchesStatus'
  <2> SUFFICES ASSUME TypeOK, EscrowMatchesStatus, [Next]_vars, NEW o \in Orders
               PROVE  LET row == order'[o] IN
                      /\ row.escrow = IF row.status \in OpenStatuses THEN row.debit ELSE 0
                      /\ row.debit = row.credit + 2 * row.fee
    BY DEF EscrowMatchesStatus
  <2>1. RowStep(order[o], order'[o])
    BY RowSteps
  <2>2. /\ order[o].escrow = IF order[o].status \in OpenStatuses THEN order[o].debit ELSE 0
        /\ order[o].debit = order[o].credit + 2 * order[o].fee
    BY DEF EscrowMatchesStatus
  <2> QED
    BY <2>1, <2>2 DEF RowStep, SameMoney, OpenStatuses, FinalStatuses
<1> QED
  BY <1>1, <1>2, TypeCorrect, PTL DEF Spec

\* Only the documented moves between statuses happen, whatever a stale sweep,
\* a retry or an admin does, and an ended order never changes again.
THEOREM LifecycleCorrect == Spec => OrderLifecycle
<1>1. ASSUME TypeOK, [Next]_vars
      PROVE  [\A o \in Orders :
                /\ MayFollow(order[o].status, order'[o].status)
                /\ order[o].status \in FinalStatuses => order'[o] = order[o]]_vars
  <2>1. ASSUME NEW o \in Orders
        PROVE  /\ MayFollow(order[o].status, order'[o].status)
               /\ order[o].status \in FinalStatuses => order'[o] = order[o]
    <3>1. RowStep(order[o], order'[o])
      BY <1>1, RowSteps
    <3> QED
      BY <3>1 DEF RowStep, MayFollow, OpenStatuses, FinalStatuses
  <2> QED
    BY <2>1
<1> QED
  BY <1>1, TypeCorrect, PTL DEF Spec, OrderLifecycle

-----------------------------------------------------------------------------
(* What a step does.                                                       *)

\* The parts of an order row that stay as they were agreed.
SameTerms(old, new) ==
    /\ new.listing = old.listing /\ new.seller = old.seller /\ new.buyer = old.buyer
    /\ new.taker = old.taker /\ new.key = old.key
    /\ new.amount = old.amount /\ new.fee = old.fee
    /\ new.credit = old.credit /\ new.debit = old.debit

\* The parts of an ad that stay as they were posted.
SameOffer(old, new) ==
    /\ new.side = old.side /\ new.creator = old.creator /\ new.amount = old.amount
    /\ new.price = old.price /\ new.min = old.min /\ new.max = old.max
    /\ new.methods = old.methods /\ new.source = old.source
    /\ new.feeModel = old.feeModel

\* An order moves between the open statuses, or its proofs or clocks do.
Touched(o) ==
    /\ order[o].status \in OpenStatuses /\ order'[o].status \in OpenStatuses
    /\ order'[o].escrow = order[o].escrow /\ SameTerms(order[o], order'[o])
    /\ order[o].elapsed => order'[o].elapsed
    /\ \A p \in Orders \ {o} : order'[p] = order[p]
    /\ UNCHANGED <<wallets, profile, listing, sweep, aborts>>

\* An order ends, in the row that records it.
Ended(o, status) ==
    /\ order[o].status \in OpenStatuses /\ order'[o].status = status
    /\ order'[o].escrow = 0 /\ SameTerms(order[o], order'[o])
    /\ order'[o].elapsed = order[o].elapsed
    /\ \A p \in Orders \ {o} : order'[p] = order[p]

\* The steps that leave wallets, ads and orders alone.
Aside == UNCHANGED <<wallets, listing, order>>

Funds == \E u \in Users, amount \in Amounts, k \in RequestIds : FundWalletAsset(u, amount, k)

Cancels(l) == CancelListing(l)

Posts(l) ==
    \E u \in Users, side \in Sides, amount \in Amounts, methods \in SUBSET Methods,
       n \in Names \cup {NoName}, price \in Prices :
      \E min \in Limits \cup {1}, max \in Limits \cup {Fiat(amount, price)} :
         CreateListing(u, l, side, amount, methods, n, price, min, max)

Takes(l, o) ==
    \E t \in Users, amount \in Amounts, m \in Methods, k \in Keys \cup {NoKey} :
       CreateOrder(t, l, o, amount, m, k)

Refunds(o) == \E by \in Users \cup {Nobody} : Refund(o, by) /\ Ended(o, "cancelled")

Settles(o) == Settle(o) /\ Ended(o, "completed")

\* A refund ends the order.
LEMMA RefundEnds ==
    ASSUME TypeOK, NEW o \in Orders, NEW by \in Users \cup {Nobody}, Refund(o, by),
           order[o].status \in OpenStatuses
    PROVE  Refunds(o)
<1>1. order[o] \in OrderRow /\ order' = [order EXCEPT ![o] = Closed(order[o], "cancelled", by)]
  BY DEF TypeOK, Refund
<1>2. Ended(o, "cancelled")
  BY <1>1 DEF TypeOK, OrderRow, Closed, Ended, SameTerms
<1> QED
  BY <1>2 DEF Refunds

\* A release ends the order.
LEMMA SettleEnds ==
    ASSUME TypeOK, NEW o \in Orders, Settle(o), order[o].status \in OpenStatuses
    PROVE  Settles(o)
<1>1. /\ order[o] \in OrderRow
      /\ order' = [order EXCEPT ![o] = Closed(order[o], "completed", order[o].cancelledBy)]
  BY DEF TypeOK, Settle
<1>2. Ended(o, "completed")
  BY <1>1 DEF TypeOK, OrderRow, Closed, Ended, SameTerms
<1> QED
  BY <1>2 DEF Settles

\* Every step is one of eight kinds.
LEMMA StepKinds ==
    ASSUME TypeOK, [Next]_vars
    PROVE  \/ Aside
           \/ Funds
           \/ \E l \in Listings : Cancels(l) \/ Posts(l)
           \/ \E o \in Orders : \/ \E l \in Listings : Takes(l, o)
                                \/ Touched(o) \/ Refunds(o) \/ Settles(o)
<1>1. CASE UNCHANGED vars
  BY <1>1 DEF vars, Aside
<1>2. CASE ProfileStep
  BY <1>2 DEF ProfileStep, FundingStep, EstablishP2PUsername, UpsertPaymentAccount, Aside, Funds
<1>3. CASE ListingStep
  BY <1>3 DEF ListingStep, Cancels, Posts
<1>4. CASE SweepStep
  <2>1. Aside \/ \E o \in Orders : Unpaid(o) /\ Refund(o, order[o].buyer)
    BY <1>4 DEF SweepStep, SweepStart, SweepAbort, SweepCancel, Aside
  <2>2. ASSUME NEW o \in Orders, Unpaid(o), Refund(o, order[o].buyer)
        PROVE  Refunds(o)
    <3>1. order[o].buyer \in Users \cup {Nobody} /\ order[o].status \in OpenStatuses
      BY <2>2 DEF TypeOK, OrderRow, Unpaid, OpenStatuses
    <3> QED
      BY <2>2, <3>1, RefundEnds
  <2> QED
    BY <2>1, <2>2
<1>5. CASE OrderStep
  <2> PICK o \in Orders :
               \/ \E t \in Users, l \in Listings, amount \in Amounts, m \in Methods,
                     k \in Keys \cup {NoKey} : CreateOrder(t, l, o, amount, m, k)
               \/ AddOrderProof(o) \/ MarkPaid(o) \/ MarkPaidTooLate(o)
               \/ CancelOrder(o) \/ ReleaseOrder(o)
               \/ \E u \in Users : AppealOrder(u, o)
               \/ CancelAppeal(o) \/ ResolveAppealRelease(o) \/ ResolveAppealRefund(o)
               \/ PaymentWindowElapses(o) \/ AppealWindowOpens(o)
    BY <1>5 DEF OrderStep
  <2>0. /\ order[o] \in OrderRow /\ order \in [Orders -> OrderRow]
        /\ order[o].buyer \in Users \cup {Nobody}
    BY DEF TypeOK, OrderRow
  <2>1. CASE \E t \in Users, l \in Listings, amount \in Amounts, m \in Methods,
                k \in Keys \cup {NoKey} : CreateOrder(t, l, o, amount, m, k)
    BY <2>1 DEF Takes
  <2>2. CASE AddOrderProof(o)
    <3> QED
      BY <2>0, <2>2 DEF AddOrderProof, OrderRow, Touched, SameTerms, OpenStatuses
  <2>3. CASE MarkPaid(o)
    BY <2>0, <2>3 DEF MarkPaid, OrderRow, Touched, SameTerms, OpenStatuses
  <2>4. CASE \E u \in Users : AppealOrder(u, o)
    <3> PICK u \in Users : AppealOrder(u, o)
      BY <2>4
    <3> DEFINE new == [order[o] EXCEPT !.status = "appeal", !.appealedBy = u]
    <3>1. order[o].status = "payment_made" /\ order' = [order EXCEPT ![o] = new]
      BY <2>0 DEF AppealOrder
    <3>2. /\ new.status = "appeal" /\ SameTerms(order[o], new)
          /\ new.escrow = order[o].escrow /\ new.elapsed = order[o].elapsed
      BY <2>0 DEF OrderRow, SameTerms
    <3>3. UNCHANGED <<wallets, profile, listing, sweep, aborts>>
      BY DEF AppealOrder
    <3> HIDE DEF new
    <3>4. Touched(o)
      BY <2>0, <3>1, <3>2, <3>3 DEF Touched, OpenStatuses
    <3> QED
      BY <3>4
  <2>5. CASE CancelAppeal(o)
    BY <2>0, <2>5 DEF CancelAppeal, OrderRow, Touched, SameTerms, OpenStatuses
  <2>6. CASE PaymentWindowElapses(o)
    BY <2>0, <2>6 DEF PaymentWindowElapses, OrderRow, Touched, SameTerms, OpenStatuses
  <2>7. CASE AppealWindowOpens(o)
    BY <2>0, <2>7 DEF AppealWindowOpens, OrderRow, Touched, SameTerms, OpenStatuses
  <2>8. CASE MarkPaidTooLate(o) \/ CancelOrder(o) \/ ResolveAppealRefund(o)
    <3>1. /\ order[o].status \in OpenStatuses
          /\ \E by \in Users \cup {Nobody} : Refund(o, by)
      BY <2>0, <2>8 DEF MarkPaidTooLate, CancelOrder, ResolveAppealRefund, OpenStatuses
    <3>2. Refunds(o)
      BY <3>1, RefundEnds
    <3> QED
      BY <3>2
  <2>9. CASE ReleaseOrder(o) \/ ResolveAppealRelease(o)
    <3>1. order[o].status \in OpenStatuses /\ Settle(o)
      BY <2>9 DEF ReleaseOrder, ResolveAppealRelease, OpenStatuses
    <3>2. Settles(o)
      BY <3>1, SettleEnds
    <3> QED
      BY <3>2
  <2> QED
    BY <2>1, <2>2, <2>3, <2>4, <2>5, <2>6, <2>7, <2>8, <2>9
<1> QED
  BY <1>1, <1>2, <1>3, <1>4, <1>5 DEF Next

\* The row of a new order, and what the ad keeps.
Opened(t, l, o, amount, k) ==
    LET ad == listing[l]
        new == order'[o]
    IN
    /\ order[o].status = "none" /\ amount > 0
    /\ new.status = "pending_payment" /\ new.listing = l /\ new.taker = t
    /\ new.seller = (IF ad.side = "BUY" THEN t ELSE ad.creator)
    /\ new.buyer = (IF ad.side = "BUY" THEN ad.creator ELSE t)
    /\ new.amount = amount /\ new.fee = FeeOf(ad.feeModel, amount)
    /\ new.debit = amount + new.fee /\ new.credit = amount - new.fee
    /\ new.escrow = new.debit /\ new.key = k /\ ~new.elapsed
    /\ \A p \in Orders \ {o} : order'[p] = order[p]
    /\ ad.status = "ACTIVE" /\ amount <= ad.remaining
    /\ listing'[l].remaining = ad.remaining - amount
    /\ listing'[l].status = (IF ad.remaining = amount THEN "FILLED" ELSE "ACTIVE")
    /\ SameOffer(ad, listing'[l])
    /\ \A j \in Listings \ {l} : listing'[j] = listing[j]
    /\ MoveToEscrow(ad, new.seller, amount, new.debit)
    /\ t # ad.creator /\ ~KeyUsed(t, k) /\ new.credit > 0
    /\ OrderFits(ad.remaining, amount, ad.price, ad.min, ad.max)
    /\ UNCHANGED <<adminFees, funding, profile, sweep, aborts>>

\* An order request that succeeds opens one row against one ad.
LEMMA TakeOpens ==
    ASSUME TypeOK, NEW t \in Users, NEW l \in Listings, NEW o \in Orders,
           NEW amount \in Amounts, NEW m \in Methods, NEW k \in Keys \cup {NoKey},
           CreateOrder(t, l, o, amount, m, k)
    PROVE  Opened(t, l, o, amount, k)
<1> DEFINE ad     == listing[l]
           seller == IF ad.side = "BUY" THEN t ELSE ad.creator
           buyer  == IF ad.side = "BUY" THEN ad.creator ELSE t
           fee    == FeeOf(ad.feeModel, amount)
           new    == order'[o]
<1>1. /\ ad \in ListingRow /\ listing \in [Listings -> ListingRow]
      /\ order \in [Orders -> OrderRow] /\ amount \in Nat
  BY MarketAssumption DEF TypeOK
<1>2. /\ new.status = "pending_payment" /\ new.listing = l /\ new.taker = t
      /\ new.seller = seller /\ new.buyer = buyer /\ new.amount = amount /\ new.fee = fee
      /\ new.debit = amount + fee /\ new.credit = amount - fee
      /\ new.escrow = amount + fee /\ new.key = k /\ new.elapsed = FALSE
      /\ \A p \in Orders \ {o} : order'[p] = order[p]
  <2> HIDE DEF seller, buyer, fee
  <2> QED
    BY <1>1 DEF CreateOrder, FreeOrder, SellerDebit, BuyerCredit, seller, buyer, fee
<1>3. /\ listing'[l].remaining = ad.remaining - amount
      /\ listing'[l].status = (IF ad.remaining = amount THEN "FILLED" ELSE "ACTIVE")
      /\ \A j \in Listings \ {l} : listing'[j] = listing[j]
  BY <1>1 DEF CreateOrder, ListingRow
<1>4. SameOffer(ad, listing'[l])
  BY <1>1 DEF CreateOrder, ListingRow, SameOffer
<1>5. /\ order[o].status = "none" /\ amount > 0 /\ ad.status = "ACTIVE"
      /\ amount <= ad.remaining /\ MoveToEscrow(ad, seller, amount, amount + fee)
  BY DEF CreateOrder, OrderFits, SellerDebit
<1>7. /\ t # ad.creator /\ ~KeyUsed(t, k) /\ amount - fee > 0
      /\ OrderFits(ad.remaining, amount, ad.price, ad.min, ad.max)
      /\ UNCHANGED <<adminFees, funding, profile, sweep, aborts>>
  BY DEF CreateOrder, BuyerCredit
<1> HIDE DEF seller, buyer, fee, new
<1>6. new.escrow = new.debit /\ MoveToEscrow(ad, new.seller, amount, new.debit)
  BY <1>2, <1>5
<1> QED
  BY <1>2, <1>3, <1>4, <1>5, <1>6, <1>7 DEF Opened, seller, buyer, fee, new

\* What a refund does to the ad.
GivesBack(o) ==
    LET row == order[o]
        l   == row.listing
    IN  IF Reopens(listing[l])
        THEN /\ listing'[l].remaining = listing[l].remaining + row.amount
             /\ listing'[l].status = "ACTIVE" /\ SameOffer(listing[l], listing'[l])
             /\ \A j \in Listings \ {l} : listing'[j] = listing[j]
        ELSE listing' = listing

\* A refund that reopens the ad changes that ad alone, and otherwise none.
LEMMA RefundGivesBack ==
    ASSUME TypeOK, NEW o \in Orders, Refunds(o), order[o].listing \in Listings
    PROVE  GivesBack(o)
<1> DEFINE l == order[o].listing
<1>1. listing \in [Listings -> ListingRow] /\ listing[l] \in ListingRow
  BY DEF TypeOK
<1>2. listing' = IF Reopens(listing[l])
                 THEN [listing EXCEPT ![l].remaining = @ + order[o].amount, ![l].status = "ACTIVE"]
                 ELSE listing
  BY DEF Refunds, Refund
<1>3. CASE Reopens(listing[l])
  <2>1. listing' = [listing EXCEPT ![l].remaining = @ + order[o].amount, ![l].status = "ACTIVE"]
    BY <1>2, <1>3
  <2>2. /\ listing'[l].remaining = listing[l].remaining + order[o].amount
        /\ listing'[l].status = "ACTIVE" /\ SameOffer(listing[l], listing'[l])
        /\ \A j \in Listings \ {l} : listing'[j] = listing[j]
    BY <1>1, <2>1 DEF ListingRow, SameOffer
  <2> QED
    BY <1>3, <2>2 DEF GivesBack
<1>4. CASE ~Reopens(listing[l])
  BY <1>2, <1>4 DEF GivesBack
<1> QED
  BY <1>3, <1>4

-----------------------------------------------------------------------------
(* Orders and ads agree with each other.                                   *)

AdAgrees(ad) ==
    ad.status # "NONE" =>
       /\ ad.creator \in Users
       /\ ad.price > 0 /\ 0 < ad.min /\ ad.min <= ad.max
       /\ ad.source = "MAIN_WALLET_LEGACY" =>
             ad.side = "SELL" /\ ad.feeModel = "LEGACY_FIAT"

\* An order against ad, as it was agreed when it was opened.
Agreed(row, ad) ==
    /\ row.listing \in Listings /\ ad.status # "NONE"
    /\ row.seller \in Users /\ row.buyer \in Users /\ row.seller # row.buyer
    /\ ad.side = "SELL" => row.seller = ad.creator
    /\ row.amount > 0 /\ ad.min <= Fiat(row.amount, ad.price)
    /\ row.fee = FeeOf(ad.feeModel, row.amount)
    /\ row.debit = row.amount + row.fee
    /\ row.credit = row.amount - row.fee /\ row.credit > 0

OrderAgrees(row) ==
    IF row.status = "none" THEN row = FreeOrder ELSE Agreed(row, listing[row.listing])

RowsAgree ==
    /\ \A l \in Listings : AdAgrees(listing[l])
    /\ \A o \in Orders : OrderAgrees(order[o])

\* A posted ad stays posted, on its terms.
OfferStays(old, new) == old.status # "NONE" => new.status # "NONE" /\ SameOffer(old, new)

\* No step changes the terms of a posted ad.
LEMMA OffersStay ==
    ASSUME TypeOK, RowsAgree, [Next]_vars, NEW l \in Listings
    PROVE  OfferStays(listing[l], listing'[l])
<1>0. listing \in [Listings -> ListingRow] /\ listing[l] \in ListingRow
  BY DEF TypeOK
<1>1. ASSUME listing'[l] = listing[l] PROVE OfferStays(listing[l], listing'[l])
  BY <1>1 DEF OfferStays, SameOffer
<1>2. CASE Aside \/ Funds \/ \E o \in Orders : Touched(o) \/ Settles(o)
  <2>1. UNCHANGED listing
    BY <1>2 DEF Aside, Funds, FundWalletAsset, Touched, Settles, Settle
  <2> QED
    BY <1>1, <2>1
<1>3. ASSUME NEW j \in Listings, Cancels(j) PROVE OfferStays(listing[l], listing'[l])
  BY <1>0, <1>3 DEF Cancels, CancelListing, OfferStays, SameOffer, ListingRow
<1>4. ASSUME NEW j \in Listings, Posts(j) PROVE OfferStays(listing[l], listing'[l])
  <2>1. listing[j].status = "NONE" /\ (j # l => listing'[l] = listing[l])
    BY <1>0, <1>4 DEF Posts, CreateListing
  <2> QED
    BY <1>1, <2>1 DEF OfferStays
<1>5. ASSUME NEW o \in Orders, NEW j \in Listings, Takes(j, o)
      PROVE  OfferStays(listing[l], listing'[l])
  <2>1. PICK t \in Users, amount \in Amounts, k \in Keys \cup {NoKey} : Opened(t, j, o, amount, k)
    BY <1>5, TakeOpens DEF Takes
  <2>2. CASE j = l
    BY <2>1, <2>2 DEF Opened, OfferStays
  <2>3. CASE j # l
    BY <1>1, <2>1, <2>3 DEF Opened
  <2> QED
    BY <2>2, <2>3
<1>6. ASSUME NEW o \in Orders, Refunds(o) PROVE OfferStays(listing[l], listing'[l])
  <2>1. order[o].status # "none"
    BY <1>6 DEF Refunds, Ended, OpenStatuses
  <2>2. order[o].listing \in Listings
    BY <2>1 DEF RowsAgree, OrderAgrees, Agreed
  <2>3. GivesBack(o)
    BY <1>6, <2>2, RefundGivesBack
  <2>4. CASE l = order[o].listing /\ Reopens(listing[l])
    BY <2>3, <2>4 DEF GivesBack, OfferStays
  <2>5. CASE ~(l = order[o].listing /\ Reopens(listing[l]))
    BY <1>1, <2>3, <2>5 DEF GivesBack
  <2> QED
    BY <2>4, <2>5
<1> QED
  BY <1>2, <1>3, <1>4, <1>5, <1>6, StepKinds

\* What orders rely on in an ad does not depend on what remains of it.
LEMMA AgreedStays ==
    ASSUME NEW old, NEW new, NEW row, NEW rowNow,
           old.status # "NONE", OfferStays(old, new), SameTerms(row, rowNow),
           Agreed(row, old)
    PROVE  Agreed(rowNow, new)
BY DEF OfferStays, SameOffer, SameTerms, Agreed

\* The same for the ad itself.
LEMMA AdAgreesStays ==
    ASSUME NEW old, NEW new, old.status # "NONE", OfferStays(old, new), AdAgrees(old)
    PROVE  AdAgrees(new)
BY DEF OfferStays, SameOffer, AdAgrees

\* No order exists at the start, and migrated ads are well-formed.
LEMMA InitRowsAgree == Init => RowsAgree
<1> SUFFICES ASSUME Init PROVE RowsAgree
  OBVIOUS
<1>1. ASSUME NEW l \in Listings PROVE AdAgrees(listing[l])
  <2>1. CASE \E a \in LegacyAds : a.listing = l
    <3> DEFINE a == CHOOSE a \in LegacyAds : a.listing = l
    <3>1. a \in LegacyAds /\ listing[l] = MigratedRow(a)
      BY <2>1 DEF Init
    <3>2. /\ a.creator \in Users /\ a.price \in Nat \ {0} /\ a.amount \in Nat
          /\ Fiat(a.amount, a.price) > 0
      BY <3>1, MarketAssumption DEF LegacyAd
    <3>3. Fiat(a.amount, a.price) \in Nat
      BY <3>2, FiatType
    <3> HIDE DEF a
    <3> QED
      BY <3>1, <3>2, <3>3 DEF MigratedRow, AdAgrees
  <2>2. CASE ~\E a \in LegacyAds : a.listing = l
    BY <2>2 DEF Init, FreeListing, AdAgrees
  <2> QED
    BY <2>1, <2>2
<1>2. ASSUME NEW o \in Orders PROVE OrderAgrees(order[o])
  BY DEF Init, OrderAgrees, FreeOrder
<1> QED
  BY <1>1, <1>2 DEF RowsAgree

\* Ads stay posted once they are, and an ad is posted by CreateListing alone.
LEMMA PostedBefore ==
    ASSUME TypeOK, RowsAgree, [Next]_vars, NEW l \in Listings,
           listing[l].status = "NONE", ~Posts(l)
    PROVE  listing'[l] = listing[l]
<1>0. listing \in [Listings -> ListingRow]
  BY DEF TypeOK
<1>1. CASE Aside \/ Funds \/ \E o \in Orders : Touched(o) \/ Settles(o)
  BY <1>1 DEF Aside, Funds, FundWalletAsset, Touched, Settles, Settle
<1>2. ASSUME NEW j \in Listings, Cancels(j) \/ Posts(j) PROVE listing'[l] = listing[l]
  <2>1. j # l
    BY <1>2 DEF Cancels, CancelListing
  <2> QED
    BY <1>0, <1>2, <2>1 DEF Cancels, CancelListing, Posts, CreateListing
<1>3. ASSUME NEW o \in Orders, NEW j \in Listings, Takes(j, o)
      PROVE  listing'[l] = listing[l]
  <2>1. PICK t \in Users, amount \in Amounts, k \in Keys \cup {NoKey} :
           Opened(t, j, o, amount, k)
    BY <1>3, TakeOpens DEF Takes
  <2> QED
    BY <2>1 DEF Opened
<1>4. ASSUME NEW o \in Orders, Refunds(o) PROVE listing'[l] = listing[l]
  <2>1. order[o].status # "none"
    BY <1>4 DEF Refunds, Ended, OpenStatuses
  <2>2. order[o].listing \in Listings /\ listing[order[o].listing].status # "NONE"
    BY <2>1 DEF RowsAgree, OrderAgrees, Agreed
  <2>3. GivesBack(o)
    BY <1>4, <2>2, RefundGivesBack
  <2> QED
    BY <2>2, <2>3 DEF GivesBack
<1> QED
  BY <1>1, <1>2, <1>3, <1>4, StepKinds

\* Every step keeps the agreement.
LEMMA StepRowsAgree == TypeOK /\ RowsAgree /\ [Next]_vars => RowsAgree'
<1> SUFFICES ASSUME TypeOK, RowsAgree, [Next]_vars PROVE RowsAgree'
  OBVIOUS
<1>1. ASSUME NEW l \in Listings PROVE AdAgrees(listing'[l])
  <2>0. AdAgrees(listing[l]) /\ OfferStays(listing[l], listing'[l])
    BY OffersStay DEF RowsAgree
  <2>1. CASE listing[l].status # "NONE"
    BY <2>0, <2>1, AdAgreesStays
  <2>2. CASE listing[l].status = "NONE" /\ ~Posts(l)
    <3>1. listing'[l] = listing[l]
      BY <2>2, PostedBefore
    <3> QED
      BY <2>0, <3>1
  <2>3. CASE Posts(l)
    <3>1. PICK u \in Users, side \in Sides, amount \in Amounts, methods \in SUBSET Methods,
               n \in Names \cup {NoName}, price \in Prices :
             \E min \in Limits \cup {1}, max \in Limits \cup {Fiat(amount, price)} :
                CreateListing(u, l, side, amount, methods, n, price, min, max)
      BY <2>3 DEF Posts
    <3> PICK min \in Limits \cup {1}, max \in Limits \cup {Fiat(amount, price)} :
             CreateListing(u, l, side, amount, methods, n, price, min, max)
      BY <3>1
    <3>2. price > 0 /\ 0 < min /\ min <= max
      BY MarketAssumption DEF CreateListing, ValidLimits
    <3>3. /\ listing'[l].creator = u /\ listing'[l].price = price /\ listing'[l].min = min
          /\ listing'[l].max = max /\ listing'[l].source = "P2P_WALLET"
      BY DEF CreateListing, TypeOK
    <3> QED
      BY <3>2, <3>3 DEF AdAgrees
  <2> QED
    BY <2>1, <2>2, <2>3
<1>2. ASSUME NEW o \in Orders PROVE OrderAgrees(order[o])'
  <2>0. OrderAgrees(order[o])
    BY DEF RowsAgree
  <2>1. CASE order'[o] = order[o]
    <3>1. CASE order[o].status = "none"
      BY <2>0, <2>1, <3>1 DEF OrderAgrees
    <3>2. CASE order[o].status # "none"
      <4> DEFINE l == order[o].listing
      <4>1. Agreed(order[o], listing[l]) /\ l \in Listings /\ listing[l].status # "NONE"
        BY <2>0, <3>2 DEF OrderAgrees, Agreed
      <4>2. OfferStays(listing[l], listing'[l])
        BY <4>1, OffersStay
      <4>3. SameTerms(order[o], order[o])
        BY DEF SameTerms
      <4>4. Agreed(order[o], listing'[l])
        BY <4>1, <4>2, <4>3, AgreedStays
      <4> QED
        BY <2>1, <3>2, <4>4 DEF OrderAgrees
    <3> QED
      BY <3>1, <3>2
  <2>2. CASE order[o].status \in OpenStatuses /\ order'[o].status # "none"
             /\ SameTerms(order[o], order'[o])
    <3> DEFINE l == order[o].listing
    <3>1. Agreed(order[o], listing[l]) /\ l \in Listings /\ listing[l].status # "NONE"
      BY <2>0, <2>2 DEF OrderAgrees, Agreed, OpenStatuses
    <3>2. OfferStays(listing[l], listing'[l])
      BY <3>1, OffersStay
    <3>3. Agreed(order'[o], listing'[l])
      BY <2>2, <3>1, <3>2, AgreedStays
    <3>4. order'[o].listing = l
      BY <2>2 DEF SameTerms
    <3> QED
      BY <2>2, <3>3, <3>4 DEF OrderAgrees
  <2>3. ASSUME NEW l \in Listings, Takes(l, o) PROVE OrderAgrees(order[o])'
    <3>1. PICK t \in Users, amount \in Amounts, k \in Keys \cup {NoKey} :
             Opened(t, l, o, amount, k)
      BY <2>3, TakeOpens DEF Takes
    <3> DEFINE ad  == listing[l]
               new == order'[o]
    <3>2. ad.creator \in Users
      BY <3>1 DEF Opened, RowsAgree, AdAgrees
    <3>3. ad.side = "BUY" \/ ad.side = "SELL"
      BY DEF TypeOK, ListingRow, Sides
    <3>4. /\ new.listing = l /\ new.seller \in Users /\ new.buyer \in Users
          /\ new.seller # new.buyer /\ (ad.side = "SELL" => new.seller = ad.creator)
      BY <3>1, <3>2 DEF Opened
    <3>5. ad.min <= Fiat(new.amount, ad.price) /\ new.amount > 0
      BY <3>1 DEF Opened, OrderFits
    <3>6. Agreed(new, ad)
      BY <3>1, <3>4, <3>5 DEF Opened, Agreed
    <3>7. OfferStays(ad, listing'[l]) /\ SameTerms(new, new) /\ ad.status # "NONE"
      BY <3>1, OffersStay DEF SameTerms, Opened
    <3>8. Agreed(new, listing'[l])
      BY <3>6, <3>7, AgreedStays
    <3> QED
      BY <3>1, <3>8 DEF OrderAgrees, Opened
  <2>4. CASE Aside \/ Funds \/ \E l \in Listings : Cancels(l) \/ Posts(l)
    <3>1. UNCHANGED order
      BY <2>4 DEF Aside, Funds, FundWalletAsset, Cancels, CancelListing, Posts, CreateListing
    <3> QED
      BY <2>1, <3>1
  <2>5. ASSUME NEW p \in Orders, NEW l \in Listings, Takes(l, p), p # o
        PROVE  OrderAgrees(order[o])'
    <3>1. order'[o] = order[o]
      BY <2>5, TakeOpens DEF Takes, Opened
    <3> QED
      BY <2>1, <3>1
  <2>6. ASSUME NEW p \in Orders, Touched(p) \/ Refunds(p) \/ Settles(p)
        PROVE  OrderAgrees(order[o])'
    <3>1. CASE p = o
      BY <2>2, <2>6, <3>1 DEF Touched, Refunds, Settles, Ended, OpenStatuses
    <3>2. CASE p # o
      BY <2>1, <2>6, <3>2 DEF Touched, Refunds, Settles, Ended
    <3> QED
      BY <3>1, <3>2
  <2> QED
    BY <2>3, <2>4, <2>5, <2>6, StepKinds
<1> QED
  BY <1>1, <1>2 DEF RowsAgree

\* The parties, amounts and fees of an order are those of its ad, for good.
THEOREM RowsAlwaysAgree == Spec => []RowsAgree
BY InitRowsAgree, StepRowsAgree, TypeCorrect, PTL DEF Spec

-----------------------------------------------------------------------------
(* The marketplace implements the contract.                                *)

Vault == [o \in Orders |-> order[o].escrow]
Deals == [o \in Orders |-> DealOf(order[o])]

\* The outcome of a deal by the status of its order.
LEMMA Outcomes ==
    /\ Outcome("none") = "none" /\ Outcome("completed") = "delivered"
    /\ Outcome("cancelled") = "returned"
    /\ \A status \in OpenStatuses : Outcome(status) = "held"
BY DEF Outcome, OpenStatuses

\* A step that moves no money between people and ends no deal.
LEMMA NoDealing ==
    ASSUME UNCHANGED <<Purse, Vault, Deals, adminFees>>
    PROVE  [Contract!Next]_(Contract!contract)
BY DEF Contract!contract, Vault, Deals

\* A balance of one of a user's wallets moves into another one of his.
LEMMA SamePurse ==
    ASSUME \A u \in Users :
             main'[u] + avail'[u] + reserved'[u] = main[u] + avail[u] + reserved[u]
    PROVE  UNCHANGED Purse
BY DEF Purse

\* Funding moves money within one purse.
LEMMA FundKeepsPurse ==
    ASSUME TypeOK, Funds
    PROVE  UNCHANGED <<Purse, adminFees, order>>
<1> PICK u \in Users, amount \in Amounts, k \in RequestIds : FundWalletAsset(u, amount, k)
  BY DEF Funds
<1>1. amount \in Nat
  BY MarketAssumption
<1>2. ASSUME NEW v \in Users
      PROVE main'[v] + avail'[v] + reserved'[v] = main[v] + avail[v] + reserved[v]
  BY <1>1 DEF FundWalletAsset, TypeOK
<1> QED
  BY <1>2, SamePurse DEF FundWalletAsset

\* So does cancelling an ad.
LEMMA CancelKeepsPurse ==
    ASSUME TypeOK, NEW l \in Listings, Cancels(l)
    PROVE  UNCHANGED <<Purse, adminFees, order>>
<1> DEFINE ad == listing[l]
           n  == Unsold(ad)
           w  == ad.creator
<1>1. ad \in ListingRow /\ ad.remaining \in Nat
  BY DEF TypeOK, ListingRow
<1>2. n \in Nat
  BY <1>1, FeeType DEF Unsold, SellerDebit
<1>3. /\ UNCHANGED <<main, adminFees, order>>
      /\ \/ UNCHANGED <<avail, reserved>>
         \/ /\ reserved' = [reserved EXCEPT ![w] = @ - n]
            /\ avail' = [avail EXCEPT ![w] = @ + n]
  BY DEF Cancels, CancelListing, wallets
<1> HIDE DEF n, w
<1>4. ASSUME NEW v \in Users
      PROVE main'[v] + avail'[v] + reserved'[v] = main[v] + avail[v] + reserved[v]
  BY <1>2, <1>3 DEF TypeOK
<1> QED
  BY <1>3, <1>4, SamePurse

\* So does posting one.
LEMMA PostKeepsPurse ==
    ASSUME TypeOK, NEW l \in Listings, Posts(l)
    PROVE  UNCHANGED <<Purse, adminFees, order>>
<1>1. PICK w \in Users, side \in Sides, amount \in Amounts, methods \in SUBSET Methods,
           name \in Names \cup {NoName}, price \in Prices :
         \E min \in Limits \cup {1}, max \in Limits \cup {Fiat(amount, price)} :
            CreateListing(w, l, side, amount, methods, name, price, min, max)
  BY DEF Posts
<1> DEFINE n == SellerDebit("BIUSD_1PCT_EACH", amount)
<1>2. n \in Nat
  BY FeeType, MarketAssumption DEF SellerDebit
<1>3. /\ UNCHANGED <<main, adminFees, order>>
      /\ \/ UNCHANGED <<avail, reserved>>
         \/ /\ avail' = [avail EXCEPT ![w] = @ - n]
            /\ reserved' = [reserved EXCEPT ![w] = @ + n]
  BY <1>1 DEF CreateListing
<1> HIDE DEF n
<1>4. ASSUME NEW v \in Users
      PROVE main'[v] + avail'[v] + reserved'[v] = main[v] + avail[v] + reserved[v]
  BY <1>2, <1>3 DEF TypeOK
<1> QED
  BY <1>3, <1>4, SamePurse

\* What taking an ad takes out of the seller's wallets, whichever they are.
LEMMA TakePays ==
    ASSUME TypeOK, RowsAgree, NEW t \in Users, NEW l \in Listings, NEW o \in Orders,
           NEW amount \in Amounts, NEW k, Opened(t, l, o, amount, k)
    PROVE  LET new == order'[o]
               s   == new.seller
           IN  /\ s \in Users /\ new.debit \in Nat
               /\ \/ /\ new.debit <= avail[s] /\ UNCHANGED <<main, mainLocked, reserved>>
                     /\ avail' = [avail EXCEPT ![s] = @ - new.debit]
                     /\ listing[l].side = "BUY"
                  \/ /\ new.debit <= reserved[s] /\ UNCHANGED <<main, mainLocked, avail>>
                     /\ reserved' = [reserved EXCEPT ![s] = @ - new.debit]
                     /\ listing[l].side = "SELL" /\ listing[l].source = "P2P_WALLET"
                  \/ /\ new.debit <= main[s] /\ UNCHANGED <<avail, reserved>>
                     /\ main' = [main EXCEPT ![s] = @ - new.debit]
                     /\ listing[l].side = "SELL" /\ listing[l].source = "MAIN_WALLET_LEGACY"
<1> DEFINE new == order'[o]
           s   == new.seller
           ad  == listing[l]
<1>1. amount \in Nat /\ ad \in ListingRow
  BY MarketAssumption DEF TypeOK
<1>2. new.fee \in Nat /\ new.fee = FeeOf(ad.feeModel, amount) /\ new.debit = amount + new.fee
  BY <1>1, FeeType DEF Opened
<1>3. new.debit \in Nat
  BY <1>1, <1>2
<1>4. s \in Users
  BY <1>1 DEF Opened, RowsAgree, AdAgrees
<1>5. ad.source = "MAIN_WALLET_LEGACY" => new.debit = amount
  <2>1. ad.source = "MAIN_WALLET_LEGACY" => ad.feeModel = "LEGACY_FIAT"
    BY DEF Opened, RowsAgree, AdAgrees
  <2>2. ad.feeModel = "LEGACY_FIAT" => new.fee = 0
    BY <1>2 DEF FeeOf
  <2> QED
    BY <1>1, <1>2, <2>1, <2>2
<1>6. MoveToEscrow(ad, s, amount, new.debit)
  BY DEF Opened
<1> HIDE DEF s, ad, new
<1>7. /\ \/ /\ new.debit <= avail[s] /\ UNCHANGED <<main, mainLocked, reserved>>
            /\ avail' = [avail EXCEPT ![s] = @ - new.debit]
            /\ ad.side = "BUY"
         \/ /\ new.debit <= reserved[s] /\ UNCHANGED <<main, mainLocked, avail>>
            /\ reserved' = [reserved EXCEPT ![s] = @ - new.debit]
            /\ ad.side = "SELL" /\ ad.source = "P2P_WALLET"
         \/ /\ new.debit <= main[s] /\ UNCHANGED <<avail, reserved>>
            /\ main' = [main EXCEPT ![s] = @ - new.debit]
            /\ ad.side = "SELL" /\ ad.source = "MAIN_WALLET_LEGACY"
  BY <1>5, <1>6, <1>3, <1>4 DEF MoveToEscrow, Covers, TypeOK
<1> QED
  BY <1>3, <1>4, <1>7 DEF s, ad, new

\* Taking an ad strikes a deal.
LEMMA TakeStrikes ==
    ASSUME TypeOK, RowsAgree, RowsAgree', NEW l \in Listings, NEW o \in Orders, Takes(l, o)
    PROVE  Contract!Strike(o)
<1>1. PICK t \in Users, amount \in Amounts, k \in Keys \cup {NoKey} : Opened(t, l, o, amount, k)
  BY TakeOpens DEF Takes
<1> DEFINE new == order'[o]
           s   == new.seller
           c   == new.debit
<1>2. order[o] = FreeOrder
  BY <1>1 DEF Opened, RowsAgree, OrderAgrees
<1>3. /\ new.status = "pending_payment" /\ new.escrow = c
      /\ \A p \in Orders \ {o} : order'[p] = order[p]
      /\ UNCHANGED adminFees
  BY <1>1 DEF Opened
<1>4. /\ s \in Users /\ new.buyer \in Users /\ s # new.buyer /\ new.credit > 0
      /\ new.debit = new.amount + new.fee /\ new.credit = new.amount - new.fee
  <2>1. OrderAgrees(order[o])'
    BY DEF RowsAgree
  <2> QED
    BY <1>3, <2>1 DEF OrderAgrees, Agreed
<1>5. new.amount \in Nat /\ new.fee \in Nat /\ new.credit \in Nat /\ c \in Nat
  <2>1. new.amount \in Nat
    BY <1>1, MarketAssumption DEF Opened
  <2>2. new.fee \in Nat /\ new.fee <= new.amount
    BY <1>1, <2>1, FeeType DEF Opened
  <2> QED
    BY <1>4, <2>1, <2>2
<1>6. \/ c <= avail[s] /\ UNCHANGED <<main, reserved>> /\ avail' = [avail EXCEPT ![s] = @ - c]
      \/ c <= reserved[s] /\ UNCHANGED <<main, avail>> /\ reserved' = [reserved EXCEPT ![s] = @ - c]
      \/ c <= main[s] /\ UNCHANGED <<avail, reserved>> /\ main' = [main EXCEPT ![s] = @ - c]
  BY <1>1, TakePays
<1>7. /\ DealOf(new) = [state |-> "held", seller |-> s, buyer |-> new.buyer, gets |-> new.credit]
      /\ DealOf(order[o]) = [state |-> "none", seller |-> Nobody, buyer |-> Nobody, gets |-> 0]
  <2>1. Outcome(new.status) = "held" /\ Outcome(order[o].status) = "none"
    BY <1>2, <1>3, Outcomes DEF OpenStatuses, FreeOrder
  <2> QED
    BY <1>2, <2>1 DEF DealOf, FreeOrder
<1> HIDE DEF s, c, new
<1>8. Purse[s] \in Nat /\ c <= Purse[s] /\ Purse' = [Purse EXCEPT ![s] = @ - c]
  <2>1. /\ main[s] \in Nat /\ avail[s] \in Nat /\ reserved[s] \in Nat
        /\ Purse[s] = main[s] + avail[s] + reserved[s]
    BY <1>4 DEF TypeOK, Purse
  <2>2. c <= Purse[s]
    BY <1>5, <1>6, <2>1
  <2>3. ASSUME NEW v \in Users
        PROVE  main'[v] + avail'[v] + reserved'[v]
                 = IF v = s THEN Purse[s] - c ELSE main[v] + avail[v] + reserved[v]
    <3>1. main[v] \in Nat /\ avail[v] \in Nat /\ reserved[v] \in Nat
      BY DEF TypeOK
    <3> QED
      BY <1>4, <1>5, <1>6, <2>1, <3>1 DEF TypeOK
  <2>4. Purse' = [Purse EXCEPT ![s] = @ - c]
    BY <2>3 DEF Purse
  <2> QED
    BY <2>1, <2>2, <2>4
<1>9. Vault' = [Vault EXCEPT ![o] = c] /\ Vault'[o] = c
  BY <1>3 DEF Vault, new
<1>10. /\ Deals' = [Deals EXCEPT ![o] = DealOf(new)] /\ Deals'[o] = DealOf(new)
       /\ Deals[o] = DealOf(order[o])
  BY <1>3 DEF Deals, DealOf, new
<1>11. /\ DealOf(new) \in Contract!Terms
       /\ DealOf(new).seller = s /\ DealOf(new).buyer = new.buyer
       /\ DealOf(new).gets = new.credit
  BY <1>4, <1>5, <1>7 DEF Contract!Terms
<1>12. new.credit <= c
  BY <1>4, <1>5 DEF c
<1> QED
  BY <1>3, <1>4, <1>7, <1>8, <1>9, <1>10, <1>11, <1>12
     DEF Contract!Strike, Contract!NoDeal, Vault, Deals

\* What an order that ends leaves in its vault and its deal.
LEMMA EndSettlesDeal ==
    ASSUME TypeOK, NEW o \in Orders, NEW status \in FinalStatuses, Ended(o, status)
    PROVE  /\ Deals[o].state = "held"
           /\ Deals' = [Deals EXCEPT ![o].state = Outcome(status)]
           /\ Vault' = [Vault EXCEPT ![o] = 0]
           /\ Deals[o].buyer = order[o].buyer /\ Deals[o].seller = order[o].seller
           /\ Deals[o].gets = order[o].credit /\ Vault[o] = order[o].escrow
<1>1. Outcome(order[o].status) = "held"
  BY Outcomes DEF Ended
<1>2. Vault' = [Vault EXCEPT ![o] = 0] /\ Vault[o] = order[o].escrow
  BY DEF Ended, Vault
<1>3. /\ Deals[o] = [state |-> "held", seller |-> order[o].seller,
                     buyer |-> order[o].buyer, gets |-> order[o].credit]
      /\ \A p \in Orders \ {o} : Deals'[p] = Deals[p]
      /\ Deals'[o] = [state |-> Outcome(status), seller |-> order[o].seller,
                      buyer |-> order[o].buyer, gets |-> order[o].credit]
  BY <1>1 DEF Ended, SameTerms, Deals, DealOf
<1>4. Deals' = [Deals EXCEPT ![o].state = Outcome(status)]
  <2>1. Deals'[o] = [Deals[o] EXCEPT !.state = Outcome(status)]
    BY <1>3
  <2>2. Deals' = [Deals EXCEPT ![o] = Deals'[o]]
    BY <1>3 DEF Deals
  <2> QED
    BY <2>1, <2>2
<1> QED
  BY <1>2, <1>3, <1>4

\* A release delivers.
LEMMA SettleDelivers ==
    ASSUME TypeOK, RowsAgree, EscrowMatchesStatus, NEW o \in Orders, Settles(o)
    PROVE  Contract!Deliver(o)
<1> DEFINE row == order[o]
           b   == row.buyer
           c   == row.credit
<1>1. /\ row.status \in OpenStatuses /\ UNCHANGED <<main, reserved>>
      /\ avail' = [avail EXCEPT ![b] = @ + c]
      /\ adminFees' = adminFees + 2 * row.fee
  BY DEF Settles, Settle, Ended
<1>2. b \in Users /\ c \in Nat /\ row.fee \in Nat /\ adminFees \in Nat
  <2>1. b \in Users
    BY <1>1 DEF RowsAgree, OrderAgrees, Agreed, OpenStatuses
  <2> QED
    BY <2>1 DEF TypeOK, OrderRow
<1>3. row.escrow = c + 2 * row.fee
  BY <1>1 DEF EscrowMatchesStatus
<1>4. adminFees' = adminFees + row.escrow - c
  <2> HIDE DEF c
  <2> QED
    BY <1>1, <1>2, <1>3 DEF TypeOK, OrderRow
<1>5. Purse' = [Purse EXCEPT ![b] = @ + c]
  <2> HIDE DEF b, c
  <2>1. ASSUME NEW v \in Users
        PROVE  main'[v] + avail'[v] + reserved'[v]
                 = IF v = b THEN main[b] + avail[b] + reserved[b] + c
                            ELSE main[v] + avail[v] + reserved[v]
    BY <1>1, <1>2 DEF TypeOK
  <2> QED
    BY <1>2, <2>1 DEF Purse
<1>6. Ended(o, "completed") /\ "completed" \in FinalStatuses /\ Outcome("completed") = "delivered"
  BY Outcomes DEF Settles, FinalStatuses
<1>7. /\ Deals[o].state = "held" /\ Deals' = [Deals EXCEPT ![o].state = "delivered"]
      /\ Vault' = [Vault EXCEPT ![o] = 0]
      /\ Deals[o].buyer = b /\ Deals[o].gets = c /\ Vault[o] = row.escrow
  BY <1>6, EndSettlesDeal
<1> HIDE DEF b, c, row
<1>8. adminFees' = adminFees + Vault[o] - Deals[o].gets
  BY <1>4, <1>7
<1> QED
  BY <1>5, <1>7, <1>8 DEF Contract!Deliver, Vault, Deals

\* A refund returns.
LEMMA RefundReturns ==
    ASSUME TypeOK, RowsAgree, NEW o \in Orders, Refunds(o)
    PROVE  Contract!Return(o)
<1> DEFINE row == order[o]
           s   == row.seller
           c   == row.escrow
<1>1. /\ row.status \in OpenStatuses /\ UNCHANGED <<main, adminFees>>
      /\ \/ UNCHANGED avail /\ reserved' = [reserved EXCEPT ![s] = @ + c]
         \/ UNCHANGED reserved /\ avail' = [avail EXCEPT ![s] = @ + c]
  BY DEF Refunds, Refund, Ended
<1>2. s \in Users /\ c \in Nat
  <2>1. s \in Users
    BY <1>1 DEF RowsAgree, OrderAgrees, Agreed, OpenStatuses
  <2> QED
    BY <2>1 DEF TypeOK, OrderRow
<1>3. Purse' = [Purse EXCEPT ![s] = @ + c]
  <2> HIDE DEF s, c
  <2>1. ASSUME NEW v \in Users
        PROVE  main'[v] + avail'[v] + reserved'[v]
                 = IF v = s THEN main[s] + avail[s] + reserved[s] + c
                            ELSE main[v] + avail[v] + reserved[v]
    BY <1>1, <1>2 DEF TypeOK
  <2> QED
    BY <1>2, <2>1 DEF Purse
<1>4. Ended(o, "cancelled") /\ "cancelled" \in FinalStatuses /\ Outcome("cancelled") = "returned"
  BY Outcomes DEF Refunds, FinalStatuses
<1>5. /\ Deals[o].state = "held" /\ Deals' = [Deals EXCEPT ![o].state = "returned"]
      /\ Vault' = [Vault EXCEPT ![o] = 0] /\ Deals[o].seller = s /\ Vault[o] = c
  BY <1>4, EndSettlesDeal
<1> HIDE DEF s, c, row
<1> QED
  BY <1>1, <1>3, <1>5 DEF Contract!Return, Vault, Deals

\* Every step of the marketplace is a step of the contract or none.
LEMMA ContractSteps ==
    ASSUME TypeOK, RowsAgree, RowsAgree', EscrowMatchesStatus, [Next]_vars
    PROVE  [Contract!Next]_(Contract!contract)
<1>1. CASE Aside
  BY <1>1, NoDealing DEF Aside, wallets, Purse, Vault, Deals
<1>2. CASE Funds \/ \E l \in Listings : Cancels(l) \/ Posts(l)
  <2>1. UNCHANGED <<Purse, adminFees, order>>
    BY <1>2, FundKeepsPurse, CancelKeepsPurse, PostKeepsPurse
  <2> QED
    BY <2>1, NoDealing DEF Vault, Deals
<1>3. ASSUME NEW o \in Orders, NEW l \in Listings, Takes(l, o)
      PROVE  [Contract!Next]_(Contract!contract)
  BY <1>3, TakeStrikes DEF Contract!Next
<1>4. ASSUME NEW o \in Orders, Touched(o) PROVE [Contract!Next]_(Contract!contract)
  <2>1. UNCHANGED <<Purse, adminFees>>
    BY <1>4 DEF Touched, wallets, Purse
  <2>2. Outcome(order[o].status) = "held" /\ Outcome(order'[o].status) = "held"
    BY <1>4, Outcomes DEF Touched
  <2>3. \A p \in Orders : DealOf(order'[p]) = DealOf(order[p])
    BY <1>4, <2>2 DEF Touched, SameTerms, DealOf
  <2>4. UNCHANGED <<Vault, Deals>>
    BY <1>4, <2>3 DEF Touched, Vault, Deals
  <2> QED
    BY <2>1, <2>4, NoDealing
<1>5. ASSUME NEW o \in Orders, Refunds(o) PROVE [Contract!Next]_(Contract!contract)
  BY <1>5, RefundReturns DEF Contract!Next
<1>6. ASSUME NEW o \in Orders, Settles(o) PROVE [Contract!Next]_(Contract!contract)
  BY <1>6, SettleDelivers DEF Contract!Next
<1> QED
  BY <1>1, <1>2, <1>3, <1>4, <1>5, <1>6, StepKinds

\* The marketplace implements the contract: an order takes its charge out of
\* the seller's purse once and gives it away once, to the buyer and the house
\* or back to the seller, and no other request moves money between people.
THEOREM ContractKept == Spec => KeepsContract
<1>1. Init => Contract!Init
  <2> SUFFICES ASSUME Init PROVE Contract!Init
    OBVIOUS
  <2>1. TypeOK
    BY InitTypeOK
  <2>2. Purse \in [Users -> Nat]
    BY <2>1 DEF TypeOK, Purse
  <2>3. /\ [o \in Orders |-> order[o].escrow] = [o \in Orders |-> 0]
        /\ [o \in Orders |-> DealOf(order[o])] = [o \in Orders |-> Contract!NoDeal]
    <3>1. FreeOrder.escrow = 0 /\ DealOf(FreeOrder) = Contract!NoDeal
      BY Outcomes DEF FreeOrder, DealOf, Contract!NoDeal
    <3>2. \A o \in Orders : order[o] = FreeOrder
      BY DEF Init
    <3> QED
      BY <3>1, <3>2
  <2>4. adminFees = 0
    BY DEF Init
  <2> QED
    BY <2>2, <2>3, <2>4 DEF Contract!Init
<1>2. /\ TypeOK /\ RowsAgree /\ RowsAgree' /\ EscrowMatchesStatus /\ [Next]_vars
      => [Contract!Next]_(Contract!contract)
  BY ContractSteps
<1> QED
  BY <1>1, <1>2, TypeCorrect, RowsAlwaysAgree, EscrowCorrect, PTL
     DEF Spec, KeepsContract, Contract!Spec

-----------------------------------------------------------------------------
(* Retries, sweeps and names.                                              *)

\* What a step does to the key of an order: only the request that opens the
\* order gives it one, which its taker has not used.
LEMMA KeySteps ==
    ASSUME TypeOK, [Next]_vars
    PROVE  \/ \A p \in Orders : /\ order'[p].key = order[p].key
                                /\ order'[p].taker = order[p].taker
           \/ \E o \in Orders :
                /\ \A p \in Orders \ {o} : order'[p] = order[p]
                /\ ~KeyUsed(order'[o].taker, order'[o].key)
<1>1. CASE Aside \/ Funds \/ \E l \in Listings : Cancels(l) \/ Posts(l)
  <2>1. UNCHANGED order
    BY <1>1 DEF Aside, Funds, FundWalletAsset, Cancels, CancelListing, Posts, CreateListing
  <2> QED
    BY <2>1
<1>2. ASSUME NEW o \in Orders, NEW l \in Listings, Takes(l, o)
      PROVE  /\ \A p \in Orders \ {o} : order'[p] = order[p]
             /\ ~KeyUsed(order'[o].taker, order'[o].key)
  BY <1>2, TakeOpens DEF Takes, Opened
<1>3. ASSUME NEW o \in Orders, Touched(o) \/ Refunds(o) \/ Settles(o), NEW p \in Orders
      PROVE  order'[p].key = order[p].key /\ order'[p].taker = order[p].taker
  <2>1. CASE p = o
    BY <1>3, <2>1 DEF Touched, Refunds, Settles, Ended, SameTerms
  <2>2. CASE p # o
    BY <1>3, <2>2 DEF Touched, Refunds, Settles, Ended
  <2> QED
    BY <2>1, <2>2
<1> QED
  BY <1>1, <1>2, <1>3, StepKinds

\* A retried order request never makes a second order.
THEOREM KeysHoldOneOrder == Spec => []OneOrderPerKey
<1>1. Init => OneOrderPerKey
  BY DEF Init, FreeOrder, OneOrderPerKey
<1>2. TypeOK /\ OneOrderPerKey /\ [Next]_vars => OneOrderPerKey'
  <2> SUFFICES ASSUME TypeOK, OneOrderPerKey, [Next]_vars, NEW q \in Orders, NEW p \in Orders,
                      q # p, order'[q].key # NoKey, order'[q].taker = order'[p].taker
               PROVE  order'[q].key # order'[p].key
    BY DEF OneOrderPerKey
  <2>1. CASE \A x \in Orders : order'[x].key = order[x].key /\ order'[x].taker = order[x].taker
    BY <2>1 DEF OneOrderPerKey
  <2>2. ASSUME NEW o \in Orders, \A x \in Orders \ {o} : order'[x] = order[x],
               ~KeyUsed(order'[o].taker, order'[o].key)
        PROVE  order'[q].key # order'[p].key
    <3>1. CASE o # q /\ o # p
      BY <2>2, <3>1 DEF OneOrderPerKey
    <3>2. CASE o = q
      BY <2>2, <3>2 DEF KeyUsed
    <3>3. CASE o = p
      BY <2>2, <3>3 DEF KeyUsed
    <3> QED
      BY <3>1, <3>2, <3>3
  <2> QED
    BY <2>1, <2>2, KeySteps
<1> QED
  BY <1>1, <1>2, TypeCorrect, PTL DEF Spec

\* Every id a sweep still has on its list is of an order that was due, and the
\* window of an order never closes up again.
SweptElapsed ==
    \A s \in Sweepers : \A o \in sweep[s] : order[o].status # "none" /\ order[o].elapsed

\* What a step does to the window of an order.
LEMMA WindowSteps ==
    ASSUME TypeOK, [Next]_vars, NEW p \in Orders, order[p].status # "none", order[p].elapsed
    PROVE  order'[p].status # "none" /\ order'[p].elapsed
<1>1. CASE Aside \/ Funds \/ \E l \in Listings : Cancels(l) \/ Posts(l)
  BY <1>1 DEF Aside, Funds, FundWalletAsset, Cancels, CancelListing, Posts, CreateListing
<1>2. ASSUME NEW o \in Orders, NEW l \in Listings, Takes(l, o)
      PROVE  order'[p].status # "none" /\ order'[p].elapsed
  <2>1. o # p /\ order'[p] = order[p]
    BY <1>2, TakeOpens DEF Takes, Opened
  <2> QED
    BY <2>1
<1>3. ASSUME NEW o \in Orders, Touched(o) \/ Refunds(o) \/ Settles(o)
      PROVE  order'[p].status # "none" /\ order'[p].elapsed
  <2>1. CASE p = o
    BY <1>3, <2>1 DEF Touched, Refunds, Settles, Ended, OpenStatuses
  <2>2. CASE p # o
    BY <1>3, <2>2 DEF Touched, Refunds, Settles, Ended
  <2> QED
    BY <2>1, <2>2
<1> QED
  BY <1>1, <1>2, <1>3, StepKinds

\* No step of an order touches names, payment accounts or lists of sweeps.
LEMMA OrdersKeepProfiles == OrderStep => UNCHANGED <<profile, sweep>>
<1> SUFFICES ASSUME OrderStep PROVE UNCHANGED <<profile, sweep>>
  OBVIOUS
<1> PICK o \in Orders :
               \/ \E t \in Users, l \in Listings, amount \in Amounts, m \in Methods,
                     k \in Keys \cup {NoKey} : CreateOrder(t, l, o, amount, m, k)
               \/ AddOrderProof(o) \/ MarkPaid(o) \/ MarkPaidTooLate(o)
               \/ CancelOrder(o) \/ ReleaseOrder(o)
               \/ \E u \in Users : AppealOrder(u, o)
               \/ CancelAppeal(o) \/ ResolveAppealRelease(o) \/ ResolveAppealRefund(o)
               \/ PaymentWindowElapses(o) \/ AppealWindowOpens(o)
  BY DEF OrderStep
<1>1. ASSUME NEW t, NEW l, NEW amount, NEW m, NEW k, CreateOrder(t, l, o, amount, m, k)
      PROVE  UNCHANGED <<profile, sweep>>
  BY <1>1 DEF CreateOrder
<1>2. ASSUME NEW by, Refund(o, by) PROVE UNCHANGED profile
  BY <1>2 DEF Refund
<1>3. Settle(o) => UNCHANGED <<profile, sweep>>
  BY DEF Settle
<1>4. ASSUME NEW u, AppealOrder(u, o) PROVE UNCHANGED <<profile, sweep>>
  BY <1>4 DEF AppealOrder
<1>5. CASE \/ AddOrderProof(o) \/ MarkPaid(o) \/ CancelAppeal(o)
           \/ PaymentWindowElapses(o) \/ AppealWindowOpens(o)
  BY <1>5 DEF AddOrderProof, MarkPaid, CancelAppeal, PaymentWindowElapses, AppealWindowOpens
<1>6. CASE \/ MarkPaidTooLate(o) \/ CancelOrder(o) \/ ReleaseOrder(o)
           \/ ResolveAppealRelease(o) \/ ResolveAppealRefund(o)
  BY <1>2, <1>3, <1>6 DEF MarkPaidTooLate, CancelOrder, ReleaseOrder,
                          ResolveAppealRelease, ResolveAppealRefund
<1> QED
  BY <1>1, <1>4, <1>5, <1>6

\* What a step does to the lists of the sweeps.
LEMMA SweepSteps ==
    ASSUME TypeOK, [Next]_vars, NEW s \in Sweepers
    PROVE  \/ sweep'[s] \subseteq sweep[s] /\ UNCHANGED order
           \/ sweep'[s] = sweep[s]
           \/ sweep[s] = {} /\ sweep'[s] \subseteq Due /\ UNCHANGED order
           \/ \E o \in Orders : /\ sweep'[s] = sweep[s] \ {o}
                                /\ order[o].status = "pending_payment"
                                /\ \A p \in Orders \ {o} : order'[p] = order[p]
<1>0. sweep \in [Sweepers -> SUBSET Orders]
  BY DEF TypeOK
<1>1. CASE UNCHANGED sweep
  BY <1>1
<1>2. CASE ProfileStep \/ ListingStep \/ OrderStep
  <2>1. UNCHANGED sweep
    BY <1>2, OrdersKeepProfiles
       DEF ProfileStep, FundingStep, ListingStep, EstablishP2PUsername, UpsertPaymentAccount,
           FundWalletAsset, CancelListing, CreateListing
  <2> QED
    BY <2>1
<1>3. ASSUME NEW r \in Sweepers, SweepStart(r)
      PROVE  \/ sweep'[s] = sweep[s]
             \/ sweep[s] = {} /\ sweep'[s] \subseteq Due /\ UNCHANGED order
  BY <1>0, <1>3 DEF SweepStart
<1>4. ASSUME NEW r \in Sweepers, SweepAbort(r)
      PROVE  sweep'[s] \subseteq sweep[s] /\ UNCHANGED order
  BY <1>0, <1>4 DEF SweepAbort
<1>5. ASSUME NEW r \in Sweepers, NEW o \in Orders, SweepCancel(r, o)
      PROVE  \/ sweep'[s] \subseteq sweep[s] /\ UNCHANGED order
             \/ sweep'[s] = sweep[s]
             \/ /\ sweep'[s] = sweep[s] \ {o}
                /\ order[o].status = "pending_payment"
                /\ \A p \in Orders \ {o} : order'[p] = order[p]
  <2>1. CASE r # s
    BY <1>0, <1>5, <2>1 DEF SweepCancel
  <2>2. CASE r = s /\ Unpaid(o)
    <3>1. Refund(o, order[o].buyer) /\ sweep'[s] = sweep[s] \ {o}
      BY <1>0, <1>5, <2>2 DEF SweepCancel
    <3>2. \A p \in Orders \ {o} : order'[p] = order[p]
      BY <3>1 DEF Refund, TypeOK
    <3> QED
      BY <2>2, <3>1, <3>2 DEF Unpaid
  <2>3. CASE r = s /\ ~Unpaid(o)
    BY <1>0, <1>5, <2>3 DEF SweepCancel
  <2> QED
    BY <2>1, <2>2, <2>3
<1>6. CASE SweepStep
  BY <1>3, <1>4, <1>5, <1>6 DEF SweepStep
<1>7. CASE UNCHANGED vars
  BY <1>1, <1>7 DEF vars
<1> QED
  BY <1>2, <1>6, <1>7 DEF Next

\* A sweep reads no order whose window has not passed, and windows stay passed.
LEMMA SweptElapsedAlways == Spec => []SweptElapsed
<1>1. Init => SweptElapsed
  BY DEF Init, SweptElapsed
<1>2. TypeOK /\ SweptElapsed /\ [Next]_vars => SweptElapsed'
  <2> SUFFICES ASSUME TypeOK, SweptElapsed, [Next]_vars, NEW s \in Sweepers, NEW o \in sweep'[s]
               PROVE  order'[o].status # "none" /\ order'[o].elapsed
    BY DEF SweptElapsed
  <2>1. CASE o \in sweep[s]
    <3>1. o \in Orders /\ order[o].status # "none" /\ order[o].elapsed
      BY <2>1 DEF SweptElapsed, TypeOK
    <3> QED
      BY <3>1, WindowSteps
  <2>2. CASE o \notin sweep[s]
    <3>1. o \in Due /\ UNCHANGED order
      BY <2>2, SweepSteps
    <3> QED
      BY <3>1 DEF Due
  <2> QED
    BY <2>1, <2>2
<1> QED
  BY <1>1, <1>2, TypeCorrect, PTL DEF Spec

\* However stale the list of a sweep is, the sweep ends no order but one that
\* is past its window and still unpaid at that moment.
THEOREM SweepsExpireOnlyUnpaid == Spec => ExpiresOnlyUnpaid
<1>1. ASSUME TypeOK, SweptElapsed, [Next]_vars
      PROVE  [\A s \in Sweepers : \A o \in sweep[s] \ sweep'[s] :
                order'[o] # order[o] =>
                   order[o].elapsed /\ order[o].status = "pending_payment"]_vars
  <2>1. ASSUME NEW s \in Sweepers, NEW o \in sweep[s] \ sweep'[s], order'[o] # order[o]
        PROVE  order[o].elapsed /\ order[o].status = "pending_payment"
    <3>1. o \in Orders /\ order[o].elapsed
      BY <1>1 DEF SweptElapsed, TypeOK
    <3>2. order[o].status = "pending_payment"
      BY <1>1, <2>1, <3>1, SweepSteps
    <3> QED
      BY <3>1, <3>2
  <2> QED
    BY <2>1
<1> QED
  BY <1>1, TypeCorrect, SweptElapsedAlways, PTL DEF Spec, ExpiresOnlyUnpaid

\* No two users have the same P2P username.
NamesUnique ==
    \A u, v \in Users : u # v /\ username[u] = username[v] => username[u] = NoName

\* What a step does to names and payment accounts: a user without a name may
\* get one that nobody has, and accounts are only added.
LEMMA ProfileSteps ==
    ASSUME TypeOK, [Next]_vars
    PROVE  /\ accounts \subseteq accounts'
           /\ \/ UNCHANGED username
              \/ \E u \in Users :
                   /\ username[u] = NoName /\ NameFree(u, username'[u])
                   /\ username'[u] # NoName
                   /\ \A v \in Users \ {u} : username'[v] = username[v]
<1>0. username \in [Users -> Names \cup {NoName}] /\ NoName \notin Names
  BY MarketAssumption DEF TypeOK
<1>1. CASE UNCHANGED profile
  BY <1>1 DEF profile
<1>2. ASSUME NEW u \in Users, NEW n \in Names, EstablishP2PUsername(u, n)
      PROVE  /\ accounts \subseteq accounts'
             /\ \/ UNCHANGED username
                \/ /\ username[u] = NoName /\ NameFree(u, username'[u])
                   /\ username'[u] # NoName
                   /\ \A v \in Users \ {u} : username'[v] = username[v]
  <2>1. accounts' = accounts /\ NameFree(u, n) /\ username' = [username EXCEPT ![u] = n]
    BY <1>2 DEF EstablishP2PUsername
  <2>2. CASE username[u] = n
    BY <1>0, <2>1, <2>2
  <2>3. CASE username[u] = NoName
    BY <1>0, <2>1, <2>3
  <2> QED
    BY <1>2, <2>2, <2>3 DEF EstablishP2PUsername
<1>3. ASSUME NEW u \in Users, NEW m \in Methods, UpsertPaymentAccount(u, m)
      PROVE  accounts \subseteq accounts' /\ UNCHANGED username
  BY <1>3 DEF UpsertPaymentAccount
<1>4. ASSUME NEW l \in Listings, Posts(l)
      PROVE  /\ accounts \subseteq accounts'
             /\ \/ UNCHANGED username
                \/ \E u \in Users :
                     /\ username[u] = NoName /\ NameFree(u, username'[u])
                     /\ username'[u] # NoName
                     /\ \A v \in Users \ {u} : username'[v] = username[v]
  <2>0. PICK u \in Users, side \in Sides, amount \in Amounts, methods \in SUBSET Methods,
             n \in Names \cup {NoName}, price \in Prices :
           \E min \in Limits \cup {1}, max \in Limits \cup {Fiat(amount, price)} :
              CreateListing(u, l, side, amount, methods, n, price, min, max)
    BY <1>4 DEF Posts
  <2>1.    /\ username[u] # NoName \/ (n # NoName /\ NameFree(u, n))
           /\ username' = [username EXCEPT ![u] = IF @ = NoName THEN n ELSE @]
           /\ UNCHANGED accounts
    BY <2>0 DEF CreateListing
  <2>2. CASE username[u] = NoName
    <3>1. username' = [username EXCEPT ![u] = n] /\ n # NoName /\ NameFree(u, n)
      BY <2>1, <2>2
    <3>2. username'[u] = n /\ \A v \in Users \ {u} : username'[v] = username[v]
      BY <1>0, <3>1
    <3> QED
      BY <2>1, <2>2, <3>1, <3>2
  <2>3. CASE username[u] # NoName
    BY <1>0, <2>1, <2>3
  <2> QED
    BY <2>2, <2>3
<1>5. CASE ProfileStep
  BY <1>1, <1>2, <1>3, <1>5 DEF ProfileStep, FundingStep, FundWalletAsset
<1>6. CASE ListingStep
  BY <1>1, <1>4, <1>6 DEF ListingStep, CancelListing, Posts
<1>7. CASE OrderStep \/ SweepStep \/ UNCHANGED vars
  <2>1. CASE OrderStep
    BY <1>1, <2>1, OrdersKeepProfiles
  <2>2. CASE SweepStep
    BY <1>1, <2>2 DEF SweepStep, SweepStart, SweepAbort, SweepCancel, Refund
  <2>3. CASE UNCHANGED vars
    BY <1>1, <2>3 DEF vars
  <2> QED
    BY <1>7, <2>1, <2>2, <2>3
<1> QED
  BY <1>5, <1>6, <1>7 DEF Next

\* Usernames stay unique, whichever of the two requests sets them.
THEOREM NamesStayUnique == Spec => []NamesUnique
<1>1. Init => NamesUnique
  BY MarketAssumption DEF Init, NamesUnique
<1>2. TypeOK /\ NamesUnique /\ [Next]_vars => NamesUnique'
  <2> SUFFICES ASSUME TypeOK, NamesUnique, [Next]_vars PROVE NamesUnique'
    OBVIOUS
  <2>1. CASE UNCHANGED username
    BY <2>1 DEF NamesUnique
  <2>2. ASSUME NEW w \in Users, NameFree(w, username'[w]),
               \A v \in Users \ {w} : username'[v] = username[v]
        PROVE  NamesUnique'
    <3> SUFFICES ASSUME NEW u \in Users, NEW v \in Users, u # v, username'[u] = username'[v]
                 PROVE  username'[u] = NoName
      BY DEF NamesUnique
    <3>1. u # w /\ v # w
      BY <2>2 DEF NameFree
    <3> QED
      BY <2>2, <3>1 DEF NamesUnique
  <2> QED
    BY <2>1, <2>2, ProfileSteps
<1> QED
  BY <1>1, <1>2, TypeCorrect, PTL DEF Spec

\* The name and the accounts behind one ad.
Identified(l) ==
    LET ad == listing[l] IN
    ad.status # "NONE" /\ ad.feeModel # "LEGACY_FIAT" =>
       /\ username[ad.creator] # NoName
       /\ ad.side = "SELL" => \A m \in ad.methods : <<ad.creator, m>> \in accounts

\* Posting an ad gives its owner a name, and takes methods he can be paid by.
LEMMA PostIdentifies ==
    ASSUME TypeOK, NEW l \in Listings, Posts(l)
    PROVE  /\ Identified(l)'
           /\ \A j \in Listings \ {l} : listing'[j] = listing[j]
<1>1. PICK u \in Users, side \in Sides, amount \in Amounts, methods \in SUBSET Methods,
           n \in Names \cup {NoName}, price \in Prices :
         \E min \in Limits \cup {1}, max \in Limits \cup {Fiat(amount, price)} :
            CreateListing(u, l, side, amount, methods, n, price, min, max)
  BY DEF Posts
<1>2. /\ username[u] # NoName \/ n # NoName
      /\ username' = [username EXCEPT ![u] = IF @ = NoName THEN n ELSE @]
      /\ accounts' = accounts
      /\ side = "BUY" \/ \A m \in methods : <<u, m>> \in accounts
  BY <1>1 DEF CreateListing
<1>3. /\ listing'[l].creator = u /\ listing'[l].side = side /\ listing'[l].methods = methods
      /\ \A j \in Listings \ {l} : listing'[j] = listing[j]
  BY <1>1 DEF CreateListing, TypeOK
<1>4. username'[u] # NoName
  BY <1>2 DEF TypeOK
<1> QED
  BY <1>2, <1>3, <1>4 DEF Identified

\* Whoever posts an ad is known by a username of his own, and the seller can
\* be paid by each of its methods, however the name was established.
THEOREM CreatorsKnown == Spec => []CreatorsIdentified
<1> DEFINE Inv == \A l \in Listings : Identified(l)
<1>1. Init => Inv
  <2> SUFFICES ASSUME Init, NEW l \in Listings PROVE Identified(l)
    OBVIOUS
  <2>1. listing[l].status = "NONE" \/ listing[l].feeModel = "LEGACY_FIAT"
    BY DEF Init, FreeListing, MigratedRow
  <2> QED
    BY <2>1 DEF Identified
<1>2. TypeOK /\ RowsAgree /\ Inv /\ [Next]_vars => Inv'
  <2> SUFFICES ASSUME TypeOK, RowsAgree, Inv, [Next]_vars, NEW l \in Listings
               PROVE  Identified(l)'
    OBVIOUS
  <2>1. CASE Posts(l)
    BY <2>1, PostIdentifies
  <2>2. CASE listing[l].status = "NONE" /\ ~Posts(l)
    <3>1. listing'[l] = listing[l]
      BY <2>2, PostedBefore
    <3> QED
      BY <2>2, <3>1 DEF Identified
  <2>3. CASE listing[l].status # "NONE"
    <3>1. OfferStays(listing[l], listing'[l]) /\ Identified(l)
      BY OffersStay
    <3>2. listing[l].creator \in Users
      BY <2>3 DEF RowsAgree, AdAgrees
    <3>3. username[listing[l].creator] # NoName => username'[listing[l].creator] # NoName
      BY <3>2, ProfileSteps
    <3>4. accounts \subseteq accounts'
      BY ProfileSteps
    <3> QED
      BY <2>3, <3>1, <3>3, <3>4 DEF OfferStays, SameOffer, Identified
  <2> QED
    BY <2>1, <2>2, <2>3
<1>3. RowsAgree /\ NamesUnique /\ Inv => CreatorsIdentified
  <2> SUFFICES ASSUME RowsAgree, NamesUnique, Inv, NEW l \in Listings,
                      listing[l].status # "NONE", listing[l].feeModel # "LEGACY_FIAT"
               PROVE  LET ad == listing[l] IN
                      /\ username[ad.creator] # NoName
                      /\ \A v \in Users \ {ad.creator} : username[v] # username[ad.creator]
                      /\ ad.side = "SELL" => \A m \in ad.methods : <<ad.creator, m>> \in accounts
    BY DEF CreatorsIdentified
  <2>1. Identified(l) /\ listing[l].creator \in Users
    BY DEF RowsAgree, AdAgrees
  <2> QED
    BY <2>1 DEF Identified, NamesUnique
<1> HIDE DEF Inv
<1> QED
  BY <1>1, <1>2, <1>3, TypeCorrect, RowsAlwaysAgree, NamesStayUnique, PTL DEF Spec

-----------------------------------------------------------------------------
(* Open ads can be taken.                                                  *)

\* A quotient rounds down.
LEMMA DivBounds ==
    ASSUME NEW n \in Nat, NEW d \in Nat \ {0}
    PROVE  n \div d \in Nat /\ d * (n \div d) <= n /\ n < d * (n \div d) + d
<1> DEFINE q == n \div d
<1>1. n = d * q + (n % d) /\ n % d \in 0..(d - 1) /\ q \in Nat
  OBVIOUS
<1> HIDE DEF q
<1>2. d * q <= n /\ n < d * q + d
  BY <1>1
<1> QED
  BY <1>1, <1>2 DEF q

\* Multiples of d in the order of their factors.
LEMMA FactorOrder ==
    ASSUME NEW d \in Nat \ {0}, NEW p \in Int, NEW q \in Int, d * p < d * q + d
    PROVE  p <= q
<1>1. d * p < d * (q + 1)
  OBVIOUS
<1>2. p < q + 1
  BY <1>1
<1> QED
  BY <1>2

\* What the value of an amount says about twice the amount times the price.
LEMMA FiatBounds ==
    ASSUME NEW amount \in Nat, NEW price \in Nat
    PROVE  LET v == Fiat(amount, price)
               s == 2 * PriceScale
               n == 2 * amount * price + PriceScale
           IN  v \in Nat /\ s * v <= n /\ n < s * v + s
<1>1. 2 * amount * price + PriceScale \in Nat /\ 2 * PriceScale \in Nat \ {0}
  BY SettlementAssumption
<1> QED
  BY <1>1, DivBounds DEF Fiat

\* More is not worth less.
LEMMA FiatMonotone ==
    ASSUME NEW a \in Nat, NEW b \in Nat, NEW price \in Nat, a <= b
    PROVE  Fiat(a, price) <= Fiat(b, price)
<1> DEFINE s == 2 * PriceScale
           m == 2 * a * price
           n == 2 * b * price
           v == Fiat(a, price)
           w == Fiat(b, price)
<1>1. PriceScale \in Nat \ {0} /\ s \in Nat \ {0} /\ m \in Nat /\ n \in Nat
  BY SettlementAssumption
<1>2. m <= n
  <2>1. PICK c \in Nat : b = a + c
    <3>1. b - a \in Nat /\ b = a + (b - a)
      OBVIOUS
    <3> QED
      BY <3>1
  <2>2. n = m + 2 * c * price /\ 2 * c * price \in Nat
    BY <2>1
  <2> HIDE DEF m, n
  <2> QED
    BY <1>1, <2>2
<1>3. v \in Nat /\ w \in Nat /\ s * v <= m + PriceScale /\ n + PriceScale < s * w + s
  BY FiatBounds
<1> HIDE DEF s, m, n, v, w
<1>4. s * v < s * w + s
  BY <1>1, <1>2, <1>3
<1>5. v <= w
  BY <1>1, <1>3, <1>4, FactorOrder
<1> QED
  BY <1>5 DEF v, w

\* The values of two parts exceed the value of the whole by one paisa at most,
\* and fall short of it by one at most.
LEMMA FiatSplit ==
    ASSUME NEW a \in Nat, NEW b \in Nat, NEW price \in Nat
    PROVE  Fiat(a + b, price) <= Fiat(a, price) + Fiat(b, price) + 1
<1> DEFINE s == 2 * PriceScale
           m == 2 * a * price
           n == 2 * b * price
           k == 2 * (a + b) * price
           v == Fiat(a, price)
           w == Fiat(b, price)
           z == Fiat(a + b, price)
<1>1. /\ PriceScale \in Nat \ {0} /\ s \in Nat \ {0} /\ m \in Nat /\ n \in Nat
      /\ s = 2 * PriceScale
  BY SettlementAssumption
<1>2. k = m + n
  OBVIOUS
<1>3. /\ v \in Nat /\ w \in Nat /\ z \in Nat
      /\ m + PriceScale < s * v + s /\ n + PriceScale < s * w + s
      /\ s * z <= k + PriceScale
  <2>1. a + b \in Nat
    OBVIOUS
  <2> QED
    BY <2>1, FiatBounds
<1> HIDE DEF s, m, n, k, v, w, z
<1>4. s * z < s * (v + w + 1) + s
  <2>1. s * (v + w + 1) = s * v + s * w + s
    BY <1>1, <1>3
  <2> QED
    BY <1>1, <1>2, <1>3, <2>1
<1>5. z <= v + w + 1
  BY <1>1, <1>3, <1>4, FactorOrder
<1> QED
  BY <1>5 DEF v, w, z

\* With a price that fine every value is the value of some amount.
LEMMA EveryValueHit ==
    ASSUME NEW price \in Nat \ {0}, price <= PriceScale, NEW v \in Nat \ {0}
    PROVE  \E w \in Nat \ {0} : Fiat(w, price) = v
<1> DEFINE s == 2 * PriceScale
           d == 2 * price
           a == s * v - PriceScale
           w == (a + d - 1) \div d
           m == d * w
           z == Fiat(w, price)
<1>1. /\ PriceScale \in Nat \ {0} /\ s \in Nat \ {0} /\ d \in Nat \ {0}
      /\ d <= s /\ s = 2 * PriceScale
  BY SettlementAssumption
<1>2. a \in Nat \ {0} /\ s * v = a + PriceScale
  <2>1. s * v = s * (v - 1) + s /\ s * (v - 1) \in Nat
    BY <1>1
  <2>2. s * v \in Nat
    BY <1>1
  <2> HIDE DEF s
  <2> QED
    BY <1>1, <2>1, <2>2
<1>3. w \in Nat /\ m <= a + d - 1 /\ a + d - 1 < m + d
  <2>1. a + d - 1 \in Nat
    BY <1>1, <1>2
  <2> HIDE DEF a, d
  <2> QED
    BY <1>1, <2>1, DivBounds
<1>4. m \in Nat /\ 2 * w * price = m
  BY <1>3
<1>5. z \in Nat /\ s * z <= m + PriceScale /\ m + PriceScale < s * z + s
  <2>1. /\ z \in Nat /\ s * z <= 2 * w * price + PriceScale
        /\ 2 * w * price + PriceScale < s * z + s
    <3>1. w \in Nat /\ price \in Nat
      BY <1>3
    <3> HIDE DEF w
    <3> QED
      BY <3>1, FiatBounds
  <2> HIDE DEF m, z, w
  <2> QED
    BY <1>4, <2>1
<1>6. w # 0
  <2>1. w = 0 => m = 0
    BY <1>1
  <2> HIDE DEF m, a, d, w
  <2> QED
    BY <1>1, <1>2, <1>3, <2>1
<1>7. z <= v /\ v <= z
  <2> HIDE DEF z, s, d, a, m, w
  <2>1. s * v \in Nat /\ s * z \in Nat
    BY <1>1, <1>5
  <2>2. s * z < s * v + s
    BY <1>1, <1>2, <1>3, <1>4, <1>5, <2>1
  <2>3. s * v < s * z + s
    BY <1>1, <1>2, <1>3, <1>4, <1>5, <2>1
  <2> QED
    BY <1>1, <1>5, <2>2, <2>3, FactorOrder
<1> HIDE DEF z, w
<1> QED
  BY <1>3, <1>5, <1>6, <1>7 DEF z

\* An amount that fits a Divisible ad with so much left.
LEMMA SomeOrderFits ==
    ASSUME NEW rem \in Nat, NEW price \in Nat \ {0}, price <= PriceScale,
           NEW min \in Nat \ {0}, NEW max \in Nat, 2 * min <= max,
           min <= Fiat(rem, price)
    PROVE  \E want \in 1..rem : OrderFits(rem, want, price, min, max)
<1> DEFINE f == Fiat(rem, price)
<1>1. f \in Nat
  BY FiatType
<1>2. CASE f <= max
  <2>1. rem # 0
    <3>1. Fiat(0, price) = 0
      <4>1. 2 * 0 * price + PriceScale = PriceScale
        BY SettlementAssumption
      <4>2. PriceScale \div (2 * PriceScale) = 0
        BY SettlementAssumption
      <4> QED
        BY <4>1, <4>2 DEF Fiat
    <3> QED
      BY <3>1
  <2>2. rem \in 1..rem /\ OrderFits(rem, rem, price, min, max)
    BY <1>1, <1>2, <2>1 DEF OrderFits
  <2> QED
    BY <2>2
<1>3. CASE max < f
  <2>1. PICK w \in Nat \ {0} : Fiat(w, price) = min
    BY EveryValueHit
  <2>2. w <= rem
    <3> SUFFICES ASSUME rem < w PROVE FALSE
      OBVIOUS
    <3>1. Fiat(rem, price) <= Fiat(w, price)
      BY FiatMonotone
    <3> QED
      BY <1>1, <1>3, <2>1, <3>1
  <2>3. rem - w \in Nat /\ w + (rem - w) = rem
    BY <2>2
  <2> DEFINE g == Fiat(rem - w, price)
  <2>4. g \in Nat
    BY <2>3, FiatType
  <2>5. f <= min + g + 1
    <3> DEFINE b == rem - w
    <3>1. b \in Nat /\ w + b = rem
      BY <2>3
    <3> HIDE DEF b
    <3>2. Fiat(w + b, price) <= Fiat(w, price) + Fiat(b, price) + 1
      BY <3>1, FiatSplit
    <3> QED
      BY <2>1, <3>1, <3>2 DEF b
  <2>6. min <= g
    <3> HIDE DEF f, g
    <3> QED
      BY <1>1, <1>3, <2>4, <2>5
  <2>7. w \in 1..rem /\ OrderFits(rem, w, price, min, max)
    BY <2>1, <2>2, <2>6 DEF OrderFits
  <2> QED
    BY <2>7
<1> QED
  BY <1>1, <1>2, <1>3

\* What is left of an ACTIVE ad is worth its minimum at least.
ActiveCoversMin ==
    \A l \in Listings :
       LET ad == listing[l] IN
       ad.status = "ACTIVE" => ad.min <= Fiat(ad.remaining, ad.price)

\* An open ad never holds less than its own minimum.
LEMMA ActiveCoversMinAlways == Spec => []ActiveCoversMin
<1>1. Init => ActiveCoversMin
  <2> SUFFICES ASSUME Init, NEW l \in Listings, listing[l].status = "ACTIVE"
               PROVE  listing[l].min <= Fiat(listing[l].remaining, listing[l].price)
    BY DEF ActiveCoversMin
  <2>1. CASE \E a \in LegacyAds : a.listing = l
    <3> DEFINE a == CHOOSE a \in LegacyAds : a.listing = l
    <3>1. a \in LegacyAds /\ listing[l] = MigratedRow(a)
      BY <2>1 DEF Init
    <3>2. a.price \in Nat /\ a.amount \in Nat /\ Fiat(a.amount, a.price) > 0
      BY <3>1, MarketAssumption DEF LegacyAd
    <3>3. Fiat(a.amount, a.price) \in Nat
      BY <3>2, FiatType
    <3> HIDE DEF a
    <3> QED
      BY <3>1, <3>2, <3>3 DEF MigratedRow
  <2>2. CASE ~\E a \in LegacyAds : a.listing = l
    BY <2>2 DEF Init, FreeListing
  <2> QED
    BY <2>1, <2>2
<1>2. TypeOK /\ RowsAgree /\ ActiveCoversMin /\ [Next]_vars => ActiveCoversMin'
  <2> SUFFICES ASSUME TypeOK, RowsAgree, ActiveCoversMin, [Next]_vars, NEW l \in Listings,
                      listing'[l].status = "ACTIVE"
               PROVE  listing'[l].min <= Fiat(listing'[l].remaining, listing'[l].price)
    BY DEF ActiveCoversMin
  <2>0. listing \in [Listings -> ListingRow]
    BY DEF TypeOK
  <2>1. CASE listing'[l] = listing[l]
    BY <2>1 DEF ActiveCoversMin
  <2>2. CASE Aside \/ Funds \/ \E o \in Orders : Touched(o) \/ Settles(o)
    <3>1. UNCHANGED listing
      BY <2>2 DEF Aside, Funds, FundWalletAsset, Touched, Settles, Settle
    <3> QED
      BY <2>1, <3>1
  <2>3. ASSUME NEW j \in Listings, Cancels(j)
        PROVE  listing'[l].min <= Fiat(listing'[l].remaining, listing'[l].price)
    BY <2>0, <2>1, <2>3 DEF Cancels, CancelListing, ListingRow
  <2>4. ASSUME NEW j \in Listings, Posts(j)
        PROVE  listing'[l].min <= Fiat(listing'[l].remaining, listing'[l].price)
    <3>0. PICK u \in Users, side \in Sides, amount \in Amounts, methods \in SUBSET Methods,
               n \in Names \cup {NoName}, price \in Prices :
             \E min \in Limits \cup {1}, max \in Limits \cup {Fiat(amount, price)} :
                CreateListing(u, j, side, amount, methods, n, price, min, max)
      BY <2>4 DEF Posts
    <3> PICK min \in Limits \cup {1}, max \in Limits \cup {Fiat(amount, price)} :
             CreateListing(u, j, side, amount, methods, n, price, min, max)
      BY <3>0
    <3>1. CASE j = l
      <4>1. /\ listing'[l].min = min /\ listing'[l].remaining = amount
            /\ listing'[l].price = price /\ min <= max /\ max <= Fiat(amount, price)
        BY <2>0, <3>1 DEF CreateListing, ValidLimits
      <4>2. amount \in Nat /\ price \in Nat /\ min \in Nat
        BY MarketAssumption
      <4>3. Fiat(amount, price) \in Nat
        BY <4>2, FiatType
      <4>4. max \in Nat
        BY <4>3, MarketAssumption
      <4> QED
        BY <4>1, <4>2, <4>3, <4>4
    <3>2. CASE j # l
      BY <2>0, <2>1, <3>2 DEF CreateListing
    <3> QED
      BY <3>1, <3>2
  <2>5. ASSUME NEW o \in Orders, NEW j \in Listings, Takes(j, o)
        PROVE  listing'[l].min <= Fiat(listing'[l].remaining, listing'[l].price)
    <3>1. PICK t \in Users, amount \in Amounts, k \in Keys \cup {NoKey} :
             Opened(t, j, o, amount, k)
      BY <2>5, TakeOpens DEF Takes
    <3>2. CASE j = l
      BY <3>1, <3>2 DEF Opened, OrderFits, SameOffer
    <3>3. CASE j # l
      BY <2>1, <3>1, <3>3 DEF Opened
    <3> QED
      BY <3>2, <3>3
  <2>6. ASSUME NEW o \in Orders, Refunds(o)
        PROVE  listing'[l].min <= Fiat(listing'[l].remaining, listing'[l].price)
    <3> DEFINE row == order[o]
               ad  == listing[l]
    <3>1. row.status # "none"
      BY <2>6 DEF Refunds, Ended, OpenStatuses
    <3>2. Agreed(row, listing[row.listing]) /\ row.listing \in Listings
      BY <3>1 DEF RowsAgree, OrderAgrees, Agreed
    <3>3. GivesBack(o)
      BY <2>6, <3>2, RefundGivesBack
    <3>4. CASE l = row.listing /\ Reopens(ad)
      <4>1. /\ listing'[l].remaining = ad.remaining + row.amount
            /\ listing'[l].min = ad.min /\ listing'[l].price = ad.price
        BY <3>3, <3>4 DEF GivesBack, SameOffer
      <4>2. /\ ad.remaining \in Nat /\ row.amount \in Nat /\ ad.price \in Nat /\ ad.min \in Nat
        BY DEF TypeOK, ListingRow, OrderRow
      <4>3. ad.min <= Fiat(row.amount, ad.price)
        BY <3>2, <3>4 DEF Agreed
      <4> DEFINE a == row.amount
                 b == ad.remaining + row.amount
      <4>4. a \in Nat /\ b \in Nat /\ a <= b
        BY <4>2
      <4> HIDE DEF a, b
      <4>5. Fiat(a, ad.price) <= Fiat(b, ad.price)
        BY <4>2, <4>4, FiatMonotone
      <4>6. Fiat(a, ad.price) \in Nat /\ Fiat(b, ad.price) \in Nat
        BY <4>2, <4>4, FiatType
      <4>7. ad.min <= Fiat(b, ad.price)
        BY <4>2, <4>3, <4>5, <4>6 DEF a
      <4> QED
        BY <4>1, <4>7 DEF b
    <3>5. CASE ~(l = row.listing /\ Reopens(ad))
      BY <2>1, <3>3, <3>5 DEF GivesBack
    <3> QED
      BY <3>4, <3>5
  <2> QED
    BY <2>2, <2>3, <2>4, <2>5, <2>6, StepKinds
<1> QED
  BY <1>1, <1>2, TypeCorrect, RowsAlwaysAgree, PTL DEF Spec

\* An ad with a fine price and wide limits can be taken as long as it is open,
\* whatever orders and refunds have left of it.
THEOREM OpenAdsStayTakeable == Spec => []OpenAdsTakeable
<1>1. TypeOK /\ RowsAgree /\ ActiveCoversMin => OpenAdsTakeable
  <2> SUFFICES ASSUME TypeOK, RowsAgree, ActiveCoversMin, NEW l \in Listings,
                      listing[l].status = "ACTIVE", Divisible(listing[l])
               PROVE  LET ad == listing[l] IN
                      \E want \in 1..ad.remaining :
                         /\ OrderFits(ad.remaining, want, ad.price, ad.min, ad.max)
                         /\ BuyerCredit(ad.feeModel, want) > 0
    BY DEF OpenAdsTakeable
  <2> DEFINE ad == listing[l]
  <2>1. /\ ad.remaining \in Nat /\ ad.price \in Nat \ {0} /\ ad.min \in Nat \ {0}
        /\ ad.max \in Nat
    BY DEF TypeOK, ListingRow, RowsAgree, AdAgrees
  <2>2. ad.price <= PriceScale /\ 2 * ad.min <= ad.max /\ ad.min <= Fiat(ad.remaining, ad.price)
    BY DEF Divisible, ActiveCoversMin
  <2>3. PICK want \in 1..ad.remaining :
           OrderFits(ad.remaining, want, ad.price, ad.min, ad.max)
    <3> HIDE DEF ad
    <3> QED
      BY <2>1, <2>2, SomeOrderFits
  <2>4. BuyerCredit(ad.feeModel, want) > 0
    <3>1. want \in Nat \ {0}
      BY <2>1
    <3>2. want \div FeeDivisor \in Nat /\ want \div FeeDivisor < want
      <4> DEFINE q == want \div FeeDivisor
      <4>1. q \in Nat /\ FeeDivisor * q <= want
        BY <3>1, SettlementAssumption, DivBounds
      <4> HIDE DEF q
      <4>2. FeeDivisor * q >= 2 * q
        BY <4>1, SettlementAssumption
      <4>3. q < want
        <5>1. FeeDivisor * q \in Nat
          BY <4>1, SettlementAssumption
        <5> QED
          BY <3>1, <4>1, <4>2, <5>1
      <4> QED
        BY <4>1, <4>3 DEF q
    <3> QED
      BY <3>1, <3>2 DEF BuyerCredit, FeeOf
  <2> QED
    BY <2>3, <2>4
<1> QED
  BY <1>1, TypeCorrect, RowsAlwaysAgree, ActiveCoversMinAlways, PTL

-----------------------------------------------------------------------------
(* Columns over the orders.                                                *)

\* What one order took from the ad l.
TakenOf(o, l) ==
    IF /\ order[o].listing = l
       /\ order[o].status # "cancelled" \/ IsLegacyMain(o)
    THEN order[o].amount ELSE 0

\* What one order adds to each column of u's statement.
SoldOf(o, u) ==
    IF /\ order[o].seller = u /\ ~IsLegacyMain(o)
       /\ order[o].status \in OpenStatuses \cup {"completed"}
    THEN order[o].debit ELSE 0
BoughtOf(o, u) ==
    IF order[o].buyer = u /\ order[o].status = "completed" THEN order[o].credit ELSE 0
LegacyDebitOf(o, u) ==
    IF order[o].seller = u /\ IsLegacyMain(o) THEN order[o].debit ELSE 0
LegacyRefundOf(o, u) ==
    IF order[o].seller = u /\ IsLegacyMain(o) /\ order[o].status = "cancelled"
    THEN order[o].debit ELSE 0
FeesOf(o) == IF order[o].status = "completed" THEN 2 * order[o].fee ELSE 0
EarnedFees == Total([o \in Orders |-> FeesOf(o)])

\* The columns hold natural numbers.
LEMMA ColumnTypes ==
    ASSUME TypeOK, NEW o \in Orders, NEW u, NEW l
    PROVE  /\ TakenOf(o, l) \in Nat /\ SoldOf(o, u) \in Nat /\ BoughtOf(o, u) \in Nat
           /\ LegacyDebitOf(o, u) \in Nat /\ LegacyRefundOf(o, u) \in Nat /\ FeesOf(o) \in Nat
<1>1. /\ order[o].amount \in Nat /\ order[o].debit \in Nat /\ order[o].credit \in Nat
      /\ order[o].fee \in Nat
  BY DEF TypeOK, OrderRow
<1> QED
  BY <1>1 DEF TakenOf, SoldOf, BoughtOf, LegacyDebitOf, LegacyRefundOf, FeesOf

\* So do their totals.
LEMMA StatementTypes ==
    ASSUME TypeOK, NEW u, NEW l
    PROVE  /\ TakenFrom(l) \in Nat /\ Sold(u) \in Nat /\ Bought(u) \in Nat
           /\ LegacyDebited(u) \in Nat /\ LegacyRefunded(u) \in Nat /\ EarnedFees \in Nat
<1>0. IsFiniteSet(Orders)
  BY MarketAssumption
<1>1. ASSUME NEW f \in [Orders -> Nat] PROVE Total(f) \in Nat
  BY <1>0, TotalType
<1>2. /\ [o \in Orders |-> TakenOf(o, l)] \in [Orders -> Nat]
      /\ [o \in Orders |-> SoldOf(o, u)] \in [Orders -> Nat]
      /\ [o \in Orders |-> BoughtOf(o, u)] \in [Orders -> Nat]
      /\ [o \in Orders |-> LegacyDebitOf(o, u)] \in [Orders -> Nat]
      /\ [o \in Orders |-> LegacyRefundOf(o, u)] \in [Orders -> Nat]
      /\ [o \in Orders |-> FeesOf(o)] \in [Orders -> Nat]
  BY ColumnTypes
<1> QED
  BY <1>1, <1>2 DEF TakenFrom, Sold, Bought, LegacyDebited, LegacyRefunded, EarnedFees,
       TakenOf, SoldOf, BoughtOf, LegacyDebitOf, LegacyRefundOf, FeesOf

\* Where an order draws its funds from does not change.
LEMMA LegacyStays ==
    ASSUME TypeOK, RowsAgree, [Next]_vars, NEW p \in Orders,
           \/ order'[p] = order[p]
           \/ /\ order[p].status # "none" /\ order'[p].status # "none"
              /\ order'[p].listing = order[p].listing
    PROVE  IsLegacyMain(p)' <=> IsLegacyMain(p)
<1>1. CASE order[p].status = "none"
  BY <1>1 DEF IsLegacyMain
<1>2. CASE order[p].status # "none"
  <2> DEFINE l == order[p].listing
  <2>1. l \in Listings /\ listing[l].status # "NONE"
    BY <1>2 DEF RowsAgree, OrderAgrees, Agreed
  <2>2. OfferStays(listing[l], listing'[l])
    BY <2>1, OffersStay
  <2> QED
    BY <1>2, <2>1, <2>2 DEF OfferStays, SameOffer, IsLegacyMain
<1> QED
  BY <1>1, <1>2

\* What a step that touches one order at most does to the columns.
LEMMA ColumnsChange ==
    ASSUME TypeOK, TypeOK', RowsAgree, [Next]_vars, NEW o \in Orders,
           \A p \in Orders \ {o} : order'[p] = order[p], NEW u, NEW l
    PROVE  /\ TakenFrom(l)' = TakenFrom(l) - TakenOf(o, l) + TakenOf(o, l)'
           /\ Sold(u)' = Sold(u) - SoldOf(o, u) + SoldOf(o, u)'
           /\ Bought(u)' = Bought(u) - BoughtOf(o, u) + BoughtOf(o, u)'
           /\ LegacyDebited(u)' = LegacyDebited(u) - LegacyDebitOf(o, u) + LegacyDebitOf(o, u)'
           /\ LegacyRefunded(u)'
                = LegacyRefunded(u) - LegacyRefundOf(o, u) + LegacyRefundOf(o, u)'
           /\ EarnedFees' = EarnedFees - FeesOf(o) + FeesOf(o)'
<1>0. IsFiniteSet(Orders)
  BY MarketAssumption
<1>1. ASSUME NEW f \in [Orders -> Nat], NEW g \in [Orders -> Nat],
             \A p \in Orders \ {o} : g[p] = f[p]
      PROVE  Total(g) = Total(f) - f[o] + g[o]
  BY <1>0, <1>1, TotalChange
<1>2. \A p \in Orders \ {o} : IsLegacyMain(p)' <=> IsLegacyMain(p)
  BY LegacyStays
<1>3. \A p \in Orders :
         /\ TakenOf(p, l)' \in Nat /\ SoldOf(p, u)' \in Nat /\ BoughtOf(p, u)' \in Nat
         /\ LegacyDebitOf(p, u)' \in Nat /\ LegacyRefundOf(p, u)' \in Nat /\ FeesOf(p)' \in Nat
  <2> SUFFICES ASSUME NEW p \in Orders
               PROVE  /\ TakenOf(p, l)' \in Nat /\ SoldOf(p, u)' \in Nat
                      /\ BoughtOf(p, u)' \in Nat /\ LegacyDebitOf(p, u)' \in Nat
                      /\ LegacyRefundOf(p, u)' \in Nat /\ FeesOf(p)' \in Nat
    OBVIOUS
  <2>1. /\ order'[p].amount \in Nat /\ order'[p].debit \in Nat /\ order'[p].credit \in Nat
        /\ order'[p].fee \in Nat
    BY DEF TypeOK, OrderRow
  <2> QED
    BY <2>1 DEF TakenOf, SoldOf, BoughtOf, LegacyDebitOf, LegacyRefundOf, FeesOf
<1>4. TakenFrom(l)' = TakenFrom(l) - TakenOf(o, l) + TakenOf(o, l)'
  <2> DEFINE f == [p \in Orders |-> TakenOf(p, l)]
             g == [p \in Orders |-> TakenOf(p, l)']
  <2>1. f \in [Orders -> Nat] /\ g \in [Orders -> Nat] /\ f[o] = TakenOf(o, l)
        /\ g[o] = TakenOf(o, l)'
    BY <1>3, ColumnTypes
  <2>2. \A p \in Orders \ {o} : g[p] = f[p]
    BY <1>2 DEF TakenOf
  <2>3. TakenFrom(l) = Total(f) /\ TakenFrom(l)' = Total(g)
    BY DEF TakenFrom, TakenOf
  <2> HIDE DEF f, g
  <2> QED
    BY <1>1, <2>1, <2>2, <2>3
<1>5. Sold(u)' = Sold(u) - SoldOf(o, u) + SoldOf(o, u)'
  <2> DEFINE f == [p \in Orders |-> SoldOf(p, u)]
             g == [p \in Orders |-> SoldOf(p, u)']
  <2>1. f \in [Orders -> Nat] /\ g \in [Orders -> Nat] /\ f[o] = SoldOf(o, u)
        /\ g[o] = SoldOf(o, u)'
    BY <1>3, ColumnTypes
  <2>2. \A p \in Orders \ {o} : g[p] = f[p]
    BY <1>2 DEF SoldOf
  <2>3. Sold(u) = Total(f) /\ Sold(u)' = Total(g)
    BY DEF Sold, SoldOf
  <2> HIDE DEF f, g
  <2> QED
    BY <1>1, <2>1, <2>2, <2>3
<1>6. Bought(u)' = Bought(u) - BoughtOf(o, u) + BoughtOf(o, u)'
  <2> DEFINE f == [p \in Orders |-> BoughtOf(p, u)]
             g == [p \in Orders |-> BoughtOf(p, u)']
  <2>1. f \in [Orders -> Nat] /\ g \in [Orders -> Nat] /\ f[o] = BoughtOf(o, u)
        /\ g[o] = BoughtOf(o, u)'
    BY <1>3, ColumnTypes
  <2>2. \A p \in Orders \ {o} : g[p] = f[p]
    BY DEF BoughtOf
  <2>3. Bought(u) = Total(f) /\ Bought(u)' = Total(g)
    BY DEF Bought, BoughtOf
  <2> HIDE DEF f, g
  <2> QED
    BY <1>1, <2>1, <2>2, <2>3
<1>7. LegacyDebited(u)' = LegacyDebited(u) - LegacyDebitOf(o, u) + LegacyDebitOf(o, u)'
  <2> DEFINE f == [p \in Orders |-> LegacyDebitOf(p, u)]
             g == [p \in Orders |-> LegacyDebitOf(p, u)']
  <2>1. f \in [Orders -> Nat] /\ g \in [Orders -> Nat] /\ f[o] = LegacyDebitOf(o, u)
        /\ g[o] = LegacyDebitOf(o, u)'
    BY <1>3, ColumnTypes
  <2>2. \A p \in Orders \ {o} : g[p] = f[p]
    BY <1>2 DEF LegacyDebitOf
  <2>3. LegacyDebited(u) = Total(f) /\ LegacyDebited(u)' = Total(g)
    BY DEF LegacyDebited, LegacyDebitOf
  <2> HIDE DEF f, g
  <2> QED
    BY <1>1, <2>1, <2>2, <2>3
<1>8. LegacyRefunded(u)' = LegacyRefunded(u) - LegacyRefundOf(o, u) + LegacyRefundOf(o, u)'
  <2> DEFINE f == [p \in Orders |-> LegacyRefundOf(p, u)]
             g == [p \in Orders |-> LegacyRefundOf(p, u)']
  <2>1. f \in [Orders -> Nat] /\ g \in [Orders -> Nat] /\ f[o] = LegacyRefundOf(o, u)
        /\ g[o] = LegacyRefundOf(o, u)'
    BY <1>3, ColumnTypes
  <2>2. \A p \in Orders \ {o} : g[p] = f[p]
    BY <1>2 DEF LegacyRefundOf
  <2>3. LegacyRefunded(u) = Total(f) /\ LegacyRefunded(u)' = Total(g)
    BY DEF LegacyRefunded, LegacyRefundOf
  <2> HIDE DEF f, g
  <2> QED
    BY <1>1, <2>1, <2>2, <2>3
<1>9. EarnedFees' = EarnedFees - FeesOf(o) + FeesOf(o)'
  <2> DEFINE f == [p \in Orders |-> FeesOf(p)]
             g == [p \in Orders |-> FeesOf(p)']
  <2>1. f \in [Orders -> Nat] /\ g \in [Orders -> Nat] /\ f[o] = FeesOf(o) /\ g[o] = FeesOf(o)'
    BY <1>3, ColumnTypes
  <2>2. \A p \in Orders \ {o} : g[p] = f[p]
    BY DEF FeesOf
  <2>3. EarnedFees = Total(f) /\ EarnedFees' = Total(g)
    BY DEF EarnedFees
  <2> HIDE DEF f, g
  <2> QED
    BY <1>1, <2>1, <2>2, <2>3
<1> QED
  BY <1>4, <1>5, <1>6, <1>7, <1>8, <1>9

\* What a step that touches no order does to them: nothing.
LEMMA ColumnsStay ==
    ASSUME TypeOK, RowsAgree, [Next]_vars, UNCHANGED order, NEW u, NEW l
    PROVE  /\ TakenFrom(l)' = TakenFrom(l) /\ Sold(u)' = Sold(u) /\ Bought(u)' = Bought(u)
           /\ LegacyDebited(u)' = LegacyDebited(u) /\ LegacyRefunded(u)' = LegacyRefunded(u)
           /\ EarnedFees' = EarnedFees
<1>1. \A p \in Orders : IsLegacyMain(p)' <=> IsLegacyMain(p)
  BY LegacyStays
<1>2. Bought(u)' = Bought(u) /\ EarnedFees' = EarnedFees
  BY DEF Bought, EarnedFees, FeesOf
<1>3. /\ [o \in Orders |-> TakenOf(o, l)]' = [o \in Orders |-> TakenOf(o, l)]
      /\ [o \in Orders |-> SoldOf(o, u)]' = [o \in Orders |-> SoldOf(o, u)]
      /\ [o \in Orders |-> LegacyDebitOf(o, u)]' = [o \in Orders |-> LegacyDebitOf(o, u)]
      /\ [o \in Orders |-> LegacyRefundOf(o, u)]' = [o \in Orders |-> LegacyRefundOf(o, u)]
  BY <1>1 DEF TakenOf, SoldOf, LegacyDebitOf, LegacyRefundOf
<1> QED
  BY <1>2, <1>3 DEF TakenFrom, Sold, LegacyDebited, LegacyRefunded,
       TakenOf, SoldOf, LegacyDebitOf, LegacyRefundOf

-----------------------------------------------------------------------------
(* What ads offer and orders take.                                         *)

\* The accounts of one ad.
Accounted(l) ==
    LET ad == listing[l] IN
    /\ ad.status \in {"ACTIVE", "FILLED"} => ad.remaining + TakenFrom(l) = ad.amount
    /\ ad.status = "CANCELLED" => ad.remaining + TakenFrom(l) <= ad.amount
    /\ ad.status # "NONE" => (ad.status = "FILLED" <=> ad.remaining = 0)

\* An ad that is not there has not been taken from.
LEMMA FreshAdUntaken ==
    ASSUME TypeOK, RowsAgree, NEW l \in Listings, listing[l].status = "NONE"
    PROVE  TakenFrom(l) = 0 /\ \A o \in Orders : order[o].listing # l
<1>1. ASSUME NEW o \in Orders PROVE order[o].listing # l
  <2>1. CASE order[o].status = "none"
    <3>1. order[o].listing = NoListing
      BY <2>1 DEF RowsAgree, OrderAgrees, FreeOrder
    <3> QED
      BY <3>1, MarketAssumption
  <2>2. CASE order[o].status # "none"
    BY <2>2 DEF RowsAgree, OrderAgrees, Agreed
  <2> QED
    BY <2>1, <2>2
<1>2. [o \in Orders |-> TakenOf(o, l)] = [o \in Orders |-> 0]
  BY <1>1 DEF TakenOf
<1>3. TakenFrom(l) = Total([o \in Orders |-> TakenOf(o, l)])
  BY DEF TakenFrom, TakenOf
<1> QED
  BY <1>1, <1>2, <1>3, TotalOfZeros

\* Every step keeps the accounts of every ad.
LEMMA StepAccounts ==
    ASSUME TypeOK, TypeOK', RowsAgree, [Next]_vars, NEW l \in Listings, Accounted(l)
    PROVE  Accounted(l)'
<1> DEFINE ad == listing[l]
<1>0. /\ listing \in [Listings -> ListingRow] /\ ad \in ListingRow
      /\ ad.remaining \in Nat /\ ad.amount \in Nat /\ TakenFrom(l) \in Nat
  BY StatementTypes DEF TypeOK, ListingRow
<1>1. ASSUME UNCHANGED listing, TakenFrom(l)' = TakenFrom(l) PROVE Accounted(l)'
  BY <1>1 DEF Accounted
<1>2. ASSUME UNCHANGED order PROVE TakenFrom(l)' = TakenFrom(l)
  BY <1>2, ColumnsStay
<1>3. CASE Aside \/ Funds
  <2>1. UNCHANGED <<listing, order>>
    BY <1>3 DEF Aside, Funds, FundWalletAsset
  <2> QED
    BY <1>1, <1>2, <2>1
<1>4. ASSUME NEW j \in Listings, Cancels(j) PROVE Accounted(l)'
  <2>1. UNCHANGED order /\ listing' = [listing EXCEPT ![j].status = "CANCELLED"]
        /\ listing[j].status = "ACTIVE"
    BY <1>4 DEF Cancels, CancelListing
  <2>2. TakenFrom(l)' = TakenFrom(l)
    BY <1>2, <2>1
  <2>3. CASE j = l
    <3>1. /\ listing'[l].status = "CANCELLED" /\ listing'[l].remaining = ad.remaining
          /\ listing'[l].amount = ad.amount
      BY <1>0, <2>1, <2>3 DEF ListingRow
    <3> QED
      BY <1>0, <2>1, <2>2, <2>3, <3>1 DEF Accounted
  <2>4. CASE j # l
    BY <1>0, <2>1, <2>2, <2>4 DEF Accounted
  <2> QED
    BY <2>3, <2>4
<1>5. ASSUME NEW j \in Listings, Posts(j) PROVE Accounted(l)'
  <2>0. PICK u \in Users, side \in Sides, amount \in Amounts, methods \in SUBSET Methods,
             n \in Names \cup {NoName}, price \in Prices :
           \E min \in Limits \cup {1}, max \in Limits \cup {Fiat(amount, price)} :
              CreateListing(u, j, side, amount, methods, n, price, min, max)
    BY <1>5 DEF Posts
  <2>1. /\ UNCHANGED order /\ listing[j].status = "NONE" /\ amount > 0
        /\ listing'[j].status = "ACTIVE" /\ listing'[j].remaining = amount
        /\ listing'[j].amount = amount
        /\ \A i \in Listings \ {j} : listing'[i] = listing[i]
    BY <1>0, <2>0 DEF CreateListing
  <2>2. TakenFrom(l)' = TakenFrom(l)
    BY <1>2, <2>1
  <2>3. CASE j = l
    <3>1. TakenFrom(l)' = 0 /\ amount \in Nat
      BY <2>1, <2>2, <2>3, FreshAdUntaken, MarketAssumption
    <3> QED
      BY <2>1, <2>3, <3>1 DEF Accounted
  <2>4. CASE j # l
    BY <2>1, <2>2, <2>4 DEF Accounted
  <2> QED
    BY <2>3, <2>4
<1>6. ASSUME NEW o \in Orders, NEW j \in Listings, Takes(j, o) PROVE Accounted(l)'
  <2>1. PICK t \in Users, amount \in Amounts, k \in Keys \cup {NoKey} :
           Opened(t, j, o, amount, k)
    BY <1>6, TakeOpens DEF Takes
  <2>2. TakenFrom(l)' = TakenFrom(l) - TakenOf(o, l) + TakenOf(o, l)'
    BY <2>1, ColumnsChange DEF Opened
  <2>3. TakenOf(o, l) = 0
    <3>1. order[o].listing = NoListing
      BY <2>1 DEF Opened, RowsAgree, OrderAgrees, FreeOrder
    <3> QED
      BY <3>1, MarketAssumption DEF TakenOf
  <2>4. TakenOf(o, l)' = (IF j = l THEN amount ELSE 0) /\ amount \in Nat /\ amount > 0
    BY <2>1, MarketAssumption DEF Opened, TakenOf
  <2>5. CASE j = l
    <3>1. /\ listing'[l].remaining = ad.remaining - amount /\ listing'[l].amount = ad.amount
          /\ listing'[l].status = (IF ad.remaining = amount THEN "FILLED" ELSE "ACTIVE")
          /\ ad.status = "ACTIVE" /\ amount <= ad.remaining
      BY <2>1, <2>5 DEF Opened, SameOffer
    <3>2. TakenFrom(l)' = TakenFrom(l) + amount
      BY <1>0, <2>2, <2>3, <2>4, <2>5
    <3>3. listing'[l].remaining + TakenFrom(l)' = ad.amount
      BY <1>0, <2>4, <3>1, <3>2 DEF Accounted
    <3> QED
      BY <1>0, <2>4, <3>1, <3>3 DEF Accounted
  <2>6. CASE j # l
    <3>1. listing'[l] = listing[l] /\ TakenFrom(l)' = TakenFrom(l)
      BY <1>0, <2>1, <2>2, <2>3, <2>4, <2>6 DEF Opened
    <3> QED
      BY <3>1 DEF Accounted
  <2> QED
    BY <2>5, <2>6
<1>7. ASSUME NEW o \in Orders, Touched(o) \/ Settles(o) PROVE Accounted(l)'
  <2>1. /\ \A p \in Orders \ {o} : order'[p] = order[p]
        /\ SameTerms(order[o], order'[o])
        /\ order[o].status \in OpenStatuses /\ order'[o].status \in OpenStatuses \cup {"completed"}
        /\ UNCHANGED listing
    BY <1>7 DEF Touched, Settles, Settle, Ended
  <2>2. TakenFrom(l)' = TakenFrom(l) - TakenOf(o, l) + TakenOf(o, l)'
    BY <2>1, ColumnsChange
  <2>3. TakenOf(o, l)' = TakenOf(o, l) /\ TakenOf(o, l) \in Nat
    BY <2>1, ColumnTypes DEF TakenOf, SameTerms, OpenStatuses
  <2> QED
    BY <1>0, <1>1, <2>1, <2>2, <2>3
<1>8. ASSUME NEW o \in Orders, Refunds(o) PROVE Accounted(l)'
  <2> DEFINE row == order[o]
             j   == row.listing
             amount == row.amount
  <2>1. /\ \A p \in Orders \ {o} : order'[p] = order[p]
        /\ SameTerms(row, order'[o])
        /\ row.status \in OpenStatuses /\ order'[o].status = "cancelled"
    BY <1>8 DEF Refunds, Ended
  <2>2. j \in Listings /\ Agreed(row, listing[j])
    BY <2>1 DEF RowsAgree, OrderAgrees, Agreed, OpenStatuses
  <2>3. GivesBack(o)
    BY <1>8, <2>2, RefundGivesBack
  <2>4. TakenFrom(l)' = TakenFrom(l) - TakenOf(o, l) + TakenOf(o, l)'
    BY <2>1, ColumnsChange
  <2>5. IsLegacyMain(o)' <=> IsLegacyMain(o)
    BY <2>1, LegacyStays DEF SameTerms, OpenStatuses
  <2>6. amount \in Nat /\ amount > 0
    BY <2>2 DEF Agreed, TypeOK, OrderRow
  <2>7. TakenOf(o, l) = (IF j = l THEN amount ELSE 0)
    BY <2>1 DEF TakenOf, OpenStatuses
  <2>8. TakenOf(o, l)' = (IF j = l /\ IsLegacyMain(o) THEN amount ELSE 0)
    BY <2>1, <2>5 DEF TakenOf, SameTerms
  <2>9. IsLegacyMain(o) <=> listing[j].source = "MAIN_WALLET_LEGACY"
    BY <2>1 DEF IsLegacyMain, OpenStatuses
  <2> HIDE DEF amount
  <2>10. CASE j # l
    <3>1. listing'[l] = listing[l]
      BY <2>3, <2>10 DEF GivesBack
    <3>2. TakenFrom(l)' = TakenFrom(l)
      BY <1>0, <2>4, <2>7, <2>8, <2>10
    <3> QED
      BY <3>1, <3>2 DEF Accounted
  <2>11. CASE j = l /\ IsLegacyMain(o)
    <3>1. ~Reopens(ad)
      BY <2>2, <2>9, <2>11 DEF Reopens, RowsAgree, AdAgrees, Agreed
    <3>2. listing' = listing
      BY <2>3, <2>11, <3>1 DEF GivesBack
    <3>3. TakenFrom(l)' = TakenFrom(l)
      BY <1>0, <2>4, <2>6, <2>7, <2>8, <2>11
    <3> QED
      BY <1>1, <3>2, <3>3
  <2>12. CASE j = l /\ ~IsLegacyMain(o)
    <3>1. TakenFrom(l)' = TakenFrom(l) - amount
      BY <1>0, <2>4, <2>6, <2>7, <2>8, <2>12
    <3>2. ad.source = "P2P_WALLET" /\ ad.status # "NONE"
      BY <1>0, <2>2, <2>9, <2>12 DEF ListingRow, Sources, Agreed
    <3>3. CASE ad.status = "CANCELLED"
      <4>1. listing' = listing
        BY <2>3, <2>12, <3>3 DEF GivesBack, Reopens
      <4> QED
        BY <1>0, <2>6, <3>1, <3>3, <4>1 DEF Accounted
    <3>4. CASE ad.status # "CANCELLED"
      <4>1. /\ listing'[l].remaining = ad.remaining + amount /\ listing'[l].amount = ad.amount
            /\ listing'[l].status = "ACTIVE"
        BY <2>3, <2>12, <3>2, <3>4 DEF GivesBack, Reopens, SameOffer, amount
      <4>2. ad.remaining + TakenFrom(l) = ad.amount
        BY <1>0, <3>2, <3>4 DEF Accounted, ListingRow
      <4>3. listing'[l].remaining + TakenFrom(l)' = listing'[l].amount
        BY <1>0, <2>6, <3>1, <4>1, <4>2
      <4>4. listing'[l].remaining # 0
        BY <1>0, <2>6, <4>1
      <4> QED
        BY <4>1, <4>3, <4>4 DEF Accounted
    <3> QED
      BY <3>3, <3>4
  <2> QED
    BY <2>10, <2>11, <2>12
<1> QED
  BY <1>3, <1>4, <1>5, <1>6, <1>7, <1>8, StepKinds

\* An ad never sells more than it offered, and it is FILLED exactly when
\* nothing remains of it, whatever orders, refunds and cancellations do.
THEOREM AdsAccounted == Spec => []AdAccounting
<1> DEFINE Inv == \A l \in Listings : Accounted(l)
<1>1. Init => Inv
  <2> SUFFICES ASSUME Init, NEW l \in Listings PROVE Accounted(l)
    OBVIOUS
  <2>1. TypeOK /\ RowsAgree
    BY InitTypeOK, InitRowsAgree
  <2>2. TakenFrom(l) = 0
    <3>1. \A o \in Orders : TakenOf(o, l) = 0
      BY MarketAssumption DEF Init, FreeOrder, TakenOf
    <3>2. [o \in Orders |-> TakenOf(o, l)] = [o \in Orders |-> 0]
      BY <3>1
    <3> QED
      BY <3>2, TotalOfZeros DEF TakenFrom, TakenOf
  <2>3. CASE \E a \in LegacyAds : a.listing = l
    <3> DEFINE a == CHOOSE a \in LegacyAds : a.listing = l
    <3>1. a \in LegacyAds /\ listing[l] = MigratedRow(a)
      BY <2>3 DEF Init
    <3>2. a.amount \in Nat \ {0}
      BY <3>1, MarketAssumption DEF LegacyAd
    <3> HIDE DEF a
    <3> QED
      BY <2>2, <3>1, <3>2 DEF MigratedRow, Accounted
  <2>4. CASE ~\E a \in LegacyAds : a.listing = l
    BY <2>2, <2>4 DEF Init, FreeListing, Accounted
  <2> QED
    BY <2>3, <2>4
<1>2. TypeOK /\ RowsAgree /\ Inv /\ [Next]_vars => Inv'
  BY StepAccounts, StepTypeOK
<1>3. Inv <=> AdAccounting
  BY DEF Accounted, AdAccounting
<1> HIDE DEF Inv
<1> QED
  BY <1>1, <1>2, <1>3, TypeCorrect, RowsAlwaysAgree, PTL DEF Spec

-----------------------------------------------------------------------------
(* The statements of the users.                                            *)

\* The statement of one user: the P2P wallet and the main wallet.
Balanced(u) ==
    /\ avail[u] + reserved[u] + Sold(u)
         = LegacyReserve(u, "P2P_WALLET") + Funded(u) + Bought(u) + LegacyRefunded(u)
    /\ main[u] + Funded(u) + LegacyDebited(u) = InitMain[u]

FeesBalanced == adminFees = EarnedFees

\* Funding entries add up to a natural number.
LEMMA FundedType ==
    ASSUME TypeOK, NEW u \in Users
    PROVE  Funded(u) \in Nat
<1>1. funding[u] \in [RequestIds -> Nat] /\ IsFiniteSet(RequestIds)
  BY MarketAssumption DEF TypeOK
<1> QED
  BY <1>1, TotalType DEF Funded

\* A funding request enters its amount once.
LEMMA FundEnters ==
    ASSUME TypeOK, NEW u \in Users, NEW amount \in Amounts, NEW k \in RequestIds,
           FundWalletAsset(u, amount, k)
    PROVE  /\ Funded(u)' = Funded(u) + amount
           /\ \A v \in Users \ {u} : Funded(v)' = Funded(v)
<1>1. amount \in Nat /\ IsFiniteSet(RequestIds)
  BY MarketAssumption
<1>2. /\ funding \in [Users -> [RequestIds -> Nat]]
      /\ funding' = [funding EXCEPT ![u] = [funding[u] EXCEPT ![k] = amount]]
      /\ funding[u][k] = 0
  BY DEF TypeOK, FundWalletAsset, Unfunded
<1> DEFINE f == funding[u]
<1>3. f \in [RequestIds -> Nat] /\ f[k] = 0
  BY <1>2
<1>4. funding'[u] = [f EXCEPT ![k] = amount] /\ \A v \in Users \ {u} : funding'[v] = funding[v]
  BY <1>2
<1>5. Total(f) \in Nat
  BY <1>1, <1>3, TotalType
<1> HIDE DEF f
<1>6. Total([f EXCEPT ![k] = amount]) = Total(f) - f[k] + amount
  BY <1>1, <1>3, TotalUpdate
<1> QED
  BY <1>1, <1>3, <1>4, <1>5, <1>6 DEF Funded, f

\* A step that leaves the orders and the user's wallets as they were.
LEMMA BalancedStays ==
    ASSUME TypeOK, RowsAgree, [Next]_vars, UNCHANGED <<order, funding>>, NEW u \in Users,
           Balanced(u), main'[u] = main[u],
           avail'[u] + reserved'[u] = avail[u] + reserved[u]
    PROVE  Balanced(u)'
<1>1. /\ Sold(u)' = Sold(u) /\ Bought(u)' = Bought(u)
      /\ LegacyDebited(u)' = LegacyDebited(u) /\ LegacyRefunded(u)' = LegacyRefunded(u)
  BY ColumnsStay
<1>2. Funded(u)' = Funded(u)
  BY DEF Funded
<1> QED
  BY <1>1, <1>2 DEF Balanced

\* Cancelling or posting an ad moves money within its owner's P2P wallet.
LEMMA AdsKeepWallets ==
    ASSUME TypeOK, NEW l \in Listings, Cancels(l) \/ Posts(l), NEW v \in Users
    PROVE  /\ main'[v] = main[v] /\ avail'[v] + reserved'[v] = avail[v] + reserved[v]
           /\ UNCHANGED <<order, funding, adminFees>>
<1>0. /\ main[v] \in Nat /\ avail[v] \in Nat /\ reserved[v] \in Nat
      /\ avail \in [Users -> Nat] /\ reserved \in [Users -> Nat]
  BY DEF TypeOK
<1>1. CASE Cancels(l)
  <2> DEFINE n == Unsold(listing[l])
             w == listing[l].creator
  <2>1. n \in Nat
    BY FeeType DEF TypeOK, ListingRow, Unsold, SellerDebit
  <2>2. /\ UNCHANGED <<main, adminFees, order, funding>>
        /\ \/ UNCHANGED <<avail, reserved>>
           \/ /\ reserved' = [reserved EXCEPT ![w] = @ - n]
              /\ avail' = [avail EXCEPT ![w] = @ + n]
    BY <1>1 DEF Cancels, CancelListing, wallets
  <2> HIDE DEF n, w
  <2> QED
    BY <1>0, <2>1, <2>2
<1>2. CASE Posts(l)
  <2>1. PICK w \in Users, side \in Sides, amount \in Amounts, methods \in SUBSET Methods,
             name \in Names \cup {NoName}, price \in Prices :
           \E min \in Limits \cup {1}, max \in Limits \cup {Fiat(amount, price)} :
              CreateListing(w, l, side, amount, methods, name, price, min, max)
    BY <1>2 DEF Posts
  <2> DEFINE n == SellerDebit("BIUSD_1PCT_EACH", amount)
  <2>2. n \in Nat
    BY FeeType, MarketAssumption DEF SellerDebit
  <2>3. /\ UNCHANGED <<main, adminFees, order, funding>>
        /\ \/ UNCHANGED <<avail, reserved>>
           \/ /\ avail' = [avail EXCEPT ![w] = @ - n]
              /\ reserved' = [reserved EXCEPT ![w] = @ + n]
    BY <2>1 DEF CreateListing
  <2> HIDE DEF n
  <2> QED
    BY <1>0, <2>2, <2>3
<1> QED
  BY <1>1, <1>2

\* Every step keeps every statement.
LEMMA StepBalances ==
    ASSUME TypeOK, TypeOK', RowsAgree, EscrowMatchesStatus, [Next]_vars, NEW u \in Users,
           Balanced(u)
    PROVE  Balanced(u)'
<1>0. /\ main[u] \in Nat /\ avail[u] \in Nat /\ reserved[u] \in Nat
      /\ main \in [Users -> Nat] /\ avail \in [Users -> Nat] /\ reserved \in [Users -> Nat]
      /\ Sold(u) \in Nat /\ Bought(u) \in Nat /\ LegacyDebited(u) \in Nat
      /\ LegacyRefunded(u) \in Nat /\ Funded(u) \in Nat
      /\ LegacyReserve(u, "P2P_WALLET") \in Nat /\ InitMain[u] \in Nat
  BY StatementTypes, FundedType, LegacyReserveType, MarketAssumption DEF TypeOK
<1>1. CASE Aside
  BY <1>1, BalancedStays DEF Aside, wallets
<1>2. ASSUME NEW l \in Listings, Cancels(l) \/ Posts(l) PROVE Balanced(u)'
  BY <1>2, AdsKeepWallets, BalancedStays
<1>3. CASE Funds
  <2> PICK w \in Users, amount \in Amounts, k \in RequestIds : FundWalletAsset(w, amount, k)
    BY <1>3 DEF Funds
  <2>1. /\ UNCHANGED <<order, reserved>> /\ main' = [main EXCEPT ![w] = @ - amount]
        /\ avail' = [avail EXCEPT ![w] = @ + amount] /\ amount \in Nat
    BY MarketAssumption DEF FundWalletAsset
  <2>2. /\ Sold(u)' = Sold(u) /\ Bought(u)' = Bought(u)
        /\ LegacyDebited(u)' = LegacyDebited(u) /\ LegacyRefunded(u)' = LegacyRefunded(u)
    BY <2>1, ColumnsStay
  <2>3. Funded(u)' = IF u = w THEN Funded(u) + amount ELSE Funded(u)
    BY FundEnters
  <2> QED
    BY <1>0, <2>1, <2>2, <2>3 DEF Balanced
<1>4. ASSUME NEW o \in Orders, NEW l \in Listings, Takes(l, o) PROVE Balanced(u)'
  <2>1. PICK t \in Users, amount \in Amounts, k \in Keys \cup {NoKey} :
           Opened(t, l, o, amount, k)
    BY <1>4, TakeOpens DEF Takes
  <2> DEFINE new == order'[o]
             s == new.seller
             c == new.debit
             legacy == listing[l].source = "MAIN_WALLET_LEGACY"
  <2>2. /\ Sold(u)' = Sold(u) - SoldOf(o, u) + SoldOf(o, u)'
        /\ Bought(u)' = Bought(u) - BoughtOf(o, u) + BoughtOf(o, u)'
        /\ LegacyDebited(u)' = LegacyDebited(u) - LegacyDebitOf(o, u) + LegacyDebitOf(o, u)'
        /\ LegacyRefunded(u)'
             = LegacyRefunded(u) - LegacyRefundOf(o, u) + LegacyRefundOf(o, u)'
    BY <2>1, ColumnsChange DEF Opened
  <2>3. /\ SoldOf(o, u) = 0 /\ BoughtOf(o, u) = 0 /\ LegacyDebitOf(o, u) = 0
        /\ LegacyRefundOf(o, u) = 0
    BY <2>1 DEF Opened, SoldOf, BoughtOf, LegacyDebitOf, LegacyRefundOf, IsLegacyMain,
                OpenStatuses
  <2>4. IsLegacyMain(o)' <=> legacy
    BY <2>1 DEF Opened, SameOffer, IsLegacyMain
  <2>5. /\ SoldOf(o, u)' = (IF s = u /\ ~legacy THEN c ELSE 0)
        /\ LegacyDebitOf(o, u)' = (IF s = u /\ legacy THEN c ELSE 0)
        /\ BoughtOf(o, u)' = 0 /\ LegacyRefundOf(o, u)' = 0
    BY <2>1, <2>4 DEF Opened, SoldOf, BoughtOf, LegacyDebitOf, LegacyRefundOf, OpenStatuses
  <2>6. s \in Users /\ c \in Nat
    BY <2>1, TakePays
  <2>7. \/ /\ UNCHANGED <<main, reserved>> /\ avail' = [avail EXCEPT ![s] = @ - c] /\ ~legacy
        \/ /\ UNCHANGED <<main, avail>> /\ reserved' = [reserved EXCEPT ![s] = @ - c] /\ ~legacy
        \/ /\ UNCHANGED <<avail, reserved>> /\ main' = [main EXCEPT ![s] = @ - c] /\ legacy
    <3>1. listing[l].side = "BUY" => ~legacy
      BY <2>1 DEF Opened, RowsAgree, AdAgrees
    <3> QED
      BY <2>1, <3>1, TakePays
  <2>8. Funded(u)' = Funded(u)
    BY <2>1 DEF Opened, Funded
  <2> HIDE DEF s, c, legacy, new
  <2>9. CASE s = u
    <3>1. CASE legacy
      <4>1. main'[u] = main[u] - c /\ avail'[u] = avail[u] /\ reserved'[u] = reserved[u]
        BY <1>0, <2>6, <2>7, <2>9, <3>1
      <4>2. LegacyDebited(u)' = LegacyDebited(u) + c /\ Sold(u)' = Sold(u)
            /\ Bought(u)' = Bought(u) /\ LegacyRefunded(u)' = LegacyRefunded(u)
        BY <1>0, <2>2, <2>3, <2>5, <2>6, <2>9, <3>1
      <4> QED
        BY <1>0, <2>6, <2>8, <4>1, <4>2 DEF Balanced
    <3>2. CASE ~legacy
      <4>1. main'[u] = main[u] /\ avail'[u] + reserved'[u] = avail[u] + reserved[u] - c
        BY <1>0, <2>6, <2>7, <2>9, <3>2
      <4>2. LegacyDebited(u)' = LegacyDebited(u) /\ Sold(u)' = Sold(u) + c
            /\ Bought(u)' = Bought(u) /\ LegacyRefunded(u)' = LegacyRefunded(u)
        BY <1>0, <2>2, <2>3, <2>5, <2>6, <2>9, <3>2
      <4>3. avail'[u] \in Nat /\ reserved'[u] \in Nat
        BY DEF TypeOK
      <4> QED
        BY <1>0, <2>6, <2>8, <4>1, <4>2, <4>3 DEF Balanced
    <3> QED
      BY <3>1, <3>2
  <2>10. CASE s # u
    <3>1. main'[u] = main[u] /\ avail'[u] = avail[u] /\ reserved'[u] = reserved[u]
      BY <1>0, <2>6, <2>7, <2>10
    <3>2. LegacyDebited(u)' = LegacyDebited(u) /\ Sold(u)' = Sold(u)
          /\ Bought(u)' = Bought(u) /\ LegacyRefunded(u)' = LegacyRefunded(u)
      BY <1>0, <2>2, <2>3, <2>5, <2>10
    <3> QED
      BY <2>8, <3>1, <3>2 DEF Balanced
  <2> QED
    BY <2>9, <2>10
<1>5. ASSUME NEW o \in Orders, Touched(o) \/ Refunds(o) \/ Settles(o) PROVE Balanced(u)'
  <2> DEFINE row == order[o]
             s == row.seller
             b == row.buyer
             c == row.debit
             g == row.credit
             legacy == IsLegacyMain(o)
  <2>1. /\ \A p \in Orders \ {o} : order'[p] = order[p]
        /\ SameTerms(row, order'[o]) /\ row.status \in OpenStatuses
        /\ order'[o].status \in OpenStatuses \cup FinalStatuses
    BY <1>5 DEF Touched, Refunds, Settles, Ended, FinalStatuses
  <2>2. /\ Sold(u)' = Sold(u) - SoldOf(o, u) + SoldOf(o, u)'
        /\ Bought(u)' = Bought(u) - BoughtOf(o, u) + BoughtOf(o, u)'
        /\ LegacyDebited(u)' = LegacyDebited(u) - LegacyDebitOf(o, u) + LegacyDebitOf(o, u)'
        /\ LegacyRefunded(u)'
             = LegacyRefunded(u) - LegacyRefundOf(o, u) + LegacyRefundOf(o, u)'
    BY <2>1, ColumnsChange
  <2>3. IsLegacyMain(o)' <=> legacy
    BY <2>1, LegacyStays DEF SameTerms, OpenStatuses, FinalStatuses
  <2>4. /\ SoldOf(o, u) = (IF s = u /\ ~legacy THEN c ELSE 0) /\ BoughtOf(o, u) = 0
        /\ LegacyDebitOf(o, u) = (IF s = u /\ legacy THEN c ELSE 0) /\ LegacyRefundOf(o, u) = 0
    BY <2>1 DEF SoldOf, BoughtOf, LegacyDebitOf, LegacyRefundOf, OpenStatuses
  <2>5. /\ LegacyDebitOf(o, u)' = (IF s = u /\ legacy THEN c ELSE 0)
        /\ SoldOf(o, u)' = (IF s = u /\ ~legacy /\ order'[o].status # "cancelled" THEN c ELSE 0)
        /\ BoughtOf(o, u)' = (IF b = u /\ order'[o].status = "completed" THEN g ELSE 0)
        /\ LegacyRefundOf(o, u)'
             = (IF s = u /\ legacy /\ order'[o].status = "cancelled" THEN c ELSE 0)
    BY <2>1, <2>3 DEF SoldOf, BoughtOf, LegacyDebitOf, LegacyRefundOf, SameTerms,
                      OpenStatuses, FinalStatuses
  <2>6. s \in Users /\ b \in Users /\ c \in Nat /\ g \in Nat /\ row.escrow = c
    <3>1. s \in Users /\ b \in Users
      BY <2>1 DEF RowsAgree, OrderAgrees, Agreed, OpenStatuses
    <3>2. c \in Nat /\ g \in Nat
      BY DEF TypeOK, OrderRow
    <3>3. row.escrow = c
      BY <2>1 DEF EscrowMatchesStatus
    <3> QED
      BY <3>1, <3>2, <3>3
  <2>7. Funded(u)' = Funded(u)
    BY <1>5 DEF Touched, Refunds, Refund, Settles, Settle, wallets, Funded
  <2>8. LegacyDebited(u)' = LegacyDebited(u)
    <3> HIDE DEF s, c, legacy
    <3> QED
      BY <1>0, <2>2, <2>4, <2>5, <2>6
  <2>9. CASE Touched(o)
    <3>1. UNCHANGED <<main, avail, reserved>> /\ order'[o].status \in OpenStatuses
      BY <2>9 DEF Touched, wallets
    <3>2. order'[o].status # "cancelled" /\ order'[o].status # "completed"
      BY <3>1 DEF OpenStatuses
    <3> HIDE DEF s, b, c, g, legacy
    <3>3. Sold(u)' = Sold(u) /\ Bought(u)' = Bought(u) /\ LegacyRefunded(u)' = LegacyRefunded(u)
      BY <1>0, <2>2, <2>4, <2>5, <2>6, <3>2
    <3> QED
      BY <2>7, <2>8, <3>1, <3>3 DEF Balanced
  <2>10. CASE Settles(o)
    <3>1. /\ UNCHANGED <<main, reserved>> /\ order'[o].status = "completed"
          /\ avail' = [avail EXCEPT ![b] = @ + g]
      BY <2>10 DEF Settles, Settle, Ended
    <3> HIDE DEF s, b, c, g, legacy
    <3>2. /\ Sold(u)' = Sold(u) /\ LegacyRefunded(u)' = LegacyRefunded(u)
          /\ Bought(u)' = Bought(u) + (IF b = u THEN g ELSE 0)
      BY <1>0, <2>2, <2>4, <2>5, <2>6, <3>1
    <3>3. avail'[u] = avail[u] + (IF b = u THEN g ELSE 0)
      BY <1>0, <2>6, <3>1
    <3> QED
      BY <1>0, <2>6, <2>7, <2>8, <3>1, <3>2, <3>3 DEF Balanced
  <2>11. CASE Refunds(o)
    <3>1. /\ UNCHANGED main /\ order'[o].status = "cancelled"
          /\ \/ UNCHANGED avail /\ reserved' = [reserved EXCEPT ![s] = @ + c]
             \/ UNCHANGED reserved /\ avail' = [avail EXCEPT ![s] = @ + c]
      BY <2>6, <2>11 DEF Refunds, Refund, Ended
    <3> HIDE DEF s, b, c, g, legacy
    <3>2. Bought(u)' = Bought(u)
      BY <1>0, <2>2, <2>4, <2>5, <2>6, <3>1
    <3>3. CASE s # u
      <4>1. Sold(u)' = Sold(u) /\ LegacyRefunded(u)' = LegacyRefunded(u)
        BY <1>0, <2>2, <2>4, <2>5, <2>6, <3>3
      <4>2. avail'[u] = avail[u] /\ reserved'[u] = reserved[u]
        BY <1>0, <2>6, <3>1, <3>3
      <4> QED
        BY <2>7, <2>8, <3>1, <3>2, <4>1, <4>2 DEF Balanced
    <3>4. CASE s = u
      <4>1. avail'[u] + reserved'[u] = avail[u] + reserved[u] + c
        BY <1>0, <2>6, <3>1, <3>4
      <4>2. \/ Sold(u)' = Sold(u) - c /\ LegacyRefunded(u)' = LegacyRefunded(u)
            \/ Sold(u)' = Sold(u) /\ LegacyRefunded(u)' = LegacyRefunded(u) + c
        BY <1>0, <2>2, <2>4, <2>5, <2>6, <3>1, <3>4
      <4>3. avail'[u] \in Nat /\ reserved'[u] \in Nat
        BY DEF TypeOK
      <4> QED
        BY <1>0, <2>6, <2>7, <2>8, <3>1, <3>2, <4>1, <4>2, <4>3 DEF Balanced
    <3> QED
      BY <3>3, <3>4
  <2> QED
    BY <1>5, <2>9, <2>10, <2>11
<1> QED
  BY <1>1, <1>2, <1>3, <1>4, <1>5, StepKinds

\* Every step keeps the fee wallet.
LEMMA StepFees ==
    ASSUME TypeOK, TypeOK', RowsAgree, [Next]_vars, FeesBalanced
    PROVE  FeesBalanced'
<1>0. EarnedFees \in Nat /\ adminFees \in Nat
  BY StatementTypes DEF TypeOK
<1>1. CASE Aside \/ Funds \/ \E l \in Listings : Cancels(l) \/ Posts(l)
  <2>1. UNCHANGED <<order, adminFees>>
    BY <1>1 DEF Aside, wallets, Funds, FundWalletAsset, Cancels, CancelListing, Posts,
                CreateListing
  <2>2. EarnedFees' = EarnedFees
    BY <2>1 DEF EarnedFees, FeesOf
  <2> QED
    BY <2>1, <2>2 DEF FeesBalanced
<1>2. ASSUME NEW o \in Orders, \A p \in Orders \ {o} : order'[p] = order[p]
      PROVE  EarnedFees' = EarnedFees - FeesOf(o) + FeesOf(o)'
  BY <1>2, ColumnsChange
<1>3. ASSUME NEW o \in Orders, NEW l \in Listings, Takes(l, o) PROVE FeesBalanced'
  <2>1. /\ \A p \in Orders \ {o} : order'[p] = order[p]
        /\ order[o].status = "none" /\ order'[o].status = "pending_payment"
        /\ UNCHANGED adminFees
    BY <1>3, TakeOpens DEF Takes, Opened
  <2>2. FeesOf(o) = 0 /\ FeesOf(o)' = 0
    BY <2>1 DEF FeesOf
  <2> QED
    BY <1>0, <1>2, <2>1, <2>2 DEF FeesBalanced
<1>4. ASSUME NEW o \in Orders, Touched(o) \/ Refunds(o) PROVE FeesBalanced'
  <2>1. /\ \A p \in Orders \ {o} : order'[p] = order[p]
        /\ order[o].status # "completed" /\ order'[o].status # "completed"
        /\ UNCHANGED adminFees
    BY <1>4 DEF Touched, Refunds, Refund, Ended, OpenStatuses, wallets
  <2>2. FeesOf(o) = 0 /\ FeesOf(o)' = 0
    BY <2>1 DEF FeesOf
  <2> QED
    BY <1>0, <1>2, <2>1, <2>2 DEF FeesBalanced
<1>5. ASSUME NEW o \in Orders, Settles(o) PROVE FeesBalanced'
  <2>1. /\ \A p \in Orders \ {o} : order'[p] = order[p]
        /\ order[o].status # "completed" /\ order'[o].status = "completed"
        /\ order'[o].fee = order[o].fee /\ adminFees' = adminFees + 2 * order[o].fee
    BY <1>5 DEF Settles, Settle, Ended, SameTerms, OpenStatuses
  <2>2. order[o].fee \in Nat
    BY DEF TypeOK, OrderRow
  <2>3. FeesOf(o) = 0 /\ FeesOf(o)' = 2 * order[o].fee
    BY <2>1 DEF FeesOf
  <2> QED
    BY <1>0, <1>2, <2>1, <2>2, <2>3 DEF FeesBalanced
<1> QED
  BY <1>1, <1>3, <1>4, <1>5, StepKinds

\* Every user's two wallets hold exactly what his funding entries and orders
\* say, and the fee wallet the fees of the completed orders: no interleaving of
\* retries, sweeps, appeals and cancelled ads credits or debits anybody twice.
THEOREM StatementsAlwaysBalance == Spec => []StatementsBalance
<1> DEFINE Inv == FeesBalanced /\ \A u \in Users : Balanced(u)
<1>1. Init => Inv
  <2> SUFFICES ASSUME Init PROVE Inv
    OBVIOUS
  <2>0. \A o \in Orders : order[o] = FreeOrder
    BY DEF Init
  <2>1. ASSUME NEW u \in Users
        PROVE  /\ Sold(u) = 0 /\ Bought(u) = 0 /\ LegacyDebited(u) = 0
               /\ LegacyRefunded(u) = 0 /\ Funded(u) = 0
    <3>1. /\ [o \in Orders |-> SoldOf(o, u)] = [o \in Orders |-> 0]
          /\ [o \in Orders |-> BoughtOf(o, u)] = [o \in Orders |-> 0]
          /\ [o \in Orders |-> LegacyDebitOf(o, u)] = [o \in Orders |-> 0]
          /\ [o \in Orders |-> LegacyRefundOf(o, u)] = [o \in Orders |-> 0]
      BY <2>0 DEF FreeOrder, SoldOf, BoughtOf, LegacyDebitOf, LegacyRefundOf, IsLegacyMain,
                  OpenStatuses
    <3>2. funding[u] = [k \in RequestIds |-> 0]
      BY DEF Init
    <3> QED
      BY <3>1, <3>2, TotalOfZeros
         DEF Sold, Bought, LegacyDebited, LegacyRefunded, Funded,
             SoldOf, BoughtOf, LegacyDebitOf, LegacyRefundOf
  <2>2. EarnedFees = 0
    <3>1. [o \in Orders |-> FeesOf(o)] = [o \in Orders |-> 0]
      BY <2>0 DEF FreeOrder, FeesOf
    <3> QED
      BY <3>1, TotalOfZeros DEF EarnedFees
  <2>3. ASSUME NEW u \in Users PROVE Balanced(u)
    <3>1. /\ avail[u] = 0 /\ reserved[u] = LegacyReserve(u, "P2P_WALLET")
          /\ main[u] = InitMain[u]
      BY DEF Init
    <3>2. LegacyReserve(u, "P2P_WALLET") \in Nat /\ InitMain[u] \in Nat
      BY LegacyReserveType, MarketAssumption
    <3> QED
      BY <2>1, <3>1, <3>2 DEF Balanced
  <2>4. FeesBalanced
    BY <2>2 DEF Init, FeesBalanced
  <2> QED
    BY <2>3, <2>4
<1>2. TypeOK /\ RowsAgree /\ EscrowMatchesStatus /\ Inv /\ [Next]_vars => Inv'
  BY StepTypeOK, StepBalances, StepFees
<1>3. Inv <=> StatementsBalance
  BY DEF Balanced, FeesBalanced, EarnedFees, FeesOf, StatementsBalance
<1> HIDE DEF Inv
<1> QED
  BY <1>1, <1>2, <1>3, TypeCorrect, RowsAlwaysAgree, EscrowCorrect, PTL DEF Spec

-----------------------------------------------------------------------------
(* The reservation behind a seller's ads.                                  *)

\* u's SELL ads on P2P wallet funds that are not cancelled.
OpenAd(u, l) ==
    /\ listing[l].status \in {"ACTIVE", "FILLED"} /\ listing[l].side = "SELL"
    /\ listing[l].source = "P2P_WALLET" /\ listing[l].creator = u

\* The orders that hold or have sold a part of an ad, and what they took of
\* the reservation.
Live(l) == {o \in Orders : order[o].listing = l /\ order[o].status # "cancelled"}
DebitOf(o, l) == IF o \in Live(l) THEN order[o].debit ELSE 0
DebitsOn(l) == Total([o \in Orders |-> DebitOf(o, l)])

\* The part of u's reserved balance that belongs to an open ad: what posting
\* it reserved, without the debits of its orders.
ShareOf(u, l) ==
    IF OpenAd(u, l)
    THEN SellerDebit(listing[l].feeModel, listing[l].amount) - DebitsOn(l)
    ELSE 0
Shares(u) == Total([l \in Listings |-> ShareOf(u, l)])

\* Orders of u's SELL ads on P2P wallet funds that have been cancelled since.
Stranded(u) ==
    {o \in Orders :
        /\ order[o].status # "none" /\ order[o].seller = u /\ ~IsLegacyMain(o)
        /\ listing[order[o].listing].side = "SELL"
        /\ listing[order[o].listing].status = "CANCELLED"}

\* The reserved balance is the shares of the open ads, and at most one raw
\* unit more for each order of a cancelled ad.
ReserveBacked(u) ==
    /\ Shares(u) <= reserved[u]
    /\ reserved[u] <= Shares(u) + Cardinality(Stranded(u))

\* What the share of one ad is worth: the debit of what remains, and at most
\* one raw unit more for each of its orders.
ShareBound(u, l) ==
    LET rest == SellerDebit(listing[l].feeModel, listing[l].remaining) IN
    /\ ShareOf(u, l) \in Nat
    /\ OpenAd(u, l) => /\ rest <= ShareOf(u, l)
                       /\ ShareOf(u, l) <= rest + Cardinality(Live(l))

\* The fees of any number of parts, each rounded down, and of a rest fall short
\* of the fee of the whole by at most one raw unit a part.
LEMMA FeesOfParts ==
    ASSUME NEW S, IsFiniteSet(S), NEW model, NEW a \in [S -> Nat], NEW rest \in Nat,
           NEW L \in SUBSET S, \A s \in S \ L : a[s] = 0
    PROVE  LET fees == Total([s \in S |-> FeeOf(model, a[s])]) + FeeOf(model, rest)
               whole == FeeOf(model, rest + Total(a))
           IN  fees <= whole /\ whole <= fees + Cardinality(L)
<1> DEFINE A(U) == [s \in S |-> IF s \in U THEN a[s] ELSE 0]
           F(U) == [s \in S |-> IF s \in U THEN FeeOf(model, a[s]) ELSE 0]
           fees(U) == Total(F(U)) + FeeOf(model, rest)
           whole(U) == FeeOf(model, rest + Total(A(U)))
           G == {U \in SUBSET S : /\ fees(U) <= whole(U)
                                  /\ whole(U) <= fees(U) + Cardinality(L \cap U)}
<1>0. ASSUME NEW U \in SUBSET S
      PROVE  /\ A(U) \in [S -> Nat] /\ F(U) \in [S -> Nat]
             /\ Total(A(U)) \in Nat /\ Total(F(U)) \in Nat /\ Cardinality(L \cap U) \in Nat
             /\ IsFiniteSet(L \cap U)
  <2>1. A(U) \in [S -> Nat] /\ F(U) \in [S -> Nat]
    BY FeeType
  <2>2. Total(A(U)) \in Nat /\ Total(F(U)) \in Nat
    BY <2>1, TotalType
  <2>3. IsFiniteSet(L \cap U)
    BY FS_Subset
  <2> QED
    BY <2>1, <2>2, <2>3, FS_CardinalityType
<1>1. {} \in G
  <2>1. A({}) = [s \in S |-> 0] /\ F({}) = [s \in S |-> 0] /\ L \cap {} = {}
    OBVIOUS
  <2>2. Total(A({})) = 0 /\ Total(F({})) = 0 /\ Cardinality(L \cap {}) = 0
    BY <2>1, TotalOfZeros, FS_EmptySet
  <2>3. FeeOf(model, rest) \in Nat
    BY FeeType
  <2>4. whole({}) = FeeOf(model, rest) /\ fees({}) = FeeOf(model, rest)
    BY <2>2, <2>3
  <2> QED
    BY <2>2, <2>3, <2>4
<1>2. ASSUME NEW U \in SUBSET S, NEW x \in U, U \ {x} \in G PROVE U \in G
  <2> DEFINE V == U \ {x}
  <2>1. /\ V \in SUBSET S /\ x \in S /\ fees(V) <= whole(V)
        /\ whole(V) <= fees(V) + Cardinality(L \cap V)
    BY <1>2
  <2>2. /\ A(V)[x] = 0 /\ A(U)[x] = a[x] /\ F(V)[x] = 0 /\ F(U)[x] = FeeOf(model, a[x])
        /\ \A s \in S \ {x} : A(U)[s] = A(V)[s] /\ F(U)[s] = F(V)[s]
    OBVIOUS
  <2>3. A(U) \in [S -> Nat] /\ A(V) \in [S -> Nat] /\ F(U) \in [S -> Nat] /\ F(V) \in [S -> Nat]
    BY <1>0, <2>1
  <2>4. Total(A(U)) = Total(A(V)) - A(V)[x] + A(U)[x]
    BY <2>1, <2>2, <2>3, TotalChange
  <2>5. Total(F(U)) = Total(F(V)) - F(V)[x] + F(U)[x]
    BY <2>1, <2>2, <2>3, TotalChange
  <2>6. Total(A(V)) \in Nat /\ Total(F(V)) \in Nat /\ Cardinality(L \cap V) \in Nat
        /\ IsFiniteSet(L \cap V)
    BY <1>0, <2>1
  <2>7. a[x] \in Nat /\ FeeOf(model, a[x]) \in Nat /\ FeeOf(model, rest) \in Nat
    BY FeeType
  <2>8. Cardinality(L \cap U) = Cardinality(L \cap V) + (IF x \in L THEN 1 ELSE 0)
    <3>1. CASE x \in L
      <4>1. L \cap U = (L \cap V) \cup {x} /\ x \notin L \cap V
        BY <3>1
      <4> QED
        BY <2>6, <3>1, <4>1, FS_AddElement
    <3>2. CASE x \notin L
      <4>1. L \cap U = L \cap V
        BY <3>2
      <4> QED
        BY <2>6, <3>2, <4>1
    <3> QED
      BY <3>1, <3>2
  <2> DEFINE TA == Total(A(V))
             TF == Total(F(V))
             n  == Cardinality(L \cap V)
  <2>9. /\ Total(A(U)) = TA + a[x] /\ Total(F(U)) = TF + FeeOf(model, a[x])
    BY <2>2, <2>4, <2>5, <2>6, <2>7
  <2>10. /\ FeeOf(model, rest + TA) + FeeOf(model, a[x]) <= FeeOf(model, (rest + TA) + a[x])
         /\ FeeOf(model, (rest + TA) + a[x])
              <= FeeOf(model, rest + TA) + FeeOf(model, a[x]) + 1
    <3>1. rest + TA \in Nat
      BY <2>6
    <3> QED
      BY <2>7, <3>1, FeeSplit
  <2>11. rest + Total(A(U)) = (rest + TA) + a[x]
    BY <2>6, <2>7, <2>9
  <2>12. FeeOf(model, rest + TA) \in Nat /\ FeeOf(model, (rest + TA) + a[x]) \in Nat
    BY <2>6, <2>7, FeeType
  <2>13. /\ TF + FeeOf(model, rest) <= FeeOf(model, rest + TA)
         /\ FeeOf(model, rest + TA) <= TF + FeeOf(model, rest) + n
    BY <2>1
  <2>14. a[x] = 0 => FeeOf(model, (rest + TA) + a[x]) = FeeOf(model, rest + TA)
    BY <2>6
  <2>15. x \notin L => a[x] = 0
    BY <2>1
  <2>16. fees(U) = TF + FeeOf(model, a[x]) + FeeOf(model, rest)
         /\ whole(U) = FeeOf(model, (rest + TA) + a[x])
    BY <2>9, <2>11
  <2>17. fees(U) <= whole(U) /\ whole(U) <= fees(U) + Cardinality(L \cap U)
    <3> HIDE DEF TA, TF, n, fees, whole
    <3>1. Cardinality(L \cap U) = n + (IF x \in L THEN 1 ELSE 0) /\ n \in Nat /\ TF \in Nat
      BY <2>6, <2>8 DEF n, TF
    <3>2. CASE x \in L
      BY <2>7, <2>10, <2>12, <2>13, <2>16, <3>1, <3>2
    <3>3. CASE x \notin L
      BY <2>7, <2>10, <2>12, <2>13, <2>14, <2>15, <2>16, <3>1, <3>3
    <3> QED
      BY <3>2, <3>3
  <2> QED
    BY <2>17
<1>3. S \in G
  <2> HIDE DEF G
  <2> QED
    BY <1>1, <1>2, SubsetInduction
<1>4. A(S) = a /\ F(S) = [s \in S |-> FeeOf(model, a[s])] /\ L \cap S = L
  OBVIOUS
<1> QED
  BY <1>3, <1>4

\* What one order draws is a natural number.
LEMMA DebitOfType ==
    ASSUME TypeOK, NEW o \in Orders, NEW l
    PROVE  DebitOf(o, l) \in Nat
<1>1. order[o].debit \in Nat
  BY DEF TypeOK, OrderRow
<1> QED
  BY <1>1 DEF DebitOf

\* The orders of an open ad have drawn what they took and their fees.
LEMMA OpenAdDraws ==
    ASSUME TypeOK, RowsAgree, NEW u, NEW l \in Listings, OpenAd(u, l)
    PROVE  /\ \A o \in Orders :
                 /\ DebitOf(o, l) = TakenOf(o, l) + FeeOf(listing[l].feeModel, TakenOf(o, l))
                 /\ o \notin Live(l) => TakenOf(o, l) = 0
           /\ DebitsOn(l) = TakenFrom(l)
                + Total([o \in Orders |-> FeeOf(listing[l].feeModel, TakenOf(o, l))])
<1> DEFINE model == listing[l].feeModel
           a == [o \in Orders |-> TakenOf(o, l)]
           f == [o \in Orders |-> FeeOf(model, TakenOf(o, l))]
<1>1. FeeOf(model, 0) = 0
  BY SettlementAssumption DEF FeeOf
<1>2. ASSUME NEW o \in Orders
      PROVE  /\ DebitOf(o, l) = TakenOf(o, l) + FeeOf(model, TakenOf(o, l))
             /\ o \notin Live(l) => TakenOf(o, l) = 0
  <2>1. CASE o \in Live(l)
    <3>1. order[o].listing = l /\ order[o].status # "cancelled"
      BY <2>1 DEF Live
    <3>2. order[o].status # "none"
      BY <3>1, MarketAssumption DEF RowsAgree, OrderAgrees, FreeOrder
    <3>3. order[o].debit = order[o].amount + FeeOf(model, order[o].amount)
      BY <3>1, <3>2 DEF RowsAgree, OrderAgrees, Agreed
    <3> QED
      BY <2>1, <3>1, <3>3 DEF DebitOf, TakenOf
  <2>2. CASE o \notin Live(l)
    <3>1. ~(order[o].listing = l /\ order[o].status # "cancelled")
      BY <2>2 DEF Live
    <3>2. order[o].listing = l => ~IsLegacyMain(o)
      BY DEF OpenAd, IsLegacyMain
    <3>3. TakenOf(o, l) = 0
      BY <3>1, <3>2 DEF TakenOf
    <3> QED
      BY <1>1, <2>2, <3>3 DEF DebitOf
  <2> QED
    BY <2>1, <2>2
<1>3. a \in [Orders -> Nat] /\ f \in [Orders -> Nat]
  BY ColumnTypes, FeeType
<1>4. [o \in Orders |-> DebitOf(o, l)] = [o \in Orders |-> a[o] + f[o]]
  BY <1>2
<1>5. Total([o \in Orders |-> a[o] + f[o]]) = Total(a) + Total(f)
  <2> HIDE DEF a, f
  <2> QED
    BY <1>3, MarketAssumption, TotalPlus
<1>6. TakenFrom(l) = Total(a)
  BY DEF TakenFrom, TakenOf
<1> QED
  BY <1>2, <1>4, <1>5, <1>6 DEF DebitsOn

\* The shares are bounded whatever the orders of the ad were.
LEMMA ShareBounds ==
    TypeOK /\ RowsAgree /\ AdAccounting
      => \A u \in Users : \A l \in Listings : ShareBound(u, l)
<1> SUFFICES ASSUME TypeOK, RowsAgree, AdAccounting, NEW u \in Users, NEW l \in Listings
             PROVE  ShareBound(u, l)
  OBVIOUS
<1>1. CASE ~OpenAd(u, l)
  BY <1>1 DEF ShareBound, ShareOf
<1>2. CASE OpenAd(u, l)
  <2> DEFINE model == listing[l].feeModel
             rest  == listing[l].remaining
             a == [o \in Orders |-> TakenOf(o, l)]
             fees == Total([o \in Orders |-> FeeOf(model, TakenOf(o, l))])
             taken == TakenFrom(l)
             n == Cardinality(Live(l))
  <2>1. rest + taken = listing[l].amount
    BY <1>2 DEF OpenAd, AdAccounting
  <2>2. a \in [Orders -> Nat] /\ rest \in Nat /\ taken \in Nat /\ taken = Total(a)
    BY ColumnTypes, StatementTypes DEF TypeOK, ListingRow, TakenFrom, TakenOf
  <2>3. IsFiniteSet(Orders) /\ Live(l) \in SUBSET Orders /\ \A o \in Orders \ Live(l) : a[o] = 0
    BY <1>2, OpenAdDraws, MarketAssumption DEF Live
  <2>4. LET all == Total([o \in Orders |-> FeeOf(model, a[o])]) + FeeOf(model, rest)
            whole == FeeOf(model, rest + Total(a))
        IN  all <= whole /\ whole <= all + n
    <3> HIDE DEF a
    <3> QED
      BY <2>2, <2>3, FeesOfParts
  <2>5. [o \in Orders |-> FeeOf(model, a[o])] = [o \in Orders |-> FeeOf(model, TakenOf(o, l))]
    OBVIOUS
  <2>6. /\ fees + FeeOf(model, rest) <= FeeOf(model, rest + taken)
        /\ FeeOf(model, rest + taken) <= fees + FeeOf(model, rest) + n
    BY <2>2, <2>4, <2>5
  <2>7. fees \in Nat /\ n \in Nat
    <3>1. [o \in Orders |-> FeeOf(model, TakenOf(o, l))] \in [Orders -> Nat]
      BY ColumnTypes, FeeType
    <3>2. IsFiniteSet(Live(l))
      BY <2>3, FS_Subset
    <3> QED
      BY <2>3, <3>1, <3>2, TotalType, FS_CardinalityType
  <2>8. FeeOf(model, rest) \in Nat /\ FeeOf(model, rest + taken) \in Nat
    <3>1. rest + taken \in Nat
      BY <2>2
    <3> QED
      BY <2>2, <3>1, FeeType
  <2>9. ShareOf(u, l) = rest + taken + FeeOf(model, rest + taken) - (taken + fees)
    <3>1. ShareOf(u, l) = SellerDebit(model, listing[l].amount) - DebitsOn(l)
      BY <1>2 DEF ShareOf
    <3>2. SellerDebit(model, listing[l].amount) = rest + taken + FeeOf(model, rest + taken)
      BY <2>1 DEF SellerDebit
    <3>3. DebitsOn(l) = taken + fees
      BY <1>2, OpenAdDraws
    <3> HIDE DEF model, rest, fees, taken
    <3> QED
      BY <2>2, <2>7, <2>8, <3>1, <3>2, <3>3
  <2>10. SellerDebit(model, rest) = rest + FeeOf(model, rest)
    BY DEF SellerDebit
  <2> HIDE DEF model, rest, a, fees, taken, n
  <2>11. /\ ShareOf(u, l) \in Nat /\ rest + FeeOf(model, rest) <= ShareOf(u, l)
         /\ ShareOf(u, l) <= rest + FeeOf(model, rest) + n
    BY <2>2, <2>6, <2>9, <2>7, <2>8
  <2> QED
    BY <2>10, <2>11 DEF ShareBound, model, rest, n
<1> QED
  BY <1>1, <1>2

\* The share of an ad whose row and orders' debits stay is the same.
LEMMA ShareStays ==
    ASSUME NEW u, NEW l, listing'[l] = listing[l],
           \A o \in Orders : DebitOf(o, l)' = DebitOf(o, l)
    PROVE  ShareOf(u, l)' = ShareOf(u, l)
<1>1. DebitsOn(l)' = DebitsOn(l)
  BY DEF DebitsOn
<1> QED
  BY <1>1 DEF ShareOf, OpenAd

\* A step that changes the share of one ad at most.
LEMMA SharesMove ==
    ASSUME NEW u \in Users, NEW j \in Listings,
           \A l \in Listings : ShareOf(u, l) \in Nat /\ ShareOf(u, l)' \in Nat,
           \A l \in Listings \ {j} : ShareOf(u, l)' = ShareOf(u, l)
    PROVE  /\ Shares(u) \in Nat /\ Shares(u)' \in Nat
           /\ Shares(u)' = Shares(u) - ShareOf(u, j) + ShareOf(u, j)'
<1> DEFINE f == [l \in Listings |-> ShareOf(u, l)]
           g == [l \in Listings |-> ShareOf(u, l)']
<1>1. f \in [Listings -> Nat] /\ g \in [Listings -> Nat]
      /\ f[j] = ShareOf(u, j) /\ g[j] = ShareOf(u, j)' /\ \A l \in Listings \ {j} : g[l] = f[l]
  OBVIOUS
<1>2. Shares(u) = Total(f) /\ Shares(u)' = Total(g)
  BY DEF Shares
<1> HIDE DEF f, g
<1>3. Total(f) \in Nat /\ Total(g) \in Nat
  BY <1>1, TotalType, MarketAssumption
<1>4. Total(g) = Total(f) - f[j] + g[j]
  BY <1>1, TotalChange, MarketAssumption
<1> QED
  BY <1>1, <1>2, <1>3, <1>4

\* A step that changes one order at most changes what was drawn from an ad by
\* what that order draws.
LEMMA DebitsMove ==
    ASSUME TypeOK, TypeOK', NEW l, NEW o \in Orders,
           \A p \in Orders \ {o} : order'[p] = order[p]
    PROVE  /\ DebitsOn(l) \in Nat
           /\ DebitsOn(l)' = DebitsOn(l) - DebitOf(o, l) + DebitOf(o, l)'
<1> DEFINE f == [p \in Orders |-> DebitOf(p, l)]
           g == [p \in Orders |-> DebitOf(p, l)']
<1>1. \A p \in Orders : DebitOf(p, l) \in Nat
  BY DebitOfType
<1>2. \A p \in Orders : DebitOf(p, l)' \in Nat
  <2> SUFFICES ASSUME NEW p \in Orders PROVE DebitOf(p, l)' \in Nat
    OBVIOUS
  <2>1. order'[p].debit \in Nat
    BY DEF TypeOK, OrderRow
  <2> QED
    BY <2>1 DEF DebitOf
<1>3. \A p \in Orders \ {o} : DebitOf(p, l)' = DebitOf(p, l)
  BY DEF DebitOf, Live
<1>4. f \in [Orders -> Nat] /\ g \in [Orders -> Nat]
      /\ f[o] = DebitOf(o, l) /\ g[o] = DebitOf(o, l)' /\ \A p \in Orders \ {o} : g[p] = f[p]
  BY <1>1, <1>2, <1>3
<1>5. DebitsOn(l) = Total(f) /\ DebitsOn(l)' = Total(g)
  BY DEF DebitsOn
<1> HIDE DEF f, g
<1>6. Total(f) \in Nat /\ Total(g) = Total(f) - f[o] + g[o]
  BY <1>4, TotalType, TotalChange, MarketAssumption
<1> QED
  BY <1>4, <1>5, <1>6

\* Only the cancellation of an ad strands orders.
LEMMA StrandedStays ==
    ASSUME TypeOK, RowsAgree, [Next]_vars, NEW u,
           \A l \in Listings : listing[l].status # "NONE" =>
              (listing'[l].status = "CANCELLED" <=> listing[l].status = "CANCELLED"),
           \A o \in Orders : order[o].status # "none" =>
              /\ order'[o].status # "none" /\ order'[o].listing = order[o].listing
              /\ order'[o].seller = order[o].seller,
           \A o \in Orders : order[o].status = "none" /\ order'[o].status # "none" =>
              listing'[order'[o].listing].status # "CANCELLED"
    PROVE  Stranded(u)' = Stranded(u)
<1>1. ASSUME NEW o \in Orders PROVE o \in Stranded(u)' <=> o \in Stranded(u)
  <2>1. CASE order[o].status = "none"
    BY <2>1 DEF Stranded
  <2>2. CASE order[o].status # "none"
    <3> DEFINE l == order[o].listing
    <3>1. l \in Listings /\ listing[l].status # "NONE"
      BY <2>2 DEF RowsAgree, OrderAgrees, Agreed
    <3>2. OfferStays(listing[l], listing'[l])
      BY <3>1, OffersStay
    <3>3. IsLegacyMain(o)' <=> IsLegacyMain(o)
      BY <2>2, LegacyStays
    <3> QED
      BY <2>2, <3>1, <3>2, <3>3 DEF Stranded, OfferStays, SameOffer
  <2> QED
    BY <2>1, <2>2
<1> QED
  BY <1>1 DEF Stranded

\* A step that leaves shares, stranded orders and the reserved balance alone.
LEMMA BackedStays ==
    ASSUME TypeOK, RowsAgree, [Next]_vars, NEW u \in Users, ReserveBacked(u),
           reserved'[u] = reserved[u], Stranded(u)' = Stranded(u),
           \A l \in Listings : ShareOf(u, l)' = ShareOf(u, l)
    PROVE  ReserveBacked(u)'
<1>1. Shares(u)' = Shares(u)
  BY DEF Shares
<1> QED
  BY <1>1 DEF ReserveBacked

\* An order takes its debit out of the share of its ad.
LEMMA TakeKeepsBacked ==
    ASSUME TypeOK, TypeOK', RowsAgree, RowsAgree', [Next]_vars, NEW u \in Users,
           \A l \in Listings : ShareBound(u, l) /\ ShareBound(u, l)', ReserveBacked(u),
           NEW j \in Listings, NEW o \in Orders, Takes(j, o)
    PROVE  ReserveBacked(u)'
<1> DEFINE ad == listing[j]
           d  == order'[o].debit
<1>1. PICK t \in Users, amount \in Amounts, k \in Keys \cup {NoKey} : Opened(t, j, o, amount, k)
  BY TakeOpens DEF Takes
<1>2. /\ ad \in ListingRow /\ d \in Nat /\ reserved \in [Users -> Nat]
      /\ reserved' \in [Users -> Nat]
  BY DEF TypeOK, OrderRow
<1>3. /\ order[o].listing = NoListing /\ order'[o].listing = j
      /\ order'[o].status = "pending_payment" /\ ad.status = "ACTIVE"
      /\ \A p \in Orders \ {o} : order'[p] = order[p]
      /\ \A l \in Listings \ {j} : listing'[l] = listing[l]
      /\ SameOffer(ad, listing'[j]) /\ listing'[j].status \in {"ACTIVE", "FILLED"}
  BY <1>1 DEF Opened, RowsAgree, OrderAgrees, FreeOrder
<1>4. \A l \in Listings : DebitOf(o, l) = 0 /\ DebitOf(o, l)' = (IF l = j THEN d ELSE 0)
  BY <1>3, MarketAssumption DEF DebitOf, Live
<1>5. ASSUME NEW l \in Listings \ {j} PROVE ShareOf(u, l)' = ShareOf(u, l)
  <2>1. \A p \in Orders : DebitOf(p, l)' = DebitOf(p, l)
    <3>1. \A p \in Orders \ {o} : DebitOf(p, l)' = DebitOf(p, l)
      BY <1>3 DEF DebitOf, Live
    <3> QED
      BY <1>4, <3>1
  <2> QED
    BY <1>3, <2>1, ShareStays
<1>6. OpenAd(u, j)' <=> OpenAd(u, j)
  BY <1>3 DEF OpenAd, SameOffer
<1>7. ShareOf(u, j)' = ShareOf(u, j) - (IF OpenAd(u, j) THEN d ELSE 0)
  <2> DEFINE whole == SellerDebit(ad.feeModel, ad.amount)
  <2>1. DebitsOn(j) \in Nat /\ DebitsOn(j)' = DebitsOn(j) - DebitOf(o, j) + DebitOf(o, j)'
    BY <1>3, DebitsMove
  <2>2. DebitOf(o, j) = 0 /\ DebitOf(o, j)' = d
    BY <1>4
  <2>3. DebitsOn(j)' = DebitsOn(j) + d
    BY <1>2, <2>1, <2>2
  <2>4. whole \in Nat
    BY <1>2, FeeType DEF ListingRow, SellerDebit
  <2>5. ShareOf(u, j) = (IF OpenAd(u, j) THEN whole - DebitsOn(j) ELSE 0)
    BY DEF ShareOf
  <2>6. ShareOf(u, j)' = (IF OpenAd(u, j) THEN whole - DebitsOn(j)' ELSE 0)
    BY <1>3, <1>6 DEF ShareOf, SameOffer
  <2> HIDE DEF whole, d
  <2> QED
    BY <1>2, <2>1, <2>3, <2>4, <2>5, <2>6
<1>8. reserved'[u] = reserved[u] - (IF OpenAd(u, j) THEN d ELSE 0)
  <2>1. MoveToEscrow(ad, order'[o].seller, amount, d)
    BY <1>1 DEF Opened
  <2>2. ad.side = "SELL" => order'[o].seller = ad.creator
    BY <1>3 DEF RowsAgree, OrderAgrees, Agreed, SameOffer
  <2>3. CASE ad.side = "SELL" /\ ad.source = "P2P_WALLET"
    <3>1. reserved' = [reserved EXCEPT ![ad.creator] = @ - d]
      BY <2>1, <2>2, <2>3 DEF MoveToEscrow
    <3>2. OpenAd(u, j) <=> ad.creator = u
      BY <1>3, <2>3 DEF OpenAd
    <3> HIDE DEF d, ad
    <3> QED
      BY <1>2, <3>1, <3>2
  <2>4. CASE ~(ad.side = "SELL" /\ ad.source = "P2P_WALLET")
    <3>1. reserved' = reserved /\ ~OpenAd(u, j)
      BY <2>1, <2>4 DEF MoveToEscrow, OpenAd
    <3> HIDE DEF d
    <3> QED
      BY <1>2, <3>1
  <2> QED
    BY <2>3, <2>4
<1>9. Stranded(u)' = Stranded(u)
  <2>1. \A l \in Listings : listing[l].status # "NONE" =>
           (listing'[l].status = "CANCELLED" <=> listing[l].status = "CANCELLED")
    BY <1>3
  <2>2. order[o].status = "none"
    BY <1>1 DEF Opened
  <2> QED
    BY <1>3, <2>1, <2>2, StrandedStays
<1>10. /\ Shares(u) \in Nat /\ Shares(u)' \in Nat
       /\ Shares(u)' = Shares(u) - ShareOf(u, j) + ShareOf(u, j)'
  <2>1. \A l \in Listings : ShareOf(u, l) \in Nat /\ ShareOf(u, l)' \in Nat
    BY DEF ShareBound
  <2> QED
    BY <1>5, <2>1, SharesMove
<1>11. ShareOf(u, j) \in Nat /\ reserved[u] \in Nat
  BY <1>2 DEF ShareBound
<1>12. Shares(u)' = Shares(u) - (IF OpenAd(u, j) THEN d ELSE 0)
  <2> HIDE DEF d
  <2> QED
    BY <1>2, <1>7, <1>10, <1>11
<1>13. Cardinality(Stranded(u)) \in Nat
  <2>1. Stranded(u) \in SUBSET Orders
    BY DEF Stranded
  <2> QED
    BY <2>1, FS_Subset, FS_CardinalityType, MarketAssumption
<1> HIDE DEF d
<1> QED
  BY <1>2, <1>8, <1>9, <1>10, <1>11, <1>12, <1>13 DEF ReserveBacked

\* A refund that reopens its ad gives the debit back to the ad's share.
LEMMA RefundKeepsBacked ==
    ASSUME TypeOK, TypeOK', RowsAgree, EscrowMatchesStatus, [Next]_vars, NEW u \in Users,
           \A l \in Listings : ShareBound(u, l) /\ ShareBound(u, l)', ReserveBacked(u),
           NEW o \in Orders, Refunds(o), NEW j \in Listings, order[o].listing = j
    PROVE  ReserveBacked(u)'
<1> DEFINE row == order[o]
           ad  == listing[j]
           d   == row.debit
<1>1. /\ \A p \in Orders \ {o} : order'[p] = order[p]
      /\ SameTerms(row, order'[o])
      /\ row.status \in OpenStatuses /\ order'[o].status = "cancelled"
  BY DEF Refunds, Ended
<1>2. Agreed(row, ad)
  BY <1>1 DEF RowsAgree, OrderAgrees, Agreed, OpenStatuses
<1>3. GivesBack(o)
  BY <1>2, RefundGivesBack
<1>4. /\ ad \in ListingRow /\ d \in Nat /\ row.escrow = d
      /\ reserved \in [Users -> Nat] /\ reserved' \in [Users -> Nat]
  BY <1>1, <1>2 DEF TypeOK, OrderRow, EscrowMatchesStatus
<1>5. \A l \in Listings : DebitOf(o, l) = (IF l = j THEN d ELSE 0) /\ DebitOf(o, l)' = 0
  BY <1>1 DEF DebitOf, Live, SameTerms, OpenStatuses
<1>6. \A l \in Listings \ {j} : listing'[l] = listing[l]
  BY <1>3 DEF GivesBack
<1>7. ASSUME NEW l \in Listings \ {j} PROVE ShareOf(u, l)' = ShareOf(u, l)
  <2>1. \A p \in Orders : DebitOf(p, l)' = DebitOf(p, l)
    <3>1. \A p \in Orders \ {o} : DebitOf(p, l)' = DebitOf(p, l)
      BY <1>1 DEF DebitOf, Live
    <3> QED
      BY <1>5, <3>1
  <2> QED
    BY <1>6, <2>1, ShareStays
<1>8. Stranded(u)' = Stranded(u)
  <2>1. \A l \in Listings : listing[l].status # "NONE" =>
           (listing'[l].status = "CANCELLED" <=> listing[l].status = "CANCELLED")
    BY <1>2, <1>3, <1>6 DEF GivesBack, Reopens
  <2>2. \A p \in Orders : order[p].status # "none" =>
              /\ order'[p].status # "none" /\ order'[p].listing = order[p].listing
              /\ order'[p].seller = order[p].seller
    BY <1>1 DEF SameTerms
  <2>3. row.status # "none"
    BY <1>1 DEF OpenStatuses
  <2>4. \A p \in Orders : ~(order[p].status = "none" /\ order'[p].status # "none")
    BY <1>1, <2>3
  <2> QED
    BY <2>1, <2>2, <2>4, StrandedStays
<1>9. CASE ad.side = "SELL" /\ Reopens(ad)
  <2>1. /\ listing'[j].status = "ACTIVE" /\ SameOffer(ad, listing'[j])
        /\ ad.status \in {"ACTIVE", "FILLED"} /\ ad.source = "P2P_WALLET"
        /\ row.seller = ad.creator
    BY <1>2, <1>3, <1>4, <1>9 DEF GivesBack, Reopens, Agreed, ListingRow
  <2>2. reserved' = [reserved EXCEPT ![ad.creator] = @ + d]
    BY <1>4, <1>9, <2>1 DEF Refunds, Refund
  <2>3. (OpenAd(u, j) <=> ad.creator = u) /\ (OpenAd(u, j)' <=> OpenAd(u, j))
    BY <1>9, <2>1 DEF OpenAd, SameOffer
  <2>4. ShareOf(u, j)' = ShareOf(u, j) + (IF OpenAd(u, j) THEN d ELSE 0)
    <3> DEFINE whole == SellerDebit(ad.feeModel, ad.amount)
    <3>1. DebitsOn(j) \in Nat /\ DebitsOn(j)' = DebitsOn(j) - DebitOf(o, j) + DebitOf(o, j)'
      BY <1>1, DebitsMove
    <3>2. DebitsOn(j)' = DebitsOn(j) - d
      BY <1>2, <1>4, <1>5, <3>1
    <3>3. whole \in Nat
      BY <1>4, FeeType DEF ListingRow, SellerDebit
    <3>4. ShareOf(u, j) = (IF OpenAd(u, j) THEN whole - DebitsOn(j) ELSE 0)
      BY DEF ShareOf
    <3>5. ShareOf(u, j)' = (IF OpenAd(u, j) THEN whole - DebitsOn(j)' ELSE 0)
      BY <2>1, <2>3 DEF ShareOf, SameOffer
    <3> HIDE DEF whole, d
    <3> QED
      BY <1>4, <3>1, <3>2, <3>3, <3>4, <3>5
  <2>5. reserved'[u] = reserved[u] + (IF OpenAd(u, j) THEN d ELSE 0)
    <3> HIDE DEF d, ad
    <3> QED
      BY <1>4, <2>2, <2>3
  <2>6. /\ Shares(u) \in Nat /\ Shares(u)' \in Nat
        /\ Shares(u)' = Shares(u) - ShareOf(u, j) + ShareOf(u, j)'
    <3>1. \A l \in Listings : ShareOf(u, l) \in Nat /\ ShareOf(u, l)' \in Nat
      BY DEF ShareBound
    <3> QED
      BY <1>2, <1>7, <3>1, SharesMove
  <2>7. ShareOf(u, j) \in Nat /\ reserved[u] \in Nat
    BY <1>2, <1>4 DEF ShareBound
  <2> HIDE DEF d, ad
  <2>8. Shares(u)' = Shares(u) + (IF OpenAd(u, j) THEN d ELSE 0)
    BY <1>4, <2>4, <2>6, <2>7
  <2>9. Cardinality(Stranded(u)) \in Nat
    <3>1. Stranded(u) \in SUBSET Orders
      BY DEF Stranded
    <3> QED
      BY <3>1, FS_Subset, FS_CardinalityType, MarketAssumption
  <2> QED
    BY <1>4, <1>8, <2>5, <2>6, <2>7, <2>8, <2>9 DEF ReserveBacked
<1>10. CASE ~(ad.side = "SELL" /\ Reopens(ad))
  <2>1. reserved' = reserved
    BY <1>10 DEF Refunds, Refund
  <2>2. ~OpenAd(u, j)
    BY <1>10 DEF OpenAd, Reopens
  <2>3. ~OpenAd(u, j)'
    <3>1. CASE Reopens(ad)
      <4>1. listing'[j].side = ad.side /\ ad.side # "SELL"
        BY <1>3, <1>10, <3>1 DEF GivesBack, SameOffer
      <4> QED
        BY <4>1 DEF OpenAd
    <3>2. CASE ~Reopens(ad)
      <4>1. listing' = listing
        BY <1>3, <3>2 DEF GivesBack
      <4> QED
        BY <2>2, <4>1 DEF OpenAd
    <3> QED
      BY <3>1, <3>2
  <2>4. ShareOf(u, j)' = ShareOf(u, j)
    BY <2>2, <2>3 DEF ShareOf
  <2>5. \A l \in Listings : ShareOf(u, l)' = ShareOf(u, l)
    BY <1>7, <2>4
  <2> QED
    BY <1>8, <2>1, <2>5, BackedStays
<1> QED
  BY <1>9, <1>10

\* Cancelling an ad releases the debit of what remains; what the rounding of
\* its orders' fees leaves of its share is stranded.
LEMMA CancelKeepsBacked ==
    ASSUME TypeOK, TypeOK', RowsAgree, [Next]_vars, NEW u \in Users,
           \A l \in Listings : ShareBound(u, l) /\ ShareBound(u, l)', ReserveBacked(u),
           NEW j \in Listings, Cancels(j)
    PROVE  ReserveBacked(u)'
<1> DEFINE ad == listing[j]
           rest == SellerDebit(ad.feeModel, ad.remaining)
<1>1. /\ ad \in ListingRow /\ listing \in [Listings -> ListingRow]
      /\ reserved \in [Users -> Nat] /\ reserved' \in [Users -> Nat]
  BY DEF TypeOK
<1>2. /\ listing' = [listing EXCEPT ![j].status = "CANCELLED"] /\ ad.status = "ACTIVE"
      /\ UNCHANGED order
      /\ \/ /\ ad.side = "SELL" /\ ad.source = "P2P_WALLET"
            /\ reserved' = [reserved EXCEPT ![ad.creator] = @ - rest]
         \/ ~(ad.side = "SELL" /\ ad.source = "P2P_WALLET") /\ reserved' = reserved
  BY DEF Cancels, CancelListing, Unsold, wallets
<1>3. rest \in Nat
  BY <1>1, FeeType DEF ListingRow, SellerDebit
<1>4. \A l \in Listings \ {j} : listing'[l] = listing[l]
  BY <1>1, <1>2
<1>5. listing'[j].status = "CANCELLED" /\ SameOffer(ad, listing'[j])
  BY <1>1, <1>2 DEF ListingRow, SameOffer
<1>6. ASSUME NEW l \in Listings \ {j} PROVE ShareOf(u, l)' = ShareOf(u, l)
  <2>1. \A p \in Orders : DebitOf(p, l)' = DebitOf(p, l)
    BY <1>2 DEF DebitOf, Live
  <2> QED
    BY <1>4, <2>1, ShareStays
<1>7. ShareOf(u, j)' = 0
  BY <1>5 DEF ShareOf, OpenAd
<1>8. \A o \in Orders : order[o].status # "none" =>
         /\ order[o].listing \in Listings /\ listing[order[o].listing].status # "NONE"
         /\ (listing[order[o].listing].side = "SELL"
               => order[o].seller = listing[order[o].listing].creator)
  BY DEF RowsAgree, OrderAgrees, Agreed
<1>9. \A l \in Listings : SameOffer(listing[l], listing'[l])
  BY <1>4, <1>5 DEF SameOffer
<1>10. \A o \in Orders : IsLegacyMain(o)' <=> IsLegacyMain(o)
  BY <1>2, <1>8, <1>9 DEF IsLegacyMain, SameOffer
<1>11. \A v \in Users : IsFiniteSet(Stranded(v)) /\ IsFiniteSet(Stranded(v)')
                        /\ Cardinality(Stranded(v)) \in Nat
  <2>1. \A v \in Users : Stranded(v) \in SUBSET Orders /\ Stranded(v)' \in SUBSET Orders
    BY DEF Stranded
  <2> QED
    BY <2>1, FS_Subset, FS_CardinalityType, MarketAssumption
<1>12. ASSUME NEW o \in Orders, order[o].listing # j PROVE o \in Stranded(u)' <=> o \in Stranded(u)
  <2>1. CASE order[o].status = "none"
    BY <1>2, <2>1 DEF Stranded
  <2>2. CASE order[o].status # "none"
    <3>1. listing'[order[o].listing] = listing[order[o].listing]
      BY <1>4, <1>8, <1>12, <2>2
    <3> QED
      BY <1>2, <1>10, <3>1 DEF Stranded
  <2> QED
    BY <2>1, <2>2
<1>13. ASSUME NEW o \in Orders, order[o].listing = j PROVE o \notin Stranded(u)
  BY <1>2, <1>13 DEF Stranded
<1>14. CASE OpenAd(u, j)
  <2>1. Live(j) \subseteq Stranded(u)'
    <3> SUFFICES ASSUME NEW o \in Live(j) PROVE o \in Stranded(u)'
      OBVIOUS
    <3>1. o \in Orders /\ order[o].listing = j /\ order[o].status # "none"
      BY MarketAssumption DEF Live, RowsAgree, OrderAgrees, FreeOrder
    <3>2. order[o].seller = u /\ ~IsLegacyMain(o)
      BY <1>8, <1>14, <3>1 DEF OpenAd, IsLegacyMain
    <3>3. ~IsLegacyMain(o)'
      BY <1>10, <3>1, <3>2
    <3> QED
      BY <1>2, <1>5, <1>14, <3>1, <3>2, <3>3 DEF Stranded, SameOffer, OpenAd
  <2>2. Stranded(u) \subseteq Stranded(u)' /\ Live(j) \cap Stranded(u) = {}
    BY <1>12, <1>13 DEF Stranded, Live
  <2>3. Cardinality(Live(j)) + Cardinality(Stranded(u)) <= Cardinality(Stranded(u)')
    <3>1. IsFiniteSet(Live(j)) /\ Cardinality(Live(j)) \in Nat
      BY <1>11, <2>1, FS_Subset, FS_CardinalityType
    <3>2. Cardinality(Live(j) \cup Stranded(u))
            = Cardinality(Live(j)) + Cardinality(Stranded(u)) - Cardinality(Live(j) \cap Stranded(u))
      BY <1>11, <3>1, FS_Union
    <3>3. Cardinality(Live(j) \cap Stranded(u)) = 0
      BY <2>2, FS_EmptySet
    <3>4. Live(j) \cup Stranded(u) \in SUBSET Stranded(u)'
      BY <2>1, <2>2
    <3>5. Cardinality(Live(j) \cup Stranded(u)) <= Cardinality(Stranded(u)')
      BY <1>11, <3>4, FS_Subset
    <3> QED
      BY <1>11, <3>1, <3>2, <3>3, <3>5
  <2>4. reserved'[u] = reserved[u] - rest
    <3>1. reserved' = [reserved EXCEPT ![u] = @ - rest]
      BY <1>2, <1>14 DEF OpenAd
    <3> QED
      BY <1>1, <3>1
  <2>5. /\ Shares(u) \in Nat /\ Shares(u)' \in Nat
        /\ Shares(u)' = Shares(u) - ShareOf(u, j) + ShareOf(u, j)'
    <3>1. \A l \in Listings : ShareOf(u, l) \in Nat /\ ShareOf(u, l)' \in Nat
      BY DEF ShareBound
    <3> QED
      BY <1>6, <3>1, SharesMove
  <2>6. /\ ShareOf(u, j) \in Nat /\ rest <= ShareOf(u, j)
        /\ ShareOf(u, j) <= rest + Cardinality(Live(j))
    BY <1>14 DEF ShareBound
  <2>7. reserved[u] \in Nat /\ Cardinality(Live(j)) \in Nat /\ Cardinality(Stranded(u)') \in Nat
    <3>1. IsFiniteSet(Live(j))
      BY <1>11, <2>1, FS_Subset
    <3> QED
      BY <1>1, <1>11, <3>1, FS_CardinalityType
  <2> HIDE DEF rest
  <2>8. Shares(u)' <= reserved'[u]
    BY <1>3, <1>7, <2>4, <2>5, <2>6, <2>7 DEF ReserveBacked
  <2>9. reserved'[u] <= Shares(u)' + Cardinality(Stranded(u)')
    BY <1>3, <1>7, <1>11, <2>3, <2>4, <2>5, <2>6, <2>7 DEF ReserveBacked
  <2> QED
    BY <2>8, <2>9 DEF ReserveBacked
<1>15. CASE ~OpenAd(u, j)
  <2>1. Stranded(u)' = Stranded(u)
    <3>1. ASSUME NEW o \in Orders, order[o].listing = j PROVE o \notin Stranded(u)'
      <4>1. CASE order[o].status = "none"
        BY <1>2, <4>1 DEF Stranded
      <4>2. CASE order[o].status # "none"
        <5>1. \/ ad.side # "SELL" \/ ad.source = "MAIN_WALLET_LEGACY" \/ ad.creator # u
          BY <1>1, <1>2, <1>15 DEF OpenAd, ListingRow, Sources
        <5>2. ad.source = "MAIN_WALLET_LEGACY" => IsLegacyMain(o)'
          BY <1>10, <3>1, <4>2 DEF IsLegacyMain
        <5>3. ad.side = "SELL" => order[o].seller = ad.creator
          BY <1>8, <3>1, <4>2
        <5> QED
          BY <1>2, <1>5, <3>1, <5>1, <5>2, <5>3 DEF Stranded, SameOffer
      <4> QED
        BY <4>1, <4>2
    <3>2. ASSUME NEW o \in Orders PROVE o \in Stranded(u)' <=> o \in Stranded(u)
      BY <1>12, <1>13, <3>1
    <3> QED
      BY <3>2 DEF Stranded
  <2>2. reserved'[u] = reserved[u]
    <3>1. CASE ad.side = "SELL" /\ ad.source = "P2P_WALLET"
      <4>1. ad.creator # u /\ reserved' = [reserved EXCEPT ![ad.creator] = @ - rest]
        BY <1>2, <1>15, <3>1 DEF OpenAd
      <4> HIDE DEF rest, ad
      <4> QED
        BY <1>1, <4>1
    <3>2. CASE ~(ad.side = "SELL" /\ ad.source = "P2P_WALLET")
      BY <1>2, <3>2
    <3> QED
      BY <3>1, <3>2
  <2>3. \A l \in Listings : ShareOf(u, l)' = ShareOf(u, l)
    <3>1. ShareOf(u, j) = 0
      BY <1>15 DEF ShareOf
    <3> QED
      BY <1>6, <1>7, <3>1
  <2> QED
    BY <2>1, <2>2, <2>3, BackedStays
<1> QED
  BY <1>14, <1>15

\* A new SELL ad enters with its whole debit as its share.
LEMMA PostKeepsBacked ==
    ASSUME TypeOK, TypeOK', RowsAgree, [Next]_vars, NEW u \in Users,
           \A l \in Listings : ShareBound(u, l) /\ ShareBound(u, l)', ReserveBacked(u),
           NEW j \in Listings, Posts(j)
    PROVE  ReserveBacked(u)'
<1>0. PICK v \in Users, side \in Sides, amount \in Amounts, methods \in SUBSET Methods,
           n \in Names \cup {NoName}, price \in Prices :
         \E min \in Limits \cup {1}, max \in Limits \cup {Fiat(amount, price)} :
            CreateListing(v, j, side, amount, methods, n, price, min, max)
  BY DEF Posts
<1> DEFINE debit == SellerDebit("BIUSD_1PCT_EACH", amount)
<1>1. /\ listing \in [Listings -> ListingRow] /\ reserved \in [Users -> Nat]
      /\ amount \in Nat /\ debit \in Nat
  BY FeeType, MarketAssumption DEF TypeOK, SellerDebit
<1>2. /\ UNCHANGED order /\ listing[j].status = "NONE"
      /\ listing'[j].status = "ACTIVE" /\ listing'[j].side = side /\ listing'[j].creator = v
      /\ listing'[j].amount = amount /\ listing'[j].source = "P2P_WALLET"
      /\ listing'[j].feeModel = "BIUSD_1PCT_EACH"
      /\ \A i \in Listings \ {j} : listing'[i] = listing[i]
  BY <1>0, <1>1 DEF CreateListing
<1>3. reserved'[u] = reserved[u] + (IF side = "SELL" /\ v = u THEN debit ELSE 0)
  <2>1. \/ side = "SELL" /\ reserved' = [reserved EXCEPT ![v] = @ + debit]
        \/ side = "BUY" /\ reserved' = reserved
    BY <1>0 DEF CreateListing
  <2> HIDE DEF debit
  <2> QED
    BY <1>1, <2>1
<1>4. \A o \in Orders : order[o].listing # j
  BY <1>2, FreshAdUntaken
<1>5. ASSUME NEW l \in Listings \ {j} PROVE ShareOf(u, l)' = ShareOf(u, l)
  <2>1. \A p \in Orders : DebitOf(p, l)' = DebitOf(p, l)
    BY <1>2 DEF DebitOf, Live
  <2> QED
    BY <1>2, <2>1, ShareStays
<1>6. ShareOf(u, j) = 0
  BY <1>2 DEF ShareOf, OpenAd
<1>7. ShareOf(u, j)' = (IF side = "SELL" /\ v = u THEN debit ELSE 0)
  <2>1. DebitsOn(j)' = 0
    <3>1. [o \in Orders |-> DebitOf(o, j)]' = [o \in Orders |-> 0]
      BY <1>2, <1>4 DEF DebitOf, Live
    <3> QED
      BY <3>1, TotalOfZeros DEF DebitsOn
  <2>2. OpenAd(u, j)' <=> side = "SELL" /\ v = u
    BY <1>2 DEF OpenAd
  <2> QED
    BY <1>1, <1>2, <2>1, <2>2 DEF ShareOf
<1>8. Stranded(u)' = Stranded(u)
  BY <1>2, StrandedStays
<1>9. /\ Shares(u) \in Nat /\ Shares(u)' \in Nat
      /\ Shares(u)' = Shares(u) - ShareOf(u, j) + ShareOf(u, j)'
  <2>1. \A l \in Listings : ShareOf(u, l) \in Nat /\ ShareOf(u, l)' \in Nat
    BY DEF ShareBound
  <2> QED
    BY <1>5, <2>1, SharesMove
<1>10. Cardinality(Stranded(u)) \in Nat /\ reserved[u] \in Nat
  <2>1. Stranded(u) \in SUBSET Orders
    BY DEF Stranded
  <2> QED
    BY <1>1, <2>1, FS_Subset, FS_CardinalityType, MarketAssumption
<1> HIDE DEF debit
<1> QED
  BY <1>1, <1>3, <1>6, <1>7, <1>8, <1>9, <1>10 DEF ReserveBacked

\* Every step keeps the reserved balance backed.
LEMMA StepBacked ==
    ASSUME TypeOK, TypeOK', RowsAgree, RowsAgree', EscrowMatchesStatus, [Next]_vars,
           NEW u \in Users, \A l \in Listings : ShareBound(u, l) /\ ShareBound(u, l)',
           ReserveBacked(u)
    PROVE  ReserveBacked(u)'
<1>1. CASE Aside \/ Funds
  <2>1. UNCHANGED <<listing, order, reserved>>
    BY <1>1 DEF Aside, wallets, Funds, FundWalletAsset
  <2>2. /\ \A l \in Listings : ShareOf(u, l)' = ShareOf(u, l)
        /\ Stranded(u)' = Stranded(u)
    BY <2>1 DEF ShareOf, OpenAd, DebitsOn, DebitOf, Live, Stranded, IsLegacyMain
  <2> QED
    BY <2>1, <2>2, BackedStays
<1>2. ASSUME NEW o \in Orders, Touched(o) \/ Settles(o) PROVE ReserveBacked(u)'
  <2>1. /\ \A p \in Orders \ {o} : order'[p] = order[p]
        /\ SameTerms(order[o], order'[o]) /\ UNCHANGED <<listing, reserved>>
        /\ order[o].status \in OpenStatuses /\ order'[o].status \in OpenStatuses \cup {"completed"}
    BY <1>2 DEF Touched, Settles, Settle, Ended, wallets
  <2>2. ASSUME NEW l \in Listings PROVE ShareOf(u, l)' = ShareOf(u, l)
    <3>1. DebitOf(o, l)' = DebitOf(o, l)
      BY <2>1 DEF DebitOf, Live, SameTerms, OpenStatuses
    <3>2. \A p \in Orders \ {o} : DebitOf(p, l)' = DebitOf(p, l)
      BY <2>1 DEF DebitOf, Live
    <3> QED
      BY <2>1, <3>1, <3>2, ShareStays
  <2>3. Stranded(u)' = Stranded(u)
    <3>1. order[o].status # "none" /\ order'[o].status # "none"
      BY <2>1 DEF OpenStatuses
    <3> QED
      BY <2>1, <3>1, StrandedStays DEF SameTerms
  <2> QED
    BY <2>1, <2>2, <2>3, BackedStays
<1>3. ASSUME NEW o \in Orders, Refunds(o) PROVE ReserveBacked(u)'
  <2>1. order[o].listing \in Listings
    BY <1>3 DEF Refunds, Ended, RowsAgree, OrderAgrees, Agreed, OpenStatuses
  <2> QED
    BY <1>3, <2>1, RefundKeepsBacked
<1>4. ASSUME NEW j \in Listings, Cancels(j) PROVE ReserveBacked(u)'
  BY <1>4, CancelKeepsBacked
<1>5. ASSUME NEW j \in Listings, Posts(j) PROVE ReserveBacked(u)'
  BY <1>5, PostKeepsBacked
<1>6. ASSUME NEW j \in Listings, NEW o \in Orders, Takes(j, o) PROVE ReserveBacked(u)'
  BY <1>6, TakeKeepsBacked
<1> QED
  BY <1>1, <1>2, <1>3, <1>4, <1>5, <1>6, StepKinds

\* The migrated ads start with the reservations they had.
LEMMA InitBacked ==
    ASSUME Init, NEW u \in Users
    PROVE  ReserveBacked(u)
<1> DEFINE f == [a \in LegacyAds |->
                   IF a.creator = u /\ a.source = "P2P_WALLET" THEN a.amount ELSE 0]
           g == [l \in Listings |-> ShareOf(u, l)]
           h == [a \in LegacyAds |-> a.listing]
<1>1. \A a \in LegacyAds : a \in LegacyAd
  BY MarketAssumption
<1>2. f \in [LegacyAds -> Nat] /\ h \in [LegacyAds -> Listings]
      /\ \A a, b \in LegacyAds : a # b => h[a] # h[b]
  BY <1>1, MarketAssumption DEF LegacyAd
<1>3. \A l \in Listings : DebitsOn(l) = 0
  <2> SUFFICES ASSUME NEW l \in Listings PROVE DebitsOn(l) = 0
    OBVIOUS
  <2>1. [o \in Orders |-> DebitOf(o, l)] = [o \in Orders |-> 0]
    BY MarketAssumption DEF Init, FreeOrder, DebitOf, Live
  <2> QED
    BY <2>1, TotalOfZeros DEF DebitsOn
<1>4. ASSUME NEW a \in LegacyAds
      PROVE  ShareOf(u, a.listing) = f[a]
  <2>1. a.listing \in Listings /\ listing[a.listing] = MigratedRow(a)
    <3>1. a.listing \in Listings
      BY <1>1 DEF LegacyAd
    <3>2. (CHOOSE b \in LegacyAds : b.listing = a.listing) = a
      BY MarketAssumption
    <3> QED
      BY <3>1, <3>2 DEF Init
  <2>2. SellerDebit("LEGACY_FIAT", a.amount) = a.amount /\ a.amount \in Nat
    BY <1>1 DEF SellerDebit, FeeOf, LegacyAd
  <2>3. OpenAd(u, a.listing) <=> a.creator = u /\ a.source = "P2P_WALLET"
    BY <2>1 DEF OpenAd, MigratedRow
  <2>4. listing[a.listing].feeModel = "LEGACY_FIAT" /\ listing[a.listing].amount = a.amount
    BY <2>1 DEF MigratedRow
  <2>5. ShareOf(u, a.listing) = (IF OpenAd(u, a.listing) THEN a.amount - 0 ELSE 0)
    BY <1>3, <2>1, <2>2, <2>4 DEF ShareOf
  <2> QED
    BY <2>2, <2>3, <2>5
<1>5. ASSUME NEW l \in Listings, \A a \in LegacyAds : h[a] # l
      PROVE  ShareOf(u, l) = 0
  BY <1>5 DEF Init, FreeListing, ShareOf, OpenAd
<1>6. g \in [Listings -> Nat]
  <2> SUFFICES ASSUME NEW l \in Listings PROVE ShareOf(u, l) \in Nat
    OBVIOUS
  <2>1. CASE \E a \in LegacyAds : h[a] = l
    BY <1>2, <1>4, <2>1
  <2>2. CASE \A a \in LegacyAds : h[a] # l
    BY <1>5, <2>2
  <2> QED
    BY <2>1, <2>2
<1>7. /\ \A a \in LegacyAds : g[h[a]] = f[a]
      /\ \A l \in Listings : (\A a \in LegacyAds : h[a] # l) => g[l] = 0
  BY <1>2, <1>4, <1>5
<1>8. Total(f) = Total(g)
  <2>1. IsFiniteSet(LegacyAds)
    BY MarketAssumption
  <2> HIDE DEF f, g, h
  <2> QED
    BY <1>2, <1>6, <1>7, <2>1, TotalReindex
<1>9. reserved[u] = Total(f) /\ Shares(u) = Total(g) /\ Total(g) \in Nat
  BY <1>6, TotalType, MarketAssumption DEF Init, LegacyReserve, Shares
<1>10. Cardinality(Stranded(u)) = 0
  <2>1. Stranded(u) = {}
    BY DEF Init, FreeOrder, Stranded
  <2> QED
    BY <2>1, FS_EmptySet
<1> QED
  BY <1>8, <1>9, <1>10 DEF ReserveBacked

\* What the shares say of the remaining amounts.
LEMMA BackedMatchesAds ==
    ASSUME TypeOK, RowsAgree, AdAccounting, NEW u \in Users,
           \A l \in Listings : ShareBound(u, l), ReserveBacked(u)
    PROVE  /\ Committed(u) <= reserved[u]
           /\ reserved[u] - Committed(u) <= Cardinality(Draws(u))
<1> DEFINE Rest(l) == IF OpenAd(u, l)
                      THEN SellerDebit(listing[l].feeModel, listing[l].remaining) ELSE 0
           Of(l) == IF OpenAd(u, l) THEN Live(l) ELSE {}
           f == [l \in Listings |-> Rest(l)]
           m == [l \in Listings |-> Of(l)]
           c == [l \in Listings |-> Cardinality(m[l])]
           g == [l \in Listings |-> ShareOf(u, l)]
           T == Draws(u) \ Stranded(u)
<1>0. IsFiniteSet(Listings) /\ IsFiniteSet(Orders) /\ reserved[u] \in Nat
  BY MarketAssumption DEF TypeOK
<1>1. ASSUME NEW l \in Listings
      PROVE  /\ Rest(l) \in Nat /\ Of(l) \in SUBSET Orders /\ IsFiniteSet(Of(l))
             /\ Cardinality(Of(l)) \in Nat
             /\ Rest(l) <= ShareOf(u, l) /\ ShareOf(u, l) <= Rest(l) + Cardinality(Of(l))
             /\ ShareOf(u, l) \in Nat
  <2>1. listing[l].remaining \in Nat
    BY DEF TypeOK, ListingRow
  <2>2. Rest(l) \in Nat
    BY <2>1, FeeType DEF SellerDebit
  <2>3. Of(l) \in SUBSET Orders
    BY DEF Live
  <2>4. IsFiniteSet(Of(l)) /\ Cardinality(Of(l)) \in Nat
    BY <1>0, <2>3, FS_Subset, FS_CardinalityType
  <2>5. CASE OpenAd(u, l)
    BY <2>2, <2>3, <2>4, <2>5 DEF ShareBound
  <2>6. CASE ~OpenAd(u, l)
    <3>1. Of(l) = {} /\ Rest(l) = 0 /\ ShareOf(u, l) = 0
      BY <2>6 DEF ShareOf
    <3> QED
      BY <2>3, <2>4, <3>1
  <2> QED
    BY <2>5, <2>6
<1>2. /\ f \in [Listings -> Nat] /\ c \in [Listings -> Nat] /\ g \in [Listings -> Nat]
      /\ \A l \in Listings : f[l] <= g[l] /\ g[l] <= f[l] + c[l]
  BY <1>1
<1>3. Committed(u) = Total(f)
  <2>1. ASSUME NEW l \in Listings
        PROVE  Rest(l) = IF ReservesFor(u, l)
                         THEN SellerDebit(listing[l].feeModel, listing[l].remaining) ELSE 0
    <3>1. CASE listing[l].status = "FILLED"
      <4>1. listing[l].remaining = 0
        BY <3>1 DEF AdAccounting
      <4>2. SellerDebit(listing[l].feeModel, 0) = 0
        BY SettlementAssumption DEF SellerDebit, FeeOf
      <4> QED
        BY <3>1, <4>1, <4>2 DEF ReservesFor, OpenAd
    <3>2. CASE listing[l].status # "FILLED"
      BY <3>2 DEF ReservesFor, OpenAd
    <3> QED
      BY <3>1, <3>2
  <2> QED
    BY <2>1 DEF Committed
<1>4. Shares(u) = Total(g)
  BY DEF Shares
<1>5. \A l \in Listings : Of(l) \in SUBSET T
  <2> SUFFICES ASSUME NEW l \in Listings, OpenAd(u, l), NEW o \in Live(l) PROVE o \in T
    OBVIOUS
  <2>1. o \in Orders /\ order[o].listing = l /\ order[o].status # "cancelled"
    BY DEF Live
  <2>2. order[o].status # "none"
    BY <2>1, MarketAssumption DEF RowsAgree, OrderAgrees, FreeOrder
  <2>3. order[o].seller = u /\ ~IsLegacyMain(o)
    BY <2>1, <2>2 DEF RowsAgree, OrderAgrees, Agreed, OpenAd, IsLegacyMain
  <2> QED
    BY <2>1, <2>2, <2>3 DEF Draws, Stranded, OpenAd
<1>6. /\ Stranded(u) \subseteq Draws(u) /\ IsFiniteSet(Draws(u)) /\ IsFiniteSet(T)
      /\ IsFiniteSet(Stranded(u))
      /\ Cardinality(Draws(u)) \in Nat /\ Cardinality(Stranded(u)) \in Nat
      /\ Cardinality(T) = Cardinality(Draws(u)) - Cardinality(Stranded(u))
  <2>1. Stranded(u) \subseteq Draws(u) /\ Draws(u) \in SUBSET Orders
    BY DEF Stranded, Draws
  <2>2. IsFiniteSet(Draws(u)) /\ Stranded(u) \in SUBSET Draws(u)
    BY <1>0, <2>1, FS_Subset
  <2>3. Draws(u) \cap Stranded(u) = Stranded(u)
    BY <2>1
  <2>4. IsFiniteSet(Stranded(u))
    BY <2>2, FS_Subset
  <2>5. /\ IsFiniteSet(T)
        /\ Cardinality(T) = Cardinality(Draws(u)) - Cardinality(Draws(u) \cap Stranded(u))
    BY <2>2, FS_Difference
  <2> QED
    BY <2>1, <2>2, <2>3, <2>4, <2>5, FS_CardinalityType
<1>7. Total(c) <= Cardinality(T)
  <2>1. m \in [Listings -> SUBSET T]
    BY <1>5
  <2>2. \A r, s \in Listings : r # s => m[r] \cap m[s] = {}
    BY DEF Live
  <2> HIDE DEF m, T
  <2> QED
    BY <1>0, <1>6, <2>1, <2>2, TotalOfCounts
<1> HIDE DEF f, g, c, T
<1>8. Total(f) \in Nat /\ Total(g) \in Nat /\ Total(c) \in Nat /\ Total(f) <= Total(g)
  BY <1>0, <1>2, TotalType, TotalMonotone
<1>9. Total(g) <= Total(f) + Total(c)
  <2> DEFINE s == [l \in Listings |-> f[l] + c[l]]
  <2>1. s \in [Listings -> Nat] /\ \A l \in Listings : g[l] <= s[l]
    BY <1>2
  <2>2. Total(s) = Total(f) + Total(c)
    BY <1>0, <1>2, TotalPlus
  <2> HIDE DEF s
  <2>3. Total(g) <= Total(s)
    BY <1>0, <1>2, <2>1, TotalMonotone
  <2> QED
    BY <2>2, <2>3
<1> QED
  BY <1>0, <1>3, <1>4, <1>6, <1>7, <1>8, <1>9 DEF ReserveBacked

\* A seller's one reserved balance always covers the remaining amounts, fees
\* included, of all the ads that draw on it, and what the rounding of fees
\* strands there is at most one raw unit per order.
THEOREM ReservesMatchAds == Spec => []ReserveMatchesAds
<1> DEFINE Inv == \A u \in Users : ReserveBacked(u)
           Bounds == \A u \in Users : \A l \in Listings : ShareBound(u, l)
<1>1. Init => Inv
  BY InitBacked
<1>2. /\ TypeOK /\ TypeOK' /\ RowsAgree /\ RowsAgree' /\ EscrowMatchesStatus
      /\ Bounds /\ Bounds' /\ Inv /\ [Next]_vars
      => Inv'
  BY StepBacked
<1>3. TypeOK /\ RowsAgree /\ AdAccounting => Bounds
  BY ShareBounds
<1>4. TypeOK /\ RowsAgree /\ AdAccounting /\ Bounds /\ Inv => ReserveMatchesAds
  BY BackedMatchesAds DEF ReserveMatchesAds
<1> HIDE DEF Inv, Bounds
<1> QED
  BY <1>1, <1>2, <1>3, <1>4, TypeCorrect, RowsAlwaysAgree, EscrowCorrect, AdsAccounted, PTL
     DEF Spec

-----------------------------------------------------------------------------
(* What the contract means for the marketplace as a whole.                 *)

\* All BIUSD there is: in wallets and reservations, in escrow, earned as fees.
Wealth == Total(Purse) + Total(Vault) + adminFees

\* A column one of whose rows changes by k.
LEMMA ColumnShift ==
    ASSUME NEW S, IsFiniteSet(S), NEW p \in [S -> Nat], NEW q \in [S -> Nat],
           NEW x \in S, NEW k \in Int, q[x] = p[x] + k, \A y \in S \ {x} : q[y] = p[y]
    PROVE  Total(q) = Total(p) + k
<1>1. Total(q) = Total(p) - p[x] + q[x]
  BY TotalChange
<1>2. Total(p) \in Nat /\ p[x] \in Nat
  BY TotalType
<1> QED
  BY <1>1, <1>2

\* Purses, vaults and the income before a step and after it.
LEMMA WealthParts ==
    ASSUME IsFiniteSet(Users), TypeOK, TypeOK'
    PROVE  /\ Purse \in [Users -> Nat] /\ Purse' \in [Users -> Nat]
           /\ Vault \in [Orders -> Nat] /\ Vault' \in [Orders -> Nat]
           /\ adminFees \in Nat /\ adminFees' \in Nat
           /\ Total(Purse) \in Nat /\ Total(Vault) \in Nat /\ IsFiniteSet(Orders)
<1>1. Purse \in [Users -> Nat] /\ Purse' \in [Users -> Nat]
  BY DEF TypeOK, Purse
<1>2. Vault \in [Orders -> Nat] /\ Vault' \in [Orders -> Nat]
  BY DEF TypeOK, OrderRow, Vault
<1>3. adminFees \in Nat /\ adminFees' \in Nat
  BY DEF TypeOK
<1> QED
  BY <1>1, <1>2, <1>3, TotalType, MarketAssumption

\* A step that moves k from a purse into a vault, or back, changes nothing else.
LEMMA PurseToVault ==
    ASSUME IsFiniteSet(Users), TypeOK, TypeOK', NEW u \in Users, NEW o \in Orders,
           NEW k \in Int, NEW g \in Int,
           Purse'[u] = Purse[u] - k + g, \A v \in Users \ {u} : Purse'[v] = Purse[v],
           Vault'[o] = Vault[o] + k, \A p \in Orders \ {o} : Vault'[p] = Vault[p],
           adminFees' = adminFees - g
    PROVE  Wealth' = Wealth
<1> DEFINE P == Purse
           Q == Purse'
           V == Vault
           W == Vault'
<1>1. /\ P \in [Users -> Nat] /\ Q \in [Users -> Nat]
      /\ V \in [Orders -> Nat] /\ W \in [Orders -> Nat]
      /\ adminFees \in Nat /\ Total(P) \in Nat /\ Total(V) \in Nat /\ IsFiniteSet(Orders)
  BY WealthParts
<1>2. /\ Q[u] = P[u] - k + g /\ \A v \in Users \ {u} : Q[v] = P[v]
      /\ W[o] = V[o] + k /\ \A p \in Orders \ {o} : W[p] = V[p]
  OBVIOUS
<1>3. Wealth = Total(P) + Total(V) + adminFees
  BY DEF Wealth
<1>4. Wealth' = Total(Q) + Total(W) + adminFees - g
  <2>1. Wealth' = Total(Purse') + Total(Vault') + adminFees'
    BY DEF Wealth
  <2>2. Total(Q) \in Nat /\ Total(W) \in Nat
    BY <1>1, TotalType
  <2> HIDE DEF Q, W
  <2>3. Wealth' = Total(Q) + Total(W) + adminFees'
    BY <2>1 DEF Q, W
  <2> QED
    BY <1>1, <2>2, <2>3
<1> HIDE DEF P, Q, V, W
<1>5. Total(Q) = Total(P) + (g - k)
  <2> DEFINE d == g - k
  <2>1. d \in Int /\ Q[u] = P[u] + d
    BY <1>1, <1>2
  <2> HIDE DEF d
  <2>2. Total(Q) = Total(P) + d
    BY <1>1, <1>2, <2>1, ColumnShift
  <2> QED
    BY <2>2 DEF d
<1>6. Total(W) = Total(V) + k
  BY <1>1, <1>2, ColumnShift
<1> QED
  BY <1>1, <1>3, <1>4, <1>5, <1>6

\* Each action of the contract moves money and makes none.
LEMMA ContractConserves ==
    ASSUME IsFiniteSet(Users), TypeOK, TypeOK', NEW o \in Orders,
           Contract!Strike(o) \/ Contract!Deliver(o) \/ Contract!Return(o),
           Deals[o] = Contract!NoDeal => Vault[o] = 0,
           Deals[o].state = "held" => Deals[o].seller \in Users /\ Deals[o].buyer \in Users
    PROVE  Wealth' = Wealth
<1>0. /\ Purse \in [Users -> Nat] /\ Purse' \in [Users -> Nat]
      /\ Vault \in [Orders -> Nat] /\ Vault' \in [Orders -> Nat]
      /\ adminFees \in Nat /\ adminFees' \in Nat
  BY WealthParts
<1>1. CASE Contract!Strike(o)
  <2> DEFINE s == Deals'[o].seller
             c == Vault'[o]
  <2>1. /\ s \in Users /\ Deals[o] = Contract!NoDeal /\ UNCHANGED adminFees
        /\ Purse' = [Purse EXCEPT ![s] = @ - c] /\ Vault' = [Vault EXCEPT ![o] = c]
    BY <1>1 DEF Contract!Strike, Contract!Terms, Deals, Vault
  <2>2. c \in Nat /\ Vault[o] = 0
    BY <1>0, <2>1
  <2> HIDE DEF s, c
  <2>3. /\ Purse'[s] = Purse[s] - c + 0 /\ \A v \in Users \ {s} : Purse'[v] = Purse[v]
        /\ Vault'[o] = Vault[o] + c /\ \A p \in Orders \ {o} : Vault'[p] = Vault[p]
        /\ adminFees' = adminFees - 0
    BY <1>0, <2>1, <2>2
  <2> QED
    BY <2>1, <2>2, <2>3, PurseToVault
<1>2. CASE Contract!Deliver(o)
  <2> DEFINE b == Deals[o].buyer
             n == Deals[o].gets
             c == Vault[o]
  <2>1. /\ Deals[o].state = "held" /\ Purse' = [Purse EXCEPT ![b] = @ + n]
        /\ adminFees' = adminFees + c - n /\ Vault' = [Vault EXCEPT ![o] = 0]
    BY <1>2 DEF Contract!Deliver, Deals, Vault
  <2>2. n \in Nat /\ c \in Nat /\ b \in Users
    <3>1. order[o] \in OrderRow
      BY DEF TypeOK
    <3>2. n \in Nat
      BY <3>1 DEF Deals, DealOf, OrderRow
    <3> QED
      BY <1>0, <2>1, <3>2
  <2> HIDE DEF b, n, c
  <2>3. /\ Purse'[b] = Purse[b] - (0 - c) + (n - c)
        /\ \A v \in Users \ {b} : Purse'[v] = Purse[v]
        /\ Vault'[o] = Vault[o] + (0 - c) /\ \A p \in Orders \ {o} : Vault'[p] = Vault[p]
        /\ adminFees' = adminFees - (n - c)
    BY <1>0, <2>1, <2>2 DEF c
  <2> DEFINE k == 0 - c
             g == n - c
  <2>4. k \in Int /\ g \in Int
    BY <2>2
  <2>5. /\ Purse'[b] = Purse[b] - k + g /\ \A v \in Users \ {b} : Purse'[v] = Purse[v]
        /\ Vault'[o] = Vault[o] + k /\ \A p \in Orders \ {o} : Vault'[p] = Vault[p]
        /\ adminFees' = adminFees - g
    BY <2>3
  <2> HIDE DEF k, g
  <2> QED
    BY <2>2, <2>4, <2>5, PurseToVault
<1>3. CASE Contract!Return(o)
  <2> DEFINE s == Deals[o].seller
             c == Vault[o]
  <2>1. /\ Deals[o].state = "held" /\ Purse' = [Purse EXCEPT ![s] = @ + c]
        /\ UNCHANGED adminFees /\ Vault' = [Vault EXCEPT ![o] = 0]
    BY <1>3 DEF Contract!Return, Deals, Vault
  <2>2. c \in Nat /\ s \in Users
    BY <1>0, <2>1
  <2> HIDE DEF s, c
  <2>3. /\ Purse'[s] = Purse[s] - (0 - c) + 0 /\ \A v \in Users \ {s} : Purse'[v] = Purse[v]
        /\ Vault'[o] = Vault[o] + (0 - c) /\ \A p \in Orders \ {o} : Vault'[p] = Vault[p]
        /\ adminFees' = adminFees - 0
    BY <1>0, <2>1, <2>2 DEF c
  <2> DEFINE k == 0 - c
  <2>4. k \in Int
    BY <2>2
  <2>5. /\ Purse'[s] = Purse[s] - k + 0 /\ Vault'[o] = Vault[o] + k
    BY <2>3
  <2> HIDE DEF k
  <2> QED
    BY <2>2, <2>3, <2>4, <2>5, PurseToVault
<1> QED
  BY <1>1, <1>2, <1>3

\* Rows without a deal hold nothing, and the parties of a deal are users.
LEMMA DealsFit ==
    ASSUME TypeOK, RowsAgree, EscrowMatchesStatus, NEW o \in Orders
    PROVE  /\ Deals[o] = Contract!NoDeal => Vault[o] = 0
           /\ Deals[o].state = "held" => Deals[o].seller \in Users /\ Deals[o].buyer \in Users
<1>1. /\ Deals[o] = DealOf(order[o]) /\ Vault[o] = order[o].escrow
      /\ order[o].status \in {"none"} \cup OpenStatuses \cup FinalStatuses
  BY DEF Deals, Vault, TypeOK, OrderRow
<1>2. CASE Deals[o] = Contract!NoDeal
  <2>1. order[o].status \notin OpenStatuses
    BY <1>1, <1>2, Outcomes DEF DealOf, Contract!NoDeal
  <2> QED
    BY <1>1, <1>2, <2>1 DEF EscrowMatchesStatus, DealOf, Contract!NoDeal
<1>3. CASE Deals[o].state = "held"
  <2>1. order[o].status \in OpenStatuses
    BY <1>1, <1>3, Outcomes DEF DealOf, FinalStatuses
  <2> QED
    BY <1>1, <1>3, <2>1 DEF DealOf, Contract!NoDeal, RowsAgree, OrderAgrees, Agreed, OpenStatuses
<1> QED
  BY <1>1, <1>2, <1>3, Outcomes DEF DealOf, Contract!NoDeal, FinalStatuses

\* No request of the marketplace makes BIUSD or loses any: what all users own,
\* what is in escrow and what the house has earned stay the same together,
\* through funding, rounding of fees, partial orders, refunds and sweeps.
THEOREM NothingMinted == IsFiniteSet(Users) /\ Spec => [][Wealth' = Wealth]_vars
<1> SUFFICES ASSUME IsFiniteSet(Users) PROVE Spec => [][Wealth' = Wealth]_vars
  OBVIOUS
<1>1. /\ TypeOK /\ RowsAgree /\ RowsAgree' /\ EscrowMatchesStatus /\ [Next]_vars
      => [Wealth' = Wealth]_vars
  <2> SUFFICES ASSUME TypeOK, RowsAgree, RowsAgree', EscrowMatchesStatus, [Next]_vars
               PROVE  Wealth' = Wealth
    OBVIOUS
  <2>1. TypeOK'
    BY StepTypeOK
  <2>2. [Contract!Next]_(Contract!contract)
    BY ContractSteps
  <2>3. CASE UNCHANGED Contract!contract
    <3>1. UNCHANGED <<Purse, Vault, adminFees>>
      BY <2>3 DEF Contract!contract, Vault
    <3> QED
      BY <3>1 DEF Wealth
  <2>4. CASE Contract!Next
    <3> PICK o \in Orders : Contract!Strike(o) \/ Contract!Deliver(o) \/ Contract!Return(o)
      BY <2>4 DEF Contract!Next
    <3> QED
      BY <2>1, DealsFit, ContractConserves
  <2> QED
    BY <2>2, <2>3, <2>4
<1> QED
  BY <1>1, TypeCorrect, RowsAlwaysAgree, EscrowCorrect, PTL DEF Spec
=============================================================================
