-------------------------- MODULE RowLocks_proofs --------------------------
(***************************************************************************)
(* Theorems about the row locks, for every number of concurrent requests   *)
(* and every set of users, ads and orders.                                 *)
(***************************************************************************)
EXTENDS RowLocks, Totals_proofs, TLAPS

-----------------------------------------------------------------------------
(* The order in which every transaction comes to its rows.                 *)

Rows == ({"user", "main", "wallet"} \X Users) \cup ({"order"} \X DOMAIN Orders)
        \cup ({"ad"} \X DOMAIN Ads) \cup {<<"fees", "BIUSD">>}

RowLock == [row : Rows, exclusive : BOOLEAN]

Rank == [user |-> 1, order |-> 2, ad |-> 3, main |-> 4, wallet |-> 5, fees |-> 6]

\* Row r comes before row q: its table does, or it is the row of a user whose
\* id does.
Earlier(r, q) ==
    \/ Rank[r[1]] < Rank[q[1]]
    \/ r[1] = q[1] /\ r[1] \in {"user", "main"} /\ Ids[r[2]] < Ids[q[2]]

\* A statement locks its row after every row the transaction holds; only the
\* locks of foreign keys come as they come.
InOrder(s) ==
    /\ s \in Seq(RowLock)
    /\ \A i, j \in 1..Len(s) : i < j /\ s[j].exclusive => Earlier(s[i].row, s[j].row)

\* The rows of an order are locked before everything else, and foreign keys are
\* keys of users, ads and orders.
OrdersFirst(s) ==
    \A i \in 1..Len(s) :
       /\ s[i].row[1] = "order" => i = 1
       /\ ~s[i].exclusive => s[i].row[1] \in {"user", "ad", "order"}

\* Earlier is a strict order of the rows.
LEMMA EarlierOrder ==
    /\ \A r \in Rows : ~Earlier(r, r)
    /\ \A r, q, p \in Rows : Earlier(r, q) /\ Earlier(q, p) => Earlier(r, p)
<1>1. \A r \in Rows : Rank[r[1]] \in Nat /\ (r[1] \in {"user", "main"} => Ids[r[2]] \in Nat)
  BY LocksAssumption DEF Rows, Rank
<1>2. \A r, q \in Rows : r[1] = q[1] => Rank[r[1]] = Rank[q[1]]
  OBVIOUS
<1> QED
  BY <1>1, <1>2 DEF Earlier

\* The locks of statements and of foreign keys.
LEMMA LockKinds ==
    /\ \A u \in Users : Update("user", u) \in RowLock /\ Update("main", u) \in RowLock
                        /\ Update("wallet", u) \in RowLock /\ Key("user", u) \in RowLock
    /\ \A o \in DOMAIN Orders : Update("order", o) \in RowLock /\ Key("order", o) \in RowLock
    /\ \A l \in DOMAIN Ads : Update("ad", l) \in RowLock /\ Key("ad", l) \in RowLock
    /\ Update("fees", "BIUSD") \in RowLock
    /\ \A t, x : /\ Update(t, x).row[1] = t /\ Update(t, x).row[2] = x /\ Update(t, x).exclusive
                 /\ Key(t, x).row[1] = t /\ Key(t, x).row[2] = x /\ ~Key(t, x).exclusive
BY DEF RowLock, Rows, Update, Key

\* Lists of locks, by their length.
LEMMA ShortLists ==
    /\ \A a \in RowLock : InOrder(<<a>>)
    /\ \A a, b \in RowLock :
          (b.exclusive => Earlier(a.row, b.row)) => InOrder(<<a, b>>)
    /\ \A a, b, c \in RowLock :
          (/\ b.exclusive => Earlier(a.row, b.row)
           /\ c.exclusive => Earlier(a.row, c.row) /\ Earlier(b.row, c.row)) => InOrder(<<a, b, c>>)
BY DEF InOrder

\* The longer ones, as they occur: only statements, statements and then two
\* foreign keys, and a release.
LEMMA LongLists ==
    /\ \A a, b, c, d \in RowLock :
          (/\ Earlier(a.row, b.row) /\ Earlier(a.row, c.row) /\ Earlier(b.row, c.row)
           /\ Earlier(a.row, d.row) /\ Earlier(b.row, d.row) /\ Earlier(c.row, d.row)) =>
          InOrder(<<a, b, c, d>>)
    /\ \A a, b, c, d, e \in RowLock :
          (/\ Earlier(a.row, b.row) /\ Earlier(a.row, c.row) /\ Earlier(b.row, c.row)
           /\ ~d.exclusive /\ ~e.exclusive) =>
          InOrder(<<a, b, c, d, e>>)
    /\ \A a, b, c, d, e, f \in RowLock :
          (/\ Earlier(a.row, b.row) /\ ~c.exclusive /\ ~d.exclusive /\ ~f.exclusive
           /\ Earlier(a.row, e.row) /\ Earlier(b.row, e.row) /\ Earlier(c.row, e.row)
           /\ Earlier(d.row, e.row)) =>
          InOrder(<<a, b, c, d, e, f>>)
<1>1. ASSUME NEW a \in RowLock, NEW b \in RowLock, NEW c \in RowLock, NEW d \in RowLock,
             /\ Earlier(a.row, b.row) /\ Earlier(a.row, c.row) /\ Earlier(b.row, c.row)
             /\ Earlier(a.row, d.row) /\ Earlier(b.row, d.row) /\ Earlier(c.row, d.row)
      PROVE  InOrder(<<a, b, c, d>>)
  <2> DEFINE s == <<a, b, c, d>>
  <2>1. s \in Seq(RowLock) /\ Len(s) = 4 /\ s[1] = a /\ s[2] = b /\ s[3] = c /\ s[4] = d
    OBVIOUS
  <2> HIDE DEF s
  <2>2. ASSUME NEW i \in 1..Len(s), NEW j \in 1..Len(s), i < j
        PROVE  Earlier(s[i].row, s[j].row)
    <3>1. (i = 1 /\ j \in {2, 3, 4}) \/ (i = 2 /\ j \in {3, 4}) \/ (i = 3 /\ j = 4)
      BY <2>1, <2>2
    <3> QED
      BY <1>1, <2>1, <3>1
  <2> QED
    BY <2>1, <2>2 DEF InOrder, s
<1>2. ASSUME NEW a \in RowLock, NEW b \in RowLock, NEW c \in RowLock, NEW d \in RowLock,
             NEW e \in RowLock,
             /\ Earlier(a.row, b.row) /\ Earlier(a.row, c.row) /\ Earlier(b.row, c.row)
             /\ ~d.exclusive /\ ~e.exclusive
      PROVE  InOrder(<<a, b, c, d, e>>)
  <2> DEFINE s == <<a, b, c, d, e>>
  <2>1. s \in Seq(RowLock) /\ Len(s) = 5
        /\ s[1] = a /\ s[2] = b /\ s[3] = c /\ s[4] = d /\ s[5] = e
    OBVIOUS
  <2> HIDE DEF s
  <2>2. ASSUME NEW i \in 1..Len(s), NEW j \in 1..Len(s), i < j, s[j].exclusive
        PROVE  Earlier(s[i].row, s[j].row)
    <3>1. j \in {2, 3}
      BY <1>2, <2>1, <2>2
    <3>2. (i = 1 /\ j \in {2, 3}) \/ (i = 2 /\ j = 3)
      BY <2>1, <2>2, <3>1
    <3> QED
      BY <1>2, <2>1, <3>2
  <2> QED
    BY <2>1, <2>2 DEF InOrder, s
<1>3. ASSUME NEW a \in RowLock, NEW b \in RowLock, NEW c \in RowLock, NEW d \in RowLock,
             NEW e \in RowLock, NEW f \in RowLock,
             /\ Earlier(a.row, b.row) /\ ~c.exclusive /\ ~d.exclusive /\ ~f.exclusive
             /\ Earlier(a.row, e.row) /\ Earlier(b.row, e.row) /\ Earlier(c.row, e.row)
             /\ Earlier(d.row, e.row)
      PROVE  InOrder(<<a, b, c, d, e, f>>)
  <2> DEFINE s == <<a, b, c, d, e, f>>
  <2>1. s \in Seq(RowLock) /\ Len(s) = 6
        /\ s[1] = a /\ s[2] = b /\ s[3] = c /\ s[4] = d /\ s[5] = e /\ s[6] = f
    OBVIOUS
  <2> HIDE DEF s
  <2>2. ASSUME NEW i \in 1..Len(s), NEW j \in 1..Len(s), i < j, s[j].exclusive
        PROVE  Earlier(s[i].row, s[j].row)
    <3>1. j \in {2, 5}
      BY <1>3, <2>1, <2>2
    <3>2. (i = 1 /\ j \in {2, 5}) \/ (i \in {2, 3, 4} /\ j = 5)
      BY <2>1, <2>2, <3>1
    <3> QED
      BY <1>3, <2>1, <3>2
  <2> QED
    BY <2>1, <2>2 DEF InOrder, s
<1> QED
  BY <1>1, <1>2, <1>3

\* What a table's rank says of two locks.
LEMMA RankedRows ==
    ASSUME NEW k \in RowLock, NEW m \in RowLock, Rank[k.row[1]] < Rank[m.row[1]]
    PROVE  Earlier(k.row, m.row)
BY DEF Earlier

-----------------------------------------------------------------------------
(* The transactions.                                                       *)

\* What an order row says of its ad's row.
LEMMA OrderFacts ==
    ASSUME NEW o \in DOMAIN Orders
    PROVE  /\ Orders[o].ad \in DOMAIN Ads
           /\ Orders[o].seller \in Users /\ Orders[o].buyer \in Users
           /\ Orders[o].seller # Orders[o].buyer
           /\ Ads[Orders[o].ad].creator =
                IF Ads[Orders[o].ad].side = "SELL" THEN Orders[o].seller ELSE Orders[o].buyer
BY LocksAssumption

\* And an ad's row of itself.
LEMMA AdFacts ==
    ASSUME NEW l \in DOMAIN Ads
    PROVE  /\ Ads[l].creator \in Users /\ Ads[l].side \in {"BUY", "SELL"}
           /\ Ads[l].source \in {"P2P_WALLET", "MAIN_WALLET_LEGACY"}
BY LocksAssumption

\* Funding locks the main balance before the P2P wallet.
LEMMA FundOrder ==
    ASSUME NEW u \in Users
    PROVE  InOrder(FundWalletAsset(u).locks) /\ OrdersFirst(FundWalletAsset(u).locks)
<1> DEFINE a == Update("main", u)
           b == Update("wallet", u)
           c == Key("user", u)
<1>1. FundWalletAsset(u).locks = <<a, b, c>>
  BY DEF FundWalletAsset, Transaction
<1>2. /\ a \in RowLock /\ b \in RowLock /\ c \in RowLock /\ ~c.exclusive
      /\ a.row[1] = "main" /\ b.row[1] = "wallet" /\ c.row[1] = "user"
      /\ a.exclusive /\ b.exclusive
  BY LockKinds
<1> HIDE DEF a, b, c
<1>3. Earlier(a.row, b.row)
  BY <1>2, RankedRows DEF Rank
<1> QED
  BY <1>1, <1>2, <1>3, ShortLists DEF OrdersFirst

\* Posting an ad locks the user before the wallet.
LEMMA PostOrder ==
    ASSUME NEW u \in Users, NEW side \in {"BUY", "SELL"}
    PROVE  InOrder(CreateListing(u, side).locks) /\ OrdersFirst(CreateListing(u, side).locks)
<1> DEFINE a == Update("user", u)
           b == Update("wallet", u)
<1>1. CreateListing(u, side).locks \in {<<a, b>>, <<a>>}
  BY DEF CreateListing, Transaction
<1>2. /\ a \in RowLock /\ b \in RowLock /\ a.exclusive /\ b.exclusive
      /\ a.row[1] = "user" /\ b.row[1] = "wallet"
  BY LockKinds
<1> HIDE DEF a, b
<1>3. Earlier(a.row, b.row)
  BY <1>2, RankedRows DEF Rank
<1> QED
  BY <1>1, <1>2, <1>3, ShortLists DEF OrdersFirst

\* Taking an ad locks the user, the ad and the balance that backs the order.
LEMMA TakeOrder ==
    ASSUME NEW u \in Users, NEW l \in DOMAIN Ads
    PROVE  /\ InOrder(CreateOrder(u, l).locks) /\ OrdersFirst(CreateOrder(u, l).locks)
           /\ CreateOrder(u, l).locks[1] = Update("user", u)
           /\ Len(CreateOrder(u, l).locks) = 5
           /\ \A i \in {4, 5} : CreateOrder(u, l).locks[i].row[1] = "user"
<1> DEFINE seller == IF Ads[l].side = "BUY" THEN u ELSE Ads[l].creator
           buyer == IF Ads[l].side = "BUY" THEN Ads[l].creator ELSE u
           purse == IF Ads[l].side = "BUY" \/ Ads[l].source = "P2P_WALLET"
                    THEN "wallet" ELSE "main"
           a == Update("user", u)
           b == Update("ad", l)
           c == Update(purse, seller)
           d == Key("user", seller)
           e == Key("user", buyer)
<1>1. CreateOrder(u, l).locks = <<a, b, c, d, e>>
  BY DEF CreateOrder, Transaction
<1>2. seller \in Users /\ buyer \in Users /\ purse \in {"wallet", "main"}
  BY AdFacts
<1> HIDE DEF seller, buyer, purse
<1>3. /\ a \in RowLock /\ b \in RowLock /\ c \in RowLock /\ d \in RowLock /\ e \in RowLock
      /\ a.row[1] = "user" /\ b.row[1] = "ad" /\ c.row[1] \in {"wallet", "main"}
      /\ d.row[1] = "user" /\ e.row[1] = "user"
      /\ a.exclusive /\ b.exclusive /\ c.exclusive /\ ~d.exclusive /\ ~e.exclusive
  BY <1>2, LockKinds
<1> HIDE DEF a, b, c, d, e
<1>4. Earlier(a.row, b.row) /\ Earlier(a.row, c.row) /\ Earlier(b.row, c.row)
  BY <1>3, RankedRows DEF Rank
<1>5. InOrder(<<a, b, c, d, e>>)
  BY <1>3, <1>4, LongLists
<1>6. OrdersFirst(<<a, b, c, d, e>>)
  BY <1>3 DEF OrdersFirst
<1> QED
  BY <1>1, <1>3, <1>5, <1>6 DEF a

\* Attestations lock their order, then the user's key.
LEMMA AttestOrder ==
    ASSUME NEW u \in Users, NEW o \in DOMAIN Orders,
           NEW t \in {Attest(u, o), SendMessage(u, o)}
    PROVE  /\ InOrder(t.locks) /\ OrdersFirst(t.locks)
           /\ Len(t.locks) = 2 /\ t.locks[1].row[1] = "order" /\ t.locks[2] = Key("user", u)
<1>1. PICK a \in {Update("order", o), Key("order", o)} : t.locks = <<a, Key("user", u)>>
  BY DEF Attest, SendMessage, Transaction
<1> DEFINE b == Key("user", u)
<1>2. /\ a \in RowLock /\ b \in RowLock /\ a.row[1] = "order" /\ b.row[1] = "user" /\ ~b.exclusive
  BY LockKinds
<1>3. t.locks = <<a, b>>
  BY <1>1
<1> HIDE DEF b
<1> QED
  BY <1>2, <1>3, ShortLists DEF OrdersFirst, b

\* A release locks its order, the buyer's wallet and at last the fee wallet.
LEMMA ReleaseOrderFacts ==
    ASSUME NEW o \in DOMAIN Orders
    PROVE  /\ InOrder(ReleaseOrder(o).locks) /\ OrdersFirst(ReleaseOrder(o).locks)
           /\ ReleaseOrder(o).locks =
                <<Update("order", o), Update("wallet", Orders[o].buyer), Key("user", Orders[o].buyer),
                  Key("ad", Orders[o].ad), Update("fees", "BIUSD"), Key("user", Orders[o].seller)>>
<1> DEFINE a == Update("order", o)
           b == Update("wallet", Orders[o].buyer)
           c == Key("user", Orders[o].buyer)
           d == Key("ad", Orders[o].ad)
           e == Update("fees", "BIUSD")
           f == Key("user", Orders[o].seller)
<1>1. ReleaseOrder(o).locks = <<a, b, c, d, e, f>>
  BY DEF ReleaseOrder, Transaction
<1>2. /\ a \in RowLock /\ b \in RowLock /\ c \in RowLock /\ d \in RowLock /\ e \in RowLock
      /\ f \in RowLock
      /\ a.row[1] = "order" /\ b.row[1] = "wallet" /\ c.row[1] = "user" /\ d.row[1] = "ad"
      /\ e.row[1] = "fees" /\ f.row[1] = "user"
      /\ a.exclusive /\ b.exclusive /\ e.exclusive
      /\ ~c.exclusive /\ ~d.exclusive /\ ~f.exclusive
  BY LockKinds, OrderFacts
<1>3. ReleaseOrder(o).locks =
        <<Update("order", o), Update("wallet", Orders[o].buyer), Key("user", Orders[o].buyer),
          Key("ad", Orders[o].ad), Update("fees", "BIUSD"), Key("user", Orders[o].seller)>>
  BY <1>1
<1> HIDE DEF a, b, c, d, e, f
<1>4. /\ Earlier(a.row, b.row) /\ Earlier(a.row, e.row) /\ Earlier(b.row, e.row)
      /\ Earlier(c.row, e.row) /\ Earlier(d.row, e.row)
  BY <1>2, RankedRows DEF Rank
<1>5. InOrder(<<a, b, c, d, e, f>>)
  BY <1>2, <1>4, LongLists
<1>6. OrdersFirst(<<a, b, c, d, e, f>>)
  BY <1>2 DEF OrdersFirst
<1> QED
  BY <1>1, <1>3, <1>5, <1>6

\* A refund locks its order, the ad and the seller's wallet.
LEMMA RefundFacts ==
    ASSUME NEW o \in DOMAIN Orders
    PROVE  /\ InOrder(Refund(o).locks) /\ OrdersFirst(Refund(o).locks)
           /\ Refund(o).locks =
                <<Update("order", o), Update("ad", Orders[o].ad), Update("wallet", Orders[o].seller),
                  Key("user", Orders[o].seller), Key("user", Orders[o].buyer)>>
<1> DEFINE a == Update("order", o)
           b == Update("ad", Orders[o].ad)
           c == Update("wallet", Orders[o].seller)
           d == Key("user", Orders[o].seller)
           e == Key("user", Orders[o].buyer)
<1>1. Refund(o).locks = <<a, b, c, d, e>>
  BY DEF Refund, Transaction
<1>2. /\ a \in RowLock /\ b \in RowLock /\ c \in RowLock /\ d \in RowLock /\ e \in RowLock
      /\ a.row[1] = "order" /\ b.row[1] = "ad" /\ c.row[1] = "wallet"
      /\ d.row[1] = "user" /\ e.row[1] = "user"
      /\ a.exclusive /\ b.exclusive /\ c.exclusive /\ ~d.exclusive /\ ~e.exclusive
  BY LockKinds, OrderFacts
<1>3. Refund(o).locks =
        <<Update("order", o), Update("ad", Orders[o].ad), Update("wallet", Orders[o].seller),
          Key("user", Orders[o].seller), Key("user", Orders[o].buyer)>>
  BY <1>1
<1> HIDE DEF a, b, c, d, e
<1>4. Earlier(a.row, b.row) /\ Earlier(a.row, c.row) /\ Earlier(b.row, c.row)
  BY <1>2, RankedRows DEF Rank
<1>5. InOrder(<<a, b, c, d, e>>)
  BY <1>2, <1>4, LongLists
<1>6. OrdersFirst(<<a, b, c, d, e>>)
  BY <1>2 DEF OrdersFirst
<1> QED
  BY <1>1, <1>3, <1>5, <1>6

\* Withdrawing an ad locks the ad, then the balance it returns to.
LEMMA WithdrawFacts ==
    ASSUME NEW l \in DOMAIN Ads
    PROVE  /\ InOrder(CancelListing(l).locks) /\ OrdersFirst(CancelListing(l).locks)
           /\ CancelListing(l).locks[1] = Update("ad", l)
           /\ \/ CancelListing(l).locks = <<Update("ad", l)>>
              \/ Ads[l].side = "SELL" /\ CancelListing(l).locks =
                   <<Update("ad", l), Update("wallet", Ads[l].creator), Key("user", Ads[l].creator)>>
              \/ CancelListing(l).locks = <<Update("ad", l), Update("main", Ads[l].creator)>>
<1> DEFINE a == Update("ad", l)
           b == Update("wallet", Ads[l].creator)
           c == Key("user", Ads[l].creator)
           d == Update("main", Ads[l].creator)
<1>1. \/ CancelListing(l).locks = <<a>>
      \/ Ads[l].side = "SELL" /\ CancelListing(l).locks = <<a, b, c>>
      \/ CancelListing(l).locks = <<a, d>>
  BY AdFacts DEF CancelListing, Transaction
<1>2. /\ a \in RowLock /\ b \in RowLock /\ c \in RowLock /\ d \in RowLock
      /\ a.row[1] = "ad" /\ b.row[1] = "wallet" /\ c.row[1] = "user" /\ d.row[1] = "main"
      /\ a.exclusive /\ b.exclusive /\ d.exclusive /\ ~c.exclusive
  BY LockKinds, AdFacts
<1>3. \/ CancelListing(l).locks = <<Update("ad", l)>>
      \/ Ads[l].side = "SELL" /\ CancelListing(l).locks =
           <<Update("ad", l), Update("wallet", Ads[l].creator), Key("user", Ads[l].creator)>>
      \/ CancelListing(l).locks = <<Update("ad", l), Update("main", Ads[l].creator)>>
  BY <1>1
<1>4. CancelListing(l).locks[1] = Update("ad", l)
  BY <1>3
<1> HIDE DEF a, b, c, d
<1>5. Earlier(a.row, b.row) /\ Earlier(a.row, d.row)
  BY <1>2, RankedRows DEF Rank
<1>6. InOrder(<<a>>) /\ InOrder(<<a, b, c>>) /\ InOrder(<<a, d>>)
  BY <1>2, <1>5, ShortLists
<1>7. OrdersFirst(<<a>>) /\ OrdersFirst(<<a, b, c>>) /\ OrdersFirst(<<a, d>>)
  BY <1>2 DEF OrdersFirst
<1> QED
  BY <1>1, <1>3, <1>4, <1>6, <1>7

\* Transfers and fills lock the rows of both parties in the order of their ids.
LEMMA TransferOrder ==
    ASSUME NEW p \in Transfers, NEW t \in {TransferBalance(p[1], p[2]), SettleSpotTrade(p[1], p[2])}
    PROVE  /\ InOrder(t.locks) /\ OrdersFirst(t.locks)
           /\ \A i \in 1..Len(t.locks) : t.locks[i].exclusive /\ t.locks[i].row[1] \in {"user", "main"}
<1> DEFINE a == Update("user", p[1])
           b == Update("user", p[2])
           c == Update("main", p[1])
           d == Update("main", p[2])
<1>1. t.locks \in {<<a, b, c, d>>, <<c, d>>}
  BY DEF TransferBalance, SettleSpotTrade, Transaction
<1>2. p[1] \in Users /\ p[2] \in Users /\ Ids[p[1]] < Ids[p[2]]
  BY DEF Transfers
<1>3. /\ a \in RowLock /\ b \in RowLock /\ c \in RowLock /\ d \in RowLock
      /\ a.row[1] = "user" /\ b.row[1] = "user" /\ c.row[1] = "main" /\ d.row[1] = "main"
      /\ a.row[2] = p[1] /\ b.row[2] = p[2] /\ c.row[2] = p[1] /\ d.row[2] = p[2]
      /\ a.exclusive /\ b.exclusive /\ c.exclusive /\ d.exclusive
  BY <1>2, LockKinds
<1> HIDE DEF a, b, c, d
<1>4. Earlier(a.row, b.row) /\ Earlier(c.row, d.row)
  BY <1>2, <1>3 DEF Earlier
<1>5. /\ Earlier(a.row, c.row) /\ Earlier(a.row, d.row) /\ Earlier(b.row, c.row)
      /\ Earlier(b.row, d.row)
  BY <1>3, RankedRows DEF Rank
<1>6. InOrder(<<a, b, c, d>>) /\ InOrder(<<c, d>>)
  BY <1>3, <1>4, <1>5, ShortLists, LongLists
<1>7. OrdersFirst(<<a, b, c, d>>) /\ OrdersFirst(<<c, d>>)
  BY <1>3 DEF OrdersFirst
<1>8. ASSUME NEW s \in {<<a, b, c, d>>, <<c, d>>}, NEW i \in 1..Len(s)
      PROVE  s[i].exclusive /\ s[i].row[1] \in {"user", "main"}
  <2>1. s[i] \in {a, b, c, d}
    BY <1>8
  <2> QED
    BY <1>3, <2>1
<1> QED
  BY <1>1, <1>6, <1>7, <1>8

\* The transactions by what they are for.
LEMMA TransactionCases ==
    ASSUME NEW t \in Transactions
    PROVE  \/ \E u \in Users : t = FundWalletAsset(u)
           \/ \E u \in Users, side \in {"BUY", "SELL"} : t = CreateListing(u, side)
           \/ \E u \in Users, l \in DOMAIN Ads : t = CreateOrder(u, l)
           \/ \E o \in DOMAIN Orders : t \in Witness(o)
           \/ \E o \in DOMAIN Orders : t = ReleaseOrder(o)
           \/ \E o \in DOMAIN Orders : t = Refund(o)
           \/ \E l \in DOMAIN Ads : t = CancelListing(l)
           \/ \E p \in Transfers : t \in Moving(p)
<1>1. ASSUME t \in {CreateOrder(p[1], p[2]) :
                      p \in {q \in Users \X DOMAIN Ads : q[1] # Ads[q[2]].creator}}
      PROVE  \E u \in Users, l \in DOMAIN Ads : t = CreateOrder(u, l)
  <2>1. PICK p \in Users \X DOMAIN Ads : t = CreateOrder(p[1], p[2])
    BY <1>1
  <2>2. p[1] \in Users /\ p[2] \in DOMAIN Ads
    OBVIOUS
  <2> QED
    BY <2>1, <2>2
<1>2. ASSUME t \in UNION {Witness(o) : o \in DOMAIN Orders}
      PROVE  \E o \in DOMAIN Orders : t \in Witness(o)
  BY <1>2
<1>3. ASSUME t \in UNION {Moving(p) : p \in Transfers}
      PROVE  \E p \in Transfers : t \in Moving(p)
  BY <1>3
<1>4. ASSUME t \in {CreateListing(u, side) : u \in Users, side \in {"BUY", "SELL"}}
      PROVE  \E u \in Users, side \in {"BUY", "SELL"} : t = CreateListing(u, side)
  BY <1>4
<1>5. /\ t \in {FundWalletAsset(u) : u \in Users} => \E u \in Users : t = FundWalletAsset(u)
      /\ t \in {ReleaseOrder(o) : o \in DOMAIN Orders} => \E o \in DOMAIN Orders : t = ReleaseOrder(o)
      /\ t \in {Refund(o) : o \in DOMAIN Orders} => \E o \in DOMAIN Orders : t = Refund(o)
      /\ t \in {CancelListing(l) : l \in DOMAIN Ads} => \E l \in DOMAIN Ads : t = CancelListing(l)
  OBVIOUS
<1> DEFINE Taking == {CreateOrder(p[1], p[2]) :
                        p \in {q \in Users \X DOMAIN Ads : q[1] # Ads[q[2]].creator}}
           Witnessing == UNION {Witness(o) : o \in DOMAIN Orders}
           MovingMoney == UNION {Moving(p) : p \in Transfers}
           Posting == {CreateListing(u, side) : u \in Users, side \in {"BUY", "SELL"}}
           Funding == {FundWalletAsset(u) : u \in Users}
           Releasing == {ReleaseOrder(o) : o \in DOMAIN Orders}
           Refunding == {Refund(o) : o \in DOMAIN Orders}
           Withdrawing == {CancelListing(l) : l \in DOMAIN Ads}
<1>6. Transactions = Funding \cup Posting \cup Taking \cup Witnessing \cup Releasing
                       \cup Refunding \cup Withdrawing \cup MovingMoney
  BY DEF Transactions
<1>7. /\ t \in Taking => \E u \in Users, l \in DOMAIN Ads : t = CreateOrder(u, l)
      /\ t \in Witnessing => \E o \in DOMAIN Orders : t \in Witness(o)
      /\ t \in MovingMoney => \E p \in Transfers : t \in Moving(p)
      /\ t \in Posting => \E u \in Users, side \in {"BUY", "SELL"} : t = CreateListing(u, side)
  BY <1>1, <1>2, <1>3, <1>4
<1>8. /\ t \in Funding => \E u \in Users : t = FundWalletAsset(u)
      /\ t \in Releasing => \E o \in DOMAIN Orders : t = ReleaseOrder(o)
      /\ t \in Refunding => \E o \in DOMAIN Orders : t = Refund(o)
      /\ t \in Withdrawing => \E l \in DOMAIN Ads : t = CancelListing(l)
  BY <1>5
<1> HIDE DEF Taking, Witnessing, MovingMoney, Posting, Funding, Releasing, Refunding, Withdrawing
<1> QED
  BY <1>6, <1>7, <1>8

\* Every transaction comes to its rows in the order.
LEMMA AllInOrder ==
    ASSUME NEW t \in Transactions
    PROVE  InOrder(t.locks) /\ OrdersFirst(t.locks)
<1>1. CASE \E u \in Users : t = FundWalletAsset(u)
  BY <1>1, FundOrder
<1>2. CASE \E u \in Users, side \in {"BUY", "SELL"} : t = CreateListing(u, side)
  BY <1>2, PostOrder
<1>3. CASE \E u \in Users, l \in DOMAIN Ads : t = CreateOrder(u, l)
  BY <1>3, TakeOrder
<1>4. CASE \E o \in DOMAIN Orders : t \in Witness(o)
  BY <1>4, AttestOrder, OrderFacts DEF Witness
<1>5. CASE \E o \in DOMAIN Orders : t = ReleaseOrder(o) \/ t = Refund(o)
  BY <1>5, ReleaseOrderFacts, RefundFacts
<1>6. CASE \E l \in DOMAIN Ads : t = CancelListing(l)
  BY <1>6, WithdrawFacts
<1>7. CASE \E p \in Transfers : t \in Moving(p)
  BY <1>7, TransferOrder DEF Moving
<1> QED
  BY <1>1, <1>2, <1>3, <1>4, <1>5, <1>6, <1>7, TransactionCases

\* The transactions that only bear witness are those on an order's rows alone.
LEMMA WitnessLocks ==
    ASSUME NEW t \in Transactions, t.kind = "attest"
    PROVE  Len(t.locks) = 2 /\ t.locks[1].row[1] = "order"
<1>1. /\ \A u : FundWalletAsset(u).kind # "attest"
      /\ \A u, side : CreateListing(u, side).kind # "attest"
      /\ \A u, l : CreateOrder(u, l).kind # "attest"
      /\ \A o : ReleaseOrder(o).kind # "attest" /\ Refund(o).kind # "attest"
      /\ \A l : CancelListing(l).kind # "attest"
      /\ \A a, b : TransferBalance(a, b).kind # "attest" /\ SettleSpotTrade(a, b).kind # "attest"
  BY DEF Transaction, FundWalletAsset, CreateListing, CreateOrder, ReleaseOrder, Refund,
         CancelListing, TransferBalance, SettleSpotTrade
<1>2. PICK o \in DOMAIN Orders : t \in Witness(o)
  BY <1>1, TransactionCases DEF Moving
<1> QED
  BY <1>2, AttestOrder, OrderFacts DEF Witness

\* Which transactions lock a given row of an ad: those that take the ad, after a
\* row of users, the refunds of its orders, and its withdrawal; and those that
\* need its key: the releases of its orders.
LEMMA AdLocks ==
    ASSUME NEW t \in Transactions, NEW i \in 1..Len(t.locks), t.locks[i].row[1] = "ad"
    PROVE  LET l == t.locks[i].row[2]
           IN  /\ t.locks[i].exclusive =>
                    \/ i > 1 /\ t.locks[1].row[1] = "user" /\ t.locks[1].exclusive
                    \/ i = 2 /\ \E o \in DOMAIN Orders : Orders[o].ad = l /\ t = Refund(o)
                    \/ i = 1 /\ l \in DOMAIN Ads /\ t = CancelListing(l)
               /\ ~t.locks[i].exclusive =>
                    i = 4 /\ \E o \in DOMAIN Orders : Orders[o].ad = l /\ t = ReleaseOrder(o)
<1> DEFINE k == t.locks[i]
           l == k.row[2]
<1> SUFFICES /\ k.exclusive =>
                  \/ i > 1 /\ t.locks[1].row[1] = "user" /\ t.locks[1].exclusive
                  \/ i = 2 /\ \E o \in DOMAIN Orders : Orders[o].ad = l /\ t = Refund(o)
                  \/ i = 1 /\ l \in DOMAIN Ads /\ t = CancelListing(l)
             /\ ~k.exclusive =>
                  i = 4 /\ \E o \in DOMAIN Orders : Orders[o].ad = l /\ t = ReleaseOrder(o)
  OBVIOUS
<1>1. CASE \E u \in Users : t = FundWalletAsset(u)
  <2>1. PICK u \in Users : t = FundWalletAsset(u)
    BY <1>1
  <2>2. k \in {Update("main", u), Update("wallet", u), Key("user", u)}
    BY <2>1 DEF FundWalletAsset, Transaction
  <2> QED
    BY <2>2, LockKinds
<1>2. CASE \E u \in Users, side \in {"BUY", "SELL"} : t = CreateListing(u, side)
  <2>1. PICK u \in Users, side \in {"BUY", "SELL"} : t = CreateListing(u, side)
    BY <1>2
  <2>2. k \in {Update("user", u), Update("wallet", u)}
    BY <2>1 DEF CreateListing, Transaction
  <2> QED
    BY <2>2, LockKinds
<1>3. CASE \E u \in Users, ad \in DOMAIN Ads : t = CreateOrder(u, ad)
  <2>1. PICK u \in Users, ad \in DOMAIN Ads : t = CreateOrder(u, ad)
    BY <1>3
  <2>2. t.locks[1] = Update("user", u) /\ Len(t.locks) = 5
        /\ \A j \in {4, 5} : t.locks[j].row[1] = "user"
    BY <2>1, TakeOrder
  <2>3. t.locks[1].row[1] = "user" /\ t.locks[1].exclusive
    BY <2>2, LockKinds
  <2>4. i > 1 /\ i \in {2, 3}
    BY <2>2, <2>3
  <2>5. k.exclusive
    <3>1. k = Update("ad", ad) \/ \E purse, x : k = Update(purse, x)
      BY <2>1, <2>4 DEF CreateOrder, Transaction
    <3> QED
      BY <3>1, LockKinds
  <2> QED
    BY <2>3, <2>4, <2>5
<1>4. CASE \E o \in DOMAIN Orders : t \in Witness(o)
  <2>1. PICK o \in DOMAIN Orders, u \in Users : t \in {Attest(u, o), SendMessage(u, o)}
    BY <1>4, OrderFacts DEF Witness
  <2>2. k \in {Update("order", o), Key("order", o), Key("user", u)}
    BY <2>1 DEF Attest, SendMessage, Transaction
  <2> QED
    BY <2>2, LockKinds
<1>5. CASE \E o \in DOMAIN Orders : t = ReleaseOrder(o)
  <2>1. PICK o \in DOMAIN Orders : t = ReleaseOrder(o)
    BY <1>5
  <2> DEFINE a == Update("order", o)
             b == Update("wallet", Orders[o].buyer)
             c == Key("user", Orders[o].buyer)
             d == Key("ad", Orders[o].ad)
             e == Update("fees", "BIUSD")
             f == Key("user", Orders[o].seller)
  <2>2. t.locks = <<a, b, c, d, e, f>>
    BY <2>1, ReleaseOrderFacts
  <2>3. /\ a.row[1] = "order" /\ b.row[1] = "wallet" /\ c.row[1] = "user"
        /\ e.row[1] = "fees" /\ f.row[1] = "user"
        /\ ~d.exclusive /\ d.row[2] = Orders[o].ad
    BY LockKinds
  <2> HIDE DEF a, b, c, d, e, f
  <2>4. i = 4 /\ k = d
    BY <2>2, <2>3
  <2> HIDE DEF k
  <2> QED
    BY <2>1, <2>3, <2>4
<1>6. CASE \E o \in DOMAIN Orders : t = Refund(o)
  <2>1. PICK o \in DOMAIN Orders : t = Refund(o)
    BY <1>6
  <2> DEFINE a == Update("order", o)
             b == Update("ad", Orders[o].ad)
             c == Update("wallet", Orders[o].seller)
             d == Key("user", Orders[o].seller)
             e == Key("user", Orders[o].buyer)
  <2>2. t.locks = <<a, b, c, d, e>>
    BY <2>1, RefundFacts
  <2>3. /\ a.row[1] = "order" /\ c.row[1] = "wallet" /\ d.row[1] = "user" /\ e.row[1] = "user"
        /\ b.exclusive /\ b.row[2] = Orders[o].ad
    BY LockKinds
  <2> HIDE DEF a, b, c, d, e
  <2>4. i = 2 /\ k = b
    BY <2>2, <2>3
  <2> HIDE DEF k
  <2> QED
    BY <2>1, <2>3, <2>4
<1>7. CASE \E ad \in DOMAIN Ads : t = CancelListing(ad)
  <2>1. PICK ad \in DOMAIN Ads : t = CancelListing(ad)
    BY <1>7
  <2> DEFINE a == Update("ad", ad)
             b == Update("wallet", Ads[ad].creator)
             c == Key("user", Ads[ad].creator)
             d == Update("main", Ads[ad].creator)
  <2>2. t.locks \in {<<a>>, <<a, b, c>>, <<a, d>>}
    BY <2>1, WithdrawFacts
  <2>3. /\ b.row[1] = "wallet" /\ c.row[1] = "user" /\ d.row[1] = "main"
        /\ a.exclusive /\ a.row[2] = ad
    BY LockKinds
  <2> HIDE DEF a, b, c, d
  <2>4. i = 1 /\ k = a
    BY <2>2, <2>3
  <2> HIDE DEF k
  <2> QED
    BY <2>1, <2>3, <2>4
<1>8. CASE \E p \in Transfers : t \in Moving(p)
  BY <1>8, TransferOrder DEF Moving
<1> HIDE DEF k
<1> QED
  BY <1>1, <1>2, <1>3, <1>4, <1>5, <1>6, <1>7, <1>8, TransactionCases

-----------------------------------------------------------------------------
(* The state.                                                              *)

\* A request's transaction is one of those the code has, and it holds some
\* first locks of it.
LocksTypeOK ==
    /\ open \subseteq Requests
    /\ DOMAIN tx = Requests /\ \A c \in Requests : tx[c] \in Transactions \cup {Over}
    /\ got \in [Requests -> Nat] /\ \A c \in Requests : got[c] <= Len(tx[c].locks)

\* The transaction of a request has finitely many locks, each on a row.
LEMMA LocksOf ==
    ASSUME LocksTypeOK, NEW c \in Requests
    PROVE  /\ tx[c].locks \in Seq(RowLock) /\ Len(tx[c].locks) \in Nat /\ got[c] \in Nat
           /\ \A i \in 1..got[c] : i \in 1..Len(tx[c].locks) /\ tx[c].locks[i] \in RowLock
<1>1. Over.locks = <<>> /\ Over.locks \in Seq(RowLock)
  BY DEF Over, Transaction
<1>2. tx[c].locks \in Seq(RowLock)
  BY <1>1, AllInOrder DEF LocksTypeOK, InOrder
<1>3. Len(tx[c].locks) \in Nat /\ got[c] \in Nat /\ got[c] <= Len(tx[c].locks)
  BY <1>2 DEF LocksTypeOK
<1> DEFINE s == tx[c].locks
<1>4. s \in Seq(RowLock) /\ Len(s) \in Nat
  BY <1>2
<1> HIDE DEF s
<1>5. \A i \in 1..Len(s) : s[i] \in RowLock
  BY <1>4
<1> QED
  BY <1>2, <1>3, <1>5 DEF s

\* A transaction that waits has a lock to wait for.
LEMMA WantedOf ==
    ASSUME LocksTypeOK, NEW c \in Requests, Waiting(c)
    PROVE  /\ tx[c] \in Transactions /\ got[c] + 1 \in 1..Len(tx[c].locks)
           /\ Wanted(c) \in RowLock
<1>1. tx[c] # Over
  <2>1. Len(Over.locks) = 0
    BY DEF Over, Transaction
  <2> QED
    BY <2>1, LocksOf DEF Waiting
<1>2. tx[c].locks \in Seq(RowLock) /\ got[c] \in Nat /\ Len(tx[c].locks) \in Nat
      /\ got[c] < Len(tx[c].locks)
  BY LocksOf DEF Waiting
<1>3. got[c] + 1 \in 1..Len(tx[c].locks)
  BY <1>2
<1> DEFINE s == tx[c].locks
<1>4. \A i \in 1..Len(s) : s[i] \in RowLock
  <2>1. s \in Seq(RowLock)
    BY <1>2
  <2> HIDE DEF s
  <2> QED
    BY <2>1
<1> QED
  BY <1>1, <1>3, <1>4 DEF Wanted, LocksTypeOK

\* The types hold whatever requests come together.
LEMMA LocksTyped == Spec => []LocksTypeOK
<1>1. Init => LocksTypeOK
  <2> SUFFICES ASSUME Init PROVE LocksTypeOK
    OBVIOUS
  <2>1. \A c \in Requests : tx[c] \in Transactions
    BY DEF Init
  <2>2. \A c \in Requests : Len(tx[c].locks) \in Nat
    BY <2>1, AllInOrder DEF InOrder
  <2> QED
    BY <2>1, <2>2 DEF Init, LocksTypeOK
<1>2. LocksTypeOK /\ [Next]_vars => LocksTypeOK'
  <2> SUFFICES ASSUME LocksTypeOK, [Next]_vars PROVE LocksTypeOK'
    OBVIOUS
  <2>1. CASE UNCHANGED vars
    BY <2>1 DEF vars, LocksTypeOK
  <2>2. ASSUME NEW c \in Requests, Acquire(c) PROVE LocksTypeOK'
    <3>1. got' = [got EXCEPT ![c] = got[c] + 1] /\ UNCHANGED <<open, tx>> /\ Waiting(c)
      BY <2>2 DEF Acquire
    <3>2. got[c] + 1 \in Nat /\ got[c] + 1 <= Len(tx[c].locks)
      BY <3>1, LocksOf DEF Waiting
    <3> DEFINE n == got[c] + 1
    <3>3. got' = [got EXCEPT ![c] = n] /\ n \in Nat /\ n <= Len(tx[c].locks)
      BY <3>1, <3>2
    <3> HIDE DEF n
    <3> QED
      BY <3>1, <3>3 DEF LocksTypeOK
  <2>3. ASSUME NEW c \in Requests, DropLocks(c), open' \subseteq open PROVE LocksTypeOK'
    <3>1. tx' = [tx EXCEPT ![c] = Over] /\ got' = [got EXCEPT ![c] = 0]
      BY <2>3 DEF DropLocks
    <3>2. Len(Over.locks) = 0
      BY DEF Over, Transaction
    <3> QED
      BY <2>3, <3>1, <3>2 DEF LocksTypeOK
  <2> QED
    BY <2>1, <2>2, <2>3 DEF Next, Commit, Fail, Victim
<1> QED
  BY <1>1, <1>2, PTL DEF Spec

-----------------------------------------------------------------------------
(* Cycles.                                                                 *)

\* Among finitely many rows there is one that comes before none of them.
LEMMA LastRow ==
    ASSUME NEW S, IsFiniteSet(S), S # {}, NEW w \in [S -> Rows]
    PROVE  \E c \in S : \A d \in S : ~Earlier(w[c], w[d])
<1> DEFINE G == {U \in SUBSET S : U # {} => \E c \in U : \A d \in U : ~Earlier(w[c], w[d])}
<1>1. {} \in G
  OBVIOUS
<1>2. ASSUME NEW U \in SUBSET S, NEW x \in U, U \ {x} \in G PROVE U \in G
  <2>1. CASE U \ {x} = {}
    <3>1. \A d \in U : d = x
      BY <2>1
    <3>2. ~Earlier(w[x], w[x])
      BY EarlierOrder
    <3> QED
      BY <3>1, <3>2
  <2>2. CASE U \ {x} # {}
    <3>1. PICK m \in U \ {x} : \A d \in U \ {x} : ~Earlier(w[m], w[d])
      BY <1>2, <2>2
    <3>2. CASE Earlier(w[m], w[x])
      <4>1. ASSUME NEW d \in U PROVE ~Earlier(w[x], w[d])
        <5>1. w[m] \in Rows /\ w[x] \in Rows /\ w[d] \in Rows
          OBVIOUS
        <5>2. CASE d = x
          BY <5>1, <5>2, EarlierOrder
        <5>3. CASE d # x
          BY <3>1, <3>2, <5>1, <5>3, EarlierOrder
        <5> QED
          BY <5>2, <5>3
      <4> QED
        BY <4>1
    <3>3. CASE ~Earlier(w[m], w[x])
      BY <3>1, <3>3
    <3> QED
      BY <3>2, <3>3
  <2> QED
    BY <2>1, <2>2
<1> HIDE DEF G
<1>3. S \in G
  BY <1>1, <1>2, SubsetInduction
<1> QED
  BY <1>3 DEF G

\* Every member of a cycle waits for one and keeps one waiting: without it the
\* rest would be stuck as well.
LEMMA CycleMembers ==
    ASSUME NEW S \in SUBSET Requests, Cycle(S), NEW c \in S
    PROVE  /\ Waiting(c)
           /\ \E d \in S : Blocks(d, c)
           /\ \E d \in S : Blocks(c, d)
<1>1. Stuck(S) /\ \A T \in SUBSET S : Stuck(T) => T = S
  BY DEF Cycle
<1>2. \A e \in S : Waiting(e) /\ \E d \in S : Blocks(d, e)
  BY <1>1 DEF Stuck
<1>3. ASSUME \A d \in S : ~Blocks(c, d) PROVE FALSE
  <2> DEFINE T == S \ {c}
  <2>1. \A e \in S : \E d \in T : Blocks(d, e)
    BY <1>2, <1>3
  <2>2. Stuck(T)
    BY <1>2, <2>1 DEF Stuck
  <2> QED
    BY <1>1, <2>2
<1> QED
  BY <1>2, <1>3

\* Who holds a row another wants exclusively, and wants one exclusively itself,
\* is further on in the order of the rows.
LEMMA BlockerIsAhead ==
    ASSUME LocksTypeOK, NEW c \in Requests, NEW d \in Requests, Waiting(c), Waiting(d),
           Wanted(d).exclusive, Blocks(d, c)
    PROVE  Earlier(Wanted(c).row, Wanted(d).row)
<1>1. PICK i \in 1..got[d] : tx[d].locks[i].row = Wanted(c).row
  BY DEF Blocks, Conflict
<1>2. /\ tx[d] \in Transactions /\ got[d] + 1 \in 1..Len(tx[d].locks)
      /\ i \in 1..Len(tx[d].locks) /\ got[d] \in Nat
  BY WantedOf, LocksOf
<1>3. InOrder(tx[d].locks)
  BY <1>2, AllInOrder
<1>4. i < got[d] + 1
  BY <1>2
<1> QED
  BY <1>1, <1>2, <1>3, <1>4 DEF InOrder, Wanted

\* The statements alone never deadlock, for any number of requests: each cycle
\* contains a wait for the key of a foreign row.
THEOREM StatementsNeverDeadlock == Spec => []CyclesCrossForeignKeys
<1>1. LocksTypeOK => CyclesCrossForeignKeys
  <2> SUFFICES ASSUME LocksTypeOK, NEW S \in SUBSET Requests, Cycle(S),
                      \A c \in S : Wanted(c).exclusive
               PROVE  FALSE
    BY DEF CyclesCrossForeignKeys
  <2>1. IsFiniteSet(S) /\ S # {}
    BY LocksAssumption, FS_Subset DEF Cycle, Stuck
  <2> DEFINE w == [c \in S |-> Wanted(c).row]
  <2>2. w \in [S -> Rows]
    <3>1. \A c \in S : Wanted(c).row \in Rows
      BY CycleMembers, WantedOf DEF RowLock
    <3> QED
      BY <3>1
  <2>3. ASSUME NEW c \in S PROVE \E d \in S : Earlier(w[c], w[d])
    <3>1. PICK d \in S : Blocks(d, c)
      BY CycleMembers
    <3>2. Earlier(Wanted(c).row, Wanted(d).row)
      BY <3>1, CycleMembers, BlockerIsAhead
    <3> QED
      BY <3>2
  <2> HIDE DEF w
  <2> QED
    BY <2>1, <2>2, <2>3, LastRow
<1> QED
  BY <1>1, LocksTyped, PTL

\* Attestations and messages are in no cycle: nobody who holds a lock waits for
\* the row of an order.
THEOREM AttestationsSafe == Spec => []AttestationsNeverVictims
<1>1. LocksTypeOK => AttestationsNeverVictims
  <2> SUFFICES ASSUME LocksTypeOK, NEW S \in SUBSET Requests, Cycle(S), NEW c \in S,
                      tx[c].kind = "attest"
               PROVE  FALSE
    BY DEF AttestationsNeverVictims
  <2>1. tx[c] \in Transactions /\ got[c] + 1 \in 1..Len(tx[c].locks) /\ got[c] \in Nat
    BY CycleMembers, WantedOf, LocksOf
  <2>2. Len(tx[c].locks) = 2 /\ tx[c].locks[1].row[1] = "order"
    BY <2>1, WitnessLocks
  <2>3. PICK d \in S : Blocks(c, d)
    BY CycleMembers
  <2>4. PICK i \in 1..got[c] : Conflict(tx[c].locks[i], Wanted(d))
    BY <2>3 DEF Blocks
  <2>5. i = 1 /\ Wanted(d).row[1] = "order"
    BY <2>1, <2>2, <2>4 DEF Conflict
  <2>6. tx[d] \in Transactions /\ got[d] + 1 \in 1..Len(tx[d].locks) /\ got[d] \in Nat
    BY CycleMembers, WantedOf, LocksOf
  <2>7. got[d] + 1 = 1
    BY <2>5, <2>6, AllInOrder DEF OrdersFirst, Wanted
  <2>8. PICK e \in S : Blocks(d, e)
    BY CycleMembers
  <2>9. 1..got[d] = {}
    BY <2>6, <2>7
  <2> QED
    BY <2>8, <2>9 DEF Blocks
<1> QED
  BY <1>1, LocksTyped, PTL

\* Orders of one ad: its buyer in one is not the seller in another.
LEMMA SameAdSides ==
    ASSUME NEW o \in DOMAIN Orders, NEW q \in DOMAIN Orders, Orders[o].ad = Orders[q].ad
    PROVE  Orders[o].buyer # Orders[q].seller
BY OrderFacts

\* A release that waits for its ad's key and holds what the one who has the ad
\* waits for: there is no such pair.
LEMMA NoReleasePair ==
    ASSUME LocksTypeOK, NEW x \in Requests, NEW y \in Requests, Waiting(x), Waiting(y),
           Blocks(x, y), got[x] = 3,
           NEW o \in DOMAIN Orders, tx[x] = ReleaseOrder(o),
           \/ got[y] >= 2 /\ \E q \in DOMAIN Orders : Orders[q].ad = Orders[o].ad /\ tx[y] = Refund(q)
           \/ got[y] >= 1 /\ tx[y] = CancelListing(Orders[o].ad)
    PROVE  FALSE
<1> DEFINE a == Update("order", o)
           b == Update("wallet", Orders[o].buyer)
           c == Key("user", Orders[o].buyer)
           W == Wanted(y)
<1>1. PICK i \in 1..3 : Conflict(tx[x].locks[i], W)
  BY DEF Blocks
<1>2. tx[x].locks[i] \in {a, b, c}
  BY ReleaseOrderFacts
<1>3. Conflict(a, W) \/ Conflict(b, W) \/ Conflict(c, W)
  BY <1>1, <1>2
<1>4. /\ a.row[1] = "order" /\ b.row[1] = "wallet" /\ b.row[2] = Orders[o].buyer
      /\ c.row[1] = "user" /\ ~c.exclusive
  BY LockKinds
<1>5. \/ \E u : W = Update("wallet", u) /\ u # Orders[o].buyer
      \/ \E u : W = Key("user", u)
      \/ \E u : W = Update("main", u)
  <2>0. got[y] \in Nat /\ got[y] + 1 \in 1..Len(tx[y].locks) /\ W = tx[y].locks[got[y] + 1]
    BY WantedOf, LocksOf DEF Wanted
  <2>1. CASE got[y] >= 2 /\ \E q \in DOMAIN Orders : Orders[q].ad = Orders[o].ad /\ tx[y] = Refund(q)
    <3>1. PICK q \in DOMAIN Orders : Orders[q].ad = Orders[o].ad /\ tx[y] = Refund(q)
      BY <2>1
    <3> DEFINE s == Orders[q].seller
               r == Orders[q].buyer
    <3>2. tx[y].locks = <<Update("order", q), Update("ad", Orders[q].ad), Update("wallet", s),
                          Key("user", s), Key("user", r)>>
      BY <3>1, RefundFacts
    <3>3. s # Orders[o].buyer
      BY <3>1, SameAdSides
    <3> HIDE DEF s, r, W
    <3>4. W \in {Update("wallet", s), Key("user", s), Key("user", r)}
      BY <2>0, <2>1, <3>2
    <3> QED
      BY <3>3, <3>4
  <2>2. CASE got[y] >= 1 /\ tx[y] = CancelListing(Orders[o].ad)
    <3> DEFINE l == Orders[o].ad
               s == Ads[l].creator
    <3>1. l \in DOMAIN Ads /\ (Ads[l].side = "SELL" => s # Orders[o].buyer)
      BY OrderFacts
    <3>2. \/ tx[y].locks = <<Update("ad", l)>>
          \/ Ads[l].side = "SELL" /\ tx[y].locks =
               <<Update("ad", l), Update("wallet", s), Key("user", s)>>
          \/ tx[y].locks = <<Update("ad", l), Update("main", s)>>
      BY <2>2, <3>1, WithdrawFacts
    <3> HIDE DEF l, s, W
    <3>3. CASE tx[y].locks = <<Update("ad", l)>>
      BY <2>0, <2>2, <3>3
    <3>4. CASE Ads[l].side = "SELL" /\ tx[y].locks =
               <<Update("ad", l), Update("wallet", s), Key("user", s)>>
      <4>1. W \in {Update("wallet", s), Key("user", s)}
        BY <2>0, <2>2, <3>4
      <4> QED
        BY <3>1, <3>4, <4>1
    <3>5. CASE tx[y].locks = <<Update("ad", l), Update("main", s)>>
      <4>1. W = Update("main", s)
        BY <2>0, <2>2, <3>5
      <4> QED
        BY <4>1
    <3> QED
      BY <3>2, <3>3, <3>4, <3>5
  <2> QED
    BY <2>1, <2>2
<1> HIDE DEF a, b, c, W
<1> QED
  BY <1>3, <1>4, <1>5, LockKinds DEF Conflict

\* Two that keep each other waiting, one of them for a key: a row of users is
\* locked.
LEMMA PairHasUser ==
    ASSUME LocksTypeOK, NEW x \in Requests, NEW y \in Requests, Waiting(x), Waiting(y),
           Blocks(x, y), Blocks(y, x), ~Wanted(x).exclusive
    PROVE  \E e \in {x, y} : \E i \in 1..got[e] :
              tx[e].locks[i].row[1] = "user" /\ tx[e].locks[i].exclusive
<1> SUFFICES ASSUME \A e \in {x, y} : \A i \in 1..got[e] :
                       ~(tx[e].locks[i].row[1] = "user" /\ tx[e].locks[i].exclusive)
             PROVE  FALSE
  OBVIOUS
<1>1. tx[x] \in Transactions /\ got[x] + 1 \in 1..Len(tx[x].locks) /\ got[x] \in Nat
  BY WantedOf, LocksOf
<1>2. tx[y] \in Transactions /\ got[y] \in Nat /\ \A i \in 1..got[y] : i \in 1..Len(tx[y].locks)
  BY WantedOf, LocksOf
<1>3. PICK j \in 1..got[y] : tx[y].locks[j].row = Wanted(x).row /\ tx[y].locks[j].exclusive
  BY DEF Blocks, Conflict
<1>4. Wanted(x).row[1] \in {"user", "ad", "order"}
  BY <1>1, AllInOrder DEF OrdersFirst, Wanted
<1>5. CASE Wanted(x).row[1] = "user"
  BY <1>3, <1>5
<1>6. CASE Wanted(x).row[1] = "order"
  <2>1. got[x] + 1 = 1
    BY <1>1, <1>6, AllInOrder DEF OrdersFirst, Wanted
  <2>2. 1..got[x] = {}
    BY <1>1, <2>1
  <2> QED
    BY <2>2 DEF Blocks
<1>7. CASE Wanted(x).row[1] = "ad"
  <2> DEFINE l == Wanted(x).row[2]
             g == got[x] + 1
  <2>1. g = 4 /\ \E o \in DOMAIN Orders : Orders[o].ad = l /\ tx[x] = ReleaseOrder(o)
    <3>1. tx[x].locks[g] = Wanted(x) /\ g \in 1..Len(tx[x].locks)
      BY <1>1 DEF Wanted
    <3> HIDE DEF g
    <3> QED
      BY <1>1, <1>7, <3>1, AdLocks
  <2>2. PICK o \in DOMAIN Orders : Orders[o].ad = l /\ tx[x] = ReleaseOrder(o)
    BY <2>1
  <2>3. got[x] = 3
    BY <1>1, <2>1
  <2> HIDE DEF g
  <2>4. \/ j > 1 /\ tx[y].locks[1].row[1] = "user" /\ tx[y].locks[1].exclusive
        \/ j = 2 /\ \E q \in DOMAIN Orders : Orders[q].ad = l /\ tx[y] = Refund(q)
        \/ j = 1 /\ l \in DOMAIN Ads /\ tx[y] = CancelListing(l)
    <3>1. tx[y].locks[j].row[1] = "ad" /\ tx[y].locks[j].row[2] = l /\ j \in 1..Len(tx[y].locks)
          /\ tx[y].locks[j].exclusive
      BY <1>2, <1>3, <1>7
    <3> HIDE DEF l
    <3> QED
      BY <1>2, <3>1, AdLocks
  <2>5. CASE j > 1 /\ tx[y].locks[1].row[1] = "user" /\ tx[y].locks[1].exclusive
    <3>1. 1 \in 1..got[y]
      BY <1>2, <2>5
    <3> QED
      BY <2>5, <3>1
  <2>6. CASE j = 2 /\ \E q \in DOMAIN Orders : Orders[q].ad = l /\ tx[y] = Refund(q)
    <3>1. got[y] >= 2
      BY <1>2, <2>6
    <3> HIDE DEF l
    <3> QED
      BY <2>2, <2>3, <2>6, <3>1, NoReleasePair
  <2>7. CASE j = 1 /\ l \in DOMAIN Ads /\ tx[y] = CancelListing(l)
    <3>1. got[y] >= 1
      BY <1>2, <2>7
    <3> HIDE DEF l
    <3> QED
      BY <2>2, <2>3, <2>7, <3>1, NoReleasePair
  <2> QED
    BY <2>4, <2>5, <2>6, <2>7
<1> QED
  BY <1>4, <1>5, <1>6, <1>7

\* Two transactions deadlock each other only if one of them has locked a row of
\* users: releases, refunds, withdrawn ads and fundings never do so among
\* themselves.
THEOREM PairsNeedUsers == Spec => []PairsLockUsers
<1>1. LocksTypeOK => PairsLockUsers
  <2> SUFFICES ASSUME LocksTypeOK, NEW c \in Requests, NEW d \in Requests, c # d, Cycle({c, d})
               PROVE  \E e \in {c, d} : \E i \in 1..got[e] :
                         tx[e].locks[i].row[1] = "user" /\ tx[e].locks[i].exclusive
    BY DEF PairsLockUsers
  <2> DEFINE S == {c, d}
  <2>1. S \in SUBSET Requests /\ Cycle(S) /\ IsFiniteSet(S) /\ S # {}
    BY LocksAssumption, FS_Subset
  <2>2. \A x \in S : Waiting(x) /\ (\E e \in S : Blocks(e, x)) /\ (\E e \in S : Blocks(x, e))
    <3> HIDE DEF S
    <3> QED
      BY <2>1, CycleMembers
  <2>3. Waiting(c) /\ Waiting(d) /\ Blocks(c, d) /\ Blocks(d, c)
    BY <2>2 DEF Blocks
  <2>4. ~Wanted(c).exclusive \/ ~Wanted(d).exclusive
    <3> SUFFICES ASSUME Wanted(c).exclusive, Wanted(d).exclusive PROVE FALSE
      OBVIOUS
    <3>1. Earlier(Wanted(c).row, Wanted(d).row) /\ Earlier(Wanted(d).row, Wanted(c).row)
      BY <2>3, BlockerIsAhead
    <3>2. Wanted(c).row \in Rows /\ Wanted(d).row \in Rows
      BY <2>3, WantedOf DEF RowLock
    <3> QED
      BY <3>1, <3>2, EarlierOrder
  <2>5. CASE ~Wanted(c).exclusive
    BY <2>3, <2>5, PairHasUser
  <2>6. CASE ~Wanted(d).exclusive
    BY <2>3, <2>6, PairHasUser
  <2> QED
    BY <2>4, <2>5, <2>6
<1> QED
  BY <1>1, LocksTyped, PTL

-----------------------------------------------------------------------------
(* Why every transaction ends.                                             *)

\* Requests that are over hold nothing.
OverHoldNothing == \A c \in Requests \ open : got[c] = 0

\* The guards of Acquire, Commit and Victim.
CanAcquire(c) == Waiting(c) /\ \A d \in Requests : ~Blocks(d, c)
CanCommit(c) == c \in open /\ got[c] = Len(tx[c].locks)
InCycle(c) == \E S \in SUBSET Requests : c \in S /\ Cycle(S)

\* As long as a transaction is open, one can go on, or Postgres finds a cycle.
SomebodyGoesOn == open # {} => \E c \in Requests : CanAcquire(c) \/ CanCommit(c) \/ InCycle(c)

\* What request c has still to do: its locks, and to end.
ToDo(c) == IF c \in open THEN Len(tx[c].locks) - got[c] + 1 ELSE 0
Left == Total([c \in Requests |-> ToDo(c)])

\* A set of requests that wait for each other has a cycle in it.
LEMMA StuckHasCycle ==
    ASSUME NEW S \in SUBSET Requests, Stuck(S)
    PROVE  \E T \in SUBSET S : Cycle(T)
<1> DEFINE R == StrictSubsetOrdering(Requests)
           All == {T \in SUBSET S : Stuck(T)}
<1>1. IsWellFoundedOn(R, SUBSET Requests)
  <2>1. IsFiniteSet(Requests)
    BY LocksAssumption
  <2> QED
    BY <2>1, FS_StrictSubsetOrderingWellFounded, FS_FiniteSubsetsOfFinite
<1>2. All \subseteq SUBSET Requests /\ All # {}
  OBVIOUS
<1>3. PICK T \in All : \A U \in All : <<U, T>> \notin R
  <2> HIDE DEF R, All
  <2> QED
    BY <1>1, <1>2, WFMin
<1>4. ASSUME NEW U \in SUBSET T, Stuck(U) PROVE U = T
  <2>1. U \in All /\ U \in SUBSET Requests /\ T \in SUBSET Requests
    BY <1>4
  <2>2. <<U, T>> \notin R
    BY <1>3, <2>1
  <2> QED
    BY <2>1, <2>2 DEF StrictSubsetOrdering
<1> QED
  BY <1>3, <1>4 DEF Cycle

\* A request that is over stays over and holds nothing.
LEMMA OverHoldNothingAlways == Spec => []OverHoldNothing
<1>1. Init => OverHoldNothing
  BY DEF Init, OverHoldNothing
<1>2. LocksTypeOK /\ OverHoldNothing /\ [Next]_vars => OverHoldNothing'
  <2> SUFFICES ASSUME LocksTypeOK, OverHoldNothing, [Next]_vars, NEW c \in Requests \ open'
               PROVE  got'[c] = 0
    BY DEF OverHoldNothing
  <2>1. got \in [Requests -> Nat]
    BY DEF LocksTypeOK
  <2>2. CASE UNCHANGED vars
    BY <2>2 DEF vars, OverHoldNothing
  <2>3. ASSUME NEW d \in Requests, Acquire(d) PROVE got'[c] = 0
    BY <2>1, <2>3 DEF Acquire, Waiting, OverHoldNothing
  <2>4. ASSUME NEW d \in Requests, DropLocks(d), open' = open \ {d} PROVE got'[c] = 0
    BY <2>1, <2>4 DEF DropLocks, OverHoldNothing
  <2> QED
    BY <2>2, <2>3, <2>4 DEF Next, Commit, Fail, Victim
<1> QED
  BY <1>1, <1>2, LocksTyped, PTL DEF Spec

\* Nobody waits for nothing: a request waits only for locks of others that are
\* open, so that as long as one is open somebody can take a lock or commit, or
\* the waits contain a cycle and Postgres finds a victim.
THEOREM NobodyWaitsForNothing == Spec => []SomebodyGoesOn
<1>1. LocksTypeOK /\ OverHoldNothing => SomebodyGoesOn
  <2> SUFFICES ASSUME LocksTypeOK, OverHoldNothing, open # {},
                      \A c \in Requests : ~CanAcquire(c) /\ ~CanCommit(c)
               PROVE  \E c \in Requests : InCycle(c)
    BY DEF SomebodyGoesOn
  <2>1. open \in SUBSET Requests
    BY DEF LocksTypeOK
  <2>2. ASSUME NEW c \in open PROVE Waiting(c) /\ \E d \in open : Blocks(d, c)
    <3>1. c \in Requests
      BY <2>1
    <3>2. got[c] \in Nat /\ Len(tx[c].locks) \in Nat /\ got[c] <= Len(tx[c].locks)
      BY <3>1, LocksOf DEF LocksTypeOK
    <3>3. Waiting(c)
      BY <3>1, <3>2 DEF CanCommit, Waiting
    <3>4. PICK d \in Requests : Blocks(d, c)
      BY <3>1, <3>3 DEF CanAcquire
    <3>5. d \in open
      BY <3>4 DEF Blocks, OverHoldNothing
    <3> QED
      BY <3>3, <3>4, <3>5
  <2>3. Stuck(open)
    BY <2>2 DEF Stuck
  <2>4. PICK T \in SUBSET open : Cycle(T)
    BY <2>1, <2>3, StuckHasCycle
  <2>5. T # {} /\ T \in SUBSET Requests
    BY <2>1, <2>4 DEF Cycle, Stuck
  <2> QED
    BY <2>4, <2>5 DEF InCycle
<1> QED
  BY <1>1, LocksTyped, OverHoldNothingAlways, PTL

\* One request gets nearer to its end and the others stay where they are.
LEMMA OneNearer ==
    ASSUME LocksTypeOK, LocksTypeOK', NEW c \in Requests, ToDo(c)' < ToDo(c),
           \A d \in Requests \ {c} : ToDo(d)' = ToDo(d)
    PROVE  Left' < Left
<1> DEFINE f == [d \in Requests |-> ToDo(d)]
           g == [d \in Requests |-> ToDo(d)']
<1>1. \A d \in Requests : ToDo(d) \in Nat
  BY LocksOf DEF ToDo, LocksTypeOK
<1>2. \A d \in Requests : ToDo(d)' \in Nat
  <2> SUFFICES ASSUME NEW d \in Requests PROVE ToDo(d)' \in Nat
    OBVIOUS
  <2>1. tx'[d] \in Transactions \cup {Over} /\ got'[d] \in Nat /\ got'[d] <= Len(tx'[d].locks)
    BY DEF LocksTypeOK
  <2>2. Len(tx'[d].locks) \in Nat
    <3>1. Over.locks = <<>>
      BY DEF Over, Transaction
    <3> QED
      BY <2>1, <3>1, AllInOrder DEF InOrder
  <2> QED
    BY <2>1, <2>2 DEF ToDo
<1>3. /\ f \in [Requests -> Nat] /\ g \in [Requests -> Nat]
      /\ g[c] < f[c] /\ \A d \in Requests \ {c} : g[d] = f[d]
  BY <1>1, <1>2
<1>4. Left = Total(f) /\ Left' = Total(g)
  BY DEF Left
<1> HIDE DEF f, g
<1>5. Total(g) = Total(f) - f[c] + g[c] /\ Total(f) \in Nat /\ f[c] \in Nat /\ g[c] \in Nat
  BY <1>3, TotalChange, TotalType, LocksAssumption
<1> QED
  BY <1>3, <1>4, <1>5

\* Every step brings the end nearer, so that there is an end: what all requests
\* together have still to do never grows, and each step makes it less.
THEOREM EveryStepCounts == Spec => [][Left' < Left]_vars
<1>1. LocksTypeOK /\ LocksTypeOK' /\ [Next]_vars => [Left' < Left]_vars
  <2> SUFFICES ASSUME LocksTypeOK, LocksTypeOK', Next PROVE Left' < Left
    OBVIOUS
  <2>0. /\ got \in [Requests -> Nat] /\ DOMAIN tx = Requests
        /\ \A c \in Requests : Len(tx[c].locks) \in Nat /\ got[c] \in Nat
                               /\ got[c] <= Len(tx[c].locks)
    BY LocksOf DEF LocksTypeOK
  <2>1. ASSUME NEW c \in Requests, Acquire(c) PROVE Left' < Left
    <3>1. c \in open /\ UNCHANGED <<open, tx>> /\ got'[c] = got[c] + 1
      BY <2>0, <2>1 DEF Acquire, Waiting
    <3>2. \A d \in Requests \ {c} : got'[d] = got[d]
      BY <2>0, <2>1 DEF Acquire
    <3>3. ToDo(c)' < ToDo(c)
      BY <2>0, <3>1 DEF ToDo
    <3>4. \A d \in Requests \ {c} : ToDo(d)' = ToDo(d)
      BY <3>1, <3>2 DEF ToDo
    <3> QED
      BY <3>3, <3>4, OneNearer
  <2>2. ASSUME NEW c \in Requests, c \in open, open' = open \ {c}, DropLocks(c)
        PROVE  Left' < Left
    <3>1. \A d \in Requests \ {c} : got'[d] = got[d] /\ tx'[d] = tx[d] /\ (d \in open' <=> d \in open)
      BY <2>0, <2>2 DEF DropLocks
    <3>2. ToDo(c)' = 0 /\ ToDo(c) >= 1
      BY <2>0, <2>2 DEF ToDo
    <3>3. ToDo(c)' < ToDo(c)
      BY <2>0, <3>2 DEF ToDo
    <3>4. \A d \in Requests \ {c} : ToDo(d)' = ToDo(d)
      BY <3>1 DEF ToDo
    <3> QED
      BY <3>3, <3>4, OneNearer
  <2>3. ASSUME NEW c \in Requests, Victim(c) PROVE c \in open
    BY <2>3, CycleMembers DEF Victim, Waiting
  <2> QED
    BY <2>1, <2>2, <2>3 DEF Next, Commit, Fail, Victim, Waiting
<1> QED
  BY <1>1, LocksTyped, PTL DEF Spec
=============================================================================
