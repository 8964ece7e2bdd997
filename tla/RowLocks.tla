------------------------------ MODULE RowLocks ------------------------------
(***************************************************************************)
(* The row locks of the transactions that move P2P money, one lock at a    *)
(* time.  P2PEscrow takes each of these transactions as one step, which is *)
(* what the locks are for; here is what they cost: who waits for whom, and *)
(* whom Postgres aborts when a wait has become a cycle.                    *)
(*                                                                         *)
(* A transaction takes locks of two kinds, in program order: those its own *)
(* statements ask for (FOR UPDATE, or an UPDATE), and the key-share locks  *)
(* Postgres takes on the referenced rows of users, ads and orders when a   *)
(* row with foreign keys is inserted.  Rows that every request finds in    *)
(* place (wallets, balances) are taken to exist.  Which ad or order a      *)
(* request names is its own affair, and it may end after any of its locks: *)
(* every check that fails returns and rolls back.                          *)
(***************************************************************************)
EXTENDS Integers, Sequences, FiniteSets

CONSTANTS
    Requests,      \* concurrent requests, each one transaction
    Users,
    Ads,           \* id -> [creator, side, source]
    Orders,        \* id -> [ad, seller, buyer]
    Ids            \* user -> the place of its id in the order of the ids

ASSUME LocksAssumption ==
    /\ \A l \in DOMAIN Ads :
          Ads[l] \in [creator : Users, side : {"BUY", "SELL"},
                      source : {"P2P_WALLET", "MAIN_WALLET_LEGACY"}]
    /\ \A o \in DOMAIN Orders :
          LET row == Orders[o]
              ad  == Ads[row.ad]
          IN  /\ row \in [ad : DOMAIN Ads, seller : Users, buyer : Users]
              /\ row.seller # row.buyer
              /\ ad.creator = IF ad.side = "SELL" THEN row.seller ELSE row.buyer
    /\ Ids \in [Users -> Nat]
    /\ \A a, b \in Users : Ids[a] = Ids[b] => a = b
    /\ IsFiniteSet(Requests)

VARIABLES
    open,    \* requests whose transaction has not ended
    tx,      \* the transaction of a request: its kind and its locks in order
    got      \* how many of them it holds

vars == <<open, tx, got>>

-----------------------------------------------------------------------------
(* The locks of each transaction, in the order the code comes to them.     *)

Update(table, id) == [row |-> <<table, id>>, exclusive |-> TRUE]
Key(table, id)    == [row |-> <<table, id>>, exclusive |-> FALSE]

Transaction(kind, locks) == [kind |-> kind, locks |-> locks]

FundWalletAsset(u) ==
    Transaction("fund", <<Update("main", u), Update("wallet", u), Key("user", u)>>)

CreateListing(u, side) ==
    Transaction("post", IF side = "SELL"
                        THEN <<Update("user", u), Update("wallet", u)>>
                        ELSE <<Update("user", u)>>)

CreateOrder(t, l) ==
    LET seller == IF Ads[l].side = "BUY" THEN t ELSE Ads[l].creator
        buyer  == IF Ads[l].side = "BUY" THEN Ads[l].creator ELSE t
        purse  == IF Ads[l].side = "BUY" \/ Ads[l].source = "P2P_WALLET"
                  THEN "wallet" ELSE "main"
    IN  Transaction("take", <<Update("user", t), Update("ad", l), Update(purse, seller),
                              Key("user", seller), Key("user", buyer)>>)

\* MarkPaid, AddOrderProof, AppealOrder and CancelAppeal.
Attest(u, o) ==
    Transaction("attest", <<Update("order", o), Key("user", u)>>)

\* A chat message is one INSERT.
SendMessage(u, o) ==
    Transaction("attest", <<Key("order", o), Key("user", u)>>)

\* Mutated form: the buyer's wallet is locked before the order.
ReleaseWalletFirst(o) ==
    LET row == Orders[o] IN
    Transaction("release",
        <<Update("wallet", row.buyer), Update("order", o), Key("user", row.buyer),
          Key("ad", row.ad), Update("fees", "BIUSD"), Key("user", row.seller)>>)

ReleaseOrder(o) ==
    LET row == Orders[o] IN
    Transaction("release",
        <<Update("order", o), Update("wallet", row.buyer), Key("user", row.buyer),
          Key("ad", row.ad), Update("fees", "BIUSD"), Key("user", row.seller)>>)

\* Mutated form: the seller's wallet is locked before the ad.
RefundWalletFirst(o) ==
    LET row == Orders[o] IN
    Transaction("refund",
        <<Update("order", o), Update("wallet", row.seller), Update("ad", row.ad),
          Key("user", row.seller), Key("user", row.buyer)>>)

\* CancelOrder, a sweep, a late MarkPaid, an appeal resolved for the seller.
Refund(o) ==
    LET row == Orders[o] IN
    Transaction("refund",
        <<Update("order", o), Update("ad", row.ad), Update("wallet", row.seller),
          Key("user", row.seller), Key("user", row.buyer)>>)

CancelListing(l) ==
    LET ad == Ads[l] IN
    Transaction("withdraw",
        CASE ad.side = "BUY" -> <<Update("ad", l)>>
          [] ad.side = "SELL" /\ ad.source = "P2P_WALLET" ->
               <<Update("ad", l), Update("wallet", ad.creator), Key("user", ad.creator)>>
          [] ad.side = "SELL" /\ ad.source = "MAIN_WALLET_LEGACY" ->
               <<Update("ad", l), Update("main", ad.creator)>>)

\* The two parties of a transfer or a fill, in the order their rows are locked.
Transfers == {p \in Users \X Users : Ids[p[1]] < Ids[p[2]]}

TransferBalance(a, b) ==
    Transaction("transfer", <<Update("user", a), Update("user", b),
                              Update("main", a), Update("main", b)>>)

SettleSpotTrade(a, b) ==
    Transaction("fill", <<Update("main", a), Update("main", b)>>)

\* What bears witness to the state of an order, by its parties.
Witness(o) ==
    {Attest(Orders[o].buyer, o), Attest(Orders[o].seller, o),
     SendMessage(Orders[o].buyer, o), SendMessage(Orders[o].seller, o)}

Moving(p) == {TransferBalance(p[1], p[2]), SettleSpotTrade(p[1], p[2])}

Transactions ==
    {FundWalletAsset(u) : u \in Users}
    \cup {CreateListing(u, side) : u \in Users, side \in {"BUY", "SELL"}}
    \cup {CreateOrder(p[1], p[2]) :
            p \in {q \in Users \X DOMAIN Ads : q[1] # Ads[q[2]].creator}}
    \cup (UNION {Witness(o) : o \in DOMAIN Orders})
    \cup {ReleaseOrder(o) : o \in DOMAIN Orders}
    \cup {Refund(o) : o \in DOMAIN Orders}
    \cup {CancelListing(l) : l \in DOMAIN Ads}
    \cup (UNION {Moving(p) : p \in Transfers})

-----------------------------------------------------------------------------
Over == Transaction("over", <<>>)

\* Any requests may come together.
Init ==
    /\ open = Requests
    /\ tx \in [Requests -> Transactions]
    /\ got = [c \in Requests |-> 0]

Waiting(c) == c \in open /\ got[c] < Len(tx[c].locks)
Wanted(c) == tx[c].locks[got[c] + 1]

Conflict(k, m) == k.row = m.row /\ (k.exclusive \/ m.exclusive)

\* c cannot have its next lock as long as d keeps what it holds.
Blocks(d, c) == d # c /\ \E i \in 1..got[d] : Conflict(tx[d].locks[i], Wanted(c))

Acquire(c) ==
    /\ Waiting(c)
    /\ \A d \in Requests : ~Blocks(d, c)
    /\ got' = [got EXCEPT ![c] = @ + 1]
    /\ UNCHANGED <<open, tx>>

\* Mutated form: the locks outlive the transaction.
KeepLocks(c) == UNCHANGED <<tx, got>>

\* Commit, or the deferred rollback, gives every lock back.
DropLocks(c) ==
    /\ tx' = [tx EXCEPT ![c] = Over]
    /\ got' = [got EXCEPT ![c] = 0]

Commit(c) ==
    /\ c \in open /\ got[c] = Len(tx[c].locks)
    /\ open' = open \ {c}
    /\ DropLocks(c)

\* A check fails, or the client goes away.
Fail(c) ==
    /\ Waiting(c)
    /\ open' = open \ {c}
    /\ DropLocks(c)

\* A set of requests none of which can go on before another of them has.
Stuck(S) == S # {} /\ \A c \in S : Waiting(c) /\ \E d \in S : Blocks(d, c)

Cycle(S) == Stuck(S) /\ \A T \in SUBSET S : Stuck(T) => T = S

\* Postgres aborts a transaction of the cycle; the request gets the error.
Victim(c) ==
    /\ \E S \in SUBSET Requests : c \in S /\ Cycle(S)
    /\ open' = open \ {c}
    /\ DropLocks(c)

Next == \E c \in Requests : Acquire(c) \/ Commit(c) \/ Fail(c) \/ Victim(c)

Spec == Init /\ [][Next]_vars

\* As long as a transaction is open, some handler goes on with its statements or
\* Postgres finds a cycle; nobody is obliged to give up.
Progress == \E c \in Requests : Acquire(c) \/ Commit(c) \/ Victim(c)

FairSpec == Spec /\ WF_vars(Progress)

-----------------------------------------------------------------------------
(* Properties.                                                             *)

\* The statements alone never deadlock: they come to users, orders, ads, main
\* balances, P2P wallets and the fee wallet in this order in every transaction.
\* Each cycle there is contains a wait for a foreign key.
CyclesCrossForeignKeys ==
    \A S \in SUBSET Requests : Cycle(S) => \E c \in S : ~Wanted(c).exclusive

\* Two transactions deadlock each other only if one of them has locked a users
\* row, to post an ad, take an ad or transfer.  Releases, refunds, sweeps,
\* withdrawn ads and fundings never do so among themselves.
PairsLockUsers ==
    \A c, d \in Requests :
       (c # d /\ Cycle({c, d})) =>
          \E e \in {c, d} : \E i \in 1..got[e] :
             tx[e].locks[i].row[1] = "user" /\ tx[e].locks[i].exclusive

\* The steps that only bear witness (payment marked, proof, appeal, message)
\* are never the victim of a deadlock: a buyer's attestation does not get lost
\* to somebody else's transfer of money.
AttestationsNeverVictims ==
    \A S \in SUBSET Requests : Cycle(S) => \A c \in S : tx[c].kind # "attest"

\* Every transaction that has begun ends and no lock is held for ever, whatever
\* the others do and whoever gives up half-way.
TransactionsEnd == <>[](open = {})
=============================================================================
