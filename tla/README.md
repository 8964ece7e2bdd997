# Verification of Dex-Backend

TLA+ models of the Go backend of a decentralised exchange, TLC configurations
that check them on small instances, and theorems checked by TLAPS. Source
references are relative to `src/`; `PROJECT.json` maps every definition to the
lines it stands for.

* [1. The system](#1-the-system)
* [2. What is hard about it](#2-what-is-hard-about-it)
* [3. Modules](#3-modules)
* [4. Runs](#4-runs)
* [5. Fairness](#5-fairness)
* [6. Proofs](#6-proofs)
* [7. Where the code and its comments disagree](#7-where-the-code-and-its-comments-disagree)
* [8. Exceptions written into the properties](#8-exceptions-written-into-the-properties)
* [9. Abstractions and what is not modelled](#9-abstractions-and-what-is-not-modelled)
* [10. Plan](#10-plan)

## 1. The system

One Go process (`cmd/server`) in front of a Postgres database. It talks to a
matching engine, a separate program with an in-memory ledger, over HTTP in both
directions, and to a chain node: it reads deposits from a vault contract and
sends payouts from a treasury wallet. All durable state is in Postgres, all
amounts there are raw integer units, and handlers run concurrently. Every
repository method that moves money is one transaction that takes row locks
before it reads what it decides on.

| Component | State | Operations | What makes it correct |
|---|---|---|---|
| P2P marketplace (`internal/repo/p2p.go`, `p2p_workflow.go`) | P2P wallets (available, reserved), admin fee wallet, ads, orders with escrow, proofs, usernames, payment accounts | fund the wallet, post and cancel ads, take orders, upload a proof, mark paid, release, cancel, appeal, resolve, expire | escrow is returned or paid out once, an ad never sells more than it has, wallets add up, unpaid orders end |
| Main ledger (`internal/repo/ledger.go`) | balance and lock per user and asset, withdrawal requests, deposit entries | lock, unlock, replace, release, settle, credit, debit, transfer, swap, deposit, request and its life cycle | no column below zero, no grant beyond what is free, no money but what deposits and the engine bring |
| Withdrawals (`internal/api/wallet.go`, `internal/chain/signer.go`) | the request's status; the treasury's transactions on the chain | request, approve, reject, recover (retry, fail), send, wait, book | a request is paid at most once, booked only if paid, and not both rejected and paid |
| Deposit listener (`internal/chain/listener.go`) | block cursor, users it creates | poll, filter a range, handle each event, advance the cursor | each deposit credited once, none lost silently, each handled in the end |
| Trade gateway (`internal/api/trade.go`, `internal/engineclient`) | one slot per account | queue for the slot, reconcile the engine's mirror with Postgres, submit an order, cancel one | the engine never believes more is available than Postgres can lock, every request is answered |
| Sign-in (`internal/auth/nonce.go`, `internal/api/handlers.go`, `internal/repo/users.go`) | store of one-time nonces, users | challenge, consume, reap, login, find or create | a signature lets one login through, a full store does not lock out others |
| Engine-facing endpoints (`internal/api/wallet.go`) | none of their own | the ledger's lock, settle and sync operations; the backfill of a restarted engine | those of the ledger and of the mirror |
| Admin API (`internal/api/admin.go`, `internal/repo/admin.go`) | none of its own | balance corrections, appeals, lists | those of both ledgers |
| Schema, routing, tokens, CORS, tools | - | - | see section 9 |

How they meet: the withdrawal handlers and the deposit listener call the ledger;
the P2P wallet is funded from the ledger's BIUSD column and subtracts the same
locks and held withdrawals (`p2p.go:260`ff); the gateway reads the ledger and
writes the engine's mirror; the engine calls back into the ledger with locks and
fills, and asks for a backfill of its balances after a restart; the listener,
the payout, P2P funding and the admin API push balance changes to the engine
without waiting for it; swaps and P2P settlements push nothing. The ticker in
`cmd/server/main.go:50-66` and every read of ads and orders run the expiry sweep.

## 2. What is hard about it

`PROJECT.json` lists each hazard at its line. In groups:

* **Interleaving.** Sweeps read ids without a lock and cancel later, while
  buyers pay. Operators approve, reject and recover the same request at once.
  Payouts share the treasury's nonce. Orders of an account reconcile a mirror
  that another order has just changed, and cancels pass them by. Logins create
  the user the listener is about to create.
* **Interruption.** A handler can end between claim, payout and booking; a poll
  can end in the middle of a range; a sweep can end half-way. The engine restarts
  empty and is filled again while orders arrive; the server restarts without its
  nonces.
* **Deadlock.** Each transaction locks several rows, and Postgres adds locks for
  foreign keys that no statement asks for.
* **Unreliable calls.** Sends whose answer is lost, replaced and evicted
  transactions, orders whose answer comes after the timeout, pushes that never
  arrive, retried requests.
* **Arithmetic.** Fees are rounded down per order but reserved for the whole
  ad; columns have no CHECK; raw and human units meet at the engine.
* **Limits.** A full nonce store; a sweep's limit; the last range of a poll; the
  queue for an account's slot; the piece of an ad that its limits leave over.
* **Liveness.** Elapsed orders must end, deposits must be handled, an account's
  slot must come back, requests must be answered, locks must be given back.

## 3. Modules

```
        Totals ------------------.     P2PSettlement
       /      \                   \     /
  Ledger   TradeGateway          P2PEscrow - - implements - -> EscrowContract
   |  \
   |   `-- DepositListener      - - implements - -> Ledger
   `------ WithdrawalPayout     - - implements - -> Ledger     RowLocks   SignIn

Totals_proofs <- Ledger_proofs <- DepositListener_proofs, WithdrawalPayout_proofs
              <- P2PEscrow_proofs, TradeGateway_proofs, RowLocks_proofs
SignIn_proofs
```

`WithdrawalPayout` and `DepositListener` compose with `Ledger` by extending it:
their steps call its operations, and they carry its variables. Both are proved to
implement it. Each module `X_proofs` extends `X` and holds its theorems.

**Totals** - the total of a money column, defined as the number of its units so
that it needs no recursion and can be reasoned about with facts on
cardinalities.

**P2PSettlement** - fees, credit and debit, fiat value (rounded as the code's
two-decimal NUMERIC), the limits of an ad and which order amounts it accepts
(`p2p.go:566-600`, `:629`, `models/p2p.go`).

**P2PEscrow** - one variable per table column group: `main`/`mainLocked`
(user_balances BIUSD), `avail`/`reserved` (p2p_wallet_balances), `adminFees`,
`funding` (wallet entries by request id), `username`, `accounts`, `listing`,
`order`, and `sweep`, the ids a sweep has read and still has to cancel. One
action per repository method, with the method's name. A method that returns an
error rolls back and is no step. `ExpirePendingOrders` is not one transaction:
it is `SweepStart` (the unlocked SELECT), one `SweepCancel` per id, which looks
at the locked row again, and `SweepAbort`. `Init` includes the ads both
migration epochs left open: funded from the main wallet, or without fees.
Usernames at the start are unique (`MarketAssumption`), as the index
`idx_users_p2p_username_unique` has them.
`PaymentWindowElapses` and `AppealWindowOpens` are the two clocks.

**EscrowContract** - what the marketplace promises about money, in three actions.
Everybody has one purse; `Strike` moves a charge from the seller's purse into the
vault of a deal, `Deliver` or `Return` empties the vault once. `P2PEscrow`
instantiates it: a purse is `main + avail + reserved`, a vault is the order's
escrow, `DealOf` maps an order row to a deal with the credit agreed for the buyer,
the income is the admin fee wallet. Under this mapping a step of the marketplace
is a step of the contract or changes nothing in it: funding, ads and their
cancellation, proofs, appeals and sweeps only move money inside a purse.

**RowLocks** - the same repository methods seen from below: a transaction is the
list of row locks it takes in program order, exclusive ones for its own `FOR
UPDATE` and `UPDATE` statements and key-share ones for the foreign keys of the
rows it inserts. `Acquire` takes the next lock if nobody holds a conflicting
one, `Fail` is any check that returns early, `Victim` is Postgres breaking a
cycle of waits. `Ids` places the users' ids in order: a transfer locks the
lower id first (`ledger.go:559-565`). An order's parties agree with the side and
the creator of its ad, as `CreateOrder` writes them (`LocksAssumption`). Here the atomic actions of `P2PEscrow` and `Ledger` are paid for.

**Ledger** - `balance`, `locked`, `request`, `deposits`; one action per method
of `LedgerRepo`, then the steps of its callers (`WithdrawalStep`, `SettleStep`,
`SwapStep`, ...), which say who may call what with which amounts.

**WithdrawalPayout** - `worker` is a running handler with its program counter
and what it has read; `tx` the treasury's transactions. Each database
transaction and node call of `processWithdrawalRequest` and `submitTx` is a
step: claim, read the nonce, send (accepted, replacing another, refused, or
taken with its answer lost), wait for the receipt, confirm or fail.
`Interrupt` ends a handler anywhere: the request's context is cancelled, or the
server stops. The chain (external) mines in nonce order, reverts and evicts.

**DepositListener** - `poll` is the running poll; `cursor` the durable row;
`missed` the events that were only logged. The user's lookup and its insert are
separate steps, since `FindOrCreate` is not one transaction.

**TradeGateway** - one account and asset. `db` and `engine` are the two
ledgers, `handler` the order requests with the three values they read one after
the other, `slot` the account's lock (a handler waits in `"queue"` until
`AcquireSlot` or, after eight seconds, `TurnedAway`). `CancelOrder` and
`EngineUnlocks` are the two halves of a cancel. Payments book in Postgres and
differ in what they push: nothing (`Received`, `Spent`), a credit (`Deposited`), a
debit (`PaidOut`), or both (`AdminDebit`); `pushes` holds what is on its way.
`EngineRestart` empties the engine and leaves the locks in Postgres; the backfill
reads (`BackfillReads`) and credits (`BackfillCredits`) in two steps, and
`ReleaseLocks` is the operator's or the engine's release of orphaned locks. What
the engine does with an order is external and follows the comments of `trade.go`
and `wallet.go`.

**SignIn** - `entries` (the nonce store), `login` (requests with a program
counter), `users`. The store's mutex makes its methods one step each. `Restart`
loses the store and the logins under way and keeps the users.

**MC...** modules give the small instances. Definitions introduced by "Mutated
form" are the code with a plausible bug; each property is shown to fail under
at least one of them (`PROJECT.json`, "mutants").

## 4. Runs

| Run | Instance | Question |
|---|---|---|
| `escrow_core` | 1 ad of either side, limits, 2 orders, 2 users, 2 sweepers, an idempotency key, an amount already locked by a withdrawal | do money, reservation, ad and order agree in every interleaving? is the contract kept? |
| `escrow_legacy` | 2 ads of the two migration epochs and a new one, 2 orders, users without name or payment account, a sweeper that reads one id, one crash, `FairSpec` | can one ad eat the reservation of another? do both wallets add up? is every creator known and payable? do elapsed orders end? |
| `row_locks` | 3 requests of 2 traders, one ad of each kind, an order on two of them, `FairSpec` | which transactions can deadlock, who is aborted, does everything end? |
| `ledger_all` | a user and a desk, USDC and BIUSD, one market, one withdrawal, one deposit | what can each operation do to what others rely on? |
| `ledger_erosion` | the same | violated, see section 7 |
| `payout_all` | 2 requests, 2 handlers, 3 transactions, every fault | is a request paid at most once, and booked as what happened? |
| `payout_retry` | 2 requests, 2 handlers, 2 transactions | violated, see section 7 |
| `deposit_all` | 2 accounts, 3 blocks, ranges of 2, up to 2 deposits in a transaction, one failed poll, any event may fail | are deposits credited once, never lost silently, and handled in the end? |
| `deposit_batch` | the same | violated, see section 7 |
| `gateway_all` | 2 handlers, 2 orders, a mirror that starts at or below the truth, one payment of any kind or one restart of the engine | does the slot keep the mirror inside what can be locked? does it heal? is every request answered? |
| `gateway_push` | 2 handlers, 1 order, without cancels, fills, timeouts, other payments and restarts | violated, see section 7 |
| `sign_in` | 3 wallets at a store of 2, 2 logins, 3 nonces, one restart of the server | is a nonce used once, and does a live challenge survive a full store? |

What the properties say, and why a test hardly reaches them:

* *KeepsContract*: the whole marketplace refines `EscrowContract`. It says in one
  formula what is spread over all paths: a charge leaves one purse, and the same
  charge goes to the buyer and the house as agreed or back to the seller, once,
  and nothing else moves money between people.
* *EscrowMatchesStatus, StatementsBalance*: escrow is the seller's debit exactly
  while the order is open, and both wallets of every user equal what funding
  entries and orders say. A second refund, a lost fee or a refund into the
  wrong wallet in any path breaks one of them.
* *ReserveMatchesAds*: one reserved column serves all ads of a seller. Fees of
  parts fall short of the fee of the whole, never the other way, so the column
  always covers what the ads still need, and what rounding strands in it is at most
  a raw unit per order.
* *OpenAdsTakeable*: an ad that is open can be taken, at least in one last order.
  Its premise (section 8) says when minimum, maximum and rest may exclude each
  other.
* *AdAccounting*: remaining and taken amounts are the whole offer through any
  sequence of orders, refunds, cancellations and reopenings.
* *OrderLifecycle, ExpiresOnlyUnpaid, ElapsedOrdersEnd*: a stale list of due
  orders never costs a buyer who has paid, and a crash does not keep an order
  from expiring.
* *OneOrderPerKey, CreatorsIdentified*: retries and races on unique values.
* *CyclesCrossForeignKeys, PairsLockUsers, AttestationsNeverVictims,
  TransactionsEnd*: which deadlocks are possible, and what they cannot cost. The
  statements of the code follow one order of tables; only key-share locks cut
  across it.
* *GrantsAreCovered, OnlyDebitsErode*: two sides of the same promise. No lock,
  replacement or withdrawal request is granted beyond the balance; once
  everything reserved is covered, only a swap or a plain debit uncovers it.
* *StableBacked*: swaps back and forth create no stable money. A fill creates what
  its seller is credited above what its buyer is debited, nothing else: the engine
  names the two figures independently (`wallet.go:736`) and `SettleSpotTrade`
  (`ledger.go:474-525`) requires each to be positive and does not compare them.
* *PaidAtMostOnce, ConfirmedWerePaid, UnclaimedNeverSent, FailedNeverPaid,
  ReceiptFindsRequestOpen*: the claim is the only gate to a payout, through
  colliding nonces, retries, lost answers and interrupted handlers.
* *CreditsMatchDeposits, NoneSkippedSilently, EveryDepositHandled*: reading a
  range twice is harmless and advancing the cursor loses nothing unlogged.
* *NoPhantomFunds, ReservationsLive*: reconciliation under the slot credits
  nothing that an order under way has reserved and takes nothing from a live
  reservation; what the slot does not guard against is undone by the next
  reconciliation that is not disturbed (section 8).
* *SlotReturns, RequestsAnswered*: the slot comes back and everybody queued for it
  is answered, also while the engine is silent.
* *NonceUsedOnce, LiveChallengesStay*: concurrent logins with one signature, over a
  restart too, and eviction at capacity.

Why the bounds are enough to make the cases happen: two orders on an ad suffice
for partial fills whose fees round differently from their sum (two orders of 1 on a
SELL ad of 3 pay no fee at fee divisor 2: 2 stay reserved where the rest of 1
needs 1), for a refund before and after a cancellation, and
for two sweeps over the same ids; three listings are needed for the two legacy
epochs beside a new ad. A sweep that reads one id must come back for the second
order, and one crash shows that it does. Three requests give every cycle of two
and of three transactions; cycles of two name the pairs, and the third request
shows whom a chain of waits draws in. One payment or restart meets every step of
two reconciliations; the same instance with `MaxUpsets = 2` and the three
invariants only (2,991,812 states) holds as well, but its liveness is too large
for a regular run. Two handlers and three transactions let a nonce collide, be
replaced and be reused. Three blocks with ranges of two give a full range, a
cut range, and a range that a block extends while it is read. Two handlers are
needed for the slot, two orders for a reservation that the second must see. A
store of two with three wallets is full with somebody outside. Amounts are
chosen so that balances run out within the instance.

Deadlock checking is off in every configuration: the instances have finitely
many rows, nonces, blocks and orders, and the system may rest when they are used
up. That nothing waits for ever is stated by the liveness properties instead.

Deposits and withdrawals belong to users, never to market-maker desks, whose
accounts no wallet signs in to; `NewBlock` and the request endpoint draw accounts
accordingly.

Symmetry is used on orders and sweepers in `escrow_core`, on handlers and
transactions in the payout runs, and on wallets, logins and nonces in `sign_in`,
all without liveness properties; no configuration distinguishes the elements of
these sets. *KeepsContract* is a safety formula (no fairness) and treats all orders
alike.

## 5. Fairness

* `FairSpec` of `P2PEscrow` (expiry): weak fairness of `SweepStart` and of each
  `SweepCancel`. The ticker calls the sweep every 30 seconds (`main.go:50-66`) and the loop
  runs to its end unless an error or a crash ends it, at most `MaxAborts` times. An
  id that fails in every sweep and is read ahead of others (`p2p.go:978`, `:996-998`)
  would keep them waiting; that is outside this assumption.
  Nothing makes a user or an admin act.
* `ListenerSpec`: weak fairness of `PollStep`. `Run` polls for ever
  (`listener.go:36`ff), a failed poll is followed by another.
* `GatewaySpec`: weak fairness of each handler's next step or `Timeout`. A handler
  only makes calls that end, by an answer, an error or the timeout of the call, and
  its wait for the slot has a timer (`trade.go:45-52`). Nothing is assumed of the
  engine: it may never answer. Fairness is per handler, so *RequestsAnswered*
  holds for each of them and not only for some.
* `FairSpec` of `RowLocks`: weak fairness of `Progress`, that some transaction which
  can go on does, or Postgres breaks a cycle (it looks for one after a second of
  waiting). It is not assumed that a given transaction gets its lock before
  others, nor that any gives up.

## 6. Proofs

Checked by TLAPS for every value of the constants, from the named assumptions on
them alone (`MarketAssumption`, `SettlementAssumption`, `LedgerAssumption`,
`PayoutAssumption`, `ListenerAssumption`, `GatewayAssumption`, `LocksAssumption`,
`SignInAssumption`); TLC evaluates each assumption on the instances. Every
invariant and every action property of the passing runs is a theorem, and so are
three refinements. "Inductive" below means: it holds at the start, and every step
that starts in it ends in it. The strengthened invariants were checked by TLC on
the instances before they were proved.

*The marketplace* (`P2PEscrow_proofs`), for every number of users, ads, orders,
sweepers and retries, every amount, price and limit, and every fee divisor above 1:

* `TypeCorrect` (`Spec => []TypeOK`): since `Covers` guards every subtraction,
  no wallet, reservation, escrow or remaining amount leaves the naturals; the
  schema's CHECK constraints never fire. `TypeOK` is inductive as it stands.
* `EscrowCorrect` and `LifecycleCorrect` (*EscrowMatchesStatus*, *OrderLifecycle*):
  `RowSteps` says what any step does to one order row: leave it, create it with
  its debit in escrow, move it between open statuses with its money untouched,
  or close it with the escrow emptied. Both follow from it.
* `RowsAlwaysAgree` (`Spec => []RowsAgree`): an order agrees with the ad it was
  taken from, in its parties, limits, fee and price, and a posted ad keeps its
  terms. This invariant is what the rest needs: money moves by what a row says,
  and `RowsAgree` says what a row can say. `StepKinds` sorts all steps into the
  few things they can do to wallets, ads and orders (`Aside`, `Funds`, `Posts`,
  `Cancels`, `Takes`, `Touched`, `Refunds`, `Settles`), so that each later theorem
  is one case per kind and not per action.
* `ContractKept` (`Spec => KeepsContract`): the refinement of `EscrowContract`,
  step by step (`TakeStrikes`, `SettleDelivers`, `RefundReturns`; every other kind
  of step keeps each purse). `NothingMinted` draws the consequence: with finitely
  many users, all purses, vaults and the income together never change.
* `AdsAccounted`, `StatementsAlwaysBalance` (*AdAccounting*, *StatementsBalance*):
  each is a sum over orders or entries beside a column. An opened or closed order
  changes one summand (`TotalChange`), and the case analysis is about that summand.
* `ReservesMatchAds` (*ReserveMatchesAds*): inductive is `ReserveBacked`. The
  share of an open ad is what posting it reserved, less what its orders have drawn;
  a seller's reserved column covers the shares of his open ads and exceeds them by
  at most a unit for each order of a cancelled one. From `FeeSplit` (the fees of two
  parts are at most the fee of the whole, and at most a unit less) follows that a
  share covers what is left of its ad and exceeds it by at most a unit per order
  (`ShareBounds`, with *AdAccounting*).
* `OpenAdsStayTakeable` (*OpenAdsTakeable*): from `ActiveCoversMin`, what is left of
  an open ad is worth its minimum; the rest is the arithmetic of rounded values.
* `KeysHoldOneOrder`, `SweepsExpireOnlyUnpaid`, `NamesStayUnique`, `CreatorsKnown`
  (*OneOrderPerKey*, *ExpiresOnlyUnpaid*, *CreatorsIdentified*): short inductions; a
  sweep's list holds ids of orders that have elapsed, and an order that has
  elapsed stays so (`SweptElapsed`).

*The ledger* (`Ledger_proofs`), for every set of accounts, desks, assets, requests
and amounts:

* `LedgerTypeCorrect` (`LedgerSpec => []TypeOK`): balances and locks stay natural
  numbers under the guards alone. The invariant is `LedgerInv`, the types and
  `RequestsPlaced`: requests belong to users, not to desks. Without that conjunct
  the reset of a desk (`SyncBalanceFor`) could uncover a request, and the two
  theorems below would not hold.
* `GrantsCorrect` and `ErosionCorrect` (*GrantsAreCovered*, *OnlyDebitsErode*): from
  `LedgerSteps`, the one case analysis over all operations. A step is `Sound` for an
  account and an asset when what is reserved afterwards is covered, or nothing is
  added to it and what is free does not shrink; it is `Eroding` when nothing is
  added to it. Swaps and plain debits erode, every other step is sound.
* `LifecycleKept` (*RequestLifecycle*): with `RequestsMade`, that a request not made
  yet is blank and one that was made asks for USDC.
* `NothingFromNowhere` (*StableBacked*): each operation as additions to and
  subtractions from columns, and what each of these does to the total of the stable
  ones (`FlatAdd`, `FlatSub`). A swap credits at most what it debits
  (`SwapCharges`), for any fee below 100%. The base of a fill only changes hands,
  so that the difference of its two quote figures is all it adds (`FillCreates`). A
  confirmed payout moves its amount from one total to another, which needs
  `RequestsMade`: only stable coins are paid out.

*The payout* (`WithdrawalPayout_proofs`), for any number of requests, handlers and
transactions:

* `PayoutImplementsLedger` (`PayoutSpec => LedgerSpec`), and by it
  `PayoutKeepsLedger`: requests move along their life cycle and grants are covered
  in the payout as well. `PayoutMakesNothing` says more than the ledger does: here
  the engine is not at work, and no step adds to the stable money.
* `NoDoublePayout`, `BookedWerePaid`, `NothingSentUnclaimed`, `FailedStayUnpaid`,
  `OpenUntilReceipt` (the five properties of `payout_all`), all from `PayoutInv`:
  what a handler at each place may rely on while others act (`HandlerFits`: before
  it sends there is no transaction for its request, when it books the transaction
  is mined, when it fails the request the transactions are given up), one handler
  engaged per request (`OneHandler`), never a second transaction for a request
  (`OneTx`), and what the status of a request says of the chain (`TxFits`,
  `RequestFits`). *PaidAtMostOnce* alone is not inductive: two handlers past the
  claim could each send.

*The listener* (`DepositListener_proofs`), for any chain, ranges and accounts:
`ListenerImplementsLedger`, `ListenerBacked` (no step credits more than it records
as deposited), `NothingSkipped`
(*NoneSkippedSilently*) and `CreditsAlwaysMatch` (*CreditsMatchDeposits*).
`ListenerInv` says what a poll has still to do: every transaction of its range
that is neither recorded nor logged is on its list (`PollFits`), so the cursor may
advance when the list is empty.

*The gateway* (`TradeGateway_proofs`), for any number of handlers and orders:
`NoPhantomCorrect` and `ReservationsStayLive` (*NoPhantomFunds*, *ReservationsLive*)
from `GatewayInv`. Unless the mirror has drifted (section 8), every order whose lock
is on its way has a handler waiting for it (`Waited`), the two ledgers account for
the orders in each status (`Mirrored`), and what a handler has read between its
three reads still bounds what it is about to credit or debit (`ReadFits`). The
last part is the point of the slot: it survives the steps of cancels, fills and
payments that come between the reads, or those steps set `drifted`.

*Row locks* (`RowLocks_proofs`), for any number of concurrent requests and any ads
and orders:

* `StatementsNeverDeadlock` (*CyclesCrossForeignKeys*): the locks the statements ask
  for follow one strict order of rows, `Earlier`, by table and among users by id, in
  every transaction (`AllInOrder`). Each member of a cycle blocks another one
  (`CycleMembers`), so that without a key-share lock the rows they wait for would
  ascend for ever in a finite set (`LastRow`). The run shows cycles of up to three;
  the theorem is about any length.
* `AttestationsSafe`, `PairsNeedUsers` (*AttestationsNeverVictims*,
  *PairsLockUsers*): nobody who holds a lock waits for the row of an order, and a
  pair that deadlocks needs a `users` row locked for update.
* `NobodyWaitsForNothing`, `EveryStepCounts`: what *TransactionsEnd* rests on
  besides fairness. A request that is over holds nothing, so a set of requests that
  all wait has a smallest subset that does, a cycle (`StuckHasCycle`): while a
  transaction is open, one can go on or Postgres finds a victim. And every step
  takes away from `Left`, what all requests together have still to do.

*Sign-in* (`SignIn_proofs`), for every set of wallets and logins and every capacity:

* `NonceOnce` and `CapacityKeptAlways` (*NonceUsedOnce*, *TypeOK*), both from
  `NonceInv`: a login or an entry has a nonce that was handed out, no two entries have
  the same one, and a nonce that has let a login through is in no entry. The last
  part is what makes uniqueness inductive: a second login with the same signature
  finds nothing to consume. Nonces handed out before a restart stay used.
* `ChallengesKept` (*LiveChallengesStay*).

*Totals* (`Totals_proofs`): how a total changes with a row (`TotalUpdate`,
`TotalChange`, `TotalExtend`), with a renaming of rows (`TotalReindex`), compared
and added (`TotalMonotone`, `TotalPlus`, `TotalOfCounts`). The library's induction
theorems take an operator as a parameter, which the provers here cannot
instantiate. `SubsetInduction` avoids that: it is induction over the subsets of a
finite set, stated for a *set* of subsets, and follows from the well-foundedness
of the strict subset order. `TotalPlus`, `TotalOfCounts` and `LastRow` rest on it.

Only model-checked: the liveness properties (*ElapsedOrdersEnd*,
*EveryDepositHandled*, *SlotReturns*, *RequestsAnswered*, *TransactionsEnd*), as the
proof system does not handle fairness and ENABLED; and the four violations of
section 7, which are counterexamples. No module uses a recursive operator.

## 7. Where the code and its comments disagree

* `ledger_erosion`, *HoldsCovered*. `ledger.go:642` says a withdrawal request
  "reserves the amount by counting pending/processing requests against available
  balance". New locks and requests count it; `debitBalanceTx` (`:162`), behind
  swaps, transfers and corrections, looks at the bare column. A user swaps what
  an open request holds, and booking the payout then fails.
* `payout_retry`, *RetryReattempts*. `wallet.go:336-338` says the recovery
  endpoint handles requests stuck in "processing" and that `action=retry`
  re-attempts the payout. The retry begins with a claim that takes pending
  requests only (`ledger.go:710-716`), so the retry of a stuck one is refused.
* `deposit_batch`, *DepositsRecorded*. `ledger.go:598` says an on-chain deposit
  is recorded and credited. Entries are unique by `tx_hash`, so the second
  deposit event of a transaction is dropped.
* `gateway_push`, *PushesInUnits*. `wallet.go:423-425` explains that raw units
  passed to the engine's ledger of human units inflate the balance;
  `listener.go:122` passes the raw amount.

## 8. Exceptions written into the properties

Some properties hold only with an exception. Each exception is a history
variable that names the step, set by the step alone, so that the property says
exactly where the promise ends.

* `forced` (*FailedNeverPaid*, *ReceiptFindsRequestOpen*): the recovery endpoint
  with `action=fail` (`wallet.go:338`, `:364`) closes a request whose payout may
  be in the pool or already mined.
* `answered` (*FailedNeverPaid*): when `SendTransaction` (`signer.go:80`) returns
  an error although the node took the transaction, the request is marked failed
  and may still be paid.
* `missed` (*NoneSkippedSilently*, *EveryDepositHandled*, *DepositsRecorded*): an
  event whose handling fails is logged and passed over (`listener.go:86-88`);
  one cause is the gap in `FindOrCreate` (`users.go:22`, `:38`), whose insert
  fails when a login has created the user since the read.
* `drifted` (*NoPhantomFunds*, *ReservationsLive*): the slot does not guard against
  everything that changes the two ledgers. Set by
  - a fill after a reconciliation has read the total and before it has read the
    locks (`trade.go:184-185`, `:209`),
  - the two halves of a cancel, when a reconciliation reads between them
    (`trade.go:345`, which takes no slot),
  - an order that times out while the engine still works on it (`trade.go:41`,
    `:167`),
  - a push (`listener.go:122`), which repeats what the next order's
    reconciliation credits as well, in other units,
  - money leaving the account: a swap or transfer, a withdrawal, an operator's
    debit, which is sent as a credit and a debit (`admin.go:287-289`, `:338-340`),
  - a backfill whose amount is no longer available or has been credited already
    (`wallet.go:417`),
  - a release of locks that are not orphaned.

  It is reset by the next `Adjust` that is `Undisturbed`: what was read still
  holds and the account has no open order. So the two properties say that the
  mirror is exact from such a reconciliation on until the next step of the list,
  whatever happened before. With an open order a reconciliation does not always
  heal: the engine's `Debit` takes the amount from the reservations too, so a
  mirror that is too high while an order rests loses part of that reservation.
* The premise of *OpenAdsTakeable*, `Divisible`: a price fine enough that every
  value in paise is the value of some amount, and a maximum of at least twice the
  minimum. Outside it an ad can be left with a piece no order may take: when the
  value of what remains is above the maximum and any part leaves less than the
  minimum, the error message's advice to take the full remaining amount
  (`p2p.go:592`) meets the limit at `:581`. The piece comes back to the seller by
  cancelling the ad.

Seen while modelling and stated by no property:

* *Which requests can deadlock.* `RowLocks` has cycles of two, all through a
  `users` row locked `FOR UPDATE` by one request and wanted as a foreign key by
  the other: a release and its buyer posting a SELL ad; funding and the same
  user posting a SELL ad; two traders taking each other's ads. Postgres aborts
  one and its user sees an error; nothing is lost, but when the victim is a
  sweep's cancellation the rest of that sweep is left to the next (`SweepAbort`).
* *Statements that run at every start.* `migrateUSDTToBIUSD` (`db.go:583-601`) is
  called a one-time conversion that is a no-op afterwards. A user can swap BIUSD
  into USDT later (`wallet.go`, `swapDestinations`), and the next start converts
  it back, without the charge returned. `db.go:315-317` creates the unique index
  on `(buyer_id, idempotency_key)` at every start before it drops it: once two
  takers of one buyer's BUY ads have chosen equal keys, which the index that
  matters allows, the service does not start. `db.go:291-298` fills in fiat fees that are
  zero, also of orders whose fees are meant to be zero.
* *Cleaning up.* `cmd/clear-chain-data` deletes users and their deposit entries
  and leaves the cursor where it is; its comment (`main.go:12-13`, `:114`) says
  the listener resyncs them, but the listener starts at the cursor and does not
  read those blocks again.

## 9. Abstractions and what is not modelled

* In every module but `RowLocks` a repository method is atomic: it locks the rows
  it decides on before it reads them, and Postgres aborts one of two transactions
  that deadlock.
* `RowLocks` keeps the locks and leaves out the data: any request may name any ad
  or order of the instance, whatever state it is in, and may fail after any of its
  locks, which allows more waits than the code has. Rows that every request finds
  (wallets, balances) are taken to exist; waits on unique indexes and the order in
  which Postgres serves waiters are left out. Methods with the same locks share a
  transaction (`Attest`, `Refund`).
* The fee divisor is 2 in the instances (100 in the code), the price scale 1 or 2
  (10^6), the swap's fee 1/2 (100/10000), a human unit 2 raw units (10^6), so that
  rounding happens with small amounts. The proofs cover every value.
* Clocks: `PaymentWindowElapses` is the database's `now()`, which the sweep uses.
  `MarkPaid` compares with the application's clock before its transaction commits
  (`p2p.go:752`), so it may commit although the database counts the order as
  elapsed already; its action has no guard on the window.
* Due orders are read in any order rather than by expiry time, events of a range
  in any order rather than by index: more behaviours than the code has.
* The marketplace has one asset. Ads from before the P2P wallet existed reserve
  `USDC_locked` (`db.go:271-273`) and settle over the column of their own asset
  (`p2p.go:640-645`); the model keeps them in the same `main` and `mainLocked` as
  BIUSD. Amounts of both add up, so that a refund to the wrong wallet is seen and
  one in the wrong asset is not: no property of the marketplace is per asset.
* The engine is trusted with the figures of a fill, as the code does: `SettleStep`
  lets it name any debit of the buyer and any credit of the seller, and
  *StableBacked* says what follows. Which markets exist is the engine's as well
  (`Markets`).
* The deposit model touches BIUSD only and the payout model USDC and BIUSD, what
  their code touches. Requests older than the single withdrawable asset are not
  initial states.
* A fill in the gateway is one step over both ledgers, the kindest engine there
  can be: what fails with it fails with any. A cancelled order is released in
  memory first and in Postgres afterwards, as the comment at `wallet.go:560` says
  of the engine. A restarted engine is taken to discard its orders, as
  `ledger.go:364` says; the backfill credits what is not locked.
* Payments and restarts of the engine share one bound (`MaxUpsets`), so in
  `gateway_all` no payment falls into a restart; see the bounds in section 4.
* Overflow: amounts are NUMERIC in Postgres and big.Int in Go, so integers do not
  wrap.
* Not modelled: rows that are written and read by nothing that decides (chat
  messages, order events and the bytes of evidence files; a message's locks are in
  `RowLocks`); lists, aggregates and activity queries; sessions, which are audit
  rows that only the dashboard counts (a token is valid by its signature and
  expiry, logout does not revoke it); signature mathematics and token encoding;
  routing, CORS, shutdown; the migration statements themselves (their first
  result is an initial state, see also section 8); load tests and inspection
  tools.

## 10. Plan

Built in this order: P2P escrow, its first proofs, ledger, payout, listener,
gateway, sign-in; the escrow contract and its refinement, the row locks, and the
gateway's queue, cancels, payments, restarts and backfill; then the proofs of
every safety invariant and action property, and of the three refinements. Next:

1. **Prove.** What of the other liveness properties can be said without fairness,
   as is done for `RowLocks`: that as long as something is to end some step towards
   it can be taken, and that each such step makes what is left smaller. First the
   polls of the listener, then the expiry sweep and the handlers of the gateway.
2. **Model.** A start of the server as an action of the ledger (the conversion of
   USDT to BIUSD beside swaps). Payments during a restart of the engine in a
   regular run.
