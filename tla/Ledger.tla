------------------------------- MODULE Ledger -------------------------------
(***************************************************************************)
(* The durable ledger (LedgerRepo): balances and trading locks per account *)
(* and asset, withdrawal requests, and recorded deposits.  Every method is *)
(* one transaction that takes the balance row lock before it reads, so a   *)
(* method is one action; a method that returns an error is no step.        *)
(*                                                                         *)
(* The callers are the user (swap, withdrawal), the matching engine over   *)
(* the internal endpoints (locks, settlement, credit) and the operators    *)
(* (desk recovery, balance corrections).                                   *)
(***************************************************************************)
EXTENDS Totals

CONSTANTS
    Accounts,          \* rows of users
    Desks,             \* accounts of market-maker desks
    Assets,            \* columns of user_balances in use
    Requests,          \* withdrawal requests that may come to exist
    Hashes,            \* transactions of the chain that carry a deposit
    Amounts,           \* raw amounts requests carry
    Markets,           \* <<base, quote>> pairs the engine trades
    SwapFeeBps,        \* swapFeeBpsOut, 100 in the code
    BpsBase,           \* 10000 in the code
    InitBalance,       \* balances at the start
    MaxBalance,        \* bound: no operation takes a balance past it
    NoAccount, NoAsset

\* assetColumns.
KnownAssets == {"BTC", "USDC", "USDT", "BI", "BIUSD", "ETH", "SOL", "BNB"}

ASSUME LedgerAssumption ==
    /\ Assets \subseteq KnownAssets
    /\ Desks \subseteq Accounts /\ Markets \subseteq Assets \X Assets
    /\ \A m \in Markets : m[1] # m[2]
    /\ Requests = {} \/ "USDC" \in Assets
    /\ Hashes = {} \/ "BIUSD" \in Assets
    /\ IsFiniteSet(Accounts) /\ IsFiniteSet(Requests)
    /\ Amounts \subseteq Nat \ {0}
    /\ SwapFeeBps \in Nat /\ BpsBase \in Nat \ {0} /\ SwapFeeBps < BpsBase
    /\ InitBalance \in [Accounts -> [Assets -> Nat]] /\ MaxBalance \in Nat
    /\ NoAccount \notin Accounts /\ NoAsset \notin Assets

VARIABLES
    balance, locked,   \* user_balances: "X" and "X_locked"
    request,           \* ledger_entries of kind withdrawal_request
    deposits           \* ledger_entries of kind deposit

ledger == <<balance, locked, request, deposits>>

Open == {"pending", "processing"}
Closed == {"confirmed", "failed", "rejected"}

RequestRow ==
    [status : {"none"} \cup Open \cup Closed, account : Accounts \cup {NoAccount},
     asset : Assets \cup {NoAsset}, amount : Nat]

DepositRow == [hash : Hashes, account : Accounts, amount : Amounts]

NoRequest == [status |-> "none", account |-> NoAccount, asset |-> NoAsset, amount |-> 0]

LedgerInit ==
    /\ balance = InitBalance
    /\ locked = [a \in Accounts |-> [x \in Assets |-> 0]]
    /\ request = [r \in Requests |-> NoRequest]
    /\ deposits = {}

-----------------------------------------------------------------------------
(* Availability.                                                           *)

\* What a's open withdrawal requests hold of x (pendingWithdrawalHoldTx).
Hold(a, x) ==
    Total([r \in Requests |->
             IF /\ request[r].status \in Open
                /\ request[r].account = a /\ request[r].asset = x
             THEN request[r].amount ELSE 0])

\* Mutated form: the open withdrawal requests are not subtracted.
CanReserveIgnoringHold(a, x, n) == locked[a][x] + n <= balance[a][x]

\* A new reservation must fit beside the locks and the held withdrawals.
CanReserve(a, x, n) == locked[a][x] + Hold(a, x) + n <= balance[a][x]

\* GREATEST(0, column - n).
Less(column, n) == IF column > n THEN column - n ELSE 0

Add(column, a, x, n) == [column EXCEPT ![a][x] = @ + n]
Sub(column, a, x, n) == [column EXCEPT ![a][x] = @ - n]
Set(column, a, x, n) == [column EXCEPT ![a][x] = n]

\* The bound on balances.
Fits(a, x, n) == balance[a][x] + n <= MaxBalance

-----------------------------------------------------------------------------
(* Trading locks, called by the matching engine and the desks.             *)

LockBalance(a, x, n) ==
    /\ CanReserve(a, x, n)
    /\ locked' = Add(locked, a, x, n)
    /\ UNCHANGED <<balance, request, deposits>>

UnlockBalance(a, x, n) ==
    /\ locked' = Set(locked, a, x, Less(locked[a][x], n))
    /\ UNCHANGED <<balance, request, deposits>>

\* Mutated form: each new lock is checked against the bare balance.
FundedIgnoringHold(a, targets) ==
    \A x \in DOMAIN targets : targets[x] <= balance[a][x]

\* Every new lock total must fit, or none is written.
Funded(a, targets) ==
    \A x \in DOMAIN targets : targets[x] + Hold(a, x) <= balance[a][x]

\* An absolute replacement of the locks on the assets of targets.
ReplaceLocksFor(a, targets) ==
    /\ DOMAIN targets # {}
    /\ Funded(a, targets)
    /\ locked' = [locked EXCEPT ![a] =
                    [x \in Assets |-> IF x \in DOMAIN targets THEN targets[x] ELSE @[x]]]
    /\ UNCHANGED <<balance, request, deposits>>

ReleaseLocksFor(a, x) ==
    /\ locked' = Set(locked, a, x, 0)
    /\ UNCHANGED <<balance, request, deposits>>

\* Deleting a desk (ResetBalanceFor, n = 0) or restoring its capital.
SyncBalanceFor(a, x, n) ==
    /\ balance' = Set(balance, a, x, n)
    /\ locked' = Set(locked, a, x, 0)
    /\ UNCHANGED <<request, deposits>>

-----------------------------------------------------------------------------
(* Settlement of fills.                                                    *)

SettleLockedDebit(a, x, n) ==
    /\ balance[a][x] >= n
    /\ balance' = Sub(balance, a, x, n)
    /\ locked' = Set(locked, a, x, Less(locked[a][x], n))
    /\ UNCHANGED <<request, deposits>>

\* Mutated form: the balance alone is checked, as in SettleLockedDebit.
ConsumesBalance(a, x, n) == balance[a][x] >= n

\* A leg of a spot fill must come out of a reservation of its payer.
Consumes(a, x, n) == balance[a][x] >= n /\ locked[a][x] >= n

\* buyer pays `paid` of quote for qty of base; seller receives `received`.
SettleSpotTrade(buyer, seller, base, quote, qty, paid, received) ==
    /\ buyer # seller
    /\ Consumes(buyer, quote, paid)
    /\ Consumes(seller, base, qty)
    /\ Fits(buyer, base, qty) /\ Fits(seller, quote, received)
    /\ balance' = Add(Add(Sub(Sub(balance, buyer, quote, paid), seller, base, qty),
                          buyer, base, qty), seller, quote, received)
    /\ locked' = Sub(Sub(locked, buyer, quote, paid), seller, base, qty)
    /\ UNCHANGED <<request, deposits>>

-----------------------------------------------------------------------------
(* Plain credits and debits, swaps, deposits.                              *)

CreditBalance(a, x, n) ==
    /\ Fits(a, x, n)
    /\ balance' = Add(balance, a, x, n)
    /\ UNCHANGED <<locked, request, deposits>>

\* debitBalanceTx looks at the balance only, not at locks and held amounts.
DebitBalance(a, x, n) ==
    /\ balance[a][x] >= n
    /\ balance' = Sub(balance, a, x, n)
    /\ UNCHANGED <<locked, request, deposits>>

TransferBalance(sender, recipient, x, n) ==
    /\ sender # recipient
    /\ balance[sender][x] >= n
    /\ Fits(recipient, x, n)
    /\ balance' = Add(Sub(balance, sender, x, n), recipient, x, n)
    /\ UNCHANGED <<locked, request, deposits>>

\* swapDestinations: into BIUSD, or out of it.
SwapPairs == {<<"USDT", "BIUSD">>, <<"USDC", "BIUSD">>,
              <<"BIUSD", "USDT">>, <<"BIUSD", "USDC">>}

\* Mutated form: the charge, rounded up, is added to what the user receives.
SwapBonus(destination, n) ==
    IF destination = "BIUSD" THEN n
    ELSE n + (n * SwapFeeBps + BpsBase - 1) \div BpsBase

\* What a swap of n credits: only the way out of BIUSD is charged.
SwapCredit(destination, n) ==
    IF destination = "BIUSD" THEN n ELSE n - (n * SwapFeeBps) \div BpsBase

Swap(a, source, destination, n) ==
    LET credited == SwapCredit(destination, n)
    IN  /\ <<source, destination>> \in SwapPairs
        /\ credited > 0
        /\ balance[a][source] >= n
        /\ Fits(a, destination, credited)
        /\ balance' = Add(Sub(balance, a, source, n), a, destination, credited)
        /\ UNCHANGED <<locked, request, deposits>>

\* Mutated form: a deposit that was recorded before is credited again.
AlwaysFresh(h) == TRUE

\* The unique index on tx_hash: one entry per transaction of the chain.
Fresh(h) == \A d \in deposits : d.hash # h

\* A deposit of USDC is credited as BIUSD, once per transaction hash; an
\* insert that meets a recorded hash does nothing and succeeds.
InsertDeposit(h, a, n) ==
    /\ Fits(a, "BIUSD", n)
    /\ IF Fresh(h)
       THEN /\ deposits' = deposits \cup {[hash |-> h, account |-> a, amount |-> n]}
            /\ balance' = Add(balance, a, "BIUSD", n)
       ELSE UNCHANGED <<deposits, balance>>
    /\ UNCHANGED <<locked, request>>

-----------------------------------------------------------------------------
(* Withdrawal requests.                                                    *)

InsertWithdrawalRequest(r, a, x, n) ==
    /\ request[r].status = "none"
    /\ CanReserve(a, x, n)
    /\ request' = [request EXCEPT ![r] =
                     [status |-> "pending", account |-> a, asset |-> x, amount |-> n]]
    /\ UNCHANGED <<balance, locked, deposits>>

\* Mutated form: any open request may be claimed for a payout.
ClaimableOpen(r) == request[r].status \in Open

Claimable(r) == request[r].status = "pending"

MarkWithdrawalProcessing(r) ==
    /\ Claimable(r)
    /\ request' = [request EXCEPT ![r].status = "processing"]
    /\ UNCHANGED <<balance, locked, deposits>>

\* Mutated form: the payout is booked without looking at the balance.
PayableUnchecked(r) == TRUE

\* debitBalanceTx inside the confirming transaction.
Payable(r) == balance[request[r].account][request[r].asset] >= request[r].amount

MarkWithdrawalConfirmed(r) ==
    /\ request[r].status = "processing"
    /\ Payable(r)
    /\ balance' = Sub(balance, request[r].account, request[r].asset, request[r].amount)
    /\ request' = [request EXCEPT ![r].status = "confirmed"]
    /\ UNCHANGED <<locked, deposits>>

MarkWithdrawalFailed(r) ==
    /\ request[r].status = "processing"
    /\ request' = [request EXCEPT ![r].status = "failed"]
    /\ UNCHANGED <<balance, locked, deposits>>

\* Mutated form: a request can be rejected until it is closed.
RejectableOpen(r) == request[r].status \in Open

Rejectable(r) == request[r].status = "pending"

RejectWithdrawalRequest(r) ==
    /\ Rejectable(r)
    /\ request' = [request EXCEPT ![r].status = "rejected"]
    /\ UNCHANGED <<balance, locked, deposits>>

-----------------------------------------------------------------------------
(* Who calls what.                                                         *)

\* Asked for over the wallet API: only USDC can be withdrawn.
WithdrawalStep ==
    \E r \in Requests :
       \/ \E a \in Accounts \ Desks, n \in Amounts : InsertWithdrawalRequest(r, a, "USDC", n)
       \/ MarkWithdrawalProcessing(r)
       \/ MarkWithdrawalConfirmed(r)
       \/ MarkWithdrawalFailed(r)
       \/ RejectWithdrawalRequest(r)

DepositStep ==
    \E h \in Hashes, a \in Accounts \ Desks, n \in Amounts : InsertDeposit(h, a, n)

LockStep ==
    \E a \in Accounts, x \in Assets :
       \/ \E n \in Amounts : LockBalance(a, x, n) \/ UnlockBalance(a, x, n)
       \/ ReleaseLocksFor(a, x)

ReplaceStep ==
    \E a \in Accounts, S \in SUBSET Assets :
       \E targets \in [S -> Amounts \cup {0}] : ReplaceLocksFor(a, targets)

SyncStep ==
    \E a \in Desks, x \in Assets, n \in Amounts \cup {0} : SyncBalanceFor(a, x, n)

\* The engine settles a fill out of what it has locked.  What the buyer pays
\* and what the seller receives are figures of the engine that nothing here
\* compares.
SettleStep ==
    \/ \E a \in Accounts, x \in Assets, n \in Amounts :
          n <= locked[a][x] /\ SettleLockedDebit(a, x, n)
    \/ \E buyer, seller \in Accounts, m \in Markets, qty, paid, received \in Amounts :
          SettleSpotTrade(buyer, seller, m[1], m[2], qty, paid, received)

CreditStep == \E a \in Accounts, x \in Assets, n \in Amounts : CreditBalance(a, x, n)

SwapStep ==
    \E a \in Accounts \ Desks, p \in SwapPairs, n \in Amounts :
       p[1] \in Assets /\ p[2] \in Assets /\ Swap(a, p[1], p[2], n)

\* Debits that do not come out of a reservation: corrections by operators,
\* transfers, and settlements for more than is locked.
PlainDebitStep ==
    \E a \in Accounts, x \in Assets, n \in Amounts :
       \/ DebitBalance(a, x, n)
       \/ n > locked[a][x] /\ SettleLockedDebit(a, x, n)
       \/ \E b \in Accounts : TransferBalance(a, b, x, n)

LedgerNext ==
    WithdrawalStep \/ DepositStep \/ LockStep \/ ReplaceStep \/ SyncStep
    \/ SettleStep \/ CreditStep \/ SwapStep \/ PlainDebitStep

LedgerSpec == LedgerInit /\ [][LedgerNext]_ledger

-----------------------------------------------------------------------------
(* Properties.                                                             *)

\* No column goes below zero although user_balances has no CHECK: the guards
\* of the updates alone keep balances and locks natural numbers.
TypeOK ==
    /\ balance \in [Accounts -> [Assets -> Nat]]
    /\ locked \in [Accounts -> [Assets -> Nat]]
    /\ request \in [Requests -> RequestRow]
    /\ deposits \subseteq DepositRow

Reserved(a, x) == locked[a][x] + Hold(a, x)

\* A step that reserves more of an account's asset, by a lock, a replacement
\* of locks or a withdrawal request, leaves everything reserved of it inside
\* the balance, whatever debits have done to the balance before.
GrantsAreCovered ==
    [][\A a \in Accounts, x \in Assets :
          Reserved(a, x)' > Reserved(a, x) => Reserved(a, x)' <= balance'[a][x]]_ledger

\* A withdrawal request only moves along its life cycle, keeps what it asks
\* for, and is closed once: one being paid out can no longer be rejected.
RequestLifecycle ==
    [][\A r \in Requests :
          request'[r] # request[r] =>
            \/ request[r] = NoRequest /\ request'[r].status = "pending"
            \/ /\ <<request[r].status, request'[r].status>> \in
                     {<<"pending", "processing">>, <<"pending", "rejected">>,
                      <<"processing", "confirmed">>, <<"processing", "failed">>}
               /\ request'[r] = [request[r] EXCEPT !.status = request'[r].status]]_ledger

\* Locks and held withdrawals of an account are together covered by its
\* balance.
ReservationsCovered ==
    \A a \in Accounts, x \in Assets : Reserved(a, x) <= balance[a][x]

\* In every interleaving of the engine, the desks and the users only a swap or
\* a plain debit takes a balance below what is reserved of it: no fill, no
\* repetition of a lock or release, no desk reset and no payout does.
OnlyDebitsErode ==
    [][ReservationsCovered =>
          ReservationsCovered' \/ SwapStep \/ PlainDebitStep]_ledger

Stable == Assets \cap {"USDC", "USDT", "BIUSD"}

\* Stable money held or paid out, beyond what was deposited.
Issued ==
    Total([c \in Accounts \X Stable |-> balance[c[1]][c[2]]])
      + Total([r \in Requests |->
                 IF request[r].status = "confirmed" THEN request[r].amount ELSE 0])
      - Total([d \in deposits |-> d.amount])

\* A spot fill that gives its seller more of the quote than it takes from its
\* buyer, and creates just the difference: the base only changes hands.
OverpaidFill ==
    \E buyer, seller \in Accounts, m \in Markets, qty, paid, received \in Amounts :
       /\ received > paid
       /\ SettleSpotTrade(buyer, seller, m[1], m[2], qty, paid, received)
       /\ Issued' - Issued = received - paid

\* Stable money beyond the deposits comes only from what the engine books
\* (credits, the restoring of a desk) and from fills it reports with
\* a seller's credit above the buyer's debit, and then exactly the difference.
\* No swap in either direction, however it rounds, no transfer, no repeated
\* deposit and no payout creates any.
StableBacked == [][Issued' > Issued => CreditStep \/ SyncStep \/ OverpaidFill]_ledger

\* "records a withdrawal request and reserves the amount" (ledger.go:642): an
\* open request stays covered by the balance.  Swaps and plain debits do not
\* look at it.
HoldsCovered ==
    \A a \in Accounts, x \in Assets : Hold(a, x) <= balance[a][x]
=============================================================================
