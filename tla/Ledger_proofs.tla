---------------------------- MODULE Ledger_proofs ---------------------------
(***************************************************************************)
(* Theorems about the ledger, for every set of accounts, desks, assets,    *)
(* requests and deposits, every amount and every fee.                      *)
(***************************************************************************)
EXTENDS Ledger, Totals_proofs

Column == [Accounts -> [Assets -> Nat]]

-----------------------------------------------------------------------------
(* Columns.                                                                *)

\* An addition keeps a column natural and changes one entry.
LEMMA AddColumn ==
    ASSUME NEW c \in Column, NEW a \in Accounts, NEW x \in Assets, NEW n \in Nat
    PROVE  /\ Add(c, a, x, n) \in Column
           /\ \A b \in Accounts, y \in Assets :
                Add(c, a, x, n)[b][y] = IF b = a /\ y = x THEN c[a][x] + n ELSE c[b][y]
BY DEF Add, Column

\* A covered subtraction keeps a column natural and changes one entry.
LEMMA SubColumn ==
    ASSUME NEW c \in Column, NEW a \in Accounts, NEW x \in Assets, NEW n \in Nat,
           c[a][x] >= n
    PROVE  /\ Sub(c, a, x, n) \in Column
           /\ \A b \in Accounts, y \in Assets :
                Sub(c, a, x, n)[b][y] = IF b = a /\ y = x THEN c[a][x] - n ELSE c[b][y]
<1>1. c[a][x] - n \in Nat
  BY DEF Column
<1>2. Sub(c, a, x, n) = [c EXCEPT ![a] = [c[a] EXCEPT ![x] = c[a][x] - n]]
  BY DEF Sub, Column
<1> QED
  BY <1>1, <1>2 DEF Column

\* So does writing a natural number.
LEMMA SetColumn ==
    ASSUME NEW c \in Column, NEW a \in Accounts, NEW x \in Assets, NEW n \in Nat
    PROVE  /\ Set(c, a, x, n) \in Column
           /\ \A b \in Accounts, y \in Assets :
                Set(c, a, x, n)[b][y] = IF b = a /\ y = x THEN n ELSE c[b][y]
BY DEF Set, Column

\* GREATEST(0, column - n) is natural and no more than the column.
LEMMA LessType ==
    ASSUME NEW m \in Nat, NEW n \in Nat
    PROVE  /\ Less(m, n) \in Nat /\ Less(m, n) <= m
           /\ n <= m => Less(m, n) = m - n
BY DEF Less

\* What a swap credits is an integer (the swap requires it to be positive).
LEMMA SwapCreditType ==
    ASSUME NEW d, NEW n \in Nat
    PROVE  SwapCredit(d, n) \in Int
<1>1. n * SwapFeeBps \in Int /\ BpsBase \in Nat \ {0}
  BY LedgerAssumption
<1>2. (n * SwapFeeBps) \div BpsBase \in Int
  BY <1>1
<1> QED
  BY <1>2 DEF SwapCredit

-----------------------------------------------------------------------------
(* What the open requests hold.                                            *)

HeldBy(row, a, x) ==
    IF row.status \in Open /\ row.account = a /\ row.asset = x THEN row.amount ELSE 0

Held(rows, a, x) == [r \in Requests |-> HeldBy(rows[r], a, x)]

\* What a row holds is a natural number, and so is what all hold.
LEMMA HeldType ==
    ASSUME NEW rows \in [Requests -> RequestRow], NEW a, NEW x
    PROVE  /\ \A row \in RequestRow : HeldBy(row, a, x) \in Nat
           /\ Held(rows, a, x) \in [Requests -> Nat]
BY DEF Held, HeldBy, RequestRow

\* The amount open requests hold is the total of what each holds.
LEMMA HoldIsTotal ==
    ASSUME NEW a, NEW x
    PROVE  /\ Hold(a, x) = Total(Held(request, a, x))
           /\ Hold(a, x)' = Total(Held(request', a, x))
BY DEF Hold, Held, HeldBy

\* So what open requests hold is a natural number.
LEMMA HoldType ==
    ASSUME request \in [Requests -> RequestRow], NEW a, NEW x
    PROVE  Hold(a, x) \in Nat
<1>1. Held(request, a, x) \in [Requests -> Nat]
  BY HeldType
<1> QED
  BY <1>1, HoldIsTotal, TotalType, LedgerAssumption

\* Changing one request changes the hold by what that request holds.
LEMMA HoldUpdate ==
    ASSUME request \in [Requests -> RequestRow], NEW r \in Requests,
           NEW row \in RequestRow, request' = [request EXCEPT ![r] = row],
           NEW a, NEW x
    PROVE  /\ HeldBy(request[r], a, x) \in Nat
           /\ HeldBy(row, a, x) \in Nat
           /\ Hold(a, x)' = Hold(a, x) - HeldBy(request[r], a, x) + HeldBy(row, a, x)
<1> DEFINE f == Held(request, a, x)
           v == HeldBy(row, a, x)
<1>1. /\ f \in [Requests -> Nat] /\ f[r] = HeldBy(request[r], a, x)
      /\ v \in Nat /\ f[r] \in Nat
  BY HeldType DEF Held
<1>2. Held(request', a, x) = [f EXCEPT ![r] = v]
  BY DEF Held
<1>3. Hold(a, x) = Total(f)
  BY HoldIsTotal
<1>4. Hold(a, x)' = Total(Held(request', a, x))
  BY HoldIsTotal
<1>5. IsFiniteSet(Requests)
  BY LedgerAssumption
<1> HIDE DEF f
<1>6. Total([f EXCEPT ![r] = v]) = Total(f) - f[r] + v
  BY <1>1, <1>5, TotalUpdate
<1> QED
  BY <1>1, <1>2, <1>3, <1>4, <1>6

-----------------------------------------------------------------------------
(* What every step keeps.                                                  *)

\* Beside the types: requests belong to users, never to desks, so that the
\* reset of a desk cannot uncover one.
RequestsPlaced ==
    \A r \in Requests : request[r].status # "none" =>
        request[r].account \in Accounts \ Desks /\ request[r].asset \in Assets

LedgerInv == TypeOK /\ RequestsPlaced

\* A step grants no more than is free, or takes nothing away from what is.
Sound(b, y) ==
    \/ Reserved(b, y)' <= balance'[b][y]
    \/ /\ Reserved(b, y)' <= Reserved(b, y)
       /\ balance[b][y] - Reserved(b, y) <= balance'[b][y] - Reserved(b, y)'

Eroding(b, y) == Reserved(b, y)' <= Reserved(b, y)

\* Every balance and every lock is a natural number.
LEMMA Columns ==
    ASSUME LedgerInv
    PROVE  /\ balance \in Column /\ locked \in Column /\ deposits \subseteq DepositRow
           /\ request \in [Requests -> RequestRow]
           /\ \A b \in Accounts, y \in Assets :
                balance[b][y] \in Nat /\ locked[b][y] \in Nat /\ Hold(b, y) \in Nat
<1>1. request \in [Requests -> RequestRow]
  BY DEF LedgerInv, TypeOK
<1>2. \A b \in Accounts, y \in Assets : Hold(b, y) \in Nat
  BY <1>1, HoldType
<1> QED
  BY <1>1, <1>2 DEF LedgerInv, TypeOK, Column

\* Requests that stay as they are hold the same amount.
LEMMA SameHold ==
    ASSUME UNCHANGED request, NEW a, NEW x
    PROVE  Hold(a, x)' = Hold(a, x)
BY HoldIsTotal

\* Steps on balances and locks alone.
LEMMA MoneyTypes ==
    ASSUME LedgerInv, UNCHANGED request,
           balance' \in Column, locked' \in Column, deposits' \subseteq DepositRow
    PROVE  LedgerInv'
BY DEF LedgerInv, TypeOK, RequestsPlaced, Column

\* A step on balances and locks is sound where the new lock is covered beside
\* the requests, or the lock does not grow and the balance follows it.
LEMMA MoneySound ==
    ASSUME LedgerInv, UNCHANGED request, balance' \in Column, locked' \in Column,
           NEW b \in Accounts, NEW y \in Assets,
           \/ locked'[b][y] + Hold(b, y) <= balance'[b][y]
           \/ /\ locked'[b][y] <= locked[b][y]
              /\ balance[b][y] - locked[b][y] <= balance'[b][y] - locked'[b][y]
    PROVE  Sound(b, y)
<1> DEFINE h == Hold(b, y)
<1>1. h \in Nat
  BY HoldType DEF LedgerInv, TypeOK
<1>2. Reserved(b, y) = locked[b][y] + h /\ Reserved(b, y)' = locked'[b][y] + h
  BY SameHold DEF Reserved
<1>3. /\ balance[b][y] \in Nat /\ locked[b][y] \in Nat
      /\ balance'[b][y] \in Nat /\ locked'[b][y] \in Nat
  BY DEF LedgerInv, TypeOK, Column
<1> HIDE DEF h
<1>4. \/ locked'[b][y] + h <= balance'[b][y]
      \/ /\ locked'[b][y] <= locked[b][y]
         /\ balance[b][y] - locked[b][y] <= balance'[b][y] - locked'[b][y]
  BY DEF h
<1> QED
  BY <1>1, <1>2, <1>3, <1>4 DEF Sound

\* Where locks do not grow and the requests stay, nothing is reserved.
LEMMA MoneyEroding ==
    ASSUME LedgerInv, UNCHANGED request, locked' \in Column,
           NEW b \in Accounts, NEW y \in Assets, locked'[b][y] <= locked[b][y]
    PROVE  Eroding(b, y)
<1> DEFINE h == Hold(b, y)
<1>1. h \in Nat
  BY HoldType DEF LedgerInv, TypeOK
<1>2. Reserved(b, y) = locked[b][y] + h /\ Reserved(b, y)' = locked'[b][y] + h
  BY SameHold DEF Reserved
<1>3. locked[b][y] \in Nat /\ locked'[b][y] \in Nat
  BY DEF LedgerInv, TypeOK, Column
<1> HIDE DEF h
<1> QED
  BY <1>1, <1>2, <1>3 DEF Eroding

\* Steps on one request: what it held before and holds afterwards decides.
LEMMA RequestTypes ==
    ASSUME LedgerInv, UNCHANGED <<locked, deposits>>, balance' \in Column,
           NEW r \in Requests, NEW row \in RequestRow,
           request' = [request EXCEPT ![r] = row],
           row.account \in Accounts \ Desks /\ row.asset \in Assets
    PROVE  LedgerInv'
BY DEF LedgerInv, TypeOK, RequestsPlaced, Column

\* A step on one request is sound where what is held afterwards is covered, or
\* the request holds no more than before and the balance follows it.
LEMMA RequestSound ==
    ASSUME LedgerInv, UNCHANGED locked, balance' \in Column,
           NEW r \in Requests, NEW row \in RequestRow,
           request' = [request EXCEPT ![r] = row],
           NEW b \in Accounts, NEW y \in Assets,
           \/ locked[b][y] + Hold(b, y) - HeldBy(request[r], b, y) + HeldBy(row, b, y)
                <= balance'[b][y]
           \/ /\ HeldBy(row, b, y) <= HeldBy(request[r], b, y)
              /\ balance[b][y] + HeldBy(row, b, y)
                   <= balance'[b][y] + HeldBy(request[r], b, y)
    PROVE  Sound(b, y)
<1>1. request \in [Requests -> RequestRow]
  BY Columns
<1>2. /\ HeldBy(request[r], b, y) \in Nat /\ HeldBy(row, b, y) \in Nat
      /\ Hold(b, y)' = Hold(b, y) - HeldBy(request[r], b, y) + HeldBy(row, b, y)
  BY <1>1, HoldUpdate, Zenon
<1>3. /\ Hold(b, y) \in Nat
      /\ balance[b][y] \in Nat /\ locked[b][y] \in Nat /\ balance'[b][y] \in Nat
  BY Columns DEF Column
<1> DEFINE h == Hold(b, y)
           k == Hold(b, y)'
           old == HeldBy(request[r], b, y)
           new == HeldBy(row, b, y)
<1>4. Reserved(b, y) = locked[b][y] + h /\ Reserved(b, y)' = locked[b][y] + k
  BY DEF Reserved
<1>5. h \in Nat /\ old \in Nat /\ new \in Nat /\ k = h - old + new
  BY <1>2, <1>3
<1>6. \/ locked[b][y] + h - old + new <= balance'[b][y]
      \/ new <= old /\ balance[b][y] + new <= balance'[b][y] + old
  OBVIOUS
<1> HIDE DEF h, k, old, new
<1> QED
  BY <1>3, <1>4, <1>5, <1>6 DEF Sound

-----------------------------------------------------------------------------
(* The operations.                                                         *)

StepSound == LedgerInv' /\ \A b \in Accounts, y \in Assets : Sound(b, y)
StepErodes == LedgerInv' /\ \A b \in Accounts, y \in Assets : Eroding(b, y)

\* A lock that fits beside the locks and the requests there are is sound.
LEMMA LockSound ==
    ASSUME LedgerInv, NEW a \in Accounts, NEW x \in Assets, NEW n \in Nat,
           LockBalance(a, x, n)
    PROVE  StepSound
<1>1. /\ locked' = Add(locked, a, x, n)
      /\ UNCHANGED <<balance, request, deposits>>
      /\ locked[a][x] + Hold(a, x) + n <= balance[a][x]
  BY DEF LockBalance, CanReserve
<1>2. balance' \in Column /\ locked' \in Column /\ deposits' \subseteq DepositRow
  BY <1>1, Columns, AddColumn
<1>3. LedgerInv'
  BY <1>1, <1>2, MoneyTypes
<1>4. ASSUME NEW b \in Accounts, NEW y \in Assets PROVE Sound(b, y)
  <2>1. locked'[b][y] = IF b = a /\ y = x THEN locked[a][x] + n ELSE locked[b][y]
    <3>1. locked \in Column
      BY Columns
    <3>2. Add(locked, a, x, n)[b][y] = IF b = a /\ y = x THEN locked[a][x] + n ELSE locked[b][y]
      BY <3>1, AddColumn
    <3> QED
      BY <1>1, <3>2
  <2>2. CASE b = a /\ y = x
    <3>1. locked'[b][y] + Hold(b, y) <= balance'[b][y]
      BY <1>1, <2>1, <2>2, Columns
    <3> QED
      BY <1>1, <1>2, <3>1, MoneySound
  <2>3. CASE ~(b = a /\ y = x)
    <3>1. /\ locked'[b][y] <= locked[b][y]
          /\ balance[b][y] - locked[b][y] <= balance'[b][y] - locked'[b][y]
      BY <1>1, <2>1, <2>3, Columns
    <3> QED
      BY <1>1, <1>2, <3>1, MoneySound
  <2> QED
    BY <2>2, <2>3
<1> QED
  BY <1>3, <1>4 DEF StepSound

\* Unlocking and releasing write a smaller lock.
LEMMA UnlockSound ==
    ASSUME LedgerInv, NEW a \in Accounts, NEW x \in Assets, NEW n \in Nat,
           n <= locked[a][x], locked' = Set(locked, a, x, n),
           UNCHANGED <<balance, request, deposits>>
    PROVE  StepSound
<1>1. balance' \in Column /\ locked' \in Column /\ deposits' \subseteq DepositRow
  BY Columns, SetColumn
<1>2. LedgerInv'
  BY <1>1, MoneyTypes
<1>3. ASSUME NEW b \in Accounts, NEW y \in Assets PROVE Sound(b, y)
  <2>1. locked'[b][y] = IF b = a /\ y = x THEN n ELSE locked[b][y]
    <3>1. locked \in Column
      BY Columns
    <3>2. Set(locked, a, x, n)[b][y] = IF b = a /\ y = x THEN n ELSE locked[b][y]
      BY <3>1, SetColumn
    <3> QED
      BY <3>2
  <2>2. /\ locked'[b][y] <= locked[b][y]
        /\ balance[b][y] - locked[b][y] <= balance'[b][y] - locked'[b][y]
    BY <2>1, Columns
  <2> QED
    BY <1>1, <2>2, MoneySound
<1> QED
  BY <1>2, <1>3 DEF StepSound

\* The engine's and the API's lock, unlock and release requests are sound.
LEMMA LockStepSound == LedgerInv /\ LockStep => StepSound
<1> SUFFICES ASSUME LedgerInv, NEW a \in Accounts, NEW x \in Assets,
                    \/ \E n \in Amounts : LockBalance(a, x, n) \/ UnlockBalance(a, x, n)
                    \/ ReleaseLocksFor(a, x)
             PROVE  StepSound
  BY DEF LockStep
<1>1. Amounts \subseteq Nat
  BY LedgerAssumption
<1>2. CASE \E n \in Amounts : LockBalance(a, x, n)
  BY <1>1, <1>2, LockSound
<1>3. CASE \E n \in Amounts : UnlockBalance(a, x, n)
  <2> PICK n \in Amounts : UnlockBalance(a, x, n)
    BY <1>3
  <2>1. Less(locked[a][x], n) \in Nat /\ Less(locked[a][x], n) <= locked[a][x]
    BY <1>1, Columns, LessType
  <2> QED
    BY <2>1, UnlockSound DEF UnlockBalance
<1>4. CASE ReleaseLocksFor(a, x)
  <2>1. 0 <= locked[a][x]
    BY Columns
  <2> QED
    BY <1>4, <2>1, UnlockSound DEF ReleaseLocksFor
<1> QED
  BY <1>2, <1>3, <1>4

\* A replacement is checked asset by asset before any lock is written.
LEMMA ReplaceStepSound == LedgerInv /\ ReplaceStep => StepSound
<1> SUFFICES ASSUME LedgerInv, ReplaceStep PROVE StepSound
  OBVIOUS
<1> PICK a \in Accounts, S \in SUBSET Assets :
           \E targets \in [S -> Amounts \cup {0}] : ReplaceLocksFor(a, targets)
  BY DEF ReplaceStep
<1> PICK targets \in [S -> Amounts \cup {0}] : ReplaceLocksFor(a, targets)
  OBVIOUS
<1>1. /\ Funded(a, targets) /\ UNCHANGED <<balance, request, deposits>>
      /\ locked' = [locked EXCEPT ![a] =
                      [x \in Assets |-> IF x \in S THEN targets[x] ELSE locked[a][x]]]
  BY Columns DEF ReplaceLocksFor, Column
<1>2. \A x \in S : targets[x] \in Nat /\ targets[x] + Hold(a, x) <= balance[a][x]
  <2>1. DOMAIN targets = S /\ \A x \in S : targets[x] \in Amounts \cup {0}
    OBVIOUS
  <2>2. \A x \in S : targets[x] + Hold(a, x) <= balance[a][x]
    BY <1>1, <2>1 DEF Funded
  <2>3. Amounts \cup {0} \subseteq Nat
    BY LedgerAssumption
  <2> QED
    BY <2>1, <2>2, <2>3
<1>3. /\ locked' \in Column
      /\ \A b \in Accounts, y \in Assets :
           locked'[b][y] = IF b = a /\ y \in S THEN targets[y] ELSE locked[b][y]
  BY <1>1, <1>2, Columns DEF Column
<1>4. balance' \in Column /\ deposits' \subseteq DepositRow
  BY <1>1, Columns
<1>5. LedgerInv'
  BY <1>1, <1>3, <1>4, MoneyTypes
<1>6. ASSUME NEW b \in Accounts, NEW y \in Assets PROVE Sound(b, y)
  <2>1. CASE b = a /\ y \in S
    <3>1. locked'[b][y] + Hold(b, y) <= balance'[b][y]
      BY <1>1, <1>2, <1>3, <2>1
    <3> QED
      BY <1>1, <1>3, <1>4, <3>1, MoneySound
  <2>2. CASE ~(b = a /\ y \in S)
    <3>1. /\ locked'[b][y] <= locked[b][y]
          /\ balance[b][y] - locked[b][y] <= balance'[b][y] - locked'[b][y]
      BY <1>1, <1>3, <2>2, Columns
    <3> QED
      BY <1>1, <1>3, <1>4, <3>1, MoneySound
  <2> QED
    BY <2>1, <2>2
<1> QED
  BY <1>5, <1>6 DEF StepSound

\* A desk has no withdrawal requests: its hold is nothing.
LEMMA DeskHoldsNothing ==
    ASSUME LedgerInv, NEW a \in Desks, NEW x
    PROVE  Hold(a, x) = 0
<1>1. ASSUME NEW r \in Requests PROVE HeldBy(request[r], a, x) = 0
  BY DEF LedgerInv, RequestsPlaced, HeldBy, Open
<1>2. Held(request, a, x) = [r \in Requests |-> 0]
  BY <1>1 DEF Held
<1> QED
  BY <1>2, HoldIsTotal, TotalOfZeros

\* So is the reset of a desk's balance, because a desk has no request that the
\* reset could uncover.
LEMMA SyncStepSound == LedgerInv /\ SyncStep => StepSound
<1> SUFFICES ASSUME LedgerInv, NEW a \in Desks, NEW x \in Assets,
                    NEW n \in Amounts \cup {0}, SyncBalanceFor(a, x, n)
             PROVE  StepSound
  BY DEF SyncStep
<1>1. n \in Nat /\ a \in Accounts
  BY LedgerAssumption
<1>2. /\ balance' = Set(balance, a, x, n) /\ locked' = Set(locked, a, x, 0)
      /\ UNCHANGED <<request, deposits>>
  BY DEF SyncBalanceFor
<1>3. balance' \in Column /\ locked' \in Column /\ deposits' \subseteq DepositRow
  BY <1>1, <1>2, Columns, SetColumn
<1>4. LedgerInv'
  BY <1>2, <1>3, MoneyTypes
<1>5. ASSUME NEW b \in Accounts, NEW y \in Assets PROVE Sound(b, y)
  <2>1. /\ locked'[b][y] = IF b = a /\ y = x THEN 0 ELSE locked[b][y]
        /\ balance'[b][y] = IF b = a /\ y = x THEN n ELSE balance[b][y]
    <3>1. locked \in Column /\ balance \in Column
      BY Columns
    <3>2. /\ Set(locked, a, x, 0)[b][y] = IF b = a /\ y = x THEN 0 ELSE locked[b][y]
          /\ Set(balance, a, x, n)[b][y] = IF b = a /\ y = x THEN n ELSE balance[b][y]
      BY <1>1, <3>1, SetColumn
    <3> QED
      BY <1>2, <3>2
  <2>2. CASE b = a /\ y = x
    <3>1. locked'[b][y] + Hold(b, y) <= balance'[b][y]
      BY <1>1, <2>1, <2>2, DeskHoldsNothing
    <3> QED
      BY <1>2, <1>3, <3>1, MoneySound
  <2>3. CASE ~(b = a /\ y = x)
    <3>1. /\ locked'[b][y] <= locked[b][y]
          /\ balance[b][y] - locked[b][y] <= balance'[b][y] - locked'[b][y]
      BY <2>1, <2>3, Columns
    <3> QED
      BY <1>2, <1>3, <3>1, MoneySound
  <2> QED
    BY <2>2, <2>3
<1> QED
  BY <1>4, <1>5 DEF StepSound

\* A debit that takes the lock with it keeps the difference.
LEMMA DebitSettledSound ==
    ASSUME LedgerInv, NEW a \in Accounts, NEW x \in Assets, NEW n \in Nat,
           n <= locked[a][x], SettleLockedDebit(a, x, n)
    PROVE  StepSound
<1>1. /\ balance' = Sub(balance, a, x, n) /\ locked' = Set(locked, a, x, locked[a][x] - n)
      /\ UNCHANGED <<request, deposits>> /\ balance[a][x] >= n
      /\ locked[a][x] - n \in Nat
  BY Columns, LessType DEF SettleLockedDebit
<1>2. /\ balance' \in Column /\ locked' \in Column
      /\ \A b \in Accounts, y \in Assets :
           /\ balance'[b][y] = IF b = a /\ y = x THEN balance[a][x] - n ELSE balance[b][y]
           /\ locked'[b][y] = IF b = a /\ y = x THEN locked[a][x] - n ELSE locked[b][y]
  <2>1. balance \in Column /\ locked \in Column
    BY Columns
  <2>2. /\ Sub(balance, a, x, n) \in Column
        /\ \A b \in Accounts, y \in Assets : Sub(balance, a, x, n)[b][y] =
             IF b = a /\ y = x THEN balance[a][x] - n ELSE balance[b][y]
    BY <1>1, <2>1, SubColumn
  <2>3. /\ Set(locked, a, x, locked[a][x] - n) \in Column
        /\ \A b \in Accounts, y \in Assets : Set(locked, a, x, locked[a][x] - n)[b][y] =
             IF b = a /\ y = x THEN locked[a][x] - n ELSE locked[b][y]
    <3> DEFINE k == locked[a][x] - n
    <3>1. k \in Nat
      BY <1>1
    <3>2. locked \in Column
      BY <2>1
    <3> HIDE DEF k
    <3>3. /\ Set(locked, a, x, k) \in Column
          /\ \A b \in Accounts, y \in Assets : Set(locked, a, x, k)[b][y] =
               IF b = a /\ y = x THEN k ELSE locked[b][y]
      BY <3>1, <3>2, SetColumn
    <3> QED
      BY <3>3 DEF k
  <2> QED
    BY <1>1, <2>2, <2>3
<1>3. LedgerInv'
  BY <1>1, <1>2, Columns, MoneyTypes
<1>4. ASSUME NEW b \in Accounts, NEW y \in Assets PROVE Sound(b, y)
  <2>1. /\ locked'[b][y] <= locked[b][y]
        /\ balance[b][y] - locked[b][y] <= balance'[b][y] - locked'[b][y]
    BY <1>2, Columns
  <2> QED
    BY <1>1, <1>2, <2>1, MoneySound
<1> QED
  BY <1>3, <1>4 DEF StepSound

\* A spot fill: each payer loses balance and lock alike, and both receive.
LEMMA SpotTradeSound ==
    ASSUME LedgerInv, NEW buyer \in Accounts, NEW seller \in Accounts,
           NEW base \in Assets, NEW quote \in Assets, base # quote,
           NEW qty \in Nat, NEW paid \in Nat, NEW received \in Nat,
           SettleSpotTrade(buyer, seller, base, quote, qty, paid, received)
    PROVE  StepSound
<1> DEFINE B1 == Sub(balance, buyer, quote, paid)
           B2 == Sub(B1, seller, base, qty)
           B3 == Add(B2, buyer, base, qty)
           B4 == Add(B3, seller, quote, received)
           L1 == Sub(locked, buyer, quote, paid)
           L2 == Sub(L1, seller, base, qty)
<1>1. /\ buyer # seller /\ UNCHANGED <<request, deposits>>
      /\ balance[buyer][quote] >= paid /\ locked[buyer][quote] >= paid
      /\ balance[seller][base] >= qty /\ locked[seller][base] >= qty
      /\ balance' = B4 /\ locked' = L2
  BY DEF SettleSpotTrade, Consumes
<1>2. balance \in Column /\ locked \in Column
  BY Columns
<1>3. /\ B1 \in Column
      /\ \A b \in Accounts, y \in Assets :
           B1[b][y] = IF b = buyer /\ y = quote THEN balance[buyer][quote] - paid ELSE balance[b][y]
  BY <1>1, <1>2, SubColumn
<1>4. /\ L1 \in Column
      /\ \A b \in Accounts, y \in Assets :
           L1[b][y] = IF b = buyer /\ y = quote THEN locked[buyer][quote] - paid ELSE locked[b][y]
  BY <1>1, <1>2, SubColumn
<1>5. B1[seller][base] = balance[seller][base] /\ L1[seller][base] = locked[seller][base]
  BY <1>1, <1>3, <1>4
<1> HIDE DEF B1, L1
<1>6. /\ B2 \in Column
      /\ \A b \in Accounts, y \in Assets :
           B2[b][y] = IF b = seller /\ y = base THEN B1[seller][base] - qty ELSE B1[b][y]
  BY <1>1, <1>3, <1>5, SubColumn
<1>7. /\ L2 \in Column
      /\ \A b \in Accounts, y \in Assets :
           L2[b][y] = IF b = seller /\ y = base THEN L1[seller][base] - qty ELSE L1[b][y]
  BY <1>1, <1>4, <1>5, SubColumn
<1>6a. B2 \in Column
  BY <1>6
<1> HIDE DEF B2, L2
<1>8. /\ B3 \in Column
      /\ \A b \in Accounts, y \in Assets :
           B3[b][y] = IF b = buyer /\ y = base THEN B2[buyer][base] + qty ELSE B2[b][y]
  BY <1>6a DEF Add, Column
<1>8a. B3 \in Column
  BY <1>8
<1> HIDE DEF B3
<1>9. /\ B4 \in Column
      /\ \A b \in Accounts, y \in Assets :
           B4[b][y] = IF b = seller /\ y = quote THEN B3[seller][quote] + received ELSE B3[b][y]
  BY <1>8a DEF Add, Column
<1> HIDE DEF B4
<1>10. LedgerInv'
  BY <1>1, <1>7, <1>9, Columns, MoneyTypes
<1>11. ASSUME NEW b \in Accounts, NEW y \in Assets PROVE Sound(b, y)
  <2>1. balance[b][y] \in Nat /\ locked[b][y] \in Nat
    BY Columns
  <2>2. CASE b = buyer /\ y = quote
    <3>1. L2[b][y] = locked[b][y] - paid /\ B4[b][y] = balance[b][y] - paid
      BY <1>1, <1>3, <1>4, <1>6, <1>7, <1>8, <1>9, <2>2
    <3> QED
      BY <1>1, <1>7, <1>9, <2>1, <3>1, MoneySound
  <2>3. CASE b = seller /\ y = base
    <3>1. L2[b][y] = locked[b][y] - qty /\ B4[b][y] = balance[b][y] - qty
      BY <1>1, <1>3, <1>4, <1>6, <1>7, <1>8, <1>9, <2>3
    <3> QED
      BY <1>1, <1>7, <1>9, <2>1, <3>1, MoneySound
  <2>4. CASE ~(b = buyer /\ y = quote) /\ ~(b = seller /\ y = base)
    <3>1. L2[b][y] = locked[b][y]
      BY <1>4, <1>7, <2>4
    <3>2. B2[b][y] = balance[b][y]
      BY <1>3, <1>6, <2>4
    <3>3. B3[b][y] \in Nat /\ balance[b][y] <= B3[b][y]
      BY <1>8, <2>1, <3>2
    <3>4. B4[b][y] \in Nat /\ balance[b][y] <= B4[b][y]
      BY <1>9, <2>1, <3>3
    <3> QED
      BY <1>1, <1>7, <1>9, <2>1, <3>1, <3>4, MoneySound
  <2> QED
    BY <2>2, <2>3, <2>4
<1> QED
  BY <1>10, <1>11 DEF StepSound

\* Fills of the engine, on either side of the market, are sound.
LEMMA SettleStepSound == LedgerInv /\ SettleStep => StepSound
<1> SUFFICES ASSUME LedgerInv, SettleStep PROVE StepSound
  OBVIOUS
<1>1. Amounts \subseteq Nat /\ \A m \in Markets : m[1] \in Assets /\ m[2] \in Assets /\ m[1] # m[2]
  BY LedgerAssumption
<1>2. CASE \E a \in Accounts, x \in Assets, n \in Amounts :
             n <= locked[a][x] /\ SettleLockedDebit(a, x, n)
  BY <1>1, <1>2, DebitSettledSound
<1>3. CASE \E buyer, seller \in Accounts, m \in Markets, qty, paid, received \in Amounts :
             SettleSpotTrade(buyer, seller, m[1], m[2], qty, paid, received)
  <2> PICK buyer \in Accounts, seller \in Accounts, m \in Markets,
           qty \in Amounts, paid \in Amounts, received \in Amounts :
             SettleSpotTrade(buyer, seller, m[1], m[2], qty, paid, received)
    BY <1>3
  <2>1. /\ m[1] \in Assets /\ m[2] \in Assets /\ m[1] # m[2]
        /\ qty \in Nat /\ paid \in Nat /\ received \in Nat
    BY <1>1
  <2> QED
    BY <2>1, SpotTradeSound
<1> QED
  BY <1>2, <1>3 DEF SettleStep

\* Money that arrives uncovers nothing.
LEMMA ReceiveSound ==
    ASSUME LedgerInv, NEW a \in Accounts, NEW x \in Assets, NEW n \in Nat,
           balance' = Add(balance, a, x, n), UNCHANGED <<locked, request>>,
           deposits' \subseteq DepositRow
    PROVE  StepSound
<1>1. balance \in Column /\ locked' \in Column
  BY Columns
<1>2. /\ balance' \in Column
      /\ \A b \in Accounts, y \in Assets :
           balance'[b][y] = IF b = a /\ y = x THEN balance[a][x] + n ELSE balance[b][y]
  BY <1>1, AddColumn
<1>3. LedgerInv'
  BY <1>1, <1>2, MoneyTypes
<1>4. ASSUME NEW b \in Accounts, NEW y \in Assets PROVE Sound(b, y)
  <2>1. /\ locked'[b][y] <= locked[b][y]
        /\ balance[b][y] - locked[b][y] <= balance'[b][y] - locked'[b][y]
    BY <1>2, Columns
  <2> QED
    BY <1>1, <1>2, <2>1, MoneySound
<1> QED
  BY <1>3, <1>4 DEF StepSound

\* A step that changes nothing.
LEMMA IdleSound == LedgerInv /\ UNCHANGED ledger => StepSound
<1> SUFFICES ASSUME LedgerInv, UNCHANGED ledger PROVE StepSound
  OBVIOUS
<1>1. /\ UNCHANGED <<balance, locked, request, deposits>>
      /\ balance' \in Column /\ locked' \in Column /\ deposits' \subseteq DepositRow
  BY Columns DEF ledger
<1>2. LedgerInv'
  BY <1>1, MoneyTypes
<1>3. ASSUME NEW b \in Accounts, NEW y \in Assets PROVE Sound(b, y)
  <2>1. /\ locked'[b][y] <= locked[b][y]
        /\ balance[b][y] - locked[b][y] <= balance'[b][y] - locked'[b][y]
    BY <1>1, Columns
  <2> QED
    BY <1>1, <2>1, MoneySound
<1> QED
  BY <1>2, <1>3 DEF StepSound

\* Corrections that add to a balance are sound.
LEMMA CreditStepSound == LedgerInv /\ CreditStep => StepSound
<1> SUFFICES ASSUME LedgerInv, NEW a \in Accounts, NEW x \in Assets, NEW n \in Amounts,
                    CreditBalance(a, x, n)
             PROVE  StepSound
  BY DEF CreditStep
<1>1. n \in Nat
  BY LedgerAssumption
<1> QED
  BY <1>1, Columns, ReceiveSound DEF CreditBalance

\* So is a deposit, recorded for the first time or again.
LEMMA DepositStepSound == LedgerInv /\ DepositStep => StepSound
<1> SUFFICES ASSUME LedgerInv, NEW h \in Hashes, NEW a \in Accounts \ Desks, NEW n \in Amounts,
                    InsertDeposit(h, a, n)
             PROVE  StepSound
  BY DEF DepositStep
<1>1. n \in Nat /\ "BIUSD" \in Assets
  BY LedgerAssumption
<1>2. CASE Fresh(h)
  <2>1. /\ deposits' = deposits \cup {[hash |-> h, account |-> a, amount |-> n]}
        /\ balance' = Add(balance, a, "BIUSD", n) /\ UNCHANGED <<locked, request>>
    BY <1>2 DEF InsertDeposit
  <2>2. deposits' \subseteq DepositRow
    BY <2>1, Columns DEF DepositRow
  <2> QED
    BY <1>1, <2>1, <2>2, ReceiveSound
<1>3. CASE ~Fresh(h)
  BY <1>3, IdleSound DEF InsertDeposit, ledger
<1> QED
  BY <1>2, <1>3

-----------------------------------------------------------------------------
(* Swaps and plain debits: types and no new reservation.                   *)

\* A step on balances alone reserves nothing.
LEMMA SpendErodes ==
    ASSUME LedgerInv, balance' \in Column, UNCHANGED <<locked, request, deposits>>
    PROVE  StepErodes
<1>1. locked' \in Column /\ deposits' \subseteq DepositRow
  BY Columns
<1>2. LedgerInv'
  BY <1>1, MoneyTypes
<1>3. ASSUME NEW b \in Accounts, NEW y \in Assets PROVE Eroding(b, y)
  <2>1. locked'[b][y] <= locked[b][y]
    BY Columns
  <2> QED
    BY <1>1, <2>1, MoneyEroding
<1> QED
  BY <1>2, <1>3 DEF StepErodes

\* A swap debits the bare column: it reserves nothing, but may uncover.
LEMMA SwapStepErodes == LedgerInv /\ SwapStep => StepErodes
<1> SUFFICES ASSUME LedgerInv, NEW a \in Accounts \ Desks, NEW p \in SwapPairs,
                    NEW n \in Amounts, p[1] \in Assets, p[2] \in Assets,
                    Swap(a, p[1], p[2], n)
             PROVE  StepErodes
  BY DEF SwapStep
<1> DEFINE c == SwapCredit(p[2], n)
<1>1. n \in Nat
  BY LedgerAssumption
<1>2. c \in Int
  BY <1>1, SwapCreditType
<1>3. /\ c > 0 /\ balance[a][p[1]] >= n /\ UNCHANGED <<locked, request, deposits>>
      /\ balance' = Add(Sub(balance, a, p[1], n), a, p[2], c)
  BY DEF Swap
<1> HIDE DEF c
<1>4. c \in Nat
  BY <1>2, <1>3
<1>5. balance \in Column
  BY Columns
<1>6. Sub(balance, a, p[1], n) \in Column
  BY <1>1, <1>3, <1>5, SubColumn
<1>7. balance' \in Column
  BY <1>3, <1>4, <1>6, AddColumn
<1> QED
  BY <1>3, <1>7, SpendErodes

\* So does a transfer, which looks at the sender's bare column.
LEMMA TransferErodes ==
    ASSUME LedgerInv, NEW a \in Accounts, NEW b \in Accounts, NEW x \in Assets, NEW n \in Nat,
           TransferBalance(a, b, x, n)
    PROVE  StepErodes
<1>1. /\ balance[a][x] >= n /\ UNCHANGED <<locked, request, deposits>>
      /\ balance' = Add(Sub(balance, a, x, n), b, x, n)
  BY DEF TransferBalance
<1>2. balance \in Column
  BY Columns
<1>3. Sub(balance, a, x, n) \in Column
  BY <1>1, <1>2, SubColumn
<1>4. balance' \in Column
  BY <1>1, <1>3, AddColumn
<1> QED
  BY <1>1, <1>4, SpendErodes

\* A settlement for more than the lock empties the lock.
LEMMA OversettleErodes ==
    ASSUME LedgerInv, NEW a \in Accounts, NEW x \in Assets, NEW n \in Nat,
           SettleLockedDebit(a, x, n)
    PROVE  StepErodes
<1> DEFINE k == Less(locked[a][x], n)
<1>1. k \in Nat /\ k <= locked[a][x]
  BY Columns, LessType
<1> HIDE DEF k
<1>2. /\ balance[a][x] >= n /\ UNCHANGED <<request, deposits>>
      /\ balance' = Sub(balance, a, x, n) /\ locked' = Set(locked, a, x, k)
  BY DEF SettleLockedDebit, k
<1>3. balance \in Column /\ locked \in Column
  BY Columns
<1>4. balance' \in Column
  BY <1>2, <1>3, SubColumn
<1>5. /\ locked' \in Column
      /\ \A b \in Accounts, y \in Assets :
           locked'[b][y] = IF b = a /\ y = x THEN k ELSE locked[b][y]
  BY <1>1, <1>2, <1>3, SetColumn
<1>6. LedgerInv'
  BY <1>2, <1>4, <1>5, Columns, MoneyTypes
<1>7. ASSUME NEW b \in Accounts, NEW y \in Assets PROVE Eroding(b, y)
  <2>1. locked'[b][y] <= locked[b][y]
    BY <1>1, <1>5, Columns
  <2> QED
    BY <1>2, <1>5, <2>1, MoneyEroding
<1> QED
  BY <1>6, <1>7 DEF StepErodes

\* Debits that do not look at locks and requests reserve nothing.
LEMMA PlainDebitStepErodes == LedgerInv /\ PlainDebitStep => StepErodes
<1> SUFFICES ASSUME LedgerInv, NEW a \in Accounts, NEW x \in Assets, NEW n \in Amounts,
                    \/ DebitBalance(a, x, n)
                    \/ n > locked[a][x] /\ SettleLockedDebit(a, x, n)
                    \/ \E b \in Accounts : TransferBalance(a, b, x, n)
             PROVE  StepErodes
  BY DEF PlainDebitStep
<1>1. n \in Nat
  BY LedgerAssumption
<1>2. CASE DebitBalance(a, x, n)
  <2>1. balance \in Column
    BY Columns
  <2>2. balance' \in Column
    BY <1>1, <1>2, <2>1, SubColumn DEF DebitBalance
  <2> QED
    BY <1>2, <2>2, SpendErodes DEF DebitBalance
<1> QED
  BY <1>1, <1>2, TransferErodes, OversettleErodes

-----------------------------------------------------------------------------
(* Withdrawal requests.                                                    *)

\* A new request must fit beside the locks and the requests there are.
LEMMA InsertSound ==
    ASSUME LedgerInv, NEW r \in Requests, NEW a \in Accounts \ Desks, NEW x \in Assets,
           NEW n \in Nat, InsertWithdrawalRequest(r, a, x, n)
    PROVE  StepSound
<1> DEFINE row == [status |-> "pending", account |-> a, asset |-> x, amount |-> n]
<1>1. /\ request[r].status = "none" /\ locked[a][x] + Hold(a, x) + n <= balance[a][x]
      /\ request' = [request EXCEPT ![r] = row] /\ UNCHANGED <<balance, locked, deposits>>
  BY DEF InsertWithdrawalRequest, CanReserve
<1>2. row \in RequestRow /\ row.account \in Accounts \ Desks /\ row.asset \in Assets
  BY DEF RequestRow, Open
<1>3. \A b, y : /\ HeldBy(request[r], b, y) = 0
                /\ HeldBy(row, b, y) = IF b = a /\ y = x THEN n ELSE 0
  BY <1>1 DEF HeldBy, Open
<1> HIDE DEF row
<1>4. balance' \in Column
  BY <1>1, Columns
<1>5. LedgerInv'
  BY <1>1, <1>2, <1>4, RequestTypes
<1>6. ASSUME NEW b \in Accounts, NEW y \in Assets PROVE Sound(b, y)
  <2>1. CASE b = a /\ y = x
    <3>1. locked[b][y] + Hold(b, y) - HeldBy(request[r], b, y) + HeldBy(row, b, y)
            <= balance'[b][y]
      BY <1>1, <1>3, <2>1, Columns
    <3> QED
      BY <1>1, <1>2, <1>4, <3>1, RequestSound
  <2>2. CASE ~(b = a /\ y = x)
    <3>1. /\ HeldBy(row, b, y) <= HeldBy(request[r], b, y)
          /\ balance[b][y] + HeldBy(row, b, y) <= balance'[b][y] + HeldBy(request[r], b, y)
      BY <1>1, <1>3, <2>2, Columns
    <3> QED
      BY <1>1, <1>2, <1>4, <3>1, RequestSound
  <2> QED
    BY <2>1, <2>2
<1> QED
  BY <1>5, <1>6 DEF StepSound

\* Moving an open request to another status never makes it hold more.
LEMMA MoveSound ==
    ASSUME LedgerInv, NEW r \in Requests, NEW s \in Open \cup Closed,
           request[r].status \in Open, request' = [request EXCEPT ![r].status = s],
           UNCHANGED <<balance, locked, deposits>>
    PROVE  StepSound
<1> DEFINE row == [request[r] EXCEPT !.status = s]
<1>1. /\ request[r] \in RequestRow /\ request' = [request EXCEPT ![r] = row]
  BY Columns
<1>2. /\ row \in RequestRow /\ row.status = s /\ row.account = request[r].account
      /\ row.asset = request[r].asset /\ row.amount = request[r].amount
  BY <1>1 DEF RequestRow
<1>3. row.account \in Accounts \ Desks /\ row.asset \in Assets
  BY <1>2 DEF LedgerInv, RequestsPlaced, Open
<1> HIDE DEF row
<1>4. \A b, y : /\ HeldBy(request[r], b, y) \in Nat /\ HeldBy(row, b, y) \in Nat
                /\ HeldBy(row, b, y) <= HeldBy(request[r], b, y)
  BY <1>1, <1>2 DEF HeldBy, RequestRow
<1>5. balance' \in Column
  BY Columns
<1>6. LedgerInv'
  BY <1>1, <1>2, <1>3, <1>5, RequestTypes
<1>7. ASSUME NEW b \in Accounts, NEW y \in Assets PROVE Sound(b, y)
  <2>1. /\ HeldBy(row, b, y) <= HeldBy(request[r], b, y)
        /\ balance[b][y] + HeldBy(row, b, y) <= balance'[b][y] + HeldBy(request[r], b, y)
    BY <1>4, Columns
  <2> QED
    BY <1>1, <1>2, <1>5, <2>1, RequestSound
<1> QED
  BY <1>6, <1>7 DEF StepSound

\* Booking a payout takes the amount out of balance and hold alike.
LEMMA ConfirmSound ==
    ASSUME LedgerInv, NEW r \in Requests, MarkWithdrawalConfirmed(r)
    PROVE  StepSound
<1> DEFINE row == [request[r] EXCEPT !.status = "confirmed"]
           a == request[r].account
           x == request[r].asset
           n == request[r].amount
<1>1. /\ request[r] \in RequestRow /\ request[r].status = "processing"
      /\ request' = [request EXCEPT ![r] = row] /\ UNCHANGED <<locked, deposits>>
      /\ balance[a][x] >= n /\ balance' = Sub(balance, a, x, n)
  BY Columns DEF MarkWithdrawalConfirmed, Payable
<1>2. /\ row \in RequestRow /\ row.status = "confirmed" /\ row.account = a
      /\ row.asset = x /\ row.amount = n /\ n \in Nat
  BY <1>1 DEF RequestRow, Closed
<1>3. a \in Accounts \ Desks /\ x \in Assets
  BY <1>1 DEF LedgerInv, RequestsPlaced
<1>4. \A b, y : /\ HeldBy(request[r], b, y) = IF b = a /\ y = x THEN n ELSE 0
                /\ HeldBy(row, b, y) = 0
  BY <1>1, <1>2 DEF HeldBy, Open
<1>5. balance \in Column
  BY Columns
<1> HIDE DEF row, a, x, n
<1>6. /\ balance' \in Column
      /\ \A b \in Accounts, y \in Assets :
           balance'[b][y] = IF b = a /\ y = x THEN balance[a][x] - n ELSE balance[b][y]
  BY <1>1, <1>2, <1>3, <1>5, SubColumn
<1>7. LedgerInv'
  BY <1>1, <1>2, <1>3, <1>6, RequestTypes
<1>8. ASSUME NEW b \in Accounts, NEW y \in Assets PROVE Sound(b, y)
  <2>1. /\ HeldBy(row, b, y) <= HeldBy(request[r], b, y)
        /\ balance[b][y] + HeldBy(row, b, y) <= balance'[b][y] + HeldBy(request[r], b, y)
    BY <1>2, <1>4, <1>6, Columns
  <2> QED
    BY <1>1, <1>2, <1>6, <2>1, RequestSound
<1> QED
  BY <1>7, <1>8 DEF StepSound

\* Every step of a request's life cycle is sound.
LEMMA WithdrawalStepSound == LedgerInv /\ WithdrawalStep => StepSound
<1> SUFFICES ASSUME LedgerInv, NEW r \in Requests,
                    \/ \E a \in Accounts \ Desks, n \in Amounts :
                         InsertWithdrawalRequest(r, a, "USDC", n)
                    \/ MarkWithdrawalProcessing(r)
                    \/ MarkWithdrawalConfirmed(r)
                    \/ MarkWithdrawalFailed(r)
                    \/ RejectWithdrawalRequest(r)
             PROVE  StepSound
  BY DEF WithdrawalStep
<1>1. CASE \E a \in Accounts \ Desks, n \in Amounts : InsertWithdrawalRequest(r, a, "USDC", n)
  <2>1. "USDC" \in Assets /\ Amounts \subseteq Nat
    BY LedgerAssumption
  <2> QED
    BY <1>1, <2>1, InsertSound
<1>2. CASE MarkWithdrawalProcessing(r)
  BY <1>2, MoveSound DEF MarkWithdrawalProcessing, Claimable, Open
<1>3. CASE MarkWithdrawalConfirmed(r)
  BY <1>3, ConfirmSound
<1>4. CASE MarkWithdrawalFailed(r)
  BY <1>4, MoveSound DEF MarkWithdrawalFailed, Open, Closed
<1>5. CASE RejectWithdrawalRequest(r)
  BY <1>5, MoveSound DEF RejectWithdrawalRequest, Rejectable, Open, Closed
<1> QED
  BY <1>1, <1>2, <1>3, <1>4, <1>5

-----------------------------------------------------------------------------
(* The theorems.                                                           *)

\* Every step is sound, or is a swap or a plain debit and reserves nothing.
LEMMA LedgerSteps ==
    ASSUME LedgerInv, [LedgerNext]_ledger
    PROVE  StepSound \/ (StepErodes /\ (SwapStep \/ PlainDebitStep))
BY WithdrawalStepSound, DepositStepSound, LockStepSound, ReplaceStepSound, SyncStepSound,
   SettleStepSound, CreditStepSound, SwapStepErodes, PlainDebitStepErodes, IdleSound
   DEF LedgerNext

\* The ledger starts without locks and requests.
LEMMA InitLedgerInv == LedgerInit => LedgerInv
<1> SUFFICES ASSUME LedgerInit PROVE LedgerInv
  OBVIOUS
<1>1. request \in [Requests -> RequestRow] /\ RequestsPlaced
  BY DEF LedgerInit, NoRequest, RequestRow, RequestsPlaced
<1> QED
  BY <1>1, LedgerAssumption DEF LedgerInit, LedgerInv, TypeOK

\* Reserved amounts and balances are numbers, before a step and after it.
LEMMA ReservedType ==
    ASSUME LedgerInv, NEW a \in Accounts, NEW x \in Assets
    PROVE  Reserved(a, x) \in Nat /\ balance[a][x] \in Nat
BY Columns DEF Reserved

\* The same after a step that keeps the invariant.
LEMMA ReservedTypeNext ==
    ASSUME LedgerInv', NEW a \in Accounts, NEW x \in Assets
    PROVE  Reserved(a, x)' \in Nat /\ balance'[a][x] \in Nat
<1>1. /\ balance'[a][x] \in Nat /\ locked'[a][x] \in Nat
      /\ request' \in [Requests -> RequestRow]
  BY DEF LedgerInv, TypeOK
<1>2. Held(request', a, x) \in [Requests -> Nat]
  BY <1>1, HeldType
<1>3. IsFiniteSet(Requests)
  BY LedgerAssumption
<1>4. Hold(a, x)' \in Nat
  BY <1>2, <1>3, HoldIsTotal, TotalType
<1> QED
  BY <1>1, <1>4 DEF Reserved

\* The types and the placing of requests are inductive together.
THEOREM LedgerInvariant == LedgerSpec => []LedgerInv
<1>1. LedgerInv /\ [LedgerNext]_ledger => LedgerInv'
  BY LedgerSteps DEF StepSound, StepErodes
<1> QED
  BY <1>1, InitLedgerInv, PTL DEF LedgerSpec

\* Balances and locks stay natural numbers for any accounts and amounts,
\* although the table has no constraint that would see to it.
THEOREM LedgerTypeCorrect == LedgerSpec => []TypeOK
<1>1. LedgerInv => TypeOK
  BY DEF LedgerInv
<1> QED
  BY <1>1, LedgerInvariant, PTL

\* No lock, replacement of locks or withdrawal request is ever granted beyond
\* what the balance covers.
THEOREM GrantsCorrect == LedgerSpec => GrantsAreCovered
<1>1. ASSUME LedgerInv, [LedgerNext]_ledger
      PROVE  [\A a \in Accounts, x \in Assets :
                Reserved(a, x)' > Reserved(a, x) => Reserved(a, x)' <= balance'[a][x]]_ledger
  <2>1. ASSUME NEW a \in Accounts, NEW x \in Assets, Reserved(a, x)' > Reserved(a, x)
        PROVE  Reserved(a, x)' <= balance'[a][x]
    <3>1. LedgerInv' /\ (Sound(a, x) \/ Eroding(a, x))
      BY <1>1, LedgerSteps DEF StepSound, StepErodes
    <3>2. Reserved(a, x) \in Nat /\ Reserved(a, x)' \in Nat
      BY <1>1, <3>1, ReservedType, ReservedTypeNext
    <3> QED
      BY <2>1, <3>1, <3>2 DEF Sound, Eroding
  <2> QED
    BY <2>1
<1> QED
  BY <1>1, LedgerInvariant, PTL DEF LedgerSpec, GrantsAreCovered

\* Once all reservations are covered, only a swap or a plain debit can leave
\* one uncovered.
THEOREM ErosionCorrect == LedgerSpec => OnlyDebitsErode
<1>1. ASSUME LedgerInv, [LedgerNext]_ledger
      PROVE  [ReservationsCovered =>
                ReservationsCovered' \/ SwapStep \/ PlainDebitStep]_ledger
  <2>1. ASSUME ReservationsCovered, StepSound PROVE ReservationsCovered'
    <3>1. ASSUME NEW a \in Accounts, NEW x \in Assets
          PROVE  Reserved(a, x)' <= balance'[a][x]
      <4>1. Reserved(a, x) <= balance[a][x] /\ Sound(a, x) /\ LedgerInv'
        BY <2>1 DEF ReservationsCovered, StepSound
      <4>2. /\ Reserved(a, x) \in Nat /\ Reserved(a, x)' \in Nat
            /\ balance[a][x] \in Nat /\ balance'[a][x] \in Nat
        BY <1>1, <4>1, ReservedType, ReservedTypeNext
      <4> QED
        BY <4>1, <4>2 DEF Sound
    <3> QED
      BY <3>1 DEF ReservationsCovered
  <2> QED
    BY <1>1, <2>1, LedgerSteps
<1> QED
  BY <1>1, LedgerInvariant, PTL DEF LedgerSpec, OnlyDebitsErode

-----------------------------------------------------------------------------
(* The life cycle of requests.                                             *)

\* A request that was never made is blank; one that was asks for a stable coin.
RequestsMade ==
    \A r \in Requests :
       IF request[r].status = "none" THEN request[r] = NoRequest
                                     ELSE request[r].asset = "USDC"

\* One request of a step and what may become of it.
Moves(r) ==
    request'[r] # request[r] =>
      \/ request[r] = NoRequest /\ request'[r].status = "pending"
      \/ /\ <<request[r].status, request'[r].status>> \in
               {<<"pending", "processing">>, <<"pending", "rejected">>,
                <<"processing", "confirmed">>, <<"processing", "failed">>}
         /\ request'[r] = [request[r] EXCEPT !.status = request'[r].status]

StepMoves == RequestsMade' /\ \A r \in Requests : Moves(r)

\* A step that leaves the requests alone moves none.
LEMMA MoneyMoves == ASSUME RequestsMade, UNCHANGED request PROVE StepMoves
BY DEF StepMoves, RequestsMade, Moves

\* A new request is written where there was none.
LEMMA InsertMoves ==
    ASSUME LedgerInv, RequestsMade, NEW r \in Requests, NEW a, NEW n,
           InsertWithdrawalRequest(r, a, "USDC", n)
    PROVE  StepMoves
<1>1. /\ request \in [Requests -> RequestRow] /\ request[r].status = "none"
      /\ request' = [request EXCEPT ![r] =
                       [status |-> "pending", account |-> a, asset |-> "USDC", amount |-> n]]
  BY Columns DEF InsertWithdrawalRequest
<1>2. /\ request[r] = NoRequest /\ request'[r].status = "pending"
      /\ request'[r].asset = "USDC"
      /\ \A s \in Requests \ {r} : request'[s] = request[s]
  BY <1>1 DEF RequestsMade
<1>3. RequestsMade'
  BY <1>2 DEF RequestsMade
<1> QED
  BY <1>2, <1>3 DEF StepMoves, Moves

\* Every later step of a request writes its status and nothing else.
LEMMA StatusMoves ==
    ASSUME LedgerInv, RequestsMade, NEW r \in Requests, NEW s,
           request' = [request EXCEPT ![r].status = s],
           <<request[r].status, s>> \in
               {<<"pending", "processing">>, <<"pending", "rejected">>,
                <<"processing", "confirmed">>, <<"processing", "failed">>}
    PROVE  StepMoves
<1>1. request \in [Requests -> RequestRow] /\ request[r].status # "none" /\ s # "none"
  BY Columns
<1>2. /\ request'[r] = [request[r] EXCEPT !.status = s]
      /\ request'[r].status = s /\ request'[r].asset = request[r].asset
      /\ \A t \in Requests \ {r} : request'[t] = request[t]
  BY <1>1 DEF RequestRow
<1>3. RequestsMade'
  BY <1>1, <1>2 DEF RequestsMade
<1>4. ASSUME NEW t \in Requests PROVE Moves(t)
  <2>1. CASE t = r
    BY <1>2, <2>1 DEF Moves
  <2>2. CASE t # r
    BY <1>2, <2>2 DEF Moves
  <2> QED
    BY <2>1, <2>2
<1> QED
  BY <1>3, <1>4 DEF StepMoves

\* So a step of a withdrawal moves a request along its life cycle.
LEMMA WithdrawalMoves == LedgerInv /\ RequestsMade /\ WithdrawalStep => StepMoves
<1> SUFFICES ASSUME LedgerInv, RequestsMade, NEW r \in Requests,
                    \/ \E a \in Accounts \ Desks, n \in Amounts :
                         InsertWithdrawalRequest(r, a, "USDC", n)
                    \/ MarkWithdrawalProcessing(r)
                    \/ MarkWithdrawalConfirmed(r)
                    \/ MarkWithdrawalFailed(r)
                    \/ RejectWithdrawalRequest(r)
             PROVE  StepMoves
  BY DEF WithdrawalStep
<1>1. CASE \E a \in Accounts \ Desks, n \in Amounts : InsertWithdrawalRequest(r, a, "USDC", n)
  BY <1>1, InsertMoves
<1>2. CASE MarkWithdrawalProcessing(r)
  BY <1>2, StatusMoves DEF MarkWithdrawalProcessing, Claimable
<1>3. CASE MarkWithdrawalConfirmed(r)
  BY <1>3, StatusMoves DEF MarkWithdrawalConfirmed
<1>4. CASE MarkWithdrawalFailed(r)
  BY <1>4, StatusMoves DEF MarkWithdrawalFailed
<1>5. CASE RejectWithdrawalRequest(r)
  BY <1>5, StatusMoves DEF RejectWithdrawalRequest, Rejectable
<1> QED
  BY <1>1, <1>2, <1>3, <1>4, <1>5

\* No other step of the ledger writes a request.
LEMMA OthersKeepRequests ==
    ASSUME \/ DepositStep \/ LockStep \/ ReplaceStep \/ SyncStep \/ SettleStep
           \/ CreditStep \/ SwapStep \/ PlainDebitStep \/ UNCHANGED ledger
    PROVE  UNCHANGED request
<1>1. DepositStep \/ LockStep \/ ReplaceStep => UNCHANGED request
  BY DEF DepositStep, InsertDeposit, LockStep, LockBalance, UnlockBalance, ReleaseLocksFor,
         ReplaceStep, ReplaceLocksFor
<1>2. SyncStep \/ SettleStep \/ CreditStep => UNCHANGED request
  BY DEF SyncStep, SyncBalanceFor, SettleStep, SettleLockedDebit, SettleSpotTrade,
         CreditStep, CreditBalance
<1>3. SwapStep \/ PlainDebitStep \/ UNCHANGED ledger => UNCHANGED request
  BY DEF SwapStep, Swap, PlainDebitStep, DebitBalance, SettleLockedDebit, TransferBalance,
         ledger
<1> QED
  BY <1>1, <1>2, <1>3

\* Whatever the engine, the desks and the users do to balances, the invariant
\* about requests is kept and a request only moves along its life cycle.
LEMMA StepsMove == LedgerInv /\ RequestsMade /\ [LedgerNext]_ledger => StepMoves
BY WithdrawalMoves, OthersKeepRequests, MoneyMoves DEF LedgerNext

\* Requests that were made are for USDC, and the others are blank.
LEMMA RequestsAreMade == LedgerSpec => [](LedgerInv /\ RequestsMade)
<1>1. LedgerInit => RequestsMade
  BY DEF LedgerInit, RequestsMade, NoRequest
<1>2. LedgerInv /\ RequestsMade /\ [LedgerNext]_ledger => RequestsMade'
  BY StepsMove DEF StepMoves
<1>3. LedgerInv /\ [LedgerNext]_ledger => LedgerInv'
  BY LedgerSteps DEF StepSound, StepErodes
<1> QED
  BY <1>1, <1>2, <1>3, InitLedgerInv, PTL DEF LedgerSpec

\* A withdrawal request keeps its account, asset and amount for good, moves
\* only along its life cycle, and is closed once.
THEOREM LifecycleKept == LedgerSpec => RequestLifecycle
<1>1. LedgerInv /\ RequestsMade /\ [LedgerNext]_ledger =>
        [\A r \in Requests :
          request'[r] # request[r] =>
            \/ request[r] = NoRequest /\ request'[r].status = "pending"
            \/ /\ <<request[r].status, request'[r].status>> \in
                     {<<"pending", "processing">>, <<"pending", "rejected">>,
                      <<"processing", "confirmed">>, <<"processing", "failed">>}
               /\ request'[r] = [request[r] EXCEPT !.status = request'[r].status]]_ledger
  BY StepsMove DEF StepMoves, Moves
<1> QED
  BY <1>1, RequestsAreMade, PTL DEF LedgerSpec, RequestLifecycle

-----------------------------------------------------------------------------
(* Stable money.                                                           *)

Flat(column) == [c \in Accounts \X Stable |-> column[c[1]][c[2]]]
StableIn(column) == Total(Flat(column))

PaidOut(rows) ==
    [r \in Requests |-> IF rows[r].status = "confirmed" THEN rows[r].amount ELSE 0]

DepositAmounts(D) == [d \in D |-> d.amount]

\* The part of an amount of x that is stable money.
Worth(x, n) == IF x \in Stable THEN n ELSE 0

\* The balances of stable coins are finitely many natural numbers.
LEMMA FlatType ==
    ASSUME NEW c \in Column
    PROVE  /\ IsFiniteSet(Accounts \X Stable) /\ Flat(c) \in [Accounts \X Stable -> Nat]
           /\ StableIn(c) \in Nat
<1>1. IsFiniteSet(Accounts) /\ IsFiniteSet(Stable)
  <2>1. /\ IsFiniteSet({"USDC"}) /\ IsFiniteSet({"USDC", "USDT"})
        /\ IsFiniteSet({"USDC", "USDT", "BIUSD"})
    <3>1. IsFiniteSet({"USDC"})
      BY FS_Singleton
    <3>2. IsFiniteSet({"USDC"} \cup {"USDT"})
      BY <3>1, FS_AddElement
    <3>3. IsFiniteSet({"USDC", "USDT"})
      <4>1. {"USDC", "USDT"} = {"USDC"} \cup {"USDT"}
        OBVIOUS
      <4> QED
        BY <3>2, <4>1
    <3>4. IsFiniteSet({"USDC", "USDT"} \cup {"BIUSD"})
      BY <3>3, FS_AddElement
    <3>5. {"USDC", "USDT", "BIUSD"} = {"USDC", "USDT"} \cup {"BIUSD"}
      OBVIOUS
    <3> QED
      BY <3>1, <3>3, <3>4, <3>5
  <2>2. Stable \subseteq {"USDC", "USDT", "BIUSD"}
    BY DEF Stable
  <2> QED
    BY <2>1, <2>2, FS_Subset, LedgerAssumption
<1>2. IsFiniteSet(Accounts \X Stable)
  BY <1>1, FS_Product
<1>3. Flat(c) \in [Accounts \X Stable -> Nat]
  BY DEF Flat, Column, Stable
<1> QED
  BY <1>2, <1>3, TotalType DEF StableIn

\* A column that differs in one entry differs in total by that entry.
LEMMA FlatChange ==
    ASSUME NEW c \in Column, NEW d \in Column, NEW a \in Accounts, NEW x \in Assets,
           \A b \in Accounts, y \in Assets : ~(b = a /\ y = x) => d[b][y] = c[b][y]
    PROVE  StableIn(d) = IF x \in Stable THEN StableIn(c) - c[a][x] + d[a][x]
                                         ELSE StableIn(c)
<1> DEFINE S == Accounts \X Stable
           f == Flat(c)
           g == Flat(d)
<1>1. IsFiniteSet(S) /\ f \in [S -> Nat] /\ g \in [S -> Nat]
  BY FlatType
<1>2. /\ StableIn(c) = Total(f) /\ StableIn(d) = Total(g)
      /\ \A p \in S : f[p] = c[p[1]][p[2]] /\ g[p] = d[p[1]][p[2]]
  BY DEF StableIn, Flat
<1>3. \A p \in S : p # <<a, x>> => g[p] = f[p]
  <2> SUFFICES ASSUME NEW p \in S, p # <<a, x>> PROVE g[p] = f[p]
    OBVIOUS
  <2>1. p[1] \in Accounts /\ p[2] \in Assets /\ p = <<p[1], p[2]>>
    BY DEF Stable
  <2>2. ~(p[1] = a /\ p[2] = x)
    BY <2>1
  <2> QED
    BY <1>2, <2>1, <2>2
<1>4. CASE x \in Stable
  <2>1. <<a, x>> \in S /\ f[<<a, x>>] = c[a][x] /\ g[<<a, x>>] = d[a][x]
    BY <1>2, <1>4
  <2> HIDE DEF f, g, S
  <2>2. Total(g) = Total(f) - f[<<a, x>>] + g[<<a, x>>]
    BY <1>1, <1>3, <2>1, TotalChange
  <2> QED
    BY <1>2, <1>4, <2>1, <2>2
<1>5. CASE x \notin Stable
  <2>1. \A p \in S : p # <<a, x>>
    BY <1>5
  <2>2. f = g
    BY <1>1, <1>3, <2>1
  <2> QED
    BY <1>2, <1>5, <2>2
<1> QED
  BY <1>4, <1>5

\* What an account is credited with is added to the total.
LEMMA FlatAdd ==
    ASSUME NEW c \in Column, NEW a \in Accounts, NEW x \in Assets, NEW n \in Nat
    PROVE  /\ StableIn(Add(c, a, x, n)) = StableIn(c) + Worth(x, n)
           /\ Worth(x, n) \in Nat
<1> DEFINE d == Add(c, a, x, n)
<1>1. /\ d \in Column
      /\ \A b \in Accounts, y \in Assets :
           d[b][y] = IF b = a /\ y = x THEN c[a][x] + n ELSE c[b][y]
  BY AddColumn
<1> HIDE DEF d
<1>2. StableIn(d) = IF x \in Stable THEN StableIn(c) - c[a][x] + d[a][x] ELSE StableIn(c)
  BY <1>1, FlatChange
<1>3. StableIn(c) \in Nat /\ c[a][x] \in Nat /\ d[a][x] = c[a][x] + n
  BY <1>1, FlatType DEF Column
<1>4. StableIn(d) = StableIn(c) + Worth(x, n) /\ Worth(x, n) \in Nat
  BY <1>2, <1>3 DEF Worth
<1> QED
  BY <1>4 DEF d

\* The same for what is taken from an account that has it.
LEMMA FlatSub ==
    ASSUME NEW c \in Column, NEW a \in Accounts, NEW x \in Assets, NEW n \in Nat,
           c[a][x] >= n
    PROVE  /\ StableIn(Sub(c, a, x, n)) = StableIn(c) - Worth(x, n)
           /\ Worth(x, n) \in Nat
<1> DEFINE d == Sub(c, a, x, n)
<1>1. /\ d \in Column
      /\ \A b \in Accounts, y \in Assets :
           d[b][y] = IF b = a /\ y = x THEN c[a][x] - n ELSE c[b][y]
  BY SubColumn
<1> HIDE DEF d
<1>2. StableIn(d) = IF x \in Stable THEN StableIn(c) - c[a][x] + d[a][x] ELSE StableIn(c)
  BY <1>1, FlatChange
<1>3. StableIn(c) \in Nat /\ c[a][x] \in Nat /\ d[a][x] = c[a][x] - n
  BY <1>1, FlatType DEF Column
<1>4. StableIn(d) = StableIn(c) - Worth(x, n) /\ Worth(x, n) \in Nat
  BY <1>2, <1>3 DEF Worth
<1> QED
  BY <1>4 DEF d

-----------------------------------------------------------------------------
(* Steps that create no stable money.                                      *)

\* Beside the requests: deposits are finitely many, so that they have a total.
MoneyInv == LedgerInv /\ RequestsMade /\ IsFiniteSet(deposits)

Creates == Issued' > Issued

\* The three totals of which Issued is made, before a step and after it.
LEMMA IssuedParts ==
    /\ Issued = StableIn(balance) + Total(PaidOut(request)) - Total(DepositAmounts(deposits))
    /\ Issued' = StableIn(balance') + Total(PaidOut(request')) - Total(DepositAmounts(deposits'))
BY DEF Issued, StableIn, Flat, PaidOut, DepositAmounts

\* Payouts and deposits are natural numbers.
LEMMA PartTypes ==
    ASSUME MoneyInv
    PROVE  /\ StableIn(balance) \in Nat
           /\ PaidOut(request) \in [Requests -> Nat] /\ Total(PaidOut(request)) \in Nat
           /\ DepositAmounts(deposits) \in [deposits -> Nat]
           /\ Total(DepositAmounts(deposits)) \in Nat
<1>1. /\ balance \in Column /\ request \in [Requests -> RequestRow]
      /\ deposits \subseteq DepositRow /\ IsFiniteSet(deposits)
  BY Columns DEF MoneyInv
<1>2. PaidOut(request) \in [Requests -> Nat]
  BY <1>1 DEF PaidOut, RequestRow
<1>3. DepositAmounts(deposits) \in [deposits -> Nat]
  BY <1>1, LedgerAssumption DEF DepositAmounts, DepositRow
<1> QED
  BY <1>1, <1>2, <1>3, FlatType, TotalType, LedgerAssumption

\* A step on balances that adds nothing to the total creates nothing.
LEMMA BalanceCreatesNot ==
    ASSUME MoneyInv, UNCHANGED <<request, deposits>>, balance' \in Column,
           StableIn(balance') <= StableIn(balance)
    PROVE  ~Creates
<1>1. StableIn(balance') \in Nat
  BY FlatType
<1>2. Issued = StableIn(balance) + Total(PaidOut(request)) - Total(DepositAmounts(deposits))
  BY IssuedParts
<1>3. Issued' = StableIn(balance') + Total(PaidOut(request)) - Total(DepositAmounts(deposits))
  BY IssuedParts
<1> QED
  BY <1>1, <1>2, <1>3, PartTypes DEF Creates

\* A debit of any kind.
LEMMA DebitCreatesNot ==
    ASSUME MoneyInv, UNCHANGED <<request, deposits>>,
           NEW a \in Accounts, NEW x \in Assets, NEW n \in Nat,
           balance[a][x] >= n, balance' = Sub(balance, a, x, n)
    PROVE  ~Creates
<1>1. balance \in Column /\ balance' \in Column /\ StableIn(balance) \in Nat
  BY Columns, SubColumn, FlatType DEF MoneyInv
<1>2. StableIn(Sub(balance, a, x, n)) = StableIn(balance) - Worth(x, n) /\ Worth(x, n) \in Nat
  BY <1>1, FlatSub
<1> QED
  BY <1>1, <1>2, BalanceCreatesNot

\* A transfer or a swap: what is credited is worth no more than what is debited.
LEMMA MoveCreatesNot ==
    ASSUME MoneyInv, UNCHANGED <<request, deposits>>,
           NEW a \in Accounts, NEW x \in Assets, NEW n \in Nat, balance[a][x] >= n,
           NEW b \in Accounts, NEW y \in Assets, NEW m \in Nat,
           balance' = Add(Sub(balance, a, x, n), b, y, m), Worth(y, m) <= Worth(x, n)
    PROVE  ~Creates
<1> DEFINE c == Sub(balance, a, x, n)
<1>1. balance \in Column /\ c \in Column /\ StableIn(balance) \in Nat
  BY Columns, SubColumn, FlatType DEF MoneyInv
<1>2. StableIn(c) = StableIn(balance) - Worth(x, n) /\ Worth(x, n) \in Nat
  BY <1>1, FlatSub
<1> HIDE DEF c
<1>3. /\ Add(c, b, y, m) \in Column /\ Worth(y, m) \in Nat
      /\ StableIn(Add(c, b, y, m)) = StableIn(c) + Worth(y, m)
  BY <1>1, AddColumn, FlatAdd
<1>4. balance' = Add(c, b, y, m)
  BY DEF c
<1>5. StableIn(balance') <= StableIn(balance)
  BY <1>1, <1>2, <1>3, <1>4
<1> QED
  BY <1>3, <1>4, <1>5, BalanceCreatesNot

\* The two legs of a fill: the base only changes hands, and what the seller
\* receives above what the buyer pays is all that a fill creates.
LEMMA FillCreates ==
    ASSUME MoneyInv, NEW buyer \in Accounts, NEW seller \in Accounts,
           NEW base \in Assets, NEW quote \in Assets, base # quote,
           NEW qty \in Nat, NEW paid \in Nat, NEW received \in Nat,
           SettleSpotTrade(buyer, seller, base, quote, qty, paid, received)
    PROVE  Creates => received > paid /\ Issued' - Issued = received - paid
<1> DEFINE B1 == Sub(balance, buyer, quote, paid)
           B2 == Sub(B1, seller, base, qty)
           B3 == Add(B2, buyer, base, qty)
<1>1. /\ buyer # seller /\ UNCHANGED <<request, deposits>>
      /\ balance[buyer][quote] >= paid /\ balance[seller][base] >= qty
      /\ balance' = Add(B3, seller, quote, received)
  BY DEF SettleSpotTrade, Consumes
<1>2. balance \in Column /\ StableIn(balance) \in Nat
  BY Columns, FlatType DEF MoneyInv
<1>3. /\ B1 \in Column /\ B1[seller][base] = balance[seller][base]
  BY <1>1, <1>2, SubColumn
<1>4. StableIn(B1) = StableIn(balance) - Worth(quote, paid) /\ Worth(quote, paid) \in Nat
  BY <1>1, <1>2, FlatSub
<1> HIDE DEF B1
<1>5. /\ B2 \in Column /\ Worth(base, qty) \in Nat
      /\ StableIn(B2) = StableIn(B1) - Worth(base, qty)
  BY <1>1, <1>3, SubColumn, FlatSub
<1> HIDE DEF B2
<1>6. B3 \in Column /\ StableIn(B3) = StableIn(B2) + Worth(base, qty)
  BY <1>5, AddColumn, FlatAdd
<1> HIDE DEF B3
<1>7. /\ balance' \in Column /\ Worth(quote, received) \in Nat
      /\ StableIn(balance') = StableIn(B3) + Worth(quote, received)
  BY <1>1, <1>6, AddColumn, FlatAdd
<1>8. StableIn(B1) \in Nat /\ StableIn(B2) \in Nat /\ StableIn(B3) \in Nat
  BY <1>3, <1>5, <1>6, FlatType
<1>9. StableIn(balance') = StableIn(balance) - Worth(quote, paid) + Worth(quote, received)
  BY <1>2, <1>4, <1>5, <1>6, <1>7, <1>8
<1>10. /\ Issued = StableIn(balance) + Total(PaidOut(request)) - Total(DepositAmounts(deposits))
       /\ Issued' = StableIn(balance') + Total(PaidOut(request)) - Total(DepositAmounts(deposits))
  BY <1>1, IssuedParts
<1>11. CASE quote \in Stable
  <2>1. Worth(quote, paid) = paid /\ Worth(quote, received) = received
    BY <1>11 DEF Worth
  <2> QED
    BY <1>2, <1>9, <1>10, <2>1, PartTypes DEF Creates
<1>12. CASE quote \notin Stable
  <2>1. Worth(quote, paid) = 0 /\ Worth(quote, received) = 0
    BY <1>12 DEF Worth
  <2> QED
    BY <1>2, <1>9, <1>10, <2>1, PartTypes DEF Creates
<1> QED
  BY <1>11, <1>12

\* A swap never credits more than it debits, whatever the charge and the way
\* its division rounds.
LEMMA SwapCharges ==
    ASSUME NEW d, NEW n \in Nat
    PROVE  SwapCredit(d, n) <= n
<1> DEFINE k == n * SwapFeeBps
<1>1. k \in Nat /\ BpsBase \in Nat \ {0}
  BY LedgerAssumption
<1> HIDE DEF k
<1>2. k \div BpsBase \in Nat
  BY <1>1
<1>3. SwapCredit(d, n) = IF d = "BIUSD" THEN n ELSE n - k \div BpsBase
  BY DEF SwapCredit, k
<1> QED
  BY <1>2, <1>3

\* So a swap between stable coins, in either direction, creates nothing.
LEMMA SwapCreatesNot == MoneyInv /\ SwapStep => ~Creates
<1> SUFFICES ASSUME MoneyInv, NEW a \in Accounts, NEW p \in SwapPairs,
                    NEW n \in Amounts, p[1] \in Assets, p[2] \in Assets,
                    Swap(a, p[1], p[2], n)
             PROVE  ~Creates
  BY DEF SwapStep
<1> DEFINE c == SwapCredit(p[2], n)
           x == p[1]
           y == p[2]
<1>1. n \in Nat
  BY LedgerAssumption
<1>2. c \in Int /\ c <= n
  BY <1>1, SwapCreditType, SwapCharges
<1>3. /\ c > 0 /\ balance[a][x] >= n /\ UNCHANGED <<locked, request, deposits>>
      /\ balance' = Add(Sub(balance, a, x, n), a, y, c)
  BY DEF Swap
<1>4. x \in Stable /\ y \in Stable
  BY DEF SwapPairs, Stable
<1>5. x \in Assets /\ y \in Assets
  OBVIOUS
<1> HIDE DEF c, x, y
<1>6. c \in Nat /\ Worth(y, c) <= Worth(x, n)
  BY <1>1, <1>2, <1>3, <1>4 DEF Worth
<1> QED
  BY <1>1, <1>3, <1>5, <1>6, MoveCreatesNot

\* Nor does a debit or a transfer of any asset.
LEMMA PlainDebitCreatesNot == MoneyInv /\ PlainDebitStep => ~Creates
<1> SUFFICES ASSUME MoneyInv, NEW a \in Accounts, NEW x \in Assets, NEW n \in Amounts,
                    \/ DebitBalance(a, x, n)
                    \/ SettleLockedDebit(a, x, n)
                    \/ \E b \in Accounts : TransferBalance(a, b, x, n)
             PROVE  ~Creates
  BY DEF PlainDebitStep
<1>1. n \in Nat
  BY LedgerAssumption
<1>2. CASE DebitBalance(a, x, n) \/ SettleLockedDebit(a, x, n)
  BY <1>1, <1>2, DebitCreatesNot DEF DebitBalance, SettleLockedDebit
<1>3. CASE \E b \in Accounts : TransferBalance(a, b, x, n)
  <2> PICK b \in Accounts : TransferBalance(a, b, x, n)
    BY <1>3
  <2>1. /\ balance[a][x] >= n /\ UNCHANGED <<request, deposits>>
        /\ balance' = Add(Sub(balance, a, x, n), b, x, n)
    BY DEF TransferBalance
  <2>2. Worth(x, n) <= Worth(x, n)
    BY <1>1 DEF Worth
  <2> QED
    BY <1>1, <2>1, <2>2, MoveCreatesNot
<1> QED
  BY <1>2, <1>3

\* Of the engine's settlements only an overpaid fill creates anything.
LEMMA SettleCreates == MoneyInv /\ SettleStep /\ Creates => OverpaidFill
<1> SUFFICES ASSUME MoneyInv, SettleStep, Creates PROVE OverpaidFill
  OBVIOUS
<1>1. Amounts \subseteq Nat /\ \A m \in Markets : m[1] \in Assets /\ m[2] \in Assets /\ m[1] # m[2]
  BY LedgerAssumption
<1>2. ~\E a \in Accounts, x \in Assets, n \in Amounts :
             n <= locked[a][x] /\ SettleLockedDebit(a, x, n)
  BY <1>1, DebitCreatesNot DEF SettleLockedDebit
<1>3. PICK buyer \in Accounts, seller \in Accounts, m \in Markets,
           qty \in Amounts, paid \in Amounts, received \in Amounts :
             SettleSpotTrade(buyer, seller, m[1], m[2], qty, paid, received)
  BY <1>2 DEF SettleStep
<1>4. /\ m[1] \in Assets /\ m[2] \in Assets /\ m[1] # m[2]
      /\ qty \in Nat /\ paid \in Nat /\ received \in Nat
  BY <1>1
<1>5. received > paid /\ Issued' - Issued = received - paid
  BY <1>3, <1>4, FillCreates
<1> QED
  BY <1>3, <1>5 DEF OverpaidFill

\* A deposit credits what it records, and a repeated one does neither.
LEMMA DepositCreatesNot ==
    ASSUME MoneyInv, DepositStep
    PROVE  ~Creates /\ IsFiniteSet(deposits')
<1> PICK h \in Hashes, a \in Accounts \ Desks, n \in Amounts : InsertDeposit(h, a, n)
  BY DEF DepositStep
<1>1. n \in Nat /\ "BIUSD" \in Assets /\ "BIUSD" \in Stable
  BY LedgerAssumption DEF Stable
<1>2. balance \in Column /\ deposits \subseteq DepositRow /\ IsFiniteSet(deposits)
  BY Columns DEF MoneyInv
<1>3. CASE Fresh(h)
  <2> DEFINE d == [hash |-> h, account |-> a, amount |-> n]
             f == DepositAmounts(deposits)
             g == DepositAmounts(deposits \cup {d})
  <2>1. /\ deposits' = deposits \cup {d} /\ d \notin deposits /\ UNCHANGED request
        /\ balance' = Add(balance, a, "BIUSD", n)
    BY <1>3 DEF InsertDeposit, Fresh
  <2>2. /\ f \in [deposits -> Nat] /\ g \in [deposits \cup {d} -> Nat]
        /\ g[d] = n /\ \A e \in deposits : g[e] = f[e]
    BY <1>1, <1>2, LedgerAssumption DEF DepositAmounts, DepositRow
  <2>3. Total(f) \in Nat /\ IsFiniteSet(deposits \cup {d})
    BY <1>2, <2>2, TotalType, FS_AddElement
  <2>4. StableIn(balance') = StableIn(balance) + n
    <3>1. StableIn(Add(balance, a, "BIUSD", n)) = StableIn(balance) + Worth("BIUSD", n)
      BY <1>1, <1>2, FlatAdd
    <3> QED
      BY <1>1, <2>1, <3>1 DEF Worth
  <2>5. Issued = StableIn(balance) + Total(PaidOut(request)) - Total(f)
    BY IssuedParts
  <2>6. Issued' = StableIn(balance') + Total(PaidOut(request)) - Total(g)
    BY <2>1, IssuedParts
  <2> HIDE DEF d, f, g
  <2>7. Total(g) = Total(f) + n
    BY <1>2, <2>1, <2>2, TotalExtend
  <2> QED
    BY <1>1, <2>1, <2>3, <2>4, <2>5, <2>6, <2>7, PartTypes DEF Creates
<1>4. CASE ~Fresh(h)
  <2>1. UNCHANGED <<balance, request, deposits>>
    BY <1>4 DEF InsertDeposit
  <2>2. StableIn(balance') <= StableIn(balance)
    BY <2>1, PartTypes
  <2> QED
    BY <1>2, <2>1, <2>2, BalanceCreatesNot
<1> QED
  BY <1>3, <1>4

\* A request that moves to a status other than confirmed pays nothing out.
LEMMA StatusCreatesNot ==
    ASSUME MoneyInv, UNCHANGED <<balance, deposits>>,
           \A r \in Requests : request'[r] = request[r]
              \/ (request[r].status # "confirmed" /\ request'[r].status # "confirmed")
    PROVE  ~Creates
<1>1. PaidOut(request') = PaidOut(request)
  BY DEF PaidOut
<1>2. Issued' = Issued
  BY <1>1, IssuedParts
<1>3. Issued \in Int
  BY IssuedParts, PartTypes
<1> QED
  BY <1>2, <1>3 DEF Creates

\* Confirming a payout moves its amount from the balance to what was paid.
LEMMA ConfirmCreatesNot ==
    ASSUME MoneyInv, NEW r \in Requests, MarkWithdrawalConfirmed(r)
    PROVE  ~Creates
<1> DEFINE a == request[r].account
           x == request[r].asset
           n == request[r].amount
           f == PaidOut(request)
           g == PaidOut(request')
<1>1. /\ request[r].status = "processing" /\ UNCHANGED deposits
      /\ request' = [request EXCEPT ![r].status = "confirmed"]
      /\ balance[a][x] >= n /\ balance' = Sub(balance, a, x, n)
  BY DEF MarkWithdrawalConfirmed, Payable
<1>2. request \in [Requests -> RequestRow] /\ balance \in Column
  BY Columns DEF MoneyInv
<1>3. n \in Nat /\ a \in Accounts /\ x \in Assets /\ x \in Stable
  BY <1>1, <1>2 DEF MoneyInv, LedgerInv, RequestsPlaced, RequestsMade, RequestRow, Stable
<1>4. StableIn(balance') = StableIn(balance) - n
  <2> HIDE DEF a, x, n
  <2>1. StableIn(Sub(balance, a, x, n)) = StableIn(balance) - Worth(x, n)
    BY <1>1, <1>2, <1>3, FlatSub
  <2> QED
    BY <1>1, <1>3, <2>1 DEF Worth
<1>5. /\ request'[r].status = "confirmed" /\ request'[r].amount = n
      /\ \A s \in Requests \ {r} : request'[s] = request[s]
  BY <1>1, <1>2 DEF RequestRow
<1>6. /\ f \in [Requests -> Nat] /\ g \in [Requests -> Nat]
      /\ f[r] = 0 /\ g[r] = n /\ \A s \in Requests \ {r} : g[s] = f[s]
  BY <1>1, <1>3, <1>5, PartTypes DEF PaidOut
<1>7. /\ Issued = StableIn(balance) + Total(f) - Total(DepositAmounts(deposits))
      /\ Issued' = StableIn(balance') + Total(g) - Total(DepositAmounts(deposits))
  BY <1>1, IssuedParts
<1>8. Total(f) \in Nat
  BY PartTypes
<1> HIDE DEF f, g, n
<1>9. Total(g) = Total(f) + n
  <2>1. Total(g) = Total(f) - f[r] + g[r]
    BY <1>6, TotalChange, LedgerAssumption
  <2> QED
    BY <1>3, <1>6, <1>8, <2>1
<1> QED
  BY <1>3, <1>4, <1>7, <1>8, <1>9, PartTypes DEF Creates

\* So no step of a withdrawal creates anything.
LEMMA WithdrawalCreatesNot == MoneyInv /\ WithdrawalStep => ~Creates /\ UNCHANGED deposits
<1> SUFFICES ASSUME MoneyInv, NEW r \in Requests,
                    \/ \E a \in Accounts \ Desks, n \in Amounts :
                         InsertWithdrawalRequest(r, a, "USDC", n)
                    \/ MarkWithdrawalProcessing(r)
                    \/ MarkWithdrawalConfirmed(r)
                    \/ MarkWithdrawalFailed(r)
                    \/ RejectWithdrawalRequest(r)
             PROVE  ~Creates /\ UNCHANGED deposits
  BY DEF WithdrawalStep
<1>1. request \in [Requests -> RequestRow]
  BY Columns DEF MoneyInv
<1>2. CASE \E a \in Accounts \ Desks, n \in Amounts : InsertWithdrawalRequest(r, a, "USDC", n)
  <2>1. /\ UNCHANGED <<balance, deposits>>
        /\ \A s \in Requests : request'[s] = request[s]
              \/ (request[s].status # "confirmed" /\ request'[s].status # "confirmed")
    BY <1>1, <1>2 DEF InsertWithdrawalRequest
  <2> QED
    BY <2>1, StatusCreatesNot
<1>3. CASE MarkWithdrawalConfirmed(r)
  BY <1>3, ConfirmCreatesNot DEF MarkWithdrawalConfirmed
<1>4. CASE MarkWithdrawalProcessing(r) \/ MarkWithdrawalFailed(r) \/ RejectWithdrawalRequest(r)
  <2>1. PICK s \in {"processing", "failed", "rejected"} :
             /\ UNCHANGED <<balance, deposits>> /\ request[r].status \in Open
             /\ request' = [request EXCEPT ![r].status = s]
    BY <1>4 DEF MarkWithdrawalProcessing, MarkWithdrawalFailed, RejectWithdrawalRequest,
                Claimable, Rejectable, Open
  <2>2. \A t \in Requests : request'[t] = request[t]
          \/ (request[t].status # "confirmed" /\ request'[t].status # "confirmed")
    BY <1>1, <2>1 DEF RequestRow, Open
  <2> QED
    BY <2>1, <2>2, StatusCreatesNot
<1> QED
  BY <1>2, <1>3, <1>4

\* Locks are no money.
LEMMA LockCreatesNot ==
    ASSUME MoneyInv, LockStep \/ ReplaceStep \/ UNCHANGED ledger
    PROVE  ~Creates
<1>1. UNCHANGED <<balance, request, deposits>>
  BY DEF LockStep, LockBalance, UnlockBalance, ReleaseLocksFor, ReplaceStep, ReplaceLocksFor,
         ledger
<1>2. balance' \in Column /\ StableIn(balance') <= StableIn(balance)
  BY <1>1, Columns, PartTypes DEF MoneyInv
<1> QED
  BY <1>1, <1>2, BalanceCreatesNot

\* Only a deposit records a deposit.
LEMMA OthersKeepDeposits ==
    ASSUME \/ LockStep \/ ReplaceStep \/ SyncStep \/ SettleStep
           \/ CreditStep \/ SwapStep \/ PlainDebitStep \/ UNCHANGED ledger
    PROVE  UNCHANGED deposits
<1>1. LockStep \/ ReplaceStep \/ UNCHANGED ledger => UNCHANGED deposits
  BY DEF LockStep, LockBalance, UnlockBalance, ReleaseLocksFor, ReplaceStep, ReplaceLocksFor,
         ledger
<1>2. SyncStep \/ SettleStep \/ CreditStep => UNCHANGED deposits
  BY DEF SyncStep, SyncBalanceFor, SettleStep, SettleLockedDebit, SettleSpotTrade,
         CreditStep, CreditBalance
<1>3. SwapStep \/ PlainDebitStep => UNCHANGED deposits
  BY DEF SwapStep, Swap, PlainDebitStep, DebitBalance, SettleLockedDebit, TransferBalance
<1> QED
  BY <1>1, <1>2, <1>3

\* Every step but a credit of the engine, the restoring of a desk and a fill that
\* pays its seller too much.
LEMMA StepsCreateNot ==
    ASSUME MoneyInv, [LedgerNext]_ledger
    PROVE  /\ Creates => CreditStep \/ SyncStep \/ OverpaidFill
           /\ IsFiniteSet(deposits')
BY WithdrawalCreatesNot, DepositCreatesNot, LockCreatesNot, SettleCreates, SwapCreatesNot,
   PlainDebitCreatesNot, OthersKeepDeposits DEF LedgerNext, MoneyInv

\* Columns, requests and deposits stay fit to be added up.
LEMMA MoneyAlways == LedgerSpec => []MoneyInv
<1>1. LedgerInit => MoneyInv
  BY InitLedgerInv, FS_EmptySet DEF LedgerInit, MoneyInv, RequestsMade, NoRequest
<1>2. MoneyInv /\ [LedgerNext]_ledger => MoneyInv'
  <2> SUFFICES ASSUME MoneyInv, [LedgerNext]_ledger PROVE MoneyInv'
    OBVIOUS
  <2>1. LedgerInv /\ RequestsMade
    BY DEF MoneyInv
  <2>2. LedgerInv'
    BY <2>1, LedgerSteps DEF StepSound, StepErodes
  <2>3. RequestsMade'
    BY <2>1, StepsMove DEF StepMoves
  <2> QED
    BY <2>2, <2>3, StepsCreateNot DEF MoneyInv
<1> QED
  BY <1>1, <1>2, PTL DEF LedgerSpec

\* What deposits did not bring in, the engine did, by credits, by restoring desks
\* and by what a fill gives its seller above what its buyer pays: for any
\* accounts, amounts and charge, no swap, transfer or payout makes stable money
\* out of nothing, and a fill no more than that difference.
THEOREM NothingFromNowhere == LedgerSpec => StableBacked
<1>1. MoneyInv /\ [LedgerNext]_ledger
        => [Issued' > Issued => CreditStep \/ SyncStep \/ OverpaidFill]_ledger
  BY StepsCreateNot DEF Creates
<1> QED
  BY <1>1, MoneyAlways, PTL DEF LedgerSpec, StableBacked
=============================================================================
