---------------------------- MODULE TradeGateway ----------------------------
(***************************************************************************)
(* The trade gateway: the order and cancel handlers of one account, which  *)
(* bring the engine's mirror of one asset in line with Postgres before they*)
(* submit an order.  The account's slot is held across both, and every read*)
(* and call is a step of its own.  Around them: balance changes with and   *)
(* without a push to the engine, a restart of the engine, its backfill.    *)
(*                                                                         *)
(* The matching engine is external and modelled from what this repository  *)
(* says of it: it reserves an accepted order in memory at once and locks   *)
(* the same amount in Postgres afterwards, releases a cancelled order in   *)
(* the same sequence, its Debit releases reservations up to the debited    *)
(* amount, and it forgets all of this when it restarts.  A fill is a single*)
(* step, the kindest case.                                                 *)
(***************************************************************************)
EXTENDS Totals

CONSTANTS
    Handlers,      \* order requests served at the same time
    Orders,        \* orders that may come to exist
    Amounts,       \* what an order reserves or a payment moves, in raw units
    InitTotal,     \* balance in Postgres at the start
    MaxUpsets,     \* bound: payments and restarts of the engine, taken together
    Scale,         \* raw units of one human unit, 10^6 in the code
    NoHandler, NoOrder

ASSUME GatewayAssumption ==
    /\ IsFiniteSet(Orders) /\ Amounts \subseteq Nat \ {0}
    /\ {InitTotal, MaxUpsets} \subseteq Nat /\ Scale \in Nat \ {0}
    /\ NoHandler \notin Handlers /\ NoOrder \notin Orders

VARIABLES
    db,        \* user_balances: total and locked
    engine,    \* the engine's ledger: total and reserved
    order,     \* orders the engine has been sent
    handler,   \* the handlers: where they are and what they have read
    slot,      \* acctLocks: who holds the account's slot
    pushes,    \* Async calls on their way to the engine
    upkeep,    \* payments, restarts and backfills so far, and what a running
               \* backfill has read
    drifted    \* history: since the last undisturbed reconciliation, something
               \* the slot does not guard against has happened

gateway == <<db, engine, order, handler, slot, pushes, upkeep, drifted>>

Idle == [pc |-> "idle", total |-> 0, locked |-> 0, avail |-> 0, order |-> NoOrder]
NoRead == [on |-> FALSE, amount |-> 0]

HandlerState ==
    [pc : {"idle", "queue", "total", "locked", "engine", "adjust", "submit", "wait"},
     total : Nat, locked : Nat, avail : Int, order : Orders \cup {NoOrder}]

\* "lost": forgotten by a restarted engine, its lock still in Postgres.
OrderState ==
    [status : {"none", "sent", "reserved", "resting", "unlocking", "lost", "done"},
     amount : Nat]

\* The engine may have missed balance changes made before it started.
GatewayInit ==
    /\ db = [total |-> InitTotal, locked |-> 0]
    /\ \E n \in 0..InitTotal : engine = [total |-> n, reserved |-> 0]
    /\ order = [o \in Orders |-> [status |-> "none", amount |-> 0]]
    /\ handler = [h \in Handlers |-> Idle]
    /\ slot = NoHandler /\ pushes = {}
    /\ upkeep = [moves |-> 0, restarts |-> 0, backfills |-> 0, read |-> NoRead]
    /\ drifted = FALSE

Available == engine.total - engine.reserved

At(h, pc) == handler[h].pc = pc
SomeAt(pcs) == \E h \in Handlers : handler[h].pc \in pcs

InStatus(S) ==
    Total([o \in Orders |-> IF order[o].status \in S THEN order[o].amount ELSE 0])

-----------------------------------------------------------------------------
(* The account's slot.                                                     *)

\* Mutated form: nobody waits for the slot.
AnySlot(h) == TRUE

SlotFree(h) == slot = NoHandler

\* Mutated form: the slot is kept when the handler returns.
KeepSlot(h) == slot

Released(h) == NoHandler

Goto(h, pc) == handler' = [handler EXCEPT ![h].pc = pc]
Return(h) == handler' = [handler EXCEPT ![h] = Idle] /\ slot' = Released(h)

\* Order or AttachedOrder with a valid session and body.
Request(h) ==
    /\ At(h, "idle") /\ Goto(h, "queue")
    /\ UNCHANGED <<db, engine, order, slot, pushes, upkeep, drifted>>

AcquireSlot(h) ==
    /\ At(h, "queue")
    /\ SlotFree(h)
    /\ slot' = h
    /\ Goto(h, "total")
    /\ UNCHANGED <<db, engine, order, pushes, upkeep, drifted>>

\* Mutated form: a plain mutex, without the timer.
NeverEnds(h) == FALSE

WaitEnds(h) == At(h, "queue")

\* Eight seconds without a turn, or the client is gone: 429.
TurnedAway(h) ==
    /\ WaitEnds(h)
    /\ handler' = [handler EXCEPT ![h] = Idle]
    /\ UNCHANGED <<db, engine, order, slot, pushes, upkeep, drifted>>

-----------------------------------------------------------------------------
(* reconcileOrderBalance.                                                  *)

Note(h, pc, field, n) == handler' = [handler EXCEPT ![h].pc = pc, ![h][field] = n]

ReadTotal(h) ==
    /\ At(h, "total") /\ Note(h, "locked", "total", db.total)
    /\ UNCHANGED <<db, engine, order, slot, pushes, upkeep, drifted>>

ReadLocked(h) ==
    /\ At(h, "locked") /\ Note(h, "engine", "locked", db.locked)
    /\ UNCHANGED <<db, engine, order, slot, pushes, upkeep, drifted>>

\* Mutated form: the engine's total is compared, as an earlier version did.
EngineTotal == engine.total

EngineAmount == Available

\* A cancelled order the engine has released and Postgres still locks makes the
\* two readings differ.
ReadEngine(h) ==
    /\ At(h, "engine") /\ Note(h, "adjust", "avail", EngineAmount)
    /\ drifted' = (drifted \/ InStatus({"unlocking"}) > 0)
    /\ UNCHANGED <<db, engine, order, slot, pushes, upkeep>>

\* Mutated form: no floor at zero.
LessPastZero(column, n) == column - n

Less(column, n) == IF column > n THEN column - n ELSE 0

Credited(e, n) == [e EXCEPT !.total = @ + n]
Debited(e, n) == [total |-> Less(e.total, n), reserved |-> Less(e.reserved, n)]

Adjusted(delta) == IF delta >= 0 THEN Credited(engine, delta) ELSE Debited(engine, -delta)

\* What the handler has read still holds, and no order of the account is open.
Undisturbed(h) ==
    /\ handler[h].total = db.total /\ handler[h].locked = db.locked
    /\ handler[h].avail = Available /\ engine.reserved = 0
    /\ \A o \in Orders : order[o].status \in {"none", "lost", "done"}
    /\ db.locked = InStatus({"lost"}) /\ db.locked <= db.total

\* The call may fail after its effect: the handler returns without an order.
Adjust(h) ==
    /\ At(h, "adjust")
    /\ engine' = Adjusted(handler[h].total - handler[h].locked - handler[h].avail)
    /\ drifted' = (drifted /\ ~Undisturbed(h))
    /\ \/ handler' = [handler EXCEPT ![h] = [Idle EXCEPT !.pc = "submit"]] /\ UNCHANGED slot
       \/ Return(h)
    /\ UNCHANGED <<db, order, pushes, upkeep>>

\* A read or a call fails before it has an effect: the handler returns.
GiveUp(h) ==
    /\ handler[h].pc \in {"total", "locked", "engine", "adjust", "submit"}
    /\ Return(h)
    /\ UNCHANGED <<db, engine, order, pushes, upkeep, drifted>>

-----------------------------------------------------------------------------
(* SubmitOrder, SubmitAttachedOrder, CancelOrder, and what the engine does. *)

Submit(h, o, n) ==
    /\ At(h, "submit")
    /\ order[o].status = "none"
    /\ order' = [order EXCEPT ![o] = [status |-> "sent", amount |-> n]]
    /\ Note(h, "wait", "order", o)
    /\ UNCHANGED <<db, engine, slot, pushes, upkeep, drifted>>

\* The risk check of the engine, and its reservation in memory.
EngineAccepts(o) ==
    /\ order[o].status = "sent"
    /\ IF order[o].amount <= Available
       THEN /\ order' = [order EXCEPT ![o].status = "reserved"]
            /\ engine' = [engine EXCEPT !.reserved = @ + order[o].amount]
       ELSE /\ order' = [order EXCEPT ![o].status = "done"]
            /\ UNCHANGED engine
    /\ UNCHANGED <<db, handler, slot, pushes, upkeep, drifted>>

\* The lock in Postgres; if it is refused the engine drops the order.
EngineLocks(o) ==
    /\ order[o].status = "reserved"
    /\ IF db.locked + order[o].amount <= db.total
       THEN /\ order' = [order EXCEPT ![o].status = "resting"]
            /\ db' = [db EXCEPT !.locked = @ + order[o].amount]
            /\ UNCHANGED engine
       ELSE /\ order' = [order EXCEPT ![o].status = "done"]
            /\ engine' = [engine EXCEPT !.reserved = Less(@, order[o].amount)]
            /\ UNCHANGED db
    /\ UNCHANGED <<handler, slot, pushes, upkeep, drifted>>

\* The Cancel handler, which takes no slot, reaches the engine: the reservation
\* is released in memory.
CancelOrder(o) ==
    /\ order[o].status = "resting"
    /\ order' = [order EXCEPT ![o].status = "unlocking"]
    /\ engine' = [engine EXCEPT !.reserved = Less(@, order[o].amount)]
    /\ UNCHANGED <<db, handler, slot, pushes, upkeep, drifted>>

\* And then in Postgres, perhaps among the reads of a reconciliation.
EngineUnlocks(o) ==
    /\ order[o].status = "unlocking"
    /\ order' = [order EXCEPT ![o].status = "done"]
    /\ db' = [db EXCEPT !.locked = Less(@, order[o].amount)]
    /\ drifted' = (drifted \/ SomeAt({"engine"}))
    /\ UNCHANGED <<engine, handler, slot, pushes, upkeep>>

\* A resting order is filled by an order of another account.  A reconciliation
\* that has read the total and not yet the locks misses it.
Fill(o) ==
    /\ order[o].status = "resting"
    /\ db.total >= order[o].amount /\ db.locked >= order[o].amount
    /\ order' = [order EXCEPT ![o].status = "done"]
    /\ db' = [total |-> db.total - order[o].amount, locked |-> db.locked - order[o].amount]
    /\ engine' = Debited(engine, order[o].amount)
    /\ drifted' = (drifted \/ SomeAt({"locked"}))
    /\ UNCHANGED <<handler, slot, pushes, upkeep>>

Reply(h) ==
    /\ At(h, "wait")
    /\ order[handler[h].order].status \notin {"sent", "reserved"}
    /\ Return(h)
    /\ UNCHANGED <<db, engine, order, pushes, upkeep, drifted>>

\* The call's 20 seconds are over, or the user's client is gone.
Timeout(h) ==
    /\ At(h, "wait")
    /\ Return(h)
    /\ drifted' = (drifted \/ order[handler[h].order].status \in {"sent", "reserved"})
    /\ UNCHANGED <<db, engine, order, pushes, upkeep>>

-----------------------------------------------------------------------------
(* Balance changes from elsewhere.                                         *)

\* One more payment is booked in Postgres; its push, if it has one, credits c
\* and then debits d, in raw units, and may never arrive.
Moved(total, c, d) ==
    /\ upkeep.moves + upkeep.restarts < MaxUpsets
    /\ upkeep' = [upkeep EXCEPT !.moves = @ + 1]
    /\ db' = [db EXCEPT !.total = total]
    /\ pushes' = pushes \cup (IF c + d = 0 THEN {} ELSE {[no |-> upkeep.moves, credit |-> c, debit |-> d]})
    /\ UNCHANGED <<engine, order, handler, slot>>

\* A swap, a P2P refund or a transfer arrives: nothing is pushed.
Received(n) == Moved(db.total + n, 0, 0) /\ UNCHANGED drifted

\* A deposit, or an operator's credit.
Deposited(n) == Moved(db.total + n, n, 0) /\ UNCHANGED drifted

\* A swap or a transfer out: nothing is pushed, locks are not looked at.
Spent(n) == db.total >= n /\ Moved(db.total - n, 0, 0) /\ drifted' = TRUE

\* A withdrawal, or P2P funding.
PaidOut(n) == db.total >= n /\ Moved(db.total - n, 0, n) /\ drifted' = TRUE

\* AdjustUserBalance with direction "debit": the engine is sent a credit and
\* then the debit.
AdminDebit(n) == db.total >= n /\ Moved(db.total - n, n, n) /\ drifted' = TRUE

\* The raw amounts are pushed; the engine reads them in human units.
PushLands(p) ==
    /\ p \in pushes
    /\ pushes' = pushes \ {p}
    /\ engine' = Debited(Credited(engine, p.credit * Scale), p.debit * Scale)
    /\ drifted' = TRUE
    /\ UNCHANGED <<db, order, handler, slot, upkeep>>

-----------------------------------------------------------------------------
(* Restart of the engine.                                                  *)

\* In-memory orders and balances are discarded; locks in Postgres stay.
EngineRestart ==
    /\ upkeep.moves + upkeep.restarts < MaxUpsets
    /\ upkeep' = [upkeep EXCEPT !.restarts = @ + 1]
    /\ engine' = [total |-> 0, reserved |-> 0]
    /\ order' = [o \in Orders |-> [order[o] EXCEPT !.status =
                    CASE @ \in {"resting", "unlocking"} -> "lost"
                      [] @ \in {"sent", "reserved"} -> "done"
                      [] OTHER -> @]]
    /\ UNCHANGED <<db, handler, slot, pushes, drifted>>

Spendable == Less(db.total, db.locked)

\* The restarted engine, or an operator, asks for the backfill: it reads what
\* is available ...
BackfillReads ==
    /\ ~upkeep.read.on
    /\ upkeep.backfills < upkeep.restarts
    /\ upkeep' = [upkeep EXCEPT !.backfills = @ + 1, !.read = [on |-> TRUE, amount |-> Spendable]]
    /\ UNCHANGED <<db, engine, order, handler, slot, pushes, drifted>>

\* ... and credits it, also if that is no longer available, or a reconciliation
\* has credited it or is about to.
BackfillCredits ==
    /\ upkeep.read.on
    /\ upkeep' = [upkeep EXCEPT !.read = NoRead]
    /\ \/ /\ engine' = Credited(engine, upkeep.read.amount)
          /\ drifted' = (drifted \/ upkeep.read.amount > Spendable
                           \/ engine.total > 0 \/ SomeAt({"adjust"}))
       \/ UNCHANGED <<engine, drifted>>
    /\ UNCHANGED <<db, order, handler, slot, pushes>>

\* ReleaseLocksFor, which does not tell orphaned locks from live ones.
ReleaseLocks ==
    /\ db.locked > 0 /\ upkeep.restarts > 0
    /\ db' = [db EXCEPT !.locked = 0]
    /\ order' = [o \in Orders |-> [order[o] EXCEPT !.status = IF @ = "lost" THEN "done" ELSE @]]
    /\ drifted' = (drifted \/ InStatus({"resting", "unlocking"}) > 0 \/ SomeAt({"engine", "adjust"}))
    /\ UNCHANGED <<engine, handler, slot, pushes, upkeep>>

-----------------------------------------------------------------------------
HandlerStep(h) ==
    \/ AcquireSlot(h) \/ TurnedAway(h)
    \/ ReadTotal(h) \/ ReadLocked(h) \/ ReadEngine(h) \/ Adjust(h) \/ GiveUp(h)
    \/ \E o \in Orders, n \in Amounts : Submit(h, o, n)
    \/ Reply(h)

EngineStep == \E o \in Orders : EngineAccepts(o) \/ EngineLocks(o)

SerialStep ==
    \/ \E h \in Handlers : Request(h) \/ HandlerStep(h)
    \/ EngineStep
    \/ \E n \in Amounts : Received(n)

TimeoutStep == \E h \in Handlers : Timeout(h)
CancelStep == \E o \in Orders : CancelOrder(o) \/ EngineUnlocks(o)
FillStep == \E o \in Orders : Fill(o)
PushStep == (\E n \in Amounts : Deposited(n)) \/ (\E p \in pushes : PushLands(p))
PaymentStep == \E n \in Amounts : Spent(n) \/ PaidOut(n) \/ AdminDebit(n)
RestartStep == EngineRestart \/ BackfillReads \/ BackfillCredits \/ ReleaseLocks

GatewayNext ==
    \/ SerialStep \/ TimeoutStep \/ CancelStep \/ FillStep
    \/ PushStep \/ PaymentStep \/ RestartStep

\* Handlers keep working, and their timers run; the engine need not answer.  A
\* handler whose order could not be numbered any more returns with GiveUp.
GatewaySpec ==
    /\ GatewayInit /\ [][GatewayNext]_gateway
    /\ \A h \in Handlers : WF_gateway(HandlerStep(h) \/ Timeout(h))

\* Deposits are pushed to the engine, nothing else interferes.
PushSpec == GatewayInit /\ [][SerialStep \/ PushStep]_gateway

-----------------------------------------------------------------------------
(* Properties.                                                             *)

\* Both ledgers, the orders and the handlers have their types: with late
\* pushes, corrections, restarts and backfills on the way, no amount of the
\* engine and no lock goes below zero.
GatewayTypeOK ==
    /\ db \in [total : Nat, locked : Nat]
    /\ engine \in [total : Nat, reserved : Nat]
    /\ order \in [Orders -> OrderState]
    /\ handler \in [Handlers -> HandlerState]
    /\ slot \in Handlers \cup {NoHandler}
    /\ pushes \subseteq [no : Nat, credit : Nat, debit : Nat]
    /\ upkeep \in [moves : Nat, restarts : Nat, backfills : Nat, read : [on : BOOLEAN, amount : Nat]]
    /\ drifted \in BOOLEAN

\* What Postgres could still lock when every lock on its way is in place.
Lockable == db.total - db.locked - InStatus({"reserved"})

\* The engine never takes for available what Postgres could not lock: neither
\* a stale read nor a repeated adjustment or backfill credits the amount of an
\* order whose lock is still on its way ("closes exactly this window",
\* trade.go:41).  What the slot does not guard against may break this, but only
\* until the next reconciliation that meets no open order and is not disturbed.
\* The lock of a cancelled order that Postgres has yet to drop is no obstacle.
NoPhantomFunds == drifted \/ Available <= Lockable + InStatus({"unlocking"})

\* Bringing the mirror in line never takes away what live orders have reserved
\* in the engine, which is what Postgres has locked for them; a restart leaves
\* no lock without its order.
ReservationsLive ==
    \/ drifted
    \/ /\ engine.reserved = InStatus({"reserved", "resting"})
       /\ db.locked = InStatus({"resting", "unlocking", "lost"})

\* "Passing the raw integer through here inflated every restored balance"
\* (wallet.go:425): a push leaves the engine's available amount inside what
\* Postgres could lock.  Of PushSpec.
PushesInUnits == Available <= Lockable

\* The account's slot is always given back, also by handlers that fail or time
\* out while the engine is silent.
SlotReturns == slot # NoHandler ~> slot = NoHandler

\* Every order request is answered, however many of the account are queued
\* before it: the wait for the slot is bounded (trade.go:45-52).
RequestsAnswered == \A h \in Handlers : ~At(h, "idle") ~> At(h, "idle")
=============================================================================
