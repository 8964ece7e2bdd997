------------------------ MODULE TradeGateway_proofs ------------------------
(***************************************************************************)
(* Theorems about the trade gateway, for every number of concurrent        *)
(* handlers, orders and amounts, and any scale of the units.               *)
(***************************************************************************)
EXTENDS TradeGateway, Totals_proofs, TLAPS

-----------------------------------------------------------------------------
(* Totals of orders.                                                       *)

\* What an order adds to the total of the orders in S.
Share(row, S) == IF row.status \in S THEN row.amount ELSE 0

\* The total of the orders in S is a natural number, and the shares of its
\* orders make it up.
LEMMA InStatusShares ==
    ASSUME NEW f \in [Orders -> OrderState], NEW S
    PROVE  /\ [o \in Orders |-> Share(f[o], S)] \in [Orders -> Nat]
           /\ \A o \in Orders : Share(f[o], S) \in Nat
<1>1. \A o \in Orders : Share(f[o], S) \in Nat
  BY DEF Share, OrderState
<1> QED
  BY <1>1

\* The total before and after a step as totals of shares.
LEMMA InStatusTotal ==
    ASSUME NEW S
    PROVE  /\ InStatus(S) = Total([o \in Orders |-> Share(order[o], S)])
           /\ InStatus(S)' = Total([o \in Orders |-> Share(order'[o], S)])
BY DEF InStatus, Share

\* So it is a natural number.
LEMMA InStatusType ==
    ASSUME order \in [Orders -> OrderState], NEW S
    PROVE  InStatus(S) \in Nat
BY InStatusShares, InStatusTotal, TotalType, GatewayAssumption

\* It is zero when no order is in S, and only then.
LEMMA InStatusZero ==
    ASSUME order \in [Orders -> OrderState], NEW S,
           \A o \in Orders : order[o].status \notin S
    PROVE  InStatus(S) = 0
<1>1. [o \in Orders |-> Share(order[o], S)] = [o \in Orders |-> 0]
  BY DEF Share
<1> QED
  BY <1>1, InStatusTotal, TotalOfZeros

\* One order changes: the total of S changes by its share.
LEMMA InStatusMove ==
    ASSUME order \in [Orders -> OrderState], order' \in [Orders -> OrderState],
           NEW o \in Orders, \A q \in Orders \ {o} : order'[q] = order[q], NEW S
    PROVE  /\ InStatus(S) \in Nat /\ InStatus(S)' \in Nat
           /\ Share(order[o], S) \in Nat /\ Share(order'[o], S) \in Nat
           /\ Share(order[o], S) <= InStatus(S)
           /\ InStatus(S)' = InStatus(S) - Share(order[o], S) + Share(order'[o], S)
<1> DEFINE f == [q \in Orders |-> Share(order[q], S)]
           g == [q \in Orders |-> Share(order'[q], S)]
           z == [q \in Orders |-> IF q = o THEN 0 ELSE f[q]]
<1>1. f \in [Orders -> Nat] /\ g \in [Orders -> Nat]
  BY InStatusShares
<1>2. f[o] = Share(order[o], S) /\ g[o] = Share(order'[o], S)
  OBVIOUS
<1>3. \A q \in Orders \ {o} : g[q] = f[q] /\ z[q] = f[q]
  OBVIOUS
<1>4. z \in [Orders -> Nat] /\ z[o] = 0
  BY <1>1
<1>5. InStatus(S) = Total(f) /\ InStatus(S)' = Total(g)
  BY InStatusTotal
<1>6. IsFiniteSet(Orders)
  BY GatewayAssumption
<1> HIDE DEF f, g, z
<1>7. Total(g) = Total(f) - f[o] + g[o]
  BY <1>1, <1>3, <1>6, TotalChange
<1>8. Total(f) = Total(z) - z[o] + f[o]
  <2>1. \A q \in Orders \ {o} : f[q] = z[q]
    BY <1>3
  <2> QED
    BY <1>1, <1>4, <1>6, <2>1, TotalChange
<1>9. Total(f) \in Nat /\ Total(g) \in Nat /\ Total(z) \in Nat
  BY <1>1, <1>4, <1>6, TotalType
<1>10. f[o] \in Nat /\ g[o] \in Nat
  BY <1>1
<1>11. f[o] <= Total(f)
  BY <1>4, <1>8, <1>9, <1>10
<1> QED
  BY <1>2, <1>5, <1>7, <1>9, <1>10, <1>11

\* The total of two disjoint sets of statuses.
LEMMA InStatusUnion ==
    ASSUME order \in [Orders -> OrderState], NEW S, NEW U, S \cap U = {}
    PROVE  InStatus(S \cup U) = InStatus(S) + InStatus(U)
<1> DEFINE f == [q \in Orders |-> Share(order[q], S)]
           g == [q \in Orders |-> Share(order[q], U)]
<1>1. f \in [Orders -> Nat] /\ g \in [Orders -> Nat]
  BY InStatusShares
<1>2. \A q \in Orders : Share(order[q], S \cup U) = f[q] + g[q]
  <2> SUFFICES ASSUME NEW q \in Orders PROVE Share(order[q], S \cup U) = f[q] + g[q]
    OBVIOUS
  <2>1. f[q] \in Nat /\ g[q] \in Nat /\ f[q] = Share(order[q], S) /\ g[q] = Share(order[q], U)
    BY <1>1
  <2> HIDE DEF f, g
  <2> QED
    BY <2>1 DEF Share
<1>3. InStatus(S \cup U) = Total([q \in Orders |-> f[q] + g[q]])
  <2> HIDE DEF f, g
  <2>1. [q \in Orders |-> Share(order[q], S \cup U)] = [q \in Orders |-> f[q] + g[q]]
    BY <1>2
  <2>2. InStatus(S \cup U) = Total([q \in Orders |-> Share(order[q], S \cup U)])
    BY InStatusTotal
  <2> QED
    BY <2>1, <2>2
<1>4. InStatus(S) = Total(f) /\ InStatus(U) = Total(g)
  BY InStatusTotal
<1>5. IsFiniteSet(Orders)
  BY GatewayAssumption
<1> HIDE DEF f, g
<1> QED
  BY <1>1, <1>3, <1>4, <1>5, TotalPlus

-----------------------------------------------------------------------------
(* Types.                                                                  *)

\* The states a handler's steps lead to are states of a handler.
LEMMA HandlerTypes ==
    ASSUME handler \in [Handlers -> HandlerState], NEW h \in Handlers
    PROVE  /\ Idle \in HandlerState /\ [Idle EXCEPT !.pc = "submit"] \in HandlerState
           /\ Goto(h, "queue") \/ Goto(h, "total") =>
                /\ handler' \in [Handlers -> HandlerState]
                /\ handler'[h].pc \in {"queue", "total"}
                /\ \A k \in Handlers \ {h} : handler'[k] = handler[k]
           /\ handler' = [handler EXCEPT ![h] = Idle] =>
                /\ handler' \in [Handlers -> HandlerState] /\ handler'[h] = Idle
                /\ \A k \in Handlers \ {h} : handler'[k] = handler[k]
           /\ handler' = [handler EXCEPT ![h] = [Idle EXCEPT !.pc = "submit"]] =>
                /\ handler' \in [Handlers -> HandlerState] /\ handler'[h].pc = "submit"
                /\ \A k \in Handlers \ {h} : handler'[k] = handler[k]
<1>1. Idle \in HandlerState /\ [Idle EXCEPT !.pc = "submit"] \in HandlerState
      /\ [Idle EXCEPT !.pc = "submit"].pc = "submit"
  BY DEF Idle, HandlerState
<1>2. ASSUME NEW pc \in {"queue", "total"}, Goto(h, pc)
      PROVE  /\ handler' \in [Handlers -> HandlerState] /\ handler'[h].pc \in {"queue", "total"}
             /\ \A k \in Handlers \ {h} : handler'[k] = handler[k]
  <2>1. handler' = [handler EXCEPT ![h] = [handler[h] EXCEPT !.pc = pc]]
    BY <1>2 DEF Goto
  <2>2. [handler[h] EXCEPT !.pc = pc] \in HandlerState /\ [handler[h] EXCEPT !.pc = pc].pc = pc
    BY DEF HandlerState
  <2> HIDE DEF HandlerState
  <2> QED
    BY <2>1, <2>2
<1> HIDE DEF HandlerState, Idle
<1> QED
  BY <1>1, <1>2

\* The fields a reconciliation notes.
LEMMA NoteTypes ==
    ASSUME handler \in [Handlers -> HandlerState], NEW h \in Handlers
    PROVE  /\ \A n \in Nat : Note(h, "locked", "total", n) =>
                /\ handler' \in [Handlers -> HandlerState]
                /\ handler'[h].pc = "locked" /\ handler'[h].total = n
                /\ \A k \in Handlers \ {h} : handler'[k] = handler[k]
           /\ \A n \in Nat : Note(h, "engine", "locked", n) =>
                /\ handler' \in [Handlers -> HandlerState]
                /\ handler'[h].pc = "engine" /\ handler'[h].locked = n
                /\ handler'[h].total = handler[h].total
                /\ \A k \in Handlers \ {h} : handler'[k] = handler[k]
           /\ \A n \in Int : Note(h, "adjust", "avail", n) =>
                /\ handler' \in [Handlers -> HandlerState]
                /\ handler'[h].pc = "adjust" /\ handler'[h].avail = n
                /\ handler'[h].total = handler[h].total /\ handler'[h].locked = handler[h].locked
                /\ \A k \in Handlers \ {h} : handler'[k] = handler[k]
           /\ \A o \in Orders : Note(h, "wait", "order", o) =>
                /\ handler' \in [Handlers -> HandlerState]
                /\ handler'[h].pc = "wait" /\ handler'[h].order = o
                /\ \A k \in Handlers \ {h} : handler'[k] = handler[k]
<1>0. handler[h] \in HandlerState
  OBVIOUS
<1>1. ASSUME NEW x \in HandlerState, handler' = [handler EXCEPT ![h] = x]
      PROVE  /\ handler' \in [Handlers -> HandlerState] /\ handler'[h] = x
             /\ \A k \in Handlers \ {h} : handler'[k] = handler[k]
  BY <1>1
<1>2. ASSUME NEW n \in Nat, Note(h, "locked", "total", n)
      PROVE  /\ handler' \in [Handlers -> HandlerState]
             /\ handler'[h].pc = "locked" /\ handler'[h].total = n
             /\ \A k \in Handlers \ {h} : handler'[k] = handler[k]
  <2> DEFINE x == [handler[h] EXCEPT !.pc = "locked", !.total = n]
  <2>1. handler' = [handler EXCEPT ![h] = x]
    BY <1>2 DEF Note
  <2>2. x \in HandlerState /\ x.pc = "locked" /\ x.total = n
    BY <1>0 DEF HandlerState
  <2> HIDE DEF HandlerState, x
  <2> QED
    BY <1>1, <2>1, <2>2
<1>3. ASSUME NEW n \in Nat, Note(h, "engine", "locked", n)
      PROVE  /\ handler' \in [Handlers -> HandlerState]
             /\ handler'[h].pc = "engine" /\ handler'[h].locked = n /\ handler'[h].total = handler[h].total
             /\ \A k \in Handlers \ {h} : handler'[k] = handler[k]
  <2> DEFINE x == [handler[h] EXCEPT !.pc = "engine", !.locked = n]
  <2>1. handler' = [handler EXCEPT ![h] = x]
    BY <1>3 DEF Note
  <2>2. x \in HandlerState /\ x.pc = "engine" /\ x.locked = n /\ x.total = handler[h].total
    BY <1>0 DEF HandlerState
  <2> HIDE DEF HandlerState, x
  <2> QED
    BY <1>1, <2>1, <2>2
<1>4. ASSUME NEW n \in Int, Note(h, "adjust", "avail", n)
      PROVE  /\ handler' \in [Handlers -> HandlerState]
             /\ handler'[h].pc = "adjust" /\ handler'[h].avail = n /\ handler'[h].total = handler[h].total
             /\ handler'[h].locked = handler[h].locked
             /\ \A k \in Handlers \ {h} : handler'[k] = handler[k]
  <2> DEFINE x == [handler[h] EXCEPT !.pc = "adjust", !.avail = n]
  <2>1. handler' = [handler EXCEPT ![h] = x]
    BY <1>4 DEF Note
  <2>2. x \in HandlerState /\ x.pc = "adjust" /\ x.avail = n /\ x.total = handler[h].total
             /\ x.locked = handler[h].locked
    BY <1>0 DEF HandlerState
  <2> HIDE DEF HandlerState, x
  <2> QED
    BY <1>1, <2>1, <2>2
<1>5. ASSUME NEW o \in Orders, Note(h, "wait", "order", o)
      PROVE  /\ handler' \in [Handlers -> HandlerState]
             /\ handler'[h].pc = "wait" /\ handler'[h].order = o
             /\ \A k \in Handlers \ {h} : handler'[k] = handler[k]
  <2> DEFINE x == [handler[h] EXCEPT !.pc = "wait", !.order = o]
  <2>1. handler' = [handler EXCEPT ![h] = x]
    BY <1>5 DEF Note
  <2>2. x \in HandlerState /\ x.pc = "wait" /\ x.order = o
    BY <1>0 DEF HandlerState
  <2> HIDE DEF HandlerState, x
  <2> QED
    BY <1>1, <2>1, <2>2
<1> QED
  BY <1>2, <1>3, <1>4, <1>5

Ledgers == [total : Nat, reserved : Nat]

\* Debits stop at zero.
LEMMA LessFacts ==
    ASSUME NEW m \in Nat, NEW n \in Nat
    PROVE  /\ Less(m, n) \in Nat /\ Less(m, n) <= m
           /\ n <= m => Less(m, n) = m - n
           /\ m <= n => Less(m, n) = 0
BY DEF Less

\* A credit and a debit of the engine, field by field.
LEMMA EngineTypes ==
    ASSUME NEW e \in Ledgers, NEW n \in Nat
    PROVE  /\ Credited(e, n) \in Ledgers /\ Debited(e, n) \in Ledgers
           /\ Credited(e, n).total = e.total + n /\ Credited(e, n).reserved = e.reserved
           /\ Debited(e, n).total = Less(e.total, n)
           /\ Debited(e, n).reserved = Less(e.reserved, n)
<1>1. e.total \in Nat /\ e.reserved \in Nat
  BY DEF Ledgers
<1>2. Less(e.total, n) \in Nat /\ Less(e.reserved, n) \in Nat
  BY <1>1, LessFacts
<1>3. /\ Credited(e, n) \in Ledgers
      /\ Credited(e, n).total = e.total + n /\ Credited(e, n).reserved = e.reserved
  BY <1>1 DEF Credited, Ledgers
<1>4. /\ Debited(e, n) \in Ledgers /\ Debited(e, n).total = Less(e.total, n)
      /\ Debited(e, n).reserved = Less(e.reserved, n)
  BY <1>2 DEF Debited, Ledgers
<1> QED
  BY <1>3, <1>4

\* Bringing the mirror in line: up by a credit, down by a debit.
LEMMA AdjustedTypes ==
    ASSUME engine \in Ledgers, NEW delta \in Int
    PROVE  /\ Adjusted(delta) \in Ledgers
           /\ delta >= 0 => /\ Adjusted(delta).total = engine.total + delta
                            /\ Adjusted(delta).reserved = engine.reserved
           /\ delta < 0 => /\ Adjusted(delta).total = Less(engine.total, -delta)
                           /\ Adjusted(delta).reserved = Less(engine.reserved, -delta)
<1>1. CASE delta >= 0
  <2>1. delta \in Nat /\ Adjusted(delta) = Credited(engine, delta)
    BY <1>1 DEF Adjusted
  <2> QED
    BY <1>1, <2>1, EngineTypes
<1>2. CASE ~(delta >= 0)
  <2>1. -delta \in Nat /\ Adjusted(delta) = Debited(engine, -delta) /\ delta < 0
    BY <1>2 DEF Adjusted
  <2> DEFINE n == -delta
  <2>2. n \in Nat /\ Adjusted(delta) = Debited(engine, n)
    BY <2>1
  <2> HIDE DEF n
  <2>3. /\ Adjusted(delta) \in Ledgers
        /\ Adjusted(delta).total = Less(engine.total, n)
        /\ Adjusted(delta).reserved = Less(engine.reserved, n)
    BY <2>2, EngineTypes
  <2> QED
    BY <1>2, <2>3 DEF n
<1> QED
  BY <1>1, <1>2

\* An order moves to another status, or is first sent.
Marked(o, s) == order' = [order EXCEPT ![o].status = s]

\* Then the others stay and it keeps its amount.
LEMMA MarkedFacts ==
    ASSUME order \in [Orders -> OrderState], NEW o \in Orders
    PROVE  /\ \A s \in {"reserved", "resting", "unlocking", "done"} : Marked(o, s) =>
                /\ order' \in [Orders -> OrderState]
                /\ order'[o].status = s /\ order'[o].amount = order[o].amount
                /\ \A q \in Orders \ {o} : order'[q] = order[q]
           /\ \A n \in Nat : order' = [order EXCEPT ![o] = [status |-> "sent", amount |-> n]] =>
                /\ order' \in [Orders -> OrderState]
                /\ order'[o].status = "sent" /\ order'[o].amount = n
                /\ \A q \in Orders \ {o} : order'[q] = order[q]
<1>0. order[o] \in OrderState
  OBVIOUS
<1>1. ASSUME NEW x \in OrderState, order' = [order EXCEPT ![o] = x]
      PROVE  /\ order' \in [Orders -> OrderState] /\ order'[o] = x
             /\ \A q \in Orders \ {o} : order'[q] = order[q]
  BY <1>1
<1>2. ASSUME NEW s \in {"reserved", "resting", "unlocking", "done"}, Marked(o, s)
      PROVE  /\ order' \in [Orders -> OrderState]
             /\ order'[o].status = s /\ order'[o].amount = order[o].amount
             /\ \A q \in Orders \ {o} : order'[q] = order[q]
  <2> DEFINE x == [order[o] EXCEPT !.status = s]
  <2>1. order' = [order EXCEPT ![o] = x]
    BY <1>2 DEF Marked
  <2>2. x \in OrderState /\ x.status = s /\ x.amount = order[o].amount
    BY <1>0 DEF OrderState
  <2> HIDE DEF OrderState, x
  <2> QED
    BY <1>1, <2>1, <2>2
<1>3. ASSUME NEW n \in Nat, order' = [order EXCEPT ![o] = [status |-> "sent", amount |-> n]]
      PROVE  /\ order' \in [Orders -> OrderState]
             /\ order'[o].status = "sent" /\ order'[o].amount = n
             /\ \A q \in Orders \ {o} : order'[q] = order[q]
  <2> DEFINE x == [status |-> "sent", amount |-> n]
  <2>1. x \in OrderState /\ x.status = "sent" /\ x.amount = n
    BY DEF OrderState
  <2> HIDE DEF OrderState, x
  <2> QED
    BY <1>1, <1>3, <2>1 DEF x
<1> QED
  BY <1>2, <1>3

\* The types as one record of facts.
LEMMA TypeFacts ==
    ASSUME GatewayTypeOK
    PROVE  /\ db.total \in Nat /\ db.locked \in Nat /\ engine \in Ledgers
           /\ engine.total \in Nat /\ engine.reserved \in Nat /\ Available \in Int
           /\ order \in [Orders -> OrderState] /\ handler \in [Handlers -> HandlerState]
           /\ \A o \in Orders : order[o].amount \in Nat
           /\ \A h \in Handlers :
                /\ handler[h].total \in Nat /\ handler[h].locked \in Nat
                /\ handler[h].avail \in Int /\ handler[h].order \in Orders \cup {NoOrder}
           /\ Amounts \subseteq Nat
<1>1. /\ db \in [total : Nat, locked : Nat] /\ engine \in Ledgers
      /\ order \in [Orders -> OrderState] /\ handler \in [Handlers -> HandlerState]
  BY DEF GatewayTypeOK, Ledgers
<1>2. engine.total \in Nat /\ engine.reserved \in Nat
  BY <1>1 DEF Ledgers
<1>3. \A o \in Orders : order[o].amount \in Nat
  BY <1>1 DEF OrderState
<1>4. \A h \in Handlers :
         /\ handler[h].total \in Nat /\ handler[h].locked \in Nat
         /\ handler[h].avail \in Int /\ handler[h].order \in Orders \cup {NoOrder}
  BY <1>1 DEF HandlerState
<1>5. Available \in Int
  BY <1>2 DEF Available
<1> QED
  BY <1>1, <1>2, <1>3, <1>4, <1>5, GatewayAssumption

\* Handlers at work on their request keep the types.
LEMMA HandlerStepTypes ==
    ASSUME GatewayTypeOK, NEW h \in Handlers,
           \/ Request(h) \/ AcquireSlot(h) \/ TurnedAway(h) \/ ReadTotal(h) \/ ReadLocked(h)
           \/ ReadEngine(h) \/ GiveUp(h) \/ Reply(h) \/ Timeout(h)
    PROVE  GatewayTypeOK'
<1>1. handler \in [Handlers -> HandlerState]
  BY DEF GatewayTypeOK
<1>2. UNCHANGED <<db, engine, order, pushes, upkeep>>
  BY DEF Request, AcquireSlot, TurnedAway, ReadTotal, ReadLocked, ReadEngine, GiveUp, Reply,
         Timeout
<1>3. slot' \in Handlers \cup {NoHandler}
  BY DEF Request, AcquireSlot, TurnedAway, ReadTotal, ReadLocked, ReadEngine, GiveUp, Reply,
         Timeout, Return, Released, GatewayTypeOK
<1>4. drifted' \in BOOLEAN
  BY DEF Request, AcquireSlot, TurnedAway, ReadTotal, ReadLocked, ReadEngine, GiveUp, Reply,
         Timeout, GatewayTypeOK
<1>5. handler' \in [Handlers -> HandlerState]
  <2>1. CASE Goto(h, "queue") \/ Goto(h, "total")
    BY <1>1, <2>1, HandlerTypes
  <2>2. CASE handler' = [handler EXCEPT ![h] = Idle]
    BY <1>1, <2>2, HandlerTypes
  <2>3. CASE \/ \E n \in Nat : Note(h, "locked", "total", n) \/ Note(h, "engine", "locked", n)
             \/ \E n \in Int : Note(h, "adjust", "avail", n)
    BY <1>1, <2>3, NoteTypes
  <2> QED
    BY <2>1, <2>2, <2>3, TypeFacts
       DEF Request, AcquireSlot, TurnedAway, ReadTotal, ReadLocked, ReadEngine, GiveUp, Reply,
           Timeout, Return, EngineAmount
<1> QED
  BY <1>2, <1>3, <1>4, <1>5 DEF GatewayTypeOK

\* So does bringing the mirror in line, and sending an order.
LEMMA AdjustTypes ==
    ASSUME GatewayTypeOK, NEW h \in Handlers,
           Adjust(h) \/ \E o \in Orders, n \in Amounts : Submit(h, o, n)
    PROVE  GatewayTypeOK'
<1>1. CASE Adjust(h)
  <2>1. engine' \in Ledgers
    <3> DEFINE delta == handler[h].total - handler[h].locked - handler[h].avail
    <3>1. delta \in Int /\ engine \in Ledgers
      BY TypeFacts
    <3>2. engine' = Adjusted(delta)
      BY <1>1 DEF Adjust
    <3> HIDE DEF delta
    <3> QED
      BY <3>1, <3>2, AdjustedTypes
  <2>2. handler' \in [Handlers -> HandlerState]
    BY <1>1, HandlerTypes DEF Adjust, Return, GatewayTypeOK
  <2>3. slot' \in Handlers \cup {NoHandler} /\ drifted' \in BOOLEAN
    BY <1>1 DEF Adjust, Return, Released, GatewayTypeOK
  <2>4. UNCHANGED <<db, order, pushes, upkeep>>
    BY <1>1 DEF Adjust
  <2> QED
    BY <2>1, <2>2, <2>3, <2>4 DEF GatewayTypeOK, Ledgers
<1>2. CASE \E o \in Orders, n \in Amounts : Submit(h, o, n)
  <2> PICK o \in Orders, n \in Amounts : Submit(h, o, n)
    BY <1>2
  <2>1. n \in Nat /\ Note(h, "wait", "order", o)
        /\ order' = [order EXCEPT ![o] = [status |-> "sent", amount |-> n]]
    BY TypeFacts DEF Submit
  <2>2. order' \in [Orders -> OrderState]
    BY <2>1, MarkedFacts DEF GatewayTypeOK
  <2>3. handler' \in [Handlers -> HandlerState]
    BY <2>1, NoteTypes DEF GatewayTypeOK
  <2> QED
    BY <2>2, <2>3 DEF GatewayTypeOK, Submit
<1> QED
  BY <1>1, <1>2

\* What the engine and Postgres do with an order keeps the types.
LEMMA OrderTypes ==
    ASSUME GatewayTypeOK, NEW o \in Orders,
           \/ EngineAccepts(o) \/ EngineLocks(o) \/ CancelOrder(o) \/ EngineUnlocks(o) \/ Fill(o)
    PROVE  GatewayTypeOK'
<1>1. UNCHANGED <<handler, slot, pushes, upkeep>>
  BY DEF EngineAccepts, EngineLocks, CancelOrder, EngineUnlocks, Fill
<1>2. drifted' \in BOOLEAN
  BY DEF EngineAccepts, EngineLocks, CancelOrder, EngineUnlocks, Fill, GatewayTypeOK
<1>3. order' \in [Orders -> OrderState]
  <2>1. Marked(o, "reserved") \/ Marked(o, "resting") \/ Marked(o, "unlocking") \/ Marked(o, "done")
    BY DEF EngineAccepts, EngineLocks, CancelOrder, EngineUnlocks, Fill, Marked
  <2> QED
    BY <2>1, MarkedFacts DEF GatewayTypeOK
<1> DEFINE a == order[o].amount
<1>4. /\ a \in Nat /\ db.total \in Nat /\ db.locked \in Nat /\ engine \in Ledgers
      /\ engine.reserved \in Nat
  BY TypeFacts
<1> HIDE DEF a
<1>7. Less(engine.reserved, a) \in Nat /\ Less(db.locked, a) \in Nat
  BY <1>4, LessFacts
<1>8. Debited(engine, a) \in Ledgers
  BY <1>4, EngineTypes
<1>9. /\ db.locked + a \in Nat /\ engine.reserved + a \in Nat
  BY <1>4
<1>10. db \in [total : Nat, locked : Nat]
  BY DEF GatewayTypeOK
<1>5. engine' \in Ledgers
  <2>1. \/ UNCHANGED engine \/ engine' = Debited(engine, a)
        \/ engine' = [engine EXCEPT !.reserved = engine.reserved + a]
        \/ engine' = [engine EXCEPT !.reserved = Less(engine.reserved, a)]
    BY DEF EngineAccepts, EngineLocks, CancelOrder, EngineUnlocks, Fill, a
  <2> QED
    BY <1>4, <1>7, <1>8, <1>9, <2>1 DEF Ledgers
<1>6. db' \in [total : Nat, locked : Nat]
  <2>1. \/ UNCHANGED db
        \/ db' = [db EXCEPT !.locked = db.locked + a]
        \/ db' = [db EXCEPT !.locked = Less(db.locked, a)]
        \/ /\ db.total >= a /\ db.locked >= a
           /\ db' = [total |-> db.total - a, locked |-> db.locked - a]
    BY DEF EngineAccepts, EngineLocks, CancelOrder, EngineUnlocks, Fill, a
  <2>2. CASE db.total >= a /\ db.locked >= a
             /\ db' = [total |-> db.total - a, locked |-> db.locked - a]
    <3>1. db.total - a \in Nat /\ db.locked - a \in Nat
      BY <1>4, <2>2
    <3> QED
      BY <2>2, <3>1
  <2> QED
    BY <1>4, <1>7, <1>9, <1>10, <2>1, <2>2
<1> QED
  BY <1>1, <1>2, <1>3, <1>5, <1>6 DEF GatewayTypeOK, Ledgers

\* So do payments and their pushes.
LEMMA PaymentTypes ==
    ASSUME GatewayTypeOK,
           \/ \E n \in Amounts : Received(n) \/ Deposited(n) \/ Spent(n) \/ PaidOut(n) \/ AdminDebit(n)
           \/ \E p \in pushes : PushLands(p)
    PROVE  GatewayTypeOK'
<1>1. ASSUME NEW t \in Nat, NEW c \in Nat, NEW d \in Nat, Moved(t, c, d), drifted' \in BOOLEAN
      PROVE  GatewayTypeOK'
  <2>1. db' \in [total : Nat, locked : Nat]
    BY <1>1 DEF Moved, GatewayTypeOK
  <2>2. /\ upkeep' = [upkeep EXCEPT !.moves = @ + 1] /\ upkeep.moves \in Nat
        /\ upkeep' \in [moves : Nat, restarts : Nat, backfills : Nat,
                        read : [on : BOOLEAN, amount : Nat]]
    BY <1>1 DEF Moved, GatewayTypeOK
  <2>3. pushes' \subseteq [no : Nat, credit : Nat, debit : Nat]
    BY <1>1, <2>2 DEF Moved, GatewayTypeOK
  <2> QED
    BY <1>1, <2>1, <2>2, <2>3 DEF Moved, GatewayTypeOK
<1>2. ASSUME NEW n \in Amounts,
             Received(n) \/ Deposited(n) \/ Spent(n) \/ PaidOut(n) \/ AdminDebit(n)
      PROVE  GatewayTypeOK'
  <2>1. n \in Nat /\ db.total \in Nat /\ db.total + n \in Nat /\ 0 \in Nat
        /\ (db.total >= n => db.total - n \in Nat)
    BY TypeFacts
  <2>2. drifted' \in BOOLEAN
    BY <1>2 DEF Received, Deposited, Spent, PaidOut, AdminDebit, GatewayTypeOK
  <2>3. \/ \E c, d \in {0, n} : Moved(db.total + n, c, d)
        \/ db.total >= n /\ \E c, d \in {0, n} : Moved(db.total - n, c, d)
    BY <1>2 DEF Received, Deposited, Spent, PaidOut, AdminDebit
  <2> QED
    BY <1>1, <2>1, <2>2, <2>3
<1>3. ASSUME NEW p \in pushes, PushLands(p) PROVE GatewayTypeOK'
  <2>1. p.credit * Scale \in Nat /\ p.debit * Scale \in Nat
    <3>1. p.credit \in Nat /\ p.debit \in Nat /\ Scale \in Nat
      BY GatewayAssumption DEF GatewayTypeOK
    <3> QED
      BY <3>1
  <2> DEFINE c == p.credit * Scale
             d == p.debit * Scale
  <2>2. engine' = Debited(Credited(engine, c), d)
    BY <1>3 DEF PushLands
  <2> HIDE DEF c, d
  <2>3. engine' \in Ledgers
    <3>1. c \in Nat /\ d \in Nat
      BY <2>1 DEF c, d
    <3>2. Credited(engine, c) \in Ledgers
      BY <3>1, TypeFacts, EngineTypes
    <3> QED
      BY <2>2, <3>1, <3>2, EngineTypes
  <2> QED
    BY <1>3, <2>3 DEF PushLands, GatewayTypeOK, Ledgers
<1> QED
  BY <1>2, <1>3

\* So do a restart, its backfill and the release of orphaned locks.
LEMMA RestartTypes ==
    ASSUME GatewayTypeOK, RestartStep
    PROVE  GatewayTypeOK'
<1>1. CASE EngineRestart
  <2>1. engine' \in Ledgers
    BY <1>1 DEF EngineRestart, Ledgers
  <2>2. order' \in [Orders -> OrderState]
    <3> SUFFICES ASSUME NEW o \in Orders
                 PROVE  [order[o] EXCEPT !.status =
                          CASE @ \in {"resting", "unlocking"} -> "lost"
                            [] @ \in {"sent", "reserved"} -> "done"
                            [] OTHER -> @] \in OrderState
      BY <1>1 DEF EngineRestart
    <3>1. order[o] \in OrderState
      BY DEF GatewayTypeOK
    <3> QED
      BY <3>1 DEF OrderState
  <2>3. upkeep' \in [moves : Nat, restarts : Nat, backfills : Nat,
                     read : [on : BOOLEAN, amount : Nat]]
    BY <1>1 DEF EngineRestart, GatewayTypeOK
  <2> QED
    BY <1>1, <2>1, <2>2, <2>3 DEF EngineRestart, GatewayTypeOK, Ledgers
<1>2. CASE BackfillReads
  <2>1. Spendable \in Nat
    BY TypeFacts, LessFacts DEF Spendable
  <2>2. upkeep' \in [moves : Nat, restarts : Nat, backfills : Nat,
                     read : [on : BOOLEAN, amount : Nat]]
    <3> DEFINE r == [on |-> TRUE, amount |-> Spendable]
               b == upkeep.backfills + 1
    <3>1. r \in [on : BOOLEAN, amount : Nat]
      BY <2>1
    <3>2. b \in Nat
      BY DEF GatewayTypeOK
    <3>3. upkeep' = [upkeep EXCEPT !.backfills = b, !.read = r]
      BY <1>2 DEF BackfillReads
    <3> HIDE DEF r, b
    <3> QED
      BY <3>1, <3>2, <3>3 DEF GatewayTypeOK
  <2> QED
    BY <1>2, <2>2 DEF BackfillReads, GatewayTypeOK
<1>3. CASE BackfillCredits
  <2>1. upkeep.read.amount \in Nat
    BY DEF GatewayTypeOK
  <2>2. engine' \in Ledgers
    BY <1>3, <2>1, TypeFacts, EngineTypes DEF BackfillCredits
  <2>3. upkeep' \in [moves : Nat, restarts : Nat, backfills : Nat,
                     read : [on : BOOLEAN, amount : Nat]]
    BY <1>3 DEF BackfillCredits, NoRead, GatewayTypeOK
  <2>4. drifted' \in BOOLEAN
    BY <1>3 DEF BackfillCredits, GatewayTypeOK
  <2> QED
    BY <1>3, <2>2, <2>3, <2>4 DEF BackfillCredits, GatewayTypeOK, Ledgers
<1>4. CASE ReleaseLocks
  <2>1. order' \in [Orders -> OrderState]
    <3> SUFFICES ASSUME NEW o \in Orders
                 PROVE  [order[o] EXCEPT !.status = IF @ = "lost" THEN "done" ELSE @]
                          \in OrderState
      BY <1>4 DEF ReleaseLocks
    <3>1. order[o] \in OrderState
      BY DEF GatewayTypeOK
    <3> QED
      BY <3>1 DEF OrderState
  <2>2. drifted' \in BOOLEAN
    BY <1>4 DEF ReleaseLocks, GatewayTypeOK
  <2> QED
    BY <1>4, <2>1, <2>2 DEF ReleaseLocks, GatewayTypeOK
<1> QED
  BY <1>1, <1>2, <1>3, <1>4 DEF RestartStep

\* Types are inductive.
LEMMA StepGatewayTypes == GatewayTypeOK /\ [GatewayNext]_gateway => GatewayTypeOK'
<1> SUFFICES ASSUME GatewayTypeOK, [GatewayNext]_gateway PROVE GatewayTypeOK'
  OBVIOUS
<1>1. CASE UNCHANGED gateway
  BY <1>1 DEF gateway, GatewayTypeOK
<1>2. CASE SerialStep
  BY <1>2, HandlerStepTypes, AdjustTypes, OrderTypes, PaymentTypes
     DEF SerialStep, HandlerStep, EngineStep
<1>3. CASE TimeoutStep
  BY <1>3, HandlerStepTypes DEF TimeoutStep
<1>4. CASE CancelStep \/ FillStep
  BY <1>4, OrderTypes DEF CancelStep, FillStep
<1>5. CASE PushStep \/ PaymentStep
  BY <1>5, PaymentTypes DEF PushStep, PaymentStep
<1>6. CASE RestartStep
  BY <1>6, RestartTypes
<1> QED
  BY <1>1, <1>2, <1>3, <1>4, <1>5, <1>6 DEF GatewayNext

\* The engine starts with any part of the balance, and without orders.
LEMMA InitGatewayTypes == GatewayInit => GatewayTypeOK
<1> SUFFICES ASSUME GatewayInit PROVE GatewayTypeOK
  OBVIOUS
<1>1. InitTotal \in Nat
  BY GatewayAssumption
<1>2. /\ db \in [total : Nat, locked : Nat] /\ engine \in [total : Nat, reserved : Nat]
      /\ order \in [Orders -> OrderState] /\ handler \in [Handlers -> HandlerState]
  BY <1>1 DEF GatewayInit, OrderState, HandlerState, Idle
<1>3. upkeep \in [moves : Nat, restarts : Nat, backfills : Nat, read : [on : BOOLEAN, amount : Nat]]
  BY DEF GatewayInit, NoRead
<1> QED
  BY <1>2, <1>3 DEF GatewayInit, GatewayTypeOK

\* No amount of the engine and no lock goes below zero, whatever pushes,
\* corrections, restarts and backfills arrive, and in whatever order.
THEOREM GatewayTypeCorrect == GatewaySpec => []GatewayTypeOK
BY InitGatewayTypes, StepGatewayTypes, PTL DEF GatewaySpec

-----------------------------------------------------------------------------
(* What holds between the steps of the handlers.                           *)

\* The amounts of the orders by where their lock is: reserved by the engine and
\* on its way to Postgres, locked by both, still to be dropped by Postgres, and
\* forgotten by the engine.
Held == InStatus({"reserved"})
Rest == InStatus({"resting"})
Cancelled == InStatus({"unlocking"})
Orphaned == InStatus({"lost"})

\* A handler past the queue holds the slot.
OneServed == \A h \in Handlers : handler[h].pc \notin {"idle", "queue"} => slot = h

\* A handler waits for every order whose lock is on its way.
Waited ==
    \A o \in Orders : order[o].status \in {"sent", "reserved"} =>
        \E h \in Handlers : At(h, "wait") /\ handler[h].order = o

\* The engine and Postgres tell the same of the open orders, and the engine
\* has no more to give than Postgres.
Mirrored ==
    /\ engine.reserved = Held + Rest
    /\ db.locked = Rest + Cancelled + Orphaned
    /\ engine.reserved <= engine.total /\ db.locked <= db.total
    /\ Available <= db.total - db.locked - Held + Cancelled

Read(h) == handler[h].total - handler[h].locked

\* A reconciliation may act on what it has read so far: payments and fills that
\* came since have not lowered it, and where it would lower the engine's
\* balance there is no reservation to lose.
ReadFits(h) ==
    /\ At(h, "locked") =>
        /\ handler[h].total <= db.total
        /\ engine.reserved = 0 \/ Available <= handler[h].total - db.locked + Cancelled
    /\ At(h, "engine") =>
        /\ Read(h) <= db.total - db.locked
        /\ engine.reserved = 0 \/ Available <= Read(h) + Cancelled
    /\ At(h, "adjust") =>
        /\ Read(h) <= db.total - db.locked
        /\ 0 <= handler[h].avail
        /\ Available - handler[h].avail + Read(h) <= db.total - db.locked + Cancelled
        /\ engine.reserved = 0 \/ handler[h].avail <= Read(h)

InLine == Waited /\ Mirrored /\ \A h \in Handlers : ReadFits(h)

GatewayInv == OneServed /\ (drifted \/ InLine)

-----------------------------------------------------------------------------
(* The figures before and after a step.                                    *)

\* They are numbers.
LEMMA Figures ==
    ASSUME GatewayTypeOK
    PROVE  /\ {db.total, db.locked, engine.total, engine.reserved} \subseteq Nat
           /\ {Held, Rest, Cancelled, Orphaned} \subseteq Nat
           /\ Available = engine.total - engine.reserved
           /\ \A h \in Handlers : handler[h].total \in Nat /\ handler[h].locked \in Nat
                                  /\ handler[h].avail \in Int
BY TypeFacts, InStatusType DEF Held, Rest, Cancelled, Orphaned, Available

\* So they are after a step.
LEMMA FiguresAfter ==
    ASSUME GatewayTypeOK'
    PROVE  /\ {db'.total, db'.locked, engine'.total, engine'.reserved} \subseteq Nat
           /\ Available' = engine'.total - engine'.reserved
           /\ order' \in [Orders -> OrderState] /\ handler' \in [Handlers -> HandlerState]
<1>1. /\ db' \in [total : Nat, locked : Nat] /\ engine' \in [total : Nat, reserved : Nat]
      /\ order' \in [Orders -> OrderState] /\ handler' \in [Handlers -> HandlerState]
  BY DEF GatewayTypeOK
<1>2. Available' = engine'.total - engine'.reserved
  BY DEF Available
<1> QED
  BY <1>1, <1>2

\* One order moves: it leaves the total of its old status and joins that of
\* its new one.
LEMMA StatusMove ==
    ASSUME order \in [Orders -> OrderState], order' \in [Orders -> OrderState],
           NEW o \in Orders, \A q \in Orders \ {o} : order'[q] = order[q], NEW s
    PROVE  /\ InStatus({s}) \in Nat /\ InStatus({s})' \in Nat
           /\ order[o].status # s /\ order'[o].status # s => InStatus({s})' = InStatus({s})
           /\ order[o].status = s /\ order'[o].status # s =>
                /\ order[o].amount <= InStatus({s})
                /\ InStatus({s})' = InStatus({s}) - order[o].amount
           /\ order[o].status # s /\ order'[o].status = s =>
                InStatus({s})' = InStatus({s}) + order'[o].amount
<1> DEFINE S == {s}
           a == Share(order[o], S)
           b == Share(order'[o], S)
<1>1. /\ InStatus(S) \in Nat /\ InStatus(S)' \in Nat /\ a \in Nat /\ b \in Nat
      /\ a <= InStatus(S) /\ InStatus(S)' = InStatus(S) - a + b
  BY InStatusMove
<1>2. /\ a = IF order[o].status = s THEN order[o].amount ELSE 0
      /\ b = IF order'[o].status = s THEN order'[o].amount ELSE 0
  BY DEF Share
<1> HIDE DEF a, b
<1>3. InStatus({s}) = InStatus(S) /\ InStatus({s})' = InStatus(S)'
  OBVIOUS
<1>4. CASE order[o].status # s /\ order'[o].status # s
  BY <1>1, <1>2, <1>3, <1>4
<1>5. CASE order[o].status = s /\ order'[o].status # s
  <2>1. b = 0 /\ a = order[o].amount
    BY <1>2, <1>5
  <2> QED
    BY <1>1, <1>3, <1>5, <2>1
<1>6. CASE order[o].status # s /\ order'[o].status = s
  <2>1. a = 0 /\ b = order'[o].amount
    BY <1>2, <1>6
  <2> QED
    BY <1>1, <1>3, <1>6, <2>1
<1>7. CASE order[o].status = s /\ order'[o].status = s
  BY <1>1, <1>7
<1> QED
  BY <1>4, <1>5, <1>6, <1>7

\* No order moves: the totals stay.
LEMMA SumsStay ==
    ASSUME order' = order
    PROVE  Held' = Held /\ Rest' = Rest /\ Cancelled' = Cancelled /\ Orphaned' = Orphaned
BY DEF Held, Rest, Cancelled, Orphaned, InStatus

\* An order moves without touching its amount.
LEMMA SumsMove ==
    ASSUME order \in [Orders -> OrderState], order' \in [Orders -> OrderState],
           NEW o \in Orders, \A q \in Orders \ {o} : order'[q] = order[q],
           order[o].status \in {"none", "sent"} \/ order'[o].amount = order[o].amount
    PROVE  LET a == order[o].amount
               Moves(s, t) == order[o].status = s /\ order'[o].status = t
           IN  /\ Moves("none", "sent") \/ Moves("sent", "done") =>
                    Held' = Held /\ Rest' = Rest /\ Cancelled' = Cancelled /\ Orphaned' = Orphaned
               /\ Moves("sent", "reserved") =>
                    /\ Held' = Held + order'[o].amount
                    /\ Rest' = Rest /\ Cancelled' = Cancelled /\ Orphaned' = Orphaned
               /\ Moves("reserved", "resting") =>
                    /\ a <= Held /\ Held' = Held - a /\ Rest' = Rest + a
                    /\ Cancelled' = Cancelled /\ Orphaned' = Orphaned
               /\ Moves("reserved", "done") =>
                    /\ a <= Held /\ Held' = Held - a /\ Rest' = Rest
                    /\ Cancelled' = Cancelled /\ Orphaned' = Orphaned
               /\ Moves("resting", "unlocking") =>
                    /\ a <= Rest /\ Rest' = Rest - a /\ Cancelled' = Cancelled + a
                    /\ Held' = Held /\ Orphaned' = Orphaned
               /\ Moves("unlocking", "done") =>
                    /\ a <= Cancelled /\ Cancelled' = Cancelled - a
                    /\ Held' = Held /\ Rest' = Rest /\ Orphaned' = Orphaned
               /\ Moves("resting", "done") =>
                    /\ a <= Rest /\ Rest' = Rest - a
                    /\ Held' = Held /\ Cancelled' = Cancelled /\ Orphaned' = Orphaned
<1>1. ASSUME NEW s
      PROVE  /\ order[o].status # s /\ order'[o].status # s => InStatus({s})' = InStatus({s})
             /\ order[o].status = s /\ order'[o].status # s =>
                  /\ order[o].amount <= InStatus({s})
                  /\ InStatus({s})' = InStatus({s}) - order[o].amount
             /\ order[o].status # s /\ order'[o].status = s =>
                  InStatus({s})' = InStatus({s}) + order'[o].amount
  BY StatusMove
<1>2. /\ order[o].status # "reserved" /\ order'[o].status # "reserved" => Held' = Held
      /\ order[o].status = "reserved" /\ order'[o].status # "reserved" =>
           order[o].amount <= Held /\ Held' = Held - order[o].amount
      /\ order[o].status # "reserved" /\ order'[o].status = "reserved" =>
           Held' = Held + order'[o].amount
  BY <1>1 DEF Held
<1>3. /\ order[o].status # "resting" /\ order'[o].status # "resting" => Rest' = Rest
      /\ order[o].status = "resting" /\ order'[o].status # "resting" =>
           order[o].amount <= Rest /\ Rest' = Rest - order[o].amount
      /\ order[o].status # "resting" /\ order'[o].status = "resting" =>
           Rest' = Rest + order'[o].amount
  BY <1>1 DEF Rest
<1>4. /\ order[o].status # "unlocking" /\ order'[o].status # "unlocking" => Cancelled' = Cancelled
      /\ order[o].status = "unlocking" /\ order'[o].status # "unlocking" =>
           order[o].amount <= Cancelled /\ Cancelled' = Cancelled - order[o].amount
      /\ order[o].status # "unlocking" /\ order'[o].status = "unlocking" =>
           Cancelled' = Cancelled + order'[o].amount
  BY <1>1 DEF Cancelled
<1>5. order[o].status # "lost" /\ order'[o].status # "lost" => Orphaned' = Orphaned
  BY <1>1 DEF Orphaned
<1> QED
  BY <1>2, <1>3, <1>4, <1>5

-----------------------------------------------------------------------------
(* The slot serves one handler at a time.                                  *)

\* A handler that returns gives the slot back and leaves the others alone.
LEMMA ReturnFacts ==
    ASSUME handler \in [Handlers -> HandlerState], NEW h \in Handlers, Return(h)
    PROVE  /\ handler'[h].pc = "idle" /\ slot' = NoHandler
           /\ \A k \in Handlers \ {h} : handler'[k] = handler[k]
<1>1. handler'[h] = Idle /\ \A k \in Handlers \ {h} : handler'[k] = handler[k]
  BY HandlerTypes DEF Return
<1> QED
  BY <1>1 DEF Idle, Return, Released

\* A handler at work finds every other one idle or in the queue.
LEMMA OthersQueue ==
    ASSUME OneServed, NEW h \in Handlers, handler[h].pc \notin {"idle", "queue"}
    PROVE  \A k \in Handlers \ {h} : handler[k].pc \in {"idle", "queue"}
BY DEF OneServed

\* A step of one handler keeps it so.
LEMMA HandlerServed ==
    ASSUME GatewayTypeOK, OneServed, NEW h \in Handlers,
           Request(h) \/ HandlerStep(h) \/ Timeout(h)
    PROVE  OneServed'
<1>0. handler \in [Handlers -> HandlerState]
  BY TypeFacts
<1>1. CASE Request(h) \/ TurnedAway(h)
  <2>1. handler'[h].pc \in {"idle", "queue"} /\ \A k \in Handlers \ {h} : handler'[k] = handler[k]
    <3>1. CASE Request(h)
      <4>1. handler' = [handler EXCEPT ![h] = [handler[h] EXCEPT !.pc = "queue"]]
        BY <3>1 DEF Request, Goto
      <4>2. [handler[h] EXCEPT !.pc = "queue"].pc = "queue"
        BY <1>0 DEF HandlerState
      <4> QED
        BY <1>0, <4>1, <4>2
    <3>2. CASE TurnedAway(h)
      <4>1. handler' = [handler EXCEPT ![h] = Idle]
        BY <3>2 DEF TurnedAway
      <4>2. handler'[h] = Idle /\ \A k \in Handlers \ {h} : handler'[k] = handler[k]
        BY <1>0, <4>1, HandlerTypes
      <4> QED
        BY <4>2 DEF Idle
    <3> QED
      BY <1>1, <3>1, <3>2
  <2>2. slot' = slot
    BY <1>1 DEF Request, TurnedAway
  <2> QED
    BY <2>1, <2>2 DEF OneServed
<1>2. CASE AcquireSlot(h)
  <2>1. slot = NoHandler /\ slot' = h /\ \A k \in Handlers \ {h} : handler'[k] = handler[k]
    BY <1>0, <1>2, HandlerTypes DEF AcquireSlot, SlotFree
  <2>2. NoHandler \notin Handlers
    BY GatewayAssumption
  <2> QED
    BY <2>1, <2>2 DEF OneServed
<1>3. CASE ReadTotal(h) \/ ReadLocked(h) \/ ReadEngine(h)
           \/ \E o \in Orders, n \in Amounts : Submit(h, o, n)
  <2>1. handler[h].pc \notin {"idle", "queue"} /\ slot' = slot
    BY <1>3 DEF ReadTotal, ReadLocked, ReadEngine, Submit, At
  <2>2. \/ \E n \in Nat : Note(h, "locked", "total", n) \/ Note(h, "engine", "locked", n)
        \/ \E n \in Int : Note(h, "adjust", "avail", n)
        \/ \E o \in Orders : Note(h, "wait", "order", o)
    BY <1>3, TypeFacts DEF ReadTotal, ReadLocked, ReadEngine, Submit, EngineAmount
  <2>3. \A k \in Handlers \ {h} : handler'[k] = handler[k]
    BY <1>0, <2>2, NoteTypes
  <2> QED
    BY <2>1, <2>3 DEF OneServed
<1>4. CASE Return(h) /\ handler[h].pc \notin {"idle", "queue"}
  <2>1. /\ handler'[h].pc = "idle"
        /\ \A k \in Handlers \ {h} : handler'[k] = handler[k] /\ handler[k].pc \in {"idle", "queue"}
    BY <1>0, <1>4, ReturnFacts, OthersQueue
  <2> QED
    BY <2>1 DEF OneServed
<1>5. CASE Adjust(h) /\ ~Return(h)
  <2>1. handler' = [handler EXCEPT ![h] = [Idle EXCEPT !.pc = "submit"]] /\ slot' = slot
        /\ handler[h].pc \notin {"idle", "queue"}
    BY <1>5 DEF Adjust, At
  <2>2. \A k \in Handlers \ {h} : handler'[k] = handler[k]
    BY <1>0, <2>1, HandlerTypes
  <2> QED
    BY <2>1, <2>2 DEF OneServed
<1> QED
  BY <1>1, <1>2, <1>3, <1>4, <1>5
     DEF HandlerStep, GiveUp, Reply, Timeout, Adjust, At

\* No other step touches the handlers or the slot.
LEMMA OthersServed ==
    ASSUME UNCHANGED <<handler, slot>>, OneServed
    PROVE  OneServed'
BY DEF OneServed

-----------------------------------------------------------------------------
(* The mirror stays in line.                                               *)

\* What a handler has read still fits when neither ledger changes and no order
\* moves.
LEMMA ReadStaysFit ==
    ASSUME UNCHANGED <<db, engine, order>>, NEW k \in Handlers, handler'[k] = handler[k],
           ReadFits(k)
    PROVE  ReadFits(k)'
<1>1. Cancelled' = Cancelled /\ Available' = Available /\ Read(k)' = Read(k)
      /\ \A pc : At(k, pc)' <=> At(k, pc)
  BY SumsStay DEF Available, Read, At
<1> QED
  BY <1>1 DEF ReadFits

\* A handler that reads nothing at the moment has nothing to fit.
LEMMA NothingRead ==
    ASSUME NEW k \in Handlers, handler'[k].pc \notin {"locked", "engine", "adjust"}
    PROVE  ReadFits(k)'
BY DEF ReadFits, At

\* The mirror itself does not depend on the handlers.
LEMMA MirrorStays ==
    ASSUME UNCHANGED <<db, engine, order>>, Mirrored
    PROVE  Mirrored'
BY SumsStay DEF Mirrored, Available

\* Requests, their turn, their way out: nothing of the ledgers changes, and an
\* order still on its way is not left without its handler.
LEMMA PassingInLine ==
    ASSUME GatewayTypeOK, OneServed, InLine, NEW h \in Handlers, ~drifted',
           \/ Request(h) \/ AcquireSlot(h) \/ TurnedAway(h) \/ GiveUp(h) \/ Reply(h) \/ Timeout(h)
    PROVE  InLine'
<1>0. handler \in [Handlers -> HandlerState]
  BY TypeFacts
<1>1. UNCHANGED <<db, engine, order>>
  BY DEF Request, AcquireSlot, TurnedAway, GiveUp, Reply, Timeout
<1>2. handler'[h].pc \in {"idle", "queue", "total"} /\ \A k \in Handlers \ {h} : handler'[k] = handler[k]
  <2>1. CASE Goto(h, "queue") \/ Goto(h, "total")
    BY <1>0, <2>1, HandlerTypes
  <2>2. CASE handler' = [handler EXCEPT ![h] = Idle]
    <3>1. handler'[h] = Idle /\ \A k \in Handlers \ {h} : handler'[k] = handler[k]
      BY <1>0, <2>2, HandlerTypes
    <3> QED
      BY <3>1 DEF Idle
  <2> QED
    BY <2>1, <2>2 DEF Request, AcquireSlot, TurnedAway, GiveUp, Reply, Timeout, Return
<1>3. At(h, "wait") => order[handler[h].order].status \notin {"sent", "reserved"}
  <2>1. CASE Request(h) \/ AcquireSlot(h) \/ TurnedAway(h) \/ GiveUp(h)
    BY <2>1 DEF Request, AcquireSlot, TurnedAway, WaitEnds, GiveUp, At
  <2>2. CASE Reply(h)
    BY <2>2 DEF Reply
  <2>3. CASE Timeout(h)
    BY <2>3 DEF Timeout
  <2> QED
    BY <2>1, <2>2, <2>3
<1>4. Waited'
  <2> SUFFICES ASSUME NEW o \in Orders, order[o].status \in {"sent", "reserved"}
               PROVE  \E k \in Handlers : handler'[k].pc = "wait" /\ handler'[k].order = o
    BY <1>1 DEF Waited, At
  <2>1. PICK k \in Handlers : At(k, "wait") /\ handler[k].order = o
    BY DEF InLine, Waited
  <2>2. k # h
    BY <1>3, <2>1
  <2> QED
    BY <1>2, <2>1, <2>2 DEF At
<1>5. Mirrored'
  BY <1>1, MirrorStays DEF InLine
<1>6. ASSUME NEW k \in Handlers PROVE ReadFits(k)'
  <2>1. CASE k = h
    BY <1>2, <2>1, NothingRead
  <2>2. CASE k # h
    BY <1>1, <1>2, <2>2, ReadStaysFit DEF InLine
  <2> QED
    BY <2>1, <2>2
<1> QED
  BY <1>4, <1>5, <1>6 DEF InLine

\* The reads of a reconciliation: each notes a figure that fits at the moment.
LEMMA ReadInLine ==
    ASSUME GatewayTypeOK, GatewayTypeOK', OneServed, InLine, NEW h \in Handlers, ~drifted',
           ReadTotal(h) \/ ReadLocked(h) \/ ReadEngine(h)
    PROVE  InLine'
<1>0. handler \in [Handlers -> HandlerState] /\ handler[h].total \in Nat /\ handler[h].locked \in Nat
  BY TypeFacts
<1>1. UNCHANGED <<db, engine, order>>
  BY DEF ReadTotal, ReadLocked, ReadEngine
<1> DEFINE T == db.total
           L == db.locked
           E == engine.total
           R == engine.reserved
           U == Cancelled
           t == handler[h].total
           l == handler[h].locked
<1>2. T \in Nat /\ L \in Nat /\ E \in Nat /\ R \in Nat /\ U \in Nat /\ t \in Nat /\ l \in Nat
      /\ Held \in Nat /\ Available = E - R
  BY Figures
<1>3. R <= E /\ L <= T /\ Available <= T - L - Held + U
  BY DEF InLine, Mirrored
<1>4. U' = U /\ Available' = Available /\ db' = db /\ engine' = engine
  BY <1>1, SumsStay DEF Available
<1>5. \A k \in Handlers \ {h} : handler'[k] = handler[k]
  <2>1. \/ \E n \in Nat : Note(h, "locked", "total", n) \/ Note(h, "engine", "locked", n)
        \/ \E n \in Int : Note(h, "adjust", "avail", n)
    BY TypeFacts DEF ReadTotal, ReadLocked, ReadEngine, EngineAmount
  <2> QED
    BY <1>0, <2>1, NoteTypes
<1>6. ReadFits(h)'
  <2>1. CASE ReadTotal(h)
    <3>1. handler'[h].pc = "locked" /\ handler'[h].total = T
      BY <1>0, <1>2, <2>1, NoteTypes DEF ReadTotal
    <3>2. Available <= T - L + U
      <4> HIDE DEF T, L, E, R, U
      <4> QED
        BY <1>2, <1>3
    <3>3. T <= T
      <4> HIDE DEF T
      <4> QED
        BY <1>2
    <3> QED
      BY <1>4, <3>1, <3>2, <3>3 DEF ReadFits, At
  <2>2. CASE ReadLocked(h)
    <3>1. handler'[h].pc = "engine" /\ handler'[h].total = t /\ handler'[h].locked = L
      BY <1>0, <1>2, <2>2, NoteTypes DEF ReadLocked
    <3>2. t <= T /\ (R = 0 \/ Available <= t - L + U)
      BY <2>2 DEF ReadLocked, InLine, ReadFits
    <3>3. t - L <= T - L
      <4> HIDE DEF T, L, t
      <4> QED
        BY <1>2, <3>2
    <3>4. Read(h)' = t - L
      BY <3>1 DEF Read
    <3> HIDE DEF t
    <3> QED
      BY <1>4, <3>1, <3>2, <3>3, <3>4 DEF ReadFits, At
  <2>3. CASE ReadEngine(h)
    <3>1. /\ handler'[h].pc = "adjust" /\ handler'[h].avail = Available
          /\ handler'[h].total = t /\ handler'[h].locked = l
      <4>1. Available \in Int
        BY TypeFacts
      <4>2. Note(h, "adjust", "avail", Available)
        BY <2>3 DEF ReadEngine, EngineAmount
      <4> QED
        BY <1>0, <4>1, <4>2, NoteTypes
    <3>2. t - l <= T - L /\ (R = 0 \/ Available <= t - l + U)
      BY <2>3 DEF ReadEngine, InLine, ReadFits, Read
    <3>3. U = 0
      <4>1. ~(U > 0)
        BY <2>3 DEF ReadEngine, Cancelled
      <4> HIDE DEF U
      <4> QED
        BY <1>2, <4>1
    <3>4. Read(h)' = t - l
      BY <3>1 DEF Read
    <3>5. /\ 0 <= Available /\ Available - Available + (t - l) <= T - L + U
          /\ R = 0 \/ Available <= t - l
      <4> HIDE DEF T, L, E, R, U, t, l
      <4> QED
        BY <1>2, <1>3, <3>2, <3>3
    <3> HIDE DEF t, l
    <3> QED
      BY <1>4, <3>1, <3>2, <3>4, <3>5 DEF ReadFits, At
  <2> QED
    BY <2>1, <2>2, <2>3
<1>7. ASSUME NEW k \in Handlers PROVE ReadFits(k)'
  BY <1>1, <1>5, <1>6, ReadStaysFit DEF InLine
<1>8. Mirrored'
  BY <1>1, MirrorStays DEF InLine
<1>9. Waited'
  <2>1. ~At(h, "wait")
    BY DEF ReadTotal, ReadLocked, ReadEngine, At
  <2> SUFFICES ASSUME NEW o \in Orders, order[o].status \in {"sent", "reserved"}
               PROVE  \E k \in Handlers : handler'[k].pc = "wait" /\ handler'[k].order = o
    BY <1>1 DEF Waited, At
  <2>2. PICK k \in Handlers : At(k, "wait") /\ handler[k].order = o
    BY DEF InLine, Waited
  <2>3. k # h
    BY <2>1, <2>2
  <2> QED
    BY <1>5, <2>2, <2>3 DEF At
<1> QED
  BY <1>7, <1>8, <1>9 DEF InLine

\* A handler at work does not share the account with another one that has read
\* something or waits for an order.
LEMMA OnlyOneReads ==
    ASSUME OneServed, NEW h \in Handlers, handler[h].pc \notin {"idle", "queue"},
           \A k \in Handlers \ {h} : handler'[k] = handler[k],
           handler'[h].pc \notin {"locked", "engine", "adjust"}
    PROVE  \A k \in Handlers : ReadFits(k)'
<1> SUFFICES ASSUME NEW k \in Handlers
             PROVE  handler'[k].pc \notin {"locked", "engine", "adjust"}
  BY NothingRead
<1> QED
  BY OthersQueue

\* No order is on its way while the handler that holds the slot waits for none.
LEMMA NoneOnItsWay ==
    ASSUME OneServed, Waited, NEW h \in Handlers, handler[h].pc \notin {"idle", "queue", "wait"}
    PROVE  \A o \in Orders : order[o].status \notin {"sent", "reserved"}
BY OthersQueue DEF Waited, At

\* Bringing the mirror in line: the engine gets no more to give than Postgres
\* has, and loses nothing while it has reservations.  Done undisturbed and with
\* no order open, it also repairs whatever was out of line.
LEMMA AdjustInLine ==
    ASSUME GatewayTypeOK, GatewayTypeOK', OneServed, drifted \/ InLine, NEW h \in Handlers,
           Adjust(h), ~drifted'
    PROVE  InLine'
<1>0. handler \in [Handlers -> HandlerState]
  BY TypeFacts
<1> DEFINE T == db.total
           L == db.locked
           E == engine.total
           R == engine.reserved
           U == Cancelled
           r == Read(h)
           v == handler[h].avail
           d == r - v
           E2 == engine'.total
           R2 == engine'.reserved
<1>1. /\ T \in Nat /\ L \in Nat /\ E \in Nat /\ R \in Nat /\ U \in Nat /\ r \in Int /\ v \in Int
      /\ Held \in Nat /\ Rest \in Nat /\ Orphaned \in Nat /\ Available = E - R
  <2>1. handler[h].total \in Nat /\ handler[h].locked \in Nat
    BY TypeFacts
  <2> QED
    BY <2>1, Figures DEF Read
<1>2. /\ d >= 0 => E2 = E + d /\ R2 = R
      /\ d < 0 => E2 = Less(E, -d) /\ R2 = Less(R, -d)
  <2>1. d \in Int /\ engine \in Ledgers
    BY <1>1, TypeFacts
  <2>2. engine' = Adjusted(d)
    BY DEF Adjust, Read
  <2> HIDE DEF d
  <2> QED
    BY <2>1, <2>2, AdjustedTypes
<1>3. db' = db /\ order' = order
  BY DEF Adjust
<1>4. handler'[h].pc \in {"submit", "idle"} /\ \A k \in Handlers \ {h} : handler'[k] = handler[k]
  <2>1. CASE Return(h)
    BY <1>0, <2>1, ReturnFacts
  <2>2. CASE handler' = [handler EXCEPT ![h] = [Idle EXCEPT !.pc = "submit"]]
    BY <1>0, <2>2, HandlerTypes
  <2> QED
    BY <2>1, <2>2 DEF Adjust
<1>5. handler[h].pc = "adjust"
  BY DEF Adjust, At
<1>6. \A k \in Handlers : ReadFits(k)'
  BY <1>4, <1>5, OnlyOneReads
<1>7. (\A o \in Orders : order[o].status \notin {"sent", "reserved"})
      /\ R2 = Held + Rest /\ L = Rest + U + Orphaned /\ R2 <= E2 /\ L <= T
      /\ E2 - R2 <= T - L - Held + U
  <2>1. CASE InLine
    <3>1. \A o \in Orders : order[o].status \notin {"sent", "reserved"}
      BY <1>5, <2>1, NoneOnItsWay DEF InLine
    <3>2. Held = 0
      BY <3>1, TypeFacts, InStatusZero DEF Held
    <3>3. R = Held + Rest /\ L = Rest + U + Orphaned /\ R <= E /\ L <= T
      BY <2>1 DEF InLine, Mirrored
    <3>4. 0 <= v /\ (E - R) - v + r <= T - L + U /\ (R = 0 \/ v <= r)
      BY <1>1, <2>1, <1>5 DEF InLine, ReadFits, At
    <3> HIDE DEF T, L, E, R, U, r, v, E2, R2
    <3>5. CASE d >= 0
      BY <1>1, <1>2, <3>1, <3>2, <3>3, <3>4, <3>5
    <3>6. CASE d < 0
      <4>1. R = 0
        BY <1>1, <3>4, <3>6
      <4>2. R2 = 0
        BY <1>1, <1>2, <3>6, <4>1 DEF Less
      <4>3. E2 = E + d \/ E2 = 0
        BY <1>1, <1>2, <3>6 DEF Less
      <4>4. E2 >= 0
        BY <1>1, <1>2, <3>6 DEF Less
      <4>5. E2 - R2 <= T - L - Held + U
        <5>1. CASE E2 = E + d
          BY <1>1, <3>2, <3>4, <4>1, <4>2, <5>1
        <5>2. CASE E2 = 0
          BY <1>1, <3>2, <3>3, <4>2, <5>2
        <5> QED
          BY <4>3, <5>1, <5>2
      <4>6. R2 <= E2
        BY <4>2, <4>4
      <4> QED
        BY <3>1, <3>3, <4>1, <4>2, <4>5, <4>6
    <3> QED
      BY <1>1, <3>5, <3>6
  <2>2. CASE Undisturbed(h)
    <3>1. /\ r = T - L /\ v = E - R /\ R = 0 /\ L <= T
          /\ \A o \in Orders : order[o].status \in {"none", "lost", "done"}
          /\ L = Orphaned
      BY <1>1, <2>2 DEF Undisturbed, Read, Orphaned
    <3>2. Held = 0 /\ Rest = 0 /\ U = 0
      BY <3>1, TypeFacts, InStatusZero DEF Held, Rest, Cancelled
    <3> HIDE DEF T, L, E, R, U, r, v, E2, R2
    <3>3. R2 = 0 /\ E2 = T - L
      <4>1. CASE d >= 0
        BY <1>1, <1>2, <3>1, <4>1
      <4>2. CASE d < 0
        BY <1>1, <1>2, <3>1, <4>2 DEF Less
      <4> QED
        BY <1>1, <4>1, <4>2
    <3> QED
      BY <1>1, <3>1, <3>2, <3>3
  <2>3. InLine \/ Undisturbed(h)
    BY DEF Adjust
  <2> QED
    BY <2>1, <2>2, <2>3
<1>8. Mirrored'
  <2>1. db'.total = T /\ db'.locked = L /\ Available' = E2 - R2
        /\ Held' = Held /\ Rest' = Rest /\ Cancelled' = U /\ Orphaned' = Orphaned
    BY <1>3, SumsStay DEF Available
  <2> QED
    BY <1>7, <2>1 DEF Mirrored
<1>9. Waited'
  BY <1>3, <1>7 DEF Waited
<1> QED
  BY <1>6, <1>8, <1>9 DEF InLine

\* Sending an order: its handler waits for it.
LEMMA SubmitInLine ==
    ASSUME GatewayTypeOK, GatewayTypeOK', OneServed, InLine, NEW h \in Handlers,
           NEW o \in Orders, NEW n \in Amounts, Submit(h, o, n)
    PROVE  InLine'
<1>1. /\ handler'[h].pc = "wait" /\ handler'[h].order = o
      /\ \A k \in Handlers \ {h} : handler'[k] = handler[k]
  BY TypeFacts, NoteTypes DEF Submit
<1>2. /\ order'[o].status = "sent" /\ \A q \in Orders \ {o} : order'[q] = order[q]
      /\ order[o].status = "none"
  BY TypeFacts, MarkedFacts DEF Submit
<1>3. handler[h].pc = "submit" /\ db' = db /\ engine' = engine
  BY DEF Submit, At
<1>4. Held' = Held /\ Rest' = Rest /\ Cancelled' = Cancelled /\ Orphaned' = Orphaned
  <2>1. order \in [Orders -> OrderState] /\ order' \in [Orders -> OrderState]
    BY TypeFacts, FiguresAfter
  <2> QED
    BY <1>2, <2>1, SumsMove
<1>5. Mirrored'
  BY <1>3, <1>4 DEF InLine, Mirrored, Available
<1>6. \A k \in Handlers : ReadFits(k)'
  BY <1>1, <1>3, OnlyOneReads
<1>7. Waited'
  <2> SUFFICES ASSUME NEW q \in Orders, order'[q].status \in {"sent", "reserved"}
               PROVE  \E k \in Handlers : handler'[k].pc = "wait" /\ handler'[k].order = q
    BY DEF Waited, At
  <2>1. CASE q = o
    BY <1>1, <2>1
  <2>2. CASE q # o
    <3>1. order[q].status \in {"sent", "reserved"}
      BY <1>2, <2>2
    <3> QED
      BY <1>3, <3>1, NoneOnItsWay DEF InLine
  <2> QED
    BY <2>1, <2>2
<1> QED
  BY <1>5, <1>6, <1>7 DEF InLine

\* An order on its way to the engine or to Postgres has its handler at work, so
\* that nobody else has read anything.
LEMMA OnItsWay ==
    ASSUME OneServed, Waited, NEW o \in Orders, order[o].status \in {"sent", "reserved"},
           handler' = handler
    PROVE  \A k \in Handlers : ReadFits(k)'
<1>1. PICK h \in Handlers : At(h, "wait") /\ handler[h].order = o
  BY DEF Waited
<1>2. handler[h].pc \notin {"idle", "queue"} /\ handler'[h].pc \notin {"locked", "engine", "adjust"}
  BY <1>1 DEF At
<1> QED
  BY <1>2, OnlyOneReads

\* An order that moves on is waited for as before.
LEMMA StillWaited ==
    ASSUME Waited, NEW o \in Orders, \A q \in Orders \ {o} : order'[q] = order[q],
           handler' = handler,
           order'[o].status \in {"sent", "reserved"} => order[o].status \in {"sent", "reserved"}
    PROVE  Waited'
BY DEF Waited, At

\* The engine's risk check and its reservation.
LEMMA AcceptInLine ==
    ASSUME GatewayTypeOK, GatewayTypeOK', OneServed, InLine, NEW o \in Orders, EngineAccepts(o)
    PROVE  InLine'
<1>0. order \in [Orders -> OrderState] /\ order' \in [Orders -> OrderState]
  BY TypeFacts, FiguresAfter
<1>1. order[o].status = "sent" /\ handler' = handler /\ db' = db
  BY DEF EngineAccepts
<1>2. (\A k \in Handlers : ReadFits(k)') /\ Waited
  BY <1>1, OnItsWay DEF InLine
<1> DEFINE a == order[o].amount
           E == engine.total
           R == engine.reserved
<1>3. E \in Nat /\ R \in Nat /\ a \in Nat /\ Held \in Nat /\ Rest \in Nat /\ Cancelled \in Nat
      /\ Orphaned \in Nat /\ db.total \in Nat /\ db.locked \in Nat /\ Available = E - R
  BY Figures, TypeFacts
<1>4. CASE a <= Available
  <2>1. Marked(o, "reserved") /\ engine' = [engine EXCEPT !.reserved = R + a]
    BY <1>4 DEF EngineAccepts, Marked
  <2>2. /\ order'[o].status = "reserved" /\ order'[o].amount = a
        /\ \A q \in Orders \ {o} : order'[q] = order[q]
    BY <1>0, <2>1, MarkedFacts
  <2>3. Held' = Held + a /\ Rest' = Rest /\ Cancelled' = Cancelled /\ Orphaned' = Orphaned
    BY <1>0, <1>1, <2>2, SumsMove
  <2>4. engine'.total = E /\ engine'.reserved = R + a
    BY <2>1 DEF GatewayTypeOK
  <2>5. Available' = E - (R + a)
    BY <2>4 DEF Available
  <2>6. Mirrored'
    <3>1. Mirrored
      BY DEF InLine
    <3> HIDE DEF a
    <3> QED
      BY <1>1, <1>3, <1>4, <2>3, <2>4, <2>5, <3>1 DEF Mirrored
  <2>7. Waited'
    BY <1>1, <1>2, <2>2, StillWaited
  <2> QED
    BY <1>2, <2>6, <2>7 DEF InLine
<1>5. CASE ~(a <= Available)
  <2>1. Marked(o, "done") /\ engine' = engine
    BY <1>5 DEF EngineAccepts, Marked
  <2>2. /\ order'[o].status = "done" /\ order'[o].amount = a
        /\ \A q \in Orders \ {o} : order'[q] = order[q]
    BY <1>0, <2>1, MarkedFacts
  <2>3. Held' = Held /\ Rest' = Rest /\ Cancelled' = Cancelled /\ Orphaned' = Orphaned
    BY <1>0, <1>1, <2>2, SumsMove
  <2>4. Mirrored'
    BY <1>1, <2>1, <2>3 DEF InLine, Mirrored, Available
  <2>5. Waited'
    BY <1>1, <1>2, <2>2, StillWaited
  <2> QED
    BY <1>2, <2>4, <2>5 DEF InLine
<1> QED
  BY <1>4, <1>5

\* The lock in Postgres, or its refusal.
LEMMA LockInLine ==
    ASSUME GatewayTypeOK, GatewayTypeOK', OneServed, InLine, NEW o \in Orders, EngineLocks(o)
    PROVE  InLine'
<1>0. order \in [Orders -> OrderState] /\ order' \in [Orders -> OrderState]
  BY TypeFacts, FiguresAfter
<1>1. order[o].status = "reserved" /\ handler' = handler
  BY DEF EngineLocks
<1>2. (\A k \in Handlers : ReadFits(k)') /\ Waited
  BY <1>1, OnItsWay DEF InLine
<1> DEFINE a == order[o].amount
           E == engine.total
           R == engine.reserved
           T == db.total
           L == db.locked
<1>3. E \in Nat /\ R \in Nat /\ a \in Nat /\ Held \in Nat /\ Rest \in Nat /\ Cancelled \in Nat
      /\ Orphaned \in Nat /\ T \in Nat /\ L \in Nat /\ Available = E - R
  BY Figures, TypeFacts
<1>4. CASE L + a <= T
  <2>1. Marked(o, "resting") /\ engine' = engine /\ db' = [db EXCEPT !.locked = L + a]
    BY <1>4 DEF EngineLocks, Marked
  <2>2. /\ order'[o].status = "resting" /\ order'[o].amount = a
        /\ \A q \in Orders \ {o} : order'[q] = order[q]
    BY <1>0, <2>1, MarkedFacts
  <2>3. a <= Held /\ Held' = Held - a /\ Rest' = Rest + a /\ Cancelled' = Cancelled
        /\ Orphaned' = Orphaned
    BY <1>0, <1>1, <2>2, SumsMove
  <2>4. db'.total = T /\ db'.locked = L + a
    BY <2>1 DEF GatewayTypeOK
  <2>5. Available' = Available
    BY <2>1 DEF Available
  <2>6. Mirrored'
    <3>1. Mirrored
      BY DEF InLine
    <3> HIDE DEF a
    <3> QED
      BY <1>3, <1>4, <2>1, <2>3, <2>4, <2>5, <3>1 DEF Mirrored
  <2>7. Waited'
    BY <1>1, <1>2, <2>2, StillWaited
  <2> QED
    BY <1>2, <2>6, <2>7 DEF InLine
<1>5. CASE ~(L + a <= T)
  <2>1. Marked(o, "done") /\ db' = db /\ engine' = [engine EXCEPT !.reserved = Less(R, a)]
    BY <1>5 DEF EngineLocks, Marked
  <2>2. /\ order'[o].status = "done" /\ order'[o].amount = a
        /\ \A q \in Orders \ {o} : order'[q] = order[q]
    BY <1>0, <2>1, MarkedFacts
  <2>3. a <= Held /\ Held' = Held - a /\ Rest' = Rest /\ Cancelled' = Cancelled
        /\ Orphaned' = Orphaned
    BY <1>0, <1>1, <2>2, SumsMove
  <2>4. engine'.total = E /\ engine'.reserved = Less(R, a)
    BY <2>1 DEF GatewayTypeOK
  <2>5. Available' = E - Less(R, a)
    BY <2>4 DEF Available
  <2>6. Mirrored'
    <3>1. Mirrored
      BY DEF InLine
    <3>2. Less(R, a) = R - a
      <4> HIDE DEF a
      <4> QED
        BY <1>3, <2>3, <3>1, LessFacts DEF Mirrored
    <3> HIDE DEF a
    <3> QED
      BY <1>3, <2>1, <2>3, <2>4, <2>5, <3>1, <3>2 DEF Mirrored
  <2>7. Waited'
    BY <1>1, <1>2, <2>2, StillWaited
  <2> QED
    BY <1>2, <2>6, <2>7 DEF InLine
<1> QED
  BY <1>4, <1>5

\* A cancelled order: the engine releases it first.
LEMMA CancelInLine ==
    ASSUME GatewayTypeOK, GatewayTypeOK', InLine, NEW o \in Orders, CancelOrder(o)
    PROVE  InLine'
<1>0. order \in [Orders -> OrderState] /\ order' \in [Orders -> OrderState]
  BY TypeFacts, FiguresAfter
<1> DEFINE a == order[o].amount
           E == engine.total
           R == engine.reserved
           T == db.total
           L == db.locked
           U == Cancelled
<1>1. E \in Nat /\ R \in Nat /\ a \in Nat /\ Held \in Nat /\ Rest \in Nat /\ U \in Nat
      /\ Orphaned \in Nat /\ T \in Nat /\ L \in Nat /\ Available = E - R
  BY Figures, TypeFacts
<1>2. /\ order[o].status = "resting" /\ handler' = handler /\ db' = db
      /\ Marked(o, "unlocking") /\ engine' = [engine EXCEPT !.reserved = Less(R, a)]
  BY DEF CancelOrder, Marked
<1>3. /\ order'[o].status = "unlocking" /\ order'[o].amount = a
      /\ \A q \in Orders \ {o} : order'[q] = order[q]
  BY <1>0, <1>2, MarkedFacts
<1>4. a <= Rest /\ Rest' = Rest - a /\ Cancelled' = U + a /\ Held' = Held /\ Orphaned' = Orphaned
  BY <1>0, <1>2, <1>3, SumsMove
<1>5. Mirrored
  BY DEF InLine
<1>6. Less(R, a) = R - a /\ R = Held + Rest
  <2> HIDE DEF a
  <2> QED
    BY <1>1, <1>4, <1>5, LessFacts DEF Mirrored
<1>7. engine'.total = E /\ engine'.reserved = R - a
  BY <1>2, <1>6 DEF GatewayTypeOK
<1>8. Available' = Available + a
  <2>1. Available' = E - (R - a)
    BY <1>7 DEF Available
  <2> HIDE DEF a, E, R
  <2> QED
    BY <1>1, <2>1
<1>9. Mirrored'
  <2> HIDE DEF a
  <2> QED
    BY <1>1, <1>2, <1>4, <1>5, <1>7, <1>8 DEF Mirrored
<1>10. Waited'
  BY <1>2, <1>3, StillWaited DEF InLine
<1>11. ASSUME NEW k \in Handlers PROVE ReadFits(k)'
  <2> DEFINE r == Read(k)
             t == handler[k].total
             v == handler[k].avail
  <2>1. r \in Int /\ t \in Nat /\ v \in Int
    BY Figures DEF Read
  <2>2. Read(k)' = r /\ handler'[k] = handler[k]
    BY <1>2 DEF Read
  <2>3. ReadFits(k)
    BY DEF InLine
  <2>4. R = 0 => R - a = 0
    <3> HIDE DEF a, R
    <3> QED
      BY <1>1, <1>4, <1>6
  <2>5. CASE handler[k].pc = "locked"
    <3>1. t <= T /\ (R = 0 \/ Available <= t - L + U)
      BY <2>3, <2>5 DEF ReadFits, At
    <3>2. R - a = 0 \/ Available + a <= t - L + (U + a)
      <4> HIDE DEF a, t, L, R, E, U
      <4> QED
        BY <1>1, <2>1, <2>4, <3>1
    <3> QED
      BY <1>2, <1>4, <1>7, <1>8, <2>2, <2>5, <3>1, <3>2 DEF ReadFits, At
  <2>6. CASE handler[k].pc = "engine"
    <3>1. r <= T - L /\ (R = 0 \/ Available <= r + U)
      BY <2>3, <2>6 DEF ReadFits, At
    <3>2. R - a = 0 \/ Available + a <= r + (U + a)
      <4> HIDE DEF a, r, L, R, E, U
      <4> QED
        BY <1>1, <2>1, <2>4, <3>1
    <3> QED
      BY <1>2, <1>4, <1>7, <1>8, <2>2, <2>6, <3>1, <3>2 DEF ReadFits, At
  <2>7. CASE handler[k].pc = "adjust"
    <3>1. r <= T - L /\ 0 <= v /\ Available - v + r <= T - L + U /\ (R = 0 \/ v <= r)
      BY <2>3, <2>7 DEF ReadFits, At
    <3>2. (Available + a) - v + r <= T - L + (U + a) /\ (R - a = 0 \/ v <= r)
      <4> HIDE DEF a, r, v, T, L, R, E, U
      <4> QED
        BY <1>1, <2>1, <2>4, <3>1
    <3> QED
      BY <1>2, <1>4, <1>7, <1>8, <2>2, <2>7, <3>1, <3>2 DEF ReadFits, At
  <2>8. CASE handler[k].pc \notin {"locked", "engine", "adjust"}
    BY <2>2, <2>8, NothingRead
  <2> QED
    BY <2>5, <2>6, <2>7, <2>8
<1> QED
  BY <1>9, <1>10, <1>11 DEF InLine

\* And Postgres afterwards.
LEMMA UnlockInLine ==
    ASSUME GatewayTypeOK, GatewayTypeOK', InLine, NEW o \in Orders, EngineUnlocks(o), ~drifted'
    PROVE  InLine'
<1>0. order \in [Orders -> OrderState] /\ order' \in [Orders -> OrderState]
  BY TypeFacts, FiguresAfter
<1> DEFINE a == order[o].amount
           E == engine.total
           R == engine.reserved
           T == db.total
           L == db.locked
           U == Cancelled
<1>1. E \in Nat /\ R \in Nat /\ a \in Nat /\ Held \in Nat /\ Rest \in Nat /\ U \in Nat
      /\ Orphaned \in Nat /\ T \in Nat /\ L \in Nat /\ Available = E - R
  BY Figures, TypeFacts
<1>2. /\ order[o].status = "unlocking" /\ handler' = handler /\ engine' = engine
      /\ Marked(o, "done") /\ db' = [db EXCEPT !.locked = Less(L, a)]
      /\ ~SomeAt({"engine"})
  BY DEF EngineUnlocks, Marked
<1>3. /\ order'[o].status = "done" /\ order'[o].amount = a
      /\ \A q \in Orders \ {o} : order'[q] = order[q]
  BY <1>0, <1>2, MarkedFacts
<1>4. a <= U /\ Cancelled' = U - a /\ Rest' = Rest /\ Held' = Held /\ Orphaned' = Orphaned
  BY <1>0, <1>2, <1>3, SumsMove
<1>5. Mirrored
  BY DEF InLine
<1>6. Less(L, a) = L - a /\ L = Rest + U + Orphaned
  <2> HIDE DEF a
  <2> QED
    BY <1>1, <1>4, <1>5, LessFacts DEF Mirrored
<1>7. db'.total = T /\ db'.locked = L - a
  BY <1>2, <1>6 DEF GatewayTypeOK
<1>8. Available' = Available
  BY <1>2 DEF Available
<1>9. Mirrored'
  <2> HIDE DEF a
  <2> QED
    BY <1>1, <1>2, <1>4, <1>5, <1>7, <1>8 DEF Mirrored
<1>10. Waited'
  BY <1>2, <1>3, StillWaited DEF InLine
<1>11. ASSUME NEW k \in Handlers PROVE ReadFits(k)'
  <2> DEFINE r == Read(k)
             t == handler[k].total
             v == handler[k].avail
  <2>1. r \in Int /\ t \in Nat /\ v \in Int
    BY Figures DEF Read
  <2>2. Read(k)' = r /\ handler'[k] = handler[k]
    BY <1>2 DEF Read
  <2>3. ReadFits(k)
    BY DEF InLine
  <2>4. handler[k].pc # "engine"
    BY <1>2 DEF SomeAt
  <2>5. CASE handler[k].pc = "locked"
    <3>1. t <= T /\ (R = 0 \/ Available <= t - L + U)
      BY <2>3, <2>5 DEF ReadFits, At
    <3>2. R = 0 \/ Available <= t - (L - a) + (U - a)
      <4> HIDE DEF a, t, L, R, E, U
      <4> QED
        BY <1>1, <2>1, <3>1
    <3> QED
      BY <1>2, <1>4, <1>7, <1>8, <2>2, <2>5, <3>1, <3>2 DEF ReadFits, At
  <2>7. CASE handler[k].pc = "adjust"
    <3>1. r <= T - L /\ 0 <= v /\ Available - v + r <= T - L + U /\ (R = 0 \/ v <= r)
      BY <2>3, <2>7 DEF ReadFits, At
    <3>2. r <= T - (L - a) /\ Available - v + r <= T - (L - a) + (U - a)
      <4> HIDE DEF a, r, v, T, L, R, E, U
      <4> QED
        BY <1>1, <2>1, <3>1
    <3> QED
      BY <1>2, <1>4, <1>7, <1>8, <2>2, <2>7, <3>1, <3>2 DEF ReadFits, At
  <2>8. CASE handler[k].pc \notin {"locked", "engine", "adjust"}
    BY <2>2, <2>8, NothingRead
  <2> QED
    BY <2>4, <2>5, <2>7, <2>8
<1> QED
  BY <1>9, <1>10, <1>11 DEF InLine

\* A fill takes its amount and its lock from both ledgers.
LEMMA FillInLine ==
    ASSUME GatewayTypeOK, GatewayTypeOK', InLine, NEW o \in Orders, Fill(o), ~drifted'
    PROVE  InLine'
<1>0. order \in [Orders -> OrderState] /\ order' \in [Orders -> OrderState]
  BY TypeFacts, FiguresAfter
<1> DEFINE a == order[o].amount
           E == engine.total
           R == engine.reserved
           T == db.total
           L == db.locked
           U == Cancelled
<1>1. E \in Nat /\ R \in Nat /\ a \in Nat /\ Held \in Nat /\ Rest \in Nat /\ U \in Nat
      /\ Orphaned \in Nat /\ T \in Nat /\ L \in Nat /\ Available = E - R /\ engine \in Ledgers
  BY Figures, TypeFacts
<1>2. /\ order[o].status = "resting" /\ handler' = handler /\ engine' = Debited(engine, a)
      /\ Marked(o, "done") /\ db' = [total |-> T - a, locked |-> L - a]
      /\ ~SomeAt({"locked"})
  BY DEF Fill, Marked
<1>3. /\ order'[o].status = "done" /\ order'[o].amount = a
      /\ \A q \in Orders \ {o} : order'[q] = order[q]
  BY <1>0, <1>2, MarkedFacts
<1>4. a <= Rest /\ Rest' = Rest - a /\ Cancelled' = U /\ Held' = Held /\ Orphaned' = Orphaned
  BY <1>0, <1>2, <1>3, SumsMove
<1>5. Mirrored
  BY DEF InLine
<1>6. Less(R, a) = R - a /\ Less(E, a) = E - a /\ R = Held + Rest
  <2>1. R = Held + Rest /\ R <= E
    BY <1>5 DEF Mirrored
  <2> HIDE DEF a, R, E
  <2>2. a <= R /\ a <= E
    BY <1>1, <1>4, <2>1
  <2> QED
    BY <1>1, <2>1, <2>2, LessFacts
<1>7. engine'.total = E - a /\ engine'.reserved = R - a /\ db'.total = T - a /\ db'.locked = L - a
  <2>1. Debited(engine, a).total = Less(E, a) /\ Debited(engine, a).reserved = Less(R, a)
    BY <1>1, EngineTypes
  <2> QED
    BY <1>2, <1>6, <2>1
<1>8. Available' = Available
  <2>1. Available' = (E - a) - (R - a)
    BY <1>7 DEF Available
  <2> HIDE DEF a, E, R
  <2> QED
    BY <1>1, <2>1
<1>9. Mirrored'
  <2> HIDE DEF a
  <2> QED
    BY <1>1, <1>4, <1>5, <1>7, <1>8 DEF Mirrored
<1>10. Waited'
  BY <1>2, <1>3, StillWaited DEF InLine
<1>11. ASSUME NEW k \in Handlers PROVE ReadFits(k)'
  <2> DEFINE r == Read(k)
             v == handler[k].avail
  <2>1. r \in Int /\ v \in Int
    BY Figures DEF Read
  <2>2. Read(k)' = r /\ handler'[k] = handler[k]
    BY <1>2 DEF Read
  <2>3. ReadFits(k)
    BY DEF InLine
  <2>4. handler[k].pc # "locked"
    BY <1>2 DEF SomeAt
  <2>5. (T - a) - (L - a) = T - L /\ (R = 0 => R - a = 0)
    <3> HIDE DEF a, T, L, R
    <3> QED
      BY <1>1, <1>4, <1>6
  <2>6. CASE handler[k].pc = "engine"
    <3>1. r <= T - L /\ (R = 0 \/ Available <= r + U)
      BY <2>3, <2>6 DEF ReadFits, At
    <3> HIDE DEF a, r, T, L, R, E, U
    <3> QED
      BY <1>4, <1>7, <1>8, <2>2, <2>5, <2>6, <3>1 DEF ReadFits, At
  <2>7. CASE handler[k].pc = "adjust"
    <3>1. r <= T - L /\ 0 <= v /\ Available - v + r <= T - L + U /\ (R = 0 \/ v <= r)
      BY <2>3, <2>7 DEF ReadFits, At
    <3>2. handler'[k].avail = v
      BY <2>2
    <3> HIDE DEF a, r, v, T, L, R, E, U
    <3> QED
      BY <1>4, <1>7, <1>8, <2>2, <2>5, <2>7, <3>1, <3>2 DEF ReadFits, At
  <2>8. CASE handler[k].pc \notin {"locked", "engine", "adjust"}
    BY <2>2, <2>8, NothingRead
  <2> QED
    BY <2>4, <2>6, <2>7, <2>8
<1> QED
  BY <1>9, <1>10, <1>11 DEF InLine

\* Money that arrives gives Postgres more than the engine knows of.
LEMMA ReceiveInLine ==
    ASSUME GatewayTypeOK, GatewayTypeOK', InLine, NEW n \in Amounts, Received(n) \/ Deposited(n)
    PROVE  InLine'
<1> DEFINE E == engine.total
           R == engine.reserved
           T == db.total
           L == db.locked
           U == Cancelled
<1>1. E \in Nat /\ R \in Nat /\ n \in Nat /\ Held \in Nat /\ Rest \in Nat /\ U \in Nat
      /\ Orphaned \in Nat /\ T \in Nat /\ L \in Nat /\ Available = E - R
  BY Figures, TypeFacts
<1>2. UNCHANGED <<engine, order, handler>> /\ db' = [db EXCEPT !.total = T + n]
  BY DEF Received, Deposited, Moved
<1>3. db'.total = T + n /\ db'.locked = L
  BY <1>2 DEF GatewayTypeOK
<1>4. Available' = Available /\ Held' = Held /\ Rest' = Rest /\ Cancelled' = U /\ Orphaned' = Orphaned
  BY <1>2, SumsStay DEF Available
<1>5. Mirrored'
  <2>1. Mirrored
    BY DEF InLine
  <2> QED
    BY <1>1, <1>2, <1>3, <1>4, <2>1 DEF Mirrored
<1>6. Waited'
  BY <1>2 DEF InLine, Waited, At
<1>7. ASSUME NEW k \in Handlers PROVE ReadFits(k)'
  <2> DEFINE r == Read(k)
             t == handler[k].total
             v == handler[k].avail
  <2>1. r \in Int /\ t \in Nat /\ v \in Int
    BY Figures DEF Read
  <2>2. Read(k)' = r /\ handler'[k] = handler[k] /\ engine' = engine
    BY <1>2 DEF Read
  <2>3. ReadFits(k)
    BY DEF InLine
  <2>4. /\ t <= T => t <= T + n
        /\ r <= T - L => r <= (T + n) - L
        /\ Available - v + r <= T - L + U => Available - v + r <= (T + n) - L + U
    <3> HIDE DEF t, r, v, T, L, E, R, U
    <3> QED
      BY <1>1, <2>1
  <2>5. CASE handler[k].pc = "locked"
    <3>1. t <= T /\ (R = 0 \/ Available <= t - L + U)
      BY <2>3, <2>5 DEF ReadFits, At
    <3> QED
      BY <1>3, <1>4, <2>2, <2>4, <2>5, <3>1 DEF ReadFits, At
  <2>6. CASE handler[k].pc = "engine"
    <3>1. r <= T - L /\ (R = 0 \/ Available <= r + U)
      BY <2>3, <2>6 DEF ReadFits, At
    <3> HIDE DEF r
    <3> QED
      BY <1>3, <1>4, <2>2, <2>4, <2>6, <3>1 DEF ReadFits, At
  <2>7. CASE handler[k].pc = "adjust"
    <3>1. r <= T - L /\ 0 <= v /\ Available - v + r <= T - L + U /\ (R = 0 \/ v <= r)
      BY <2>3, <2>7 DEF ReadFits, At
    <3> HIDE DEF r
    <3> QED
      BY <1>3, <1>4, <2>2, <2>4, <2>7, <3>1 DEF ReadFits, At
  <2>8. CASE handler[k].pc \notin {"locked", "engine", "adjust"}
    BY <2>2, <2>8, NothingRead
  <2> QED
    BY <2>5, <2>6, <2>7, <2>8
<1> QED
  BY <1>5, <1>6, <1>7 DEF InLine

\* Where the engine has reserved nothing, a reconciliation has nothing to lose,
\* and what it read fits as long as Postgres has no less to give.
LEMMA FitsWithoutReservation ==
    ASSUME GatewayTypeOK, GatewayTypeOK', NEW k \in Handlers, ReadFits(k), handler' = handler,
           engine'.reserved = 0, db' = db,
           At(k, "adjust") => Available' - handler[k].avail + Read(k)
                                <= db.total - db.locked + Cancelled'
    PROVE  ReadFits(k)'
<1>1. Read(k)' = Read(k) /\ \A pc : At(k, pc)' <=> At(k, pc)
  BY DEF Read, At
<1> QED
  BY <1>1 DEF ReadFits

\* A restart: the engine has nothing left to give, and the locks of the orders
\* it forgets are orphaned.
LEMMA RestartInLine ==
    ASSUME GatewayTypeOK, GatewayTypeOK', InLine, EngineRestart
    PROVE  InLine'
<1> DEFINE T == db.total
           L == db.locked
           U == Cancelled
<1>0. order \in [Orders -> OrderState] /\ order' \in [Orders -> OrderState]
  BY TypeFacts, FiguresAfter
<1>1. T \in Nat /\ L \in Nat /\ Held \in Nat /\ Rest \in Nat /\ U \in Nat /\ Orphaned \in Nat
  BY Figures
<1>2. handler' = handler /\ db' = db /\ engine'.total = 0 /\ engine'.reserved = 0
      /\ Available' = 0
  BY DEF EngineRestart, Available
<1>3. \A o \in Orders :
         /\ order[o].status \in {"resting", "unlocking"} => order'[o].status = "lost"
         /\ order[o].status \in {"sent", "reserved"} => order'[o].status = "done"
         /\ order[o].status \in {"none", "lost", "done"} => order'[o].status = order[o].status
         /\ order'[o].amount = order[o].amount
  <2> SUFFICES ASSUME NEW o \in Orders
               PROVE  /\ order[o].status \in {"resting", "unlocking"} => order'[o].status = "lost"
                      /\ order[o].status \in {"sent", "reserved"} => order'[o].status = "done"
                      /\ order[o].status \in {"none", "lost", "done"} =>
                            order'[o].status = order[o].status
                      /\ order'[o].amount = order[o].amount
    OBVIOUS
  <2> DEFINE s == CASE order[o].status \in {"resting", "unlocking"} -> "lost"
                    [] order[o].status \in {"sent", "reserved"} -> "done"
                    [] OTHER -> order[o].status
  <2>1. order'[o] = [order[o] EXCEPT !.status = s]
    BY DEF EngineRestart
  <2>2. order[o] \in OrderState
    BY <1>0
  <2>3. order'[o].status = s /\ order'[o].amount = order[o].amount
    <3> HIDE DEF s
    <3> QED
      BY <2>1, <2>2 DEF OrderState
  <2> QED
    BY <2>3
<1>4. \A o \in Orders : order'[o].status \notin {"sent", "reserved", "resting", "unlocking"}
  BY <1>0, <1>3 DEF OrderState
<1>5. Held' = 0 /\ Rest' = 0 /\ Cancelled' = 0
  <2>1. ASSUME NEW S, \A o \in Orders : order'[o].status \notin S
        PROVE  InStatus(S)' = 0
    <3>1. [o \in Orders |-> Share(order'[o], S)] = [o \in Orders |-> 0]
      BY <2>1 DEF Share
    <3> QED
      BY <3>1, InStatusTotal, TotalOfZeros
  <2> QED
    BY <1>4, <2>1 DEF Held, Rest, Cancelled
<1>6. Orphaned' = Rest + U + Orphaned
  <2> DEFINE M == {"resting", "unlocking", "lost"}
  <2>1. Orphaned' = InStatus(M)
    <3>1. ASSUME NEW o \in Orders PROVE Share(order'[o], {"lost"}) = Share(order[o], M)
      <4>1. order[o] \in OrderState
        BY <1>0
      <4> QED
        BY <1>3, <4>1 DEF Share, OrderState
    <3>2. [o \in Orders |-> Share(order'[o], {"lost"})] = [o \in Orders |-> Share(order[o], M)]
      BY <3>1
    <3> QED
      BY <3>2, InStatusTotal DEF Orphaned
  <2>2. InStatus({"resting"} \cup {"unlocking"}) = Rest + U
    BY <1>0, InStatusUnion DEF Rest, Cancelled
  <2>3. InStatus(({"resting"} \cup {"unlocking"}) \cup {"lost"})
          = InStatus({"resting"} \cup {"unlocking"}) + Orphaned
    BY <1>0, InStatusUnion DEF Orphaned
  <2>4. ({"resting"} \cup {"unlocking"}) \cup {"lost"} = M
    OBVIOUS
  <2> HIDE DEF M
  <2> QED
    BY <2>1, <2>2, <2>3, <2>4
<1>7. L = Rest + U + Orphaned /\ L <= T
  BY DEF InLine, Mirrored
<1>8. Mirrored'
  <2> HIDE DEF U
  <2> QED
    BY <1>1, <1>2, <1>5, <1>6, <1>7 DEF Mirrored
<1>9. Waited'
  BY <1>4 DEF Waited
<1>10. ASSUME NEW k \in Handlers PROVE ReadFits(k)'
  <2> DEFINE r == Read(k)
             v == handler[k].avail
  <2>1. r \in Int /\ v \in Int
    BY Figures DEF Read
  <2>2. At(k, "adjust") => Available' - v + r <= T - L + Cancelled'
    <3> SUFFICES ASSUME At(k, "adjust") PROVE 0 - v + r <= T - L + 0
      BY <1>2, <1>5
    <3>1. 0 <= v /\ r <= T - L
      BY DEF InLine, ReadFits
    <3> HIDE DEF r, v, T, L
    <3> QED
      BY <1>1, <2>1, <3>1
  <2>3. ReadFits(k)
    BY DEF InLine
  <2> QED
    BY <1>2, <2>2, <2>3, FitsWithoutReservation
<1> QED
  BY <1>8, <1>9, <1>10 DEF InLine

\* The backfill credits an engine that has nothing with what Postgres has to
\* give.
LEMMA BackfillInLine ==
    ASSUME GatewayTypeOK, GatewayTypeOK', InLine, BackfillReads \/ BackfillCredits, ~drifted'
    PROVE  InLine'
<1>1. UNCHANGED <<db, order, handler>>
  BY DEF BackfillReads, BackfillCredits
<1>2. Waited'
  BY <1>1 DEF InLine, Waited, At
<1>3. CASE UNCHANGED engine
  <2>1. Mirrored'
    BY <1>1, <1>3, MirrorStays DEF InLine
  <2>2. \A k \in Handlers : ReadFits(k)'
    BY <1>1, <1>3, ReadStaysFit DEF InLine
  <2> QED
    BY <1>2, <2>1, <2>2 DEF InLine
<1>4. CASE BackfillCredits /\ engine' # engine
  <2> DEFINE T == db.total
             L == db.locked
             b == upkeep.read.amount
  <2>1. /\ engine' = Credited(engine, b) /\ ~(b > Spendable) /\ ~(engine.total > 0)
        /\ ~SomeAt({"adjust"})
    BY <1>4 DEF BackfillCredits
  <2>2. T \in Nat /\ L \in Nat /\ b \in Nat /\ engine \in Ledgers /\ engine.total \in Nat
        /\ engine.reserved \in Nat /\ Held \in Nat /\ Rest \in Nat /\ Cancelled \in Nat
        /\ Spendable \in Nat
    <3>1. b \in Nat
      BY DEF GatewayTypeOK
    <3>2. T \in Nat /\ L \in Nat /\ engine \in Ledgers /\ engine.total \in Nat
          /\ engine.reserved \in Nat /\ Held \in Nat /\ Rest \in Nat /\ Cancelled \in Nat
      BY Figures, TypeFacts
    <3> QED
      BY <3>1, <3>2, LessFacts DEF Spendable
  <2>3. Mirrored
    BY DEF InLine
  <2>4. engine.total = 0 /\ engine.reserved = 0 /\ Held = 0 /\ Rest = 0
    BY <2>1, <2>2, <2>3 DEF Mirrored
  <2>5. b <= T - L
    <3>1. Spendable = T - L
      BY <2>2, <2>3, LessFacts DEF Spendable, Mirrored
    <3> HIDE DEF b, T, L
    <3> QED
      BY <2>1, <2>2, <3>1
  <2>6. engine'.total = b /\ engine'.reserved = 0 /\ Available' = b
    <3>1. Credited(engine, b).total = engine.total + b
          /\ Credited(engine, b).reserved = engine.reserved
      BY <2>2, EngineTypes
    <3>2. engine'.total = 0 + b /\ engine'.reserved = 0
      BY <2>1, <2>4, <3>1
    <3> HIDE DEF b
    <3> QED
      BY <2>2, <3>2 DEF Available
  <2>7. Mirrored'
    <3>1. Held' = Held /\ Rest' = Rest /\ Cancelled' = Cancelled /\ Orphaned' = Orphaned
      BY <1>1, SumsStay
    <3> HIDE DEF b
    <3> QED
      BY <1>1, <2>2, <2>3, <2>4, <2>5, <2>6, <3>1 DEF Mirrored
  <2>8. ASSUME NEW k \in Handlers PROVE ReadFits(k)'
    <3>1. ~At(k, "adjust") /\ ReadFits(k)
      BY <2>1 DEF SomeAt, At, InLine
    <3> QED
      BY <1>1, <2>6, <3>1, FitsWithoutReservation
  <2> QED
    BY <1>2, <2>7, <2>8 DEF InLine
<1>5. BackfillReads => UNCHANGED engine
  BY DEF BackfillReads
<1> QED
  BY <1>3, <1>4, <1>5

\* Releasing the locks, where all of them are orphaned.
LEMMA ReleaseInLine ==
    ASSUME GatewayTypeOK, GatewayTypeOK', InLine, ReleaseLocks, ~drifted'
    PROVE  InLine'
<1> DEFINE T == db.total
           L == db.locked
           E == engine.total
           R == engine.reserved
<1>0. order \in [Orders -> OrderState] /\ order' \in [Orders -> OrderState]
  BY TypeFacts, FiguresAfter
<1>1. T \in Nat /\ L \in Nat /\ E \in Nat /\ R \in Nat /\ Held \in Nat /\ Rest \in Nat
      /\ Cancelled \in Nat /\ Orphaned \in Nat /\ Available = E - R
  BY Figures
<1>2. handler' = handler /\ engine' = engine /\ db' = [db EXCEPT !.locked = 0]
      /\ ~(InStatus({"resting", "unlocking"}) > 0) /\ ~SomeAt({"engine", "adjust"})
  BY DEF ReleaseLocks
<1>3. db'.total = T /\ db'.locked = 0 /\ Available' = Available
  BY <1>2 DEF GatewayTypeOK, Available
<1>4. Rest = 0 /\ Cancelled = 0
  <2>1. InStatus({"resting"} \cup {"unlocking"}) = Rest + Cancelled
    BY <1>0, InStatusUnion DEF Rest, Cancelled
  <2>2. {"resting"} \cup {"unlocking"} = {"resting", "unlocking"}
    OBVIOUS
  <2>3. ~(Rest + Cancelled > 0)
    BY <1>2, <2>1, <2>2
  <2> QED
    BY <1>1, <2>3
<1>5. \A o \in Orders :
         /\ order[o].status = "lost" => order'[o].status = "done"
         /\ order[o].status # "lost" => order'[o].status = order[o].status
         /\ order'[o].amount = order[o].amount
  <2> SUFFICES ASSUME NEW o \in Orders
               PROVE  /\ order[o].status = "lost" => order'[o].status = "done"
                      /\ order[o].status # "lost" => order'[o].status = order[o].status
                      /\ order'[o].amount = order[o].amount
    OBVIOUS
  <2> DEFINE s == IF order[o].status = "lost" THEN "done" ELSE order[o].status
  <2>1. order'[o] = [order[o] EXCEPT !.status = s]
    BY DEF ReleaseLocks
  <2>2. order[o] \in OrderState
    BY <1>0
  <2>3. order'[o].status = s /\ order'[o].amount = order[o].amount
    <3> HIDE DEF s
    <3> QED
      BY <2>1, <2>2 DEF OrderState
  <2> QED
    BY <2>3
<1>6. ASSUME NEW s, s \notin {"lost", "done"} PROVE InStatus({s})' = InStatus({s})
  <2>1. \A o \in Orders : Share(order'[o], {s}) = Share(order[o], {s})
    BY <1>5, <1>6 DEF Share
  <2>2. [o \in Orders |-> Share(order'[o], {s})] = [o \in Orders |-> Share(order[o], {s})]
    BY <2>1
  <2> QED
    BY <2>2, InStatusTotal
<1>7. Held' = Held /\ Rest' = Rest /\ Cancelled' = Cancelled
  BY <1>6 DEF Held, Rest, Cancelled
<1>8. Orphaned' = 0
  <2>1. \A o \in Orders : order'[o].status # "lost"
    BY <1>5
  <2>2. [o \in Orders |-> Share(order'[o], {"lost"})] = [o \in Orders |-> 0]
    BY <2>1 DEF Share
  <2> QED
    BY <2>2, InStatusTotal, TotalOfZeros DEF Orphaned
<1>9. Mirrored
  BY DEF InLine
<1>10. Mirrored'
  BY <1>1, <1>2, <1>3, <1>4, <1>7, <1>8, <1>9 DEF Mirrored
<1>11. Waited'
  <2>1. \A o \in Orders : order'[o].status \in {"sent", "reserved"} =>
           order[o].status \in {"sent", "reserved"}
    BY <1>5
  <2> QED
    BY <1>2, <2>1 DEF InLine, Waited, At
<1>12. ASSUME NEW k \in Handlers PROVE ReadFits(k)'
  <2> DEFINE t == handler[k].total
  <2>1. t \in Nat /\ handler[k].pc \notin {"engine", "adjust"} /\ ReadFits(k)
    BY <1>2, Figures DEF SomeAt, InLine
  <2>2. CASE handler[k].pc = "locked"
    <3>1. t <= T /\ (R = 0 \/ Available <= t - L + 0)
      BY <1>4, <2>1, <2>2 DEF ReadFits, At
    <3>2. R = 0 \/ Available <= t - 0 + 0
      <4> HIDE DEF t, T, L, E, R
      <4> QED
        BY <1>1, <2>1, <3>1
    <3> QED
      BY <1>2, <1>3, <1>4, <1>7, <2>2, <3>1, <3>2 DEF ReadFits, At
  <2>3. CASE handler[k].pc # "locked"
    BY <1>2, <2>1, <2>3, NothingRead
  <2> QED
    BY <2>2, <2>3
<1> QED
  BY <1>10, <1>11, <1>12 DEF InLine

-----------------------------------------------------------------------------
(* The invariant.                                                          *)

\* Nothing but an undisturbed reconciliation brings a mirror that has drifted
\* back in line.
LEMMA StaysDrifted ==
    ASSUME drifted, GatewayNext, ~drifted'
    PROVE  \E h \in Handlers : Adjust(h)
BY DEF GatewayNext, SerialStep, HandlerStep, EngineStep, TimeoutStep, CancelStep, FillStep,
       PushStep, PaymentStep, RestartStep, Request, AcquireSlot, TurnedAway, ReadTotal,
       ReadLocked, ReadEngine, GiveUp, Submit, Reply, Timeout, EngineAccepts, EngineLocks,
       CancelOrder, EngineUnlocks, Fill, Received, Deposited, Spent, PaidOut, AdminDebit,
       PushLands, EngineRestart, BackfillReads, BackfillCredits, ReleaseLocks

\* Payments out and pushes that land are not guarded by the slot.
LEMMA Unguarded ==
    ASSUME PaymentStep \/ \E p \in pushes : PushLands(p)
    PROVE  drifted'
BY DEF PaymentStep, Spent, PaidOut, AdminDebit, PushLands

\* Every step keeps the slot with one handler.
LEMMA StepServed ==
    ASSUME GatewayTypeOK, OneServed, GatewayNext
    PROVE  OneServed'
<1>1. CASE \E h \in Handlers : Request(h) \/ HandlerStep(h) \/ Timeout(h)
  BY <1>1, HandlerServed
<1>2. CASE UNCHANGED <<handler, slot>>
  BY <1>2, OthersServed
<1>3. \/ \E h \in Handlers : Request(h) \/ HandlerStep(h) \/ Timeout(h)
      \/ UNCHANGED <<handler, slot>>
  <2>1. CASE SerialStep \/ TimeoutStep
    BY <2>1 DEF SerialStep, TimeoutStep, EngineStep, EngineAccepts, EngineLocks, Received, Moved
  <2>2. CASE CancelStep \/ FillStep \/ PushStep \/ PaymentStep \/ RestartStep
    BY <2>2 DEF CancelStep, FillStep, PushStep, PaymentStep, RestartStep, CancelOrder,
                EngineUnlocks, Fill, Deposited, Spent, PaidOut, AdminDebit, Moved, PushLands,
                EngineRestart, BackfillReads, BackfillCredits, ReleaseLocks
  <2> QED
    BY <2>1, <2>2 DEF GatewayNext
<1> QED
  BY <1>1, <1>2, <1>3

\* Every step keeps the mirror in line unless it says otherwise.
LEMMA StepInLine ==
    ASSUME GatewayTypeOK, GatewayTypeOK', GatewayInv, GatewayNext, ~drifted'
    PROVE  InLine'
<1>1. OneServed /\ (drifted \/ InLine)
  BY DEF GatewayInv
<1>2. CASE \E h \in Handlers : Adjust(h)
  BY <1>1, <1>2, AdjustInLine
<1>3. CASE InLine
  <2>1. CASE \E h \in Handlers : \/ Request(h) \/ AcquireSlot(h) \/ TurnedAway(h)
                                 \/ GiveUp(h) \/ Reply(h) \/ Timeout(h)
    BY <1>1, <1>3, <2>1, PassingInLine
  <2>2. CASE \E h \in Handlers : ReadTotal(h) \/ ReadLocked(h) \/ ReadEngine(h)
    BY <1>1, <1>3, <2>2, ReadInLine
  <2>3. CASE \E h \in Handlers : Adjust(h)
    BY <1>2, <2>3
  <2>4. CASE \E h \in Handlers, o \in Orders, n \in Amounts : Submit(h, o, n)
    BY <1>1, <1>3, <2>4, SubmitInLine
  <2>5. CASE EngineStep
    BY <1>1, <1>3, <2>5, AcceptInLine, LockInLine DEF EngineStep
  <2>6. CASE CancelStep
    BY <1>3, <2>6, CancelInLine, UnlockInLine DEF CancelStep
  <2>7. CASE FillStep
    BY <1>3, <2>7, FillInLine DEF FillStep
  <2>8. CASE \E n \in Amounts : Received(n) \/ Deposited(n)
    BY <1>3, <2>8, ReceiveInLine
  <2>9. CASE RestartStep
    BY <1>3, <2>9, RestartInLine, BackfillInLine, ReleaseInLine DEF RestartStep
  <2>10. CASE PaymentStep \/ \E p \in pushes : PushLands(p)
    BY <2>10, Unguarded
  <2>11. CASE SerialStep
    BY <2>1, <2>2, <2>3, <2>4, <2>5, <2>8, <2>11 DEF SerialStep, HandlerStep
  <2>12. CASE TimeoutStep
    BY <2>1, <2>12 DEF TimeoutStep
  <2>13. CASE PushStep
    BY <2>8, <2>10, <2>13 DEF PushStep
  <2> QED
    BY <2>6, <2>7, <2>9, <2>10, <2>11, <2>12, <2>13 DEF GatewayNext
<1>4. CASE drifted
  BY <1>2, <1>4, StaysDrifted
<1> QED
  BY <1>1, <1>3, <1>4

\* The invariant is inductive.
LEMMA StepGatewayInv == GatewayTypeOK /\ GatewayTypeOK' /\ GatewayInv /\ [GatewayNext]_gateway
                          => GatewayInv'
<1> SUFFICES ASSUME GatewayTypeOK, GatewayTypeOK', GatewayInv, [GatewayNext]_gateway
             PROVE  GatewayInv'
  OBVIOUS
<1>1. CASE GatewayNext
  <2>1. OneServed'
    BY <1>1, StepServed DEF GatewayInv
  <2>2. drifted' \/ InLine'
    BY <1>1, StepInLine
  <2> QED
    BY <2>1, <2>2 DEF GatewayInv
<1>2. CASE UNCHANGED gateway
  <2>1. UNCHANGED <<db, engine, order, handler, slot, drifted>>
    BY <1>2 DEF gateway
  <2>2. OneServed' <=> OneServed
    BY <2>1 DEF OneServed
  <2>3. InLine => InLine'
    BY <2>1, MirrorStays, ReadStaysFit DEF InLine, Waited, At
  <2> QED
    BY <2>1, <2>2, <2>3 DEF GatewayInv
<1> QED
  BY <1>1, <1>2

\* At the start there are no orders, and the engine has at most the balance.
LEMMA InitGatewayInv == GatewayInit => GatewayInv
<1> SUFFICES ASSUME GatewayInit PROVE GatewayInv
  OBVIOUS
<1>1. GatewayTypeOK
  BY InitGatewayTypes
<1>2. /\ \A h \in Handlers : handler[h].pc = "idle"
      /\ \A o \in Orders : order[o].status = "none"
  BY DEF GatewayInit, Idle
<1>3. Held = 0 /\ Rest = 0 /\ Cancelled = 0 /\ Orphaned = 0
  BY <1>1, <1>2, TypeFacts, InStatusZero DEF Held, Rest, Cancelled, Orphaned
<1>4. Mirrored
  <2>1. PICK n \in 0..InitTotal : engine = [total |-> n, reserved |-> 0]
    BY DEF GatewayInit
  <2>2. InitTotal \in Nat /\ db.total = InitTotal /\ db.locked = 0
        /\ engine.total = n /\ engine.reserved = 0
    BY <2>1, GatewayAssumption DEF GatewayInit
  <2> QED
    BY <1>3, <2>2 DEF Mirrored, Available
<1>5. \A h \in Handlers : ReadFits(h)
  BY <1>2 DEF ReadFits, At
<1>6. Waited /\ OneServed
  BY <1>2 DEF Waited, OneServed
<1> QED
  BY <1>4, <1>5, <1>6 DEF GatewayInv, InLine

\* Handlers that read, adjust, submit and wait under the account's slot keep
\* the engine's mirror in line with Postgres, from the start and again after
\* each undisturbed reconciliation, until something the slot does not guard
\* against happens.
THEOREM GatewayInvariant == GatewaySpec => []GatewayInv
BY InitGatewayTypes, StepGatewayTypes, InitGatewayInv, StepGatewayInv, PTL DEF GatewaySpec

\* The engine never takes for available what Postgres could not lock.
THEOREM NoPhantomCorrect == GatewaySpec => []NoPhantomFunds
<1>1. GatewayInv => NoPhantomFunds
  BY DEF GatewayInv, InLine, Mirrored, NoPhantomFunds, Lockable, Held, Cancelled
<1> QED
  BY <1>1, GatewayInvariant, PTL

\* Bringing the mirror in line never takes away what live orders have reserved,
\* and Postgres has locked just that and what a restart has orphaned.
THEOREM ReservationsStayLive == GatewaySpec => []ReservationsLive
<1>1. GatewayTypeOK /\ GatewayInv => ReservationsLive
  <2> SUFFICES ASSUME GatewayTypeOK, InLine PROVE ReservationsLive
    BY DEF GatewayInv, ReservationsLive
  <2>0. order \in [Orders -> OrderState]
    BY TypeFacts
  <2>1. InStatus({"reserved"} \cup {"resting"}) = Held + Rest
    BY <2>0, InStatusUnion DEF Held, Rest
  <2>2. InStatus({"resting"} \cup {"unlocking"}) = Rest + Cancelled
    BY <2>0, InStatusUnion DEF Rest, Cancelled
  <2>3. InStatus(({"resting"} \cup {"unlocking"}) \cup {"lost"})
          = InStatus({"resting"} \cup {"unlocking"}) + Orphaned
    BY <2>0, InStatusUnion DEF Orphaned
  <2>4. /\ {"reserved"} \cup {"resting"} = {"reserved", "resting"}
        /\ ({"resting"} \cup {"unlocking"}) \cup {"lost"} = {"resting", "unlocking", "lost"}
    OBVIOUS
  <2>5. engine.reserved = Held + Rest /\ db.locked = Rest + Cancelled + Orphaned
    BY DEF InLine, Mirrored
  <2> QED
    BY <2>1, <2>2, <2>3, <2>4, <2>5 DEF ReservationsLive
<1> QED
  BY <1>1, GatewayTypeCorrect, GatewayInvariant, PTL
=============================================================================
