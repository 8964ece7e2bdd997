----------------------- MODULE DepositListener_proofs -----------------------
(***************************************************************************)
(* Theorems about the deposit listener, for every set of accounts and of   *)
(* transactions, every length of the chain and every size of a range.      *)
(***************************************************************************)
EXTENDS DepositListener, Ledger_proofs

-----------------------------------------------------------------------------
(* The inductive invariant.                                                *)

\* The transaction of l has its entry, or l's failure was logged.
Handled(l) == ~Fresh(l.hash) \/ l \in missed

\* Deposits are only made in blocks that exist, and not by desks.
ChainRead ==
    \A l \in chain : l.block \in StartBlock..latest /\ l.account \in Accounts \ Desks

\* A poll works on the range at the durable cursor: while it does, every event
\* of the range is still to be handled or has been.
PollFits ==
    /\ poll.pc # "idle" => poll.from = ResumePoint /\ poll.from <= poll.latest
    /\ poll.pc \in {"idle", "filter"} => poll.log = {}
    /\ poll.pc \in {"logs", "create", "insert"} =>
         /\ poll.from <= poll.to
         /\ poll.log \subseteq poll.todo /\ poll.todo \subseteq chain
         /\ \A l \in chain : l.block \in poll.from..poll.to => l \in poll.todo \/ Handled(l)

ListenerTyped ==
    /\ ListenerTypeOK /\ RequestsPlaced
    /\ StartBlock - 1 <= latest /\ IsFiniteSet(deposits)

ListenerInv == ListenerTyped /\ ChainRead /\ PollFits /\ NoneSkippedSilently

\* Where the next poll begins.
LEMMA ResumeType ==
    ASSUME ListenerTyped
    PROVE  ResumePoint \in Nat /\ ResumePoint <= latest + 1
BY ListenerAssumption DEF ListenerTyped, ListenerTypeOK, ResumePoint

\* The end of a range is neither before its start nor after the newest block.
LEMMA ChunkEndType ==
    ASSUME NEW from \in Nat, NEW last \in Nat, from <= last
    PROVE  ChunkEnd(from, last) \in Nat /\ ChunkEnd(from, last) \in from..last
BY ListenerAssumption DEF ChunkEnd

\* What was handled stays handled.
LEMMA HandledStays ==
    ASSUME deposits \subseteq deposits', missed \subseteq missed', NEW l, Handled(l)
    PROVE  Handled(l)'
BY DEF Handled, Fresh

-----------------------------------------------------------------------------
(* The ledger under the listener.                                          *)

\* What the listener does to the ledger is a step of the ledger: it only
\* records deposits.
LEMMA RecordTypes ==
    ASSUME ListenerTyped, NEW l \in chain, RecordDeposit(l)
    PROVE  /\ TypeOK' /\ RequestsPlaced' /\ IsFiniteSet(deposits')
           /\ deposits \subseteq deposits' /\ Handled(l)'
<1>1. l \in Log /\ l.hash \in Hashes /\ l.account \in Accounts /\ l.amount \in Amounts
  BY DEF ListenerTyped, ListenerTypeOK, Log
<1>2. l.amount \in Nat /\ "BIUSD" \in Assets
  BY <1>1, LedgerAssumption, ListenerAssumption
<1>3. InsertDeposit(l.hash, l.account, l.amount)
  BY DEF RecordDeposit
<1>4. LedgerInv
  BY DEF ListenerTyped, ListenerTypeOK, LedgerInv
<1> DEFINE d == [hash |-> l.hash, account |-> l.account, amount |-> l.amount]
<1>5. d \in DepositRow /\ d.hash = l.hash
  BY <1>1 DEF DepositRow
<1>6. balance \in Column
  BY <1>4, Columns
<1>7. Add(balance, l.account, "BIUSD", l.amount) \in Column
  BY <1>1, <1>2, <1>6, AddColumn
<1> HIDE DEF d
<1>8. \/ /\ Fresh(l.hash) /\ deposits' = deposits \cup {d}
         /\ balance' = Add(balance, l.account, "BIUSD", l.amount)
      \/ ~Fresh(l.hash) /\ UNCHANGED <<deposits, balance>>
  BY <1>3 DEF InsertDeposit, d
<1>9. LedgerInv' /\ IsFiniteSet(deposits')
  <2>1. UNCHANGED <<request, locked>> /\ balance' \in Column /\ locked' \in Column
        /\ deposits' \subseteq DepositRow
    BY <1>3, <1>4, <1>5, <1>7, <1>8, Columns DEF InsertDeposit
  <2>2. IsFiniteSet(deposits \cup {d})
    BY FS_AddElement DEF ListenerTyped
  <2> QED
    BY <1>4, <1>8, <2>1, <2>2, MoneyTypes DEF ListenerTyped
<1>10. deposits \subseteq deposits' /\ Handled(l)'
  BY <1>5, <1>8 DEF Handled, Fresh
<1> QED
  BY <1>9, <1>10 DEF LedgerInv

\* What of the listener's types concerns the ledger and the users.
LEMMA LedgerKept ==
    ASSUME ListenerTyped, UNCHANGED ledger
    PROVE  /\ TypeOK' /\ RequestsPlaced' /\ IsFiniteSet(deposits')
           /\ deposits' = deposits
BY DEF ListenerTyped, ListenerTypeOK, ledger, TypeOK, RequestsPlaced

\* Steps that leave chain, cursor and ledger alone and log at most one failure.
LEMMA PollMoves ==
    ASSUME ListenerInv, UNCHANGED <<chain, latest, cursor>>,
           TypeOK', RequestsPlaced', IsFiniteSet(deposits'), deposits \subseteq deposits',
           missed \subseteq missed', missed' \subseteq chain,
           users' \subseteq Accounts, aborts' \in 0..MaxAborts,
           poll' \in PollState, poll'.latest <= latest, poll'.to <= poll'.latest,
           PollFits'
    PROVE  ListenerInv'
<1>1. ListenerTyped'
  BY DEF ListenerInv, ListenerTyped, ListenerTypeOK
<1>2. ChainRead'
  BY DEF ListenerInv, ChainRead
<1>3. NoneSkippedSilently'
  BY DEF ListenerInv, NoneSkippedSilently, ResumePoint, Fresh
<1> QED
  BY <1>1, <1>2, <1>3 DEF ListenerInv

\* A block is mined while a poll may be running: the poll's range ends before it.
LEMMA NewBlockKeeps == ListenerInv /\ NewBlock => ListenerInv'
<1> SUFFICES ASSUME ListenerInv, NewBlock PROVE ListenerInv'
  OBVIOUS
<1>1. /\ latest \in Nat /\ latest' = latest + 1 /\ UNCHANGED <<ledger, listenerState>>
      /\ chain \subseteq Log /\ ListenerTyped
  BY DEF ListenerInv, ListenerTyped, ListenerTypeOK, NewBlock
<1>2. /\ chain \subseteq chain' /\ chain' \subseteq Log
      /\ \A l \in chain' \ chain : l.block = latest + 1 /\ l.account \in Accounts \ Desks
  <2>1. CASE chain' = chain
    BY <1>1, <2>1
  <2>2. CASE chain' # chain
    <3> PICK h \in NewHashes, S \in SUBSET (Accounts \ Desks), n \in Amounts :
           chain' = chain \cup
             {[block |-> latest + 1, hash |-> h, account |-> a, amount |-> n] : a \in S}
      BY <2>2 DEF NewBlock
    <3>1. \A a \in S : [block |-> latest + 1, hash |-> h, account |-> a, amount |-> n] \in Log
      BY <1>1 DEF Log, NewHashes
    <3> QED
      BY <1>1, <3>1
  <2> QED
    BY <2>1, <2>2
<1>3. /\ TypeOK' /\ RequestsPlaced' /\ IsFiniteSet(deposits') /\ deposits' = deposits
      /\ UNCHANGED <<users, cursor, poll, missed, aborts>>
  BY <1>1, LedgerKept DEF listenerState
<1>4. ListenerTyped'
  <2>1. /\ poll \in PollState /\ poll.latest \in Nat /\ poll.latest <= latest
        /\ poll.to <= poll.latest /\ missed \subseteq chain /\ users \subseteq Accounts
        /\ cursor \in 0..(latest + 1) /\ aborts \in 0..MaxAborts
        /\ StartBlock - 1 <= latest /\ StartBlock \in Nat
    BY <1>1, ListenerAssumption DEF ListenerTyped, ListenerTypeOK, PollState
  <2>2. /\ poll.latest <= latest' /\ cursor \in 0..(latest' + 1) /\ StartBlock - 1 <= latest'
        /\ latest' \in Nat
    BY <1>1, <2>1
  <2>3. missed' \subseteq chain'
    BY <1>2, <1>3, <2>1
  <2> QED
    BY <1>2, <1>3, <2>1, <2>2, <2>3 DEF ListenerTyped, ListenerTypeOK
<1>5. ChainRead'
  BY <1>1, <1>2, ListenerAssumption DEF ListenerInv, ChainRead, ListenerTyped
<1>6. ResumePoint' = ResumePoint /\ ResumePoint \in Nat /\ ResumePoint <= latest + 1
  BY <1>1, <1>3, ResumeType DEF ResumePoint
<1>7. NoneSkippedSilently'
  <2> SUFFICES ASSUME NEW l \in chain', l.block < ResumePoint
               PROVE  ~Fresh(l.hash)' \/ l \in missed'
    BY <1>6 DEF NoneSkippedSilently
  <2>1. l \in chain
    BY <1>1, <1>2, <1>6
  <2> QED
    BY <1>3, <2>1 DEF ListenerInv, NoneSkippedSilently, Fresh
<1>8. PollFits'
  <2>1. /\ poll.to \in Nat /\ poll.to <= latest /\ poll.from \in Nat
    BY DEF ListenerInv, ListenerTyped, ListenerTypeOK, PollState
  <2>2. \A l \in chain' : l.block \in poll.from..poll.to => l \in chain
    BY <1>1, <1>2, <2>1
  <2>3. \A l : Handled(l)' <=> Handled(l)
    BY <1>3 DEF Handled, Fresh
  <2> QED
    BY <1>2, <1>3, <1>6, <2>2, <2>3 DEF ListenerInv, PollFits
<1> QED
  BY <1>4, <1>5, <1>7, <1>8 DEF ListenerInv

\* What the invariant says of the poll, with its types.
LEMMA PollFacts ==
    ASSUME ListenerInv
    PROVE  /\ poll \in PollState /\ poll.latest <= latest /\ poll.to <= poll.latest
           /\ poll.from \in Nat /\ poll.to \in Nat /\ poll.latest \in Nat
           /\ chain \subseteq Log /\ latest \in Nat /\ missed \subseteq chain
           /\ users \subseteq Accounts /\ aborts \in 0..MaxAborts
           /\ cursor \in 0..(latest + 1) /\ cursor \in Nat
           /\ ListenerTyped
<1>1. poll \in PollState /\ chain \subseteq Log /\ latest \in Nat /\ cursor \in 0..(latest + 1)
  BY DEF ListenerInv, ListenerTyped, ListenerTypeOK
<1>2. poll.from \in Nat /\ poll.to \in Nat /\ poll.latest \in Nat
  BY <1>1 DEF PollState
<1> QED
  BY <1>1, <1>2 DEF ListenerInv, ListenerTyped, ListenerTypeOK

\* A login or a poll that begins or is cut short.
LEMMA QuietSteps ==
    ASSUME ListenerInv, (\E a \in Accounts : Login(a)) \/ StartPoll \/ Abort
    PROVE  ListenerInv'
<1>1. /\ ListenerTyped /\ UNCHANGED <<ledger, chain, latest, cursor, missed>>
      /\ missed \subseteq chain
  BY PollFacts DEF Login, StartPoll, Abort
<1>2. TypeOK' /\ RequestsPlaced' /\ IsFiniteSet(deposits') /\ deposits' = deposits
  BY <1>1, LedgerKept
<1>3. \A l : Handled(l)' <=> Handled(l)
  BY <1>1, <1>2 DEF Handled, Fresh
<1>4. ResumePoint' = ResumePoint /\ ResumePoint \in Nat
  BY <1>1, ResumeType DEF ResumePoint
<1>5. /\ NoPoll \in PollState /\ NoPoll.latest = 0 /\ NoPoll.to = 0 /\ NoPoll.pc = "idle"
      /\ NoPoll.log = {}
  BY DEF NoPoll, PollState
<1>6. CASE \E a \in Accounts : Login(a)
  <2>1. UNCHANGED <<poll, aborts>> /\ users' \subseteq Accounts
    BY <1>6, PollFacts DEF Login
  <2>2. PollFits'
    BY <1>1, <1>3, <1>4, <2>1 DEF ListenerInv, PollFits
  <2> QED
    BY <1>1, <1>2, <2>1, <2>2, PollFacts, PollMoves
<1>7. CASE StartPoll
  <2>1. /\ poll' = [NoPoll EXCEPT !.pc = "filter", !.from = ResumePoint, !.latest = latest]
        /\ ResumePoint <= latest /\ UNCHANGED <<users, aborts>>
    BY <1>7 DEF StartPoll
  <2>2. /\ poll' \in PollState /\ poll'.pc = "filter" /\ poll'.from = ResumePoint
        /\ poll'.latest = latest /\ poll'.to = 0 /\ poll'.log = {}
    BY <1>4, <2>1, PollFacts DEF NoPoll, PollState
  <2>3. PollFits'
    BY <1>4, <2>1, <2>2 DEF PollFits
  <2> QED
    BY <1>1, <1>2, <2>1, <2>2, <2>3, PollFacts, PollMoves
<1>8. CASE Abort
  <2>1. poll' = NoPoll /\ UNCHANGED users /\ aborts' \in 0..MaxAborts
    BY <1>8, PollFacts, ListenerAssumption DEF Abort
  <2>2. PollFits'
    BY <1>5, <2>1 DEF PollFits
  <2> QED
    BY <1>1, <1>2, <1>5, <2>1, <2>2, PollFacts, PollMoves
<1> QED
  BY <1>6, <1>7, <1>8

\* Reading a range: every event of it is then to be handled.
LEMMA FilterKeeps == ListenerInv /\ FilterLogs => ListenerInv'
<1> SUFFICES ASSUME ListenerInv, FilterLogs PROVE ListenerInv'
  OBVIOUS
<1> DEFINE to == ChunkEnd(poll.from, poll.latest)
           todo == {l \in chain : l.block \in poll.from..to}
<1>1. /\ poll.pc = "filter" /\ poll.from = ResumePoint /\ poll.from <= poll.latest
      /\ UNCHANGED <<ledger, chain, latest, users, cursor, missed, aborts>>
      /\ poll' = [poll EXCEPT !.pc = "logs", !.to = to, !.todo = todo]
  BY DEF ListenerInv, PollFits, FilterLogs
<1>2. to \in Nat /\ to \in poll.from..poll.latest
  BY <1>1, PollFacts, ChunkEndType
<1>3. todo \subseteq chain /\ \A l \in chain : l.block \in poll.from..to => l \in todo
  OBVIOUS
<1> HIDE DEF to, todo
<1>4. /\ poll' \in PollState /\ poll'.pc = "logs" /\ poll'.to = to /\ poll'.todo = todo
      /\ poll'.from = poll.from /\ poll'.latest = poll.latest /\ poll'.log = poll.log
  <2>1. todo \in SUBSET Log
    BY <1>3, PollFacts
  <2> QED
    BY <1>1, <1>2, <2>1, PollFacts DEF PollState
<1>5. TypeOK' /\ RequestsPlaced' /\ IsFiniteSet(deposits') /\ deposits' = deposits
  BY <1>1, LedgerKept, PollFacts
<1>6. poll.log = {}
  BY <1>1 DEF ListenerInv, PollFits
<1>7. PollFits'
  <2>1. ResumePoint' = ResumePoint
    BY <1>1 DEF ResumePoint
  <2> QED
    BY <1>1, <1>2, <1>3, <1>4, <1>6, <2>1, PollFacts DEF PollFits
<1> QED
  BY <1>1, <1>2, <1>4, <1>5, <1>7, PollFacts, PollMoves

\* Taking up an event and creating its user change nothing of what was handled.
LEMMA TakeUpKeeps ==
    ASSUME ListenerInv, NEW l \in chain,
           FindUser(l) \/ (CreateUser(l) /\ l.account \notin users)
    PROVE  ListenerInv'
<1>1. /\ poll.pc \in {"logs", "create"} /\ {l} \subseteq poll.todo
      /\ UNCHANGED <<ledger, chain, latest, cursor, missed, aborts>>
  BY DEF FindUser, CreateUser, ListenerInv, PollFits
<1>2. /\ poll' \in PollState /\ poll'.pc \in {"create", "insert"} /\ poll'.log = {l}
      /\ poll'.to = poll.to /\ poll'.todo = poll.todo
      /\ poll'.from = poll.from /\ poll'.latest = poll.latest
  <2>1. poll \in PollState /\ l \in Log
    BY PollFacts
  <2>2. CASE FindUser(l)
    <3> PICK pc \in {"create", "insert"} : poll' = [poll EXCEPT !.pc = pc, !.log = {l}]
      BY <2>2 DEF FindUser
    <3> QED
      BY <2>1 DEF PollState
  <2>3. CASE CreateUser(l) /\ l.account \notin users
    <3>1. poll' = [poll EXCEPT !.pc = "insert"] /\ poll.log = {l}
      BY <2>3 DEF CreateUser
    <3> QED
      BY <2>1, <3>1 DEF PollState
  <2> QED
    BY <2>2, <2>3
<1>3. users' \subseteq Accounts
  <2>1. l.account \in Accounts /\ users \subseteq Accounts
    BY PollFacts DEF Log
  <2> QED
    BY <2>1 DEF FindUser, CreateUser
<1>4. TypeOK' /\ RequestsPlaced' /\ IsFiniteSet(deposits') /\ deposits' = deposits
  BY <1>1, LedgerKept, PollFacts
<1>5. PollFits'
  <2>1. \A k : Handled(k)' <=> Handled(k)
    BY <1>1, <1>4 DEF Handled, Fresh
  <2>2. ResumePoint' = ResumePoint
    BY <1>1 DEF ResumePoint
  <2> QED
    BY <1>1, <1>2, <2>1, <2>2 DEF ListenerInv, PollFits
<1> QED
  BY <1>1, <1>2, <1>3, <1>4, <1>5, PollFacts, PollMoves

\* Going on to the next event is sound when this one was handled.
LEMMA GoingOnKeeps ==
    ASSUME ListenerInv, NEW l \in chain, poll.pc \in {"create", "insert"}, poll.log = {l},
           Continue(l), UNCHANGED <<chain, latest, users, cursor, aborts>>,
           TypeOK', RequestsPlaced', IsFiniteSet(deposits'), deposits \subseteq deposits',
           missed \subseteq missed', missed' \subseteq chain, Handled(l)'
    PROVE  ListenerInv'
<1>1. /\ poll' \in PollState /\ poll'.pc = "logs" /\ poll'.log = {}
      /\ poll'.to = poll.to /\ poll'.todo = poll.todo \ {l}
      /\ poll'.from = poll.from /\ poll'.latest = poll.latest
  <2>1. poll' = [poll EXCEPT !.pc = "logs", !.todo = poll.todo \ {l}, !.log = {}]
    BY DEF Continue
  <2>2. poll \in PollState
    BY PollFacts
  <2> QED
    BY <2>1, <2>2 DEF PollState
<1>2. \A k : Handled(k) => Handled(k)'
  BY HandledStays
<1>3. ResumePoint' = ResumePoint
  BY DEF ResumePoint
<1>4. PollFits'
  <2>1. ASSUME NEW k \in chain, k.block \in poll.from..poll.to
        PROVE  k \in poll.todo \ {l} \/ Handled(k)'
    <3>1. k \in poll.todo \/ Handled(k)
      BY <2>1 DEF ListenerInv, PollFits
    <3> QED
      BY <1>2, <3>1
  <2> QED
    BY <1>1, <1>3, <2>1 DEF ListenerInv, PollFits
<1> QED
  BY <1>1, <1>4, PollFacts, PollMoves

\* A failure that is logged, of whatever call, lets the loop go on.
LEMMA MissKeeps ==
    ASSUME ListenerInv, NEW l \in chain,
           HandleFails(l) \/ (CreateUser(l) /\ l.account \in users)
    PROVE  ListenerInv'
<1>1. /\ poll.pc \in {"create", "insert"} /\ poll.log = {l} /\ Continue(l)
      /\ missed' = missed \cup {l}
      /\ UNCHANGED <<ledger, chain, latest, users, cursor, aborts>>
  BY DEF HandleFails, CreateUser, Miss
<1>2. TypeOK' /\ RequestsPlaced' /\ IsFiniteSet(deposits') /\ deposits' = deposits
  BY <1>1, LedgerKept, PollFacts
<1>3. missed' \subseteq chain /\ Handled(l)'
  BY <1>1, PollFacts DEF Handled
<1> QED
  BY <1>1, <1>2, <1>3, GoingOnKeeps

\* The cursor moves past a range of which every event has been handled.
LEMMA SetCursorKeeps == ListenerInv /\ SetCursor => ListenerInv'
<1> SUFFICES ASSUME ListenerInv, SetCursor PROVE ListenerInv'
  OBVIOUS
<1>1. /\ poll.pc = "logs" /\ poll.todo = {} /\ cursor' = poll.to + 1
      /\ UNCHANGED <<ledger, chain, latest, users, missed, aborts>>
      /\ \/ poll.to < poll.latest
            /\ poll' = [poll EXCEPT !.pc = "filter", !.from = poll.to + 1]
         \/ poll' = NoPoll
  BY DEF SetCursor, CursorAfter
<1>2. /\ poll.from = ResumePoint /\ poll.from <= poll.to /\ poll.log = {}
      /\ \A l \in chain : l.block \in poll.from..poll.to => Handled(l)
  BY <1>1 DEF ListenerInv, PollFits
<1>3. ResumePoint' = poll.to + 1
  BY <1>1, PollFacts DEF ResumePoint
<1>4. /\ poll' \in PollState /\ poll'.latest \in Nat /\ poll'.latest <= latest
      /\ poll'.to <= poll'.latest /\ poll'.pc \in {"idle", "filter"} /\ poll'.log = {}
      /\ poll'.pc # "idle" => poll'.from = poll.to + 1 /\ poll'.from <= poll'.latest
  <2>1. CASE poll' = NoPoll
    <3>1. /\ NoPoll \in PollState /\ NoPoll.latest = 0 /\ NoPoll.to = 0 /\ NoPoll.pc = "idle"
          /\ NoPoll.log = {}
      BY DEF NoPoll, PollState
    <3> QED
      BY <2>1, <3>1, PollFacts
  <2>2. CASE poll.to < poll.latest
             /\ poll' = [poll EXCEPT !.pc = "filter", !.from = poll.to + 1]
    <3>1. /\ poll' \in PollState /\ poll'.pc = "filter" /\ poll'.from = poll.to + 1
          /\ poll'.latest = poll.latest /\ poll'.to = poll.to /\ poll'.log = {}
      <4>1. poll \in PollState /\ poll.to + 1 \in Nat
        BY PollFacts
      <4>2. poll' = [poll EXCEPT !.pc = "filter", !.from = poll.to + 1]
        BY <2>2
      <4> QED
        BY <1>2, <4>1, <4>2 DEF PollState
    <3> QED
      BY <2>2, <3>1, PollFacts
  <2> QED
    BY <1>1, <2>1, <2>2
<1>5. TypeOK' /\ RequestsPlaced' /\ IsFiniteSet(deposits') /\ deposits' = deposits
  BY <1>1, LedgerKept, PollFacts
<1>6. \A l : Handled(l)' <=> Handled(l)
  BY <1>1, <1>5 DEF Handled, Fresh
<1>7. ListenerTyped'
  <2>1. cursor' \in 0..(latest' + 1)
    BY <1>1, PollFacts
  <2> QED
    BY <1>1, <1>4, <1>5, <2>1, PollFacts DEF ListenerTyped, ListenerTypeOK
<1>8. ChainRead'
  BY <1>1 DEF ListenerInv, ChainRead
<1>9. NoneSkippedSilently'
  <2> SUFFICES ASSUME NEW l \in chain, l.block < poll.to + 1 PROVE Handled(l)
    BY <1>1, <1>3, <1>6 DEF NoneSkippedSilently, Handled
  <2>1. CASE l.block < ResumePoint
    BY <2>1 DEF ListenerInv, NoneSkippedSilently, Handled
  <2>2. CASE ~(l.block < ResumePoint)
    <3>1. l.block \in Nat
      BY PollFacts DEF Log
    <3> QED
      BY <1>2, <2>2, <3>1, PollFacts
  <2> QED
    BY <2>1, <2>2
<1>10. PollFits'
  BY <1>3, <1>4 DEF PollFits
<1> QED
  BY <1>7, <1>8, <1>9, <1>10 DEF ListenerInv

\* The invariant survives every step of the listener, its faults included.
LEMMA StepListenerInv == ListenerInv /\ [ListenerNext]_listener => ListenerInv'
<1> SUFFICES ASSUME ListenerInv, [ListenerNext]_listener PROVE ListenerInv'
  OBVIOUS
<1>1. CASE UNCHANGED listener
  <2>1. UNCHANGED <<ledger, chain, latest, users, cursor, poll, missed, aborts>>
    BY <1>1 DEF listener, listenerState
  <2>2. TypeOK' /\ RequestsPlaced' /\ IsFiniteSet(deposits') /\ deposits' = deposits
    BY <2>1, LedgerKept, PollFacts
  <2>3. PollFits'
    BY <2>1, <2>2 DEF ListenerInv, PollFits, Handled, Fresh, ResumePoint
  <2> QED
    BY <2>1, <2>2, <2>3, PollFacts, PollMoves
<1>2. CASE PollStep
  <2>1. CASE StartPoll
    BY <2>1, QuietSteps
  <2>2. CASE FilterLogs \/ SetCursor
    BY <2>2, FilterKeeps, SetCursorKeeps
  <2>3. ASSUME NEW l \in chain, FindUser(l) \/ CreateUser(l) PROVE ListenerInv'
    BY <2>3, TakeUpKeeps, MissKeeps
  <2>4. ASSUME NEW l \in chain, RecordDeposit(l) PROVE ListenerInv'
    <3>1. /\ poll.pc = "insert" /\ poll.log = {l} /\ Continue(l)
          /\ UNCHANGED <<chain, latest, users, cursor, missed, aborts>>
      BY <2>4 DEF RecordDeposit
    <3>2. /\ TypeOK' /\ RequestsPlaced' /\ IsFiniteSet(deposits')
          /\ deposits \subseteq deposits' /\ Handled(l)'
      BY <2>4, PollFacts, RecordTypes
    <3> QED
      BY <3>1, <3>2, PollFacts, GoingOnKeeps
  <2> QED
    BY <1>2, <2>1, <2>2, <2>3, <2>4 DEF PollStep
<1>3. CASE NewBlock
  BY <1>3, NewBlockKeeps
<1>4. CASE LoginStep
  BY <1>4, QuietSteps DEF LoginStep
<1>5. CASE FaultStep
  BY <1>5, QuietSteps, MissKeeps DEF FaultStep
<1> QED
  BY <1>1, <1>2, <1>3, <1>4, <1>5 DEF ListenerNext

\* The listener starts before the first block it reads.
LEMMA InitListenerInv == ListenerInit => ListenerInv
<1> SUFFICES ASSUME ListenerInit PROVE ListenerInv
  OBVIOUS
<1>1. LedgerInv /\ deposits = {} /\ IsFiniteSet(deposits)
  BY InitLedgerInv, FS_EmptySet DEF ListenerInit, LedgerInit
<1>2. /\ NoPoll \in PollState /\ NoPoll.latest = 0 /\ NoPoll.to = 0 /\ NoPoll.pc = "idle"
      /\ NoPoll.log = {}
  BY DEF NoPoll, PollState
<1>3. ListenerTyped
  BY <1>1, <1>2, ListenerAssumption DEF ListenerInit, ListenerTyped, ListenerTypeOK, LedgerInv
<1>4. ChainRead /\ PollFits /\ NoneSkippedSilently
  BY <1>2 DEF ListenerInit, ChainRead, PollFits, NoneSkippedSilently
<1> QED
  BY <1>3, <1>4 DEF ListenerInv

\* The invariant of the listener, whatever fails and whenever blocks arrive.
THEOREM ListenerInvariant == ListenerSpec => []ListenerInv
BY InitListenerInv, StepListenerInv, PTL DEF ListenerSpec

-----------------------------------------------------------------------------
(* The theorems.                                                           *)

\* Types hold, and neither a range nor the cursor runs ahead of the chain.
THEOREM ListenerTypeCorrect == ListenerSpec => []ListenerTypeOK
<1>1. ListenerInv => ListenerTypeOK
  BY DEF ListenerInv, ListenerTyped
<1> QED
  BY <1>1, ListenerInvariant, PTL

\* Behind the cursor no transaction is without an entry or a logged failure.
THEOREM NothingSkipped == ListenerSpec => []NoneSkippedSilently
<1>1. ListenerInv => NoneSkippedSilently
  BY DEF ListenerInv
<1> QED
  BY <1>1, ListenerInvariant, PTL

\* The listener does nothing to the ledger but record deposits.
LEMMA ListenerDeposits ==
    ASSUME ListenerInv, [ListenerNext]_listener
    PROVE  DepositStep \/ UNCHANGED ledger
<1>1. CASE UNCHANGED ledger
  BY <1>1
<1>2. ASSUME NEW l \in chain, RecordDeposit(l) PROVE DepositStep
  <2>1. l.hash \in Hashes /\ l.amount \in Amounts
    BY PollFacts DEF Log
  <2>2. l.account \in Accounts \ Desks
    BY DEF ListenerInv, ChainRead
  <2> QED
    BY <1>2, <2>1, <2>2 DEF RecordDeposit, DepositStep
<1> QED
  BY <1>1, <1>2
     DEF ListenerNext, PollStep, LoginStep, FaultStep, NewBlock, Login, StartPoll,
         FilterLogs, FindUser, CreateUser, HandleFails, SetCursor, Abort, listener

\* The listener does to the ledger only what the ledger specification allows.
THEOREM ListenerImplementsLedger == ListenerSpec => LedgerSpec
<1>1. ListenerInit => LedgerInit
  BY DEF ListenerInit
<1>2. ListenerInv /\ [ListenerNext]_listener => [LedgerNext]_ledger
  BY ListenerDeposits DEF LedgerNext
<1> QED
  BY <1>1, <1>2, ListenerInvariant, PTL DEF ListenerSpec, LedgerSpec

\* However often a range is read again, after whatever failed, the listener
\* credits nothing but what it records as deposited.
THEOREM ListenerBacked == ListenerSpec => [][~(Issued' > Issued)]_listener
<1>1. ListenerInv /\ MoneyInv /\ [ListenerNext]_listener => ~(Issued' > Issued)
  BY ListenerDeposits, DepositCreatesNot, LockCreatesNot DEF Creates
<1> QED
  BY <1>1, ListenerInvariant, ListenerImplementsLedger, MoneyAlways, PTL DEF ListenerSpec

\* What the deposit entries of an account say.
Deposited(a) == Total([d \in {e \in deposits : e.account = a} |-> d.amount])

\* One more entry adds its amount.
LEMMA DepositedGrows ==
    ASSUME ListenerTyped, NEW d \in DepositRow, d \notin deposits,
           deposits' = deposits \cup {d}, NEW a \in Accounts
    PROVE  Deposited(a)' = Deposited(a) + (IF d.account = a THEN d.amount ELSE 0)
<1> DEFINE E(D) == {e \in D : e.account = a}
           f(D) == [e \in E(D) |-> e.amount]
<1>1. /\ IsFiniteSet(deposits) /\ deposits \subseteq DepositRow
  BY DEF ListenerTyped, ListenerTypeOK, TypeOK
<1>2. IsFiniteSet(E(deposits))
  <2>1. E(deposits) \subseteq deposits
    OBVIOUS
  <2> QED
    BY <1>1, <2>1, FS_Subset
<1>3. Amounts \subseteq Nat
  BY LedgerAssumption
<1>4. f(deposits) \in [E(deposits) -> Nat] /\ Deposited(a) = Total(f(deposits))
  BY <1>1, <1>3 DEF DepositRow, Deposited
<1>5. Total(f(deposits)) \in Nat
  BY <1>2, <1>4, TotalType
<1>6. Deposited(a)' = Total(f(deposits'))
  BY DEF Deposited
<1>7. CASE d.account = a
  <2>1. E(deposits') = E(deposits) \cup {d} /\ d \notin E(deposits)
    BY <1>7
  <2>2. /\ f(deposits') \in [E(deposits) \cup {d} -> Nat]
        /\ \A e \in E(deposits) : f(deposits')[e] = f(deposits)[e]
        /\ f(deposits')[d] = d.amount
    BY <1>1, <1>3, <2>1 DEF DepositRow
  <2> HIDE DEF E, f
  <2>3. Total(f(deposits')) = Total(f(deposits)) + d.amount
    BY <1>2, <1>4, <2>1, <2>2, TotalExtend
  <2> QED
    BY <1>4, <1>6, <1>7, <2>3
<1>8. CASE d.account # a
  <2>1. E(deposits') = E(deposits)
    BY <1>8
  <2>2. f(deposits') = f(deposits)
    BY <2>1
  <2> HIDE DEF E, f
  <2> QED
    BY <1>4, <1>5, <1>6, <1>8, <2>2
<1> QED
  BY <1>7, <1>8

\* Every account holds what it held at the start and what its entries say:
\* no deposit is credited twice, and no entry comes without its credit.
THEOREM CreditsAlwaysMatch == ListenerSpec => []CreditsMatchDeposits
<1> DEFINE Matched == \A a \in Accounts :
                        balance[a]["BIUSD"] = InitBalance[a]["BIUSD"] + Deposited(a)
<1>1. ListenerInit => Matched
  <2> SUFFICES ASSUME ListenerInit, NEW a \in Accounts
               PROVE  balance[a]["BIUSD"] = InitBalance[a]["BIUSD"] + Deposited(a)
    OBVIOUS
  <2>1. {e \in deposits : e.account = a} = {}
    BY DEF ListenerInit, LedgerInit
  <2>2. [d \in {e \in deposits : e.account = a} |-> d.amount] = [d \in {} |-> 0]
    BY <2>1
  <2>3. Deposited(a) = 0
    BY <2>2, TotalOfZeros DEF Deposited
  <2>4. balance = InitBalance /\ InitBalance[a]["BIUSD"] \in Nat
    BY LedgerAssumption, ListenerAssumption DEF ListenerInit, LedgerInit
  <2> QED
    BY <2>3, <2>4
<1>2. ASSUME Matched, UNCHANGED ledger PROVE Matched'
  BY <1>2 DEF ledger, Deposited
<1>3. ASSUME ListenerInv, Matched, NEW l \in chain, RecordDeposit(l) PROVE Matched'
  <2> DEFINE d == [hash |-> l.hash, account |-> l.account, amount |-> l.amount]
  <2>1. l.hash \in Hashes /\ l.account \in Accounts /\ l.amount \in Amounts
    BY <1>3, PollFacts DEF Log
  <2>2. /\ d \in DepositRow /\ d.hash = l.hash /\ d.account = l.account /\ d.amount = l.amount
        /\ l.amount \in Nat /\ "BIUSD" \in Assets
    BY <2>1, LedgerAssumption, ListenerAssumption DEF DepositRow
  <2> HIDE DEF d
  <2>3. \/ /\ Fresh(l.hash) /\ deposits' = deposits \cup {d}
           /\ balance' = Add(balance, l.account, "BIUSD", l.amount)
        \/ UNCHANGED <<deposits, balance>>
    BY <1>3 DEF RecordDeposit, InsertDeposit, d
  <2>4. CASE UNCHANGED <<deposits, balance>>
    BY <1>3, <2>4 DEF Deposited
  <2>5. CASE /\ Fresh(l.hash) /\ deposits' = deposits \cup {d}
             /\ balance' = Add(balance, l.account, "BIUSD", l.amount)
    <3> SUFFICES ASSUME NEW a \in Accounts
                 PROVE  balance'[a]["BIUSD"] = InitBalance[a]["BIUSD"] + Deposited(a)'
      OBVIOUS
    <3>1. d \notin deposits /\ ListenerTyped
      BY <1>3, <2>2, <2>5, PollFacts DEF Fresh
    <3>2. Deposited(a)' = Deposited(a) + (IF d.account = a THEN d.amount ELSE 0)
      BY <2>2, <2>5, <3>1, DepositedGrows
    <3>3. balance \in Column
      BY <3>1, Columns DEF ListenerTyped, ListenerTypeOK, LedgerInv
    <3>4. balance'[a]["BIUSD"] =
            IF a = l.account THEN balance[l.account]["BIUSD"] + l.amount ELSE balance[a]["BIUSD"]
      BY <2>1, <2>2, <2>5, <3>3, AddColumn
    <3>5. /\ balance[a]["BIUSD"] = InitBalance[a]["BIUSD"] + Deposited(a)
          /\ balance[a]["BIUSD"] \in Nat /\ InitBalance[a]["BIUSD"] \in Nat
          /\ Deposited(a) \in Int
      <4>1. /\ balance[a]["BIUSD"] = InitBalance[a]["BIUSD"] + Deposited(a)
            /\ balance[a]["BIUSD"] \in Nat /\ InitBalance[a]["BIUSD"] \in Nat
        BY <1>3, <2>2, <3>3, LedgerAssumption DEF Column
      <4>2. Deposited(a) \in Nat
        <5>1. IsFiniteSet(deposits) /\ deposits \subseteq DepositRow /\ Amounts \subseteq Nat
          BY <3>1, LedgerAssumption DEF ListenerTyped, ListenerTypeOK, TypeOK
        <5>2. IsFiniteSet({e \in deposits : e.account = a})
          BY <5>1, FS_Subset
        <5>3. [e \in {e \in deposits : e.account = a} |-> e.amount]
                \in [{e \in deposits : e.account = a} -> Nat]
          BY <5>1 DEF DepositRow
        <5> QED
          BY <5>2, <5>3, TotalType DEF Deposited
      <4> QED
        BY <4>1, <4>2
    <3> QED
      BY <2>2, <3>2, <3>4, <3>5
  <2> QED
    BY <2>3, <2>4, <2>5
<1>4. ListenerInv /\ Matched /\ [ListenerNext]_listener => Matched'
  <2> SUFFICES ASSUME ListenerInv, Matched, [ListenerNext]_listener PROVE Matched'
    OBVIOUS
  <2>1. UNCHANGED ledger \/ \E l \in chain : RecordDeposit(l)
    BY DEF ListenerNext, PollStep, LoginStep, FaultStep, NewBlock, Login, StartPoll,
           FilterLogs, FindUser, CreateUser, HandleFails, SetCursor, Abort, listener
  <2> HIDE DEF Matched
  <2> QED
    BY <1>2, <1>3, <2>1
<1>5. Matched => CreditsMatchDeposits
  BY DEF CreditsMatchDeposits, Deposited
<1> HIDE DEF Matched
<1> QED
  BY <1>1, <1>4, <1>5, ListenerInvariant, PTL DEF ListenerSpec
=============================================================================
