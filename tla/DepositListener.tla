--------------------------- MODULE DepositListener --------------------------
(***************************************************************************)
(* The listener that turns Deposit events of the vault into ledger entries *)
(* and BIUSD.  It polls block ranges from a durable cursor, handles the    *)
(* events of a range one by one and advances the cursor after the range,   *)
(* also past events whose handling failed.                                 *)
(*                                                                         *)
(* The chain is external: blocks with deposit events appear.  Users also   *)
(* come into existence by logging in.  Only BIUSD columns are touched.     *)
(***************************************************************************)
EXTENDS Ledger

CONSTANTS
    StartBlock,      \* first block of the first poll
    MaxBlock,        \* bound: last block of the chain
    maxBlockRange,   \* blocks of one FilterLogs call, 2000 in the code
    LogsPerTx,       \* deposits one transaction of the chain may carry
    MaxAborts        \* bound: polls cut short by an error or a restart

ASSUME ListenerAssumption ==
    /\ StartBlock \in Nat \ {0} /\ MaxBlock \in Nat /\ maxBlockRange \in Nat \ {0}
    /\ LogsPerTx \in {1, 2} /\ MaxAborts \in Nat
    /\ IsFiniteSet(Hashes) /\ "BIUSD" \in Assets

VARIABLES
    chain, latest,   \* deposit events, and the number of the newest block
    users,           \* rows of users
    cursor,          \* chain_cursor, 0 when there is no row
    poll,            \* the running poll
    missed,          \* events logged as "failed to process deposit log"
    aborts

listenerState == <<users, cursor, poll, missed, aborts>>
listener == <<ledger, chain, latest, listenerState>>

Log == [block : Nat, hash : Hashes, account : Accounts, amount : Amounts]

\* No event is being handled; also the value of a poll at rest.
NoPoll == [pc |-> "idle", from |-> 0, to |-> 0, latest |-> 0, todo |-> {}, log |-> {}]

PollState ==
    [pc : {"idle", "filter", "logs", "create", "insert"},
     from : Nat, to : Nat, latest : Nat, todo : SUBSET Log, log : SUBSET Log]

ListenerInit ==
    /\ LedgerInit
    /\ chain = {} /\ latest = StartBlock - 1
    /\ users = {} /\ cursor = 0 /\ poll = NoPoll /\ missed = {} /\ aborts = 0

-----------------------------------------------------------------------------
(* Around the listener.                                                    *)

NewHashes == {h \in Hashes : \A l \in chain : l.hash # h}

\* A block without a deposit, or with a transaction that makes some.  A desk's
\* account is no wallet of the chain.
NewBlock ==
    /\ latest < MaxBlock
    /\ latest' = latest + 1
    /\ \/ chain' = chain
       \/ \E h \in NewHashes, S \in SUBSET (Accounts \ Desks), n \in Amounts :
             /\ Cardinality(S) \in 1..LogsPerTx
             /\ chain' = chain \cup
                  {[block |-> latest + 1, hash |-> h, account |-> a, amount |-> n] : a \in S}
    /\ UNCHANGED <<ledger, listenerState>>

\* FindOrCreate by a login of the same wallet.
Login(a) ==
    /\ users' = users \cup {a}
    /\ UNCHANGED <<ledger, chain, latest, cursor, poll, missed, aborts>>

-----------------------------------------------------------------------------
(* poll.                                                                   *)

ResumePoint == IF cursor = 0 THEN StartBlock ELSE cursor

StartPoll ==
    /\ poll.pc = "idle"
    /\ ResumePoint <= latest
    /\ poll' = [NoPoll EXCEPT !.pc = "filter", !.from = ResumePoint, !.latest = latest]
    /\ UNCHANGED <<ledger, chain, latest, users, cursor, missed, aborts>>

\* Mutated form: the last range is not cut at the newest block.
ChunkUncut(from, last) == from + maxBlockRange - 1

ChunkEnd(from, last) ==
    IF from + maxBlockRange - 1 > last THEN last ELSE from + maxBlockRange - 1

FilterLogs ==
    LET to == ChunkEnd(poll.from, poll.latest)
    IN  /\ poll.pc = "filter"
        /\ poll' = [poll EXCEPT !.pc = "logs", !.to = to,
                                !.todo = {l \in chain : l.block \in poll.from..to}]
        /\ UNCHANGED <<ledger, chain, latest, users, cursor, missed, aborts>>

\* FindOrCreate reads the user of the next event.
FindUser(l) ==
    /\ poll.pc = "logs" /\ l \in poll.todo
    /\ poll' = [poll EXCEPT !.pc = IF l.account \in users THEN "insert" ELSE "create",
                            !.log = {l}]
    /\ UNCHANGED <<ledger, chain, latest, users, cursor, missed, aborts>>

\* The loop goes on to the next event, whether this one was recorded or not.
Continue(l) == poll' = [poll EXCEPT !.pc = "logs", !.todo = @ \ {l}, !.log = {}]

Miss(l) == Continue(l) /\ missed' = missed \cup {l}

\* The insert of FindOrCreate; wallet_address is unique, so it fails when the
\* user has come into existence since the read, and the event is passed over.
CreateUser(l) ==
    /\ poll.pc = "create" /\ poll.log = {l}
    /\ IF l.account \in users
       THEN UNCHANGED users /\ Miss(l)
       ELSE /\ users' = users \cup {l.account}
            /\ poll' = [poll EXCEPT !.pc = "insert"]
            /\ UNCHANGED missed
    /\ UNCHANGED <<ledger, chain, latest, cursor, aborts>>

RecordDeposit(l) ==
    /\ poll.pc = "insert" /\ poll.log = {l}
    /\ InsertDeposit(l.hash, l.account, l.amount)
    /\ Continue(l)
    /\ UNCHANGED <<chain, latest, users, cursor, missed, aborts>>

\* A database error while an event is handled: it is logged and passed over.
HandleFails(l) ==
    /\ poll.pc \in {"create", "insert"} /\ poll.log = {l}
    /\ Miss(l)
    /\ UNCHANGED <<ledger, chain, latest, users, cursor, aborts>>

\* Mutated form: the cursor moves to the end of the poll with the first range.
CursorAfterPoll(to) == poll.latest + 1

CursorAfter(to) == to + 1

SetCursor ==
    /\ poll.pc = "logs" /\ poll.todo = {}
    /\ cursor' = CursorAfter(poll.to)
    /\ poll' = IF poll.to < poll.latest
               THEN [poll EXCEPT !.pc = "filter", !.from = poll.to + 1]
               ELSE NoPoll
    /\ UNCHANGED <<ledger, chain, latest, users, missed, aborts>>

\* The node or the cursor's table fails, or the server restarts: the next poll
\* begins at the durable cursor.
Abort ==
    /\ poll.pc # "idle" /\ aborts < MaxAborts
    /\ aborts' = aborts + 1
    /\ poll' = NoPoll
    /\ UNCHANGED <<ledger, chain, latest, users, cursor, missed>>

-----------------------------------------------------------------------------
PollStep ==
    \/ StartPoll \/ FilterLogs \/ SetCursor
    \/ \E l \in chain : FindUser(l) \/ CreateUser(l) \/ RecordDeposit(l)

LoginStep == \E a \in Accounts : Login(a)
FaultStep == Abort \/ \E l \in chain : HandleFails(l)

ListenerNext == PollStep \/ NewBlock \/ LoginStep \/ FaultStep

\* Run polls for ever, every 15 seconds.
ListenerSpec ==
    ListenerInit /\ [][ListenerNext]_listener /\ WF_listener(PollStep)

-----------------------------------------------------------------------------
(* Properties.                                                             *)

\* The listener, the chain and the ledger have their types, and neither a
\* range nor the cursor runs ahead of the chain: a block that does not exist
\* yet is never counted as read.
ListenerTypeOK ==
    /\ TypeOK
    /\ chain \subseteq Log /\ latest \in Nat
    /\ users \subseteq Accounts /\ missed \subseteq chain
    /\ poll \in PollState /\ poll.latest <= latest /\ poll.to <= poll.latest
    /\ cursor \in 0..(latest + 1) /\ aborts \in 0..MaxAborts

\* However often a range is read again after a failed poll, an account holds
\* exactly what its deposit entries say beyond what it held at the start: none
\* is credited twice, and an entry and its credit never come apart.
CreditsMatchDeposits ==
    \A a \in Accounts :
        balance[a]["BIUSD"] = InitBalance[a]["BIUSD"] +
            Total([d \in {e \in deposits : e.account = a} |-> d.amount])

Recorded(l) == [hash |-> l.hash, account |-> l.account, amount |-> l.amount] \in deposits

\* Behind the cursor every transaction of the chain has a deposit entry or a
\* logged failure: neither a poll cut short nor a range read twice skips one.
\* What the code does skip it must have logged, and of a transaction with
\* several deposits it records one.
NoneSkippedSilently ==
    \A l \in chain : l.block < ResumePoint => ~Fresh(l.hash) \/ l \in missed

\* Every transaction with a deposit ends up with an entry or a logged failure,
\* also after polls were cut short.
EveryDepositHandled ==
    \A h \in Hashes :
        (\E l \in chain : l.hash = h)
            ~> (~Fresh(h) \/ \E l \in missed : l.hash = h)

\* "InsertDeposit records a confirmed on-chain deposit and credits the user's
\* tradable balance" (ledger.go:598): every deposit is recorded, will be read
\* again, or its failure was logged.
DepositsRecorded ==
    \A l \in chain : Recorded(l) \/ l.block >= ResumePoint \/ l \in missed
=============================================================================
