-------------------------- MODULE WithdrawalPayout --------------------------
(***************************************************************************)
(* Paying withdrawals out: the handlers that claim a request, send the     *)
(* payout from the treasury wallet, wait for the receipt and settle the    *)
(* request in the ledger.  Handlers run concurrently, one worker each; each*)
(* database transaction and each call of the chain node is a step of its   *)
(* own, and a handler can end between any two of them (its client goes     *)
(* away, which cancels every later call, or the server stops).             *)
(*                                                                         *)
(* The chain is external: transactions of the treasury wait in the pool and*)
(* are mined in the order of their nonces, evicted, or replaced.           *)
(***************************************************************************)
EXTENDS Ledger

CONSTANTS
    Workers,      \* handlers that may run at the same time
    Txs,          \* payout transactions that may come to exist
    NoReq, NoTx

ASSUME PayoutAssumption ==
    /\ IsFiniteSet(Txs)
    /\ NoReq \notin Requests /\ NoTx \notin Txs

VARIABLES
    worker,       \* the handlers: where they are and what they have read
    tx,           \* the treasury's transactions on the chain
    forced        \* history: requests an operator has marked failed

payout == <<balance, locked, request, deposits, worker, tx, forced>>

Idle == [pc |-> "idle", req |-> NoReq, retry |-> FALSE, nonce |-> 0, tx |-> NoTx]

WorkerState ==
    [pc : {"idle", "claim", "refused", "nonce", "send", "wait", "confirm", "fail"},
     req : Requests \cup {NoReq}, retry : BOOLEAN, nonce : 0..Cardinality(Txs),
     tx : Txs \cup {NoTx}]

TxState ==
    [status : {"none", "pool", "mined", "reverted", "dropped"},
     req : Requests \cup {NoReq}, nonce : 0..Cardinality(Txs),
     answered : BOOLEAN]    \* history: the sender got to know that it was taken

PayoutInit ==
    /\ LedgerInit
    /\ worker = [w \in Workers |-> Idle]
    /\ tx = [t \in Txs |-> [status |-> "none", req |-> NoReq, nonce |-> 0,
                            answered |-> FALSE]]
    /\ forced = {}

-----------------------------------------------------------------------------
(* The chain.                                                              *)

Included == {t \in Txs : tx[t].status \in {"mined", "reverted"}}
InPool(n) == {t \in Txs : tx[t].status = "pool" /\ tx[t].nonce = n}

\* The nonce the next mined transaction of the treasury has.
ChainNonce == Cardinality(Included)

\* PendingNonceAt: the first nonce that neither the chain nor the pool uses.
PendingNonce ==
    CHOOSE n \in ChainNonce..(ChainNonce + Cardinality(Txs)) :
        /\ InPool(n) = {}
        /\ \A m \in ChainNonce..(n - 1) : InPool(m) # {}

Mine(t) ==
    /\ tx[t].status = "pool" /\ tx[t].nonce = ChainNonce
    /\ \E s \in {"mined", "reverted"} : tx' = [tx EXCEPT ![t].status = s]
    /\ UNCHANGED <<ledger, worker, forced>>

Evict(t) ==
    /\ tx[t].status = "pool"
    /\ tx' = [tx EXCEPT ![t].status = "dropped"]
    /\ UNCHANGED <<ledger, worker, forced>>

-----------------------------------------------------------------------------
(* Handlers up to the claim.                                               *)

Goto(w, pc) == worker' = [worker EXCEPT ![w].pc = pc]
Return(w) == worker' = [worker EXCEPT ![w] = Idle]

\* WithdrawRequest: the request row is inserted, then processed by the same
\* handler.
WithdrawRequest(w, r, a, n) ==
    /\ worker[w].pc = "idle"
    /\ InsertWithdrawalRequest(r, a, "USDC", n)
    /\ worker' = [worker EXCEPT ![w] = [Idle EXCEPT !.pc = "claim", !.req = r]]
    /\ UNCHANGED <<tx, forced>>

\* AdminApproveWithdrawal (approve) and AdminRecoverWithdrawal (retry) both
\* call processWithdrawalRequest.
Approve(w, r, retry) ==
    /\ worker[w].pc = "idle"
    /\ request[r].status # "none"
    /\ worker' = [worker EXCEPT ![w] =
                    [Idle EXCEPT !.pc = "claim", !.req = r, !.retry = retry]]
    /\ UNCHANGED <<ledger, tx, forced>>

Reject(r) == RejectWithdrawalRequest(r) /\ UNCHANGED <<worker, tx, forced>>

\* AdminRecoverWithdrawal with action=fail.
RecoverFail(r) ==
    /\ MarkWithdrawalFailed(r)
    /\ forced' = forced \cup {r}
    /\ UNCHANGED <<worker, tx>>

Claim(w) ==
    /\ worker[w].pc = "claim"
    /\ MarkWithdrawalProcessing(worker[w].req)
    /\ Goto(w, "nonce")
    /\ UNCHANGED <<tx, forced>>

\* The claim found no pending request: an error response.
Refuse(w) ==
    /\ worker[w].pc = "claim"
    /\ ~Claimable(worker[w].req)
    /\ Goto(w, "refused")
    /\ UNCHANGED <<ledger, tx, forced>>

Respond(w) ==
    /\ worker[w].pc = "refused"
    /\ Return(w)
    /\ UNCHANGED <<ledger, tx, forced>>

-----------------------------------------------------------------------------
(* submitTx.                                                               *)

\* PendingNonceAt, then the gas price and the estimate, which may fail.
ReadNonce(w) ==
    /\ worker[w].pc = "nonce"
    /\ \/ worker' = [worker EXCEPT ![w].pc = "send", ![w].nonce = PendingNonce]
       \/ Goto(w, "fail")
    /\ UNCHANGED <<ledger, tx, forced>>

\* The transaction w sends, as the pool has it.
Signed(w, answered) ==
    [status |-> "pool", req |-> worker[w].req, nonce |-> worker[w].nonce,
     answered |-> answered]

Unsent(w, t) == worker[w].pc = "send" /\ tx[t].status = "none"

Sent(w, t) == worker' = [worker EXCEPT ![w].pc = "wait", ![w].tx = t]

SendAccepted(w, t) ==
    /\ Unsent(w, t)
    /\ worker[w].nonce >= ChainNonce /\ InPool(worker[w].nonce) = {}
    /\ tx' = [tx EXCEPT ![t] = Signed(w, TRUE)]
    /\ Sent(w, t)
    /\ UNCHANGED <<ledger, forced>>

\* The same nonce at a gas price that has risen enough: the pooled
\* transaction of another handler is replaced.
SendReplaces(w, t) ==
    /\ Unsent(w, t)
    /\ \E old \in InPool(worker[w].nonce) :
          tx' = [tx EXCEPT ![t] = Signed(w, TRUE), ![old].status = "dropped"]
    /\ Sent(w, t)
    /\ UNCHANGED <<ledger, forced>>

\* Nonce too low, underpriced, already known, or no connection.
SendRefused(w) ==
    /\ worker[w].pc = "send"
    /\ Goto(w, "fail")
    /\ UNCHANGED <<ledger, tx, forced>>

\* The node takes the transaction but its answer is an error or is lost.
SendUnanswered(w, t) ==
    /\ Unsent(w, t)
    /\ worker[w].nonce >= ChainNonce /\ InPool(worker[w].nonce) = {}
    /\ tx' = [tx EXCEPT ![t] = Signed(w, FALSE)]
    /\ Goto(w, "fail")
    /\ UNCHANGED <<ledger, forced>>

\* Mutated form: the status of the receipt is not looked at.
AnyReceipt(t) == TRUE

ReceiptSuccessful(t) == tx[t].status = "mined"

WaitMined(w) ==
    /\ worker[w].pc = "wait"
    /\ worker[w].tx \in Included
    /\ Goto(w, IF ReceiptSuccessful(worker[w].tx) THEN "confirm" ELSE "fail")
    /\ UNCHANGED <<ledger, tx, forced>>

-----------------------------------------------------------------------------
(* Settling the request.                                                   *)

\* MarkWithdrawalConfirmed, or its error, which leaves the request as it is.
Confirm(w) ==
    LET r == worker[w].req
    IN  /\ worker[w].pc = "confirm"
        /\ \/ MarkWithdrawalConfirmed(r)
           \/ ~(request[r].status = "processing" /\ Payable(r)) /\ UNCHANGED ledger
        /\ Return(w)
        /\ UNCHANGED <<tx, forced>>

\* MarkWithdrawalFailed for an unsent or reverted payout; it affects no row
\* when the request is no longer processing.
Fail(w) ==
    LET r == worker[w].req
    IN  /\ worker[w].pc = "fail"
        /\ \/ MarkWithdrawalFailed(r)
           \/ request[r].status # "processing" /\ UNCHANGED ledger
        /\ Return(w)
        /\ UNCHANGED <<tx, forced>>

\* Mutated form: an interrupted handler marks its request failed.
InterruptFailing(w) ==
    /\ worker[w].pc # "idle"
    /\ \/ MarkWithdrawalFailed(worker[w].req)
       \/ request[worker[w].req].status # "processing" /\ UNCHANGED ledger
    /\ Return(w)
    /\ UNCHANGED <<tx, forced>>

\* The context is cancelled or the server stops: no later call has an effect.
Interrupt(w) ==
    /\ worker[w].pc # "idle"
    /\ Return(w)
    /\ UNCHANGED <<ledger, tx, forced>>

-----------------------------------------------------------------------------
ChainStep == \E t \in Txs : Mine(t) \/ Evict(t)

WorkerStep ==
    \E w \in Workers :
       \/ \E r \in Requests, a \in Accounts \ Desks, n \in Amounts :
             WithdrawRequest(w, r, a, n)
       \/ \E r \in Requests, retry \in BOOLEAN : Approve(w, r, retry)
       \/ Claim(w) \/ Refuse(w) \/ Respond(w) \/ ReadNonce(w)
       \/ \E t \in Txs : SendAccepted(w, t) \/ SendReplaces(w, t)
       \/ SendRefused(w) \/ WaitMined(w) \/ Confirm(w) \/ Fail(w) \/ Interrupt(w)

RejectStep == \E r \in Requests : Reject(r)
RecoverStep == \E r \in Requests : RecoverFail(r)
UnansweredStep == \E w \in Workers, t \in Txs : SendUnanswered(w, t)

\* The user swaps USDC that a request holds into BIUSD.
SpendStep == SwapStep /\ UNCHANGED <<worker, tx, forced>>

PayoutNext == ChainStep \/ WorkerStep \/ RejectStep \/ RecoverStep
              \/ UnansweredStep \/ SpendStep
PayoutSpec == PayoutInit /\ [][PayoutNext]_payout

-----------------------------------------------------------------------------
(* Properties.                                                             *)

\* Every worker and transaction has one of its states, and the ledger its types.
PayoutTypeOK ==
    /\ TypeOK
    /\ worker \in [Workers -> WorkerState]
    /\ tx \in [Txs -> TxState] /\ forced \subseteq Requests

Payouts(r) == {t \in Txs : tx[t].req = r /\ tx[t].status = "mined"}

\* However often a request is approved or retried, by however many operators
\* at once, and however nonces collide, it is paid at most once.
PaidAtMostOnce == \A r \in Requests : Cardinality(Payouts(r)) <= 1

\* A debit is only booked for a payout that was mined successfully.
ConfirmedWerePaid == \A r \in Requests : request[r].status = "confirmed" => Payouts(r) # {}

\* No transaction is ever sent for a request that is still pending or was
\* rejected: rejecting excludes the payout although the two race.
UnclaimedNeverSent ==
    \A r \in Requests : request[r].status \in {"none", "pending", "rejected"} =>
        \A t \in Txs : tx[t].req # r

\* A request marked failed, whose amount is spendable again, was not paid and
\* will not be, unless an operator forced it to failed or the node took a
\* transaction without its sender getting to know: no handler, however it is
\* interrupted, gives a request up that a transaction can still pay.
FailedNeverPaid ==
    \A r \in Requests \ forced : request[r].status = "failed" =>
        \A t \in Txs : tx[t].req = r /\ tx[t].answered =>
            tx[t].status \notin {"pool", "mined"}

\* While a handler waits for the receipt of a payout and books it, the request
\* stays in processing: no retry, rejection or other handler closes it, only
\* an operator can.
ReceiptFindsRequestOpen ==
    \A w \in Workers : worker[w].pc \in {"wait", "confirm"} =>
        request[worker[w].req].status = "processing" \/ worker[w].req \in forced

\* A request in processing that no handler works on.
Stuck(r, w) ==
    /\ request[r].status = "processing"
    /\ \A v \in Workers \ {w} : worker[v].req # r

\* "Recovers withdrawals stuck in "processing" (...). action=retry re-attempts
\* the payout" (wallet.go:336-337): the retry of a stuck request is not refused.
RetryReattempts ==
    [][\A w \in Workers :
          worker[w].retry /\ Stuck(worker[w].req, w) => worker'[w].pc # "refused"]_payout
=============================================================================
