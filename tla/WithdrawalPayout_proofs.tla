------------------------ MODULE WithdrawalPayout_proofs -----------------------
(***************************************************************************)
(* Theorems about the payout of withdrawals, for every set of handlers,    *)
(* requests and transactions.                                              *)
(***************************************************************************)
EXTENDS WithdrawalPayout, Ledger_proofs

-----------------------------------------------------------------------------
(* The nonce a handler reads.                                              *)

\* A finite set of integers that is not empty has a least element.
LEMMA LeastElement ==
    ASSUME NEW S \in SUBSET Int, IsFiniteSet(S), S # {}
    PROVE  \E n \in S : \A m \in S : n <= m
<1> DEFINE G == {U \in SUBSET S : U = {} \/ \E n \in U : \A m \in U : n <= m}
<1>1. {} \in G
  OBVIOUS
<1>2. ASSUME NEW U \in SUBSET S, NEW x \in U, U \ {x} \in G PROVE U \in G
  <2>1. CASE U \ {x} = {}
    <3>1. \A m \in U : x <= m
      BY <2>1
    <3> QED
      BY <3>1
  <2>2. CASE U \ {x} # {}
    <3> PICK n \in U \ {x} : \A m \in U \ {x} : n <= m
      BY <1>2, <2>2
    <3>1. CASE n <= x
      BY <3>1
    <3>2. CASE ~(n <= x)
      <4>1. \A m \in U : x <= m
        BY <3>2
      <4> QED
        BY <4>1
    <3> QED
      BY <3>1, <3>2
  <2> QED
    BY <2>1, <2>2
<1>3. S \in G
  <2> HIDE DEF G
  <2> QED
    BY <1>1, <1>2, SubsetInduction
<1> QED
  BY <1>3

\* A run of pooled nonces is no longer than the pool.
LEMMA PooledRun ==
    ASSUME tx \in [Txs -> TxState], NEW from \in Nat, NEW n \in Nat, from <= n,
           \A m \in from..(n - 1) : InPool(m) # {}
    PROVE  n - from <= Cardinality({t \in Txs : tx[t].status = "pool"})
<1> DEFINE Pool == {t \in Txs : tx[t].status = "pool"}
           M == from..(n - 1)
           h == [m \in M |-> CHOOSE t \in InPool(m) : TRUE]
<1>1. \A m \in M : h[m] \in InPool(m)
  OBVIOUS
<1>2. h \in [M -> Pool]
  <2> SUFFICES ASSUME NEW m \in M PROVE h[m] \in Pool
    OBVIOUS
  <2> QED
    BY <1>1 DEF InPool
<1>3. \A m, k \in M : h[m] = h[k] => m = k
  BY <1>1 DEF InPool
<1>4. IsFiniteSet(Pool)
  BY FS_Subset, PayoutAssumption
<1> HIDE DEF h, Pool
<1>5. h \in Injection(M, Pool)
  BY <1>2, <1>3 DEF Injection, IsInjective
<1>6. Cardinality(M) <= Cardinality(Pool)
  BY <1>4, <1>5, FS_Injection
<1>7. Cardinality(M) = n - from
  BY FS_Interval
<1> QED
  BY <1>6, <1>7 DEF Pool

\* There is a first free nonce, and it is within the number of transactions.
LEMMA PendingNonceType ==
    ASSUME tx \in [Txs -> TxState]
    PROVE  PendingNonce \in 0..Cardinality(Txs)
<1> DEFINE Pool == {t \in Txs : tx[t].status = "pool"}
           N == Cardinality(Txs)
           c == ChainNonce
           Free == {n \in c..(c + N) : InPool(n) = {}}
<1>1. /\ IsFiniteSet(Txs) /\ IsFiniteSet(Pool) /\ IsFiniteSet(Included)
      /\ Pool \cap Included = {} /\ Pool \cup Included \in SUBSET Txs
  <2>1. Pool \in SUBSET Txs /\ Included \in SUBSET Txs /\ Pool \cap Included = {}
    BY DEF Included
  <2> QED
    BY <2>1, FS_Subset, PayoutAssumption
<1>2. /\ N \in Nat /\ c \in Nat /\ Cardinality(Pool) \in Nat
      /\ Cardinality(Pool) + c <= N
  <2>1. Cardinality(Pool \cup Included)
          = Cardinality(Pool) + Cardinality(Included) - Cardinality(Pool \cap Included)
    BY <1>1, FS_Union
  <2>2. Cardinality(Pool \cap Included) = 0
    BY <1>1, FS_EmptySet
  <2>3. Cardinality(Pool \cup Included) <= N
    BY <1>1, FS_Subset
  <2>4. N \in Nat /\ Cardinality(Pool) \in Nat /\ Cardinality(Included) \in Nat
    BY <1>1, FS_CardinalityType
  <2> HIDE DEF Pool
  <2> QED
    BY <2>1, <2>2, <2>3, <2>4 DEF ChainNonce
<1> HIDE DEF N, c
<1>3. Free # {}
  <2> SUFFICES ASSUME Free = {} PROVE FALSE
    OBVIOUS
  <2> DEFINE n == c + N + 1
  <2>1. n \in Nat /\ c <= n /\ \A m \in c..(n - 1) : m \in c..(c + N)
    BY <1>2
  <2>2. \A m \in c..(n - 1) : InPool(m) # {}
    BY <2>1
  <2> HIDE DEF n
  <2>3. n - c <= Cardinality(Pool)
    BY <1>2, <2>1, <2>2, PooledRun
  <2> HIDE DEF Pool
  <2> USE DEF n
  <2> QED
    BY <1>2, <2>3
<1>4. PICK n \in Free : \A m \in Free : n <= m
  <2>1. IsFiniteSet(Free)
    <3>1. c \in Int /\ c + N \in Int
      BY <1>2
    <3>2. IsFiniteSet(c..(c + N))
      BY <3>1, FS_Interval
    <3>3. Free \in SUBSET (c..(c + N))
      OBVIOUS
    <3> QED
      BY <3>2, <3>3, FS_Subset
  <2>2. Free \in SUBSET Int
    BY <1>2
  <2> HIDE DEF Free
  <2> QED
    BY <1>3, <2>1, <2>2, LeastElement
<1>5. n \in c..(c + N) /\ InPool(n) = {} /\ \A m \in c..(n - 1) : InPool(m) # {}
  <2>1. \A m \in c..(n - 1) : m \in c..(c + N) /\ ~(n <= m)
    BY <1>2, <1>4
  <2> QED
    BY <1>4, <2>1
<1>6. /\ PendingNonce \in c..(c + N)
      /\ \A m \in c..(PendingNonce - 1) : InPool(m) # {}
  BY <1>5 DEF PendingNonce, c, N
<1>7. PendingNonce - c <= Cardinality(Pool)
  <2>1. PendingNonce \in Nat /\ c <= PendingNonce
    BY <1>2, <1>6
  <2> QED
    BY <1>2, <1>6, <2>1, PooledRun
<1> HIDE DEF Pool
<1>8. PendingNonce \in 0..N
  BY <1>2, <1>6, <1>7
<1> QED
  BY <1>8 DEF N

-----------------------------------------------------------------------------
(* The payout on top of the ledger.                                        *)

\* A handler that is at work has a request.
HandlersPlaced == \A w \in Workers : worker[w].pc # "idle" => worker[w].req \in Requests

PayoutTyped ==
    /\ LedgerInv /\ HandlersPlaced
    /\ worker \in [Workers -> WorkerState]
    /\ tx \in [Txs -> TxState] /\ forced \subseteq Requests

\* What a step of the payout does to the ledger is a step of the ledger.
LEMMA PayoutCallsLedger ==
    ASSUME HandlersPlaced, [PayoutNext]_payout
    PROVE  WithdrawalStep \/ SwapStep \/ UNCHANGED ledger
<1>1. CASE UNCHANGED payout
  BY <1>1 DEF payout, ledger
<1>2. CASE ChainStep
  BY <1>2 DEF ChainStep, Mine, Evict
<1>3. CASE WorkerStep
  <2> PICK w \in Workers :
       \/ \E r \in Requests, a \in Accounts \ Desks, n \in Amounts : WithdrawRequest(w, r, a, n)
       \/ \E r \in Requests, retry \in BOOLEAN : Approve(w, r, retry)
       \/ Claim(w) \/ Refuse(w) \/ Respond(w) \/ ReadNonce(w)
       \/ \E t \in Txs : SendAccepted(w, t) \/ SendReplaces(w, t)
       \/ SendRefused(w) \/ WaitMined(w) \/ Confirm(w) \/ Fail(w) \/ Interrupt(w)
    BY <1>3 DEF WorkerStep
  <2>1. CASE \E r \in Requests, a \in Accounts \ Desks, n \in Amounts :
               WithdrawRequest(w, r, a, n)
    BY <2>1 DEF WithdrawRequest, WithdrawalStep
  <2>2. CASE Claim(w)
    BY <2>2 DEF Claim, HandlersPlaced, WithdrawalStep
  <2>3. CASE Confirm(w)
    BY <2>3 DEF Confirm, HandlersPlaced, WithdrawalStep
  <2>4. CASE Fail(w)
    BY <2>4 DEF Fail, HandlersPlaced, WithdrawalStep, ledger
  <2>5. CASE UNCHANGED ledger
    BY <2>5
  <2> QED
    BY <2>1, <2>2, <2>3, <2>4, <2>5
       DEF Approve, Refuse, Respond, ReadNonce, SendAccepted, SendReplaces, SendRefused,
           WaitMined, Interrupt
<1>4. CASE RejectStep
  BY <1>4 DEF RejectStep, Reject, WithdrawalStep
<1>5. CASE RecoverStep
  BY <1>5 DEF RecoverStep, RecoverFail, WithdrawalStep
<1>6. CASE UnansweredStep
  BY <1>6 DEF UnansweredStep, SendUnanswered
<1>7. CASE SpendStep
  BY <1>7 DEF SpendStep
<1> QED
  BY <1>1, <1>2, <1>3, <1>4, <1>5, <1>6, <1>7 DEF PayoutNext

\* One handler moves to a state h.
LEMMA HandlerMoves ==
    ASSUME HandlersPlaced, worker \in [Workers -> WorkerState],
           NEW w \in Workers, NEW h \in WorkerState, worker' = [worker EXCEPT ![w] = h],
           h.pc # "idle" => h.req \in Requests
    PROVE  /\ worker' \in [Workers -> WorkerState] /\ HandlersPlaced'
           /\ worker'[w] = h
           /\ \A v \in Workers : v # w => worker'[v] = worker[v]
<1>1. /\ worker' \in [Workers -> WorkerState] /\ worker'[w] = h
      /\ \A v \in Workers : v # w => worker'[v] = worker[v]
  <2> HIDE DEF WorkerState
  <2> QED
    OBVIOUS
<1>2. HandlersPlaced'
  <2> SUFFICES ASSUME NEW v \in Workers, worker'[v].pc # "idle"
               PROVE  worker'[v].req \in Requests
    BY DEF HandlersPlaced
  <2> QED
    BY <1>1 DEF HandlersPlaced
<1> QED
  BY <1>1, <1>2

\* The states a handler's steps lead to.
At(h, pc) == [h EXCEPT !.pc = pc]
WithNonce(h, n) == [h EXCEPT !.pc = "send", !.nonce = n]
Waiting(h, t) == [h EXCEPT !.pc = "wait", !.tx = t]
Asked(r, b) == [Idle EXCEPT !.pc = "claim", !.req = r, !.retry = b]
Asking(r) == [Idle EXCEPT !.pc = "claim", !.req = r]

\* The steps of a handler as changes of its entry.
LEMMA HandlerEntry ==
    ASSUME worker \in [Workers -> WorkerState], NEW w \in Workers
    PROVE  /\ \A pc : Goto(w, pc) <=> worker' = [worker EXCEPT ![w] = At(worker[w], pc)]
           /\ \A t : Sent(w, t) <=> worker' = [worker EXCEPT ![w] = Waiting(worker[w], t)]
           /\ \A n : [worker EXCEPT ![w].pc = "send", ![w].nonce = n]
                       = [worker EXCEPT ![w] = WithNonce(worker[w], n)]
<1>1. \A pc : [worker EXCEPT ![w].pc = pc] = [worker EXCEPT ![w] = [worker[w] EXCEPT !.pc = pc]]
  OBVIOUS
<1>2. \A t : [worker EXCEPT ![w].pc = "wait", ![w].tx = t]
               = [worker EXCEPT ![w] = [worker[w] EXCEPT !.pc = "wait", !.tx = t]]
  OBVIOUS
<1>3. \A n : [worker EXCEPT ![w].pc = "send", ![w].nonce = n]
               = [worker EXCEPT ![w] = [worker[w] EXCEPT !.pc = "send", !.nonce = n]]
  OBVIOUS
<1>5. /\ \A pc : Goto(w, pc) <=> worker' = [worker EXCEPT ![w] = At(worker[w], pc)]
      /\ \A t : Sent(w, t) <=> worker' = [worker EXCEPT ![w] = Waiting(worker[w], t)]
  BY <1>1, <1>2 DEF Goto, Sent, At, Waiting
<1>6. \A n : [worker EXCEPT ![w].pc = "send", ![w].nonce = n]
               = [worker EXCEPT ![w] = WithNonce(worker[w], n)]
  BY <1>3 DEF WithNonce
<1> QED
  BY <1>5, <1>6

\* They are states of a handler, for the same request.
LEMMA HandlerStates ==
    ASSUME worker \in [Workers -> WorkerState], NEW w \in Workers
    PROVE  /\ worker[w] \in WorkerState /\ Idle \in WorkerState /\ Idle.pc = "idle"
           /\ \A pc \in {"refused", "nonce", "fail", "confirm"} :
                LET h == At(worker[w], pc)
                IN  h \in WorkerState /\ h.pc = pc /\ h.req = worker[w].req /\ h.tx = worker[w].tx
           /\ \A t \in Txs :
                LET h == Waiting(worker[w], t)
                IN  h \in WorkerState /\ h.pc = "wait" /\ h.req = worker[w].req /\ h.tx = t
           /\ \A n \in 0..Cardinality(Txs) :
                LET h == WithNonce(worker[w], n)
                IN  h \in WorkerState /\ h.pc = "send" /\ h.req = worker[w].req
           /\ \A r \in Requests, b \in BOOLEAN :
                Asked(r, b) \in WorkerState /\ Asked(r, b).pc = "claim" /\ Asked(r, b).req = r
           /\ \A r \in Requests :
                Asking(r) \in WorkerState /\ Asking(r).pc = "claim" /\ Asking(r).req = r
<1>1. Cardinality(Txs) \in Nat
  BY FS_CardinalityType, PayoutAssumption
<1>2. Idle \in WorkerState /\ Idle.pc = "idle"
  BY <1>1 DEF Idle, WorkerState
<1>3. worker[w] \in WorkerState
  OBVIOUS
<1>4. \A pc \in {"refused", "nonce", "fail", "confirm"} :
         LET h == At(worker[w], pc)
         IN  h \in WorkerState /\ h.pc = pc /\ h.req = worker[w].req /\ h.tx = worker[w].tx
  BY <1>3 DEF WorkerState, At
<1>5. \A t \in Txs :
         LET h == Waiting(worker[w], t)
         IN  h \in WorkerState /\ h.pc = "wait" /\ h.req = worker[w].req /\ h.tx = t
  BY <1>3 DEF WorkerState, Waiting
<1>6. \A n \in 0..Cardinality(Txs) :
         LET h == WithNonce(worker[w], n)
         IN  h \in WorkerState /\ h.pc = "send" /\ h.req = worker[w].req
  BY <1>3 DEF WorkerState, WithNonce
<1>7. \A r \in Requests, b \in BOOLEAN :
         Asked(r, b) \in WorkerState /\ Asked(r, b).pc = "claim" /\ Asked(r, b).req = r
  BY <1>2 DEF WorkerState, Asked
<1>8. \A r \in Requests :
         Asking(r) \in WorkerState /\ Asking(r).pc = "claim" /\ Asking(r).req = r
  BY <1>2 DEF WorkerState, Asking
<1> QED
  BY <1>2, <1>3, <1>4, <1>5, <1>6, <1>7, <1>8

\* The transaction a handler sends is a transaction of the chain.
LEMMA SignedType ==
    ASSUME worker \in [Workers -> WorkerState], NEW w \in Workers, NEW b \in BOOLEAN
    PROVE  /\ Signed(w, b) \in TxState /\ Signed(w, b).status = "pool"
           /\ Signed(w, b).req = worker[w].req /\ Signed(w, b).answered = b
<1>1. worker[w] \in WorkerState
  OBVIOUS
<1> QED
  BY <1>1 DEF Signed, WorkerState, TxState

\* A change of the status of a transaction.
Became(f, t, s) == [f EXCEPT ![t].status = s]

\* It changes nothing else of it and no other transaction.
LEMMA TxStatus ==
    ASSUME NEW f \in [Txs -> TxState], NEW t \in Txs,
           NEW s \in {"pool", "mined", "reverted", "dropped"},
           NEW g, g = Became(f, t, s)
    PROVE  /\ g \in [Txs -> TxState]
           /\ \A u \in Txs :
                /\ g[u].status = IF u = t THEN s ELSE f[u].status
                /\ g[u].req = f[u].req
                /\ g[u].answered = f[u].answered
<1>1. f[t] \in TxState
  OBVIOUS
<1>2. /\ [f[t] EXCEPT !.status = s] \in TxState /\ [f[t] EXCEPT !.status = s].status = s
      /\ [f[t] EXCEPT !.status = s].req = f[t].req
      /\ [f[t] EXCEPT !.status = s].answered = f[t].answered
  BY <1>1 DEF TxState
<1>3. g = [f EXCEPT ![t] = [f[t] EXCEPT !.status = s]]
  BY DEF Became
<1> HIDE DEF TxState
<1> QED
  BY <1>2, <1>3

\* The transaction w has sent is in the pool; one it replaces is dropped.
LEMMA TxSent ==
    ASSUME worker \in [Workers -> WorkerState], tx \in [Txs -> TxState],
           NEW w \in Workers, NEW t \in Txs, NEW b \in BOOLEAN, Unsent(w, t),
           \/ tx' = [tx EXCEPT ![t] = Signed(w, b)]
           \/ \E old \in InPool(worker[w].nonce) :
                tx' = [tx EXCEPT ![t] = Signed(w, b), ![old].status = "dropped"]
    PROVE  /\ tx' \in [Txs -> TxState]
           /\ tx'[t].req = worker[w].req /\ tx'[t].status = "pool" /\ tx'[t].answered = b
           /\ \A u \in Txs \ {t} :
                /\ tx'[u].req = tx[u].req /\ tx'[u].answered = tx[u].answered
                /\ \/ tx'[u].status = tx[u].status
                   \/ tx[u].status = "pool" /\ tx'[u].status = "dropped"
<1> DEFINE mid == [tx EXCEPT ![t] = Signed(w, b)]
<1>1. /\ mid \in [Txs -> TxState] /\ mid[t] = Signed(w, b)
      /\ \A u \in Txs \ {t} : mid[u] = tx[u]
  <2>1. Signed(w, b) \in TxState
    BY SignedType
  <2> HIDE DEF TxState
  <2> QED
    BY <2>1
<1>2. /\ mid[t].req = worker[w].req /\ mid[t].status = "pool" /\ mid[t].answered = b
  BY <1>1, SignedType
<1>3. CASE tx' = mid
  BY <1>1, <1>2, <1>3
<1>4. CASE ~(tx' = mid)
  <2>1. PICK old \in InPool(worker[w].nonce) :
             tx' = [tx EXCEPT ![t] = Signed(w, b), ![old].status = "dropped"]
    BY <1>4
  <2>2. old \in Txs /\ old # t /\ tx[old].status = "pool"
    BY DEF InPool, Unsent
  <2>3. tx' = Became(mid, old, "dropped")
    BY <2>1 DEF Became
  <2> HIDE DEF mid
  <2>4. /\ tx' \in [Txs -> TxState]
        /\ \A u \in Txs :
             /\ tx'[u].status = IF u = old THEN "dropped" ELSE mid[u].status
             /\ tx'[u].req = mid[u].req
             /\ tx'[u].answered = mid[u].answered
    <3>1. mid \in [Txs -> TxState] /\ old \in Txs
      BY <1>1, <2>2
    <3> QED
      BY <2>3, <3>1, TxStatus
  <2> QED
    BY <1>1, <1>2, <2>2, <2>4
<1> QED
  BY <1>3, <1>4

\* Handlers, transactions and what operators have forced keep their types.
LEMMA HandlersTyped ==
    ASSUME PayoutTyped, PayoutNext
    PROVE  /\ worker' \in [Workers -> WorkerState] /\ HandlersPlaced'
           /\ tx' \in [Txs -> TxState] /\ forced' \subseteq Requests
<1> DEFINE Rest == worker' \in [Workers -> WorkerState] /\ HandlersPlaced'
<1> USE DEF PayoutTyped
<1>1. UNCHANGED worker => Rest
  BY DEF HandlersPlaced
<1>2. \A w \in Workers : \A h \in WorkerState :
         worker' = [worker EXCEPT ![w] = h] /\ (h.pc # "idle" => h.req \in Requests) => Rest
  BY HandlerMoves
<1> HIDE DEF Rest
<1>3. CASE ChainStep
  <2> PICK t \in Txs : Mine(t) \/ Evict(t)
    BY <1>3 DEF ChainStep
  <2>1. UNCHANGED <<worker, forced>>
        /\ \E s \in {"pool", "mined", "reverted", "dropped"} : tx' = Became(tx, t, s)
    BY DEF Mine, Evict, Became
  <2> QED
    BY <1>1, <2>1, TxStatus DEF Rest
<1>4. CASE RejectStep
  BY <1>1, <1>4 DEF RejectStep, Reject, Rest
<1>5. CASE RecoverStep
  BY <1>1, <1>5 DEF RecoverStep, RecoverFail, Rest
<1>6. CASE SpendStep
  BY <1>1, <1>6 DEF SpendStep, Rest
<1>7. ASSUME NEW w \in Workers, worker[w].pc # "idle", UNCHANGED <<tx, forced>>,
             NEW pc \in {"refused", "nonce", "fail", "confirm"}, Goto(w, pc)
      PROVE  Rest
  <2>1. worker' = [worker EXCEPT ![w] = At(worker[w], pc)]
    BY <1>7, HandlerEntry
  <2>2. /\ At(worker[w], pc) \in WorkerState
        /\ At(worker[w], pc).req \in Requests
    BY <1>7, HandlerStates DEF HandlersPlaced
  <2> QED
    BY <1>2, <2>1, <2>2
<1>8. ASSUME NEW w \in Workers, Return(w) PROVE Rest
  BY <1>2, <1>8, HandlerStates DEF Return
<1>9. ASSUME NEW w \in Workers, NEW t \in Txs, Sent(w, t), worker[w].pc # "idle"
      PROVE  Rest
  <2>1. worker' = [worker EXCEPT ![w] = Waiting(worker[w], t)]
    BY <1>9, HandlerEntry
  <2>2. /\ Waiting(worker[w], t) \in WorkerState
        /\ Waiting(worker[w], t).req \in Requests
    BY <1>9, HandlerStates DEF HandlersPlaced
  <2> QED
    BY <1>2, <2>1, <2>2
<1>10. CASE UnansweredStep
  <2> PICK w \in Workers, t \in Txs : SendUnanswered(w, t)
    BY <1>10 DEF UnansweredStep
  <2>1. /\ Unsent(w, t) /\ worker[w].pc # "idle" /\ tx' = [tx EXCEPT ![t] = Signed(w, FALSE)]
        /\ Goto(w, "fail") /\ UNCHANGED forced
    BY DEF SendUnanswered, Unsent
  <2>2. tx' \in [Txs -> TxState]
    BY <2>1, TxSent
  <2>3. worker' = [worker EXCEPT ![w] = At(worker[w], "fail")]
    BY <2>1, HandlerEntry
  <2>4. /\ At(worker[w], "fail") \in WorkerState
        /\ At(worker[w], "fail").req \in Requests
    BY <2>1, HandlerStates DEF HandlersPlaced
  <2> QED
    BY <1>2, <2>1, <2>2, <2>3, <2>4 DEF Rest
<1>11. CASE WorkerStep
  <2> PICK w \in Workers :
       \/ \E r \in Requests, a \in Accounts \ Desks, n \in Amounts : WithdrawRequest(w, r, a, n)
       \/ \E r \in Requests, retry \in BOOLEAN : Approve(w, r, retry)
       \/ Claim(w) \/ Refuse(w) \/ Respond(w) \/ ReadNonce(w)
       \/ \E t \in Txs : SendAccepted(w, t) \/ SendReplaces(w, t)
       \/ SendRefused(w) \/ WaitMined(w) \/ Confirm(w) \/ Fail(w) \/ Interrupt(w)
    BY <1>11 DEF WorkerStep
  <2>1. CASE \/ \E r \in Requests, a \in Accounts \ Desks, n \in Amounts :
                  WithdrawRequest(w, r, a, n)
             \/ \E r \in Requests, retry \in BOOLEAN : Approve(w, r, retry)
    <3> PICK r \in Requests, b \in BOOLEAN :
           /\ worker' = [worker EXCEPT ![w] = Asked(r, b)]
                \/ worker' = [worker EXCEPT ![w] = Asking(r)]
           /\ UNCHANGED <<tx, forced>>
      BY <2>1 DEF Approve, WithdrawRequest, Asked, Asking
    <3>1. /\ Asked(r, b) \in WorkerState /\ Asked(r, b).req \in Requests
          /\ Asking(r) \in WorkerState /\ Asking(r).req \in Requests
      BY HandlerStates
    <3> QED
      BY <1>2, <3>1 DEF Rest
  <2>2. CASE Claim(w) \/ Refuse(w) \/ SendRefused(w)
    BY <1>7, <2>2 DEF Claim, Refuse, SendRefused, Rest
  <2>3. CASE WaitMined(w)
    <3>1. /\ worker[w].pc # "idle" /\ UNCHANGED <<tx, forced>>
          /\ Goto(w, "confirm") \/ Goto(w, "fail")
      BY <2>3 DEF WaitMined
    <3> QED
      BY <1>7, <3>1 DEF Rest
  <2>4. CASE Respond(w) \/ Confirm(w) \/ Fail(w) \/ Interrupt(w)
    BY <1>8, <2>4 DEF Respond, Confirm, Fail, Interrupt, Rest
  <2>5. CASE ReadNonce(w)
    <3>1. CASE Goto(w, "fail")
      BY <1>7, <2>5, <3>1 DEF ReadNonce, Rest
    <3>2. CASE worker' = [worker EXCEPT ![w].pc = "send", ![w].nonce = PendingNonce]
      <4> DEFINE n == PendingNonce
      <4>1. n \in 0..Cardinality(Txs)
        BY PendingNonceType
      <4> HIDE DEF n
      <4>2. worker' = [worker EXCEPT ![w] = WithNonce(worker[w], n)]
        BY <3>2, HandlerEntry DEF n
      <4>3. /\ WithNonce(worker[w], n) \in WorkerState
            /\ WithNonce(worker[w], n).req \in Requests
        BY <2>5, <4>1, HandlerStates DEF HandlersPlaced, ReadNonce
      <4> QED
        BY <1>2, <2>5, <4>2, <4>3 DEF Rest, ReadNonce
    <3> QED
      BY <2>5, <3>1, <3>2 DEF ReadNonce
  <2>6. CASE \E t \in Txs : SendAccepted(w, t) \/ SendReplaces(w, t)
    <3> PICK t \in Txs : SendAccepted(w, t) \/ SendReplaces(w, t)
      BY <2>6
    <3>1. /\ Unsent(w, t) /\ worker[w].pc # "idle" /\ Sent(w, t) /\ UNCHANGED forced
          /\ \/ tx' = [tx EXCEPT ![t] = Signed(w, TRUE)]
             \/ \E old \in InPool(worker[w].nonce) :
                  tx' = [tx EXCEPT ![t] = Signed(w, TRUE), ![old].status = "dropped"]
      BY DEF SendAccepted, SendReplaces, Unsent
    <3>2. tx' \in [Txs -> TxState]
      BY <3>1, TxSent
    <3> QED
      BY <1>9, <3>1, <3>2 DEF Rest
  <2> QED
    BY <2>1, <2>2, <2>3, <2>4, <2>5, <2>6
<1> QED
  BY <1>3, <1>4, <1>5, <1>6, <1>10, <1>11 DEF PayoutNext

\* The types are inductive with where handlers and requests are placed.
LEMMA StepPayoutTyped == PayoutTyped /\ [PayoutNext]_payout => PayoutTyped'
<1> SUFFICES ASSUME PayoutTyped, [PayoutNext]_payout PROVE PayoutTyped'
  OBVIOUS
<1>1. LedgerInv'
  BY PayoutCallsLedger, LedgerSteps DEF PayoutTyped, StepSound, StepErodes, LedgerNext
<1>2. CASE UNCHANGED payout
  BY <1>1, <1>2 DEF PayoutTyped, payout, HandlersPlaced
<1>3. CASE PayoutNext
  BY <1>1, <1>3, HandlersTyped DEF PayoutTyped
<1> QED
  BY <1>2, <1>3

\* Nothing is claimed or sent at the start.
LEMMA InitPayoutTyped == PayoutInit => PayoutTyped
<1> SUFFICES ASSUME PayoutInit PROVE PayoutTyped
  OBVIOUS
<1>1. Cardinality(Txs) \in Nat
  BY FS_CardinalityType, PayoutAssumption
<1>2. worker \in [Workers -> WorkerState] /\ HandlersPlaced
  BY <1>1 DEF PayoutInit, Idle, WorkerState, HandlersPlaced
<1>3. tx \in [Txs -> TxState] /\ forced \subseteq Requests
  BY <1>1 DEF PayoutInit, TxState
<1> QED
  BY <1>2, <1>3, InitLedgerInv DEF PayoutInit, PayoutTyped

\* Types and placing hold throughout the payout.
THEOREM PayoutAlwaysTyped == PayoutSpec => []PayoutTyped
BY InitPayoutTyped, StepPayoutTyped, PTL DEF PayoutSpec

\* Every variable of the payout keeps its type: the pending nonce a handler
\* reads always exists and is at most the number of transactions.
THEOREM PayoutTypeCorrect == PayoutSpec => []PayoutTypeOK
<1>1. PayoutTyped => PayoutTypeOK
  BY DEF PayoutTyped, PayoutTypeOK, LedgerInv
<1> QED
  BY <1>1, PayoutAlwaysTyped, PTL

\* The payout with its concurrent handlers only does to the ledger what the
\* ledger specification allows, so that what holds of the ledger holds here.
THEOREM PayoutImplementsLedger == PayoutSpec => LedgerSpec
<1>1. PayoutInit => LedgerInit
  BY DEF PayoutInit
<1>2. PayoutTyped /\ [PayoutNext]_payout => [LedgerNext]_ledger
  BY PayoutCallsLedger DEF PayoutTyped, LedgerNext
<1> QED
  BY <1>1, <1>2, PayoutAlwaysTyped, PTL DEF PayoutSpec, LedgerSpec

\* Handlers that are interrupted, run twice or meet an operator's decision keep
\* what the ledger promises: requests move along their life cycle and grants stay
\* covered.
THEOREM PayoutKeepsLedger == PayoutSpec => RequestLifecycle /\ GrantsAreCovered
BY PayoutImplementsLedger, LifecycleKept, GrantsCorrect

\* However often a request is claimed, sent, retried, failed and booked, and
\* whatever its user swaps meanwhile, paying out makes no stable money: what is
\* held and what is booked as paid out is together never more than before.
THEOREM PayoutMakesNothing == PayoutSpec => [][~(Issued' > Issued)]_payout
<1>1. PayoutTyped /\ MoneyInv /\ [PayoutNext]_payout => ~(Issued' > Issued)
  BY PayoutCallsLedger, WithdrawalCreatesNot, SwapCreatesNot, LockCreatesNot
     DEF PayoutTyped, Creates
<1> QED
  BY <1>1, PayoutAlwaysTyped, PayoutImplementsLedger, MoneyAlways, PTL DEF PayoutSpec

-----------------------------------------------------------------------------
(* What handlers know of their requests and transactions.                  *)

\* A handler that has claimed its request and not settled it yet.
Engaged(w) == worker[w].pc \in {"nonce", "send", "wait", "confirm", "fail"}

\* No transaction that its sender knows of can pay r, or has paid it.
GivenUp(r) ==
    \A t \in Txs : tx[t].req = r /\ tx[t].answered => tx[t].status \notin {"pool", "mined"}

\* What a handler relies on between two of its steps, although other handlers,
\* the operators and the chain take theirs meanwhile.
HandlerFits(w) ==
    LET h == worker[w]
        r == h.req
    IN  /\ h.pc # "idle" => request[r].status # "none"
        /\ Engaged(w) => request[r].status = "processing" \/ r \in forced
        /\ h.pc \in {"nonce", "send"} => \A t \in Txs : tx[t].req # r
        /\ h.pc \in {"wait", "confirm"} => h.tx \in Txs /\ tx[h.tx].req = r
        /\ h.pc = "confirm" => tx[h.tx].status = "mined"
        /\ h.pc = "fail" => GivenUp(r)

\* A request is claimed by one handler at a time.
OneHandler ==
    \A v, w \in Workers : v # w /\ Engaged(v) /\ Engaged(w) => worker[v].req # worker[w].req

\* A transaction on the chain was sent for a request that had been claimed.
TxFits(t) ==
    IF tx[t].status = "none" THEN tx[t].req = NoReq
    ELSE /\ tx[t].req \in Requests
         /\ request[tx[t].req].status \in {"processing", "confirmed", "failed"}

\* A request never gets a second transaction.
OneTx == \A s, t \in Txs : s # t /\ tx[s].req # NoReq => tx[s].req # tx[t].req

\* What the status of a request says of the chain.
RequestFits(r) ==
    /\ r \in forced => request[r].status = "failed"
    /\ request[r].status = "confirmed" => Payouts(r) # {}
    /\ request[r].status = "failed" => r \in forced \/ GivenUp(r)

PayoutInv ==
    /\ \A w \in Workers : HandlerFits(w)
    /\ OneHandler
    /\ \A t \in Txs : TxFits(t)
    /\ OneTx
    /\ \A r \in Requests : RequestFits(r)

\* One handler moves and nothing else: what it then relies on has to hold, and
\* it claims nothing by moving.
LEMMA OnlyHandlerMoves ==
    ASSUME PayoutTyped, PayoutInv, UNCHANGED <<request, tx, forced>>,
           NEW w \in Workers, NEW h \in WorkerState, worker' = [worker EXCEPT ![w] = h],
           h.pc # "idle" => h.req \in Requests,
           Engaged(w)' => Engaged(w) /\ h.req = worker[w].req,
           HandlerFits(w)'
    PROVE  PayoutInv'
<1>1. /\ worker'[w] = h
      /\ \A v \in Workers : v # w => worker'[v] = worker[v]
  BY HandlerMoves DEF PayoutTyped
<1>2. \A v \in Workers : v # w => (Engaged(v)' <=> Engaged(v))
  BY <1>1 DEF Engaged
<1>3. ASSUME NEW v \in Workers PROVE HandlerFits(v)'
  <2>1. CASE v = w
    BY <2>1
  <2>2. CASE v # w
    BY <1>1, <2>2 DEF PayoutInv, HandlerFits, Engaged, GivenUp
  <2> QED
    BY <2>1, <2>2
<1>4. OneHandler'
  BY <1>1, <1>2 DEF PayoutInv, OneHandler
<1>5. OneTx' /\ (\A t \in Txs : TxFits(t)') /\ \A r \in Requests : RequestFits(r)'
  BY DEF PayoutInv, OneTx, TxFits, RequestFits, GivenUp, Payouts
<1> QED
  BY <1>3, <1>4, <1>5 DEF PayoutInv

\* Mining a transaction or dropping it from the pool.
LEMMA OnlyChainMoves ==
    ASSUME PayoutTyped, PayoutInv, UNCHANGED <<request, worker, forced>>,
           NEW t \in Txs, tx[t].status = "pool", NEW s \in {"mined", "reverted", "dropped"},
           tx' = Became(tx, t, s)
    PROVE  PayoutInv'
<1>1. \A u \in Txs :
         /\ tx'[u].status = IF u = t THEN s ELSE tx[u].status
         /\ tx'[u].req = tx[u].req
         /\ tx'[u].answered = tx[u].answered
  BY TxStatus DEF PayoutTyped
<1>2. \A r : GivenUp(r) => GivenUp(r)'
  BY <1>1 DEF GivenUp
<1>3. \A r : Payouts(r) \subseteq Payouts(r)'
  BY <1>1 DEF Payouts
<1>4. ASSUME NEW v \in Workers PROVE HandlerFits(v)'
  <2>1. HandlerFits(v)
    BY DEF PayoutInv
  <2>2. Engaged(v)' <=> Engaged(v)
    BY DEF Engaged
  <2> QED
    BY <1>1, <1>2, <2>1, <2>2 DEF HandlerFits
<1>5. OneHandler'
  BY DEF PayoutInv, OneHandler, Engaged
<1>6. ASSUME NEW u \in Txs PROVE TxFits(u)'
  BY <1>1 DEF PayoutInv, TxFits
<1>7. OneTx'
  BY <1>1 DEF PayoutInv, OneTx
<1>8. ASSUME NEW r \in Requests PROVE RequestFits(r)'
  BY <1>2, <1>3 DEF PayoutInv, RequestFits
<1> QED
  BY <1>4, <1>5, <1>6, <1>7, <1>8 DEF PayoutInv

\* A handler sends the transaction t for its request, which has none yet.
LEMMA HandlerSends ==
    ASSUME PayoutTyped, PayoutInv, UNCHANGED <<request, forced>>,
           NEW w \in Workers, NEW t \in Txs, NEW b \in BOOLEAN, Unsent(w, t),
           \/ tx' = [tx EXCEPT ![t] = Signed(w, b)]
           \/ \E old \in InPool(worker[w].nonce) :
                tx' = [tx EXCEPT ![t] = Signed(w, b), ![old].status = "dropped"],
           NEW h \in WorkerState, worker' = [worker EXCEPT ![w] = h],
           h.req = worker[w].req,
           \/ h.pc = "wait" /\ h.tx = t
           \/ h.pc = "fail" /\ b = FALSE
    PROVE  PayoutInv'
<1> DEFINE q == worker[w].req
<1>1. /\ worker[w].pc = "send" /\ q \in Requests /\ tx[t].status = "none" /\ tx[t].req = NoReq
      /\ \A u \in Txs : tx[u].req # q
      /\ \/ request[q].status = "processing"
         \/ q \in forced /\ request[q].status = "failed"
  BY DEF PayoutTyped, PayoutInv, HandlersPlaced, HandlerFits, Unsent, TxFits, Engaged, RequestFits
<1>2. /\ tx'[t].req = q /\ tx'[t].status = "pool" /\ tx'[t].answered = b
      /\ \A u \in Txs \ {t} :
           /\ tx'[u].req = tx[u].req /\ tx'[u].answered = tx[u].answered
           /\ \/ tx'[u].status = tx[u].status
              \/ tx[u].status = "pool" /\ tx'[u].status = "dropped"
  BY TxSent DEF PayoutTyped
<1>3. /\ worker'[w] = h
      /\ \A v \in Workers : v # w => worker'[v] = worker[v]
  BY <1>1, HandlerMoves DEF PayoutTyped
<1>4. /\ Engaged(w) /\ Engaged(w)'
      /\ \A v \in Workers : v # w => (Engaged(v)' <=> Engaged(v))
  BY <1>1, <1>3 DEF Engaged
<1>5. \A v \in Workers : v # w /\ Engaged(v) => worker[v].req # q
  BY <1>4 DEF PayoutInv, OneHandler
<1>6. \A r : r # q /\ GivenUp(r) => GivenUp(r)'
  BY <1>2 DEF GivenUp
<1>7. b = FALSE => \A r : r = q => GivenUp(r)'
  BY <1>1, <1>2 DEF GivenUp
<1> HIDE DEF q
<1>8. ASSUME NEW v \in Workers PROVE HandlerFits(v)'
  <2>1. CASE v = w
    <3> worker'[w] = h /\ h.req = q /\ request'[q].status # "none"
      BY <1>1, <1>3 DEF q
    <3>1. CASE h.pc = "wait" /\ h.tx = t
      BY <1>1, <1>2, <2>1, <3>1 DEF HandlerFits
    <3>2. CASE h.pc = "fail" /\ b = FALSE
      BY <1>1, <1>7, <2>1, <3>2 DEF HandlerFits
    <3> QED
      BY <3>1, <3>2
  <2>2. CASE v # w
    <3>1. HandlerFits(v) /\ worker'[v] = worker[v] /\ (Engaged(v)' <=> Engaged(v))
      BY <1>3, <1>4, <2>2 DEF PayoutInv
    <3>2. worker[v].pc = "fail" => GivenUp(worker[v].req)'
      BY <1>5, <1>6, <2>2, <3>1 DEF HandlerFits, Engaged
    <3>3. worker[v].pc \in {"nonce", "send"} => \A u \in Txs : tx'[u].req # worker[v].req
      BY <1>2, <1>5, <2>2, <3>1 DEF HandlerFits, Engaged
    <3>4. worker[v].pc \in {"wait", "confirm"} => worker[v].tx # t
      BY <1>1, <1>5, <2>2, <3>1, PayoutAssumption DEF HandlerFits, PayoutTyped, HandlersPlaced
    <3>5. worker[v].pc \in {"wait", "confirm"} =>
            worker[v].tx \in Txs /\ tx'[worker[v].tx].req = worker[v].req
      BY <1>2, <3>1, <3>4 DEF HandlerFits
    <3>6. worker[v].pc = "confirm" => tx'[worker[v].tx].status = "mined"
      BY <1>2, <3>1, <3>4 DEF HandlerFits
    <3> QED
      BY <3>1, <3>2, <3>3, <3>5, <3>6 DEF HandlerFits
  <2> QED
    BY <2>1, <2>2
<1>9. OneHandler'
  BY <1>3, <1>4, <1>5 DEF PayoutInv, OneHandler, q
<1>10. ASSUME NEW u \in Txs PROVE TxFits(u)'
  <2>1. CASE u = t
    BY <1>1, <1>2, <2>1 DEF TxFits, q
  <2>2. CASE u # t
    BY <1>2, <2>2 DEF PayoutInv, TxFits
  <2> QED
    BY <2>1, <2>2
<1>11. OneTx'
  <2> SUFFICES ASSUME NEW s \in Txs, NEW u \in Txs, s # u, tx'[s].req # NoReq
               PROVE  tx'[s].req # tx'[u].req
    BY DEF OneTx
  <2>1. CASE s # t /\ u # t
    BY <1>2, <2>1 DEF PayoutInv, OneTx
  <2> QED
    BY <1>1, <1>2, <2>1
<1>12. ASSUME NEW r \in Requests PROVE RequestFits(r)'
  <2>1. RequestFits(r)
    BY DEF PayoutInv
  <2>2. Payouts(r) \subseteq Payouts(r)'
    BY <1>1, <1>2 DEF Payouts
  <2>3. request[r].status = "failed" /\ r \notin forced => r # q
    BY <1>1
  <2> QED
    BY <1>6, <2>1, <2>2, <2>3 DEF RequestFits
<1> QED
  BY <1>8, <1>9, <1>10, <1>11, <1>12 DEF PayoutInv

\* A request moves and the handlers are left alone, but for one that is done
\* with it or asks for it.
LEMMA RequestMoves ==
    ASSUME PayoutTyped, PayoutInv, UNCHANGED tx,
           NEW r \in Requests, NEW s \in {"pending", "rejected", "confirmed", "failed"},
           \A q \in Requests : request'[q].status = IF q = r THEN s ELSE request[q].status,
           worker' \in [Workers -> WorkerState],
           \A v \in Workers : \/ worker'[v] = worker[v]
                              \/ worker'[v].pc = "idle"
                              \/ worker'[v].pc = "claim" /\ worker'[v].req = r,
           HandlersPlaced',
           forced' \in {forced, forced \cup {r}},
           \A v \in Workers : Engaged(v)' /\ worker[v].req = r => r \in forced',
           r \in forced' => s = "failed",
           s \in {"pending", "rejected"} => \A t \in Txs : tx[t].req # r,
           s = "confirmed" => Payouts(r) # {},
           s = "failed" => r \in forced' \/ GivenUp(r)
    PROVE  PayoutInv'
<1>1. \A q : (GivenUp(q)' <=> GivenUp(q)) /\ Payouts(q)' = Payouts(q)
  BY DEF GivenUp, Payouts
<1>2. ASSUME NEW v \in Workers PROVE HandlerFits(v)'
  <2>1. CASE worker'[v] = worker[v]
    <3>1. HandlerFits(v) /\ (Engaged(v)' <=> Engaged(v))
      BY <2>1 DEF PayoutInv, Engaged
    <3>2. Engaged(v)' => request'[worker[v].req].status = "processing" \/ worker[v].req \in forced'
      <4>1. CASE worker[v].req = r
        BY <4>1
      <4>2. CASE worker[v].req # r
        BY <2>1, <3>1, <4>2 DEF HandlerFits, PayoutTyped, HandlersPlaced, Engaged
      <4> QED
        BY <4>1, <4>2
    <3>3. worker[v].pc # "idle" => request'[worker[v].req].status # "none"
      BY <3>1 DEF HandlerFits, PayoutTyped, HandlersPlaced
    <3> QED
      BY <1>1, <2>1, <3>1, <3>2, <3>3 DEF HandlerFits
  <2>2. CASE worker'[v].pc = "idle"
    BY <2>2 DEF HandlerFits, Engaged
  <2>3. CASE worker'[v].pc = "claim" /\ worker'[v].req = r
    BY <2>3 DEF HandlerFits, Engaged
  <2> QED
    BY <2>1, <2>2, <2>3
<1>3. OneHandler'
  <2>1. \A v \in Workers : Engaged(v)' => Engaged(v) /\ worker'[v] = worker[v]
    BY DEF Engaged
  <2> QED
    BY <2>1 DEF PayoutInv, OneHandler
<1>4. ASSUME NEW t \in Txs PROVE TxFits(t)'
  BY DEF PayoutInv, TxFits
<1>5. OneTx'
  BY DEF PayoutInv, OneTx
<1>6. ASSUME NEW q \in Requests PROVE RequestFits(q)'
  <2>1. RequestFits(q)
    BY DEF PayoutInv
  <2>2. CASE q = r
    BY <1>1, <2>2 DEF RequestFits
  <2>3. CASE q # r
    BY <1>1, <2>1, <2>3 DEF RequestFits
  <2> QED
    BY <2>2, <2>3
<1> QED
  BY <1>2, <1>3, <1>4, <1>5, <1>6 DEF PayoutInv

\* The status a request has when r has got s.
StatusAfter(r, s) ==
    \A q \in Requests : request'[q].status = IF q = r THEN s ELSE request[q].status

\* The status that each operation of the ledger gives a request.
LEMMA RequestStatus ==
    ASSUME PayoutTyped, NEW r \in Requests
    PROVE  /\ MarkWithdrawalProcessing(r) => StatusAfter(r, "processing")
           /\ MarkWithdrawalConfirmed(r) => StatusAfter(r, "confirmed")
           /\ MarkWithdrawalFailed(r) => StatusAfter(r, "failed")
           /\ RejectWithdrawalRequest(r) => StatusAfter(r, "rejected")
           /\ \A a, x, n : InsertWithdrawalRequest(r, a, x, n) => StatusAfter(r, "pending")
<1>1. request \in [Requests -> RequestRow]
  BY Columns DEF PayoutTyped
<1>2. ASSUME NEW s, request' = [request EXCEPT ![r].status = s] PROVE StatusAfter(r, s)
  BY <1>1, <1>2 DEF RequestRow, StatusAfter
<1>3. MarkWithdrawalProcessing(r) => StatusAfter(r, "processing")
  BY <1>2 DEF MarkWithdrawalProcessing
<1>4. MarkWithdrawalConfirmed(r) => StatusAfter(r, "confirmed")
  BY <1>2 DEF MarkWithdrawalConfirmed
<1>5. MarkWithdrawalFailed(r) => StatusAfter(r, "failed")
  BY <1>2 DEF MarkWithdrawalFailed
<1>6. RejectWithdrawalRequest(r) => StatusAfter(r, "rejected")
  BY <1>2 DEF RejectWithdrawalRequest
<1>7. ASSUME NEW a, NEW x, NEW n, InsertWithdrawalRequest(r, a, x, n)
      PROVE  StatusAfter(r, "pending")
  <2>1. request' = [request EXCEPT ![r] =
                      [status |-> "pending", account |-> a, asset |-> x, amount |-> n]]
    BY <1>7 DEF InsertWithdrawalRequest
  <2> QED
    BY <1>1, <2>1 DEF RequestRow, StatusAfter
<1> QED
  BY <1>3, <1>4, <1>5, <1>6, <1>7

\* A handler claims its request, which is pending: nobody else is at it.
LEMMA ClaimKeeps ==
    ASSUME PayoutTyped, PayoutInv, NEW w \in Workers, Claim(w)
    PROVE  PayoutInv'
<1> DEFINE r == worker[w].req
           h == At(worker[w], "nonce")
<1>1. /\ worker[w].pc = "claim" /\ r \in Requests /\ request[r].status = "pending"
      /\ MarkWithdrawalProcessing(r)
      /\ UNCHANGED <<tx, forced>> /\ worker' = [worker EXCEPT ![w] = h]
  BY HandlerEntry DEF Claim, MarkWithdrawalProcessing, Claimable, PayoutTyped, HandlersPlaced
<1>2. h \in WorkerState /\ h.pc = "nonce" /\ h.req = r
  BY HandlerStates DEF PayoutTyped
<1> HIDE DEF r, h
<1>3. /\ worker'[w] = h
      /\ \A v \in Workers : v # w => worker'[v] = worker[v]
  BY <1>1, <1>2, HandlerMoves DEF PayoutTyped
<1>4. \A q \in Requests : request'[q].status =
                            IF q = r THEN "processing" ELSE request[q].status
  BY <1>1, RequestStatus DEF StatusAfter
<1>5. /\ r \notin forced
      /\ \A v \in Workers : Engaged(v) => worker[v].req # r
      /\ \A t \in Txs : tx[t].req # r
  <2>1. r \notin forced
    BY <1>1 DEF PayoutInv, RequestFits
  <2>2. \A v \in Workers : Engaged(v) => worker[v].req # r
    BY <1>1, <2>1 DEF PayoutInv, HandlerFits
  <2>3. \A t \in Txs : tx[t].req # r
    BY <1>1, PayoutAssumption DEF PayoutInv, TxFits
  <2> QED
    BY <2>1, <2>2, <2>3
<1>6. \A v \in Workers : v # w => (Engaged(v)' <=> Engaged(v))
  BY <1>3 DEF Engaged
<1>7. \A q : (GivenUp(q)' <=> GivenUp(q)) /\ Payouts(q)' = Payouts(q)
  BY <1>1 DEF GivenUp, Payouts
<1>8. ASSUME NEW v \in Workers PROVE HandlerFits(v)'
  <2>1. CASE v = w
    <3>1. worker'[w] = h /\ h.req = r /\ h.pc = "nonce" /\ request'[r].status = "processing"
          /\ \A t \in Txs : tx'[t].req # r
      BY <1>1, <1>2, <1>3, <1>4, <1>5
    <3> QED
      BY <2>1, <3>1 DEF HandlerFits
  <2>2. CASE v # w
    <3>1. HandlerFits(v) /\ worker'[v] = worker[v] /\ (Engaged(v)' <=> Engaged(v))
      BY <1>3, <1>6, <2>2 DEF PayoutInv
    <3>2. worker[v].pc # "idle" =>
            /\ request'[worker[v].req].status # "none"
            /\ Engaged(v) => request'[worker[v].req].status = "processing"
                             \/ worker[v].req \in forced'
      BY <1>1, <1>4, <1>5, <3>1 DEF HandlerFits, PayoutTyped, HandlersPlaced
    <3> QED
      BY <1>1, <1>7, <3>1, <3>2 DEF HandlerFits, Engaged
  <2> QED
    BY <2>1, <2>2
<1>9. OneHandler'
  BY <1>2, <1>3, <1>5, <1>6 DEF PayoutInv, OneHandler
<1>10. ASSUME NEW t \in Txs PROVE TxFits(t)'
  BY <1>1, <1>4 DEF PayoutInv, TxFits
<1>11. OneTx'
  BY <1>1 DEF PayoutInv, OneTx
<1>12. ASSUME NEW q \in Requests PROVE RequestFits(q)'
  BY <1>1, <1>4, <1>5, <1>7 DEF PayoutInv, RequestFits
<1> QED
  BY <1>8, <1>9, <1>10, <1>11, <1>12 DEF PayoutInv

\* The steps of an operator that act on a request alone.
LEMMA OperatorKeeps ==
    ASSUME PayoutTyped, PayoutInv, NEW r \in Requests, Reject(r) \/ RecoverFail(r)
    PROVE  PayoutInv'
<1>1. /\ UNCHANGED <<worker, tx>> /\ worker' \in [Workers -> WorkerState] /\ HandlersPlaced'
      /\ \A v \in Workers : worker'[v] = worker[v] /\ (Engaged(v)' <=> Engaged(v))
  BY DEF Reject, RecoverFail, PayoutTyped, HandlersPlaced, Engaged
<1>2. CASE Reject(r)
  <2>1. /\ request[r].status = "pending" /\ forced' = forced
        /\ \A q \in Requests : request'[q].status = IF q = r THEN "rejected" ELSE request[q].status
    BY <1>2, RequestStatus DEF Reject, RejectWithdrawalRequest, Rejectable, StatusAfter
  <2>2. r \notin forced
    BY <2>1 DEF PayoutInv, RequestFits
  <2>3. \A v \in Workers : Engaged(v) => worker[v].req # r
    BY <2>1, <2>2 DEF PayoutInv, HandlerFits
  <2>4. \A t \in Txs : tx[t].req # r
    BY <2>1, PayoutAssumption DEF PayoutInv, TxFits
  <2> QED
    BY <1>1, <2>1, <2>2, <2>3, <2>4, RequestMoves
<1>3. CASE RecoverFail(r)
  <2>1. /\ forced' = forced \cup {r}
        /\ \A q \in Requests : request'[q].status = IF q = r THEN "failed" ELSE request[q].status
    BY <1>3, RequestStatus DEF RecoverFail, StatusAfter
  <2> QED
    BY <1>1, <2>1, RequestMoves
<1> QED
  BY <1>2, <1>3

\* The steps of a handler that move nothing but the handler.
LEMMA AloneKeeps ==
    ASSUME PayoutTyped, PayoutInv, NEW w \in Workers,
           \/ \E r \in Requests, retry \in BOOLEAN : Approve(w, r, retry)
           \/ Refuse(w) \/ Respond(w) \/ ReadNonce(w) \/ SendRefused(w)
           \/ WaitMined(w) \/ Interrupt(w)
    PROVE  PayoutInv'
<1>1. HandlerFits(w) /\ worker[w] \in WorkerState
      /\ (worker[w].pc # "idle" => worker[w].req \in Requests)
  BY DEF PayoutInv, PayoutTyped, HandlersPlaced
<1>2. UNCHANGED <<request, tx, forced>>
  BY DEF Approve, Refuse, Respond, ReadNonce, SendRefused, WaitMined, Interrupt, ledger
<1>3. \A r : GivenUp(r)' <=> GivenUp(r)
  BY <1>2 DEF GivenUp
<1>4. \A h \in WorkerState :
         worker' = [worker EXCEPT ![w] = h] /\ (h.pc # "idle" => h.req \in Requests)
            => worker'[w] = h
  BY HandlerMoves DEF PayoutTyped
<1>5. CASE \E r \in Requests, retry \in BOOLEAN : Approve(w, r, retry)
  <2> PICK r \in Requests, b \in BOOLEAN :
         request[r].status # "none" /\ worker' = [worker EXCEPT ![w] = Asked(r, b)]
    BY <1>5 DEF Approve, Asked
  <2>1. Asked(r, b) \in WorkerState /\ Asked(r, b).pc = "claim" /\ Asked(r, b).req = r
    BY HandlerStates DEF PayoutTyped
  <2>2. worker'[w] = Asked(r, b)
    BY <1>4, <2>1
  <2>3. ~Engaged(w)' /\ HandlerFits(w)'
    BY <1>2, <2>1, <2>2 DEF HandlerFits, Engaged
  <2> QED
    BY <1>2, <2>1, <2>3, OnlyHandlerMoves
<1>6. CASE Respond(w) \/ Interrupt(w)
  <2>1. worker' = [worker EXCEPT ![w] = Idle] /\ Idle \in WorkerState /\ Idle.pc = "idle"
    BY <1>6, HandlerStates DEF Respond, Interrupt, Return, PayoutTyped
  <2>2. worker'[w] = Idle
    BY <1>4, <2>1
  <2>3. ~Engaged(w)' /\ HandlerFits(w)'
    BY <2>1, <2>2 DEF HandlerFits, Engaged
  <2> QED
    BY <1>2, <2>1, <2>3, OnlyHandlerMoves
<1>7. ASSUME NEW pc \in {"refused", "fail", "confirm"}, Goto(w, pc), worker[w].pc # "idle",
             pc # "refused" => Engaged(w),
             pc = "fail" => GivenUp(worker[w].req),
             pc = "confirm" => worker[w].pc = "wait" /\ tx[worker[w].tx].status = "mined"
      PROVE  PayoutInv'
  <2> DEFINE h == At(worker[w], pc)
  <2>1. /\ worker' = [worker EXCEPT ![w] = h] /\ h \in WorkerState
        /\ h.pc = pc /\ h.req = worker[w].req /\ h.tx = worker[w].tx
    <3>1. worker \in [Workers -> WorkerState]
      BY DEF PayoutTyped
    <3>2. worker' = [worker EXCEPT ![w] = At(worker[w], pc)]
      BY <1>7, <3>1, HandlerEntry
    <3>3. /\ At(worker[w], pc) \in WorkerState /\ At(worker[w], pc).pc = pc
          /\ At(worker[w], pc).req = worker[w].req /\ At(worker[w], pc).tx = worker[w].tx
      BY <3>1, HandlerStates
    <3> QED
      BY <3>2, <3>3
  <2> HIDE DEF h
  <2>2. worker'[w] = h
    BY <1>1, <1>4, <1>7, <2>1
  <2>3. Engaged(w)' => Engaged(w)
    BY <1>7, <2>1, <2>2 DEF Engaged
  <2>4. HandlerFits(w)'
    BY <1>1, <1>2, <1>3, <1>7, <2>1, <2>2, <2>3 DEF HandlerFits
  <2> QED
    BY <1>1, <1>2, <1>7, <2>1, <2>3, <2>4, OnlyHandlerMoves
<1>8. CASE Refuse(w)
  BY <1>7, <1>8 DEF Refuse
<1>9. CASE SendRefused(w)
  <2>1. Goto(w, "fail") /\ worker[w].pc = "send" /\ Engaged(w) /\ GivenUp(worker[w].req)
    BY <1>1, <1>9 DEF SendRefused, HandlerFits, Engaged, GivenUp
  <2> QED
    BY <1>7, <2>1
<1>10. CASE ReadNonce(w)
  <2>1. worker[w].pc = "nonce" /\ Engaged(w) /\ GivenUp(worker[w].req)
    BY <1>1, <1>10 DEF ReadNonce, HandlerFits, Engaged, GivenUp
  <2>2. CASE Goto(w, "fail")
    BY <1>7, <2>1, <2>2
  <2>3. CASE worker' = [worker EXCEPT ![w].pc = "send", ![w].nonce = PendingNonce]
    <3> DEFINE n == PendingNonce
               h == WithNonce(worker[w], n)
    <3>1. n \in 0..Cardinality(Txs)
      BY PendingNonceType DEF PayoutTyped
    <3> HIDE DEF n
    <3>2. /\ worker' = [worker EXCEPT ![w] = h] /\ h \in WorkerState
          /\ h.pc = "send" /\ h.req = worker[w].req
      <4>1. worker \in [Workers -> WorkerState]
        BY DEF PayoutTyped
      <4>2. worker' = [worker EXCEPT ![w] = WithNonce(worker[w], n)]
        BY <2>3, <4>1, HandlerEntry DEF n
      <4>3. /\ WithNonce(worker[w], n) \in WorkerState /\ WithNonce(worker[w], n).pc = "send"
            /\ WithNonce(worker[w], n).req = worker[w].req
        BY <3>1, <4>1, HandlerStates
      <4> QED
        BY <4>2, <4>3
    <3> HIDE DEF h
    <3>3. worker'[w] = h
      BY <1>1, <1>4, <2>1, <3>2
    <3>4. HandlerFits(w)'
      BY <1>1, <1>2, <2>1, <3>2, <3>3 DEF HandlerFits, Engaged
    <3> QED
      BY <1>1, <1>2, <2>1, <3>2, <3>4, OnlyHandlerMoves
  <2> QED
    BY <1>10, <2>2, <2>3 DEF ReadNonce
<1>11. CASE WaitMined(w)
  <2>1. /\ worker[w].pc = "wait" /\ Engaged(w) /\ worker[w].tx \in Txs
        /\ tx[worker[w].tx].req = worker[w].req /\ worker[w].req \in Requests
    BY <1>1, <1>11 DEF WaitMined, HandlerFits, Engaged
  <2>2. CASE tx[worker[w].tx].status = "mined"
    <3>1. Goto(w, "confirm")
      BY <1>11, <2>2 DEF WaitMined, ReceiptSuccessful
    <3> QED
      BY <1>7, <2>1, <2>2, <3>1
  <2>3. CASE tx[worker[w].tx].status # "mined"
    <3>1. Goto(w, "fail") /\ tx[worker[w].tx].status = "reverted"
      BY <1>11, <2>3 DEF WaitMined, ReceiptSuccessful, Included
    <3>2. \A t \in Txs : tx[t].req = worker[w].req => t = worker[w].tx
      BY <2>1, PayoutAssumption DEF PayoutInv, OneTx
    <3>3. GivenUp(worker[w].req)
      BY <3>1, <3>2 DEF GivenUp
    <3> QED
      BY <1>7, <2>1, <3>1, <3>3
  <2> QED
    BY <2>2, <2>3
<1> QED
  BY <1>5, <1>6, <1>8, <1>9, <1>10, <1>11

\* The steps of a handler that ask for a request or settle one.
LEMMA SettlingKeeps ==
    ASSUME PayoutTyped, PayoutInv, PayoutTyped', NEW w \in Workers,
           \/ \E r \in Requests, a \in Accounts \ Desks, n \in Amounts : WithdrawRequest(w, r, a, n)
           \/ Confirm(w) \/ Fail(w)
    PROVE  PayoutInv'
<1>1. UNCHANGED <<tx, forced>> /\ worker' \in [Workers -> WorkerState] /\ HandlersPlaced'
  BY DEF WithdrawRequest, Confirm, Fail, PayoutTyped
<1>2. CASE \E r \in Requests, a \in Accounts \ Desks, n \in Amounts : WithdrawRequest(w, r, a, n)
  <2> PICK r \in Requests, a \in Accounts \ Desks, n \in Amounts : WithdrawRequest(w, r, a, n)
    BY <1>2
  <2>1. /\ worker' = [worker EXCEPT ![w] = Asking(r)] /\ request[r].status = "none"
        /\ InsertWithdrawalRequest(r, a, "USDC", n)
    BY DEF WithdrawRequest, InsertWithdrawalRequest, Asking
  <2>2. /\ Asking(r) \in WorkerState /\ Asking(r).pc = "claim" /\ Asking(r).req = r
    BY HandlerStates DEF PayoutTyped
  <2>3. /\ worker'[w] = Asking(r)
        /\ \A v \in Workers : v # w => worker'[v] = worker[v]
    BY <2>1, <2>2, HandlerMoves DEF PayoutTyped
  <2>4. \A q \in Requests : request'[q].status = IF q = r THEN "pending" ELSE request[q].status
    BY <2>1, RequestStatus DEF StatusAfter
  <2>5. r \notin forced
    BY <2>1 DEF PayoutInv, RequestFits
  <2>6. \A v \in Workers : Engaged(v)' => Engaged(v)
    BY <2>2, <2>3 DEF Engaged
  <2>7. \A v \in Workers : Engaged(v)' => worker[v].req # r
    BY <2>1, <2>5, <2>6 DEF PayoutInv, HandlerFits
  <2>8. \A t \in Txs : tx[t].req # r
    BY <2>1, PayoutAssumption DEF PayoutInv, TxFits
  <2> QED
    BY <1>1, <2>2, <2>3, <2>4, <2>5, <2>7, <2>8, RequestMoves
<1>3. ASSUME NEW r \in Requests, r = worker[w].req, Engaged(w), Return(w),
             NEW s \in {"confirmed", "failed"}, request[r].status = "processing",
             StatusAfter(r, s),
             s = "confirmed" => Payouts(r) # {},
             s = "failed" => GivenUp(r)
      PROVE  PayoutInv'
  <2>1. worker' = [worker EXCEPT ![w] = Idle] /\ Idle \in WorkerState /\ Idle.pc = "idle"
    BY <1>3, HandlerStates DEF Return, PayoutTyped
  <2>2. /\ worker'[w] = Idle
        /\ \A v \in Workers : v # w => worker'[v] = worker[v]
    BY <2>1, HandlerMoves DEF PayoutTyped
  <2>3. \A q \in Requests : request'[q].status = IF q = r THEN s ELSE request[q].status
    BY <1>3 DEF StatusAfter
  <2>4. r \notin forced
    BY <1>3 DEF PayoutInv, RequestFits
  <2>5. \A v \in Workers : Engaged(v)' => v # w /\ Engaged(v)
    BY <2>1, <2>2 DEF Engaged
  <2>6. \A v \in Workers : Engaged(v)' => worker[v].req # r
    BY <1>3, <2>5 DEF PayoutInv, OneHandler
  <2> QED
    BY <1>1, <1>3, <2>1, <2>2, <2>3, <2>4, <2>6, RequestMoves
<1>4. ASSUME UNCHANGED ledger, Return(w) PROVE PayoutInv'
  <2>1. worker' = [worker EXCEPT ![w] = Idle] /\ Idle \in WorkerState /\ Idle.pc = "idle"
    BY <1>4, HandlerStates DEF Return, PayoutTyped
  <2>2. worker'[w] = Idle
    BY <2>1, HandlerMoves DEF PayoutTyped
  <2>3. ~Engaged(w)' /\ HandlerFits(w)'
    BY <2>1, <2>2 DEF HandlerFits, Engaged
  <2> QED
    BY <1>1, <1>4, <2>1, <2>3, OnlyHandlerMoves DEF ledger
<1>5. CASE Confirm(w)
  <2> DEFINE r == worker[w].req
  <2>1. /\ worker[w].pc = "confirm" /\ Engaged(w) /\ r \in Requests /\ Return(w)
        /\ MarkWithdrawalConfirmed(r) \/ UNCHANGED ledger
    BY <1>5 DEF Confirm, Engaged, PayoutTyped, HandlersPlaced
  <2>2. Payouts(r) # {}
    BY <2>1 DEF PayoutInv, HandlerFits, Payouts
  <2> HIDE DEF r
  <2>3. CASE MarkWithdrawalConfirmed(r)
    <3>1. request[r].status = "processing" /\ StatusAfter(r, "confirmed")
      BY <2>1, <2>3, RequestStatus DEF MarkWithdrawalConfirmed
    <3> QED
      BY <1>3, <2>1, <2>2, <3>1 DEF r
  <2> QED
    BY <1>4, <2>1, <2>3
<1>6. CASE Fail(w)
  <2> DEFINE r == worker[w].req
  <2>1. /\ worker[w].pc = "fail" /\ Engaged(w) /\ r \in Requests /\ Return(w)
        /\ MarkWithdrawalFailed(r) \/ UNCHANGED ledger
    BY <1>6 DEF Fail, Engaged, PayoutTyped, HandlersPlaced
  <2>2. GivenUp(r)
    BY <2>1 DEF PayoutInv, HandlerFits
  <2> HIDE DEF r
  <2>3. CASE MarkWithdrawalFailed(r)
    <3>1. request[r].status = "processing" /\ StatusAfter(r, "failed")
      BY <2>1, <2>3, RequestStatus DEF MarkWithdrawalFailed
    <3> QED
      BY <1>3, <2>1, <2>2, <3>1 DEF r
  <2> QED
    BY <1>4, <2>1, <2>3
<1> QED
  BY <1>2, <1>5, <1>6

\* The sending steps.
LEMMA SendingKeeps ==
    ASSUME PayoutTyped, PayoutInv, NEW w \in Workers, NEW t \in Txs,
           SendAccepted(w, t) \/ SendReplaces(w, t) \/ SendUnanswered(w, t)
    PROVE  PayoutInv'
<1>1. /\ worker \in [Workers -> WorkerState] /\ Unsent(w, t)
      /\ UNCHANGED <<request, forced>>
  BY DEF PayoutTyped, SendAccepted, SendReplaces, SendUnanswered, ledger
<1>2. CASE SendAccepted(w, t) \/ SendReplaces(w, t)
  <2>1. /\ Sent(w, t)
        /\ \/ tx' = [tx EXCEPT ![t] = Signed(w, TRUE)]
           \/ \E old \in InPool(worker[w].nonce) :
                tx' = [tx EXCEPT ![t] = Signed(w, TRUE), ![old].status = "dropped"]
    BY <1>2 DEF SendAccepted, SendReplaces
  <2>2. worker' = [worker EXCEPT ![w] = Waiting(worker[w], t)]
    BY <1>1, <2>1, HandlerEntry
  <2>3. /\ Waiting(worker[w], t) \in WorkerState /\ Waiting(worker[w], t).pc = "wait"
        /\ Waiting(worker[w], t).req = worker[w].req /\ Waiting(worker[w], t).tx = t
    BY <1>1, HandlerStates
  <2> QED
    BY <1>1, <2>1, <2>2, <2>3, HandlerSends
<1>3. CASE SendUnanswered(w, t)
  <2>1. Goto(w, "fail") /\ tx' = [tx EXCEPT ![t] = Signed(w, FALSE)]
    BY <1>3 DEF SendUnanswered
  <2>2. worker' = [worker EXCEPT ![w] = At(worker[w], "fail")]
    BY <1>1, <2>1, HandlerEntry
  <2>3. /\ At(worker[w], "fail") \in WorkerState /\ At(worker[w], "fail").pc = "fail"
        /\ At(worker[w], "fail").req = worker[w].req
    BY <1>1, HandlerStates
  <2> QED
    BY <1>1, <2>1, <2>2, <2>3, HandlerSends
<1> QED
  BY <1>2, <1>3

\* What handlers rely on survives every step of handlers, operators and chain.
LEMMA StepPayoutInv == PayoutTyped /\ PayoutInv /\ [PayoutNext]_payout => PayoutInv'
<1> SUFFICES ASSUME PayoutTyped, PayoutInv, [PayoutNext]_payout PROVE PayoutInv'
  OBVIOUS
<1>1. PayoutTyped'
  BY StepPayoutTyped
<1>2. ASSUME UNCHANGED <<request, worker, tx, forced>> PROVE PayoutInv'
  <2>1. \A w \in Workers : HandlerFits(w)'
    BY <1>2 DEF PayoutInv, HandlerFits, Engaged, GivenUp
  <2>2. OneHandler' /\ OneTx'
    BY <1>2 DEF PayoutInv, OneHandler, OneTx, Engaged
  <2>3. (\A t \in Txs : TxFits(t)') /\ \A r \in Requests : RequestFits(r)'
    BY <1>2 DEF PayoutInv, TxFits, RequestFits, GivenUp, Payouts
  <2> QED
    BY <2>1, <2>2, <2>3 DEF PayoutInv
<1>3. CASE UNCHANGED payout
  BY <1>2, <1>3 DEF payout
<1>4. CASE ChainStep
  <2> PICK t \in Txs : Mine(t) \/ Evict(t)
    BY <1>4 DEF ChainStep
  <2>1. /\ tx[t].status = "pool" /\ UNCHANGED <<request, worker, forced>>
        /\ \E s \in {"mined", "reverted", "dropped"} : tx' = Became(tx, t, s)
    BY DEF Mine, Evict, Became, ledger
  <2> QED
    BY <2>1, OnlyChainMoves
<1>5. CASE WorkerStep
  <2> PICK w \in Workers :
       \/ \E r \in Requests, a \in Accounts \ Desks, n \in Amounts : WithdrawRequest(w, r, a, n)
       \/ \E r \in Requests, retry \in BOOLEAN : Approve(w, r, retry)
       \/ Claim(w) \/ Refuse(w) \/ Respond(w) \/ ReadNonce(w)
       \/ \E t \in Txs : SendAccepted(w, t) \/ SendReplaces(w, t)
       \/ SendRefused(w) \/ WaitMined(w) \/ Confirm(w) \/ Fail(w) \/ Interrupt(w)
    BY <1>5 DEF WorkerStep
  <2> QED
    BY <1>1, AloneKeeps, ClaimKeeps, SettlingKeeps, SendingKeeps
<1>6. CASE RejectStep
  BY <1>6, OperatorKeeps DEF RejectStep
<1>7. CASE RecoverStep
  BY <1>7, OperatorKeeps DEF RecoverStep
<1>8. CASE UnansweredStep
  BY <1>8, SendingKeeps DEF UnansweredStep
<1>9. CASE SpendStep
  BY <1>2, <1>9 DEF SpendStep, SwapStep, Swap
<1> QED
  BY <1>3, <1>4, <1>5, <1>6, <1>7, <1>8, <1>9 DEF PayoutNext

\* At the start no handler is at work and nothing was sent.
LEMMA InitPayoutInv == PayoutInit => PayoutInv
<1> SUFFICES ASSUME PayoutInit PROVE PayoutInv
  OBVIOUS
<1>1. /\ \A w \in Workers : worker[w].pc = "idle"
      /\ \A t \in Txs : tx[t].status = "none" /\ tx[t].req = NoReq
      /\ \A r \in Requests : request[r].status = "none"
      /\ forced = {}
  BY DEF PayoutInit, LedgerInit, Idle, NoRequest
<1> QED
  BY <1>1 DEF PayoutInv, HandlerFits, Engaged, OneHandler, TxFits, OneTx, RequestFits

\* The invariant of the payout, for any number of handlers and transactions.
THEOREM PayoutInvariant == PayoutSpec => []PayoutInv
BY InitPayoutInv, StepPayoutInv, PayoutAlwaysTyped, PTL DEF PayoutSpec

-----------------------------------------------------------------------------
(* The theorems.                                                           *)

\* No request is paid twice, however many operators approve or retry it at
\* once and however their nonces collide.
THEOREM NoDoublePayout == PayoutSpec => []PaidAtMostOnce
<1>1. PayoutInv => PaidAtMostOnce
  <2> SUFFICES ASSUME PayoutInv, NEW r \in Requests PROVE Cardinality(Payouts(r)) <= 1
    BY DEF PaidAtMostOnce
  <2>1. \A s, t \in Payouts(r) : s = t
    BY PayoutAssumption DEF PayoutInv, OneTx, Payouts
  <2>2. CASE Payouts(r) = {}
    <3>1. Cardinality(Payouts(r)) = 0
      BY <2>2, FS_EmptySet
    <3> QED
      BY <3>1
  <2>3. CASE Payouts(r) # {}
    <3> PICK t \in Payouts(r) : TRUE
      BY <2>3
    <3>1. Payouts(r) = {t}
      BY <2>1
    <3>2. Cardinality(Payouts(r)) = 1
      BY <3>1, FS_Singleton
    <3> QED
      BY <3>2
  <2> QED
    BY <2>2, <2>3
<1> QED
  BY <1>1, PayoutInvariant, PTL

\* A request is only booked as paid when a payout for it was mined.
THEOREM BookedWerePaid == PayoutSpec => []ConfirmedWerePaid
<1>1. PayoutInv => ConfirmedWerePaid
  BY DEF PayoutInv, RequestFits, ConfirmedWerePaid
<1> QED
  BY <1>1, PayoutInvariant, PTL

\* Nothing is sent for a request before it is claimed, nor once it is rejected.
THEOREM NothingSentUnclaimed == PayoutSpec => []UnclaimedNeverSent
<1>1. PayoutInv => UnclaimedNeverSent
  BY PayoutAssumption DEF PayoutInv, TxFits, UnclaimedNeverSent
<1> QED
  BY <1>1, PayoutInvariant, PTL

\* A request marked failed by a handler has no transaction that its sender
\* knows of and that has paid it or still can.
THEOREM FailedStayUnpaid == PayoutSpec => []FailedNeverPaid
<1>1. PayoutInv => FailedNeverPaid
  BY DEF PayoutInv, RequestFits, GivenUp, FailedNeverPaid
<1> QED
  BY <1>1, PayoutInvariant, PTL

\* The request a handler waits for stays in processing until that handler
\* settles it, unless an operator forces it.
THEOREM OpenUntilReceipt == PayoutSpec => []ReceiptFindsRequestOpen
<1>1. PayoutInv => ReceiptFindsRequestOpen
  BY DEF PayoutInv, HandlerFits, Engaged, ReceiptFindsRequestOpen
<1> QED
  BY <1>1, PayoutInvariant, PTL
=============================================================================
