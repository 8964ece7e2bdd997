---------------------------- MODULE SignIn_proofs ---------------------------
(***************************************************************************)
(* Theorems about signing in, for every number of wallets, nonces and      *)
(* concurrent logins and every capacity of the store.                      *)
(***************************************************************************)
EXTENDS SignIn, FiniteSetTheorems, TLAPS

Store == [Wallets -> Entry]

-----------------------------------------------------------------------------
(* The store.                                                              *)

\* What is held is a finite set of wallets.
LEMMA HeldFinite ==
    ASSUME NEW s \in Store
    PROVE  IsFiniteSet(Held(s)) /\ Cardinality(Held(s)) \in Nat
<1>1. Held(s) \subseteq Wallets /\ IsFiniteSet(Wallets)
  BY SignInAssumption DEF Held
<1> QED
  BY <1>1, FS_Subset, FS_CardinalityType

\* A store that holds no more wallets than another is no larger.
LEMMA HeldShrinks ==
    ASSUME NEW s \in Store, NEW t \in Store, Held(t) \subseteq Held(s)
    PROVE  Cardinality(Held(t)) <= Cardinality(Held(s))
<1>1. IsFiniteSet(Held(s))
  BY HeldFinite
<1> QED
  BY <1>1, FS_Subset

\* Taking an entry out, or the expired ones, or letting one expire.
LEMMA StoreTypes ==
    ASSUME NEW s \in Store, NEW w \in Wallets
    PROVE  /\ DropExpired(s) \in Store /\ Held(DropExpired(s)) \subseteq Held(s)
           /\ [s EXCEPT ![w] = NoEntry] \in Store
           /\ Held([s EXCEPT ![w] = NoEntry]) \subseteq Held(s)
           /\ [s EXCEPT ![w].expired = TRUE] \in Store
           /\ Held([s EXCEPT ![w].expired = TRUE]) \subseteq Held(s)
<1>1. NoEntry \in Entry /\ NoEntry.nonce = NoNonce
  BY DEF NoEntry, Entry
<1>2. DropExpired(s) \in Store /\ Held(DropExpired(s)) \subseteq Held(s)
  BY <1>1 DEF DropExpired, Held, Store
<1>3. /\ [s EXCEPT ![w] = NoEntry] \in Store
      /\ Held([s EXCEPT ![w] = NoEntry]) \subseteq Held(s)
  BY <1>1 DEF Held, Store
<1>4. /\ [s EXCEPT ![w].expired = TRUE] \in Store
      /\ Held([s EXCEPT ![w].expired = TRUE]) \subseteq Held(s)
  BY DEF Held, Store, Entry
<1> QED
  BY <1>2, <1>3, <1>4

\* An entry written into a store that is not full leaves it within capacity.
LEMMA WriteFits ==
    ASSUME NEW s \in Store, NEW w \in Wallets, NEW e \in Entry, ~Full(s)
    PROVE  /\ [s EXCEPT ![w] = e] \in Store
           /\ Cardinality(Held([s EXCEPT ![w] = e])) <= nonceMax
<1> DEFINE t == [s EXCEPT ![w] = e]
<1>1. t \in Store
  BY DEF Store
<1>2. Held(t) \subseteq Held(s) \cup {w}
  BY DEF Held, Store
<1>3. IsFiniteSet(Held(s)) /\ Cardinality(Held(s)) \in Nat
  BY HeldFinite
<1>4. /\ IsFiniteSet(Held(s) \cup {w})
      /\ Cardinality(Held(s) \cup {w}) <= Cardinality(Held(s)) + 1
  <2>1. /\ IsFiniteSet(Held(s) \cup {w})
        /\ \/ Cardinality(Held(s) \cup {w}) = Cardinality(Held(s))
           \/ Cardinality(Held(s) \cup {w}) = Cardinality(Held(s)) + 1
    BY <1>3, FS_AddElement
  <2> QED
    BY <1>3, <2>1
<1>5. Cardinality(Held(t)) <= Cardinality(Held(s) \cup {w})
  BY <1>2, <1>4, FS_Subset
<1>6. /\ Cardinality(Held(t)) \in Nat /\ Cardinality(Held(s) \cup {w}) \in Nat
      /\ nonceMax \in Nat
  BY <1>1, <1>4, HeldFinite, FS_CardinalityType, SignInAssumption
<1>7. Cardinality(Held(s)) < nonceMax
  BY <1>3, <1>6 DEF Full
<1> HIDE DEF t
<1>8. Cardinality(Held(t)) <= nonceMax
  BY <1>3, <1>4, <1>5, <1>6, <1>7
<1> QED
  BY <1>1, <1>8 DEF t

-----------------------------------------------------------------------------
(* Types.                                                                  *)

\* A step that keeps or shrinks what the store holds keeps its capacity.
LEMMA CapacityKept ==
    ASSUME TypeOK, entries' \in Store, Held(entries') \subseteq Held(entries)
    PROVE  entries' \in [Wallets -> Entry] /\ Cardinality(Held(entries')) <= nonceMax
<1>1. entries \in Store /\ Cardinality(Held(entries)) <= nonceMax
  BY DEF TypeOK, Store
<1>2. Cardinality(Held(entries')) <= Cardinality(Held(entries))
  BY <1>1, HeldShrinks
<1>3. /\ Cardinality(Held(entries')) \in Nat /\ Cardinality(Held(entries)) \in Nat
      /\ nonceMax \in Nat
  BY <1>1, HeldFinite, SignInAssumption
<1> QED
  BY <1>1, <1>2, <1>3 DEF Store

\* A login that moves to another place keeps the type of all.
LEMMA LoginTypes ==
    ASSUME TypeOK, NEW l \in Logins,
           NEW pc \in {"none", "consume", "find", "create", "accepted", "refused"}
    PROVE  [login EXCEPT ![l].pc = pc] \in [Logins -> LoginState]
BY DEF TypeOK, LoginState

\* A challenge is written only where there is room.
LEMMA CreateTypeOK ==
    ASSUME TypeOK, NEW w \in Wallets, Create(w)
    PROVE  TypeOK'
<1>1. entries \in Store
  BY DEF TypeOK, Store
<1>2. RoomFor \in Store /\ Held(RoomFor) \subseteq Held(entries)
  BY <1>1, StoreTypes DEF RoomFor
<1> PICK n \in Nonces \ issued :
          IF Full(RoomFor)
          THEN entries' = RoomFor /\ UNCHANGED issued
          ELSE /\ entries' = [RoomFor EXCEPT ![w] = [nonce |-> n, expired |-> FALSE]]
               /\ issued' = issued \cup {n}
  BY DEF Create
<1>3. UNCHANGED <<users, login, boots>>
  BY DEF Create
<1>4. CASE Full(RoomFor)
  <2>1. entries' \in [Wallets -> Entry] /\ Cardinality(Held(entries')) <= nonceMax
    BY <1>2, <1>4, CapacityKept
  <2> QED
    BY <1>3, <1>4, <2>1 DEF TypeOK
<1>5. CASE ~Full(RoomFor)
  <2>1. [nonce |-> n, expired |-> FALSE] \in Entry
    BY DEF Entry
  <2>2. entries' \in Store /\ Cardinality(Held(entries')) <= nonceMax
    BY <1>2, <1>5, <2>1, WriteFits
  <2> QED
    BY <1>3, <1>5, <2>2 DEF TypeOK, Store
<1> QED
  BY <1>4, <1>5

\* A login under way is that of a wallet, over a nonce that was handed out.
LoginsBound ==
    \A l \in Logins : login[l].pc # "none" =>
        login[l].wallet \in Wallets /\ login[l].nonce \in issued

\* Every step keeps the types.
LEMMA NextTypeOK == TypeOK /\ LoginsBound /\ [Next]_vars => TypeOK'
<1> SUFFICES ASSUME TypeOK, LoginsBound, [Next]_vars PROVE TypeOK'
  OBVIOUS
<1>1. entries \in Store
  BY DEF TypeOK, Store
<1>2. CASE UNCHANGED vars
  BY <1>2 DEF vars, TypeOK
<1>3. CASE Reap
  <2>1. entries' \in Store /\ Held(entries') \subseteq Held(entries)
    BY <1>1, <1>3 DEF Reap, DropExpired, Held, Store, Entry, NoEntry
  <2>2. entries' \in [Wallets -> Entry] /\ Cardinality(Held(entries')) <= nonceMax
    BY <2>1, CapacityKept
  <2> QED
    BY <1>3, <2>2 DEF Reap, TypeOK
<1>4. ASSUME NEW w \in Wallets, Expire(w) PROVE TypeOK'
  <2>1. entries' \in Store /\ Held(entries') \subseteq Held(entries)
    BY <1>1, <1>4, StoreTypes DEF Expire
  <2>2. entries' \in [Wallets -> Entry] /\ Cardinality(Held(entries')) <= nonceMax
    BY <2>1, CapacityKept
  <2> QED
    BY <1>4, <2>2 DEF Expire, TypeOK
<1>5. ASSUME NEW l \in Logins, NEW w \in Wallets, NEW n \in Nonces, Request(l, w, n)
      PROVE  TypeOK'
  <2>1. login' \in [Logins -> LoginState]
    BY <1>5 DEF Request, TypeOK, LoginState
  <2> QED
    BY <1>5, <2>1 DEF Request, TypeOK
<1>6. ASSUME NEW l \in Logins, Consume(l) PROVE TypeOK'
  <2> DEFINE w == login[l].wallet
  <2>1. entries' = [entries EXCEPT ![w] = NoEntry]
    BY <1>6 DEF Consume, TakenFromStore
  <2>2. entries' \in Store /\ Held(entries') \subseteq Held(entries)
    BY <1>1, <2>1 DEF Held, Store, Entry, NoEntry
  <2>3. entries' \in [Wallets -> Entry] /\ Cardinality(Held(entries')) <= nonceMax
    BY <2>2, CapacityKept
  <2>4. login' \in [Logins -> LoginState]
    BY <1>6, LoginTypes DEF Consume, Goto
  <2> QED
    BY <1>6, <2>3, <2>4 DEF Consume, TypeOK
<1>7. ASSUME NEW l \in Logins, FindUser(l) \/ LoginFails(l) PROVE TypeOK'
  <2>1. Goto(l, "accepted") \/ Goto(l, "create") \/ Goto(l, "refused")
    BY <1>7 DEF FindUser, LoginFails
  <2>2. login' \in [Logins -> LoginState]
    BY <2>1 DEF Goto, TypeOK, LoginState
  <2> QED
    BY <1>7, <2>2 DEF FindUser, LoginFails, TypeOK
<1>8. ASSUME NEW l \in Logins, CreateUser(l) PROVE TypeOK'
  <2>1. login' \in [Logins -> LoginState]
    BY <1>8, LoginTypes DEF CreateUser, Goto
  <2>2. login[l].wallet \in Wallets
    BY <1>8 DEF CreateUser, LoginsBound
  <2> QED
    BY <1>8, <2>1, <2>2 DEF CreateUser, TypeOK
<1>9. CASE Restart
  <2>1. entries' \in Store /\ Held(entries') \subseteq Held(entries)
    BY <1>9 DEF Restart, Held, Store, Entry, NoEntry
  <2>2. entries' \in [Wallets -> Entry] /\ Cardinality(Held(entries')) <= nonceMax
    BY <2>1, CapacityKept
  <2>3. login' \in [Logins -> LoginState]
    BY <1>9 DEF Restart, TypeOK, LoginState
  <2>4. boots' \in 0..MaxRestarts
    BY <1>9, SignInAssumption DEF Restart, TypeOK
  <2> QED
    BY <1>9, <2>2, <2>3, <2>4 DEF Restart, TypeOK
<1> QED
  BY <1>2, <1>3, <1>4, <1>5, <1>6, <1>7, <1>8, <1>9, CreateTypeOK DEF Next

-----------------------------------------------------------------------------
(* Nonces.                                                                 *)

\* What is stored was handed out, and no two wallets share a nonce.
StoreFresh ==
    \A w \in Wallets :
        /\ entries[w].nonce \in issued \cup {NoNonce}
        /\ \A v \in Wallets \ {w} : entries[w].nonce # NoNonce => entries[v].nonce # entries[w].nonce

\* A nonce that has let a login through is in the store no more.
SpentAreGone == \A l \in Passed, w \in Wallets : entries[w].nonce # login[l].nonce

NonceInv == TypeOK /\ LoginsBound /\ StoreFresh /\ SpentAreGone /\ NonceUsedOnce

\* Entries that only disappear or expire disturb nothing.
LEMMA StoreShrinks ==
    ASSUME NonceInv, TypeOK', UNCHANGED <<issued, login>>,
           \A w \in Wallets : entries'[w].nonce \in {entries[w].nonce, NoNonce}
    PROVE  NonceInv'
<1>1. NoNonce \notin issued
  BY SignInAssumption DEF NonceInv, TypeOK
<1>2. Passed' = Passed /\ NonceUsedOnce'
  BY DEF NonceInv, Passed, NonceUsedOnce
<1>3. \A l \in Passed : login[l].nonce \in issued
  BY DEF NonceInv, LoginsBound, Passed
<1>4. LoginsBound'
  BY DEF NonceInv, LoginsBound
<1>5. StoreFresh'
  BY DEF NonceInv, StoreFresh
<1>6. SpentAreGone'
  BY <1>1, <1>2, <1>3 DEF NonceInv, SpentAreGone
<1> QED
  BY <1>2, <1>4, <1>5, <1>6 DEF NonceInv

\* A new challenge carries a nonce nobody has had before.
LEMMA CreateNonce ==
    ASSUME NonceInv, TypeOK', NEW w \in Wallets, Create(w)
    PROVE  NonceInv'
<1>1. /\ UNCHANGED login
      /\ \A v \in Wallets : RoomFor[v].nonce \in {entries[v].nonce, NoNonce}
  BY DEF Create, RoomFor, DropExpired, NoEntry
<1> PICK n \in Nonces \ issued :
          IF Full(RoomFor)
          THEN entries' = RoomFor /\ UNCHANGED issued
          ELSE /\ entries' = [RoomFor EXCEPT ![w] = [nonce |-> n, expired |-> FALSE]]
               /\ issued' = issued \cup {n}
  BY DEF Create
<1>2. CASE Full(RoomFor)
  BY <1>1, <1>2, StoreShrinks
<1>3. CASE ~Full(RoomFor)
  <2>1. /\ issued' = issued \cup {n} /\ n # NoNonce
        /\ \A v \in Wallets : entries'[v].nonce = IF v = w THEN n ELSE RoomFor[v].nonce
    <3>1. DOMAIN RoomFor = Wallets
      BY DEF RoomFor, DropExpired, NonceInv, TypeOK
    <3> QED
      BY <1>3, <3>1, SignInAssumption
  <2>2. Passed' = Passed /\ NonceUsedOnce'
    BY <1>1 DEF NonceInv, Passed, NonceUsedOnce
  <2>3. \A l \in Passed : login[l].nonce \in issued /\ login[l].nonce # NoNonce
    BY SignInAssumption DEF NonceInv, LoginsBound, Passed, TypeOK
  <2>4. LoginsBound'
    BY <1>1, <2>1 DEF NonceInv, LoginsBound
  <2>5. StoreFresh'
    BY <1>1, <2>1 DEF NonceInv, StoreFresh
  <2>6. SpentAreGone'
    BY <1>1, <2>1, <2>2, <2>3 DEF NonceInv, SpentAreGone
  <2> QED
    BY <2>2, <2>4, <2>5, <2>6 DEF NonceInv
<1> QED
  BY <1>2, <1>3

\* Consume takes the entry out whether it fits or not; the login passes only
\* over the nonce that was there, which no other login can find any more.
LEMMA ConsumeNonce ==
    ASSUME NonceInv, TypeOK', NEW l \in Logins, Consume(l)
    PROVE  NonceInv'
<1> DEFINE w == login[l].wallet
<1>1. /\ login[l].pc = "consume" /\ UNCHANGED <<issued, users>>
      /\ entries' = [entries EXCEPT ![w] = NoEntry]
      /\ w \in Wallets /\ login[l].nonce \in issued
  BY DEF Consume, TakenFromStore, NonceInv, LoginsBound
<1>2. /\ \A m \in Logins : /\ login'[m].nonce = login[m].nonce
                            /\ login'[m].wallet = login[m].wallet
      /\ \A m \in Logins \ {l} : login'[m] = login[m]
      /\ login'[l].pc = IF Valid(entries[w], login[l].nonce) THEN "find" ELSE "refused"
  BY DEF Consume, Goto, NonceInv, TypeOK, LoginState
<1>3. \A v \in Wallets : entries'[v].nonce = IF v = w THEN NoNonce ELSE entries[v].nonce
  BY <1>1 DEF NoEntry, NonceInv, TypeOK
<1>4. NoNonce \notin issued
  BY SignInAssumption DEF NonceInv, TypeOK
<1>5. LoginsBound'
  BY <1>1, <1>2 DEF NonceInv, LoginsBound
<1>6. StoreFresh'
  BY <1>1, <1>3 DEF NonceInv, StoreFresh
<1>7. l \notin Passed
  BY <1>1 DEF Passed
<1>8. Passed' \subseteq Passed \cup {l}
  BY <1>2 DEF Passed
<1>9. l \in Passed' => entries[w].nonce = login[l].nonce
  BY <1>2 DEF Passed, Valid
<1>10. NonceUsedOnce'
  <2>1. ASSUME l \in Passed', NEW m \in Passed PROVE login[m].nonce # login[l].nonce
    BY <1>1, <1>9, <2>1 DEF NonceInv, SpentAreGone
  <2>2. \A m \in Passed, k \in Passed : login[m].nonce = login[k].nonce => m = k
    BY DEF NonceInv, NonceUsedOnce
  <2>3. Passed' \subseteq Logins
    BY DEF Passed
  <2> QED
    BY <1>2, <1>8, <2>1, <2>2, <2>3 DEF NonceUsedOnce
<1>11. SpentAreGone'
  <2>1. ASSUME NEW m \in Passed', NEW v \in Wallets PROVE entries'[v].nonce # login'[m].nonce
    <3>1. CASE m = l
      BY <1>1, <1>2, <1>3, <1>4, <1>9, <2>1, <3>1 DEF NonceInv, StoreFresh
    <3>2. CASE m # l
      <4>1. m \in Passed /\ login[m].nonce \in issued /\ login'[m].nonce = login[m].nonce
        BY <1>2, <1>8, <2>1, <3>2 DEF NonceInv, LoginsBound, Passed
      <4> QED
        BY <1>3, <1>4, <4>1 DEF NonceInv, SpentAreGone
    <3> QED
      BY <3>1, <3>2
  <2> QED
    BY <2>1 DEF SpentAreGone
<1> QED
  BY <1>5, <1>6, <1>10, <1>11 DEF NonceInv

\* Later steps of a login change neither its nonce nor whether it has passed,
\* except to refuse it.
LEMMA LaterNonce ==
    ASSUME NonceInv, TypeOK', UNCHANGED <<entries, issued>>, NEW l \in Logins,
           login[l].pc \in {"find", "create"},
           NEW pc \in {"create", "accepted", "refused"},
           login' = [login EXCEPT ![l].pc = pc]
    PROVE  NonceInv'
<1>1. \A m \in Logins : /\ login'[m].nonce = login[m].nonce
                        /\ login'[m].wallet = login[m].wallet
                        /\ m # l => login'[m] = login[m]
  BY DEF NonceInv, TypeOK, LoginState
<1>2. Passed' \subseteq Passed /\ Passed \subseteq Logins
  BY <1>1 DEF Passed
<1>3. LoginsBound'
  BY <1>1 DEF NonceInv, LoginsBound
<1>4. StoreFresh'
  BY DEF NonceInv, StoreFresh
<1>5. SpentAreGone'
  BY <1>1, <1>2 DEF NonceInv, SpentAreGone
<1>6. NonceUsedOnce'
  BY <1>1, <1>2 DEF NonceInv, NonceUsedOnce
<1> QED
  BY <1>3, <1>4, <1>5, <1>6 DEF NonceInv

\* A new login request has not passed yet.
LEMMA RequestNonce ==
    ASSUME NonceInv, TypeOK', NEW l \in Logins, NEW w \in Wallets, NEW n \in Nonces,
           Request(l, w, n)
    PROVE  NonceInv'
<1>1. /\ n \in issued /\ UNCHANGED <<entries, issued>>
      /\ login'[l] = [pc |-> "consume", wallet |-> w, nonce |-> n]
      /\ \A m \in Logins \ {l} : login'[m] = login[m]
  BY DEF Request, NonceInv, TypeOK
<1>2. Passed' = Passed /\ \A m \in Passed : login'[m] = login[m]
  BY <1>1 DEF Passed, Request
<1>3. LoginsBound'
  BY <1>1 DEF NonceInv, LoginsBound
<1>4. StoreFresh'
  BY <1>1 DEF NonceInv, StoreFresh
<1>5. SpentAreGone'
  BY <1>1, <1>2 DEF NonceInv, SpentAreGone
<1>6. NonceUsedOnce'
  BY <1>2 DEF NonceInv, NonceUsedOnce
<1> QED
  BY <1>3, <1>4, <1>5, <1>6 DEF NonceInv

\* A restart forgets challenges and refuses logins, and lets none through.
LEMMA RestartNonce ==
    ASSUME NonceInv, TypeOK', Restart
    PROVE  NonceInv'
<1>1. \A l \in Logins : /\ login'[l].nonce = login[l].nonce
                        /\ login'[l].wallet = login[l].wallet
                        /\ login[l].pc = "none" <=> login'[l].pc = "none"
                        /\ l \in Passed' => l \in Passed
  BY DEF Restart, NonceInv, TypeOK, LoginState, Passed
<1>2. Passed' \subseteq Passed /\ Passed \subseteq Logins
  BY <1>1 DEF Passed
<1>3. UNCHANGED issued /\ \A w \in Wallets : entries'[w].nonce = NoNonce
  BY DEF Restart, NoEntry
<1>4. LoginsBound'
  BY <1>1, <1>3 DEF NonceInv, LoginsBound
<1>5. StoreFresh'
  BY <1>3 DEF NonceInv, StoreFresh
<1>6. SpentAreGone'
  <2>1. \A l \in Passed : login[l].nonce \in issued
    BY DEF NonceInv, LoginsBound, Passed
  <2>2. NoNonce \notin issued
    BY SignInAssumption DEF NonceInv, TypeOK
  <2> QED
    BY <1>1, <1>2, <1>3, <2>1, <2>2 DEF SpentAreGone
<1>7. NonceUsedOnce'
  BY <1>1, <1>2 DEF NonceInv, NonceUsedOnce
<1> QED
  BY <1>4, <1>5, <1>6, <1>7 DEF NonceInv

\* Every step keeps the invariant: the actions that touch nonces have lemmas of
\* their own above.
LEMMA NextNonceInv == NonceInv /\ [Next]_vars => NonceInv'
<1> SUFFICES ASSUME NonceInv, [Next]_vars PROVE NonceInv'
  OBVIOUS
<1>1. TypeOK'
  BY NextTypeOK DEF NonceInv
<1>2. CASE UNCHANGED vars \/ Reap \/ \E w \in Wallets : Expire(w)
  <2>1. UNCHANGED <<issued, login>>
    BY <1>2 DEF vars, Reap, Expire
  <2>2. \A v \in Wallets : entries'[v].nonce \in {entries[v].nonce, NoNonce}
    BY <1>2 DEF vars, Reap, Expire, DropExpired, NoEntry, NonceInv, TypeOK, Entry
  <2> QED
    BY <1>1, <2>1, <2>2, StoreShrinks
<1>3. ASSUME NEW l \in Logins, FindUser(l) \/ CreateUser(l) \/ LoginFails(l)
      PROVE  NonceInv'
  <2>1. /\ UNCHANGED <<entries, issued>> /\ login[l].pc \in {"find", "create"}
        /\ \E pc \in {"create", "accepted", "refused"} : login' = [login EXCEPT ![l].pc = pc]
    BY <1>3 DEF FindUser, CreateUser, LoginFails, Goto
  <2> QED
    BY <1>1, <2>1, LaterNonce
<1> QED
  BY <1>1, <1>2, <1>3, CreateNonce, ConsumeNonce, RequestNonce, RestartNonce DEF Next

\* The store starts empty and no login has a nonce.
LEMMA InitNonceInv == Init => NonceInv
<1> SUFFICES ASSUME Init PROVE NonceInv
  OBVIOUS
<1>1. Held(entries) = {} /\ Passed = {}
  BY DEF Init, Held, NoEntry, Passed
<1>2. Cardinality(Held(entries)) <= nonceMax
  BY <1>1, FS_EmptySet, SignInAssumption
<1>3. TypeOK
  BY <1>2, SignInAssumption DEF Init, TypeOK, Entry, NoEntry, LoginState
<1>4. LoginsBound /\ StoreFresh
  BY DEF Init, LoginsBound, StoreFresh, NoEntry
<1> QED
  BY <1>1, <1>3, <1>4 DEF NonceInv, SpentAreGone, NonceUsedOnce

\* For any number of wallets, concurrent logins and store capacity: the store
\* never exceeds its capacity, and no nonce lets two logins through.
THEOREM NonceCorrect == Spec => []NonceInv
BY InitNonceInv, NextNonceInv, PTL DEF Spec

\* However logins with one signature interleave with each other, with eviction
\* and with expiry, no nonce lets two of them through.
THEOREM NonceOnce == Spec => []NonceUsedOnce
<1>1. NonceInv => NonceUsedOnce
  BY DEF NonceInv
<1> QED
  BY <1>1, NonceCorrect, PTL

\* The store of challenges never holds more than its capacity, and every login
\* and user keeps its type.
THEOREM CapacityKeptAlways == Spec => []TypeOK
<1>1. NonceInv => TypeOK
  BY DEF NonceInv
<1> QED
  BY <1>1, NonceCorrect, PTL

-----------------------------------------------------------------------------
(* Challenges.                                                             *)

\* A live entry is still there, unless a login of its wallet has moved.
Stays(w) ==
    (entries[w].nonce # NoNonce /\ ~entries[w].expired /\ entries'[w] = NoEntry)
       => \E l \in Logins : login[l].wallet = w /\ login'[l].pc # login[l].pc

\* Dropping the expired entries, or writing a new challenge, leaves every live
\* entry or puts another in its place.
LEMMA CreateKeeps ==
    ASSUME TypeOK, NEW v \in Wallets, Create(v), NEW w \in Wallets
    PROVE  Stays(w)
<1> SUFFICES ASSUME entries[w].nonce # NoNonce, ~entries[w].expired PROVE entries'[w] # NoEntry
  BY DEF Stays
<1>1. RoomFor[w] = entries[w] /\ entries[w] # NoEntry
  BY DEF RoomFor, DropExpired, NoEntry
<1>2. RoomFor \in Store
  BY StoreTypes DEF TypeOK, Store, RoomFor
<1> PICK n \in Nonces \ issued :
          IF Full(RoomFor)
          THEN entries' = RoomFor /\ UNCHANGED issued
          ELSE /\ entries' = [RoomFor EXCEPT ![v] = [nonce |-> n, expired |-> FALSE]]
               /\ issued' = issued \cup {n}
  BY DEF Create
<1>3. CASE Full(RoomFor)
  BY <1>1, <1>3
<1>4. CASE ~Full(RoomFor)
  <2>1. n # NoNonce
    BY SignInAssumption
  <2>2. entries'[w] = IF w = v THEN [nonce |-> n, expired |-> FALSE] ELSE RoomFor[w]
    BY <1>2, <1>4 DEF Store
  <2> QED
    BY <1>1, <2>1, <2>2 DEF NoEntry
<1> QED
  BY <1>3, <1>4

\* Only the login that consumes it takes a live entry out.
LEMMA ConsumeKeeps ==
    ASSUME TypeOK, LoginsBound, NEW m \in Logins, Consume(m), NEW w \in Wallets
    PROVE  Stays(w)
<1> SUFFICES ASSUME entries[w].nonce # NoNonce, entries'[w] = NoEntry
             PROVE  \E l \in Logins : login[l].wallet = w /\ login'[l].pc # login[l].pc
  BY DEF Stays
<1>1. entries[w] # NoEntry
  BY DEF NoEntry
<1>2. w = login[m].wallet
  BY <1>1 DEF Consume, TakenFromStore, TypeOK
<1>3. login[m].pc = "consume" /\ login'[m].pc \in {"find", "refused"}
  BY DEF Consume, Goto, TypeOK, LoginState
<1> QED
  BY <1>2, <1>3

\* A wallet loses a live challenge only to its own login, its own next
\* challenge or a restart, however many wallets share the store and however
\* small it is.
THEOREM ChallengesKept == Spec => LiveChallengesStay
<1>1. ASSUME NonceInv, [Next]_vars
      PROVE  [boots' = boots => \A w \in Wallets : Stays(w)]_vars
  <2> SUFFICES ASSUME Next, boots' = boots, NEW w \in Wallets PROVE Stays(w)
    BY <1>1
  <2>1. TypeOK /\ LoginsBound /\ entries \in [Wallets -> Entry] /\ boots \in Nat
    BY <1>1, SignInAssumption DEF NonceInv, TypeOK
  <2>2. CASE UNCHANGED entries
    BY <2>2 DEF Stays, NoEntry
  <2>3. CASE Reap
    BY <2>3 DEF Reap, DropExpired, Stays, NoEntry
  <2>4. CASE Restart
    BY <2>1, <2>4 DEF Restart
  <2>5. CASE \E v \in Wallets : Create(v)
    BY <2>1, <2>5, CreateKeeps
  <2>6. CASE \E v \in Wallets : Expire(v)
    <3> PICK v \in Wallets : Expire(v)
      BY <2>6
    <3>1. entries'[w].nonce = entries[w].nonce
      BY <2>1 DEF Expire, Entry
    <3> QED
      BY <3>1 DEF Stays, NoEntry
  <2>7. CASE \E l \in Logins : Consume(l)
    BY <2>1, <2>7, ConsumeKeeps
  <2>8. CASE \E l \in Logins : \/ \E v \in Wallets, n \in Nonces : Request(l, v, n)
                               \/ FindUser(l) \/ CreateUser(l) \/ LoginFails(l)
    <3>1. UNCHANGED entries
      BY <2>8 DEF Request, FindUser, CreateUser, LoginFails
    <3> QED
      BY <2>2, <3>1
  <2> QED
    BY <2>3, <2>4, <2>5, <2>6, <2>7, <2>8 DEF Next
<1>2. NonceInv /\ [Next]_vars =>
        [boots' = boots => \A w \in Wallets :
          (entries[w].nonce # NoNonce /\ ~entries[w].expired /\ entries'[w] = NoEntry)
            => \E l \in Logins : login[l].wallet = w /\ login'[l].pc # login[l].pc]_vars
  BY <1>1 DEF Stays
<1> QED
  BY <1>2, NonceCorrect, PTL DEF Spec, LiveChallengesStay
=============================================================================
