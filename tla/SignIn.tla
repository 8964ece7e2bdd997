------------------------------- MODULE SignIn -------------------------------
(***************************************************************************)
(* Signing in with a wallet: the store of one-time nonces, bounded and     *)
(* swept of expired entries, and login handlers that run concurrently.     *)
(* The store's mutex makes Create, Consume and the reaper one step each;   *)
(* the database calls of a login are steps of their own.                   *)
(***************************************************************************)
EXTENDS Integers, FiniteSets

CONSTANTS
    Wallets,       \* lower-cased addresses
    Nonces,        \* random values that may be drawn
    Logins,        \* login requests that may come to be made
    nonceMax,      \* entries the store may hold, 100000 in the code
    MaxRestarts,   \* bound: restarts of the server
    NoNonce, NoWallet

ASSUME SignInAssumption ==
    /\ IsFiniteSet(Wallets) /\ nonceMax \in Nat \ {0} /\ MaxRestarts \in Nat
    /\ NoNonce \notin Nonces /\ NoWallet \notin Wallets

VARIABLES
    entries,       \* the store: the nonce of a wallet and whether it expired
    issued,        \* nonces handed out so far
    users,         \* wallets with a users row
    login,         \* the login requests
    boots          \* restarts so far

vars == <<entries, issued, users, login, boots>>

NoEntry == [nonce |-> NoNonce, expired |-> FALSE]
Entry == [nonce : Nonces \cup {NoNonce}, expired : BOOLEAN]

LoginState ==
    [pc : {"none", "consume", "find", "create", "accepted", "refused"},
     wallet : Wallets \cup {NoWallet}, nonce : Nonces \cup {NoNonce}]

Init ==
    /\ entries = [w \in Wallets |-> NoEntry]
    /\ issued = {} /\ users = {}
    /\ login = [l \in Logins |-> [pc |-> "none", wallet |-> NoWallet, nonce |-> NoNonce]]
    /\ boots = 0

-----------------------------------------------------------------------------
(* NonceStore.                                                             *)

Held(store) == {w \in Wallets : store[w].nonce # NoNonce}

\* Mutated form: making room drops every entry.
DropAll(store) == [w \in Wallets |-> NoEntry]

DropExpired(store) == [w \in Wallets |-> IF store[w].expired THEN NoEntry ELSE store[w]]

\* Mutated form: one entry too many is let in.
FullPast(store) == Cardinality(Held(store)) > nonceMax

Full(store) == Cardinality(Held(store)) >= nonceMax

\* The store Create writes into: expired entries go when it is full.
RoomFor == IF Full(entries) THEN DropExpired(entries) ELSE entries

\* A full store without expired entries refuses, also a wallet it holds.
Create(w) ==
    /\ \E n \in Nonces \ issued :
          IF Full(RoomFor)
          THEN entries' = RoomFor /\ UNCHANGED issued
          ELSE /\ entries' = [RoomFor EXCEPT ![w] = [nonce |-> n, expired |-> FALSE]]
               /\ issued' = issued \cup {n}
    /\ UNCHANGED <<users, login, boots>>

\* Five minutes have passed since the entry was written.
Expire(w) ==
    /\ entries[w].nonce # NoNonce /\ ~entries[w].expired
    /\ entries' = [entries EXCEPT ![w].expired = TRUE]
    /\ UNCHANGED <<issued, users, login, boots>>

Reap ==
    /\ entries' = DropExpired(entries)
    /\ UNCHANGED <<issued, users, login, boots>>

-----------------------------------------------------------------------------
(* Login.                                                                  *)

Goto(l, pc) == login' = [login EXCEPT ![l].pc = pc]

\* A request signed with the key of w over some nonce that was handed out.
Request(l, w, n) ==
    /\ login[l].pc = "none"
    /\ n \in issued
    /\ login' = [login EXCEPT ![l] = [pc |-> "consume", wallet |-> w, nonce |-> n]]
    /\ UNCHANGED <<entries, issued, users, boots>>

\* Mutated form: the entry stays until it expires.
LeftInStore(w) == entries

TakenFromStore(w) == [entries EXCEPT ![w] = NoEntry]

\* Consume and VerifySignature: the entry must be live and be what was signed.
Valid(e, n) == e.nonce = n /\ ~e.expired

Consume(l) ==
    LET w == login[l].wallet
    IN  /\ login[l].pc = "consume"
        /\ entries' = TakenFromStore(w)
        /\ Goto(l, IF Valid(entries[w], login[l].nonce) THEN "find" ELSE "refused")
        /\ UNCHANGED <<issued, users, boots>>

\* FindOrCreate: the read, and the insert when there was no user.
FindUser(l) ==
    /\ login[l].pc = "find"
    /\ Goto(l, IF login[l].wallet \in users THEN "accepted" ELSE "create")
    /\ UNCHANGED <<entries, issued, users, boots>>

CreateUser(l) ==
    /\ login[l].pc = "create"
    /\ IF login[l].wallet \in users
       THEN UNCHANGED users /\ Goto(l, "refused")
       ELSE users' = users \cup {login[l].wallet} /\ Goto(l, "accepted")
    /\ UNCHANGED <<entries, issued, boots>>

\* A database error in FindOrCreate.
LoginFails(l) ==
    /\ login[l].pc \in {"find", "create"}
    /\ Goto(l, "refused")
    /\ UNCHANGED <<entries, issued, users, boots>>

\* The server is restarted: the store is empty again, and clients of requests
\* under way see an error.
Restart ==
    /\ boots < MaxRestarts
    /\ boots' = boots + 1
    /\ entries' = [w \in Wallets |-> NoEntry]
    /\ login' = [l \in Logins |->
                    IF login[l].pc \in {"consume", "find", "create"}
                    THEN [login[l] EXCEPT !.pc = "refused"] ELSE login[l]]
    /\ UNCHANGED <<issued, users>>

Next ==
    \/ Reap \/ Restart
    \/ \E w \in Wallets : Create(w) \/ Expire(w)
    \/ \E l \in Logins :
          \/ \E w \in Wallets, n \in Nonces : Request(l, w, n)
          \/ Consume(l) \/ FindUser(l) \/ CreateUser(l) \/ LoginFails(l)

Spec == Init /\ [][Next]_vars

-----------------------------------------------------------------------------
(* Properties.                                                             *)

\* The store never exceeds its capacity, and every variable has its type.
TypeOK ==
    /\ entries \in [Wallets -> Entry]
    /\ Cardinality(Held(entries)) <= nonceMax
    /\ issued \subseteq Nonces /\ users \subseteq Wallets
    /\ login \in [Logins -> LoginState]
    /\ boots \in 0..MaxRestarts

Passed == {l \in Logins : login[l].pc \in {"find", "create", "accepted"}}

\* A nonce lets at most one login through, however many requests carrying the
\* same signature arrive at once or on both sides of a restart.
NonceUsedOnce == \A l, m \in Passed : login[l].nonce = login[m].nonce => l = m

\* A live challenge of a wallet goes away only when a login or a new challenge
\* of that wallet replaces it, or the server restarts: neither the reaper nor
\* the making of room in a full store costs another wallet its challenge.
LiveChallengesStay ==
    [][boots' = boots => \A w \in Wallets :
          (entries[w].nonce # NoNonce /\ ~entries[w].expired /\ entries'[w] = NoEntry)
            => \E l \in Logins : login[l].wallet = w /\ login'[l].pc # login[l].pc]_vars
=============================================================================
