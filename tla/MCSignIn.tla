------------------------------ MODULE MCSignIn ------------------------------
(***************************************************************************)
(* A small instance of signing in for TLC.                                 *)
(***************************************************************************)
EXTENDS SignIn, TLC

CONSTANTS w1, w2, w3, n1, n2, n3, l1, l2

MCSymmetry == Permutations(Wallets) \cup Permutations(Logins) \cup Permutations(Nonces)
=============================================================================
