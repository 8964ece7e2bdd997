\* Three wallets at a store of two entries, two logins, a restart.
SPECIFICATION Spec
CONSTANTS
    w1 = w1 w2 = w2 w3 = w3 n1 = n1 n2 = n2 n3 = n3 l1 = l1 l2 = l2
    Wallets = {w1, w2, w3} Nonces = {n1, n2, n3} Logins = {l1, l2}
    nonceMax = 2 MaxRestarts = 1 NoNonce = NoNonce NoWallet = NoWallet
INVARIANTS TypeOK NonceUsedOnce
PROPERTY LiveChallengesStay
SYMMETRY MCSymmetry
CHECK_DEADLOCK FALSE
