\* One SELL or BUY ad at a time and two orders on it, both users trading.
SPECIFICATION Spec
CONSTANTS
    u1 = u1 u2 = u2 l1 = l1 l2 = l2 l3 = l3 o1 = o1 o2 = o2
    m1 = m1 n1 = n1 n2 = n2 k1 = k1 q1 = q1 s1 = s1 s2 = s2
    FeeDivisor = 2 PriceScale = 1
    Users = {u1, u2} Listings = {l1} Orders = {o1, o2}
    Methods = {m1} Names = {n1, n2} Keys = {k1} RequestIds = {q1}
    Amounts = {1, 3, 4} Prices = {1} Limits = {2}
    Sweepers = {s1, s2} SweepLimit = 50 MaxAborts = 0 MaxProofs = 1
    InitMain <- MCInitMain Hold <- MCHold
    InitNames <- MCNamed InitAccounts <- MCAccounts LegacyAds <- MCNoAds
    Nobody = Nobody NoListing = NoListing NoKey = NoKey NoName = NoName
INVARIANTS
    TypeOK EscrowMatchesStatus ReserveMatchesAds
    AdAccounting OneOrderPerKey OpenAdsTakeable
PROPERTIES KeepsContract OrderLifecycle ExpiresOnlyUnpaid
SYMMETRY OrderSymmetry
CHECK_DEADLOCK FALSE
