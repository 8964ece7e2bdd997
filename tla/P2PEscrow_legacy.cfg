\* Ads of both migration epochs and a new one, two users without a username or
\* payment account, one sweeper with a limit of one id, cut short once.
SPECIFICATION FairSpec
CONSTANTS
    u1 = u1 u2 = u2 l1 = l1 l2 = l2 l3 = l3 o1 = o1 o2 = o2
    m1 = m1 n1 = n1 n2 = n2 k1 = k1 q1 = q1 s1 = s1 s2 = s2
    FeeDivisor = 2 PriceScale = 2
    Users = {u1, u2} Listings = {l1, l2, l3} Orders = {o1, o2}
    Methods = {m1} Names = {n1} Keys = {} RequestIds = {q1}
    Amounts = {1} Prices = {1} Limits = {}
    Sweepers = {s1} SweepLimit = 1 MaxAborts = 1 MaxProofs = 1
    InitMain <- MCLegacyMain Hold <- MCNoHold
    InitNames <- MCUnnamed InitAccounts <- MCSellerAccount LegacyAds <- MCLegacyAds
    Nobody = Nobody NoListing = NoListing NoKey = NoKey NoName = NoName
INVARIANTS StatementsBalance AdAccounting CreatorsIdentified
PROPERTY ElapsedOrdersEnd
CHECK_DEADLOCK FALSE
