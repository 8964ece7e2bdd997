\* Three concurrent requests of two traders.
SPECIFICATION FairSpec
CONSTANTS
    c1 = c1 c2 = c2 c3 = c3 a = a b = b l1 = l1 l2 = l2 l3 = l3 o1 = o1 o2 = o2
    Requests = {c1, c2, c3} Users = {a, b}
    Ads <- MCAds Orders <- MCOrders Ids <- MCIds
INVARIANTS CyclesCrossForeignKeys PairsLockUsers AttestationsNeverVictims
PROPERTY TransactionsEnd
CHECK_DEADLOCK FALSE
