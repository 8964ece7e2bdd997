\* A swap spends what an open withdrawal request holds.
SPECIFICATION LedgerSpec
CONSTANTS
    u1 = u1 u2 = u2 r1 = r1 h1 = h1
    Accounts = {u1, u2} Desks = {u2} Assets <- MCAssets Markets <- MCMarket
    Requests = {r1} Hashes = {h1} Amounts = {1, 2}
    SwapFeeBps = 1 BpsBase = 2 MaxBalance = 2
    InitBalance <- MCBalance NoAccount = NoAccount NoAsset = NoAsset
INVARIANT HoldsCovered
CHECK_DEADLOCK FALSE
