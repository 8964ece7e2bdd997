\* An operator retries a request whose handler was interrupted.
SPECIFICATION PayoutSpec
CONSTANTS
    u1 = u1 r1 = r1 r2 = r2 t1 = t1 t2 = t2 t3 = t3 w1 = w1 w2 = w2
    Accounts = {u1} Desks = {} Assets <- MCAssets Markets <- MCNone
    Requests = {r1, r2} Hashes = {} Amounts = {1, 2}
    SwapFeeBps = 1 BpsBase = 2 MaxBalance = 2 InitBalance <- MCBalance
    Workers = {w1, w2} Txs = {t1, t2}
    NoAccount = NoAccount NoAsset = NoAsset NoReq = NoReq NoTx = NoTx
PROPERTY RetryReattempts
SYMMETRY WorkerSymmetry
CHECK_DEADLOCK FALSE
