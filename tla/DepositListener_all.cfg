\* Logins at any time, failing events, one poll cut short, two deposits in a transaction.
SPECIFICATION ListenerSpec
CONSTANTS
    u1 = u1 u2 = u2 h1 = h1 h2 = h2
    Accounts = {u1, u2} Desks = {} Assets <- MCAssets Markets <- MCNone
    Requests = {} Hashes = {h1, h2} Amounts = {1}
    SwapFeeBps = 1 BpsBase = 2 MaxBalance = 4 InitBalance <- MCBalance
    StartBlock = 1 MaxBlock = 3 maxBlockRange = 2 LogsPerTx = 2 MaxAborts = 1
    NoAccount = NoAccount NoAsset = NoAsset
INVARIANTS ListenerTypeOK CreditsMatchDeposits NoneSkippedSilently
PROPERTY EveryDepositHandled
CHECK_DEADLOCK FALSE
