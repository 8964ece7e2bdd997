\* Two handlers; cancels, fills, payments, timeouts and a restart at any time.
SPECIFICATION GatewaySpec
CONSTANTS
    h1 = h1 h2 = h2 o1 = o1 o2 = o2 o3 = o3
    Handlers = {h1, h2} Orders = {o1, o2} Amounts = {1}
    InitTotal = 2 MaxUpsets = 1 Scale = 2
    NoHandler = NoHandler NoOrder = NoOrder
INVARIANTS GatewayTypeOK NoPhantomFunds ReservationsLive
PROPERTIES SlotReturns RequestsAnswered
CHECK_DEADLOCK FALSE
