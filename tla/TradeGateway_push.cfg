\* A deposit is pushed in raw units.
SPECIFICATION PushSpec
CONSTANTS
    h1 = h1 h2 = h2 o1 = o1 o2 = o2 o3 = o3
    Handlers = {h1, h2} Orders = {o1} Amounts = {1, 2}
    InitTotal = 2 MaxUpsets = 1 Scale = 2
    NoHandler = NoHandler NoOrder = NoOrder
INVARIANT PushesInUnits
CHECK_DEADLOCK FALSE
