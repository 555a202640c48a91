SPECIFICATION CastSpec
CONSTANTS
    x1 = x1
    x2 = x2
    y1 = y1
    y2 = y2
    z1 = z1
    z2 = z2
    Sessions = {x1, x2}
    Processes = {y1, y2}
    Keys = {k1}
    NoKey = NoKey
    Payloads = {z1, z2}
    MaxOrders = 2
    Redis = TRUE
    Shared = Shared
    Faults = {"call", "late", "loss", "crash"}
    NoAnswer = NoAnswer
    k1 = k1
    MaxShifts = 3
    MaxOrds = 1
    MaxPays = 1
    Total = 1
    Amounts = {1}
    Callers = {x1, x2}
    Ops = {"open", "close", "order", "update", "pay", "editPay"}
    Doors = {y1, y2, g1, g2}
    Counters = {g1, g2}
    Codes = {z1, z2, c3}
    Askers = {x1, x2}
    c3 = c3
    Pool = {g1, g2}
    Calls = {x1, x2}
    Homes = {b1}
    b1 = b1
    MaxStatements = 2
    Hangups = TRUE
    NoOne = none
    g1 = g1
    g2 = g2
    none = none
    Shops = {b1}
    PromptPays = {y1, y2}
    Numbers = {z1, z2}
    Clerks = {x1, x2}
    Breaks = TRUE
SYMMETRY Interchangeable
INVARIANT OneAtWork
INVARIANT OpenIsIdempotent
INVARIANT ActivationMends
INVARIANT DeadStaysDead
 
PROPERTY PromiseKept
PROPERTY OldOrderStopsClose
CHECK_DEADLOCK FALSE
