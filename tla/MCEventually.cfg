SPECIFICATION CastSpec
CONSTANTS
    MaxOrders = 1
    MaxItems = 1
    MaxPays = 1
    Tables = {t1}
    Sessions = {s1, s2}
    Amounts = {1}
    Discount = 0
    StatusInputs = {"Cooking", "Cancelled"}
    PayInputs = {"Success"}
    Ops = {"submit", "itemCancel", "update", "delete", "pay", "editPay"}
    NoTable = NoTable
    Free = Free
    t1 = t1
    s1 = s1
    s2 = s2
    Pool = {c1, c2}
    Calls = {r1, r2}
    Homes = {b1}
    MaxStatements = 1
    Hangups = FALSE
    NoOne = none
    c1 = c1
    c2 = c2
    r1 = r1
    r2 = r2
    b1 = b1
    none = none
    Tokens = {k1}
    Hosts = {h1}
    Visits = {v1, v2}
    SessionTimeout = 3
    Revalidate = 2
    CopyTTL = 1
    k1 = k1
    h1 = h1
    v1 = v1
    v2 = v2
    Sales = {o1}
    Purchases = {o2}
    Entries = {o3}
    Cleaners = {m1}
    Settings <- SomeSettings
    BatchSize = 1
    MaxBatches = 1
    PartNumbers = {1}
    MaxRestarts = 1
    o1 = o1
    o2 = o2
    o3 = o3
    m1 = m1
INVARIANT GoesWhole
PROPERTY EveryRequestEnds
PROPERTY EveryCallEnds
PROPERTY DisabledIsLockedOut
PROPERTY OldOnesGo
CHECK_DEADLOCK FALSE
