SPECIFICATION CastSpec
CONSTANTS
    Staff = {u1}
    StaffRole = role
    Admins = {a1, a2}
    Actions = {"delete"}
    Scopes = {"branch"}
    Asked = {"delete"}
    Baseline = "branch"
    Processes = {p1, p2}
    Lead = p1
    Jobs = {j1, j2}
    MaxApprovals = 1
    DecisionTTL = 1
    u1 = u1
    role = role
    a1 = a1
    a2 = a2
    p1 = p1
    p2 = p2
    j1 = j1
    j2 = j2
    Followed <- SomeCapabilities
    EditScopes = {"all"}
    Sockets = {w1}
    Members = {u1}
    TableRooms = {t1}
    Branches = {b1, b2}
    b2 = b2
    Outages = 2
    w1 = w1
    t1 = t1
    b1 = b1
    Servers = {p1, p2}
    MaxHits = 1
    Window = 1
    Losses = 1
    Cap = 2
INVARIANT TwoPersonRule
INVARIANT OnlyTheirs
INVARIANT BaselineFits
PROPERTY ReviewedOnce
PROPERTY StartOnlyAdds
PROPERTY DecisionsSettle
PROPERTY AdapterComesUp
PROPERTY LetInAgain
CHECK_DEADLOCK FALSE
