SPECIFICATION PermSpec
CONSTRAINT Reviews
CONSTANTS
    Staff = {u1}
    StaffRole = role
    Admins = {a1, a2, a3}
    Actions = {"delete"}
    Scopes = {"branch"}
    Asked = {"delete"}
    Baseline = "branch"
    Processes = {p1}
    Jobs = {j1, j2}
    MaxApprovals = 1
    DecisionTTL = 1
    u1 = u1
    role = role
    a1 = a1
    a2 = a2
    a3 = a3
    p1 = p1
    j1 = j1
    j2 = j2
SYMMETRY Interchangeable
INVARIANT RejectedHasNoEffect
CHECK_DEADLOCK FALSE
