SPECIFICATION Spec
CONSTANTS
    MaxOrders = 1
    MaxItems = 2
    MaxPays = 1
    Tables = {t1}
    Sessions = {s1, s2}
    Amounts = {1, 2}
    Discount = 1
    StatusInputs = {"Cooking", "Cancelled"}
    PayInputs = {"Success"}
    Ops = {"createFull", "add", "itemStatus", "itemDetails", "update", "pay", "editPay", "dropPay", "delete"}
    NoTable = NoTable
    Free = Free
    t1 = t1
    s1 = s1
    s2 = s2
SYMMETRY Symmetry
INVARIANT TypeOK
INVARIANT SnapshotAgrees
INVARIANT NoOrphans
INVARIANT TotalMatchesLines
CHECK_DEADLOCK FALSE
