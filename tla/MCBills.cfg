SPECIFICATION Spec
CONSTRAINT Scenes
CONSTANTS
    MaxOrders = 2
    MaxItems = 2
    MaxPays = 2
    Tables = {t1, t2}
    Sessions = {s1, s2}
    Amounts = {1}
    Discount = 0
    StatusInputs = {"Cooking", "Completed"}
    PayInputs = {"Success", "Failed"}
    Ops = {"create", "createFull", "submit", "add", "update", "itemCancel", "pay", "editPay", "dropPay", "delete"}
    NoTable = NoTable
    Free = Free
    t1 = t1
    t2 = t2
    s1 = s1
    s2 = s2
SYMMETRY Symmetry
PROPERTY ChargeIsDue
PROPERTY SettlementClosesBill
PROPERTY SeatOnlyFreeTable
PROPERTY LedgerSpec
CHECK_DEADLOCK FALSE
