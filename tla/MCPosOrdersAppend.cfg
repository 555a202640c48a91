SPECIFICATION Spec
CONSTANTS
    MaxOrders = 1
    MaxItems = 2
    MaxPays = 0
    Tables = {t1}
    Sessions = {s1, s2}
    Amounts = {1}
    Discount = 0
    StatusInputs = {"Cooking"}
    PayInputs = {"Success", "Failed"}
    Ops = {"submit", "itemCancel"}
    NoTable = NoTable
    Free = Free
    t1 = t1
    s1 = s1
    s2 = s2
SYMMETRY Symmetry
PROPERTY CustomerAddsToOpenBill
CHECK_DEADLOCK FALSE
