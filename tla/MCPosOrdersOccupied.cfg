SPECIFICATION Spec
CONSTANTS
    MaxOrders = 3
    MaxItems = 0
    MaxPays = 0
    Tables = {t1}
    Sessions = {s1, s2}
    Amounts = {1}
    Discount = 0
    StatusInputs = {"Cooking", "Completed"}
    PayInputs = {"Success", "Failed"}
    Ops = {"create", "update"}
    NoTable = NoTable
    Free = Free
    t1 = t1
    s1 = s1
    s2 = s2
SYMMETRY Symmetry
PROPERTY OccupiedTableRefused
CHECK_DEADLOCK FALSE
