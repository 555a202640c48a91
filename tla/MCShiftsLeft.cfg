SPECIFICATION ShiftsSpec
CONSTANTS
    MaxShifts = 2
    MaxOrds = 1
    MaxPays = 0
    Total = 1
    Amounts = {1}
    Callers = {s1, s2}
    Ops = {"open", "close", "order"}
    s1 = s1
    s2 = s2
SYMMETRY Symmetry
PROPERTY NoOrderLeftOpen
CHECK_DEADLOCK FALSE
