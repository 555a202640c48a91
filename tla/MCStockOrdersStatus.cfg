SPECIFICATION Spec
CONSTANTS
    MaxOrders = 1
    MaxItems = 3
    Ingredients = {a, b}
    Quantities <- SomeQuantities
    StatusInputs = {"cancelled"}
    Sessions = {s1, s2}
    Ops = {"create", "edit", "status", "confirm", "delete"}
    Nobody = Nobody
    a = a
    b = b
    s1 = s1
    s2 = s2
SYMMETRY Symmetry
PROPERTY OnlyPendingChanges
CHECK_DEADLOCK FALSE
