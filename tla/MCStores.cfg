SPECIFICATION CastSpec
CONSTANTS
    x1 = x1
    x2 = x2
    y1 = y1
    y2 = y2
    MaxOrders = 1
    MaxItems = 2
    Ingredients = {y1, y2}
    Quantities <- SomeQuantities
    StatusInputs = {"completed", "cancelled"}
    Sessions = {x1, x2}
    Ops = {"create", "edit", "status", "confirm", "delete"}
    Nobody = Nobody
    Editors = {x1, x2}
    Things = {y1, y2}
    Servers = {p1}
    Fold <- FoldCase
    Grants = {{"edit", "status", "catalog", "structure"}}
    Scenes <- SomeScenes
    Failures = TRUE
    Migrated = TRUE
    p1 = p1
SYMMETRY Interchangeable
INVARIANT NoOrphans
INVARIANT OneConfirmation
PROPERTY PurchaseStands
PROPERTY UsedIsKept
PROPERTY OnlyWhatWasSent
CHECK_DEADLOCK FALSE
