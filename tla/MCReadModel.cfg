SPECIFICATION Spec
CONSTANTS
    Processes = {p1, p2}
    Readers = {r1, r2}
    Writes = {w1}
    SharedCopies = TRUE
    Cleared = FALSE
    None = None
INVARIANTS CopiesAreFresh OwnWritesSeen OneFetch
SYMMETRY Interchangeable
