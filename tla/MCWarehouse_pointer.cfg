SPECIFICATION Spec
CONSTANTS
    Runs = {r1, r2}
    Mappings = {m1}
    Parts = {a}
    Retain = 2
    MaxVersion = 3
    Overlap = FALSE
    PointerFaults = TRUE
    DeleteFaults = 0
    None = None
SYMMETRY StoreSymmetry
CHECK_DEADLOCK FALSE
PROPERTY PublishedFrozen
