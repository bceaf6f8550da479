SPECIFICATION Spec
CONSTANTS
    Runs = {r1, r2}
    Mappings = {m1}
    Parts = {a, b}
    Retain = 1
    MaxVersion = 2
    Overlap = TRUE
    PointerFaults = FALSE
    DeleteFaults = 0
    None = None
SYMMETRY StoreSymmetry
CHECK_DEADLOCK FALSE
INVARIANT MappingsWhole
