SPECIFICATION Spec
CONSTANTS
    Runs = {r1, r2, r3}
    Mappings = {m1, m2}
    Parts = {a, b}
    Retain = 2
    MaxVersion = 3
    Overlap = FALSE
    PointerFaults = FALSE
    DeleteFaults = 1
    None = None
SYMMETRY StoreSymmetry
CHECK_DEADLOCK FALSE
INVARIANTS TypeOK MappingsWhole RetainedReadable
PROPERTIES PublishedFrozen FailedKeepFiles OrphansCollected
