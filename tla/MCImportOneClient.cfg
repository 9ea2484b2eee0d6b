\* One request at a time, the worker beside it; nothing fails.
SPECIFICATION Spec
CONSTANTS
    v1 = v1
    v2 = v2
    None = None
    Requests = {r1, r2, r3}
    Files = {f1, f2}
    Pages = {}
    Contents = {v1, v2}
    Parse <- Overlapping
    Plain <- Overlapping
    DocReader = TRUE
    Ops = {"upload", "delete"}
    MaxActive = 1
    Patient = FALSE
    MaxFaults = 0
    MaxCrashes = 0
    MaxShutdowns = 0
SYMMETRY RequestSymmetry
INVARIANTS
    IndexedExactly
    DocCountRight
PROPERTIES
    DuplicateIsCovered
CHECK_DEADLOCK FALSE
