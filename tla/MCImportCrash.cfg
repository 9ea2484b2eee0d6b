\* A crash at any step of requests that wait for each other.
SPECIFICATION Spec
CONSTANTS
    v1 = v1
    v2 = v2
    None = None
    Requests = {r1, r2, r3}
    Files = {f1}
    Pages = {u1}
    Contents = {v1, v2}
    Parse <- Overlapping
    Plain <- Overlapping
    DocReader = TRUE
    Ops = {"upload", "delete", "reindex", "sync"}
    MaxActive = 1
    Patient = TRUE
    MaxFaults = 0
    MaxCrashes = 1
    MaxShutdowns = 0
SYMMETRY RequestSymmetry
INVARIANTS
    NothingMissing
    PageIndexed
    DeletedIsGone
CHECK_DEADLOCK FALSE
