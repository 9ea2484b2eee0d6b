\* Two requests at a time on a file and a page, beside the worker and syncs;
\* nothing fails; no DocReader.
SPECIFICATION Spec
CONSTANTS
    v1 = v1
    v2 = v2
    None = None
    Requests = {r1, r2, r3}
    Files = {f1}
    Pages = {u1}
    Contents = {v1, v2}
    Parse <- Overlapping
    Plain <- Overlapping
    DocReader = FALSE
    Ops = {"upload", "delete", "reindex", "sync"}
    MaxActive = 2
    Patient = FALSE
    MaxFaults = 0
    MaxCrashes = 0
    MaxShutdowns = 0
SYMMETRY RequestSymmetry
INVARIANTS
    FilesAreOwned
    UnsettledHasOwner
    StoresAgree
CHECK_DEADLOCK FALSE
