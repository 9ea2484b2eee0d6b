\* One call fails and the process is told to stop once, anywhere in two
\* overlapping requests, the worker and a sync.
SPECIFICATION Spec
CONSTANTS
    v1 = v1
    v2 = v2
    None = None
    Requests = {r1, r2}
    Files = {f1}
    Pages = {u1}
    Contents = {v1, v2}
    Parse <- Overlapping
    Plain <- Overlapping
    DocReader = TRUE
    Ops = {"upload", "delete", "reindex", "sync"}
    MaxActive = 2
    Patient = FALSE
    MaxFaults = 1
    MaxCrashes = 0
    MaxShutdowns = 1
SYMMETRY RequestSymmetry
INVARIANTS
    TaskHasFile
    RefusedKeepsNoFile
CHECK_DEADLOCK FALSE
