\* A file uploaded twice, the second time with other content.
SPECIFICATION Spec
CONSTANTS
    v1 = v1
    v2 = v2
    None = None
    Requests = {r1, r2}
    Files = {f1}
    Pages = {}
    Contents = {v1, v2}
    Parse <- Overlapping
    Plain <- Overlapping
    DocReader = TRUE
    Ops = {"upload"}
    MaxActive = 1
    Patient = TRUE
    MaxFaults = 0
    MaxCrashes = 0
    MaxShutdowns = 0
INVARIANTS
    ChunkCountRight
CHECK_DEADLOCK FALSE
