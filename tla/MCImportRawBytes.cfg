\* A file in a binary format, uploaded twice.
SPECIFICATION Spec
CONSTANTS
    v1 = v1
    v2 = v2
    None = None
    Requests = {r1, r2}
    Files = {f1}
    Pages = {}
    Contents = {v1, v2}
    Parse <- Extracted
    Plain <- Overlapping
    DocReader = TRUE
    Ops = {"upload"}
    MaxActive = 1
    Patient = TRUE
    MaxFaults = 0
    MaxCrashes = 0
    MaxShutdowns = 0
INVARIANTS
    IndexedAsParsed
CHECK_DEADLOCK FALSE
