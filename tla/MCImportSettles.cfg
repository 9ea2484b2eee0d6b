\* Two overlapping requests on a file and a page and one crash, with fairness.
SPECIFICATION FairSpec
CONSTANTS
    v1 = v1
    v2 = v2
    None = None
    Requests = {r1, r2}
    Files = {f1}
    Pages = {u1}
    Contents = {v1, v2}
    Parse <- Overlapping
    Plain <- Overlapping
    DocReader = TRUE
    Ops = {"upload", "delete", "reindex", "sync"}
    MaxActive = 2
    Patient = FALSE
    MaxFaults = 0
    MaxCrashes = 1
    MaxShutdowns = 0
PROPERTIES
    ImportIsSettled
CHECK_DEADLOCK FALSE
