\* Two tasks and one garbled message; prefetch 2, so that a delivery waits in
\* the client behind the one being handled; two process ends and one lost
\* connection at any point.
SPECIFICATION FairSpec
CONSTANTS
    t1 = t1
    t2 = t2
    garbage = garbage
    Tasks <- MCTasks
    Garbled <- MCGarbled
    NoTask = NoTask
    Prefetch = 2
    MaxCrashes = 2
    MaxLosses = 1
INVARIANTS
    SettledForAReason
PROPERTIES
    QueuedIsSettled
    AtLeastOnceSpec
CHECK_DEADLOCK FALSE
