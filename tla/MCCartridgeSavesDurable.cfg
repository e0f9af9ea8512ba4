\* Two workers write the snapshots, as with the default number of threads.
SPECIFICATION SavesSpec
CONSTANTS
    SaveWorkers = {w1, w2}
    SaveCapacity = 2
    MaxSaveWrites = 2
    MaxCrashes = 0
INVARIANT DurableAtShutdown
CHECK_DEADLOCK FALSE
