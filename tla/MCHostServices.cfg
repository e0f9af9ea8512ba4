\* The pool: two workers and a cap of one queued task.  Saves: two workers, two guest
\* writes, a crash.
SPECIFICATION HostSpec
CONSTANTS
    NumWorkers = 2
    MaxQueuedTasksPerWorker = 1
    MaxQueuedTasksTotal = 1
    Tasks = {t1, t2}
    Submitters = {s1, s2}
    Waiters = {u1}
    Nobody = nobody
    MaxStarts = 1
    MaxCancels = 1
    MaxWaits = 1
    SaveWorkers = {w1, w2}
    SaveCapacity = 2
    MaxSaveWrites = 2
    MaxCrashes = 1
    ControllerCapacity = 2
    ButtonMasks = {1}
    MaxDeviceEvents = 2
    MaxTransitions = 1
    MaxEdits = 3
    Resources = {r1, r2, r3}
    MaxFailures = 2
    MinInstructionCycles = 2
    Costs = {1, 3}
    Gains = {0, 3, 9}
    MaxBudget = 6
    SliceCycles = 4
    MaxCyclesPerWake = 5
    MaxExecutionSlicesPerWake = 1
    MaxControls = 3
INVARIANTS SavesKept NoStaleButtons CaptureComplete PauseHolds NoChangeLost
PROPERTIES AcceptedTaskFinishes ShutdownReturns IdleWaiterReturns ButtonsArrive EditsReachTheScreen
CHECK_DEADLOCK FALSE
