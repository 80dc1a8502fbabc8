CONSTANTS
    Workers = {w1, w2}
    Events <- MCEvents
    Targets <- MCTargets
    Modules <- MCModules
    Subscriptions <- MCSubscriptions
    Emits <- MCEmits
    Reload <- MCReload
    QueueCap = 4
    DedupCap = 8
    Faults = {"db", "module"}
    MaxFaults = 1
    MaxPauses = 1
    MaxRuns = 1
    Slots = {s1, s2, s3, s4}
    minConcurrency = 2
    maxConcurrency = 3
    MaxLost = 1
SPECIFICATION MCSpec
SYMMETRY WorkerSymmetry
INVARIANTS WaitGroupExact CloseIsQuiet PauseHolds CountersSound MinimumKept
PROPERTIES ImplementsScanWork AllExit
