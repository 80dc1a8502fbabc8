CONSTANTS
    Workers = {w1, w2}
    Events <- MCEvents
    Targets <- MCTargets
    Modules <- MCModules
    Subscriptions <- MCSubscriptions
    Emits <- MCEmits
    Reload <- MCReload
    QueueCap = 4
    DedupCap = 8
    Faults = {"crash"}
    MaxFaults = 1
    MaxPauses = 0
    MaxRuns = 2
SPECIFICATION Spec
INVARIANTS EventStoredOnce
