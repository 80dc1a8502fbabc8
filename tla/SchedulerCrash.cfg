CONSTANTS
    Workers = {w1, w2}
    Events <- MCEvents
    Targets <- MCTargets
    Modules <- ShortModules
    Subscriptions <- MCSubscriptions
    Emits <- ShortEmits
    Reload <- MCReload
    QueueCap = 4
    DedupCap = 8
    Faults = {"crash"}
    MaxFaults = 1
    MaxPauses = 0
    MaxRuns = 2
SPECIFICATION FairSpec
INVARIANTS CompletedCovers
