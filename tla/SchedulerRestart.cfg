CONSTANTS
    Workers = {w1, w2}
    Events <- MCEvents
    Targets <- MCTargets
    Modules <- ShortModules
    Subscriptions <- MCSubscriptions
    Emits <- RestartEmits
    Reload <- MCReload
    QueueCap = 4
    DedupCap = 8
    Faults = {"status", "cancel", "crash", "db", "module"}
    MaxFaults = 1
    MaxPauses = 1
    MaxRuns = 2
SPECIFICATION FairSpec
INVARIANTS CheckpointSound ResumeSkipsDone FaithfulStoredOnce
PROPERTIES UncancelledScanEnds
CHECK_DEADLOCK FALSE
