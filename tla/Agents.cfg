CONSTANTS
    Nonces = {x1, x2}
    Handlers = {h1, h2}
    Window = 2
    Retention = 5
    MaxDelay = 1
    MaxTime = 8
    Agents = {a1, a2}
    NoAgent = NoAgent
    Scans = {c1}
    NumJobs = 2
    LeaseTime = 1
    HeartbeatLimit = 0
    MaxAttempts = 2
    MaxOps = 1
SPECIFICATION MCSpec
SYMMETRY AgentsSymmetry
INVARIANTS NoReplay OneWorker CompletedHasEvidence
PROPERTIES CompletedIsFinal
