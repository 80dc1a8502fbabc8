CONSTANTS
    Nodes = {n1, n2}
    NoNode = NoNode
    LeaseDuration = 3
    RenewInterval = 2
    MaxEpoch = 3
    MaxFaults = 1
SPECIFICATION FairSpec
INVARIANTS OneLeader EpochHasOneOwner
PROPERTIES ImplementsLeadership Failover
