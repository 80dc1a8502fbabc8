CONSTANTS
    Names <- MCNames
    IPv4 <- MCIPv4
    IPv6 <- MCIPv6
    Networks <- MCNetworks
    AddressesOf <- MCAddressesOf
    SubdomainOf <- MCSubdomainOf
    AllowedTargets <- MCAllowedTargets
    TCPPorts <- MCPorts
    UDPPorts = {53}
    Paths <- MCPaths
    Enabled <- MCFeatures
    Sources = {"shodan", "securitytrails", "bucket", "circl_cve"}
    IPOnly = {"shodan"}
    DomainOnly = {"securitytrails"}
    StorageHost <- MCStorageHost
    CIDRMaxHosts = 2
    MaxDepth = 2
    MaxPagesPerHost = 4
    MaxScreenshotsPerScan = 2
    Concurrency = 2
    MaxLost = 1
    Worlds <- MCWorlds
SPECIFICATION Spec
INVARIANTS EventsInScope GuardedContacts PageBudget DiscoveryExact AskedOnce
PROPERTY DiscoveryEnds
CHECK_DEADLOCK FALSE
