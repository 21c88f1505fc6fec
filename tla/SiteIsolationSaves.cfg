SPECIFICATION Spec
CONSTANTS
    l1 = l1  l2 = l2  l3 = l3
    n1 = n1  n2 = n2  n3 = n3
    m1 = m1  m2 = m2  m3 = m3
    t1 = t1  t2 = t2  t3 = t3
    None = None
    Links <- MCLinks
    OnWg0 <- MCLinks
    Addrs <- MCAddrs
    Covered <- MCCovered
    Entries <- SafetyEntries
    PeersOf <- SafetyPeers
    Outages <- SafetyOutages
    Bodies <- SafetyBodies
    Faults = {"nft", "persist", "flush", "nftables", "restart"}
    BootInclude = TRUE
    MaxChanges = 1
    MaxFaults = 1
    MaxPuts = 2
    MaxReads = 1
    MaxQueue = 1
INVARIANT TypeOK
INVARIANT AppliedMatchesStored
INVARIANT BootCopyCurrent
PROPERTY SeparationKept
