SPECIFICATION FairSpec
CONSTANTS
    l1 = l1  l2 = l2  l3 = l3
    n1 = n1  n2 = n2  n3 = n3
    m1 = m1  m2 = m2  m3 = m3
    t1 = t1  t2 = t2  t3 = t3
    None = None
    Links <- LiveLinks
    OnWg0 <- LiveLinks
    Addrs <- MCAddrs
    Covered <- MCCovered
    Entries <- LiveEntries
    PeersOf <- LivePeers
    Outages <- LiveOutages
    Bodies <- LiveBodies
    Faults = {"nft", "persist", "flush", "restart"}
    BootInclude = TRUE
    MaxChanges = 1
    MaxFaults = 1
    MaxPuts = 1
    MaxReads = 0
    MaxQueue = 1
PROPERTY Converges
