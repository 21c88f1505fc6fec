SPECIFICATION FairSpec
CONSTANTS
    g1 = g1  g2 = g2  g3 = g3
    n1 = n1  p1 = p1
    None = None
    Agents = {g1, g2, g3}
    Leaving = {g1}
    Nets = {n1}
    Ports = {p1}
    Drafts <- MCDrafts
    Bodies <- MCBodies
    Meshes <- MCMeshes
    Stored <- MCStored
    MAX_DIRECT_LINK_ID = 1
    MaxOpen = 2
    MaxRequests = 2
    MaxEvents = 1
INVARIANT KeyOfSide
PROPERTY ComesUp
PROPERTY ComesDown
PROPERTY ChangedKeyShown
CHECK_DEADLOCK FALSE
