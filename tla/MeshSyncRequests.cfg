CONSTANTS
    k1 = k1  k2 = k2  k3 = k3
    n1 = n1  n2 = n2  n3 = n3
    a1 = a1  a2 = a2
    Links = {k1, k2, k3}
    Nets = {n1, n2, n3}
    Names = {"A", "B", "C"}
    TempNames = {"tmp1", "tmp2"}
    Agents = {a1, a2}
    p1 = p1  p2 = p2
    Procs = {p1, p2}
    Timer = Timer
    None = None
    Keep = Keep
    Patches <- MCPatches
    News <- MCNews
    Updates <- MCUpdates
    Uploads <- MCUploads
    Deletes <- MCDeletes
    StartStore <- MCStore
    StartRows <- MCRows
    Faults = {"conf", "noconf", "wg", "db", "rename", "crash", "reboot"}
    MaxFaults = 1
    MaxRequests = 2
SPECIFICATION FairSpec
INVARIANT NeverMoreThanAllowed
INVARIANT BindingsFollow
PROPERTY CascadeTakesOwn
PROPERTY RevokedStaysOut
PROPERTY Converges
CHECK_DEADLOCK FALSE
