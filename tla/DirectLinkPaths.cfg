SPECIFICATION FairSpec
CONSTANTS
    n1 = n1  n2 = n2
    Heads = {"h1", "h2"}
    Nets = {n1, n2}
    Configs <- MCConfigs
    Lans <- MCLans
    Off = Off
    Gone = Gone
    Keep = Keep
    Absent = Absent
    None = None
    MaxChanges = 2
    MaxFaults = 1
    MaxEnds = 2
    CutShort = FALSE
INVARIANT Watched
INVARIANT StoppedUsesHub
PROPERTY FailsOver
PROPERTY Converges
