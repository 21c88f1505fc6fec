SPECIFICATION FairSpec
CONSTANTS
    None = None
    NONE = NONE
    ABSENT = ABSENT
    Flushed = Flushed
    Broken = Broken
    RuleIds = {r1}
    MaxChanges = 4
    MaxFlushes = 1
    MaxStops = 1
    MaxFaults = 1
    MayDelete = TRUE
INVARIANT NotCutOff
INVARIANT CacheIsReported
PROPERTY Converges
