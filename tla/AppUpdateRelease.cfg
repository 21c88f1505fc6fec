SPECIFICATION Spec
CONSTANTS
    Releases = {"good", "crash", "sick"}
    MaxUpdates = 3
    MaxFaults = 5
INVARIANT Startable
INVARIANT RestoredIsOld
PROPERTY UpdateEnds
CHECK_DEADLOCK FALSE
