CONSTANTS
    Configs = {0, 1, 2, 3, 4}
    Local = 0
    First = 1
    RulesOf <- MCRules
    NetsOf <- MCNets
    Deduped <- MCDeduped
    None = None
    Broken = Broken
    Reverts = FALSE
    Faults = {"lost", "syncconf", "hook", "record", "cp", "truncate", "wgup", "hash", "route", "kill", "reboot"}
    MaxFaults = 3
SPECIFICATION FairSpec
INVARIANT RulesExact
PROPERTY ImplementsApplied
PROPERTY Delivered
