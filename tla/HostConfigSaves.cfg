CONSTANTS
    Procs = {p1, p2}
    Hosts = {"h1", "h2", "h3"}
    Typings <- MCTypings
    Settings = {"a", "b", "c", "x"}
    Rejected = {"x"}
    Bodies <- MCBodies
    Name <- MCName
    Existing = {"h1", "h2"}
    Guarded = {"h1", "h2"}
    First <- MCFirst
    Kinds = {"create", "update", "enable", "disable", "delete", "list", "unlist", "site"}
    MaxRequests = 2
    MaxRules = 2
    MaxCrashes = 1
    None = None
SPECIFICATION FairSpec
CHECK_DEADLOCK FALSE
INVARIANT LiveSetValid
INVARIANT MetaTruthful
INVARIANT Recoverable
