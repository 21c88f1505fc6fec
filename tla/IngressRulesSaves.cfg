SPECIFICATION Spec
CONSTANTS
    None = None
    Admins = {a1, a2}
    RuleIds = {r1, r2, r3}
    Links = {l1}
    Sizes = {1, 2}
    Aliases = {1}
    MAX_RULES_PER_AGENT = 2
    MAX_LINES_PER_RULE = 1
    MAX_LINES_TOTAL = 2
    MaxRequests = 5
CHECK_DEADLOCK FALSE
SYMMETRY Symmetry
INVARIANT TypeOK
INVARIANT NotEmptyRestricted
INVARIANT Buildable
