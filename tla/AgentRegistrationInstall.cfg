SPECIFICATION FairSpec
CONSTANTS
    None = None
    MaxResets = 1
    MaxLost = 1
    MaxRestarts = 1
    MaxInstalls = 2
    MaxUnsaved = 1
    MaxTokens = 8
INVARIANT Recoverable
INVARIANT RevokedStaysRevoked
PROPERTY EventuallyAuthenticated
