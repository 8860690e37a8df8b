\* A blocked turn deletes the history another turn committed.
CONSTANTS
    Req = {r1, r2, r3}
    Key = {k1}
    Mode = {placeholder}
    None = None
    TTL = 2
    MappingTTL = 1
    MaxConversations = 1
    MaxHistory = 2
    Providers = {"streaming"}
    Crashes = FALSE
    Vanishes = FALSE
    Clears = TRUE
    MaxNow = 0
SYMMETRY Requests
SPECIFICATION Spec
PROPERTIES
    BlockedTurnsKeepHistory
