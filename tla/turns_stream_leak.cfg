\* An exception in the stream path leaves the conversation lock taken.
CONSTANTS
    Req = {r1, r2}
    Key = {k1}
    Mode = {placeholder}
    None = None
    TTL = 2
    MappingTTL = 1
    MaxConversations = 1
    MaxHistory = 2
    Providers = {"streaming"}
    Crashes = TRUE
    Vanishes = FALSE
    Clears = TRUE
    MaxNow = 0
SYMMETRY Requests
SPECIFICATION Spec
INVARIANTS
    AnsweredHoldsNothing
