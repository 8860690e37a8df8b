\* Three requests under fair scheduling, with clients that vanish.
CONSTANTS
    Req = {r1, r2, r3}
    Key = {k1}
    Mode = {placeholder}
    None = None
    TTL = 1
    MappingTTL = 1
    MaxConversations = 1
    MaxHistory = 2
    Providers = {"streaming"}
    Crashes = FALSE
    Vanishes = TRUE
    Clears = FALSE
    MaxNow = 1
SPECIFICATION FairSpec
PROPERTIES
    EveryWaiterIsServed
    MappingsDisappear
