\* Three requests in two modes on two conversations and one place in the store,
\* with every provider, uncaught exceptions, clients that vanish, Clear and
\* expiry.
CONSTANTS
    Req = {r1, r2, r3}
    Key = {k1, k2}
    Mode = {placeholder, redact}
    None = None
    TTL = 1
    MappingTTL = 1
    MaxConversations = 1
    MaxHistory = 2
    Providers = {"none", "plain", "streaming"}
    Crashes = TRUE
    Vanishes = TRUE
    Clears = TRUE
    MaxNow = 1
SYMMETRY Symmetric
SPECIFICATION Spec
INVARIANTS
    TypeOK
    OneTurnAtATime
    MappingsMatchHistory
    NothingIsLeftBehind
    NobodyWaitsInVain
PROPERTIES
    ImplementsLog
    DetachedIsFrozen
    OwnTurnsKeepHistory
