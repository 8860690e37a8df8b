\* Two identities and room for one, two requests per window of two seconds.
\* All histories that turns of up to two messages can build, of messages that
\* are empty, of which two just fit, and of which one alone exceeds the limit.
\* An answer of two choices, every event a complete list of them.
\* Two requests at the edge, at the limits of a window and of a body.
\* Files with each flaw, at each limit, with values cut by formatting.
CONSTANTS
    Identity = {a, b}
    MaxRequests = 2
    WindowSeconds = 2
    MaxIdentities = 1
    TicksPerSecond = 2
    None = None
    MaxNow = 9
    MaxPassed = 5
    MaxMessages = 5
    MaxChars = 4
    Size = {0, 2, 5}
    MaxTurn = 2
    Indexes = {0, 1}
    Fields = {"content", "arguments"}
    OneByOne = FALSE
    MaxPieces = 3
    Keys = {"key1", "key2"}
    Requests <- MCEdgeRequests
    MaxBody = 3
    MaxMediaBody = 5
    RequestsPerWindow = 1
    MaxArrivals = 2
    Masked <- MCMasked
    Refusable <- MCRefusable
    Domains <- MCDomains
    Uploads <- MCUploads
    MaxFileBytes = 2
    MaxEntries = 4
    MaxUncompressed = 4
    MaxPixels = 4
    MaxPages = 3
    MaxTotalPixels = 6
SPECIFICATION GatewaySpec
INVARIANTS
    GatewayTypeOK
    Paced
    TableBounded
    HistoryIsCutFairly
    StreamIsGuarded
    OnlyTheRightfulPass
    DeliveredShowsNothing
    WorkIsBounded
PROPERTIES
    WaitsAreExact
CONSTRAINT WithinBounds
CHECK_DEADLOCK FALSE
