\* Sample requests for all five adapters; answers of two choices;
\* bodies of up to four lines or three chunks, at the limit and beyond it.
SPECIFICATION Spec
CONSTANTS
    Wires <- MCWires
    Egress <- MCEgress
    Policies <- MCPolicies
    Blocks <- MCBlocks
    Pieces = 2
    Most = 4
    Reasons <- MCReasons
    Scripts <- MCScripts
    MaxBytes = 10
    Objects <- MCObjects
    Arrays <- MCArrays
    Bottomless <- MCBottomless
    Misshapen <- MCMisshapen
    MisshapenEvents <- MCMisshapenEvents
INVARIANTS
    AdaptersTypeOK
    RequestsArriveWhole
    WordsArriveAsSpoken
    StateStaysHome
    StreamedBlocksStayWhole
    BodiesArriveWhole
    EndingsAreKnown
CHECK_DEADLOCK FALSE
