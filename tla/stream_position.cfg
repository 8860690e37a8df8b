\* An answer of two choices, one choice in each event. A stream ends.
CONSTANTS
    Indexes = {0, 1}
    Fields = {"content"}
    OneByOne = TRUE
    MaxPieces = 2
SPECIFICATION GuardSpec
INVARIANTS
    SameAsNotStreamed
CHECK_DEADLOCK FALSE
