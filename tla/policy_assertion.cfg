SPECIFICATION RuntimeSpec
CONSTANTS
    Texts <- MCTexts
    Documents <- MCDocuments
    Requests <- MCRequests
    LastMoment = 2
INVARIANT ProhibitionWins
CHECK_DEADLOCK FALSE
