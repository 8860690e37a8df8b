\* Fifteen texts, policies at each rule of the loader, and two requests.
\* Payloads and answers with each word and form in each kind of place.
\* Names and addresses, some spelled like surrogates.
SPECIFICATION PrivacySpec
CONSTANTS
    Texts <- MCTexts
    Documents <- MCDocuments
    Requests <- MCRequests
    LastMoment = 2
    Reversible = {"ann", "bob"}
    Irreversible = {"card", "cash"}
    Forbidden = {"key"}
    Public = {"corp"}
    Payloads <- MCPayloads
    Answers <- MCAnswers
    Provider = "openai-chat-completions"
    Prose <- MCProse
    Values <- MCValues
    MaxTurns = 2
    MaxParts = 2
INVARIANTS
    PrivacyTypeOK
    FindingsCoverTheText
    RiskFollowsFindings
    OnlyThePermittedIsClear
    DecisionsAreCarriedOut
    SentIsSafeAndWhole
    AnswersGiveBackOnlyTheirOwn
    ReplacementsComeBack
CHECK_DEADLOCK FALSE
