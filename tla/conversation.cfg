\* Three values near both budgets of the vault, and answers of every kind.
CONSTANTS
    alice = alice  bob = bob  carol = carol  t1 = t1  t2 = t2  t3 = t3
    Original = {alice, bob, carol}
    Replacement = {t1, t2, t3}
    Redacted = Redacted
    NoItem = NoItem
    MaxMappings = 2
    MaxBytes = 4
    Bytes <- MCBytes
    Actions = {"ALLOW", "TOKENIZE", "REDACT", "BLOCK"}
    Kinds = {"chat", "stream"}
    ForeignToken = ForeignToken
    ProviderPII = ProviderPII
    OddShapes = {refusal}
    CodedTexts = {coded}
    MaxEntities = 3
    MaxMessages = 2
SYMMETRY Tokens
SPECIFICATION MCSpec
INVARIANTS
    TypeOK
    VaultsConsistent
    VaultsHoldNoMoreThanTheyMay
    HistoryRestorable
PROPERTIES
    OnlySuccessfulTurnsLeaveATrace
    ChatTurnsKeepHistoryFit
