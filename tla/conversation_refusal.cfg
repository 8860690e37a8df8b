\* Chat turns answered in a shape or a coding that no client may send.
CONSTANTS
    alice = alice  bob = bob  carol = carol  t1 = t1  t2 = t2  t3 = t3
    Original = {alice, bob}
    Replacement = {t1, t2}
    Redacted = Redacted
    NoItem = NoItem
    MaxMappings = 2
    MaxBytes = 4
    Bytes <- MCBytes
    Actions = {"ALLOW", "TOKENIZE"}
    Kinds = {"chat"}
    ForeignToken = ForeignToken
    ProviderPII = ProviderPII
    OddShapes = {refusal}
    CodedTexts = {coded}
    MaxEntities = 1
    MaxMessages = 2
SYMMETRY Tokens
SPECIFICATION MCSpec
INVARIANTS
    HistoryStaysSendable
