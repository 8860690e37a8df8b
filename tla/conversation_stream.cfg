\* Both paths: streamed provider text enters the history as it came.
CONSTANTS
    alice = alice  bob = bob  carol = carol  t1 = t1  t2 = t2  t3 = t3
    Original = {alice, bob}
    Replacement = {t1, t2}
    Redacted = Redacted
    NoItem = NoItem
    MaxMappings = 2
    MaxBytes = 4
    Bytes <- MCBytes
    Actions = {"TOKENIZE", "REDACT", "BLOCK"}
    Kinds = {"chat", "stream"}
    ForeignToken = ForeignToken
    ProviderPII = ProviderPII
    OddShapes = {}
    CodedTexts = {}
    MaxEntities = 1
    MaxMessages = 2
SYMMETRY Tokens
SPECIFICATION MCSpec
INVARIANTS
    HistoryProviderSafe
