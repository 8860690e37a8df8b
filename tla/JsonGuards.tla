------------------------------ MODULE JsonGuards ------------------------------
(***************************************************************************)
(* What a request passes on its way out and its answer on the way back:    *)
(* sanitize_outbound_payload, add_masking_instruction,                     *)
(* FinalWirePrivacyGuard and OutputPrivacyGuard, over JSON of any shape.   *)
(*                                                                         *)
(* A JSON value is a record with a kind.  A text is a sequence of words    *)
(* and the form they are written in, or a JSON value written as text; a    *)
(* detector reads words in plain form only.  Its extent is what the final  *)
(* guard goes by: "short" are a single percent escape, base64 of fewer     *)
(* than 20 characters (24 in its form for URLs) and hexadecimal text of    *)
(* fewer than 16 bytes, "long" is a text of more than 64 KiB.              *)
(***************************************************************************)
EXTENDS Integers, SequencesExt

CONSTANTS
    Reversible,    \* sensitive words that a token replaces
    Irreversible,  \* those that are redacted
    Forbidden,     \* those that block a request
    Public,        \* those that the policy lets through
    Payloads,      \* JSON objects that a client sends
    Answers,       \* JSON objects that a provider answers with
    Provider       \* the name of the egress adapter

ASSUME WordClasses ==
    /\ Reversible \cap (Irreversible \cup Forbidden \cup Public) = {}
    /\ Irreversible \cap (Forbidden \cup Public) = {} /\ Forbidden \cap Public = {}

VARIABLES
    leg,      \* how far the exchange is
    asked,    \* the client's payload
    past,     \* the messages the conversation holds
    known,    \* the words that the session has a replacement for
    body,     \* the payload for the provider
    answer,   \* what the provider says
    reply,    \* what the client gets
    kept      \* the answer as the history keeps it

jsonVars == <<leg, asked, past, known, body, answer, reply, kept>>

-----------------------------------------------------------------------------
Text(form, words) == [form |-> form, words |-> words, extent |-> "usual"]
Said(words) == Text("plain", words)
Name(word) == Said(<<word>>)
Names(words) == [i \in DOMAIN words |-> Name(words[i])]

Str(text) == [kind |-> "string", text |-> text]
Number == [kind |-> "number"]
Nothing == [kind |-> "null"]
List(items) == [kind |-> "list", items |-> items]
Entry(key, item) == [key |-> key, item |-> item]
Object(entries) == [kind |-> "object", entries |-> entries]

KeyMark == Name("<key>")
EncodedJson == Name("<encoded-json>")

Place(path, part, text) == [path |-> path, part |-> part, text |-> text]

\* Every string, key and number of a value, with the keys that lead to it; the
\* tables of paths disregard the positions in lists.
RECURSIVE Places(_, _)
Places(value, path) ==
    CASE value.kind = "string" -> {Place(path, "string", value.text)}
      [] value.kind = "number" -> {Place(path, "number", Said(<<>>))}
      [] value.kind = "list" -> UNION {Places(item, path) : item \in ToSet(value.items)}
      [] value.kind = "object" ->
            UNION {{Place(Append(path, KeyMark), "key", e.key)} \cup
                   Places(e.item, Append(path, e.key)) : e \in ToSet(value.entries)}
      [] OTHER -> {}

Strings(value, path) == {p \in Places(value, path) : p.part # "number"}

\* The words that stand readable in a text.
RECURSIVE Surface(_)
Surface(text) ==
    CASE text.form = "json" -> UNION {Surface(p.text) : p \in Strings(text.value, <<>>)}
      [] text.form = "plain" -> ToSet(text.words)
      [] OTHER -> {}

Sensitive == Reversible \cup Irreversible \cup Forbidden \cup Public
Token(word) == "<" \o word \o ">"
Tokens == {Token(word) : word \in Reversible \cup {"forged"}}
Issued(words) == {Token(word) : word \in words \cap Reversible}

-----------------------------------------------------------------------------
\* Each guard is a function of the words, applied everywhere in a value.

MaskedWord(word) ==
    IF word \in Reversible THEN Token(word)
    ELSE IF word \in Irreversible THEN "[redacted]" ELSE word

ProviderWord(word, session) ==
    IF word \in Tokens \ Issued(session) THEN "[token]"
    ELSE IF word \in Sensitive THEN "[provider]" ELSE word

RestoredWord(word, session) ==
    IF word \in Issued(session)
    THEN CHOOSE original \in session \cap Reversible : Token(original) = word
    ELSE word

UnrestoredWord(word, session) == IF word \in Issued(session) THEN "[token]" ELSE word

ForeignWord(word, session) ==
    IF word \in Sensitive \ (session \cap Reversible) THEN "[provider]" ELSE word

MayRestore(path) ==
    \E fields \in {<<"choices", "message", "content">>,
                   <<"choices", "message", "function_call", "arguments">>,
                   <<"choices", "message", "tool_calls", "function", "arguments">>,
                   <<"output", "content", "text">>, <<"content", "text">>} :
        IsPrefix(Names(fields), path)

WordAfter(guard, word, session) ==
    CASE guard = "mask" -> MaskedWord(word)
      [] guard = "provider" -> ProviderWord(word, session)
      [] guard = "restore" -> RestoredWord(word, session)
      [] guard = "unrestored" -> UnrestoredWord(word, session)
      [] guard = "foreign" -> ForeignWord(word, session)

\* Keys that redaction makes equal are numbered from 2 on.
Apart(key, taken) ==
    LET numbered(n) == [key EXCEPT !.words = Append(@, "__MGKEY_" \o ToString(n))]
        free == {n \in 2 .. Cardinality(taken) + 2 : numbered(n) \notin taken}
    IN  IF key \notin taken THEN key
        ELSE numbered(CHOOSE n \in free : \A m \in free : n <= m)

ApartKeys(keys) ==
    FoldLeft(LAMBDA done, key : Append(done, Apart(key, ToSet(done))), <<>>, keys)

\* A dictionary keeps the place of an equal key and takes the later item.
Dictionary(entries) ==
    FoldLeft(LAMBDA done, e :
                 LET at == {i \in DOMAIN done : done[i].key = e.key}
                 IN  IF at = {} THEN Append(done, e)
                     ELSE [done EXCEPT ![CHOOSE i \in at : TRUE] = e], <<>>, entries)

\* A text is rewritten as it stands: JSON within it is no structure.
RECURSIVE Reworded(_, _, _), RewordedValue(_, _, _)
Reworded(text, guard, session) ==
    CASE text.form = "json" -> [text EXCEPT !.value = RewordedValue(@, guard, session)]
      [] text.form = "plain" ->
            [text EXCEPT !.words = [i \in DOMAIN @ |-> WordAfter(guard, @[i], session)]]
      [] OTHER -> text
RewordedValue(value, guard, session) ==
    CASE value.kind = "string" -> Str(Reworded(value.text, guard, session))
      [] value.kind = "list" ->
            List([i \in DOMAIN value.items |-> RewordedValue(value.items[i], guard, session)])
      [] value.kind = "object" ->
            Object([i \in DOMAIN value.entries |->
                       Entry(Reworded(value.entries[i].key, guard, session),
                             RewordedValue(value.entries[i].item, guard, session))])
      [] OTHER -> value

\* A value is rewritten text by text.  Only the request keeps equal keys apart.
RECURSIVE Rewritten(_, _, _, _)
Rewritten(value, path, guard, session) ==
    LET after(text) == IF guard = "restore" /\ ~ MayRestore(path) THEN text
                       ELSE Reworded(text, guard, session)
        keys == [i \in DOMAIN value.entries |-> after(value.entries[i].key)]
        under(names) ==
            [i \in DOMAIN value.entries |->
                Entry(names[i], Rewritten(value.entries[i].item,
                                          Append(path, value.entries[i].key), guard, session))]
    IN  CASE value.kind = "string" -> Str(after(value.text))
          [] value.kind = "list" ->
                List([i \in DOMAIN value.items |->
                         Rewritten(value.items[i], path, guard, session)])
          [] value.kind = "object" /\ guard = "mask" ->
                Object(Dictionary(under(ApartKeys(keys))))
          [] value.kind = "object" /\ guard # "mask" -> Object(under(keys))
          [] OTHER -> value

-----------------------------------------------------------------------------
\* The strings of the protocol, which must pass unchanged, and their syntax.

RoleNames == {"assistant", "developer", "function", "system", "tool", "user"}
ModelPath == Names(<<"model">>)
RolePath == Names(<<"messages", "role">>)
FunctionPaths == {Names(<<"messages", "tool_calls", "type">>), Names(<<"tools", "type">>)}
IdentifierPaths ==
    {Names(<<"messages", "tool_call_id">>), Names(<<"messages", "tool_calls", "id">>),
     Names(<<"messages", "tool_calls", "function", "name">>),
     Names(<<"tools", "function", "name">>), Names(<<"functions", "name">>)}
FormatPath == Names(<<"response_format", "type">>)
FreePaths ==
    {Names(<<"modalities">>), Names(<<"reasoning_effort">>), Names(<<"service_tier">>),
     Names(<<"audio", "format">>), Names(<<"audio", "voice">>),
     Names(<<"messages", "content", "type">>)}
ProtocolPaths ==
    {ModelPath, RolePath, FormatPath} \cup FunctionPaths \cup IdentifierPaths \cup FreePaths

\* A name of letters, digits and dots; base64 and hexadecimal text can be one.
Identifier(text) ==
    text.form \in {"plain", "base64", "hex"} /\ Len(text.words) = 1 /\ text.extent # "long"

ValidProtocolString(path, text) ==
    CASE path = RolePath -> text \in {Name(role) : role \in RoleNames}
      [] path \in FunctionPaths -> text = Name("function")
      [] path = FormatPath -> text \in {Name(f) : f \in {"json_object", "json_schema", "text"}}
      [] path \in IdentifierPaths \cup {ModelPath} -> Identifier(text)
      [] OTHER -> text.extent # "long"

ProtocolBroken(p) ==
    /\ p.path \in ProtocolPaths
    /\ \/ Reworded(p.text, "mask", {}) # p.text
       \/ ~ ValidProtocolString(p.path, p.text)

\* mask_text blocks a text with reserved syntax and what the policy forbids.
Refuses(payload) ==
    \E p \in Strings(payload, <<>>) :
       \/ Surface(p.text) \cap (Tokens \cup Forbidden) # {}
       \/ p.part = "string" /\ ProtocolBroken(p)

Visible(payload) == UNION {Surface(p.text) : p \in Strings(payload, <<>>)}

Learned(payload) == Visible(payload) \cap (Reversible \cup Irreversible)
Allowed(payload) == Visible(payload) \cap Public

-----------------------------------------------------------------------------
\* The final inspection of what will be sent.

ChatNumbers ==
    {"frequency_penalty", "logprobs", "max_completion_tokens", "max_tokens", "n",
     "presence_penalty", "seed", "temperature", "top_logprobs", "top_p"}
GeminiNumbers == {"candidateCount", "maxOutputTokens", "temperature", "topK", "topP"}

SafeNumber(provider, path) ==
    CASE provider \in {"openai-compatible-chat", "openai-chat", "openai-chat-completions",
                       "mock", "custom"} -> path \in {Names(<<n>>) : n \in ChatNumbers}
      [] provider = "gemini-generate-content" ->
            path \in {Names(<<"generationConfig", n>>) : n \in GeminiNumbers}
      [] OTHER -> FALSE

\* Mutant: text is inspected as it stands.
DecodedNothing(text) == {}

\* What Unicode escapes stand for, and percent escapes if there are two.
Decoded(text) ==
    IF text.form = "escape" \/ (text.form = "percent" /\ text.extent # "short")
    THEN ToSet(text.words) ELSE {}

\* What is refused as encoded, whatever it holds: not a few characters or bytes.
LooksEncoded(text) == text.form \in {"base64", "hex"} /\ text.extent # "short"

\* Member names are no containers of encoded text, and longer text is not
\* decoded.  A name is told by the mark that ends its path.
IsName(path) == path # <<>> /\ Last(path) = KeyMark

RECURSIVE Accepts(_, _, _, _)
Accepts(p, provider, session, allowed) ==
    CASE p.part = "number" -> SafeNumber(provider, p.path)
      [] OTHER ->
            /\ Surface(p.text) \cap Tokens \subseteq Issued(session)
            /\ Surface(p.text) \cap Sensitive \subseteq allowed
            /\ (IsName(p.path) \/ p.text.extent = "long")
                  \/ /\ ~ LooksEncoded(p.text)
                     /\ Decoded(p.text) \cap Sensitive \subseteq allowed
                     /\ p.text.form = "json" =>
                           \A q \in Places(p.text.value, Append(p.path, EncodedJson)) :
                               Accepts(q, "encoded-json", session, allowed)

-----------------------------------------------------------------------------
FieldOf(object, word) ==
    (CHOOSE e \in ToSet(object.entries) : e.key = Name(word)).item
Has(object, word) == \E e \in ToSet(object.entries) : e.key = Name(word)
WithField(object, word, item) ==
    [object EXCEPT !.entries =
        [i \in DOMAIN @ |-> IF @[i].key = Name(word) THEN Entry(@[i].key, item) ELSE @[i]]]
Messages(object) == FieldOf(object, "messages").items
WithMessages(object, messages) == WithField(object, "messages", List(messages))
Message(role, content) ==
    Object(<<Entry(Name("role"), Str(Name(role))), Entry(Name("content"), Str(content))>>)
IsSystem(message) == Has(message, "role") /\ FieldOf(message, "role") = Str(Name("system"))

\* The provider is told to keep the tokens, after the leading system messages.
Instructed(messages, session) ==
    LET leading == {n \in 0 .. Len(messages) : \A i \in 1 .. n : IsSystem(messages[i])}
        at == (CHOOSE n \in leading : \A m \in leading : m <= n) + 1
    IN  IF Issued(session) = {} THEN messages
        ELSE InsertAt(messages, at, Message("system", Said(SetToSeq(Issued(session)))))

Sanitize ==
    /\ leg = "asked"
    /\ IF Refuses(asked)
       THEN leg' = "refused" /\ UNCHANGED <<known, body>>
       ELSE /\ leg' = "sanitized"
            /\ known' = known \cup Learned(asked)
            /\ body' = Rewritten(asked, <<>>, "mask", known)
    /\ UNCHANGED <<asked, past, answer, reply, kept>>

\* History and instruction come around what was sanitized; then it is inspected.
Check ==
    LET whole == WithMessages(body, Instructed(past \o Messages(body), known))
    IN  /\ leg = "sanitized"
        /\ IF \A p \in Places(whole, <<>>) : Accepts(p, Provider, known, Allowed(asked))
           THEN leg' = "sent" /\ body' = whole
           ELSE leg' = "refused" /\ UNCHANGED body
        /\ UNCHANGED <<asked, past, known, answer, reply, kept>>

\* The provider repeats the last message it was sent.
Echo ==
    LET message == Last(Messages(body))
    IN  Object(<<Entry(Name("choices"),
                       List(<<Object(<<Entry(Name("message"), message)>>)>>))>>)

AnswerAs ==
    /\ leg = "sent"
    /\ answer' \in Answers \cup {Echo}
    /\ leg' = "answered"
    /\ UNCHANGED <<asked, past, known, body, reply, kept>>

RECURSIVE KeysClash(_)
KeysClash(value) ==
    CASE value.kind = "list" -> \E item \in ToSet(value.items) : KeysClash(item)
      [] value.kind = "object" ->
            \/ \E i, j \in DOMAIN value.entries :
                  i # j /\ value.entries[i].key = value.entries[j].key
            \/ \E e \in ToSet(value.entries) : KeysClash(e.item)
      [] OTHER -> FALSE

\* Mutant: tokens are restored before the provider's own words are redacted.
OutputGuardsRestoreFirst == <<"restore", "provider", "unrestored", "foreign">>

OutputGuards == <<"provider", "restore", "unrestored", "foreign">>

\* The passes over an answer: what comes out of each, the answer first.
Passes(value, session) ==
    FoldLeft(LAMBDA done, guard :
                 Append(done, Rewritten(Last(done), <<>>, guard, session)),
             <<value>>, OutputGuards)

\* Two keys that a pass makes equal fail the whole answer.
Return ==
    LET passes == Passes(answer, known)
    IN  /\ leg = "answered"
        /\ IF \E i \in DOMAIN passes : KeysClash(passes[i])
           THEN leg' = "failed" /\ UNCHANGED <<reply, kept>>
           ELSE /\ leg' = "returned"
                /\ reply' = Last(passes)
                /\ kept' = Rewritten(answer, <<>>, "provider", known)
        /\ UNCHANGED <<asked, past, known, body, answer>>

Remembered(words) ==
    IF words = {} THEN <<>>
    ELSE <<Message("user", Said(SetToSeq(Issued(words))))>>

JsonInit ==
    /\ leg = "asked" /\ asked \in Payloads
    /\ known \in {{}} \cup {{word} : word \in Reversible}
    /\ past = Remembered(known)
    /\ body = Nothing /\ answer = Nothing /\ reply = Nothing /\ kept = Nothing

JsonNext == Sanitize \/ Check \/ AnswerAs \/ Return

JsonSpec == JsonInit /\ [][JsonNext]_jsonVars

-----------------------------------------------------------------------------
JsonTypeOK ==
    /\ leg \in {"asked", "sanitized", "sent", "answered", "returned", "refused", "failed"}
    /\ known \subseteq Reversible \cup Irreversible
    /\ Nothing \in {body, answer, reply, kept} \/ leg = "returned"

\* An encoding too short to be told from an ordinary word, which is sent as it is.
PassesForAWord(text) == text.extent = "short" /\ text.form \in {"percent", "base64", "hex"}

\* Whatever a reader of a string can make out: as it stands, unescaped, decoded, or
\* in JSON within it, however deep; but for an encoding that passes for a word.
RECURSIVE Readable(_)
Readable(text) ==
    CASE text.form = "json" -> UNION {Readable(p.text) : p \in Strings(text.value, <<>>)}
      [] OTHER -> IF PassesForAWord(text) THEN {} ELSE ToSet(text.words)

Sent == leg \in {"sent", "answered", "returned", "failed"}

\* What is sent reveals no sensitive word and no foreign token: not in a string of
\* up to 64 KiB, as it stands, in Unicode escapes, or encoded as a whole with two
\* percent escapes, 20 characters of base64 (24 of that for URLs) or 16 bytes in
\* hexadecimal digits and more; not in a member name as it stands; and no number but
\* the parameters of the protocol.
SentRevealsNothing ==
    Sent => \A p \in Places(body, <<>>) :
        LET read == IF IsName(p.path) \/ p.text.extent = "long" THEN Surface(p.text)
                    ELSE Readable(p.text)
        IN  /\ read \cap Sensitive \subseteq Public \cap Visible(asked)
            /\ read \cap Surface(p.text) \cap Tokens \subseteq Issued(known)
            /\ p.part = "number" =>
                  Len(p.path) = 1 /\ p.path[1] \in {Name(n) : n \in ChatNumbers}

RECURSIVE Outline(_)
Outline(value) ==
    CASE value.kind = "list" -> <<"list", [i \in DOMAIN value.items |-> Outline(value.items[i])]>>
      [] value.kind = "object" ->
            <<"object", [i \in DOMAIN value.entries |-> Outline(value.entries[i].item)]>>
      [] OTHER -> <<value.kind>>

\* Redaction loses no member, even when it makes member names equal, and no two
\* members of an object share a name.
NoMemberIsLost ==
    leg = "sanitized" => Outline(body) = Outline(asked) /\ ~ KeysClash(body)

\* The strings that tie messages to calls and tools are sent as the client wrote
\* them or not at all.
ProtocolIsSentAsWritten ==
    leg = "sanitized" =>
        {p \in Strings(asked, <<>>) : p.part = "string" /\ p.path \in ProtocolPaths}
            \subseteq Places(body, <<>>)

\* A request is sent safe and whole, or not at all.
SentIsSafeAndWhole == SentRevealsNothing /\ NoMemberIsLost /\ ProtocolIsSentAsWritten

\* An original comes back only where the answer may speak to the client, and
\* only in the place of its token.
RestoredOnlyInItsPlace ==
    leg = "returned" =>
        \A p \in Strings(reply, <<>>) : \A word \in Surface(p.text) \cap Sensitive :
            /\ word \in known
            /\ \E fields \in {<<"choices", "message", "content">>,
                              <<"choices", "message", "function_call", "arguments">>,
                              <<"choices", "message", "tool_calls", "function", "arguments">>,
                              <<"output", "content", "text">>, <<"content", "text">>} :
                  IsPrefix(Names(fields), p.path)
            /\ \E q \in Strings(answer, <<>>) : Token(word) \in Surface(q.text)

\* No token reaches the client, neither a foreign one nor one of the session.
NoTokenIsReturned ==
    leg = "returned" => \A p \in Strings(reply, <<>>) : Surface(p.text) \cap Tokens = {}

\* What the provider repeats word for word comes back to the client as it was
\* written, but for the words that were redacted or public.
EchoComesBack ==
    LET last == Last(Messages(asked))
        written == FieldOf(last, "content")
        first(object) == FieldOf(object, "choices").items[1]
        returned == FieldOf(FieldOf(first(reply), "message"), "content")
    IN  leg = "returned" /\ answer = Echo /\ Has(last, "content") =>
            \/ Visible(written) \cap (Irreversible \cup Public) # {}
            \/ returned = written

\* The answer as the history keeps it could be sent again: it holds no sensitive
\* word and no foreign token, and a plain string of it passes the final guard.
HistoryIsFitToSend ==
    leg = "returned" =>
        \A p \in Strings(kept, <<>>) :
            /\ Surface(p.text) \cap Sensitive = {}
            /\ p.text.form = "plain" => Accepts(p, Provider, known, {})

\* Through all four passes an answer gives the client its own words back, where
\* it may, and nobody else's, and leaves a history that can be sent.
AnswersGiveBackOnlyTheirOwn ==
    RestoredOnlyInItsPlace /\ NoTokenIsReturned /\ EchoComesBack /\ HistoryIsFitToSend
=============================================================================
