------------------------------ MODULE MCRuntime -------------------------------
(***************************************************************************)
(* Texts and policies for PrivacyRuntime: spellings and overlaps, findings *)
(* of every kind, and documents at every rule of the loader.               *)
(***************************************************************************)
EXTENDS PrivacyRuntime

Plain(n) == [i \in 1 .. n |-> "plain"]
Sample(source, shapes) == [source |-> source, shapes |-> shapes]
Email(start, end, value) == Shape("EMAIL", start, end, value, TRUE, FALSE)
Person(start, end, value) == Shape("PERSON", start, end, value, TRUE, FALSE)
Bare(type, start, end, valid) == Shape(type, start, end, type, valid, FALSE)

MCTexts ==
    {Sample(Plain(3), {}),
     Sample(Plain(3), {Email(0, 2, "ann")}),
     Sample(<<"plain", "plain", "mark", "plain">>, {Email(0, 2, "ann")}),
     Sample(<<"plain", "zero", "plain", "plain">>, {Email(0, 2, "ann"), Person(2, 3, "joe")}),
     Sample(<<"double", "plain", "double">>, {Email(1, 4, "ann")}),
     Sample(<<"mark", "zero", "mark", "plain">>, {Email(0, 2, "ann")}),
     \* Overlaps: an address within one, a long name over a token.
     Sample(Plain(5), {Shape("URL", 0, 4, "url", TRUE, FALSE), Email(2, 5, "ann"),
                     Bare("DOMAIN", 3, 5, TRUE), Person(4, 5, "joe")}),
     Sample(Plain(5), {Bare("JWT", 1, 2, TRUE), Person(0, 4, "joe"), Email(3, 5, "ann")}),
     \* The same value twice, and again in another spelling.
     Sample(<<"plain", "plain", "plain", "plain", "zero", "plain">>,
          {Email(0, 2, "ann"), Person(2, 3, "joe"), Email(3, 5, "ann")}),
     Sample(Plain(5), {Email(0, 2, "ann"), Email(2, 3, "bob"), Email(3, 5, "ann")}),
     \* Checksums.
     Sample(Plain(4), {Bare("INN", 0, 2, TRUE), Bare("PASSPORT", 2, 4, TRUE)}),
     Sample(Plain(4), {Bare("INN", 0, 2, FALSE), Shape("PASSPORT", 2, 4, "p", TRUE, TRUE)}),
     Sample(Plain(6), {Bare("CARD_NUMBER", i, i + 1, FALSE) : i \in 0 .. 5}),
     \* Combinations.
     Sample(Plain(5), {Bare("CARD_NUMBER", 0, 1, TRUE), Bare("IBAN", 1, 2, TRUE),
                     Person(2, 3, "joe"), Shape("IP_ADDRESS", 3, 4, "ip", TRUE, TRUE)}),
     Sample(Plain(6), {Bare("JWT", 0, 1, TRUE), Bare("API_KEY", 1, 2, TRUE), Email(2, 3, "ann"),
                     Bare("DOMAIN", 3, 4, TRUE), Shape("URL", 4, 5, "url", TRUE, FALSE),
                     Shape("IP_ADDRESS", 5, 6, "ip", TRUE, FALSE)})}

-----------------------------------------------------------------------------
Rule(id, priority, action, when) ==
    [id |-> id, priority |-> priority, action |-> action, when |-> when,
     confidence |-> <<0, 1000>>, risk |-> <<0, 100>>]
OfTypes(types) == [entity_type |-> types]
Everywhere == <<>>

Scope ==
    [tenant |-> {"t"}, application |-> {"a"}, direction |-> {"INPUT"}, provider |-> {"p"},
     purpose |-> {"chat"}]
Asserted(id, type, value, expires, scope) ==
    [id |-> id, type |-> type, value |-> value, action |-> "ALLOW", expires |-> expires,
     scope |-> scope]
Written(default, rules, assertions) ==
    [version |-> 2, default |-> default, rules |-> rules, assertions |-> assertions]
Ann(expires) == Asserted("ann", "EMAIL", "ann", expires, Scope)

Routine ==
    Written("BLOCK",
            <<Rule("mail", 10, "TOKENIZE", OfTypes({"EMAIL", "PERSON", "URL"})),
              Rule("secret", 50, "BLOCK", [data_class |-> {"AUTH_SECRET"}]),
              Rule("money", 20, "REDACT", [data_class |-> {"FINANCIAL"}])>>,
            <<Ann(1), Asserted("joe", "PERSON", "joe", 9, Scope)>>)
Contextual ==
    Written("REQUIRE_REVIEW",
            <<[Rule("grave", 10, "BLOCK", OfTypes({"EMAIL"})) EXCEPT !.risk = <<56, 100>>],
              Rule("mail", 30, "TOKENIZE", OfTypes({"EMAIL"})),
              [Rule("sure", 40, "ALLOW", OfTypes({"PERSON", "EMAIL"})) EXCEPT
                  !.confidence = <<980, 1000>>],
              Rule("critical", 60, "REQUIRE_REVIEW", [risk_bucket |-> {"CRITICAL"}]),
              Rule("person", 5, "SURROGATE", OfTypes({"PERSON"}))>>,
            <<Asserted("there", "EMAIL", "ann", 9, [Scope EXCEPT !.tenant = {"u"}]),
              Asserted("here", "EMAIL", "ann", 2, Scope @@ [route |-> {"chat"}])>>)
ByRecognizer ==
    Written("BLOCK",
            <<Rule("legacy", 10, "TOKENIZE", [recognizer |-> {<<"legacy-regex">>}]),
              Rule("hash", 20, "HASH", OfTypes({"URL"})),
              Rule("other", 0, "REDACT", [tenant |-> {"t"}, role |-> {"user"}])>>, <<>>)
Open == Written("BLOCK", <<Rule("any", 0, "ALLOW", Everywhere)>>, <<>>)

\* Documents that must not load.
Wrong ==
    {[Routine EXCEPT !.version = 1], [Routine EXCEPT !.default = "TOKENIZE"],
     [Routine EXCEPT !.rules[1].priority = 50], [Routine EXCEPT !.rules[1].id = "secret"],
     [Routine EXCEPT !.rules[1].priority = MaxPriority + 1],
     [Routine EXCEPT !.rules[1].when = OfTypes({})], [Routine EXCEPT !.rules[1].when = OfTypes({"PHONES"})],
     [Routine EXCEPT !.rules[1].risk = <<60, 50>>],
     [Routine EXCEPT !.assertions[1].type = "INN"], [Routine EXCEPT !.assertions[1].action = "REDACT"],
     [Routine EXCEPT !.assertions[1].scope = [tenant |-> {"t"}]],
     [Routine EXCEPT !.assertions[2].id = "ann"],
     [Routine EXCEPT !.assertions[2] = [Ann(9) EXCEPT !.id = "again"]]}

LegacyEntry(type, action) == [type |-> type, action |-> action]
LegacyDocument(entries, keys, cards) == [entries |-> entries, blockKeys |-> keys, blockCards |-> cards]
LegacyDocuments ==
    {LegacyDocument(<<LegacyEntry("EMAIL", "MASK"), LegacyEntry("CARD_NUMBER", "REDACT"), LegacyEntry("API_KEY", "BLOCK"),
              LegacyEntry("EMAIL", "ALOW"), LegacyEntry("URL", "ALLOW")>>, TRUE, FALSE),
     LegacyDocument(<<LegacyEntry("EMAIL", "ALLOW"), LegacyEntry("PERSON", "PASS"), LegacyEntry("API_KEY", "ALLOW"),
              LegacyEntry("JWT", "MASK"), LegacyEntry("CARD_NUMBER", "ALLOW"), LegacyEntry("EMAIL", "MASK")>>,
            FALSE, TRUE),
     LegacyDocument(<<LegacyEntry("EMAIL", "MASK"), LegacyEntry("EMAIL", "ALLOW"), LegacyEntry("CARD_NUMBER", "ALLOW"),
              LegacyEntry("URL", "MASK"), LegacyEntry("DOMAIN", "MASK"), LegacyEntry("IP_ADDRESS", "MASK")>>,
            TRUE, FALSE)}

MCDocuments == {Routine, Contextual, ByRecognizer, Open} \cup Wrong \cup LegacyDocuments

Request(tenant, role) ==
    [tenant |-> tenant, application |-> "a", direction |-> "INPUT", provider |-> "p",
     purpose |-> "chat", route |-> "chat", model |-> "m", jurisdiction |-> "eu",
     json_path |-> "messages.0.content", role |-> role, token_scope |-> "conversation"]
MCRequests == {Request("t", "user"), Request("u", "assistant")}
===============================================================================
