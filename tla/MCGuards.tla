------------------------------- MODULE MCGuards -------------------------------
(***************************************************************************)
(* Payloads and answers for JsonGuards: each word and form in each kind of *)
(* place, and member names that redaction makes equal.                     *)
(***************************************************************************)
EXTENDS JsonGuards

At(word, item) == Entry(Name(word), item)
Word(word) == Str(Name(word))
Json(value) == [form |-> "json", value |-> value, extent |-> "usual"]
Payload(fields) ==
    Object(<<At("model", Word("m"))>> \o fields)
Chat(content, fields) ==
    Payload(<<At("messages", List(<<Message("system", Name("hi")), Message("user", content)>>))>>
            \o fields)

Pairs == {Said(<<a, b>>) : a \in {"hi", "ann"}, b \in {"bob", "card", "corp", "key", "<forged>"}}
Encoded == {Text(form, <<word>>) : form \in {"percent", "escape", "base64", "hex"},
                                   word \in {"hi", "bob", "corp"}}
Short(form, word) == [Text(form, <<word>>) EXCEPT !.extent = "short"]
Shorts == {Short(form, word) : form \in {"percent", "base64", "hex"}, word \in {"hi", "bob"}}
Nested ==
    {Json(Object(<<At("to", Word("ann")), At("card", Word("hi"))>>)),
     Json(Object(<<At("to", Word("<forged>"))>>)),
     Json(List(<<Word("hi"), Nothing>>)), Json(List(<<Number>>)),
     Json(List(<<Str(Text("percent", <<"bob">>))>>)), Json(List(<<Str(Short("base64", "bob"))>>)),
     Json(List(<<Str(Json(Object(<<At("to", Str(Text("escape", <<"ann">>)))>>)))>>)),
     Json(List(<<Str(Json(Object(<<At("to", Word("bob"))>>)))>>))}
Long == [Text("percent", <<"hi">>) EXCEPT !.extent = "long"]

Call(id, name) ==
    Object(<<At("id", Str(id)), At("type", Word("function")),
             At("function", Object(<<At("name", Str(name)),
                                     At("arguments", Str(Json(Object(<<At("to", Word("ann"))>>))))>>))>>)
WithCall(id, name) ==
    Payload(<<At("messages",
                 List(<<Message("user", Name("ann")),
                        Object(<<At("role", Word("assistant")), At("content", Nothing),
                                 At("tool_calls", List(<<Call(id, name)>>))>>),
                        Object(<<At("role", Word("tool")), At("tool_call_id", Str(id)),
                                 At("content", Word("bob"))>>)>>))>>)
Metadata(keys) ==
    Chat(Name("hi"), <<At("metadata",
                          Object([i \in DOMAIN keys |-> Entry(keys[i], Word("hi"))]))>>)

MCPayloads ==
    {Chat(text, <<>>) : text \in Pairs \cup Encoded \cup Shorts \cup Nested \cup {Long}}
    \cup {Chat(Said(<<"corp">>), <<At("metadata", Str(Text("percent", <<"corp">>)))>>),
          Chat(Name("hi"), <<At("temperature", Number), At("stream", Nothing)>>),
          Chat(Name("hi"), <<At("metadata", Object(<<At("temperature", Number)>>))>>),
          Chat(Name("hi"), <<At("response_format", Object(<<At("type", Word("text"))>>))>>),
          Chat(Name("hi"), <<At("response_format", Object(<<At("type", Word("bob"))>>))>>),
          Chat(Name("hi"), <<At("service_tier", Word("ann"))>>),
          Payload(<<At("messages", List(<<Message("bob", Name("hi"))>>))>>),
          Payload(<<At("messages", List(<<Object(<<At("role", Word("user")), At("content",
              List(<<Object(<<At("type", Word("text")), At("text", Word("ann"))>>)>>))>>)>>))>>)}
    \cup {WithCall(id, name) : id \in {Name("call"), Name("ann"), Text("hex", <<"hi">>)},
                               name \in {Name("find"), Said(<<"hi", "hi">>)}}
    \cup {Metadata(keys) :
             keys \in {<<>>, <<Name("card"), Name("cash")>>,
                       <<Name("card"), Name("[redacted]"), Name("hi"), Name("cash")>>,
                       <<Name("[redacted]"), Said(<<"[redacted]", "__MGKEY_2">>), Name("cash"),
                         Name("card")>>,
                       <<Name("ann"), Text("percent", <<"bob">>)>>}}

Choice(message) == Object(<<At("choices", List(<<Object(<<At("message", message)>>)>>))>>)
Spoken == {Said(<<"hi", "<ann>">>), Said(<<"<bob>", "bob">>), Said(<<"ann", "<forged>">>),
           Said(<<"card", "corp">>), Text("percent", <<"ann">>),
           Json(Object(<<At("<ann>", Word("<bob>")), At("to", Str(Text("escape", <<"bob">>)))>>))}
Assistant(content, fields) ==
    Object(<<At("role", Word("assistant")), At("content", Str(content))>> \o fields)
Says(content) == Choice(Assistant(content, <<>>))

MCAnswers ==
    {Says(content) : content \in Spoken}
    \cup {Choice(Object(<<At("role", Word("assistant")), At("refusal", Str(content))>>)) :
             content \in Spoken}
    \cup {Choice(Object(<<At("role", Word("assistant")), At("tool_calls", List(<<Object(<<
              At("id", Word("<ann>")), At("function", Object(<<At("name", Word("<bob>")),
                  At("arguments", Str(content))>>))>>)>>))>>)) : content \in Spoken}
    \cup {Choice(Assistant(Name("hi"), <<Entry(first, Word("<ann>")), Entry(second, Number)>>)) :
             first \in {Name("<ann>"), Name("ann")}, second \in {Name("<bob>"), Name("bob")}}
    \cup {Choice(Object(<<At("content", Object(<<Entry(first, Word("bob")),
                                                 Entry(Name("<bob>"), Word("<bob>"))>>))>>)) :
             first \in {Name("hi"), Name("<forged>"), Name("bob")}}
===============================================================================
