------------------------------ MODULE MCAdapters ------------------------------
(***************************************************************************)
(* Requests of clients for ProviderAdapters: every conversation of at most *)
(* two messages out of a sample for each adapter, three of a smaller one,  *)
(* in the plainest envelope; and one message in every envelope.            *)
(***************************************************************************)
EXTENDS ProviderAdapters

A == Text(<<"a">>)
B == Text(<<"b">>)
Args == Object("x")
Found == JsonText(Object("found"))
Sorry == PlainText(Word("sorry"))

UpTo(S, n) == UNION {[1..k -> S] : k \in 1..n}

ChatSample ==
    {ChatMessage("system", <<A, B>>, <<>>, <<>>, <<>>, FALSE),
     ChatMessage("user", <<A>>, <<>>, <<>>, <<"ann">>, FALSE),
     ChatMessage("assistant", <<B>>, <<Call("1", "f", JsonText(Args))>>, <<>>, <<>>, FALSE),
     ChatMessage("tool", <<>>, <<>>, <<[id |-> "1", text |-> Sorry]>>, <<"f">>, FALSE)}
ChatMore ==
    ChatSample \cup
    {ChatMessage("developer", <<B>>, <<>>, <<>>, <<>>, FALSE),
     ChatMessage("user", <<A, Media>>, <<>>, <<>>, <<>>, FALSE),
     ChatMessage("user", <<>>, <<>>, <<>>, <<>>, FALSE),
     ChatMessage("assistant", <<>>, <<Call("1", "f", JsonText(Word("x"))),
                                       Call("2", "f", JsonText(Args))>>, <<>>, <<>>, FALSE),
     ChatMessage("assistant", <<>>, <<Call("1", "f", JsonText(Args)),
                                       Call("2", "g", JsonText(Args))>>, <<>>, <<>>, FALSE),
     ChatMessage("tool", <<>>, <<>>, <<[id |-> "2", text |-> Found]>>, <<>>, FALSE),
     ChatMessage("user", <<B>>, <<>>, <<>>, <<>>, TRUE)}

ResponsesSample ==
    {MessageItem("developer", <<B>>), MessageItem("user", <<A, B>>),
     MessageItem("assistant", <<B>>),
     CallItem(Call("1", "f", JsonText(Args))), OutputItem("1", Sorry),
     MessageItem("user", <<Media>>)}

AnthropicSample ==
    {AnthropicMessage("user", <<A, B>>), AnthropicMessage("assistant", <<B>>),
     AnthropicMessage("assistant", <<A, Call("1", "f", Args), B, Call("2", "g", Args)>>),
     AnthropicMessage("user", <<Result("1", <<>>, Sorry, TRUE)>>),
     AnthropicMessage("user", <<Result("2", <<>>, Found, FALSE), A>>),
     AnthropicMessage("user", <<Call("1", "f", Args)>>)}

GeminiSample ==
    {GeminiContent("user", <<A, B>>),
     GeminiContent("model", <<Call("1", "f", Args), A>>),
     GeminiContent("user", <<Result("1", <<"f">>, Args, FALSE)>>),
     GeminiContent("user", <<Result("1", <<>>, Args, FALSE)>>),
     GeminiContent("model", <<Media>>), GeminiContent("model", <<B>>)}

InteractionsSample ==
    {TextStep("user_input", <<A, B>>), TextStep("model_output", <<B>>),
     CallStep(Call("1", "f", Args)), CallStep(Call("1", "f", Word("x"))),
     ResultStep("1", <<"f">>, Found), TextStep("user_input", <<Media>>)}

-----------------------------------------------------------------------------
(* Envelopes: with tools, choices and schemas; and with everything else. *)

Tools(adapter) ==
    {<<>>, <<Function("f", FALSE)>>, <<Function("f", TRUE), Function("g", FALSE)>>,
     <<Remote(adapter, "search"), Function("f", FALSE)>>}
Outputs == {<<>>, <<Output("response", TRUE)>>, <<Output("answer", FALSE)>>}
Plain(adapter) ==
    [tools |-> <<>>, choice |-> <<>>, output |-> <<>>, max |-> <<100>>, both |-> FALSE,
     stop |-> <<>>, stream |-> FALSE, store |-> FALSE, extra |-> {}, previous |-> FALSE,
     instructions |-> <<>>, model |-> "m"]
Envelopes(adapter, modes) ==
    {[Plain(adapter) EXCEPT !.tools = t, !.choice = c, !.output = o] :
        t \in Tools(adapter), c \in modes, o \in Outputs}
    \cup {[Plain(adapter) EXCEPT !.max = m, !.both = b, !.stop = s, !.store = st, !.stream = st,
                                 !.extra = e, !.previous = p, !.model = n] :
            m \in {<<>>, <<100>>}, b \in BOOLEAN, s \in {<<>>, <<"x">>}, st \in BOOLEAN,
            e \in {{}, {"metadata"}, {"other"}}, p \in BOOLEAN, n \in {"m", "odd/model", ""}}
    \cup {[Plain(adapter) EXCEPT !.instructions = i] : i \in {<<"a">>, <<"a", "b">>}}

\* The envelope of each adapter around some messages.
ChatWire(e, messages) ==
    [model |-> e.model, messages |-> messages, tools |-> e.tools, choice |-> e.choice,
     output |-> e.output, max_completion_tokens |-> e.max,
     max_tokens |-> IF e.both THEN <<100>> ELSE <<>>,
     temperature |-> <<>>, stop |-> e.stop, stream |-> e.stream, store |-> e.store,
     extra |-> e.extra]
ResponsesWire(e, input) ==
    [model |-> e.model, instructions |-> IF e.instructions = <<>> THEN <<>> ELSE <<e.instructions>>,
     input |-> input, tools |-> e.tools, choice |-> e.choice, output |-> e.output,
     max |-> e.max, temperature |-> <<>>, stream |-> e.stream, store |-> e.store,
     extra |-> e.extra]
InstructionBlocks(e) == [i \in DOMAIN e.instructions |-> Text(<<e.instructions[i]>>)]
AnthropicWire(e, messages) ==
    [model |-> e.model, system |-> IF e.instructions = <<>> THEN <<>> ELSE <<InstructionBlocks(e)>>,
     messages |-> messages, tools |-> e.tools, choice |-> e.choice, format |-> e.output,
     max_tokens |-> e.max, temperature |-> <<>>, stop_sequences |-> e.stop,
     stream |-> e.stream, extra |-> e.extra]
GeminiWire(e, contents) ==
    [model |-> e.model, stream |-> e.stream,
     systemInstruction |-> IF e.instructions = <<>> THEN <<>> ELSE <<InstructionBlocks(e)>>,
     contents |-> contents, tools |-> ToolsToWire(e.tools), toolConfig |-> e.choice,
     responseMimeType |-> e.output # <<>>, responseSchema |-> e.output # <<>> /\ ~ e.both,
     maxOutputTokens |-> e.max, temperature |-> <<>>, stopSequences |-> e.stop,
     extra |-> e.extra]
InteractionsWire(e, input) ==
    [model |-> e.model,
     system_instruction |-> IF e.instructions = <<>> THEN <<>> ELSE <<e.instructions>>,
     input |-> input, tools |-> e.tools, choice |-> e.choice, response_format |-> e.output,
     max |-> e.max, temperature |-> <<>>, stop |-> e.stop, stream |-> e.stream,
     store |-> e.store, previous |-> e.previous, extra |-> e.extra]

Modes(names, specific) == {<<>>, <<Choice(specific, <<"f">>)>>} \cup {<<Choice(n, <<>>)>> : n \in names}

MCWires ==
    [adapter \in Adapters |->
        CASE adapter = ChatName ->
                {ChatWire(Plain(adapter), m) : m \in UpTo(ChatMore, 2) \cup UpTo(ChatSample, 3)}
                \cup {ChatWire(e, <<ChatMessage("user", <<A>>, <<>>, <<>>, <<>>, FALSE)>>) :
                        e \in Envelopes(adapter, Modes({"none", "required", "any"}, "specific"))}
          [] adapter = ResponsesName ->
                {ResponsesWire(Plain(adapter), m) : m \in UpTo(ResponsesSample, 3)}
                \cup {ResponsesWire(e, <<MessageItem("user", <<A>>)>>) :
                        e \in Envelopes(adapter, Modes({"none", "required", "any"}, "function"))}
          [] adapter = AnthropicName ->
                {AnthropicWire(Plain(adapter), m) : m \in UpTo(AnthropicSample, 3)}
                \cup {AnthropicWire(e, <<AnthropicMessage("user", <<A>>)>>) :
                        e \in Envelopes(adapter, Modes({"none", "required", "any"}, "tool"))}
          [] adapter = GeminiName ->
                {GeminiWire(Plain(adapter), m) : m \in UpTo(GeminiSample, 3)}
                \cup {GeminiWire(e, <<GeminiContent("user", <<A>>)>>) :
                        e \in Envelopes(adapter, Modes({"AUTO", "ANY", "any"}, "ANY"))}
          [] OTHER ->
                {InteractionsWire(Plain(adapter), m) : m \in UpTo(InteractionsSample, 3)}
                \cup {InteractionsWire(e, <<TextStep("user_input", <<A>>)>>) :
                        e \in Envelopes(adapter, Modes({"none", "required", "any"}, "f"))}]

Closed == Policy(FALSE, FALSE, {})
Reviewed == Policy(TRUE, TRUE, {"metadata", Previous})
MCPolicies == {<<Closed, Closed>>, <<Reviewed, Closed>>, <<Reviewed, Reviewed>>}
MCEgress == Adapters
===============================================================================
