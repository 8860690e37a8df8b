--------------------------- MODULE ProviderStreams ---------------------------
(***************************************************************************)
(* parse_stream_event of the five adapters: what a provider streams, in    *)
(* its own events, becomes typed events (privacy/ir/stream.py), and who    *)
(* listens has to put the fragments together again.                        *)
(*                                                                         *)
(* An answer has blocks: texts, refusals and calls of functions, of one or *)
(* several choices.  The n-th fragment of a block is <<block, n>>.  The    *)
(* provider sends fragments of different blocks in any order, those of a   *)
(* block in theirs, each in the event its protocol has for it.             *)
(***************************************************************************)
EXTENDS Integers, FiniteSetsExt, CanonicalIR

CONSTANTS
    Blocks,   \* [choice : Nat, index : Nat, kind : {"text", "refusal", "call"}]
    Pieces,   \* fragments of a block (bound of the model)
    Most,     \* no event is sent after so many fragments (bound of the model)
    Reasons   \* why an answer may end

Block == [choice : Nat, index : Nat, kind : {"text", "refusal", "call"}]
ASSUME StreamsAssumption == Blocks \subseteq Block /\ IsFiniteSet(Blocks) /\ {Pieces, Most} \subseteq Nat

VARIABLES
    adapter,     \* whose protocol it is
    structured,  \* structured output was asked for
    sent,        \* fragments sent of each block
    ended,       \* choices that ended
    phase,       \* open, stopped, done, failed
    why,         \* the provider's reason, for each choice
    events       \* what the adapter made of it

streamsVars == <<adapter, structured, sent, ended, phase, why, events>>

Protocols == {"chat", "responses", "anthropic", "gemini", "interactions"}
ChoiceIndexes == {b.choice : b \in Blocks}

-----------------------------------------------------------------------------
(* The typed events. *)

TextDelta(path, text) == [kind |-> "text", path |-> path, text |-> text]
StructuredDataDelta(path, text) == [kind |-> "structured", path |-> path, text |-> text]
ToolArgumentsDelta(call, path, text) ==
    [kind |-> "arguments", path |-> path, text |-> text, call |-> call]
FinishEvent(reason, path) == [kind |-> "finish", path |-> path, reason |-> reason]
ErrorEvent == [kind |-> "error", path |-> <<>>]

\* Text, typed by what was asked for.
Content(path, text, asked) ==
    IF asked THEN StructuredDataDelta(path, text) ELSE TextDelta(path, text)

-----------------------------------------------------------------------------
(* OpenAI Chat: an event has choices; each names its index, and so does each
   of the calls in it, whose id comes with its first fragment only. *)

ChatChoice(c, asked) ==
    LET path(field) == <<"choices", c.index, field>>
        call == IF c.id = <<>> THEN <<c.index, c.tool>> ELSE c.id
    IN  CASE c.field = "content" -> <<Content(path("content"), c.text, asked)>>
          [] c.field = "refusal" -> <<TextDelta(path("refusal"), c.text)>>
          [] c.field = "tool_calls" ->
                <<ToolArgumentsDelta(call, path("tool_calls") \o <<c.tool>>, c.text)>>
          [] OTHER -> <<FinishEvent(c.text, <<"choices", c.index>>)>>

\* An unknown field of a delta is refused.
ChatReads(choices) ==
    \A i \in DOMAIN choices :
        choices[i].field \in {"content", "refusal", "tool_calls", "finish_reason"}

ChatParse(choices, asked) ==
    FlattenSeq([i \in DOMAIN choices |-> ChatChoice(choices[i], asked)])

(* Responses: texts are named by two indexes, arguments by item. *)

ResponsesPath(e) == <<"output", e.output_index, "content", e.content_index>>

ResponsesParse(e, asked) ==
    CASE e.type = "response.output_text.delta" -> <<Content(ResponsesPath(e), e.delta, asked)>>
      [] e.type = "response.function_call_arguments.delta" ->
            <<ToolArgumentsDelta(e.item_id, <<"output", e.output_index, "arguments">>, e.delta)>>
      [] e.type = "response.completed" -> <<FinishEvent("completed", <<>>)>>
      [] e.type \in {"error", "response.failed", "response.incomplete"} -> <<ErrorEvent>>
      [] OTHER -> <<>>

(* Anthropic: blocks are named by index; the reason comes before the end,
   which is a finish of its own. *)

AnthropicFinish(e) ==
    CASE e.type = "message_delta" -> <<FinishEvent(e.stop_reason, <<>>)>>
      [] e.type = "message_stop" -> <<FinishEvent("stop", <<>>)>>
      [] OTHER -> <<>>

AnthropicParse(e, asked) ==
    CASE e.type = "content_block_delta" /\ e.delta.type = "text_delta" ->
            <<Content(<<"content", e.index, "text">>, e.delta.text, asked)>>
      [] e.type = "content_block_delta" /\ e.delta.type = "input_json_delta" ->
            <<ToolArgumentsDelta(<<"content-block", e.index>>, <<"content", e.index, "input">>,
                                 e.delta.text)>>
      [] e.type = "error" -> <<ErrorEvent>>
      [] OTHER -> AnthropicFinish(e)

(* Gemini generateContent: parts are named by where they stand in the event;
   a call comes whole, with its id. *)

\* Mutant: calls are named by position, too.
GeminiCallAt(candidate, part, p) == <<candidate, part>>
GeminiCall(candidate, part, p) == p.id

GeminiParse(candidates, asked) ==
    LET ofPart(c, i, p) ==
            LET path == <<"candidates", c - 1, "parts", i - 1, p.type>>
            IN  IF p.type = "text" THEN Content(path, p.text, asked)
                ELSE ToolArgumentsDelta(GeminiCall(c, i, p), path, p.text)
        ofCandidate(c) ==
            [i \in DOMAIN candidates[c].parts |-> ofPart(c, i, candidates[c].parts[i])]
            \o [i \in DOMAIN candidates[c].finishReason |->
                    FinishEvent(candidates[c].finishReason[i], <<"candidates", c - 1>>)]
    IN  FlattenSeq([c \in DOMAIN candidates |-> ofCandidate(c)])

(* Gemini Interactions: steps are named by index. *)

InteractionsText(e, asked) == Content(<<"steps", e.index, "text">>, e.delta.text, asked)

InteractionsParse(e, asked) ==
    CASE e.event_type = "step.delta" /\ e.delta.type = "text" -> <<InteractionsText(e, asked)>>
      [] e.event_type = "step.delta" /\ e.delta.type = "arguments_delta" ->
            <<ToolArgumentsDelta(<<"step", e.index>>, <<"steps", e.index, "arguments">>,
                                 e.delta.text)>>
      [] e.event_type = "interaction.completed" -> <<FinishEvent(e.status, <<>>)>>
      [] e.event_type = "error" -> <<ErrorEvent>>
      [] OTHER -> <<>>

-----------------------------------------------------------------------------
(* The providers: one fragment in an event, or one for each of some choices. *)

Next1(b) == <<b, sent[b] + 1>>
CanSend(b) ==
    /\ phase = "open" /\ b.choice \notin ended
    /\ sent[b] < Pieces /\ MapThenSumSet(LAMBDA c : sent[c], Blocks) < Most
Count(bs) == sent' = [b \in Blocks |-> IF b \in bs THEN sent[b] + 1 ELSE sent[b]]

ChatEvent(b) ==
    [index |-> b.choice, tool |-> b.index,
     field |-> CASE b.kind = "text" -> "content" [] b.kind = "call" -> "tool_calls"
                 [] OTHER -> b.kind,
     id |-> IF b.kind = "call" /\ sent[b] = 0 THEN <<"id", b>> ELSE <<>>, text |-> Next1(b)]

SendChat ==
    /\ adapter = "chat"
    /\ \E bs \in SUBSET Blocks \ {{}} :
          /\ \A b \in bs : CanSend(b) /\ (b.kind # "call" => b.index = 0)
          /\ \A b, c \in bs : b.choice = c.choice => b = c
          /\ \E order \in SetToSeqs(bs) :
                LET event == [i \in DOMAIN order |-> ChatEvent(order[i])]
                IN  ChatReads(event) /\ events' = events \o ChatParse(event, structured)
          /\ Count(bs)
    /\ UNCHANGED <<adapter, structured, ended, phase, why>>

\* One choice, and no refusals apart from the text.
Single(b) == b.choice = 0 /\ b.kind # "refusal" /\ CanSend(b)

SendResponses ==
    /\ adapter = "responses"
    /\ \E b \in Blocks :
          /\ Single(b) /\ Count({b})
          /\ events' = events \o ResponsesParse(
                IF b.kind = "text"
                THEN [type |-> "response.output_text.delta", output_index |-> 0,
                      content_index |-> b.index, delta |-> Next1(b)]
                ELSE [type |-> "response.function_call_arguments.delta",
                      output_index |-> b.index + 1, item_id |-> <<"id", b>>, delta |-> Next1(b)],
                structured)
    /\ UNCHANGED <<adapter, structured, ended, phase, why>>

\* Blocks and steps are numbered through: calls after texts.
Number(b) == IF b.kind = "text" THEN b.index ELSE Cardinality(Blocks) + b.index

SendAnthropic ==
    /\ adapter = "anthropic"
    /\ \E b \in Blocks :
          /\ Single(b) /\ Count({b})
          /\ events' = events \o AnthropicParse(
                [type |-> "content_block_delta", index |-> Number(b),
                 delta |-> [type |-> IF b.kind = "text" THEN "text_delta" ELSE "input_json_delta",
                            text |-> Next1(b)]], structured)
    /\ UNCHANGED <<adapter, structured, ended, phase, why>>

SendInteractions ==
    /\ adapter = "interactions"
    /\ \E b \in Blocks :
          /\ Single(b) /\ Count({b})
          /\ events' = events \o InteractionsParse(
                [event_type |-> "step.delta", index |-> Number(b),
                 delta |-> [type |-> IF b.kind = "text" THEN "text" ELSE "arguments_delta",
                            text |-> Next1(b)]], structured)
    /\ UNCHANGED <<adapter, structured, ended, phase, why>>

SendGemini ==
    /\ adapter = "gemini"
    /\ \E bs \in SUBSET Blocks \ {{}} :
          /\ \A b \in bs : Single(b) /\ (b.kind = "call" => sent[b] = 0)
          /\ \E order \in SetToSeqs(bs) :
                LET part(b) == [type |-> IF b.kind = "text" THEN "text" ELSE "functionCall",
                                id |-> <<"id", b>>, text |-> Next1(b)]
                IN  events' = events \o GeminiParse(
                        <<[parts |-> [i \in DOMAIN order |-> part(order[i])],
                           finishReason |-> <<>>]>>, structured)
          /\ Count(bs)
    /\ UNCHANGED <<adapter, structured, ended, phase, why>>

\* A choice, or the answer, ends: with a reason, in the event for it.
Finish(c, reason) ==
    /\ phase = "open" /\ c \notin ended
    /\ ended' = ended \cup {c}
    /\ why' = [why EXCEPT ![c] = reason]
    /\ phase' = CASE adapter = "anthropic" -> "stopped"
                  [] adapter = "chat" /\ ended' # ChoiceIndexes -> "open"
                  [] OTHER -> "done"
    /\ events' = events \o
          CASE adapter = "chat" ->
                 ChatParse(<<[index |-> c, tool |-> 0, id |-> <<>>, field |-> "finish_reason",
                              text |-> reason]>>, structured)
            [] adapter = "gemini" ->
                 GeminiParse(<<[parts |-> <<>>, finishReason |-> <<reason>>]>>, structured)
            [] adapter = "anthropic" ->
                 AnthropicParse([type |-> "message_delta", stop_reason |-> reason], structured)
            [] adapter = "interactions" ->
                 InteractionsParse([event_type |-> "interaction.completed", status |-> reason],
                                   structured)
            [] OTHER -> ResponsesParse([type |-> "response.completed"], structured)
    /\ UNCHANGED <<adapter, structured, sent>>

End ==
    /\ phase = "stopped"
    /\ phase' = "done"
    /\ events' = events \o AnthropicParse([type |-> "message_stop"], structured)
    /\ UNCHANGED <<adapter, structured, sent, ended, why>>

\* An error event, or one that the adapter does not know, which it refuses.
Fail ==
    /\ phase \in {"open", "stopped"}
    /\ phase' = "failed"
    /\ events' \in {events, Append(events, ErrorEvent)}
    /\ UNCHANGED <<adapter, structured, sent, ended, why>>

StreamsInit ==
    /\ adapter \in Protocols /\ structured \in BOOLEAN
    /\ sent = [b \in Blocks |-> 0] /\ ended = {} /\ phase = "open"
    /\ why = [c \in ChoiceIndexes |-> ""] /\ events = <<>>

StreamsNext ==
    \/ SendChat \/ SendResponses \/ SendAnthropic \/ SendInteractions \/ SendGemini
    \/ \E c \in ChoiceIndexes, reason \in Reasons :
          (adapter = "chat" \/ c = 0) /\ (adapter = "responses" => reason = "completed")
          /\ Finish(c, reason)
    \/ End \/ Fail

StreamsSpec == StreamsInit /\ [][StreamsNext]_streamsVars

-----------------------------------------------------------------------------
Deltas == Having(events, "kind", {"text", "structured", "arguments"})
Texts(seq) == [i \in DOMAIN seq |-> seq[i].text]
Fragments(b) == [n \in 1..sent[b] |-> <<b, n>>]

\* Who joins the fragments with equal paths gets each block whole, in order and
\* apart from the others, however the provider mixed them; only generateContent,
\* where a path is a position in one event, has to be read event by event.
PathsKeepBlocksApart ==
    adapter # "gemini" =>
        \A b \in Blocks : sent[b] > 0 =>
            \E p \in {Deltas[i].path : i \in DOMAIN Deltas} :
                Texts(Having(Deltas, "path", {p})) = Fragments(b)

\* Who joins the arguments of a call by its id gets them whole; in Chat
\* Completions only the first fragment has the id.
CallsKeepTheirArguments ==
    adapter # "chat" =>
        LET calls == Having(events, "kind", {"arguments"})
        IN  \A b \in Blocks : b.kind = "call" /\ sent[b] > 0 =>
                \E id \in {calls[i].call : i \in DOMAIN calls} :
                    Texts(Having(calls, "call", {id})) = Fragments(b)

\* Schema output is typed as such from the first fragment to the last, and
\* nothing else is: a refusal stays text, arguments stay arguments.
StructuredIsTyped ==
    \A i \in DOMAIN Deltas :
        Deltas[i].kind = CASE Deltas[i].text[1].kind = "call" -> "arguments"
                           [] Deltas[i].text[1].kind = "text" /\ structured -> "structured"
                           [] OTHER -> "text"

\* The first finish of a choice tells the provider's reason, and no text of the
\* choice comes after it.
FirstFinishTellsWhy ==
    \A c \in ended :
        LET mine(e) == e.kind # "error" /\ (adapter = "chat" => e.path[2] = c)
        IN  \E n \in DOMAIN events :
                /\ mine(events[n]) /\ events[n].kind = "finish" /\ events[n].reason = why[c]
                /\ \A i \in DOMAIN events : mine(events[i]) =>
                      /\ i < n => events[i].kind # "finish"
                      /\ i > n => events[i].kind = "finish"

\* However a provider cuts and mixes an answer, its pieces can be put together
\* again, each as what it is, and its end is known.
StreamedBlocksStayWhole ==
    PathsKeepBlocksApart /\ CallsKeepTheirArguments /\ StructuredIsTyped /\ FirstFinishTellsWhy
=============================================================================
