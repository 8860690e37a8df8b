-------------------------- MODULE OpenAIChatAdapter --------------------------
(***************************************************************************)
(* providers/openai_chat.py: Chat Completions requests to the canonical    *)
(* form and back.  On the wire a message has content blocks and, apart     *)
(* from them, calls; a tool message has an id and one text.                *)
(***************************************************************************)
EXTENDS CanonicalIR

ChatName == "openai-chat-completions"

ChatMessage(role, content, calls, answer, name, unknown) ==
    [role |-> role, content |-> content, calls |-> calls, answer |-> answer,
     name |-> name, unknown |-> unknown]

\* What a client may send, apart from what Reads looks at; a mode in one word has
\* no name.
IsChatMessage(m) ==
    /\ AreBlocks(m.content)
    /\ IsList(m.calls) /\ \A c \in ToSet(m.calls) : c = Call(c.id, c.name, c.args)
    /\ Optional(m.answer)
IsChatWire(w) ==
    /\ IsList(w.messages) /\ \A m \in ToSet(w.messages) : IsChatMessage(m)
    /\ AreTools(ChatName, w.tools) /\ IsOutput(w.output) /\ IsChoice(w.choice)
    /\ w.choice # <<>> /\ w.choice[1].mode # "specific" => w.choice[1].name = <<>>
    /\ IsList(w.max_tokens) /\ IsList(w.max_completion_tokens) /\ w.store \in BOOLEAN

ChatMessageReads(m) ==
    /\ ~ m.unknown /\ m.role \in Roles
    /\ \/ m.role = "tool" /\ m.answer # <<>> /\ m.calls = <<>>
       \/ /\ m.role # "tool" /\ m.answer = <<>>
          /\ m.content # <<>> \/ m.calls # <<>>
          /\ \A i \in DOMAIN m.content : IsText(m.content[i])
          /\ m.calls # <<>> => m.role = "assistant"
          /\ \A i \in DOMAIN m.calls : ReadsObject(m.calls[i].args)

ChatMessageFromWire(m) ==
    LET parsed == [i \in DOMAIN m.calls |-> [m.calls[i] EXCEPT !.args = @.of]]
        content == IF m.role = "tool"
                   THEN <<Result(m.answer[1].id, m.name, json_or_text(m.answer[1].text), FALSE)>>
                   ELSE m.content \o parsed
    IN  Turn(m.role, content, m.name)

\* The modes that ToolChoiceMode(value) and the form with a function know.
ChatChoiceReads(choice) ==
    choice # <<>> => \/ choice[1].mode \in {"auto", "none", "required"}
                     \/ choice[1].mode = "specific" /\ choice[1].name # <<>>

ReadsChat(policy, w) ==
    /\ FieldsReviewed(policy, w.extra)
    /\ w.model # ""
    /\ \A i \in DOMAIN w.messages : ChatMessageReads(w.messages[i])
    /\ RemoteReads(policy, w.tools)
    /\ ~ (w.max_tokens # <<>> /\ w.max_completion_tokens # <<>>)
    /\ ChatChoiceReads(w.choice)
    /\ StorageAllowed(policy, w.store)

ChatFromWire(policy, w) ==
    CanonicalRequest(w.model, [i \in DOMAIN w.messages |-> ChatMessageFromWire(w.messages[i])],
        w.tools, w.choice, w.output,
        Settings(w.max_completion_tokens \o w.max_tokens, w.temperature, w.stop),
        w.stream, w.store, ExtensionsOf(ChatName, w.extra))

ChatTurnWrites(turn) ==
    IF turn.role = "tool" THEN OneResult(turn)
    ELSE /\ \A i \in DOMAIN turn.content : ~ IsResult(turn.content[i])
         /\ CallsOf(turn) # <<>> => turn.role = "assistant"

\* Texts and calls part: what a provider put between them moves.
ChatMessageToWire(turn) ==
    LET calls == CallsOf(turn)
        result == turn.content[1]
    IN  IF turn.role = "tool"
        THEN ChatMessage("tool", <<>>, <<>>,
                     <<[id |-> result.id, text |-> compact_json(result.value)]>>, turn.name, FALSE)
        ELSE ChatMessage(turn.role, TextsOf(turn),
                     [i \in DOMAIN calls |-> [calls[i] EXCEPT !.args = compact_json(@)]],
                     <<>>, turn.name, FALSE)

WritesChat(policy, r) ==
    /\ StorageAllowed(policy, r.store)
    /\ \A i \in DOMAIN r.turns : ChatTurnWrites(r.turns[i])
    /\ RemoteWrites(ChatName, policy, r.tools)
    /\ ExtensionsWritten(ChatName, policy, r.extensions)

ChatToWire(r) ==
    [model |-> r.model, messages |-> [i \in DOMAIN r.turns |-> ChatMessageToWire(r.turns[i])],
     tools |-> r.tools, choice |-> r.choice, output |-> r.output,
     max_completion_tokens |-> r.settings.max, max_tokens |-> <<>>,
     temperature |-> r.settings.temperature, stop |-> r.settings.stop,
     stream |-> r.stream, store |-> r.store, extra |-> FieldsOf(r.extensions)]
=============================================================================
