-------------------------- MODULE AnthropicAdapter ---------------------------
(***************************************************************************)
(* providers/anthropic_messages.py: instructions are a list of texts apart *)
(* from the messages, results are blocks of the user's messages, and only  *)
(* here a result says that it is an error.                                 *)
(***************************************************************************)
EXTENDS CanonicalIR

AnthropicName == "anthropic-messages"

AnthropicMessage(role, content) == [role |-> role, content |-> content]

\* What a client may send, apart from what Reads looks at.
IsAnthropicWire(w) ==
    /\ IsList(w.messages) /\ \A m \in ToSet(w.messages) : AreBlocks(m.content)
    /\ Optional(w.system)
    /\ w.system # <<>> => AreBlocks(w.system[1]) /\ \A b \in ToSet(w.system[1]) : IsText(b)
    /\ AreTools(AnthropicName, w.tools) /\ IsChoice(w.choice) /\ IsList(w.format)
    /\ IsList(w.max_tokens)

\* A tool_use block has an object, a tool_result block a text.
BlockReads(role, b) ==
    \/ IsText(b)
    \/ IsCall(b) /\ role = "assistant" /\ b.args.object
    \/ IsResult(b) /\ role = "user"

AnthropicMessageReads(m) ==
    /\ m.role \in {"user", "assistant"}
    /\ \A i \in DOMAIN m.content : BlockReads(m.role, m.content[i])
    /\ m.content # <<>>
    /\ (\E i \in DOMAIN m.content : IsResult(m.content[i])) => Len(m.content) = 1

\* A message that is one result becomes a turn of the tool.
AnthropicMessageFromWire(m) ==
    LET block == m.content[1]
    IN  IF IsResult(block)
        THEN Turn("tool", <<Result(block.id, <<>>, json_or_text(block.value), block.error)>>, <<>>)
        ELSE Turn(m.role, m.content, <<>>)

ModeFromWire == [auto |-> "auto", none |-> "none", any |-> "required"]
AnthropicChoiceReads(choice) ==
    choice # <<>> => \/ choice[1].mode \in DOMAIN ModeFromWire /\ choice[1].name = <<>>
                     \/ choice[1].mode = "tool" /\ choice[1].name # <<>>

AnthropicChoiceFromWire(choice) ==
    CASE choice = <<>> -> <<>>
      [] choice # <<>> /\ choice[1].mode = "tool" -> <<Choice("specific", choice[1].name)>>
      [] OTHER -> <<Choice(ModeFromWire[choice[1].mode], <<>>)>>

ReadsAnthropic(policy, w) ==
    /\ FieldsReviewed(policy, w.extra)
    /\ w.system # <<>> => w.system[1] # <<>>
    /\ \A i \in DOMAIN w.messages : AnthropicMessageReads(w.messages[i])
    /\ w.model # ""
    /\ RemoteReads(policy, w.tools)
    /\ AnthropicChoiceReads(w.choice)

AnthropicFromWire(policy, w) ==
    LET system == IF w.system = <<>> THEN <<>> ELSE <<Turn("system", w.system[1], <<>>)>>
    IN  CanonicalRequest(w.model,
            system \o [i \in DOMAIN w.messages |-> AnthropicMessageFromWire(w.messages[i])],
            w.tools, AnthropicChoiceFromWire(w.choice),
            IF w.format = <<>> THEN <<>> ELSE <<Output("response", TRUE)>>,
            Settings(w.max_tokens, w.temperature, w.stop_sequences),
            w.stream, FALSE, ExtensionsOf(AnthropicName, w.extra))

AnthropicTurnWrites(turn) ==
    \/ turn.role = "tool" /\ OneResult(turn)
    \/ /\ turn.role \in {"user", "assistant"}
       /\ \A i \in DOMAIN turn.content :
             \/ IsText(turn.content[i])
             \/ IsCall(turn.content[i]) /\ turn.role = "assistant"

AnthropicMessageToWire(turn) ==
    IF turn.role = "tool"
    THEN AnthropicMessage("user", <<[turn.content[1] EXCEPT !.name = <<>>, !.value = compact_json(@)]>>)
    ELSE AnthropicMessage(turn.role, turn.content)

WritesAnthropic(policy, r) ==
    /\ ~ r.store
    /\ SystemFirst(r.turns)
    /\ \A i \in DOMAIN r.turns :
          IF IsInstruction(r.turns[i]) THEN TextsOnly(r.turns[i]) ELSE AnthropicTurnWrites(r.turns[i])
    /\ r.settings.max # <<>>
    /\ RemoteWrites(AnthropicName, policy, r.tools)
    /\ r.output # <<>> => r.output[1].name = "response"
    /\ ExtensionsWritten(AnthropicName, policy, r.extensions)

AnthropicChoiceToWire(choice) ==
    CASE Specific(choice) -> <<Choice("tool", choice[1].name)>>
      [] choice # <<>> /\ choice[1].mode = "required" -> <<Choice("any", <<>>)>>
      [] OTHER -> choice

AnthropicToWire(r) ==
    LET instructions == InstructionsOf(r.turns)
        others == OthersOf(r.turns)
        system == FlattenSeq([i \in DOMAIN instructions |-> instructions[i].content])
    IN  [model |-> r.model, system |-> IF system = <<>> THEN <<>> ELSE <<system>>,
         messages |-> [i \in DOMAIN others |-> AnthropicMessageToWire(others[i])],
         tools |-> r.tools, choice |-> AnthropicChoiceToWire(r.choice),
         format |-> [i \in DOMAIN r.output |-> "json_schema"],
         max_tokens |-> r.settings.max, temperature |-> r.settings.temperature,
         stop_sequences |-> r.settings.stop, stream |-> r.stream, extra |-> FieldsOf(r.extensions)]
=============================================================================
