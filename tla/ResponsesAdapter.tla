-------------------------- MODULE ResponsesAdapter ---------------------------
(***************************************************************************)
(* providers/openai_responses.py: a request is one text of instructions    *)
(* and a list of items, which are messages, calls and outputs of calls.    *)
(***************************************************************************)
EXTENDS CanonicalIR

ResponsesName == "openai-responses"

MessageItem(role, content) == [type |-> "message", role |-> role, content |-> content]
CallItem(call) == [type |-> "function_call", call |-> call]
OutputItem(id, text) == [type |-> "function_call_output", id |-> id, text |-> text]

\* What a client may send, apart from what Reads looks at.
IsItem(item) ==
    /\ item.type = "message" => AreBlocks(item.content)
    /\ item.type = "function_call" => item.call = Call(item.call.id, item.call.name, item.call.args)
IsResponsesWire(w) ==
    /\ IsList(w.input) /\ \A item \in ToSet(w.input) : IsItem(item)
    /\ Optional(w.instructions) /\ (w.instructions # <<>> => IsList(w.instructions[1]))
    /\ AreTools(ResponsesName, w.tools) /\ IsOutput(w.output) /\ IsChoice(w.choice)
    /\ IsList(w.max) /\ w.store \in BOOLEAN

ItemReads(item) ==
    \/ /\ item.type = "message"
       /\ item.role \in Roles \ {"tool"}
       /\ item.content # <<>> /\ \A i \in DOMAIN item.content : IsText(item.content[i])
    \/ item.type = "function_call" /\ ReadsObject(item.call.args)
    \/ item.type = "function_call_output"

\* Every call is a turn of its own.
ItemFromWire(item) ==
    CASE item.type = "message" -> Turn(item.role, item.content, <<>>)
      [] item.type = "function_call" ->
            Turn("assistant", <<[item.call EXCEPT !.args = @.of]>>, <<>>)
      [] OTHER -> Turn("tool", <<Result(item.id, <<>>, json_or_text(item.text), FALSE)>>, <<>>)

ResponsesChoiceReads(choice) ==
    choice # <<>> => \/ choice[1].mode \in DOMAIN SimpleModes
                     \/ choice[1].mode = "function" /\ choice[1].name # <<>>

ResponsesChoiceFromWire(choice) ==
    CASE choice = <<>> -> <<>>
      [] choice # <<>> /\ choice[1].mode = "function" -> <<Choice("specific", choice[1].name)>>
      [] OTHER -> <<Choice(SimpleModes[choice[1].mode], <<>>)>>

ReadsResponses(policy, w) ==
    /\ FieldsReviewed(policy, w.extra)
    /\ \A i \in DOMAIN w.input : ItemReads(w.input[i])
    /\ RemoteReads(policy, w.tools)
    /\ w.model # ""
    /\ ResponsesChoiceReads(w.choice)
    /\ StorageAllowed(policy, w.store)

ResponsesFromWire(policy, w) ==
    LET instructions == IF w.instructions = <<>> THEN <<>>
                        ELSE <<Turn("system", <<Text(w.instructions[1])>>, <<>>)>>
    IN  CanonicalRequest(w.model,
            instructions \o [i \in DOMAIN w.input |-> ItemFromWire(w.input[i])],
            w.tools, ResponsesChoiceFromWire(w.choice), w.output, Settings(w.max, w.temperature, <<>>),
            w.stream, w.store, ExtensionsOf(ResponsesName, w.extra))

ResponsesTurnWrites(turn) ==
    IF turn.role = "tool" THEN OneResult(turn)
    ELSE /\ \A i \in DOMAIN turn.content : ~ IsResult(turn.content[i])
         /\ CallsOf(turn) # <<>> => turn.role = "assistant"

\* Mutant: a turn that has texts is a message, and only a message.
TurnToItemsEither(turn) ==
    LET texts == TextsOf(turn)
        calls == CallsOf(turn)
        result == turn.content[1]
    IN  CASE turn.role = "tool" -> <<OutputItem(result.id, compact_json(result.value))>>
          [] turn.role # "tool" /\ texts # <<>> -> <<MessageItem(turn.role, texts)>>
          [] OTHER -> [i \in DOMAIN calls |-> CallItem([calls[i] EXCEPT !.args = compact_json(@)])]

\* _turn_to_items: the message first, then the calls.
TurnToItems(turn) ==
    LET texts == TextsOf(turn)
        calls == CallsOf(turn)
        result == turn.content[1]
    IN  IF turn.role = "tool" THEN <<OutputItem(result.id, compact_json(result.value))>>
        ELSE (IF texts = <<>> THEN <<>> ELSE <<MessageItem(turn.role, texts)>>)
             \o [i \in DOMAIN calls |-> CallItem([calls[i] EXCEPT !.args = compact_json(@)])]

\* One turn of instructions, wherever it stands among the others.
WritesResponses(policy, r) ==
    LET instructions == InstructionsOf(r.turns)
        others == OthersOf(r.turns)
    IN  /\ StorageAllowed(policy, r.store)
        /\ Len(instructions) <= 1
        /\ \A i \in DOMAIN instructions : TextsOnly(instructions[i])
        /\ \A i \in DOMAIN others : ResponsesTurnWrites(others[i])
        /\ RemoteWrites(ResponsesName, policy, r.tools)
        /\ r.settings.stop = <<>>
        /\ ExtensionsWritten(ResponsesName, policy, r.extensions)

ResponsesChoiceToWire(choice) ==
    IF Specific(choice) THEN <<Choice("function", choice[1].name)>> ELSE choice

Instructions(r) ==
    LET instructions == InstructionsOf(r.turns)
    IN  IF instructions = <<>> THEN <<>> ELSE <<Joined(instructions[1])>>

ResponsesToWire(r) ==
    LET others == OthersOf(r.turns)
    IN  [model |-> r.model, instructions |-> Instructions(r),
         input |-> FlattenSeq([i \in DOMAIN others |-> TurnToItems(others[i])]),
         tools |-> r.tools, choice |-> ResponsesChoiceToWire(r.choice), output |-> r.output,
         max |-> r.settings.max, temperature |-> r.settings.temperature,
         stream |-> r.stream, store |-> r.store, extra |-> FieldsOf(r.extensions)]
=============================================================================
