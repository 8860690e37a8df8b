------------------------- MODULE InteractionsAdapter -------------------------
(***************************************************************************)
(* providers/gemini_interactions.py: a request is one text of instructions *)
(* and a list of steps.  It may continue an interaction that the provider  *)
(* stored, if the policy allows storage and has reviewed the field.        *)
(***************************************************************************)
EXTENDS CanonicalIR

InteractionsName == "gemini-interactions"

Previous == "previous_interaction_id"

TextStep(type, content) == [type |-> type, content |-> content]
CallStep(call) == [type |-> "function_call", call |-> call]
ResultStep(id, name, text) == [type |-> "function_result", id |-> id, name |-> name, text |-> text]

\* What a client may send, apart from what Reads looks at.
IsStep(step) ==
    /\ step.type \in {"user_input", "model_output"} => AreBlocks(step.content)
    /\ step.type = "function_call" => step.call = Call(step.call.id, step.call.name, step.call.args)
IsInteractionsWire(w) ==
    /\ IsList(w.input) /\ \A step \in ToSet(w.input) : IsStep(step)
    /\ Optional(w.system_instruction)
    /\ w.system_instruction # <<>> => IsList(w.system_instruction[1])
    /\ AreTools(InteractionsName, w.tools) /\ IsChoice(w.choice) /\ IsList(w.response_format)
    /\ IsList(w.max) /\ w.store \in BOOLEAN /\ w.previous \in BOOLEAN

StepReads(step) ==
    \/ /\ step.type \in {"user_input", "model_output"}
       /\ step.content # <<>> /\ \A i \in DOMAIN step.content : IsText(step.content[i])
    \/ step.type = "function_call" /\ step.call.args.object
    \/ step.type = "function_result" /\ step.name # <<>>

StepFromWire(step) ==
    CASE step.type = "user_input" -> Turn("user", step.content, <<>>)
      [] step.type = "model_output" -> Turn("assistant", step.content, <<>>)
      [] step.type = "function_call" -> Turn("assistant", <<step.call>>, <<>>)
      [] OTHER -> Turn("tool",
                       <<Result(step.id, step.name, json_or_text(step.text), FALSE)>>, <<>>)

\* A function has no strict flag on this wire.
ToolFromWire(tool) == IF IsFunction(tool) THEN Function(tool.name, FALSE) ELSE tool

PreviousAllowed(policy, store) ==
    /\ policy.storage /\ Previous \in policy.safe
    /\ store

InteractionsChoiceReads(choice) == choice # <<>> => choice[1].mode \in DOMAIN SimpleModes

ReadsInteractions(policy, w) ==
    /\ FieldsReviewed(policy, w.extra)
    /\ StorageAllowed(policy, w.store)
    /\ w.previous => PreviousAllowed(policy, w.store)
    /\ \A i \in DOMAIN w.input : StepReads(w.input[i])
    /\ w.model # ""
    /\ RemoteReads(policy, w.tools)
    /\ InteractionsChoiceReads(w.choice)

InteractionsFromWire(policy, w) ==
    LET instruction == IF w.system_instruction = <<>> THEN <<>>
                       ELSE <<Turn("system", <<Text(w.system_instruction[1])>>, <<>>)>>
    IN  CanonicalRequest(w.model,
            instruction \o [i \in DOMAIN w.input |-> StepFromWire(w.input[i])],
            [i \in DOMAIN w.tools |-> ToolFromWire(w.tools[i])],
            [i \in DOMAIN w.choice |-> Choice(SimpleModes[w.choice[i].mode], <<>>)],
            IF w.response_format = <<>> THEN <<>> ELSE <<Output("response", TRUE)>>,
            Settings(w.max, w.temperature, w.stop), w.stream, w.store,
            ExtensionsOf(InteractionsName, w.extra \cup (IF w.previous THEN {Previous} ELSE {})))

InteractionsTurnWrites(turn) ==
    IF turn.role = "tool" THEN OneResult(turn) /\ turn.content[1].name # <<>>
    ELSE /\ \A i \in DOMAIN turn.content : ~ IsResult(turn.content[i])
         /\ TextsOf(turn) # <<>> => turn.role \in {"user", "assistant"}
         /\ CallsOf(turn) # <<>> => turn.role = "assistant"

TurnToInputs(turn) ==
    LET texts == TextsOf(turn)
        calls == CallsOf(turn)
        result == turn.content[1]
        type == IF turn.role = "user" THEN "user_input" ELSE "model_output"
    IN  IF turn.role = "tool"
        THEN <<ResultStep(result.id, result.name, compact_json(result.value))>>
        ELSE (IF texts = <<>> THEN <<>> ELSE <<TextStep(type, texts)>>)
             \o [i \in DOMAIN calls |-> CallStep(calls[i])]

\* One leading turn of instructions, unlike in the Responses adapter.
WritesInteractions(policy, r) ==
    /\ StorageAllowed(policy, r.store)
    /\ \A i \in DOMAIN r.turns :
          IF IsInstruction(r.turns[i]) THEN i = 1 /\ TextsOnly(r.turns[i])
          ELSE InteractionsTurnWrites(r.turns[i])
    /\ RemoteWrites(InteractionsName, policy, r.tools)
    /\ NoneStrict(r.tools)
    /\ ~ Specific(r.choice)
    /\ r.output # <<>> => r.output[1].name = "response"
    /\ ExtensionsWritten(InteractionsName, policy, r.extensions)
    /\ Previous \in FieldsOf(r.extensions) => r.store

InteractionsToWire(r) ==
    LET instructions == InstructionsOf(r.turns)
        others == OthersOf(r.turns)
        fields == FieldsOf(r.extensions)
    IN  [model |-> r.model,
         system_instruction |->
            IF instructions = <<>> THEN <<>> ELSE <<Joined(instructions[1])>>,
         input |-> FlattenSeq([i \in DOMAIN others |-> TurnToInputs(others[i])]),
         tools |-> r.tools, choice |-> r.choice,
         response_format |-> [i \in DOMAIN r.output |-> "json_schema"],
         max |-> r.settings.max, temperature |-> r.settings.temperature, stop |-> r.settings.stop,
         stream |-> r.stream, store |-> r.store,
         previous |-> Previous \in fields, extra |-> fields \ {Previous}]
=============================================================================
