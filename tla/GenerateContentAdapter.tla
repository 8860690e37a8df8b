----------------------- MODULE GenerateContentAdapter ------------------------
(***************************************************************************)
(* providers/gemini_generate_content.py: the legacy interface of Gemini.   *)
(* Model and streaming are in the address, target_for, and not in the body *)
(* that to_wire writes; here a wire value is the body with its address.    *)
(* Declarations of functions share one entry of the tools, the others      *)
(* follow it.                                                              *)
(***************************************************************************)
EXTENDS CanonicalIR

GeminiName == "gemini-generate-content"

GeminiContent(role, parts) == [role |-> role, parts |-> parts]

PartReads(role, part) ==
    \/ IsText(part)
    \/ IsCall(part) /\ role = "model" /\ part.args.object
    \/ IsResult(part) /\ role = "user" /\ part.name # <<>>

ContentReads(c) ==
    /\ c.role \in {"user", "model"}
    /\ \A i \in DOMAIN c.parts : PartReads(c.role, c.parts[i])
    /\ c.parts # <<>>
    /\ (\E i \in DOMAIN c.parts : IsResult(c.parts[i])) => Len(c.parts) = 1

ContentFromWire(c) ==
    CASE IsResult(c.parts[1]) -> Turn("tool", c.parts, <<>>)
      [] c.role = "model" -> Turn("assistant", c.parts, <<>>)
      [] OTHER -> Turn("user", c.parts, <<>>)

\* An entry of the tools is a group of declarations or somebody's own tool; a
\* declaration has no strict flag.
Declarations(names) == [kind |-> "declarations", names |-> names]
ToolsFromWire(entries) ==
    FlattenSeq([i \in DOMAIN entries |->
        IF entries[i].kind = "declarations"
        THEN [j \in DOMAIN entries[i].names |-> Function(entries[i].names[j], FALSE)]
        ELSE <<entries[i]>>])

\* What a client may send, apart from what Reads looks at.
IsEntry(entry) ==
    \/ entry.kind = "declarations" /\ IsList(entry.names)
    \/ entry.kind = "remote" /\ entry = Remote(GeminiName, entry.type)
IsGeminiWire(w) ==
    /\ IsList(w.contents) /\ \A c \in ToSet(w.contents) : AreBlocks(c.parts)
    /\ Optional(w.systemInstruction)
    /\ w.systemInstruction # <<>> =>
          /\ AreBlocks(w.systemInstruction[1])
          /\ \A b \in ToSet(w.systemInstruction[1]) : IsText(b)
    /\ IsList(w.tools) /\ \A entry \in ToSet(w.tools) : IsEntry(entry)
    /\ IsChoice(w.toolConfig) /\ IsList(w.maxOutputTokens)
    /\ w.responseSchema \in BOOLEAN

\* ANY with one allowed name is the choice of that function.
GeminiChoiceReads(choice) ==
    choice # <<>> => \/ choice[1].mode \in {"AUTO", "NONE"} /\ choice[1].name = <<>>
                     \/ choice[1].mode = "ANY"

GeminiChoiceFromWire(choice) ==
    LET c == choice[1]
    IN  CASE choice = <<>> -> <<>>
          [] choice # <<>> /\ c.mode = "ANY" /\ c.name # <<>> -> <<Choice("specific", c.name)>>
          [] choice # <<>> /\ c.mode = "ANY" /\ c.name = <<>> -> <<Choice("required", <<>>)>>
          [] choice # <<>> /\ c.mode = "AUTO" -> <<Choice("auto", <<>>)>>
          [] OTHER -> <<Choice("none", <<>>)>>

\* Both fields of structured output, or neither.
ReadsGemini(policy, w) ==
    /\ FieldsReviewed(policy, w.extra)
    /\ w.systemInstruction # <<>> => w.systemInstruction[1] # <<>>
    /\ \A i \in DOMAIN w.contents : ContentReads(w.contents[i])
    /\ w.model # ""
    /\ RemoteReads(policy, ToolsFromWire(w.tools))
    /\ GeminiChoiceReads(w.toolConfig)
    /\ w.responseMimeType = w.responseSchema

GeminiFromWire(policy, w) ==
    LET system == IF w.systemInstruction = <<>> THEN <<>>
                  ELSE <<Turn("system", w.systemInstruction[1], <<>>)>>
    IN  CanonicalRequest(w.model,
            system \o [i \in DOMAIN w.contents |-> ContentFromWire(w.contents[i])],
            ToolsFromWire(w.tools), GeminiChoiceFromWire(w.toolConfig),
            IF w.responseSchema THEN <<Output("response", TRUE)>> ELSE <<>>,
            Settings(w.maxOutputTokens, w.temperature, w.stopSequences),
            w.stream, FALSE, ExtensionsOf(GeminiName, w.extra))

\* A turn of the tool may have several results here; each one needs a name.
GeminiTurnWrites(turn) ==
    /\ turn.role \in {"user", "assistant", "tool"}
    /\ \A i \in DOMAIN turn.content :
          LET part == turn.content[i]
          IN  \/ IsText(part)
              \/ IsCall(part) /\ turn.role = "assistant"
              \/ IsResult(part) /\ turn.role = "tool" /\ part.name # <<>>

ContentToWire(turn) ==
    GeminiContent(IF turn.role = "assistant" THEN "model" ELSE "user", turn.content)

\* The names that fit MODEL_NAME_PATTERN; "odd/model" stands for the others.
target_for(model) == model # "odd/model"

WritesGemini(policy, r) ==
    /\ StorageAllowed(policy, r.store)
    /\ SystemFirst(r.turns)
    /\ \A i \in DOMAIN r.turns :
          IF IsInstruction(r.turns[i]) THEN TextsOnly(r.turns[i]) ELSE GeminiTurnWrites(r.turns[i])
    /\ RemoteWrites(GeminiName, policy, r.tools)
    /\ NoneStrict(r.tools)
    /\ r.output # <<>> => r.output[1].name = "response"
    /\ ExtensionsWritten(GeminiName, policy, r.extensions)
    /\ target_for(r.model)

ToolsToWire(tools) ==
    LET functions == FunctionsOf(tools)
    IN  (IF functions = <<>> THEN <<>>
         ELSE <<Declarations([i \in DOMAIN functions |-> functions[i].name])>>)
        \o RemotesOf(tools)

GeminiChoiceToWire(choice) ==
    CASE choice = <<>> -> <<>>
      [] Specific(choice) -> <<Choice("ANY", choice[1].name)>>
      [] choice # <<>> /\ choice[1].mode = "required" -> <<Choice("ANY", <<>>)>>
      [] choice # <<>> /\ choice[1].mode = "auto" -> <<Choice("AUTO", <<>>)>>
      [] OTHER -> <<Choice("NONE", <<>>)>>

GeminiToWire(r) ==
    LET instructions == InstructionsOf(r.turns)
        others == OthersOf(r.turns)
        system == FlattenSeq([i \in DOMAIN instructions |-> instructions[i].content])
    IN  [model |-> r.model, stream |-> r.stream,
         systemInstruction |-> IF system = <<>> THEN <<>> ELSE <<system>>,
         contents |-> [i \in DOMAIN others |-> ContentToWire(others[i])],
         tools |-> ToolsToWire(r.tools), toolConfig |-> GeminiChoiceToWire(r.choice),
         responseMimeType |-> r.output # <<>>, responseSchema |-> r.output # <<>>,
         maxOutputTokens |-> r.settings.max, temperature |-> r.settings.temperature,
         stopSequences |-> r.settings.stop, extra |-> FieldsOf(r.extensions)]
=============================================================================
