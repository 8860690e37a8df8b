----------------------------- MODULE CanonicalIR -----------------------------
(***************************************************************************)
(* The provider-neutral request (privacy/ir/models.py) and the rules that  *)
(* every adapter shares (providers/base.py, providers/common.py).          *)
(*                                                                         *)
(* A text is a sequence of pieces, so that joining texts is visible.  An   *)
(* optional value is a sequence of at most one element.  An adapter either *)
(* raises or returns a value: here a predicate and an operator.            *)
(***************************************************************************)
EXTENDS Naturals, SequencesExt

\* AdapterPolicy: remote tools, storage at the provider, reviewed extra fields.
Policy(remote, storage, safe) == [remote |-> remote, storage |-> storage, safe |-> safe]

Roles == {"system", "developer", "user", "assistant", "tool"}

Text(t) == [kind |-> "text", text |-> t]
Call(id, name, args) == [kind |-> "call", id |-> id, name |-> name, args |-> args]
Result(id, name, value, error) ==
    [kind |-> "result", id |-> id, name |-> name, value |-> value, error |-> error]
\* A part of a message that no adapter reads: an image, audio, a thought.
Media == [kind |-> "media"]

IsText(b) == b.kind = "text"
IsCall(b) == b.kind = "call"
IsResult(b) == b.kind = "result"

IsList(s) == s \in Seq(ToSet(s))
Optional(s) == IsList(s) /\ Len(s) <= 1

\* The members of a list whose field has one of some values, in their order.
Having(list, field, values) ==
    FlattenSeq([i \in DOMAIN list |->
        IF list[i][field] \in values THEN <<list[i]>> ELSE <<>>])

\* What parsed JSON can be, as far as adapters look into it.
IsBlock(b) ==
    \/ IsText(b) /\ b = Text(b.text) /\ IsList(b.text)
    \/ IsCall(b) /\ b = Call(b.id, b.name, b.args)
    \/ IsResult(b) /\ b = Result(b.id, b.name, b.value, b.error)
    \/ b = Media
AreBlocks(s) == IsList(s) /\ \A b \in ToSet(s) : IsBlock(b)

Turn(role, content, name) == [role |-> role, content |-> content, name |-> name]

\* classification_for_role: system and developer texts are instructions.
IsInstruction(turn) == turn.role \in {"system", "developer"}
InstructionsOf(turns) == Having(turns, "role", {"system", "developer"})
OthersOf(turns) == Having(turns, "role", {"user", "assistant", "tool"})
TextsOnly(turn) == \A i \in DOMAIN turn.content : IsText(turn.content[i])
TextsOf(turn) == Having(turn.content, "kind", {"text"})
CallsOf(turn) == Having(turn.content, "kind", {"call"})
OneResult(turn) == Len(turn.content) = 1 /\ IsResult(turn.content[1])

\* Mutant: instructions may come at any time.
SystemAnywhere(turns) == TRUE

\* For the adapters that put instructions in front: they precede all else.
SystemFirst(turns) ==
    \A i, j \in DOMAIN turns : IsInstruction(turns[j]) /\ i < j => IsInstruction(turns[i])

\* "\n".join of the texts of an instruction turn, where instructions are one text.
Joined(turn) ==
    FlattenSeq([i \in DOMAIN turn.content |->
        IF i = 1 THEN turn.content[i].text ELSE <<"newline">> \o turn.content[i].text])

-----------------------------------------------------------------------------
(* JSON inside a string: compact_json writes a value, json.loads reads it,
   and text that is no JSON is taken as a string. *)

\* A JSON value, as far as adapters look into it; JSON text has one, other text
\* only itself.
Object(v) == [object |-> TRUE, value |-> v]
Word(v) == [object |-> FALSE, value |-> v]
JsonText(value) == [json |-> TRUE, of |-> value]
PlainText(word) == [json |-> FALSE, of |-> word]

compact_json(value) == JsonText(value)

\* _json_or_text: text that is no JSON stands for itself, as a string.
json_or_text(text) == text.of

\* Mutant: any JSON will do.
ReadsJson(text) == text.json

\* read_json_text, for arguments, which have to be an object.
ReadsObject(text) == text.json /\ text.of.object

-----------------------------------------------------------------------------
(* Tools, storage and extensions under the adapter's policy. *)

Function(name, strict) == [kind |-> "function", name |-> name, strict |-> strict]
Remote(provider, type) == [kind |-> "remote", provider |-> provider, type |-> type]
IsFunction(tool) == tool.kind = "function"
FunctionsOf(tools) == Having(tools, "kind", {"function"})
RemotesOf(tools) == Having(tools, "kind", {"remote"})

\* For the formats that cannot say strict.
NoneStrict(tools) == \A i \in DOMAIN tools : IsFunction(tools[i]) => ~ tools[i].strict

\* Tools of a client that speaks a provider's format.
AreTools(provider, tools) ==
    /\ IsList(tools)
    /\ \A t \in ToSet(tools) :
          \/ IsFunction(t) /\ t = Function(t.name, t.strict) /\ t.strict \in BOOLEAN
          \/ t.kind = "remote" /\ t = Remote(provider, t.type)

\* remote_tool: a tool that is no function is kept only if the policy trusts it.
RemoteReads(policy, tools) ==
    policy.remote \/ \A i \in DOMAIN tools : IsFunction(tools[i])

\* Mutant: nobody looks whose tool it is.
RemoteWritesAny(provider, policy, tools) ==
    \A i \in DOMAIN tools : ~ IsFunction(tools[i]) => policy.remote

\* emit_remote_tool: it goes to its own provider only.
RemoteWrites(provider, policy, tools) ==
    \A i \in DOMAIN tools :
        ~ IsFunction(tools[i]) => tools[i].provider = provider /\ policy.remote

\* enforce_storage, and the same test at the start of to_wire.
StorageAllowed(policy, store) == store => policy.storage

\* extensions_for_unknown_fields: an unknown field fails unless it was reviewed.
FieldsReviewed(policy, extra) == extra \subseteq policy.safe
ExtensionsOf(provider, extra) == {[provider |-> provider, name |-> f] : f \in extra}

\* emit_extensions: another provider's extension is an error.
ExtensionsWritten(provider, policy, extensions) ==
    \A e \in extensions : e.provider = provider /\ e.name \in policy.safe
FieldsOf(extensions) == {e.name : e \in extensions}

-----------------------------------------------------------------------------
(* Tool choices, by mode; parse_simple_tool_choice is the form in one word. *)

Choice(mode, name) == [mode |-> mode, name |-> name]
SimpleModes == [auto |-> "auto", none |-> "none", required |-> "required", any |-> "required"]
IsChoice(choice) ==
    Optional(choice) /\ (choice # <<>> => choice[1] = Choice(choice[1].mode, choice[1].name))
Specific(choice) == choice # <<>> /\ choice[1].mode = "specific"

\* The requests: settings are read and written field by field by all adapters.
CanonicalRequest(model, turns, tools, choice, output, settings, stream, store, extensions) ==
    [model |-> model, turns |-> turns, tools |-> tools, choice |-> choice, output |-> output,
     settings |-> settings, stream |-> stream, store |-> store, extensions |-> extensions]
Output(name, strict) == [name |-> name, strict |-> strict]
IsOutput(output) ==
    /\ Optional(output)
    /\ output # <<>> =>
          output[1] = Output(output[1].name, output[1].strict) /\ output[1].strict \in BOOLEAN
Settings(max, temperature, stop) ==
    [max |-> max, temperature |-> temperature, stop |-> stop]
=============================================================================
