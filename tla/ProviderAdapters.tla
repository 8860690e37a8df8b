-------------------------- MODULE ProviderAdapters ---------------------------
(***************************************************************************)
(* A request on its way through the gateway: the ingress adapter reads     *)
(* what the client sent, the egress adapter writes what the provider       *)
(* gets (PrivacyPipeline.prepare), and the provider reads it.  What the    *)
(* provider makes of it is what the same adapter would read.               *)
(***************************************************************************)
EXTENDS OpenAIChatAdapter, ResponsesAdapter, AnthropicAdapter, GenerateContentAdapter,
        InteractionsAdapter

CONSTANTS
    Wires,     \* what clients send, for each ingress adapter
    Egress,    \* the adapters of the providers
    Policies   \* pairs of the policies of the two adapters

Adapters == {ChatName, ResponsesName, AnthropicName, GeminiName, InteractionsName}

ASSUME AdaptersAssumption == DOMAIN Wires = Adapters /\ Egress \subseteq Adapters

\* What clients send is parsed JSON of the format they speak.
ASSUME RequestsAreParsed ==
    /\ \A w \in Wires[ChatName] : IsChatWire(w)
    /\ \A w \in Wires[ResponsesName] : IsResponsesWire(w)
    /\ \A w \in Wires[AnthropicName] : IsAnthropicWire(w)
    /\ \A w \in Wires[GeminiName] : IsGeminiWire(w)
    /\ \A w \in Wires[InteractionsName] : IsInteractionsWire(w)

VARIABLES
    ingress, egress, policies,
    stage,    \* received, parsed, sent, understood, or refused
    wire,     \* the value on the wire, of the ingress and then of the egress adapter
    request,  \* what the ingress adapter read
    read      \* what the provider reads

adaptersVars == <<ingress, egress, policies, stage, wire, request, read>>

Reads(adapter, policy, w) ==
    CASE adapter = ChatName -> ReadsChat(policy, w)
      [] adapter = ResponsesName -> ReadsResponses(policy, w)
      [] adapter = AnthropicName -> ReadsAnthropic(policy, w)
      [] adapter = GeminiName -> ReadsGemini(policy, w)
      [] OTHER -> ReadsInteractions(policy, w)

FromWire(adapter, policy, w) ==
    CASE adapter = ChatName -> ChatFromWire(policy, w)
      [] adapter = ResponsesName -> ResponsesFromWire(policy, w)
      [] adapter = AnthropicName -> AnthropicFromWire(policy, w)
      [] adapter = GeminiName -> GeminiFromWire(policy, w)
      [] OTHER -> InteractionsFromWire(policy, w)

Writes(adapter, policy, r) ==
    CASE adapter = ChatName -> WritesChat(policy, r)
      [] adapter = ResponsesName -> WritesResponses(policy, r)
      [] adapter = AnthropicName -> WritesAnthropic(policy, r)
      [] adapter = GeminiName -> WritesGemini(policy, r)
      [] OTHER -> WritesInteractions(policy, r)

ToWire(adapter, r) ==
    CASE adapter = ChatName -> ChatToWire(r)
      [] adapter = ResponsesName -> ResponsesToWire(r)
      [] adapter = AnthropicName -> AnthropicToWire(r)
      [] adapter = GeminiName -> GeminiToWire(r)
      [] OTHER -> InteractionsToWire(r)

AdaptersInit ==
    /\ ingress \in Adapters /\ egress \in Egress /\ policies \in Policies
    /\ wire \in Wires[ingress]
    /\ stage = "received" /\ request = <<>> /\ read = <<>>

\* from_wire, and the constructors it calls; nothing is forwarded of what fails.
Parse ==
    /\ stage = "received"
    /\ IF Reads(ingress, policies[1], wire)
       THEN stage' = "parsed" /\ request' = FromWire(ingress, policies[1], wire)
       ELSE stage' = "refused" /\ UNCHANGED request
    /\ UNCHANGED <<ingress, egress, policies, wire, read>>

Serialize ==
    /\ stage = "parsed"
    /\ IF Writes(egress, policies[2], request)
       THEN stage' = "sent" /\ wire' = ToWire(egress, request)
       ELSE stage' = "refused" /\ UNCHANGED wire
    /\ UNCHANGED <<ingress, egress, policies, request, read>>

\* The provider's side, by the adapter's own reading.
Understand ==
    /\ stage = "sent"
    /\ IF Reads(egress, policies[2], wire)
       THEN stage' = "understood" /\ read' = FromWire(egress, policies[2], wire)
       ELSE stage' = "misread" /\ UNCHANGED read
    /\ UNCHANGED <<ingress, egress, policies, wire, request>>

AdaptersNext == Parse \/ Serialize \/ Understand
AdaptersSpec == AdaptersInit /\ [][AdaptersNext]_adaptersVars

-----------------------------------------------------------------------------
\* What both sides hold is a canonical request: turns have content, calls have
\* objects for arguments, and only the tool has results.
AdaptersTypeOK ==
    /\ ingress \in Adapters /\ egress \in Egress
    /\ stage \in {"received", "parsed", "sent", "understood", "refused", "misread"}
    /\ \A r \in {request, read} \ {<<>>} : \A i \in DOMAIN r.turns :
          LET turn == r.turns[i]
          IN  /\ turn.role \in Roles /\ turn.content # <<>>
              /\ \A j \in DOMAIN turn.content :
                    LET b == turn.content[j]
                    IN  \/ IsText(b) /\ turn.role # "tool"
                        \/ IsCall(b) /\ turn.role = "assistant" /\ b.args.object
                        \/ IsResult(b) /\ turn.role = "tool" /\ OneResult(turn)

Understood == stage = "understood"

\* The pieces of a turn's texts with who says them.
Speaker(turn) == IF IsInstruction(turn) THEN "instruction" ELSE turn.role
Spoken(turn) ==
    LET texts == TextsOf(turn)
        says(text) == [i \in DOMAIN text |->
                          [by |-> Speaker(turn), piece |-> text[i], joins |-> text[i] = "newline"]]
    IN  Having(FlattenSeq([i \in DOMAIN texts |-> says(texts[i].text)]), "joins", {FALSE})

\* The pieces of all texts, in the order of the request.
SpokenPieces(r) == FlattenSeq([i \in DOMAIN r.turns |-> Spoken(r.turns[i])])

\* The calls and results of a turn, without the name that only some providers repeat.
Exchanged(turn) ==
    LET blocks == Having(turn.content, "kind", {"call", "result"})
        plain(b) == IF IsCall(b) THEN b ELSE Result(b.id, <<>>, b.value, FALSE)
    IN  [i \in DOMAIN blocks |-> plain(blocks[i])]

Exchanges(r) == FlattenSeq([i \in DOMAIN r.turns |-> Exchanged(r.turns[i])])

\* What an adapter writes it could have read: no provider gets a request that
\* its own rules refuse.
WrittenIsReadable == stage # "misread"

\* Every call and every result reaches the provider, with its arguments or value
\* and in its place among the others, whatever stands between them.
CallsAndResultsArrive == Understood => Exchanges(read) = Exchanges(request)

\* Nobody's words are lost, doubled or put into somebody else's mouth: what each
\* of user, assistant and instructions says reaches the provider in order.
WordsKeepTheirSpeaker ==
    Understood =>
        \A who \in {"instruction", "user", "assistant"} :
            LET by(r) == Having(SpokenPieces(r), "by", {who})
            IN  by(read) = by(request)

\* Instructions stay where they were among what the others said, but for the
\* Responses adapter.
WordsKeepTheirPlace ==
    Understood /\ egress # ResponsesName => SpokenPieces(read) = SpokenPieces(request)

\* Words arrive as those of who said them, in their order.
WordsArriveAsSpoken == WordsKeepTheirSpeaker /\ WordsKeepTheirPlace

\* The provider keeps state, runs its own tools or gets an unlisted field only
\* if it is the provider they were meant for and both policies say so.
StateStaysHome ==
    Understood =>
        /\ read.store => policies[1].storage /\ policies[2].storage
        /\ \A i \in DOMAIN read.tools : ~ IsFunction(read.tools[i]) =>
              /\ policies[1].remote /\ policies[2].remote
              /\ read.tools[i].provider = egress /\ ingress = egress
        /\ \A e \in read.extensions :
              ingress = egress /\ e.name \in policies[1].safe \cap policies[2].safe

\* The rest of the request arrives as it was, or the request is refused: choice,
\* settings, streaming, extensions and tools, whose groups alone may change order.
ParametersArrive ==
    LET tools(r, kind) ==
            LET chosen == Having(r.tools, "kind", {kind})
            IN  [i \in DOMAIN chosen |-> IF IsFunction(chosen[i]) THEN chosen[i].name
                                         ELSE chosen[i].type]
    IN  Understood =>
            /\ read.choice = request.choice /\ read.settings = request.settings
            /\ read.stream = request.stream /\ read.extensions = request.extensions
            /\ \A kind \in {"function", "remote"} : tools(read, kind) = tools(request, kind)
            /\ Len(read.output) = Len(request.output)
            /\ read.store # request.store => egress = GeminiName

\* A schema that was to be kept strictly is never kept loosely.
StrictnessIsNotLost ==
    Understood =>
        /\ \A i \in DOMAIN request.output : request.output[i].strict => read.output[i].strict
        /\ LET strict(r) == {t \in ToSet(r.tools) : IsFunction(t) /\ t.strict}
           IN  strict(request) = strict(read)

\* A provider that speaks the client's own format gets the client's request.
RoundTrip ==
    Understood /\ ingress = egress /\ egress # ResponsesName =>
        /\ [read EXCEPT !.tools = <<>>] = [request EXCEPT !.tools = <<>>]
        /\ ToSet(read.tools) = ToSet(request.tools)

\* A request that an adapter accepts arrives readable and complete, with the calls,
\* results, parameters and strictness it came with; otherwise it is refused.
RequestsArriveWhole ==
    /\ WrittenIsReadable /\ CallsAndResultsArrive
    /\ ParametersArrive /\ StrictnessIsNotLost /\ RoundTrip
=============================================================================
