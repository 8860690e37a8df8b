# TLA+ models of MaskGate

MaskGate (`src/`) is a proxy between clients and remote language models. It
replaces personal data by tokens before a request leaves the process, and puts
the originals back into the answer. These modules model its state and the
decisions that change it: how chat requests share conversations, what a
conversation remembers, how a text is decided upon and masked, what passes the
guards, how requests are translated for providers and answers come back, how
files are redacted, and how requests are limited. TLC checks small instances, TLAPS proves the central
results for all values of the constants.

    tlc -config <run>.cfg <module>      # runs, see "Runs" for the pairs
    tlapm <module>.tla                  # the seven modules ...Proofs, and Induction

## The system

| Component (`src/app/`) | State | Operations | What makes it correct |
|---|---|---|---|
| Orchestrator `chat/orchestrator.py`, `chat/routes.py` | none of its own; local state of each request | chat and stream requests with or without a conversation, Clear | turns of a conversation exclude each other; every exit gives lock and mapping back; only successful turns change a conversation |
| Conversation store `storage/conversation_store.py` | live conversations by owner and id: session, messages, last access, lock | get_or_create, commit, touch, delete, cleanup | bounded; late commits write nothing; history is trimmed from its oldest end |
| Mapping store `storage/mapping_store.py` | mappings by request id with expiry | put, delete, cleanup | no mapping outlives its request for longer than its TTL |
| Vault `privacy/vault.py` | items, two indexes, byte count | add, lookups, prune, deep copy | indexes agree with items, bijective, within budgets, prunes what is not referenced |
| Masking session `masking/anonymizer.py` | a vault, counters | mask_text_with_actions, clone, prune | all or nothing per turn, restorable history |
| Pipeline and wire guard `privacy/pipeline.py`, `privacy/wire.py` | none | prepare, complete, stream; check | only issued tokens and approved values leave |
| Output guard `privacy/output_guard.py` | none | process, sanitize_for_history, process_authorized_text | history safe for providers, restoration on authorised paths only |
| Streaming guard `proxy/streaming.py` | a buffer per path | push, provider_text, finish_events | a stream shows what one response would have, nothing earlier |
| Rate limiter `security.py`, asked by `main.py` | a window per identity | retry_after | bounded rate and table, honest Retry-After |
| Sweeper `main.py` | none | periodic cleanup of both stores | what is abandoned disappears |
| Edge `security.py`, `main.py` | bytes received, the limiter | authenticate, check host, count body | only the entitled pass, declared and chunked bodies alike |
| Policy `privacy/policy/`, `policies/` | rules and assertions, loaded once | load, adapt, decide | precedence of prohibitions, expiry, fail-closed default |
| Risk `privacy/risk/` | none (pure) | assess | bounded, monotone score |
| Runtime `privacy/runtime.py` | none | transform_text | one decision per finding, carried out exactly |
| Outbound sanitizer `proxy/outbound_sanitizer.py` | none | sanitize_outbound_payload | masks all but protocol strings, loses no member |
| Detection `privacy/detection/`, `masking/` | none (pure) | detect, overlap resolution | no overlapping spans, the more specific wins |
| Adapters `providers/`, `privacy/ir/` | none | from_wire, to_wire, parse_stream_event | what one provider's format says arrives in another's, or is refused |
| Transports `proxy/llm_client.py`, `proxy/gemini_client.py` | a connection, bytes so far, the open event | complete, complete_stream | bounded, whole, in order; every ending known, but for answers of a shape the client raises on |
| Surrogates and rehydration `masking/` | counters in the session | generate, rehydrate | what went out as a token or surrogate comes back as what it stood for |
| Media `media/` | files and pages held open; a limiter of workers | sanitize | nothing sensitive is visible where the sanitizer looks, the rest is intact, work is bounded, all is closed |
| Metrics, logging, configuration, Playground | counters | | |

A chat request goes from the route to the orchestrator, which takes the
conversation from its store, awaits the conversation's lock, masks a clone of
the session, has the wire guard inspect history and message, records the
mapping, and awaits the provider. Then it commits history and clone to the
store, which trims and prunes, deletes the mapping and releases the lock. A
stream does the second half in a generator that the server drives after the
handler has returned. The sweeper and Clear work on the stores at any await of
a request.

The process is one asyncio loop, so the interleavings are those of its awaits:
the lock, the provider, and every event handed to the client. Only one thing
outlives them, the conversation object: a request that waits for its lock keeps
the object, whatever happens to its entry in the store. Hard to test are
therefore stale objects, exits that were forgotten, expiry during slow calls,
clients that go away, long sequences of turns that add, prune and refuse, and
the limits of every bounded table. `PROJECT.json` lists the hazards at their
lines.

## Modules

### Conversations and their surroundings

**`ChatTurns`** is the life of requests. `Req` are the requests, and a
conversation object is named after the request that created it. `pc` says where
a request stands between two awaits:

| `pc` | code |
|---|---|
| `waiting` | `async with state.lock` (:209), `state.lock.acquire()` (:586) |
| `calling` | `await self._privacy_pipeline.complete` (:429, :1017) |
| `ready` | the `StreamingResponse` is returned (:751), nobody has iterated it |
| `streaming` | suspended at a `yield` of `event_generator` before the commit |
| `flushing` | suspended at `yield "data: [DONE]"` (:733) |
| `ok` `failed` `blocked` `preview` `refused` `crashed` | answered |
| `vanished` | the response was never iterated |

`Arrive...` runs `get_or_create` and, if the lock is free, everything up to the
next await in the same step (`Process`: refused by media check, masking, policy
or wire guard; crashed; nothing to call; launched). `Wake` is the same for the
first waiter of a released lock. `ReplyOk`, `ReplyBad`, `StreamStart`,
`StreamBreaks`, `StreamCommit`, `StreamClose` end or advance a turn; `Clear`,
`Sweep` and `Tick` are the environment. A turn's messages are abstracted to the
turn itself: `messages[o]` is a sequence of requests and `vault[o]` the set of
requests whose mappings the object keeps. `Ran` states what asyncio guarantees
of a released lock: the waiter is scheduled before new input is looked at, and
until then every other ready task runs once.

**`ConversationLog`** is the abstract specification: a log of whole turns per
key, answered once each, forgotten only as a whole. `ChatTurns!ImplementsLog`
maps the history of the live object to the log.

**`Vault`** has the vault as a value and its methods as operators, and
**`MaskedConversation`** what one conversation holds: the committed vault and
history, and a turn that clones, masks entity by entity, passes the wire guard,
calls and commits. Text is the set of atoms privacy depends on: originals,
tokens, the redaction, what only a provider can come up with, and two kinds of
answer that are stored and then refused (`Unsendable`): a message of a shape
that no client may send, such as one with a refusal, and a text that is, or
looks, encoded. `wrote` is a
history variable: what the client meant by each token, against which
restoration is judged. The turns of a conversation are sequential here; that
they are is what `ChatTurns` shows. Which messages trimming drops is left open
here and decided in **`HistoryTrim`**, the two cuts of `_trim_messages`.

**`StreamGuard`** is the streaming guard within the generator. `said` collects
by declared index what the provider said, `displayed` what the client was shown.
Tokens and personal data come in halves, so a value can be split anywhere.

**`RateLimiter`** counts in ticks, several to a second, because the header
rounds to seconds. `passed` and `told` are history variables.

**`HttpEdge`** is a request's way to its handler: key, principal and limiter
(`proxy_authentication`, `main.py`), trusted host, body limit, and the route
that reads the body chunk by chunk. The limiter is seen through one window.

**`MediaFiles`** is the upload endpoint. A text is a sequence of atoms and a
value a spelling of several, so formatting can cut it; a DOCX is a sequence of
parts with paragraphs, attributes, loose text and relations; which of these a
sanitizer looks at depends on the kind of part (`Examined`), and names of hosts
(`Domains`) are spared in relations; a picture is a row
of pixels with things on it, of which OCR and face detection report boxes; a
PDF is a sequence of pictures. `done`, `opened` and `rendered` are what the
sanitizers have finished, hold open and have spent.

### A text and its policy

**`Detection`** has the canonical text with its way back to the original, the
recognizers with profiles, confidences and validation, merging and overlap
resolution. What a regular expression matches is given with the sample text;
where it lies in the original is computed. **`RiskEngine`** computes the score.
**`PolicyEngine`** loads and validates documents of version 2, orders rules,
matches and decides, and adapts the legacy document. **`PrivacyRuntime`**
composes the three: `Start`, `DetectIn`, `AssessAll`, `DecideNext` for one
finding at a time with the clock moving in between, and `Mask` by offsets. Its
properties read permissions off the document as written, not off the loaded
policy.

**`Rehydration`** has the replacements of the four masking modes, and the way
back. Spellings are sequences of atoms and numbers are in base 2, so surrogates
can begin with one another and values can be spelled like surrogates.

**`JsonGuards`** is a request and its answer as JSON of any shape:
`sanitize_outbound_payload`, the masking instruction, the final wire guard with
its decoded views, and the four passes of the output guard. A text is a set of
words in a form (plain, percent, escape, base64, hex, JSON in a string), and a
detector reads plain ones only. Its extent says whether the guard takes notice
of the form: a single percent escape and a few characters of base64 or
hexadecimal text pass for words (`PassesForAWord`), a text of more than 64 KiB
is read as it stands.

### The providers

**`CanonicalIR`** is the provider-neutral request with the rules every adapter
shares. `OpenAIChatAdapter`, `ResponsesAdapter`, `AnthropicAdapter`,
`GenerateContentAdapter` and `InteractionsAdapter` each have `from_wire` and
`to_wire` as a predicate (`ReadsX`, `WritesX`: does it raise?) and an operator
(`XFromWire`, `XToWire`: what does it return?), with the name of the format for
X, and `IsXWire` for what parsed JSON of the format is before the adapter looks
at it. **`ProviderAdapters`** sends a request through two of them and lets
the provider read it with the second; in production the ingress is Chat
Completions and the egress Chat Completions or `generateContent`, the other
pairs are what the adapter interface promises. Their losses are part of the
model and excepted by name in the properties:

  - a speaker's name reaches only Chat Completions, a result's error flag only
    Anthropic; a result's name is kept by the two Gemini formats, and by Chat
    Completions for its own requests;
  - `developer` becomes `system` where there is one kind of instruction;
    several texts in one are joined by a newline;
  - plain-text results become quoted JSON where a result is JSON;
  - an output schema may become strict, never loose; `generateContent` does not
    carry `store`; remote tools follow the functions;
  - the Responses adapter accepts one instruction turn anywhere and moves it to
    the front (`openai_responses.py:113-123`).

**`ProviderStreams`** is `parse_stream_event` of all five, with fragments of
several blocks and choices cut and mixed in every way. **`Transport`** is one
call of either client: a bounded body or a bounded event stream and every way
it ends, the exceptions included that nothing catches: `Bottomless` text, which
`json.loads` gives up on, and objects that are no Gemini response or event
(`Misshapen`, `MisshapenEvents`).

### Instances

`MCTurns`, `MCConversation`, `MCRateLimiter`, `MCEdge`, `MCMedia`, `MCRuntime`,
`MCMask`, `MCGuards`, `MCAdapters`, `MCStreams` and `MCCalls` hold symmetry sets,
samples and bounds for TLC. `MCGateway`, `MCPrivacy` and `MCProviders` put
several of them in one run. Their parts share no state: `part` is chosen
initially, a behaviour is one of that part, and the others rest in a fixed
initial state. They are a way to run several models at once, not a composition.
The compositions are `MaskedConversation` over `Vault`, `PrivacyRuntime` over
`Detection`, `RiskEngine` and `PolicyEngine`, `ProviderAdapters` over the
adapters, and `ChatTurns`, which joins orchestrator, both stores, locks and the
sweeper.

Beside some definitions stands an operator with the comment "Mutant": the
definition with a plausible slip. No specification uses them. Substituted for
the definition, each must make the property it is paired with in `PROJECT.json`
fail, which shows that the property depends on the code. Many properties are
conjunctions of named parts; the parts say what each is about.

## Runs

| Run | Module | Bounds | Shows |
|---|---|---|---|
| `turns_safety` | MCTurns | 3 requests, 2 keys, 2 modes, room for 1 conversation, 2 turns of history, one tick | mutual exclusion, mappings follow history, foreseen exits give back lock and mapping and the store is bounded, no forgotten waiter, implements the log, detached objects are frozen, own turns never delete history |
| `turns_liveness` | MCTurns | 3 requests, 1 key, streams that vanish, fair | every waiter is served, every mapping disappears |
| `turns_stale_delete` | MCTurns | 3 requests, Clear | a finding, below |
| `turns_stream_leak` | MCTurns | 2 requests, crashes | a finding |
| `conversation` | MCConversation | room for 2 items or 4 bytes, 2 messages; "open": every path and decision with 2 originals and entities (1 when the history is full); "closed": chat turns that never allow, 3 originals and entities | indexes, budgets, restorability, pruning, only successful turns leave a trace, and a chat turn that allowed nothing leaves a fit history fit to keep, and to send but for what it was answered |
| `conversation_refusal` | MCConversation | chat turns, 1 entity, ALLOW or TOKENIZE | a finding |
| `conversation_stream` | MCConversation | streams | a finding |
| `gateway` | MCGateway | limiter: 2 identities, room for 1, 2 requests in 2 s, half-second ticks, 9 ticks; edge: 2 arrivals, no or two keys, limits of 3 and 5 bytes; history: 5 messages, sizes 0, 2, 5 against 4; stream: 2 choices, 2 fields, 3 fragments; media: 3 pages, 4 entries, 6 pixels in total | pace, table, Retry-After; who gets in; what trimming keeps; a stream says what one response would; what delivered files show, what failing ones leave open |
| `stream_position` | StreamGuard | one choice per event | a finding |
| `privacy` | MCPrivacy | 15 texts, 20 documents, 2 requests, 3 moments; payloads and answers with each word and form in each kind of place; 2 texts of 2 parts in each masking mode | findings, score, decisions and masked text follow from one another; nothing sensitive is sent, nothing foreign restored; replacements come back |
| `policy_assertion` | MCRuntime | as above | a finding |
| `providers` | MCProviders | conversations of up to 2 messages of each adapter's sample (11 for Chat Completions) and 3 of a smaller one, one message in every envelope, 3 pairs of policies; 2 choices and 4 fragments; bodies of up to 4 lines (one of 8) or 3 chunks, 10 bytes | requests arrive whole or are refused, state stays home, streamed blocks can be put together, bodies are bounded and whole, endings are known but for answers that cannot be taken apart |

Why the bounds are enough. Three requests are what the interesting schedules of
`ChatTurns` take: one that holds an old object, one that waits for it, one that
recreates the conversation. Two keys compete for one place, two turns of history
let the third push out the first. `MaxNow` lets conversations (TTL 1) and
mappings (TTL 1) expire; requests that are answered do nothing more, so the
runs end, and `Sweep` keeps the system from a deadlock. In
`MaskedConversation` a budget of two items is exceeded by three originals, two
messages make pruning happen at every commit; behaviours are not bounded in
length. In `HistoryTrim` five messages are one more than the code's minimum, so
that two system messages and a dialogue message can be cut in one go; messages are empty, or
reach the limit in pairs, or exceed it alone. In `RateLimiter` nine
ticks are two windows and a tick. The adapters treat a conversation turn by
turn with a look at its neighbours, so two messages of every kind and three of
the kinds with calls and results meet each rule; envelopes do not depend on
messages. In `Transport` and `HttpEdge` sizes meet their limit exactly, from
below and beyond, in the first and in later pieces. Overlaps, invisible
characters and spellings in `PrivacyRuntime` and `Rehydration` are samples, one
for each branch of the code and each way two of them interact; what they leave
out is the variety of texts, not of paths.

`gateway`, `privacy`, `providers`, `policy_assertion` and `stream_position` are
made of parts that stop by themselves (a text is masked, an answer is given, a
stream is over), which is why these runs do not check for deadlock.

Fairness (`ChatTurns!Fairness`). Weak fairness of every step of a request that
has arrived: the loop runs what is ready, httpx bounds a provider call by a
timeout (`config.py`, `upstream_timeout_seconds`), the server iterates or closes
a body it has begun with. No fairness for arrivals, Clear, or a body nobody
iterates. Weak fairness of the sweeper's wake-up (`main.py:166`) and of the
clock. `EveryWaiterIsServed` excepts waiters of an object whose lock a lost
request holds (`Lost`); those wait for ever, which is the finding below.

## Findings

1. **A blocked turn deletes another turn's history** (`turns_stale_delete`).
   A refused first turn removes its empty conversation by key. If it had waited
   for the lock of an object that Clear removed, the key may name a new object
   with history. `commit` and `touch` compare identities, `delete` does not.
   The same path can take away the fresh, still empty entry of a turn in flight,
   whose commit is then dropped in silence: the client has its answer, the
   history does not. (`OwnTurnsKeepHistory` shows that this is the only way.)
2. **A lock that nobody releases** (`turns_stream_leak`). The stream path calls
   `acquire()` and releases in the handlers of two exceptions and in the
   generator. Another exception in between, for one the Gemini client's
   `invalid_model`, leaves the conversation locked.
3. **Streamed history is not sanitised** (`conversation_stream`). The provider's
   raw text is committed. The wire guard stops it from leaving, so the
   conversation refuses further turns instead of leaking.
4. **An odd answer wedges its conversation** (`conversation_refusal`). The chat
   path keeps the `refusal` and `function_call` of an answer, null ones too, and
   the ingress adapter refuses them in the history of every later turn, like a
   message with neither text nor calls; the wire guard refuses a stored text that
   looks encoded, or is JSON with a number (`wire.py:171-212`). Refused turns
   commit nothing, so only Clear or expiry helps. A value that the policy allowed
   has the same effect: it stays in the history, the approval does not.
   `conversation` shows that a chat turn that allowed nothing makes a fit history
   unsendable in no other way.
5. **Choices of a stream run together** (`stream_position`). Buffers are named
   by position, and providers send one choice per event.
6. **A prohibition behind a routine rule is not seen** (`policy_assertion`). The
   engine looks at the first matching rule by priority; if that is routine, an
   assertion may allow what a BLOCK rule of lower priority matches, too.
   `POLICY.md` gives any applicable prohibition precedence over assertions.
7. Seen on the way and not given a run: `finish_events` restores tokens in a
   refusal, where `process` would redact them (`StreamGuard` with
   `Fields = {"content", "refusal"}` violates `SameAsNotStreamed`). The legacy
   adapter drops public allow-lists and blocks a type without a rule, where
   `action_for`, which media uses, masks it (`main.py:79`). A JSON list from
   Gemini, or an object with a candidate, content, text or reason to finish of
   another type, ends in an unhandled exception, with a status of success
   (`gemini_client.py:100-107`, called outside the `try` at `:193`) and in a
   stream (`:233-239`); so does, for both clients, JSON that is too deep for
   `json.loads` (`llm_client.py:49, 197`). A policy block inside a PDF is
   answered as an unreadable file. `MEDIA_SECURITY.md` promises more than the code
   does in two places: the final guard decodes percent escapes only from two on and
   takes text for base64 only from 20 characters (24 in its form for URLs), while
   line 34 calls only hexadecimal text long; and `[Content_Types].xml`, whatever is
   no `Relationship` in a `.rels` part, an external relationship but for its
   target, and text behind the elements of a story part are delivered as they came,
   while lines 3 and 22 reject what remains or cannot be verified
   (`docx_sanitizer.py:48-64, 243-304`).

## Proofs

Theorems hold for all values of the constants the named assumptions admit. Each
rests on an inductive invariant, which is stronger than what it proves for the
reasons given here; `PROJECT.json` lists the theorems with the properties of the
runs they state.

**`TurnsProofs`**: the inductive invariant `IInv` of `ChatTurns`, and from it
`TypeOK`, `OneTurnAtATime` and `MappingsMatchHistory`. Neither of the two safety
properties is inductive. Mutual exclusion needs that every active turn holds its
object's lock (`ActiveHoldsLock`), and a step that arrives needs that a free lock
means nobody is active. That mappings match the history needs that the clone of
an active turn is the session of the object as it still is
(`CloneIsCurrent`), which mutual exclusion preserves: nobody else commits while
a turn is in flight. Both need that a request that has not arrived names no
object (`NamedAfterArrivals`), because the first thing it may do is create one.

It also has the refinement: `ChatTurns` implements `ConversationLog` (`Implementation`), and
a detached object never changes (`Frozen`). A step either keeps all answers and
histories but those of forgotten keys (`Quiet`), or answers one request
(`Answers`). The refinement needs one more invariant, that a stored object is
stored under its own key. `LockInv` adds what locks and stores are about: a queue
lists exactly the waiters of its object and each once, a holder is a request that
works on the object or is lost, a free lock with waiters has been handed to the
first, a mapping exists only while its turn is active or its exit was not
foreseen, and the store holds no more than its capacity (`CapacityKept`). From it
follow `TidyExits`, `NoLostWakeUp` and `HistoryIsKept`, an action property whose
step is one lemma per action.

**`ConversationProofs`**: consistency and restorability relate the clone to the
message in the making, and history tokens to the committed vault during a turn;
`TurnInv` and `Committed` add what the stages of a turn know, so that type
correctness, the budgets (`WithinBudget`), `OnlySuccessfulTurnsLeaveATrace` and
`ChatTurnsKeepHistoryFit` follow. For the last one an invariant says that the
masked message names only what the clone knows (`SentIsNamed`), since a commit
prunes by the names it finds. Fit is a history that is safe to keep and in which
nothing but an odd shape or a coded text keeps a turn from being sent; that the
turn after which nothing can be sent is to blame for its own answer needs that
what the history held before is still named by the pruned vault (`CommitBlames`).
`ClosedIsFit` concludes that in a deployment that never allows and never streams
the history is fit at any time.
Below it are the operators of the vault: a byte count as a sum over a finite
set, and what adding and pruning do to sum, count and indexes.

**`GatewayProofs`**: `LimiterPaced`, the bound of `2 * MaxRequests - 1` requests
in any span of one window. The strengthening says that of the requests passed,
those of the current window are the last `count`, none older than its start, and
that earlier ones came in groups of at most `MaxRequests`. `LimiterWaits` needs
what a client that was told to wait remembers (`ToldInv`): until the time it was
told has passed its window cannot begin anew, and then it does. `RightfulPass` of the edge
needs an account of each owner's window (`Upto`): how many of the arrivals so
far were let in for that owner, so that the others' arrivals are seen to be of no
consequence, and the bytes of a body up to each chunk (`BodyLength`).
`FairCuts` of `HistoryTrim` follows a history through the rounds of the second
cut: while it is too large every round takes one message, system messages only
when no dialogue is left, and what has gone of the dialogue is its beginning,
whose last message would not have fit (`CutSoFar`).

For uploads, `MediaInv` says for each stage which parts or pages are treated
(`Treated`), what is covered on a page (`Covered`) and what is open
(`OpenAsNeeded`), from which `WorkIsBounded` and `DeliveredShowsNothing` follow.
The archive is checked entry by entry before any part is treated, so its entries
and the sum of their sizes are within their limits from then on (`PackageFits`).
That a treated text shows no value is about sequences: cutting back the redacted
text of several nodes leaves each node's share of it, so a value that formatting
has cut in pieces is found in the whole and gone from the pieces.

**`PrivacyProofs`**: `PermissionNeeded`. The invariant is that the policy is that
of the document and every decision is what it said at its moment about findings
and risk that have not changed since (`RuntimeInv`). The rest is about the
operators: sorting by priority gives one list, whatever order the file has
(`InOrderSorts`, `SortedOnce`), so the first rule that applies is the foremost
one; and the table of a legacy document holds the last entry of each type that
counts (`LastEntryCounts`). `ProhibitedStaysIn` has two parts of
`UndecidedIsBlocked` from the same invariant.

**`DetectionProofs`** is about the text. Its invariant `TextInv` says what the
stages know: the findings are those of the text under the profile, the risk is
that of the findings, decisions stand for a beginning of the findings.
`FindingsCover` follows from three lemmas about the operators, by induction over
the characters, the candidates or the ranked list: every canonical character
keeps a span that holds its whole cluster (`Laid`), so a match covers what it
stands on (`MatchesCovered`); merging keeps type and span of every candidate and
never lowers a confidence (`Gathers`); of overlapping findings one that ranks as
high is selected (`Selected`, `OverlapsResolved`). A stricter profile has all
candidates of a laxer one, so it finds as much (`NothingForgotten`). `RiskFollows`
says that each term of the score grows with the set of findings and that the
cap keeps the order. `DecisionsCarriedOut` counts: when the replacements from
the last down to the a-th are put in, the text has as many places as characters
that remain, the place of a character is the number of remaining ones up to it,
and nothing before the next span has moved (`PutSoFar`, `Stays`); and what stands for a value is
what the vault has for it from then on (`Replaced`, `Serves`).

**`AnswerProofs`** has both ways of an answer. `CallInv` says of a call of
`Transport` that bytes, frames and pieces are those of the script up to where it
has been read, each a recursive function of that place, so `WholeBodies` and
`KnownEndings` hold for scripts of any length. The latter says of a call that
raised what it raised on: the whole answer, or the first frame that is not
handed on, all of which before it the client could take apart. For a stream, `StreamInv` says
that every buffer belongs to one path and is what the events said at that path,
that each buffered slot has at most one event pending, and that nothing whole was
ever shown: `SplitsStayApart`, whatever choices the events list. `GuardedStreams`
compares with a single response and has two hypotheses, because the code needs
them: events list every choice if there are several (`ListsAreWhole`, finding
5), and no refusal is among the fields (finding 7). `SaidInv` then says that
each slot has been shown, or is due, what one response would have (`Due`).

**`AdapterProofs`** has all four properties of `ProviderAdapters`, for requests of
any length and any two policies. `AdaptersInv` says of each stage which adapter
made what from what; that something is inductive is the smaller part. A request
that an adapter read is canonical (`IsRequest`, `XParses`) and asks only for what
its policy allows; what it writes of a canonical request is of its format and it
reads it (`XIsRead`), so `WrittenIsReadable` holds; and what it reads then
carries the parameters over (`CarriedOver`), which with the two policies gives
`StateStaysHome`. For turns, every adapter maps each turn to a list of messages,
items or steps and puts the lists together (`Bind`): composing the way out with
the way in gives for each turn the turns that convey it (`Conveys`), some
adapters with the instructions in front (`Retold`). What turns exchange and say
distributes over lists (`Conveyed`, `SpeakersApart`), so calls, results and words
arrive, and in their place if instructions come first (`InOrder`). A request
that came in the provider's own format is read again as it was
(`XSameTurns`), because what an adapter read has the shape that it writes:
texts before calls, one result to a turn, one text of instructions.

**`AdapterProofs`** also has `StreamsStayWhole`, for `ProviderStreams` with any finite
set of blocks cut into any number of pieces. What a client joins by path or by id
is whole at every moment because each block it may be sent has a path, and each
call an id, that no other block has under that protocol (`OwnPaths`); so an event
adds to what is picked for its own block and for no other (`PickedGrows`).
`StreamsInv` says so of the events so far, that every event is of its kind, and
that the first finish of a choice stays the first (`FirstFinish`): a choice that
ended sends nothing but further finishes, which is why the reason that a client
takes is the provider's. Choices in a chunk of OpenAI Chat come in any order.

**`Induction`**: the provers do not instantiate a rule about predicates, so
induction is stated for sets of numbers and sequences (`NaturalsByInduction`,
`SequencesByInduction`, `LeastOfNumbers`) and recursion for a function of steps
(`Recursion`, `Unrolled`). Byte sums, joined texts, ranks, merged and selected
findings, replaced texts and legacy tables are recursive functions or
cardinalities in the modules for that reason, and what is proved about them
holds for every input.

Assumptions: the named `ASSUME`s of the modules, which TLC evaluates on every
run. They say that model values differ, that bounds are positive, as the
constructors make sure, and what form inputs have: that a request at the edge is
of a known path with a body in chunks and declares its length or not
(`EdgeAssumption`), that uploads are files with parts or pages
(`UploadsAreFiles`) and that the limits of packages are numbers (`MediaLimits`),
that values are words of which none is spelled with the
mark that replaces them (`ValuesAreWords`), that a policy document has the members of its
version (`DocumentsAreRead`), that a text has characters of the known kinds and
matches that lie within it (`TextsAreWritten`), that what clients send is JSON of
the format they speak, with any role, kind of block or mode (`RequestsAreParsed`;
what else it must be the adapters check), that time has a bound
(`LastMomentAssumption`), that messages have sizes (`TrimAssumption`), that the
script of a provider is a sequence of sized parts (`ScriptsAreSent`), that what has
not the shape of an event has not that of a response and is an object all the same
(`ShapesAreOfObjects`), that choices and
fields are finite sets with a first choice (`GuardAssumption`), and that an answer is
a finite set of blocks (`StreamsAssumption`).

Only model-checked:

  - liveness (`EveryWaiterIsServed`, `MappingsDisappear`) and `ENABLED`, which are
    out of the prover's reach;
  - `JsonGuards`, whose recursion is over the depth of the data and is declared
    `RECURSIVE`;
  - `Rehydration`, whose way back rewrites a text once for each replacement, in
    the order of a library sort that the provers cannot unfold;
  - the type invariants of the runs that put parts side by side; those of the
    limiter, the edge, the turns and the conversations are proved with their
    modules.

## Not modelled

  - Spelling: tokens beyond what tells them apart, regular expressions and
    checksums, YAML, dates, digests, wording, SSE and HTTP framing, image and ZIP
    formats. Where a spelling decides something, it is a flag of the input.
  - `JsonGuards` leaves out the literals of `SAFE_PROTOCOL_LITERALS`, the check of
    the target, and sizes of encodings but for the extent of a text.
  - The public allow-lists of the legacy engine; surrogates of types other than
    names and addresses; what the conversion of Gemini candidates to choices
    makes of those it does not raise on; the legacy `function_call` in the deltas
    of a stream (`ProviderStreams`).
  - OCR, face detection, the PDF renderer and the ZIP reader are what they
    report. Paragraphs within paragraphs (text boxes) are not modelled. The limiter of worker threads holds nothing across requests.
  - Timeouts and broken connections of a provider call are one failure that may
    come at any moment before the answer.
  - Multi-process deployments: the stores are per process by design.
    Cancellation of a request that waits for a lock: the server does not cancel
    handlers. Threads: the stores' `threading` locks never block, since
    everything runs on the loop. Nothing is persisted, so there is no recovery.
  - Answers that change no state, metrics, logging, Playground, debug routes and
    evaluation, which influence nothing. `PROJECT.json` has the reasons per
    component.

## Plan

Done, by weight of the behaviour:

1. `Vault`, `MaskedConversation`: what a conversation holds.
2. `ConversationLog`, `ChatTurns`: how requests share conversations.
3. `TurnsProofs`, `ConversationProofs`.
4. `HistoryTrim`, `StreamGuard`, `RateLimiter`.
5. `Detection`, `RiskEngine`, `PolicyEngine`, `PrivacyRuntime`: from a text to
   decisions; `PrivacyProofs`, `DetectionProofs`.
6. `JsonGuards`, `Rehydration`: what leaves and what comes back.
7. The five adapters, `ProviderAdapters`, `ProviderStreams`, `Transport`.
8. `HttpEdge`, `MediaFiles`; `GatewayProofs`, `AnswerProofs`, `AdapterProofs`.

Left is a proof of `TokensComeBack`, for tokens of which none is part of another.
