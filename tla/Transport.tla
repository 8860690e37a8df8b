------------------------------- MODULE Transport ------------------------------
(***************************************************************************)
(* One call to a provider: LLMClient and GeminiClient over a bounded HTTP  *)
(* body, in one piece or as server-sent events, and every way it can end.  *)
(*                                                                         *)
(* A script is what the provider sends: a status, a declared length, and   *)
(* chunks of bytes or lines, each [field, value, size]; a line without a   *)
(* field has the field "none", an empty one the field "blank".  Values are *)
(* pieces of JSON: the pieces of one event read together are an object, a  *)
(* list or nothing at all.                                                 *)
(***************************************************************************)
EXTENDS Integers, SequencesExt

CONSTANTS
    Scripts,    \* [status, declared, sent] a provider may send
    MaxBytes,   \* settings.max_response_bytes
    Objects,    \* sequences of pieces that are a JSON object
    Arrays,     \* sequences of pieces that are another JSON value
    Bottomless, \* ... that json.loads gives up on: too deeply nested, too many digits
    Misshapen,  \* objects that are no Gemini response: a candidate or its content is
                \* no object, a text or the reason to finish is null, ...
    MisshapenEvents  \* ... those of them that are no Gemini event, either, which
                     \* needs no reason to finish and no usage

ASSUME BytesAreBounded == MaxBytes \in Nat \ {0}

\* A provider sends parts of some size; nothing at all is not JSON.
ASSUME ScriptsAreSent ==
    /\ \A s \in Scripts :
          /\ s.sent \in Seq(ToSet(s.sent))
          /\ \A part \in ToSet(s.sent) :
                part.size \in Nat /\ part.value \in Seq(ToSet(part.value))
    /\ <<>> \notin Objects \cup Bottomless

ASSUME ShapesAreOfObjects ==
    /\ MisshapenEvents \subseteq Misshapen /\ Misshapen \subseteq Objects
    /\ Bottomless \cap (Objects \cup Arrays) = {}

VARIABLES
    client,     \* "openai" or "gemini"
    mode,       \* "complete" or "stream"
    script,
    at,         \* how much of the script has been read
    received,   \* bytes read
    data_lines, \* the pieces of the event being read
    handed,     \* what the caller has been given
    outcome     \* "calling", "reading", or how the call ended

callVars == <<client, mode, script, at, received, data_lines, handed, outcome>>

Errors == {"upstream_timeout", "upstream_unavailable", "upstream_error",
           "upstream_response_too_large", "upstream_invalid_stream",
           "upstream_invalid_response"}
Ended == {"result", "done", "end of stream"}
\* An exception nobody expects: AttributeError, TypeError, RecursionError, ...
Crashed == "crashed"

\* The pieces as one text.
JoinUpTo(pieces) ==
    LET upTo[n \in 0 .. Len(pieces)] == IF n = 0 THEN <<>> ELSE upTo[n - 1] \o pieces[n]
    IN  upTo
Join(pieces) == JoinUpTo(pieces)[Len(pieces)]
IsObject(pieces) == pieces \in Objects
IsJson(pieces) == pieces \in Objects \cup Arrays

-----------------------------------------------------------------------------
\* An answer in one piece is read whatever its status; a stream is not read
\* when it answers with an error.  A declared length that is no number is ignored.
Respond ==
    /\ outcome = "calling"
    /\ outcome' =
          CASE mode = "stream" /\ script.status >= 400 -> "upstream_error"
            [] mode = "complete" /\ script.declared > MaxBytes -> "upstream_response_too_large"
            [] OTHER -> "reading"
    /\ UNCHANGED <<client, mode, script, at, received, data_lines, handed>>

\* httpx gives up at any point.
CallFails ==
    /\ outcome \in {"calling", "reading"}
    /\ outcome' \in {"upstream_timeout", "upstream_unavailable"}
    /\ UNCHANGED <<client, mode, script, at, received, data_lines, handed>>

Exceeds(bytes, size) == bytes + size > MaxBytes

\* What comes next, when there is more.
Upcoming == script.sent[at + 1]

ReadChunk ==
    /\ outcome = "reading" /\ mode = "complete" /\ at < Len(script.sent)
    /\ at' = at + 1
    /\ received' = received + Upcoming.size
    /\ IF Exceeds(received, Upcoming.size)
       THEN outcome' = "upstream_response_too_large" /\ UNCHANGED data_lines
       ELSE data_lines' = Append(data_lines, Upcoming.value) /\ UNCHANGED outcome
    /\ UNCHANGED <<client, mode, script, handed>>

\* Mutant: what cannot be parsed is taken as it is.
AnswerUnchecked ==
    /\ outcome = "reading" /\ mode = "complete" /\ at = Len(script.sent)
    /\ outcome' = IF client = "gemini" /\ ~ IsObject(Join(data_lines)) THEN Crashed ELSE "result"
    /\ handed' = IF outcome' = "result" THEN <<Join(data_lines)>> ELSE handed
    /\ UNCHANGED <<client, mode, script, at, received, data_lines>>

\* GeminiClient takes any answer below 400 for a response: from_gemini_response
\* raises on a list, and on an object that has something else in it than it expects.
Answer ==
    LET body == Join(data_lines)
        converted == client = "gemini" /\ script.status < 400
    IN  /\ outcome = "reading" /\ mode = "complete" /\ at = Len(script.sent)
        /\ outcome' =
              IF body \in Bottomless THEN Crashed
              ELSE IF ~ IsJson(body) THEN "upstream_invalid_response"
              ELSE IF converted /\ (~ IsObject(body) \/ body \in Misshapen) THEN Crashed
              ELSE "result"
        /\ handed' = IF outcome' = "result" THEN <<body>> ELSE handed
        /\ UNCHANGED <<client, mode, script, at, received, data_lines>>

\* One event: the end of the stream for an OpenAI client, an object, which a
\* Gemini client converts before it hands it out, or garbage.
HandOut(pieces) ==
    IF client = "openai" /\ pieces = <<"[DONE]">>
    THEN outcome' = "done" /\ UNCHANGED handed
    ELSE IF pieces \in Bottomless \/ (client = "gemini" /\ pieces \in MisshapenEvents)
    THEN outcome' = Crashed /\ UNCHANGED handed
    ELSE IF IsObject(pieces)
    THEN handed' = Append(handed, pieces) /\ UNCHANGED outcome
    ELSE outcome' = "upstream_invalid_stream" /\ UNCHANGED handed

\* Mutant: the pieces of an event stay for the next one.
KeepPending(pieces) == pieces

\* After an event the buffer is empty.
ClearPending(pieces) == <<>>

\* One line of a stream.  The size of a line counts its line feed.
ReadLine ==
    LET line == Upcoming
    IN  /\ outcome = "reading" /\ mode = "stream" /\ at < Len(script.sent)
        /\ at' = at + 1
        /\ received' = received + line.size
        /\ IF Exceeds(received, line.size)
           THEN outcome' = "upstream_response_too_large" /\ UNCHANGED <<data_lines, handed>>
           ELSE CASE line.field = "blank" /\ data_lines # <<>> ->
                       HandOut(Join(data_lines)) /\ data_lines' = ClearPending(data_lines)
                  [] line.field = "data" ->
                       data_lines' = Append(data_lines, line.value) /\ UNCHANGED <<outcome, handed>>
                  [] line.field \in {"none", "unknown"} ->
                       outcome' = "upstream_invalid_stream" /\ UNCHANGED <<data_lines, handed>>
                  [] OTHER -> UNCHANGED <<outcome, data_lines, handed>>
        /\ UNCHANGED <<client, mode, script>>

\* The body ends.  An event that no blank line ended counts, too.
EndOfLines ==
    /\ outcome = "reading" /\ mode = "stream" /\ at = Len(script.sent)
    /\ IF data_lines # <<>>
       THEN HandOut(Join(data_lines)) /\ data_lines' = <<>>
       ELSE outcome' = "end of stream" /\ UNCHANGED <<data_lines, handed>>
    /\ UNCHANGED <<client, mode, script, at, received>>

Untouched == at = 0 /\ received = 0 /\ data_lines = <<>> /\ handed = <<>> /\ outcome = "calling"

CallInit ==
    /\ client \in {"openai", "gemini"} /\ mode \in {"complete", "stream"}
    /\ script \in Scripts
    /\ \A part \in ToSet(script.sent) : (part.field = "chunk") = (mode = "complete")
    /\ Untouched

CallNext == Respond \/ CallFails \/ ReadChunk \/ Answer \/ ReadLine \/ EndOfLines

CallSpec == CallInit /\ [][CallNext]_callVars

-----------------------------------------------------------------------------
(* What a script amounts to, read off it as a whole. *)

BytesUpTo(sent) ==
    LET upTo[n \in 0 .. Len(sent)] == IF n = 0 THEN 0 ELSE upTo[n - 1] + sent[n].size
    IN  upTo

WithinLimit == {n \in 0 .. Len(script.sent) : BytesUpTo(script.sent)[n] <= MaxBytes}

PiecesOf(n) == Join([i \in 1 .. n |-> script.sent[i].value])

\* The data between two blank lines, in order: those that are closed, and one
\* that may be open.
NoFrames == [closed |-> <<>>, open |-> <<>>]
FramesAfter(frames, line) ==
    IF line.field = "data" THEN [frames EXCEPT !.open = @ \o line.value]
    ELSE IF line.field = "blank" /\ frames.open # <<>>
    THEN [closed |-> Append(frames.closed, frames.open), open |-> <<>>]
    ELSE frames
FramesUpTo(sent) ==
    LET upTo[n \in 0 .. Len(sent)] ==
            IF n = 0 THEN NoFrames ELSE FramesAfter(upTo[n - 1], sent[n])
    IN  upTo

FramesOf(n) ==
    LET frames == FramesUpTo(script.sent)[n]
    IN  IF frames.open = <<>> THEN frames.closed ELSE Append(frames.closed, frames.open)

Frames == FramesOf(Len(script.sent))

\* The caller is given nothing that lies beyond the limit, whatever length the
\* provider declared, and no call is a success that read beyond it.
NothingBeyondTheLimit ==
    /\ outcome \in Ended => at \in WithinLimit
    /\ \E n \in WithinLimit :
          /\ mode = "stream" => IsPrefix(handed, FramesOf(n))
          /\ mode = "complete" => handed \in {<<>>, <<PiecesOf(n)>>}

\* A stream hands out its frames, whole and in order, none twice, and for an
\* OpenAI client nothing after the mark that ends it.
EventsAreTheFrames ==
    mode = "stream" =>
        /\ IsPrefix(handed, Frames)
        /\ client = "openai" => <<"[DONE]">> \notin ToSet(handed)

\* A stream that ends well has handed out every frame there was before the mark,
\* and an answer in one piece is all of the body.
SuccessIsComplete ==
    /\ outcome = "end of stream" => handed = Frames
    /\ outcome = "done" => Frames[Len(handed) + 1] = <<"[DONE]">>
    /\ outcome = "result" =>
          handed = <<PiecesOf(Len(script.sent))>>

\* The caller gets the body or its events, bounded, whole, in order and once.
BodiesArriveWhole == NothingBeyondTheLimit /\ EventsAreTheFrames /\ SuccessIsComplete

\* What a client raises on: text json.loads gives up on, and for Gemini an answer
\* below 400, or an event, that has not the shape of one.
BreaksOn(pieces, misshapen) ==
    pieces \in Bottomless \/ (client = "gemini" /\ pieces \in misshapen)

\* Every call ends with an answer or an error the orchestrator knows, but for what
\* the client raises on: an answer in one piece that it cannot take apart, or the
\* first such event of a stream, which all events before it have come through.
EndingsAreKnown ==
    \/ outcome \in {"calling", "reading"} \cup Errors \cup Ended
    \/ /\ outcome = Crashed /\ mode = "stream"
       /\ BreaksOn(Frames[Len(handed) + 1], MisshapenEvents)
    \/ /\ outcome = Crashed /\ mode = "complete"
       /\ BreaksOn(PiecesOf(Len(script.sent)),
                   IF script.status < 400 THEN Arrays \cup Misshapen ELSE {})
===============================================================================
