------------------------------ MODULE StreamGuard ------------------------------
(***************************************************************************)
(* BufferedStreamingOutputGuard (proxy/streaming.py) inside the event      *)
(* generator of a streamed turn (chat/orchestrator.py).  The guard takes   *)
(* every text out of the provider's events, keeps it in a buffer of its    *)
(* own per path of the event, and only when the provider has finished does *)
(* it inspect each buffer, restore what the turn may restore and send the  *)
(* result.  A path names a choice by its position in the event's list; the *)
(* choice itself declares an index.  (A tool call is named by its position *)
(* in the same way; the model has one field for the arguments of tools.)   *)
(*                                                                         *)
(* A text is a sequence of pieces.  A token or a sensitive value is split  *)
(* by the provider into two halves, anywhere in the stream; it is one      *)
(* again, for the guard and for the client, when they are adjacent.        *)
(***************************************************************************)
EXTENDS Naturals, SequencesExt

CONSTANTS
    Indexes,    \* the choices of the answer: 0 .. n - 1
    Fields,     \* among "content", "refusal" and "arguments"
    OneByOne,   \* the provider sends one choice per event
    MaxPieces   \* pieces that one answer is made of (bound of the model)

\* "approved" is a token of the turn's vault; "foreign" is any other token, or
\* personal data that the provider itself came up with.
Value == {"approved", "foreign"}
Piece == [of : Value, half : {1, 2}]
Original == [of |-> "approved", half |-> 0]
Redacted == [of |-> "foreign", half |-> 0]
Shown == Piece \cup {Original, Redacted}

ASSUME GuardAssumption ==
    /\ IsFiniteSet(Indexes) /\ Indexes # {}
    /\ Indexes = 0 .. Cardinality(Indexes) - 1
    /\ Fields \subseteq {"content", "refusal", "arguments"}

Slot == Indexes \X Fields
Silence == [s \in Slot |-> <<>>]

\* A choice of an event: its declared index, the field its delta carries and
\* the fragment in it.
Choice == [index : Indexes, field : Fields, text : {<<>>} \cup {<<p>> : p \in Piece}]
Events ==
    IF OneByOne
    THEN {<<c>> : c \in Choice}
    ELSE {e \in [1 .. Cardinality(Indexes) -> Choice] :
             \A n \in DOMAIN e : e[n].index = n - 1}

VARIABLES
    said,      \* per declared index and field: what the provider said
    buffers,   \* _buffers: per path (position and field)
    paths,     \* the insertion order of _buffers
    pending,   \* the final events that are still to be sent
    displayed, \* per index and field: what the client has been given
    history,   \* the assistant text that is committed, or <<>>
    phase

guardVars == <<said, buffers, paths, pending, displayed, history, phase>>

\* Two halves that read as one value.
Whole(text, n) ==
    /\ n \in 1 .. Len(text) - 1
    /\ text[n].half = 1
    /\ text[n + 1] = [text[n] EXCEPT !.half = 2]

\* What the inspection and the restoration make of a text, piece by piece: with
\* the second half of a value, the first gives way to what stands for the value.
Standing(value, restores) == IF value = "approved" /\ restores THEN Original ELSE Redacted
Take(seen, text, n, restores) ==
    IF Whole(text, n - 1)
    THEN Append(Front(seen), Standing(text[n].of, restores))
    ELSE Append(seen, text[n])
InspectUpTo(text, restores) ==
    LET seen[n \in 0 .. Len(text)] ==
            IF n = 0 THEN <<>> ELSE Take(seen[n - 1], text, n, restores)
    IN  seen
Inspect(text, restores) == InspectUpTo(text, restores)[Len(text)]

\* Mutant: nothing is inspected.
ProcessNothing(text) == text

\* process_authorized_text restores, whatever path the text came from.
ProcessAuthorizedText(text) == Inspect(text, TRUE)

\* process, which a response that is not streamed goes through: tokens are
\* restored on the authorised paths only.
Process(text, field) == Inspect(text, field \in {"content", "arguments"})

\* An event names a choice by its position in the list, the choice by its index.
Path(event, n) == <<n - 1, event[n].field>>
Declared(event, n) == <<event[n].index, event[n].field>>

\* The text that an event has for a slot; no two choices of it have the same.
TextOf(event, Name(_, _), slot) ==
    IF \E n \in DOMAIN event : Name(event, n) = slot
    THEN event[CHOOSE n \in DOMAIN event : Name(event, n) = slot].text
    ELSE <<>>

\* self._buffers.get(path, "")
Buffered(slot) == IF slot \in DOMAIN buffers THEN buffers[slot] ELSE <<>>

\* The keys of _buffers in the order in which they entered it.
Enter(order, path) == IF path \in ToSet(order) THEN order ELSE Append(order, path)
EnterUpTo(event) ==
    LET entered[n \in 0 .. Len(event)] ==
            IF n = 0 THEN paths ELSE Enter(entered[n - 1], Path(event, n))
    IN  entered

\* The events of the buffers that have text after their inspection.
Final(path) == [slot |-> path, text |-> ProcessAuthorizedText(buffers[path])]
AddFinal(events, path) ==
    IF Final(path).text = <<>> THEN events ELSE Append(events, Final(path))
FinalUpTo ==
    LET events[n \in 0 .. Len(paths)] ==
            IF n = 0 THEN <<>> ELSE AddFinal(events[n - 1], paths[n])
    IN  events

----------------------------------------------------------------------------
GuardInit ==
    /\ said = Silence
    /\ buffers = <<>>
    /\ paths = <<>>
    /\ pending = <<>>
    /\ displayed = Silence
    /\ history = <<>>
    /\ phase = "open"

\* The displayed's view of an event that was passed on with empty texts.
PassedOn(event) == displayed

\* push: every text of the event goes to its buffer, and the event is passed
\* on with empty texts.
Push(event) ==
    /\ phase = "open"
    /\ said' = [s \in Slot |-> said[s] \o TextOf(event, Declared, s)]
    /\ buffers' = [s \in DOMAIN buffers \cup {Path(event, n) : n \in DOMAIN event} |->
                      Buffered(s) \o TextOf(event, Path, s)]
    /\ paths' = EnterUpTo(event)[Len(event)]
    /\ displayed' = PassedOn(event)
    /\ UNCHANGED <<pending, history, phase>>

\* finish_events: an event per buffer that has text, and provider_text, which
\* is read just before: the buffer of the content at position 0.
Finish ==
    /\ phase = "open"
    /\ pending' = FinalUpTo[Len(paths)]
    /\ history' = Buffered(<<0, "content">>)
    /\ buffers' = <<>>
    /\ paths' = <<>>
    /\ phase' = "finishing"
    /\ UNCHANGED <<said, displayed>>

\* A final event names the choice by the position of its buffer.
Send ==
    /\ phase = "finishing"
    /\ pending # <<>>
    /\ displayed' = [displayed EXCEPT ![Head(pending).slot] = @ \o Head(pending).text]
    /\ pending' = Tail(pending)
    /\ UNCHANGED <<said, buffers, paths, history, phase>>

Done ==
    /\ phase = "finishing"
    /\ pending = <<>>
    /\ phase' = "done"
    /\ UNCHANGED <<said, buffers, paths, pending, displayed, history>>

\* The upstream fails, or an event is not one the adapter knows.
Break ==
    /\ phase = "open"
    /\ phase' = "broken"
    /\ UNCHANGED <<said, buffers, paths, pending, displayed, history>>

Spoken == FoldLeft(LAMBDA sum, s : sum + Len(said[s]), 0, SetToSeq(Slot))

GuardNext ==
    \/ Spoken < MaxPieces /\ \E e \in Events : Push(e)
    \/ Finish
    \/ Send
    \/ Done
    \/ Break

GuardSpec == GuardInit /\ [][GuardNext]_guardVars

----------------------------------------------------------------------------
GuardTypeOK ==
    /\ said \in [Slot -> Seq(Piece)]
    /\ DOMAIN buffers \subseteq Slot
    /\ ToSet(paths) = DOMAIN buffers /\ Len(paths) = Cardinality(DOMAIN buffers)
    /\ displayed \in [Slot -> Seq(Shown)]
    /\ phase \in {"open", "finishing", "done", "broken"}

\* The class comment: the client of a stream ends up with what the same answer
\* would have been in one response, choice by choice and field by field.
SameAsNotStreamed ==
    phase = "done" =>
        \A s \in Slot : displayed[s] = Process(said[s], s[2])

\* The history gets what the provider said as the content of its first choice.
FirstChoiceIsRemembered ==
    phase = "done" /\ "content" \in Fields => history = said[<<0, "content">>]

\* However a value was split over events and choices, the client never holds
\* both halves of it side by side: not at the end, not half way through.
SplitValuesStayApart ==
    \A s \in Slot : \A n \in DOMAIN displayed[s] : ~ Whole(displayed[s], n)

\* Text reaches the client only once the provider has finished: a stream that
\* breaks has shown nothing of it.
NothingBeforeTheEnd == phase \in {"open", "broken"} => displayed = Silence

\* At its end a stream has said, shown and left in the history what one response
\* would have; before its end, and when it breaks, it has shown nothing.
StreamIsGuarded ==
    SameAsNotStreamed /\ FirstChoiceIsRemembered /\ SplitValuesStayApart /\ NothingBeforeTheEnd
=============================================================================
