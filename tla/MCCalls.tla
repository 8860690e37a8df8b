------------------------------- MODULE MCCalls --------------------------------
(***************************************************************************)
(* Bodies for Transport: up to four lines of events, marks and garbage, or *)
(* chunks of JSON, at the limit and beyond it.                             *)
(***************************************************************************)
EXTENDS Transport

Line(field, value, size) == [field |-> field, value |-> value, size |-> size]
Blank == Line("blank", <<>>, 1)
Lines ==
    {Line("data", <<piece>>, 3) : piece \in {"{}", "{", "}", "[]", "{null}", "[[[", "[DONE]"}}
    \cup {Blank, Line("comment", <<>>, 1), Line("event", <<>>, 2), Line("unknown", <<>>, 2),
          Line("none", <<>>, 2)}
Chunks == {Line("chunk", <<piece>>, 3) : piece \in {"{", "}", "{}", "[]", "{null}", "{last: null}", "[[["}} \cup {Line("chunk", <<>>, 5)}

\* A text that is null, a last event without a reason to finish: the latter is
\* a loss to an answer in one piece only.
MCObjects == {<<"{}">>, <<"{", "}">>, <<"{null}">>, <<"{last: null}">>}
MCArrays == {<<"[]">>}
MCBottomless == {<<"[[[">>}
MCMisshapen == {<<"{null}">>, <<"{last: null}">>}
MCMisshapenEvents == {<<"{null}">>}

Body(status, declared, sent) == [status |-> status, declared |-> declared, sent |-> sent]
Long == <<Line("data", <<"{">>, 3), Line("data", <<"}">>, 3), Blank,
          Line("data", <<"{}">>, 3), Blank, Line("data", <<"[DONE]">>, 3), Blank, Blank>>
\* Events one of which a Gemini client does not survive.
Misfits == {<<Line("data", <<"{}">>, 2), Blank, Line("data", <<piece>>, 3), Blank>> :
              piece \in {"{null}", "{last: null}", "[[["}}

MCScripts ==
    {Body(200, 0, lines) : lines \in BoundedSeq(Lines, 3)}
    \cup {Body(200, 0, Append(lines, Blank)) : lines \in BoundedSeq(Lines, 3)}
    \cup {Body(200, 0, lines \o <<Blank, Line("data", <<"{}">>, 3), Blank>>) :
             lines \in BoundedSeq(Lines, 2)}
    \cup {Body(200, 0, lines) : lines \in Misfits}
    \cup {Body(503, 0, <<Line("data", <<"{}">>, 3)>>)}
    \cup {Body(200, 0, SubSeq(Long, 1, n)) : n \in DOMAIN Long}
    \cup {Body(status, declared, chunks) :
             status \in {200, 429}, declared \in {0, 10, 11}, chunks \in BoundedSeq(Chunks, 3)}
===============================================================================
