----------------------------- MODULE Rehydration ------------------------------
(***************************************************************************)
(* What MaskingSession puts in the place of a value, mode by mode, and how *)
(* rehydrate_text finds it again.  Spellings are sequences of atoms; the   *)
(* numbers of surrogates are written in base Base, so that one number can  *)
(* be the beginning of another.                                            *)
(***************************************************************************)
EXTENDS Integers, SequencesExt

CONSTANTS
    Prose,      \* spellings that no recognizer takes for a value
    Values,     \* [type, spelling] of what recognizers find
    MaxTurns,   \* texts in a conversation
    MaxParts    \* parts of a text

Base == 2
Mode == {"placeholder", "semantic_placeholder", "surrogate", "redact"}

VARIABLES
    mode,       \* the masking mode of the session
    items,      \* the mappings, in the order they were made
    numbers,    \* how many replacements each type has been given
    turns       \* [written, sent] of each text

maskVars == <<mode, items, numbers, turns>>

Types == {value.type : value \in Values}
Part == [type : {"prose"}, spelling : Prose] \cup Values

-----------------------------------------------------------------------------
Digits[n \in Nat] == IF n < Base THEN <<ToString(n)>>
                   ELSE Append(Digits[n \div Base], ToString(n % Base))

\* Names end with their number, addresses go on after it.
Surrogate(type, n) ==
    IF type = "EMAIL" THEN <<"demo">> \o Digits[n] \o <<"@example.test">>
    ELSE <<"Demo Person">> \o Digits[n]

\* Random tokens are as good as numbered ones: all that counts is that they are
\* new and that none is part of another.
Replacement(type, n) ==
    CASE mode = "placeholder" -> <<"<MG:", type, ToString(n), ">">>
      [] mode = "semantic_placeholder" -> <<"<MG_", type, ToString(n), ">">>
      [] mode = "surrogate" -> Surrogate(type, n)
      [] mode = "redact" -> <<"[REDACTED]", type>>

Reserved == {"<MG:", "<MG_"}

Known(item, value) == item.original = value.spelling

New(s, part) ==
    [type |-> part.type, original |-> part.spelling,
     replacement |-> Replacement(part.type, s.numbers[part.type] + 1), restore |-> mode # "redact"]

\* The vault and the numbers after a value was masked, and what it became.
Masked(s, part) ==
    LET old == {i \in DOMAIN s.items : Known(s.items[i], part)}
    IN  IF part.type = "prose" THEN [s EXCEPT !.sent = @ \o part.spelling]
        ELSE IF old # {}
        THEN [s EXCEPT !.sent = @ \o s.items[CHOOSE i \in old : TRUE].replacement]
        ELSE [items |-> Append(s.items, New(s, part)),
              numbers |-> [s.numbers EXCEPT ![part.type] = @ + 1],
              sent |-> s.sent \o New(s, part).replacement]

\* A replacement that already stands for another value is a collision.
Collides(list) ==
    \E i, j \in DOMAIN list :
        i # j /\ list[i].restore /\ list[i].replacement = list[j].replacement

Speak ==
    \E parts \in BoundedSeq(Part, MaxParts) \ {<<>>} :
        LET written == FlattenSeq([i \in DOMAIN parts |-> parts[i].spelling])
            start == [items |-> items, numbers |-> numbers @@ [prose |-> 0], sent |-> <<>>]
            done == FoldLeft(Masked, start, parts)
        IN  /\ Len(turns) < MaxTurns
            /\ ToSet(written) \cap Reserved = {}
            /\ ~ Collides(done.items)
            /\ items' = done.items
            /\ numbers' = [type \in Types |-> done.numbers[type]]
            /\ turns' = Append(turns, [written |-> written, sent |-> done.sent])
            /\ UNCHANGED mode

\* str.replace: from the left, what was put in is not looked at again.
Replaced(text, old, new) ==
    LET rest[i \in 1 .. Len(text) + 1] ==
            IF i > Len(text) THEN <<>>
            ELSE IF i + Len(old) - 1 <= Len(text) /\ SubSeq(text, i, i + Len(old) - 1) = old
            THEN new \o rest[i + Len(old)]
            ELSE <<text[i]>> \o rest[i + 1]
    IN  rest[1]

\* Mutant: in the order they were made.
InOrderMade(list) == list

\* The longest first, and in the order they were made among equals.
LongestFirst(list) ==
    LET before(i, j) == \/ Len(list[i].replacement) > Len(list[j].replacement)
                        \/ Len(list[i].replacement) = Len(list[j].replacement) /\ i < j
        order == SortSeq([i \in DOMAIN list |-> i], before)
    IN  [i \in DOMAIN list |-> list[order[i]]]

Rehydrated(text) ==
    FoldLeft(LAMBDA result, item : Replaced(result, item.replacement, item.original), text,
             LongestFirst(SelectSeq(items, LAMBDA item : item.restore)))

MaskInit ==
    /\ mode \in Mode
    /\ items = <<>> /\ numbers = [type \in Types |-> 0] /\ turns = <<>>

MaskNext == Speak

MaskSpec == MaskInit /\ [][MaskNext]_maskVars

-----------------------------------------------------------------------------
HasPart(text, part) ==
    \E i \in 1 .. Len(text) - Len(part) + 1 : SubSeq(text, i, i + Len(part) - 1) = part

\* Tokens come back as what they stand for, those of earlier texts, too, whatever
\* the conversation has learned since.
TokensComeBack ==
    mode \in {"placeholder", "semantic_placeholder"} =>
        \A t \in ToSet(turns) : Rehydrated(t.sent) = t.written

\* So do surrogates, although one may begin like another, in a conversation
\* in which nobody writes what looks like one: a value or word that is spelled like
\* a surrogate is taken for it (rehydrator.py:16).
SurrogatesComeBack ==
    LET resembles(text) == \E item \in ToSet(items) : HasPart(text, item.replacement)
    IN  mode = "surrogate" /\ (\A t \in ToSet(turns) : ~ resembles(t.written)) =>
            \A t \in ToSet(turns) : Rehydrated(t.sent) = t.written

\* A value that was found once never leaves in the clear, unless it is spelled
\* like a surrogate: later texts included, and what is redacted stays so.
FoundValuesStayHome ==
    \A item \in ToSet(items) : \A t \in ToSet(turns) :
        HasPart(t.sent, item.original) =>
            \/ \E other \in ToSet(items) : HasPart(other.replacement, item.original)
            \/ \E p \in Prose : HasPart(p, item.original)

\* Replacements hide what they stand for on the way out and give it back on the
\* way in, over all texts of a conversation.
ReplacementsComeBack == TokensComeBack /\ SurrogatesComeBack /\ FoundValuesStayHome
===============================================================================
