------------------------------- MODULE MCMedia --------------------------------
(***************************************************************************)
(* Files for MediaFiles: documents whose values formatting has cut,        *)
(* pictures whose boxes are off, PDFs at their limits, and files with each *)
(* flaw.                                                                   *)
(***************************************************************************)
EXTENDS MediaFiles

MCMasked == {<<"an", "n">>, <<"bob">>, <<"host">>}
MCDomains == {<<"host">>}
MCRefusable == {<<"ke", "y">>}

Ann == <<"an", "n">>
Hello == <<"hi">>
Runs == {<<Hello>>, <<<<"hi", "an">>, <<"n">>>>, <<<<"an">>, Hello, <<"n">>>>, <<Ann, Ann>>,
         <<<<"bob", "ke">>, <<"y", "hi">>>>, <<<<>>, <<"bob", "hi">>>>}
Keyed(key, text) == [key |-> key, text |-> text]

Part(kind, name) ==
    [kind |-> kind, name |-> name, flaw |-> "none", size |-> 1, attributes |-> <<>>,
     paragraphs |-> <<>>, loose |-> <<>>, relations |-> <<>>]
TypesPart == Part("types", "types")
Story(paragraphs) == [Part("document", "document") EXCEPT !.paragraphs = paragraphs]
Styles(texts) ==
    [Part("generic", "styles") EXCEPT !.loose = [i \in DOMAIN texts |-> Keyed("tail", texts[i])]]

Upload(magic, file) ==
    [size |-> 1, outputSize |-> 1, docxName |-> magic = "zip", docxType |-> FALSE,
     magic |-> magic, file |-> file]
Package(parts) == Upload("zip", [readable |-> TRUE, parts |-> parts])
Document(parts) == Package(<<TypesPart>> \o parts)
Simple == Document(<<Story(<<<<Hello>>>>)>>)

Attributes(slots) == [Story(<<<<Hello>>>>) EXCEPT !.attributes = slots]
Relations(external, text) ==
    [Part("rels", "rels") EXCEPT !.relations = <<[external |-> external, text |-> text]>>]
Aside(part) ==
    {[part EXCEPT !.attributes = <<Keyed("other", text)>>] : text \in {Hello, Ann}}
    \cup {[part EXCEPT !.loose = <<Keyed(key, Ann)>>] : key \in {"element", "tail"}}
Metadata ==
    [Part("metadata", "core") EXCEPT !.attributes = <<Keyed("other", Ann)>>,
                                     !.loose = <<Keyed("element", Ann), Keyed("tail", Hello)>>]

Documents ==
    {Document(<<Story(<<a, b>>), Styles(c)>>) : a, b, c \in Runs}
    \cup {Document(<<Attributes(<<Keyed(key, text)>>), Metadata>>) :
             key \in {"rsid", "author", "other"}, text \in {Hello, Ann, <<"ke", "y">>}}
    \cup {Document(<<Relations(external, text), Story(<<>>)>>) :
             external \in BOOLEAN, text \in {Hello, Ann, <<"ke", "y">>, <<"host">>}}
    \cup {Package(<<types, Story(<<>>)>>) : types \in Aside(TypesPart)}
    \cup {Document(<<Story(<<>>), relations>>) : relations \in Aside(Relations(TRUE, Ann))}
    \cup {Document(<<[Story(<<>>) EXCEPT !.loose = <<Keyed(key, text)>>]>>) :
             key \in {"element", "tail"}, text \in {Hello, Ann, <<"ke", "y">>}}
    \cup {Document(<<[Story(<<>>) EXCEPT !.flaw = flaw]>>) :
             flaw \in {"path", "unsupported", "name", "macro", "ratio"}}
    \cup {Simple, Document(<<Story(<<>>), Story(<<>>)>>), Package(<<TypesPart>>),
          Document(<<[Story(<<>>) EXCEPT !.size = MaxUncompressed]>>),
          Document(<<Story(<<>>), Styles(<<>>), Relations(TRUE, Ann), Part("header", "header")>>),
          [Simple EXCEPT !.file.readable = FALSE], [Simple EXCEPT !.size = 0],
          [Simple EXCEPT !.size = MaxFileBytes + 1], [Simple EXCEPT !.outputSize = MaxFileBytes + 1],
          [Simple EXCEPT !.docxName = FALSE], [Simple EXCEPT !.docxName = FALSE, !.docxType = TRUE],
          [Simple EXCEPT !.magic = "none"]}

-----------------------------------------------------------------------------
Thing(kind, text, place, box, seen) ==
    [kind |-> kind, text |-> text, place |-> place, box |-> box, seen |-> seen]
Things ==
    {Thing("line", text, <<6, 9>>, box, seen) :
        text \in {Hello, Ann, <<"ke", "y">>}, box \in {<<6, 9>>, <<8, 9>>, <<12, 13>>, <<20, 20>>},
        seen \in 1 .. 3}
    \cup {Thing("face", <<>>, <<0, 4>>, box, seen) : box \in {<<0, 4>>, <<9, 10>>, <<30, 31>>},
                                                     seen \in 1 .. 3}
Picture(things) ==
    [things |-> things, width |-> 14, pixels |-> 2, renders |-> TRUE, black |-> {}]
Picks == {Picture({thing}) : thing \in Things} \cup {Picture({})}
Both == Picture({Thing("line", Ann, <<6, 9>>, <<6, 9>>, 1), Thing("face", <<>>, <<0, 4>>, <<0, 4>>, 1)})

Pixels(magic, pages) == Upload(magic, [readable |-> TRUE, format |-> TRUE, pages |-> pages])
Pictures ==
    {Pixels("image", <<p>>) : p \in Picks \cup {Both, [Both EXCEPT !.pixels = MaxPixels + 1]}}
    \cup {Pixels("image", <<Both, Both>>), [Pixels("image", <<Both>>) EXCEPT !.file.format = FALSE],
          [Pixels("image", <<Both>>) EXCEPT !.file.readable = FALSE]}
Pages == {Both, [Both EXCEPT !.renders = FALSE], [Both EXCEPT !.pixels = MaxPixels],
          [Both EXCEPT !.pixels = MaxPixels + 1]}
         \cup {Picture({thing}) : thing \in {t \in Things : t.kind = "line" /\ t.seen < 3
                                                            /\ t.box \in {<<6, 9>>, <<20, 20>>}}}
Pdfs ==
    {Pixels("pdf", pages) : pages \in UNION {[1 .. n -> Pages] : n \in 1 .. 2}}
    \cup {Pixels("pdf", <<>>), Pixels("pdf", [n \in 1 .. MaxPages |-> Both]),
          Pixels("pdf", [n \in 1 .. MaxPages + 1 |-> Both]),
          [Pixels("pdf", <<Both>>) EXCEPT !.file.readable = FALSE],
          [Pixels("pdf", <<Both>>) EXCEPT !.outputSize = MaxFileBytes + 1]}

MCUploads == Documents \cup Pictures \cup Pdfs
===============================================================================
