------------------------------ MODULE MediaFiles ------------------------------
(***************************************************************************)
(* The upload endpoint (media/): dispatch by content, DOCX packages part   *)
(* by part, images, and PDFs rendered page by page, until a masked file or *)
(* a refusal is answered.  A text is a sequence of atoms and a value a     *)
(* spelling, so that a value can be cut by formatting.  A picture is one   *)
(* row of pixels.  OCR, face detection, the renderer and the ZIP reader    *)
(* are seen through what they report.                                      *)
(***************************************************************************)
EXTENDS Integers, SequencesExt

CONSTANTS
    Masked, Refusable,  \* spellings the policy masks, and those it blocks
    Domains,            \* ... those of them that are the name of a host
    Uploads,            \* files
    MaxFileBytes, MaxEntries, MaxUncompressed, MaxPixels, MaxPages, MaxTotalPixels

ASSUME MediaLimits ==
    /\ MaxFileBytes \in Nat \ {0} /\ MaxPages \in Nat \ {0}
    /\ MaxPixels \in Nat \ {0} /\ MaxTotalPixels \in Nat \ {0}
    /\ Masked \cap Refusable = {} /\ MaxEntries \in Nat /\ MaxUncompressed \in Nat

VARIABLES
    upload,     \* the file
    installed,  \* whether the media extra is installed
    stage,      \* what comes next
    done,       \* parts or pages finished, in order
    opened,     \* what is held open
    rendered,   \* pixels rendered so far
    answer      \* the status that was answered, or 0

mediaVars == <<upload, installed, stage, done, opened, rendered, answer>>

-----------------------------------------------------------------------------
(***************************************************************************)
(* Files.  Another part than a story part has no paragraphs, and only a    *)
(* list of relations has relations.  Those are what the sanitizer looks at *)
(* in such a list; its attributes and other texts are the rest: elements   *)
(* that are no Relationship, all of an external one but its target, and    *)
(* the Type of an internal one when it begins as the standard ones do.     *)
(***************************************************************************)
Words == Seq(STRING)
Labelled == [key : STRING, text : Words]

DocumentPart ==
    [kind : {"document", "header", "generic", "metadata", "rels", "types"}, name : STRING,
     flaw : {"none", "path", "unsupported", "name", "macro", "ratio"}, size : Nat,
     attributes : Seq(Labelled), paragraphs : Seq(Seq(Words)), loose : Seq(Labelled),
     relations : Seq([external : BOOLEAN, text : Words])]

Page ==
    [things : SUBSET [kind : {"line", "face"}, text : Words, place : Nat \X Nat,
                      box : Nat \X Nat, seen : 1 .. 3],
     width : Nat, pixels : Nat, renders : BOOLEAN, black : SUBSET Nat]

IsStoryPart(part) == part.kind \in {"document", "header"}

ASSUME UploadsAreFiles ==
    \A u \in Uploads :
        /\ u.size \in Nat /\ u.outputSize \in Nat
        /\ u.magic \in {"zip", "pdf", "image", "none"}
        /\ u.magic \in {"pdf", "image"} =>
              u.file \in [readable : BOOLEAN, format : BOOLEAN, pages : Seq(Page)]
        /\ u.magic \in {"zip", "none"} =>
              /\ u.file \in [readable : BOOLEAN, parts : Seq(DocumentPart)]
              /\ \A n \in DOMAIN u.file.parts :
                    LET part == u.file.parts[n]
                    IN  /\ ~ IsStoryPart(part) => part.paragraphs = <<>>
                        /\ part.kind # "rels" => part.relations = <<>>

-----------------------------------------------------------------------------
(***************************************************************************)
(* TextRedactor.  Each atom of a masked value becomes one mark.            *)
(***************************************************************************)
Mark == "#"

\* What the target of a relation to the outside becomes.
Removed == <<"urn">>

\* No value is empty, or spelled with what takes its place.
ASSUME ValuesAreWords ==
    /\ \A v \in Masked \cup Refusable : v # <<>> /\ \A n \in DOMAIN v : v[n] # Mark
    /\ Mark \in STRING /\ Removed \notin Masked \cup Refusable

Findings(text, spellings) ==
    {span \in (DOMAIN text) \X (DOMAIN text) : SubSeq(text, span[1], span[2]) \in spellings}

Refuses(text) == Findings(text, Refusable) # {}
HasSensitiveText(text) == Findings(text, Masked \cup Refusable) # {}

Redact(text) ==
    [n \in DOMAIN text |->
        IF \E span \in Findings(text, Masked) : n \in span[1] .. span[2] THEN Mark ELSE text[n]]

\* The texts of nodes put together, as far as each of them.
JoinedUpTo(segments) ==
    LET upTo[n \in 0 .. Len(segments)] ==
            IF n = 0 THEN <<>> ELSE upTo[n - 1] \o segments[n]
    IN  upTo

Together(segments) == JoinedUpTo(segments)[Len(segments)]

\* A text handed back to the nodes it came from, by their lengths.
CutBack(text, segments) ==
    LET before(i) == Len(JoinedUpTo(segments)[i - 1])
    IN  [i \in DOMAIN segments |-> SubSeq(text, before(i) + 1, before(i) + Len(segments[i]))]

\* Mutant: each node is looked at by itself.
RedactEach(segments) == [i \in DOMAIN segments |-> Redact(segments[i])]

RedactTogether(segments) == CutBack(Redact(Together(segments)), segments)

-----------------------------------------------------------------------------
(***************************************************************************)
(* DocxSanitizer: a part has attributes, paragraphs of text nodes, other   *)
(* texts (of elements, or behind them), and relations.                     *)
(***************************************************************************)
FlawStatus(flaw) == IF flaw \in {"unsupported", "macro"} THEN 415 ELSE 400

\* The declared sizes of parts together, as far as each of them.
SizeUpTo(parts) ==
    LET upTo[n \in 0 .. Len(parts)] == IF n = 0 THEN 0 ELSE upTo[n - 1] + parts[n].size
    IN  upTo

\* What _read_validated_entries refuses, with its status; 0 when nothing.
ArchiveStatus(file) ==
    LET parts == file.parts
        names == {parts[n].name : n \in DOMAIN parts}
        bad   == {n \in DOMAIN parts :
                     parts[n].flaw # "none" \/ SizeUpTo(parts)[n] > MaxUncompressed}
        first == CHOOSE n \in bad : \A m \in bad : n <= m
    IN  CASE ~ file.readable -> 400
          [] file.readable /\ (Len(parts) > MaxEntries \/ Cardinality(names) < Len(parts)) -> 400
          [] OTHER -> IF bad # {} THEN FlawStatus(parts[first].flaw)
                      ELSE IF ~ {"types", "document"} \subseteq {parts[n].kind : n \in DOMAIN parts}
                           THEN 400 ELSE 0

Texts(slots) == [i \in DOMAIN slots |-> slots[i].text]
WithTexts(slots, texts) == [i \in DOMAIN slots |-> [slots[i] EXCEPT !.text = texts[i]]]

\* _redact_story_part: each paragraph as one text; revision marks go, and the
\* author of a comment.
StoryAttributes(part) == SelectSeq(part.attributes, LAMBDA slot : slot.key # "rsid")
RedactStoryPart(part) ==
    [part EXCEPT
        !.attributes = [i \in DOMAIN StoryAttributes(part) |->
            LET slot == StoryAttributes(part)[i]
            IN  [slot EXCEPT !.text = IF slot.key = "author" THEN <<>> ELSE Redact(slot.text)]],
        !.paragraphs = [i \in DOMAIN part.paragraphs |-> RedactTogether(part.paragraphs[i])]]
StoryRefuses(part) ==
    \/ \E i \in DOMAIN StoryAttributes(part) : Refuses(StoryAttributes(part)[i].text)
    \/ \E i \in DOMAIN part.paragraphs : Refuses(Together(part.paragraphs[i]))

\* _redact_generic_xml: all texts of the part as one.
RedactGenericXml(part) ==
    [part EXCEPT
        !.attributes = WithTexts(part.attributes,
            [i \in DOMAIN part.attributes |-> Redact(part.attributes[i].text)]),
        !.loose = WithTexts(part.loose, RedactTogether(Texts(part.loose)))]
GenericRefuses(part) ==
    \/ \E i \in DOMAIN part.attributes : Refuses(part.attributes[i].text)
    \/ Refuses(Together(Texts(part.loose)))

\* _scrub_metadata: texts of elements below the root, and every attribute.
ScrubMetadata(part) ==
    [part EXCEPT
        !.attributes = [i \in DOMAIN part.attributes |-> [part.attributes[i] EXCEPT !.text = <<>>]],
        !.loose = [i \in DOMAIN part.loose |->
            IF part.loose[i].key = "element" THEN [part.loose[i] EXCEPT !.text = <<>>]
            ELSE part.loose[i]]]

\* _scrub_external_relationships: a target outside goes, one inside must be clean
\* but for names of hosts.
HasSensitiveTarget(text) == Findings(text, (Masked \cup Refusable) \ Domains) # {}
ScrubRelationships(part) ==
    [part EXCEPT !.relations = [i \in DOMAIN part.relations |->
        IF part.relations[i].external THEN [part.relations[i] EXCEPT !.text = Removed]
        ELSE part.relations[i]]]
RelationsRemain(part) ==
    \E i \in DOMAIN part.relations :
        ~ part.relations[i].external /\ HasSensitiveTarget(part.relations[i].text)

\* _verify: each text of an element by itself, and each attribute.
Verified(parts) ==
    \A n \in DOMAIN parts :
        IsStoryPart(parts[n]) \/ parts[n].kind = "generic" =>
            /\ \A i \in DOMAIN parts[n].paragraphs :
                  \A j \in DOMAIN parts[n].paragraphs[i] :
                     ~ HasSensitiveText(parts[n].paragraphs[i][j])
            /\ \A i \in DOMAIN parts[n].loose :
                  parts[n].loose[i].key = "element" => ~ HasSensitiveText(parts[n].loose[i].text)
            /\ \A i \in DOMAIN parts[n].attributes : ~ HasSensitiveText(parts[n].attributes[i].text)

-----------------------------------------------------------------------------
(***************************************************************************)
(* ImageSanitizer.  A line or a face lies at a place and is reported in a  *)
(* box; what the first look misses the second may see.                     *)
(***************************************************************************)
\* A reported box with its margin, within the picture.
Burnt(box, margin, width) ==
    LET left  == IF box[1] < margin THEN 0 ELSE box[1] - margin
        right == IF box[2] + margin > width THEN width ELSE box[2] + margin
    IN  left .. right - 1

Reported(picture, look) == {thing \in picture.things : thing.seen <= look}
IsFace(thing) == thing.kind = "face"
ToBurn(picture) ==
    {thing \in Reported(picture, 1) : IsFace(thing) \/ HasSensitiveText(thing.text)}
Margin(thing) == IF IsFace(thing) THEN 5 ELSE 3
Black(picture) ==
    UNION {Burnt(thing.box, Margin(thing), picture.width) : thing \in ToBurn(picture)}
Visible(thing, black) == \E pixel \in thing.place[1] .. thing.place[2] - 1 : pixel \notin black

\* What a second look reports, of what is not covered.
LeftOver(picture, black) ==
    {thing \in Reported(picture, 2) :
        Visible(thing, black) /\ (IsFace(thing) \/ HasSensitiveText(thing.text))}

PolicyRefuses(picture) ==
    \E thing \in Reported(picture, 1) : ~ IsFace(thing) /\ Refuses(thing.text)
PictureFails(picture) ==
    \/ \E thing \in ToBurn(picture) : Burnt(thing.box, Margin(thing), picture.width) = {}
    \/ LeftOver(picture, Black(picture)) # {}
Finished(picture) == [picture EXCEPT !.black = Black(picture)]

-----------------------------------------------------------------------------
(***************************************************************************)
(* The endpoint and its three sanitizers.                                  *)
(***************************************************************************)
\* routes.anonymize_file closes the file whatever happens.
Reply(status) == stage' = "answered" /\ answer' = status
Refuse(status) == Reply(status) /\ opened' = opened \ {"file"}
Deliver ==
    /\ opened' = opened \ {"file"}
    /\ Reply(IF upload.outputSize > MaxFileBytes THEN 413 ELSE 200)
Continue(next) == stage' = next /\ UNCHANGED <<answer, opened>>

IsDocx == (upload.docxName \/ upload.docxType) /\ upload.magic = "zip"

Dispatch ==
    /\ stage = "upload"
    /\ UNCHANGED <<upload, installed, done, rendered>>
    /\ CASE upload.size = 0 -> Refuse(400)
         [] upload.size > MaxFileBytes -> Refuse(413)
         [] OTHER -> IF IsDocx THEN Continue("archive")
                     ELSE IF upload.magic \notin {"pdf", "image"} THEN Refuse(415)
                     ELSE IF ~ installed THEN Refuse(503)
                     ELSE Continue(upload.magic)

OpenArchive ==
    /\ stage = "archive"
    /\ UNCHANGED <<upload, installed, done, rendered>>
    /\ IF ArchiveStatus(upload.file) # 0 THEN Refuse(ArchiveStatus(upload.file))
       ELSE Continue("part")

NextPart == upload.file.parts[Len(done) + 1]
Keep(part) == done' = Append(done, part) /\ Continue("part")
SanitizePart ==
    /\ stage = "part" /\ Len(done) < Len(upload.file.parts)
    /\ UNCHANGED <<upload, installed, rendered>>
    /\ CASE NextPart.kind = "metadata" -> Keep(ScrubMetadata(NextPart))
         [] NextPart.kind = "rels" ->
               IF RelationsRemain(NextPart) THEN Refuse(400) /\ UNCHANGED done
               ELSE Keep(ScrubRelationships(NextPart))
         [] IsStoryPart(NextPart) ->
               IF StoryRefuses(NextPart) THEN Refuse(400) /\ UNCHANGED done
               ELSE Keep(RedactStoryPart(NextPart))
         [] NextPart.kind = "generic" ->
               IF GenericRefuses(NextPart) THEN Refuse(400) /\ UNCHANGED done
               ELSE Keep(RedactGenericXml(NextPart))
         [] NextPart.kind = "types" -> Keep(NextPart)

VerifyDocument ==
    /\ stage = "part" /\ Len(done) = Len(upload.file.parts)
    /\ UNCHANGED <<upload, installed, done, rendered>>
    /\ IF Verified(done) THEN Deliver ELSE Refuse(400)

\* _open_verified, then sanitize_image.  Of a box that is off and a line that the
\* policy refuses the first decides; here the policy does.
SanitizeImage ==
    LET picture == upload.file.pages[1]
    IN  /\ stage = "image"
        /\ UNCHANGED <<upload, installed, rendered>>
        /\ CASE ~ upload.file.readable -> Refuse(400) /\ UNCHANGED done
             [] upload.file.readable /\ (~ upload.file.format \/ Len(upload.file.pages) # 1) ->
                   Refuse(415) /\ UNCHANGED done
             [] OTHER -> IF picture.pixels > MaxPixels THEN Refuse(413) /\ UNCHANGED done
                         ELSE IF PolicyRefuses(picture) THEN Refuse(400) /\ UNCHANGED done
                         ELSE IF PictureFails(picture) THEN Refuse(422) /\ UNCHANGED done
                         ELSE Deliver /\ done' = <<Finished(picture)>>

\* Mutant: a failed page leaves its page and picture open.
PdfFailsHalfClosed(status) ==
    Reply(status) /\ opened' = {thing \in opened : thing \in {"page", "picture"}}

\* What is closed when a page fails: picture, page, finished pages, document, file.
PdfFails(status) ==
    Reply(status) /\ opened' = opened \ {"picture", "page", "finished", "document", "file"}

OpenPdf ==
    /\ stage = "pdf"
    /\ UNCHANGED <<upload, installed, done, rendered>>
    /\ IF ~ upload.file.readable THEN PdfFails(422)
       ELSE IF Len(upload.file.pages) \notin 1 .. MaxPages THEN PdfFails(413)
       ELSE stage' = "page" /\ opened' = opened \cup {"document"} /\ UNCHANGED answer

NextPage == upload.file.pages[Len(done) + 1]

OverBudget(pixels) == pixels > MaxPixels \/ rendered + pixels > MaxTotalPixels

\* A page is measured, then rendered.
RenderPage ==
    /\ stage = "page" /\ Len(done) < Len(upload.file.pages)
    /\ UNCHANGED <<upload, installed, done>>
    /\ IF OverBudget(NextPage.pixels) THEN PdfFails(413) /\ UNCHANGED rendered
       ELSE IF ~ NextPage.renders THEN PdfFails(422) /\ UNCHANGED rendered
       ELSE /\ rendered' = rendered + NextPage.pixels
            /\ stage' = "picture" /\ opened' = opened \cup {"page", "picture"}
            /\ UNCHANGED answer

\* What the policy blocks is one more reason why a PDF cannot be rendered safely.
SanitizePage ==
    /\ stage = "picture"
    /\ UNCHANGED <<upload, installed, rendered>>
    /\ IF PolicyRefuses(NextPage) \/ PictureFails(NextPage) THEN PdfFails(422) /\ UNCHANGED done
       ELSE /\ done' = Append(done, Finished(NextPage))
            /\ opened' = (opened \ {"page", "picture"}) \cup {"finished"}
            /\ stage' = "page" /\ UNCHANGED answer

SavePdf ==
    /\ stage = "page" /\ Len(done) = Len(upload.file.pages)
    /\ UNCHANGED <<upload, installed, done, rendered>>
    /\ opened' = opened \ {"document", "finished", "file"}
    /\ Reply(IF upload.outputSize > MaxFileBytes THEN 413 ELSE 200)

MediaInit ==
    /\ upload \in Uploads /\ installed \in BOOLEAN
    /\ stage = "upload" /\ done = <<>> /\ opened = {"file"} /\ rendered = 0 /\ answer = 0

MediaNext ==
    \/ Dispatch \/ OpenArchive \/ SanitizePart \/ VerifyDocument \/ SanitizeImage
    \/ OpenPdf \/ RenderPage \/ SanitizePage \/ SavePdf

MediaSpec == MediaInit /\ [][MediaNext]_mediaVars

-----------------------------------------------------------------------------
Delivered == answer = 200
IsDocument == "parts" \in DOMAIN upload.file

\* What the sanitizer looks at the attributes and elements of: not the list of
\* content types, and of a list of relations the relations only.
Examined(part) == part.kind \notin {"types", "rels"}

\* A delivered document shows no value in a paragraph, however formatting cut it,
\* in a text of an element or an attribute of a part that is examined, or, but for
\* names of hosts, in a relation.  What stands behind an element is looked at in
\* generic parts only.
DocumentShowsNothing ==
    Delivered /\ IsDocument =>
        \A n \in DOMAIN done :
            LET part == done[n]
            IN  /\ \A i \in DOMAIN part.paragraphs : ~ HasSensitiveText(Together(part.paragraphs[i]))
                /\ part.kind = "generic" => ~ HasSensitiveText(Together(Texts(part.loose)))
                /\ Examined(part) =>
                      /\ \A i \in DOMAIN part.loose :
                            part.loose[i].key = "element" => ~ HasSensitiveText(part.loose[i].text)
                      /\ \A i \in DOMAIN part.attributes :
                            ~ HasSensitiveText(part.attributes[i].text)
                /\ \A i \in DOMAIN part.relations : ~ HasSensitiveTarget(part.relations[i].text)

\* Masks change nothing around them: every node keeps its length, and every atom
\* that is no part of a value its place.
EveryWordKeepsItsPlace ==
    Delivered /\ IsDocument =>
        /\ Len(done) = Len(upload.file.parts)
        /\ \A n \in DOMAIN done :
              LET part == done[n] given == upload.file.parts[n]
                  same(new, old) ==
                      /\ DOMAIN new = DOMAIN old
                      /\ \A i \in DOMAIN new :
                            /\ Len(new[i]) = Len(old[i])
                            /\ \A k \in DOMAIN new[i] : new[i][k] \in {old[i][k], Mark}
              IN  /\ \A i \in DOMAIN part.paragraphs : same(part.paragraphs[i], given.paragraphs[i])
                  /\ part.kind = "generic" => same(Texts(part.loose), Texts(given.loose))

\* A delivered picture shows no value and no face that either look can see, and
\* every page of the file is there.
PicturesShowNothing ==
    Delivered /\ ~ IsDocument =>
        /\ Len(done) = Len(upload.file.pages)
        /\ \A n \in DOMAIN done :
              \A thing \in done[n].things :
                  thing.seen <= 2 /\ (IsFace(thing) \/ HasSensitiveText(thing.text)) =>
                      ~ Visible(thing, done[n].black)

\* docs/MEDIA_SECURITY.md: page count and pixels are checked before the work.
RenderedWithinBudget ==
    rendered <= MaxTotalPixels /\ (stage = "picture" => Len(upload.file.pages) <= MaxPages)

\* ... and so are the entries of a package and what they unpack to.
UnpackedWithinBudget ==
    stage = "part" =>
        /\ Len(upload.file.parts) <= MaxEntries
        /\ SizeUpTo(upload.file.parts)[Len(upload.file.parts)] <= MaxUncompressed

\* Whatever fails, nothing stays open once the answer is given.
NothingStaysOpen == stage = "answered" => opened = {}

\* What the policy blocks refuses the file, it is never just masked.
BlockedIsNotMasked ==
    Delivered /\ IsDocument =>
        \A n \in DOMAIN upload.file.parts :
            LET part == upload.file.parts[n]
            IN  /\ \A i \in DOMAIN part.paragraphs : Findings(Together(part.paragraphs[i]), Refusable) = {}
                /\ part.kind = "generic" => Findings(Together(Texts(part.loose)), Refusable) = {}

\* A delivered file shows nothing it should not and is otherwise the same file;
\* one that the policy blocks is not delivered.
DeliveredShowsNothing ==
    DocumentShowsNothing /\ EveryWordKeepsItsPlace /\ PicturesShowNothing /\ BlockedIsNotMasked

\* Pages, pixels, entries, bytes and open handles stay bounded, wherever a file fails.
WorkIsBounded == RenderedWithinBudget /\ UnpackedWithinBudget /\ NothingStaysOpen
===============================================================================
