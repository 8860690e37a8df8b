------------------------------ MODULE Detection ------------------------------
(***************************************************************************)
(* Detection of personal data in a text: the canonical view with its way   *)
(* back to the original (detection/canonical.py), what the recognizers     *)
(* report of a shape they matched (detection/recognizers), and how the     *)
(* ensemble merges and selects the reports (detection/ensemble.py).        *)
(*                                                                         *)
(* A character is one of four kinds: "plain", "double" (a ligature, two    *)
(* characters after NFKC), "mark" (combining; NFKC merges it into the      *)
(* character before it) and "zero" (zero-width).  What a regular           *)
(* expression matches is given, as a set of shapes over the canonical      *)
(* text.  Offsets count from 0, a span is half open, confidences are in    *)
(* thousandths.                                                            *)
(***************************************************************************)
EXTENDS Integers, SequencesExt

Character == {"plain", "double", "mark", "zero"}
Profile == {"fast", "balanced", "strict"}

-----------------------------------------------------------------------------
(* CanonicalText. *)

\* A mark starts a cluster only at the very start or after a zero-width one.
StartsCluster(source, i) ==
    /\ source[i] # "zero"
    /\ source[i] = "mark" => i = 1 \/ source[i - 1] = "zero"

ClusterEnd(source, i) ==
    Max({j \in i .. Len(source) : \A k \in i + 1 .. j : source[k] = "mark"})

Span(from, to) == [from |-> from, to |-> to]

\* Mutant: the marks of a cluster are not part of its span.
ClusterUnmarked(source, i) ==
    [k \in 1 .. IF source[i] = "double" THEN 2 ELSE 1 |-> Span(i - 1, i)]

Cluster(source, i) ==
    [k \in 1 .. IF source[i] = "double" THEN 2 ELSE 1 |->
        Span(i - 1, ClusterEnd(source, i))]

\* What a character adds: the first of a cluster adds all of it.
Added(source, i) == IF StartsCluster(source, i) THEN Cluster(source, i) ELSE <<>>

ProvenanceUpTo(source) ==
    LET out[n \in 0 .. Len(source)] ==
            IF n = 0 THEN <<>> ELSE out[n - 1] \o Added(source, n)
    IN  out

\* canonical_to_original: for each canonical character the span it comes from.
Provenance(source) == ProvenanceUpTo(source)[Len(source)]

OriginalSpan(provenance, start, end) ==
    Span(Min({provenance[k].from : k \in start + 1 .. end}),
         Max({provenance[k].to : k \in start + 1 .. end}))

-----------------------------------------------------------------------------
(* Recognizers. *)

\* A match: its place in the canonical text, its value, whether its checksum
\* holds and whether a label announces it.
Shape(type, start, end, value, valid, labelled) ==
    [type |-> type, start |-> start, end |-> end, value |-> value,
     valid |-> valid, labelled |-> labelled]

Recognized ==
    {"API_KEY", "JWT", "CARD_NUMBER", "IBAN", "EMAIL", "PERSON", "INN", "PASSPORT", "URL",
     "IP_ADDRESS", "DOMAIN"}

DataClass(type) ==
    IF type = "DOMAIN" THEN "QUASI_IDENTIFIER" ELSE
    [API_KEY |-> "AUTH_SECRET", JWT |-> "AUTH_SECRET", CARD_NUMBER |-> "FINANCIAL",
     IBAN |-> "FINANCIAL", EMAIL |-> "DIRECT_PII", PERSON |-> "DIRECT_PII",
     INN |-> "DIRECT_PII", PASSPORT |-> "DIRECT_PII", URL |-> "QUASI_IDENTIFIER",
     IP_ADDRESS |-> "QUASI_IDENTIFIER"][type]

Report(recognizer, confidence, validation) ==
    [recognizers |-> <<recognizer>>, confidence |-> confidence, validation |-> validation]

\* SecretRecognizer, for the types that stand for all of its own.
Secrets(shape) ==
    IF shape.type = "JWT" THEN {Report("structured-secrets", 995, "VALID")} ELSE {}

\* StructuredIdentifierRecognizer: a failed checksum is no finding, a bare
\* passport number is one only for the strict profile.
Identifiers(shape, profile) ==
    CASE shape.type \in {"INN", "IBAN"} /\ shape.valid ->
            {Report("structured-identifiers", 995, "VALID")}
      [] shape.type = "PASSPORT" /\ shape.labelled ->
            {Report("structured-identifiers", 940, "UNVALIDATED")}
      [] shape.type = "PASSPORT" /\ ~ shape.labelled /\ profile = "strict" ->
            {Report("structured-identifiers", 580, "AMBIGUOUS")}
      [] OTHER -> {}

\* NetworkRecognizer: addresses of version 6, which the legacy pattern skips.
Network(shape) ==
    IF shape.type = "IP_ADDRESS" /\ shape.labelled
    THEN {Report("network-address", 995, "VALID")}
    ELSE {}

\* LegacyRegexAdapter: a failed checksum is a finding for the strict profile.
Legacy(shape, profile) ==
    CASE \/ shape.type \in {"EMAIL", "URL"}
         \/ shape.type = "IP_ADDRESS" /\ ~ shape.labelled ->
            {Report("legacy-regex", 970, "VALID")}
      [] shape.type \in {"CARD_NUMBER", "INN"} /\ shape.valid ->
            {Report("legacy-regex", 990, "VALID")}
      [] shape.type = "CARD_NUMBER" /\ ~ shape.valid /\ profile = "strict" ->
            {Report("legacy-regex", 520, "INVALID")}
      [] shape.type = "INN" /\ ~ shape.valid /\ profile = "strict" ->
            {Report("legacy-regex", 580, "INVALID")}
      [] shape.type \in {"API_KEY", "PERSON", "DOMAIN"} ->
            {Report("legacy-regex", 820, "UNVALIDATED")}
      [] OTHER -> {}

\* The recognizers, in the order in which the ensemble asks them.
Reports(shape, profile) ==
    <<Secrets(shape), Identifiers(shape, profile), Network(shape), Legacy(shape, profile)>>

MinConfidence(profile) == [fast |-> 850, balanced |-> 650, strict |-> 450][profile]

\* detection_from_span, for the reports that are confident enough.
Findings(reports, shape, provenance, profile) ==
    {[type |-> shape.type, class |-> DataClass(shape.type), value |-> shape.value,
      span |-> OriginalSpan(provenance, shape.start, shape.end),
      recognizers |-> r.recognizers, confidence |-> r.confidence, validation |-> r.validation] :
        r \in {r \in reports : r.confidence >= MinConfidence(profile)}}

\* What one of the recognizers finds in a text.
FoundBy(recognizer, text, profile) ==
    UNION {Findings(Reports(s, profile)[recognizer], s, Provenance(text.source), profile) :
              s \in text.shapes}

Candidates(text, profile) ==
    SetToSeq(FoundBy(1, text, profile)) \o SetToSeq(FoundBy(2, text, profile)) \o
    SetToSeq(FoundBy(3, text, profile)) \o SetToSeq(FoundBy(4, text, profile))

-----------------------------------------------------------------------------
(* DetectorEnsemble. *)

SameFinding(a, b) == a.type = b.type /\ a.span = b.span

Confirmed(m, n) == Min({1000, Max({m, n}) + 20})

\* Two recognizers agree: the more confident report, a little more confident.
Agreed(a, b) ==
    [(IF a.confidence >= b.confidence THEN a ELSE b) EXCEPT
        !.confidence = Confirmed(a.confidence, b.confidence),
        !.recognizers = IF a.recognizers = b.recognizers THEN a.recognizers
                        ELSE a.recognizers \o b.recognizers]

\* A finding that was reported before is confirmed, another one is new.
Merge(merged, c) ==
    IF \E n \in DOMAIN merged : SameFinding(merged[n], c)
    THEN [n \in DOMAIN merged |->
             IF SameFinding(merged[n], c) THEN Agreed(merged[n], c) ELSE merged[n]]
    ELSE Append(merged, c)

MergedUpTo(candidates) ==
    LET merged[n \in 0 .. Len(candidates)] ==
            IF n = 0 THEN <<>> ELSE Merge(merged[n - 1], candidates[n])
    IN  merged

MergeExact(candidates) == MergedUpTo(candidates)[Len(candidates)]

Priority(type) ==
    IF type = "DOMAIN" THEN 60 ELSE
    [JWT |-> 116, API_KEY |-> 114, URL |-> 105, EMAIL |-> 100, IBAN |-> 98,
     CARD_NUMBER |-> 96, INN |-> 94, PASSPORT |-> 92, IP_ADDRESS |-> 78,
     PERSON |-> 50][type]

Length(span) == span.to - span.from
Overlaps(a, b) == a.span.from < b.span.to /\ b.span.from < a.span.to

RanksBefore(a, b) ==
    \/ Priority(a.type) > Priority(b.type)
    \/ /\ Priority(a.type) = Priority(b.type)
       /\ \/ a.confidence > b.confidence
          \/ /\ a.confidence = b.confidence
             /\ \/ Length(a.span) > Length(b.span)
                \/ Length(a.span) = Length(b.span) /\ a.span.from < b.span.from

\* sorted(): by which element goes ahead of which, equal ones as they come.
Arranged(list, ahead) ==
    LET place(i) == Cardinality({j \in DOMAIN list :
                        \/ <<j, i>> \in ahead
                        \/ <<i, j>> \notin ahead /\ j <= i})
    IN  [n \in DOMAIN list |-> list[CHOOSE i \in DOMAIN list : place(i) = n]]

BestFirst(candidates) ==
    Arranged(candidates, {p \in (DOMAIN candidates) \X DOMAIN candidates :
                             RanksBefore(candidates[p[1]], candidates[p[2]])})

InTextOrder(selected) ==
    Arranged(selected, {p \in (DOMAIN selected) \X DOMAIN selected :
                           selected[p[1]].span.from < selected[p[2]].span.from})

Select(selected, c) ==
    IF \E m \in DOMAIN selected : Overlaps(c, selected[m]) THEN selected
    ELSE Append(selected, c)

\* The best finding first, then every other that overlaps none selected.
SelectedUpTo(ranked) ==
    LET selected[n \in 0 .. Len(ranked)] ==
            IF n = 0 THEN <<>> ELSE Select(selected[n - 1], ranked[n])
    IN  selected

ResolveOverlaps(candidates) ==
    LET ranked == BestFirst(candidates)
    IN  InTextOrder(SelectedUpTo(ranked)[Len(ranked)])

Detect(text, profile) == ResolveOverlaps(MergeExact(Candidates(text, profile)))
===============================================================================
