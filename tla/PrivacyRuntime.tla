---------------------------- MODULE PrivacyRuntime ----------------------------
(***************************************************************************)
(* A text on its way through the privacy runtime (privacy/runtime.py): the *)
(* detectors find what is in it, the risk engine assesses the findings     *)
(* together, the policy decides about each of them in turn, while time     *)
(* passes, and the masking session carries the decisions out               *)
(* (mask_text_with_actions of masking/anonymizer.py).                      *)
(*                                                                         *)
(* The policy is the one the application started with (main.py): a         *)
(* document of version 2, or a legacy one.                                 *)
(***************************************************************************)
EXTENDS Detection, RiskEngine, PolicyEngine

CONSTANTS
    Texts,      \* what clients write: characters, and the shapes in it
    Documents,  \* policy documents
    Requests,   \* the dimensions of a decision that a request brings along
    LastMoment  \* the clock stops here (bound of the model)

\* A document is the one or the other, as read from its file.
ASSUME DocumentsAreRead ==
    \A raw \in Documents :
        IF "entries" \in DOMAIN raw
        THEN /\ DOMAIN raw = {"entries", "blockKeys", "blockCards"}
             /\ raw.entries \in Seq(ToSet(raw.entries))
        ELSE /\ DOMAIN raw = {"version", "default", "rules", "assertions"}
             /\ raw.rules \in Seq(ToSet(raw.rules))
             /\ raw.assertions \in Seq(ToSet(raw.assertions))
             /\ \A a \in ToSet(raw.assertions) : a.expires \in Int

\* A text has finitely many shapes, each of one of the types, somewhere in the
\* canonical text.
ASSUME TextsAreWritten ==
    \A written \in Texts :
        /\ written.source \in Seq(Character) /\ IsFiniteSet(written.shapes)
        /\ \A s \in written.shapes :
              /\ s.type \in Recognized /\ s.start \in Nat
              /\ s.end \in s.start + 1 .. Len(Provenance(written.source))

ASSUME LastMomentAssumption == LastMoment \in Nat

VARIABLES
    stage,      \* starting, ready, detected, assessed, masked, blocked, or refused
    text, profile, document, request,
    policy,     \* of the running application
    clock,      \* now
    findings,   \* of the detectors, in the order of the text
    risk,
    decisions,  \* for the findings, in their order
    moments,    \* when they were taken (for the properties only)
    output      \* the masked text

given == <<text, profile, document, request>>
runtimeVars == <<stage, given, policy, clock, findings, risk, decisions, moments, output>>

NoRisk == Assessment(0)

\* create_app: the application does not start with a document it cannot load.
Start ==
    /\ stage = "starting"
    /\ IF "entries" \in DOMAIN document
       THEN stage' = "ready" /\ policy' = Adapt(LegacyEngine(document))
       ELSE IF Loads(document) THEN stage' = "ready" /\ policy' = Load(document)
       ELSE stage' = "refused" /\ UNCHANGED policy
    /\ UNCHANGED <<given, clock, findings, risk, decisions, moments, output>>

DetectIn ==
    /\ stage = "ready"
    /\ stage' = "detected"
    /\ findings' = Detect(text, profile)
    /\ UNCHANGED <<given, policy, clock, risk, decisions, moments, output>>

AssessAll ==
    /\ stage = "detected"
    /\ stage' = "assessed"
    /\ risk' = Assess(ToSet(findings))
    /\ UNCHANGED <<given, policy, clock, findings, decisions, moments, output>>

Undecided == stage = "assessed" /\ Len(decisions) < Len(findings)

\* What the text has at a place, as it is spelled there.
Spelled(finding) ==
    [of |-> finding.value,
     spelled |-> SubSeq(text.source, finding.span.from + 1, finding.span.to)]

DecideNext ==
    LET f == findings[Len(decisions) + 1]
    IN  /\ Undecided
        /\ decisions' =
              Append(decisions, Decide(policy, Facts(f, risk, request), Spelled(f), clock))
        /\ moments' = Append(moments, clock)
        /\ UNCHANGED <<stage, given, policy, clock, findings, risk, output>>

\* Time passes while the policy decides.
Tick ==
    /\ Undecided /\ clock < LastMoment
    /\ clock' = clock + 1
    /\ UNCHANGED <<stage, given, policy, findings, risk, decisions, moments, output>>

Refused == {"BLOCK", "REQUIRE_REVIEW", "GENERALIZE", "HASH"}

Fresh(finding, action) ==
    IF action = "REDACT" THEN <<"redacted", finding.type>> ELSE <<"token", Spelled(finding)>>

\* A finding that is not allowed is replaced: a value that has a replacement
\* keeps it, whatever was decided later.
Replace(made, n) ==
    LET value == Spelled(findings[n])
        item == IF value \in DOMAIN made.vault THEN made.vault[value]
                ELSE Fresh(findings[n], decisions[n].action)
    IN  IF decisions[n].action = "ALLOW" THEN made
        ELSE [vault |-> [v \in (DOMAIN made.vault) \cup {value} |->
                            IF v = value THEN item ELSE made.vault[v]],
              list |-> Append(made.list, [span |-> findings[n].span, item |-> item])]

ReplacedUpTo ==
    LET made[n \in 0 .. Len(findings)] ==
            IF n = 0 THEN [vault |-> <<>>, list |-> <<>>] ELSE Replace(made[n - 1], n)
    IN  made

Replacements == ReplacedUpTo[Len(findings)].list

Untouched == [i \in DOMAIN text.source |-> <<"original", i>>]

Put(result, r) ==
    SubSeq(result, 1, r.span.from) \o <<r.item>> \o SubSeq(result, r.span.to + 1, Len(result))

\* Mutant: from the first to the last, although the places move.
AppliedForwards(replacements) == FoldLeft(Put, Untouched, replacements)

\* From the last to the first, so that the places before stay what they are.
AppliedUpTo(original, replacements) ==
    LET N == Len(replacements)
        result[n \in 0 .. N] ==
            IF n = 0 THEN original ELSE Put(result[n - 1], replacements[N + 1 - n])
    IN  result

Applied(replacements) == AppliedUpTo(Untouched, replacements)[Len(replacements)]

Mask ==
    /\ stage = "assessed" /\ ~ Undecided
    /\ IF \E n \in DOMAIN decisions : decisions[n].action \in Refused
       THEN stage' = "blocked" /\ UNCHANGED output
       ELSE stage' = "masked" /\ output' = Applied(Replacements)
    /\ UNCHANGED <<given, policy, clock, findings, risk, decisions, moments>>

RuntimeInit ==
    /\ text \in Texts /\ profile \in Profile /\ document \in Documents /\ request \in Requests
    /\ stage = "starting" /\ policy = Policy("BLOCK", <<>>, <<>>) /\ clock = 0
    /\ findings = <<>> /\ risk = NoRisk /\ decisions = <<>> /\ moments = <<>> /\ output = <<>>

RuntimeNext == Start \/ DetectIn \/ AssessAll \/ DecideNext \/ Tick \/ Mask

RuntimeSpec == RuntimeInit /\ [][RuntimeNext]_runtimeVars

-----------------------------------------------------------------------------
RuntimeTypeOK ==
    /\ stage \in {"starting", "ready", "detected", "assessed", "masked", "blocked", "refused"}
    /\ clock \in 0 .. LastMoment /\ risk.score \in 0 .. 100
    /\ \A n \in DOMAIN findings :
          LET s == findings[n].span IN 0 <= s.from /\ s.from < s.to /\ s.to <= Len(text.source)
    /\ \A n \in DOMAIN decisions : decisions[n].action \in PrivacyAction
    /\ Len(moments) = Len(decisions)

Found == stage = "detected"

\* Of findings that overlap the one of the higher priority stays, however many
\* recognizers reported them in whatever order: what is kept is disjoint and in
\* the order of the text, and nothing is dropped without a better or equal one
\* in its place.
OverlapsAreResolved ==
    Found =>
        /\ \A m, n \in DOMAIN findings :
              m < n => findings[m].span.to <= findings[n].span.from
        /\ \A c \in ToSet(Candidates(text, profile)) :
              \E n \in DOMAIN findings :
                 /\ Overlaps(c, findings[n])
                 /\ Priority(findings[n].type) >= Priority(c.type)

\* How many canonical characters the first characters of a source make.
Width(source, i) ==
    IF ~ StartsCluster(source, i) THEN 0 ELSE IF source[i] = "double" THEN 2 ELSE 1

WidthUpTo(source) ==
    LET width[n \in 0 .. Len(source)] ==
            IF n = 0 THEN 0 ELSE width[n - 1] + Width(source, n)
    IN  width

\* A shape stands on a character, or on one that this is a mark of.
StandsOn(shape, source, i) ==
    \E j \in 1 .. i :
       /\ Width(source, j) > 0 /\ WidthUpTo(source)[j - 1] < shape.end
       /\ WidthUpTo(source)[j] > shape.start
       /\ \A k \in j + 1 .. i : source[k] = "mark"

\* Everything of the original that a match stands on is inside the span of what
\* was found: a mark or a ligature at its edge, an invisible character within.
SpansCoverTheirMatch ==
    Found => \A shape \in text.shapes : \A r \in 1 .. 4 :
        \A c \in Findings(Reports(shape, profile)[r], shape, Provenance(text.source), profile) :
            /\ c \in ToSet(Candidates(text, profile))
            /\ \A i \in DOMAIN text.source :
                  StandsOn(shape, text.source, i) => c.span.from < i /\ i <= c.span.to

\* What a laxer profile finds a stricter one finds, too, or something at least
\* as important in its place.
StricterForgetsNothing ==
    LET laxer == [fast |-> {}, balanced |-> {"fast"}, strict |-> {"fast", "balanced"}][profile]
    IN  Found => \A p \in laxer : \A f \in ToSet(Detect(text, p)) :
            \E n \in DOMAIN findings :
                Overlaps(f, findings[n]) /\ Priority(findings[n].type) >= Priority(f.type)

\* Findings are disjoint, cover all they matched in the text the client wrote, and
\* get no worse with a stricter profile.
FindingsCoverTheText ==
    OverlapsAreResolved /\ SpansCoverTheirMatch /\ StricterForgetsNothing

\* Another finding never makes a text less risky.
RiskGrowsWithFindings ==
    stage = "assessed" =>
        \A n \in DOMAIN findings : Assess(ToSet(RemoveAt(findings, n))).score <= risk.score

\* Findings whose checksum fails, however many, never make a high risk.
InvalidIsNoHighRisk ==
    (\A n \in DOMAIN findings : findings[n].validation = "INVALID") =>
        risk.bucket \in {"LOW", "MEDIUM"} /\ risk.score <= 25

\* The score follows the findings: more of them never lower it, wrong ones never
\* drive it up.
RiskFollowsFindings == RiskGrowsWithFindings /\ InvalidIsNoHighRisk

\* The rules of a document work by their priority: in whatever order the file
\* lists them, the same policy comes out of it.
FileOrderIsIrrelevant ==
    stage = "ready" /\ "rules" \in DOMAIN document =>
        Load([document EXCEPT !.rules = Reverse(@)]) = policy

\* A rule that applies and outranks every other that does.
Foremost(rule, facts) ==
    /\ Matches(rule, facts)
    /\ \A r \in ToSet(document.rules) : Matches(r, facts) => r.priority <= rule.priority

\* Read off the document as it was written: a value goes out in the clear only
\* by the foremost rule, or by an assertion about exactly this value that had not
\* expired when it was decided and where the foremost rule does not prohibit.
ClearNeedsPermission ==
    \A n \in DOMAIN decisions :
        LET f == findings[n]
            facts == Facts(f, risk, request)
            foremost == {r \in ToSet(document.rules) : Foremost(r, facts)}
            allows(a) == /\ moments[n] < a.expires
                         /\ a.type = f.type /\ a.value = Digest(Spelled(f))
                         /\ \A d \in DOMAIN a.scope : facts[d] \in a.scope[d]
        IN  decisions[n].action = "ALLOW" /\ "rules" \in DOMAIN document =>
              \/ \E r \in foremost : r.action = "ALLOW"
              \/ /\ \E a \in ToSet(document.assertions) : allows(a)
                 /\ \A r \in foremost : r.action \notin Prohibition

\* Of a legacy document only the last valid entry of a type lets it through, and
\* the settings about keys and cards overrule it.
LegacyClearNeedsPermission ==
    \A n \in DOMAIN decisions :
        LET type == findings[n].type
            valid == {i \in DOMAIN document.entries :
                         /\ document.entries[i].type = type
                         /\ document.entries[i].action \in DOMAIN LegacyAction}
        IN  decisions[n].action = "ALLOW" /\ "entries" \in DOMAIN document =>
              /\ type # "API_KEY" /\ (type = "CARD_NUMBER" => ~ document.blockCards)
              /\ valid # {} /\ document.entries[Max(valid)].action = "ALLOW"

\* Only what a document permits, however it is laid out, goes out in the clear.
OnlyThePermittedIsClear ==
    ClearNeedsPermission /\ LegacyClearNeedsPermission /\ FileOrderIsIrrelevant

\* No rule, no assertion: nothing goes out.
DefaultsProhibit ==
    \A n \in DOMAIN decisions : decisions[n].by = "default" => decisions[n].action \in Prohibition

\* A masked text never comes out of one with a finding that was refused,
RefusedIsNotMasked ==
    stage = "masked" =>
        \A n \in DOMAIN decisions :
            decisions[n].action \notin Prohibition \cup {"GENERALIZE", "HASH"}

\* nor out of one with a finding that was not decided.
EveryFindingIsDecided == stage = "masked" => Len(decisions) = Len(findings)

\* What the policy does not decide, or refuses, does not go out.
UndecidedIsBlocked == DefaultsProhibit /\ RefusedIsNotMasked /\ EveryFindingIsDecided

Hidden == {n \in DOMAIN findings : decisions[n].action # "ALLOW"}
HiddenAt(i) == {n \in Hidden : findings[n].span.from < i /\ i <= findings[n].span.to}

\* The characters that have a place in the masked text: those outside of all that is
\* masked, and the first one for the rest of a finding.
Remaining == {i \in DOMAIN text.source : \A n \in HiddenAt(i) : i = findings[n].span.from + 1}
NewPlace(i) == Cardinality({j \in Remaining : j <= i})

\* The masked text is the original with one replacement in the place of each
\* finding that is not allowed, equal for equal values, and nothing else changed.
MaskedAsDecided ==
    stage = "masked" =>
        /\ Len(output) = Cardinality(Remaining)
        /\ \A i \in Remaining : IF HiddenAt(i) = {} THEN output[NewPlace(i)] = <<"original", i>>
                               ELSE output[NewPlace(i)][1] # "original"
        /\ \A m, n \in Hidden :
              Spelled(findings[m]) = Spelled(findings[n]) =>
                 output[NewPlace(findings[m].span.from + 1)] =
                 output[NewPlace(findings[n].span.from + 1)]

\* A masked text carries out every decision, and there is a decision for each
\* finding.
DecisionsAreCarriedOut == UndecidedIsBlocked /\ MaskedAsDecided

\* The word of the policy guide: no assertion allows what a matching rule
\* blocks or wants reviewed, whatever other rules match.
ProhibitionWins ==
    \A n \in DOMAIN decisions :
        decisions[n].by = "assertion" =>
            \A r \in ToSet(document.rules) :
                Matches(r, Facts(findings[n], risk, request)) => r.action \notin Prohibition
===============================================================================
