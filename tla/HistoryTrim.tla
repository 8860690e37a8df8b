----------------------------- MODULE HistoryTrim -----------------------------
(***************************************************************************)
(* _trim_messages (storage/conversation_store.py): what of the history a   *)
(* commit keeps.  A history grows by the messages of a turn and is cut     *)
(* back: first by count, which keeps two system messages and the newest    *)
(* others, then by size, which drops the oldest message that is not a      *)
(* system message for as long as there is one.                             *)
(***************************************************************************)
EXTENDS Naturals, SequencesExt

CONSTANTS
    MaxMessages,  \* at least 4, as the constructor makes sure
    MaxChars,     \* the size limit, in the unit of Size
    Size,         \* sizes of a message's content
    MaxTurn       \* messages that one turn adds (bound of the model)

ASSUME TrimAssumption ==
    /\ MaxMessages \in Nat /\ MaxMessages >= 4
    /\ MaxChars \in Nat
    /\ Size \subseteq Nat

\* Whether it is a user's, an assistant's or a tool's makes no difference.
Message == [role : {"system", "dialogue"}, chars : Size]

VARIABLES
    given,   \* what the last commit was asked to store
    kept     \* what it stored

trimVars == <<given, kept>>

IsSystem(m) == m.role = "system"

\* The messages of a role, in their order.
AppendIf(found, m, role) == IF m.role = role THEN Append(found, m) ELSE found
OfRoleUpTo(ms, role) ==
    LET upTo[n \in 0 .. Len(ms)] ==
            IF n = 0 THEN <<>> ELSE AppendIf(upTo[n - 1], ms[n], role)
    IN  upTo
OfRole(ms, role) == OfRoleUpTo(ms, role)[Len(ms)]
Systems(ms) == OfRole(ms, "system")
Dialogue(ms) == OfRole(ms, "dialogue")

CharsUpTo(ms) ==
    LET upTo[n \in 0 .. Len(ms)] == IF n = 0 THEN 0 ELSE upTo[n - 1] + ms[n].chars
    IN  upTo
Chars(ms) == CharsUpTo(ms)[Len(ms)]

FirstUpTo(ms, n) == SubSeq(ms, 1, IF Len(ms) < n THEN Len(ms) ELSE n)
LastUpTo(ms, n) == SubSeq(ms, IF Len(ms) < n THEN 1 ELSE Len(ms) - n + 1, Len(ms))

CutCount(ms) ==
    IF Len(ms) > MaxMessages
    THEN FirstUpTo(Systems(ms), 2) \o
         LastUpTo(Dialogue(ms), IF MaxMessages - 2 > 2 THEN MaxMessages - 2 ELSE 2)
    ELSE ms

\* Mutant: the newest dialogue message.
RemovableNewest(ms) == SelectLastInSeq(ms, LAMBDA m : ~ IsSystem(m))

\* The index that the loop pops next, 0 if there are only system messages.
Removable(ms) == SelectInSeq(ms, LAMBDA m : ~ IsSystem(m))

TooLarge(ms) == Len(ms) > 1 /\ Chars(ms) > MaxChars

Popped(ms) == RemoveAt(ms, IF Removable(ms) = 0 THEN 1 ELSE Removable(ms))
Round(ms) == IF TooLarge(ms) THEN Popped(ms) ELSE ms

\* The loop, round by round; each takes a message, so that it ends.
Rounds(ms) ==
    LET after[n \in 0 .. Len(ms)] == IF n = 0 THEN ms ELSE Round(after[n - 1])
    IN  after
CutSize(ms) == Rounds(ms)[Len(ms)]

Trim(ms) == CutSize(CutCount(ms))

TrimInit ==
    /\ given = <<>>
    /\ kept = <<>>

Commit ==
    \E n \in 1 .. MaxTurn : \E added \in [1 .. n -> Message] :
        /\ given' = kept \o added
        /\ kept' = Trim(kept \o added)

TrimNext == Commit

TrimSpec == TrimInit /\ [][TrimNext]_trimVars

----------------------------------------------------------------------------
TrimTypeOK ==
    /\ given \in Seq(Message)
    /\ kept \in Seq(Message)

\* Both limits hold after every commit, however large the turn was: a single
\* message may exceed the size, nothing else may.
KeptFits ==
    /\ Len(kept) <= MaxMessages
    /\ Chars(kept) <= MaxChars \/ Len(kept) = 1

\* The dialogue that survives is an unbroken run of the newest messages in
\* their order: a turn is never kept without what came after it.
NewestDialogueSurvives ==
    Dialogue(kept) = LastUpTo(Dialogue(given), Len(Dialogue(kept)))

\* The size cut takes system messages last: with any dialogue left, every
\* system message that the count cut kept is still there.
SystemPromptsOutliveDialogue ==
    Dialogue(kept) # <<>> => Systems(kept) = Systems(CutCount(given))

\* Nothing is dropped from a history within both limits, and the size cut
\* stops as soon as the rest fits.
NothingDroppedNeedlessly ==
    LET cut == CutCount(given)
        dropped == Len(Dialogue(cut)) - Len(Dialogue(kept))
    IN  /\ Len(given) <= MaxMessages => cut = given
        /\ dropped > 0 /\ Dialogue(kept) # <<>> =>
              Chars(kept) + Dialogue(cut)[dropped].chars > MaxChars

\* A history is cut from its oldest end, system messages last, to just the limits.
HistoryIsCutFairly ==
    KeptFits /\ NewestDialogueSurvives /\ SystemPromptsOutliveDialogue /\ NothingDroppedNeedlessly
=============================================================================
