------------------------- MODULE MaskedConversation -------------------------
(***************************************************************************)
(* What one conversation holds between turns, and how a turn changes it:   *)
(* MaskingSession (masking/anonymizer.py), the history and commit of       *)
(* InMemoryConversationStore, the token check of FinalWirePrivacyGuard and *)
(* the history clean-up of OutputPrivacyGuard.  Turns of one conversation  *)
(* run one at a time under its lock (module ChatTurns), so this module has *)
(* a single turn in progress.                                              *)
(*                                                                         *)
(* Text is the set of atoms that privacy depends on: originals in the      *)
(* clear, replacement tokens, the irreversible redaction, and what only a  *)
(* provider can produce: a token nobody issued, personal data nobody sent, *)
(* and two kinds of answer that the history keeps and that the guards of   *)
(* the next turn refuse, a message of another shape than a client's and a  *)
(* text that is, or looks, encoded.  Which messages commit() trims away is *)
(* left open here, any of them may go; module HistoryTrim has the rule.    *)
(***************************************************************************)
EXTENDS Vault

CONSTANTS
    Actions,       \* the decisions the policy may reach, a subset of AllActions
    Kinds,         \* "chat" and "stream", the two orchestrator paths
    ForeignToken,  \* token grammar, but issued by no session
    ProviderPII,   \* personal data that the provider came up with
    OddShapes,     \* what makes a message one that no client may send: a refusal,
                   \* a function_call, neither text nor calls, a call of another shape
    CodedTexts,    \* base64, long hex, escaped personal data, JSON with a number
    MaxEntities,   \* entities in one client message (bound of the model)
    MaxMessages    \* messages kept in the history

AllActions == {"ALLOW", "TOKENIZE", "REDACT", "BLOCK"}

\* What the ingress adapter or the final wire guard refuses wherever it stands
\* and whatever the session knows.
Unsendable == OddShapes \cup CodedTexts

Readable == Original \cup Replacement \cup {Redacted, ForeignToken, ProviderPII}
Atom == Readable \cup Unsendable

\* A message and, for the properties only, what the client meant by each of
\* its tokens.
Message == [role : {"user", "assistant"},
            atoms : SUBSET Atom,
            wrote : SUBSET (Replacement \X Original)]

ASSUME ConversationAssumption ==
    /\ Actions \subseteq AllActions
    /\ Kinds \subseteq {"chat", "stream"}
    /\ MaxEntities \in Nat
    /\ MaxMessages \in Nat
    /\ ForeignToken \notin Original \cup Replacement \cup {Redacted}
    /\ ProviderPII \notin Original \cup Replacement \cup {Redacted, ForeignToken}
    /\ Original \cap (Replacement \cup {Redacted}) = {}
    /\ Unsendable \cap Readable = {}

VARIABLES
    vault,      \* state.session.vault, the committed one
    history,    \* state.messages
    phase,      \* where the turn in progress stands
    kind,       \* which path the turn takes
    work,       \* the turn's clone of the vault
    sent,       \* atoms of the turn's masked message
    wrote,      \* what the client meant by the tokens in it
    approved,   \* allowlisted_values: originals sent in the clear by policy
    blocked,    \* an entity of the message was refused by policy
    masked      \* entities masked so far

turn == <<kind, work, sent, wrote, approved, blocked, masked>>
vars == <<vault, history, phase, turn>>

TypeOK ==
    /\ vault \in Vaults
    /\ work \in Vaults
    /\ history \subseteq Message
    /\ phase \in {"idle", "masking", "calling"}
    /\ kind \in {"chat", "stream"}
    /\ sent \subseteq Atom
    /\ wrote \subseteq Replacement \X Original
    /\ approved \subseteq Original
    /\ blocked \in BOOLEAN
    /\ masked \in Nat

Init ==
    /\ vault = EmptyVault
    /\ history = {}
    /\ phase = "idle"
    /\ kind = "chat"
    /\ work = EmptyVault
    /\ sent = {}
    /\ wrote = {}
    /\ approved = {}
    /\ blocked = FALSE
    /\ masked = 0

----------------------------------------------------------------------------
\* Mutant: what the assistant said is not looked at.
AtomsOfUsers(messages) == UNION {m.atoms : m \in {n \in messages : n.role = "user"}}

AtomsOf(messages) == UNION {m.atoms : m \in messages}

ReversibleTokens(v) == {i.replacement : i \in {j \in v.items : j.restore}}

\* The ingress adapter and FinalWirePrivacyGuard: a token must be a replacement
\* of this session, a detected value must be a replacement or have been allowed
\* in this turn; nothing makes an odd shape or a coded text acceptable.
WireAccepts(atom, v, allowed) ==
    \/ atom = Redacted
    \/ atom \in Replacement /\ \E i \in v.items : i.replacement = atom
    \/ atom \in allowed

\* Mutant: detected values are not checked.
SanitizedTokens(atoms, v) ==
    (atoms \ {ForeignToken}) \cup {Redacted : a \in atoms \cap {ForeignToken}}

\* sanitize_for_history: unknown tokens and detected values are redacted; text
\* in which nothing is detected and the shape of the message stay as they are.
SanitizedForHistory(atoms, v) ==
    LET known == ReversibleTokens(v) \cup {Redacted} \cup Unsendable
    IN  (atoms \cap known) \cup {Redacted : a \in atoms \ known}

Meaning(atoms, v) ==
    {<<i.replacement, i.original>> :
        i \in {j \in v.items : j.restore /\ j.replacement \in atoms}}

\* Forgetting the turn: every exit of a turn leaves it like this.
TurnOver ==
    /\ phase' = "idle"
    /\ kind' = "chat"
    /\ work' = EmptyVault
    /\ sent' = {}
    /\ wrote' = {}
    /\ approved' = {}
    /\ blocked' = FALSE
    /\ masked' = 0

\* A turn takes the lock and clones the session.
Begin ==
    /\ phase = "idle"
    /\ phase' = "masking"
    /\ \E k \in Kinds : kind' = k
    /\ work' = vault
    /\ UNCHANGED <<vault, history, sent, wrote, approved, blocked, masked>>

\* The replacement of one entity enters the masked message.
Emit(o, item, v) ==
    /\ work' = v
    /\ sent' = sent \cup {item.replacement}
    /\ wrote' = IF item.restore THEN wrote \cup {<<item.replacement, o>>} ELSE wrote
    /\ UNCHANGED <<approved, blocked>>

\* A new item goes through add(); its refusal blocks the turn at once.
Issue(o, item) ==
    IF Refuses(work, item)
    THEN TurnOver
    ELSE /\ Emit(o, item, Add(work, item))
         /\ masked' = masked + 1
         /\ UNCHANGED <<phase, kind>>

\* One entity of mask_text_with_actions.  A refused entity is remembered and
\* the loop goes on, so later entities still enter the clone.
MaskEntity(o, action) ==
    /\ phase = "masking"
    /\ masked < MaxEntities
    /\ UNCHANGED <<vault, history>>
    /\ \/ /\ action = "BLOCK"
          /\ blocked' = TRUE
          /\ masked' = masked + 1
          /\ UNCHANGED <<phase, kind, work, sent, wrote, approved>>
       \/ /\ action = "ALLOW"
          /\ sent' = sent \cup {o}
          /\ approved' = approved \cup {o}
          /\ masked' = masked + 1
          /\ UNCHANGED <<phase, kind, work, wrote, blocked>>
       \/ /\ action \in {"TOKENIZE", "REDACT"}
          /\ FindOriginal(work, o) # NoItem
          /\ Emit(o, FindOriginal(work, o), work)
          /\ masked' = masked + 1
          /\ UNCHANGED <<phase, kind>>
       \/ /\ action = "REDACT"
          /\ FindOriginal(work, o) = NoItem
          /\ Issue(o, Irreversible(o))
       \/ /\ action = "TOKENIZE"
          /\ FindOriginal(work, o) = NoItem
          /\ \E t \in Replacement :
                /\ ~ ContainsReplacement(work, t)
                /\ Issue(o, Reversible(o, t))

\* Mutant: the clone is kept.
BlockedWithItems ==
    /\ phase = "masking"
    /\ blocked
    /\ vault' = work
    /\ TurnOver
    /\ UNCHANGED history

\* PolicyBlocked at the end of the text: the clone is thrown away.
Blocked ==
    /\ phase = "masking"
    /\ blocked
    /\ TurnOver
    /\ UNCHANGED <<vault, history>>

\* The final guard inspects the history and the turn's own message together.
WirePass ==
    /\ phase = "masking"
    /\ ~ blocked
    /\ \A a \in AtomsOf(history) \cup sent : WireAccepts(a, work, approved)
    /\ phase' = "calling"
    /\ UNCHANGED <<vault, history, turn>>

\* It may also refuse the client's own message for what this model has no atoms
\* for: encoded content, numbers, unknown fields.
WireReject ==
    /\ phase = "masking"
    /\ ~ blocked
    /\ TurnOver
    /\ UNCHANGED <<vault, history>>

\* The provider fails, answers with an error status or in a wrong shape, or
\* the client goes away in mid stream.
ProviderFails ==
    /\ phase = "calling"
    /\ TurnOver
    /\ UNCHANGED <<vault, history>>

\* What a provider may say: what it was sent, and what nobody sent.  Of a stream
\* only the text is kept.
Sayable ==
    AtomsOf(history) \cup sent \cup {ForeignToken, ProviderPII} \cup CodedTexts
        \cup (IF kind = "chat" THEN OddShapes ELSE {})

\* The assistant message that enters the history: cleaned up on the chat
\* path, the text the provider streamed on the other.  It may be missing.
AssistantMessages(atoms) ==
    LET kept == IF kind = "chat" THEN SanitizedForHistory(atoms, work) ELSE atoms
    IN  {{}, {[role |-> "assistant", atoms |-> kept, wrote |-> Meaning(kept, work)]}}

\* A successful answer: the masked message and the assistant message are
\* appended, the history is trimmed, the clone is pruned to what is left and
\* replaces the vault.
Commit ==
    /\ phase = "calling"
    /\ \E reply \in SUBSET Sayable :
       \E assistant \in AssistantMessages(reply) :
          LET said == {[role |-> "user", atoms |-> sent, wrote |-> wrote]} \cup assistant
          IN  \E kept \in SUBSET (history \cup said) :
                 /\ kept # {}
                 /\ Cardinality(kept) <= MaxMessages
                 /\ history' = kept
                 /\ vault' = Prune(work, AtomsOf(kept))
    /\ TurnOver

Next ==
    \/ Begin
    \/ \E o \in Original, a \in Actions : MaskEntity(o, a)
    \/ Blocked
    \/ WirePass
    \/ WireReject
    \/ ProviderFails
    \/ Commit

Spec == Init /\ [][Next]_vars

----------------------------------------------------------------------------
(* Properties. *)

\* Both indexes of the committed vault and of a turn's clone agree with the
\* items, and no two originals share a reversible token (VAULT.md:7), through
\* every add, refusal, clone and prune.
VaultConsistent(v) == OriginalsIndexed(v) /\ ReplacementsIndexed(v) /\ Bijective(v)
VaultsConsistent == VaultConsistent(vault) /\ VaultConsistent(work)

\* The budget holds for the vault that is kept and for the clone, and the
\* running byte count is the sum over the items even after a prune.
VaultsWithinBudget ==
    \A v \in {vault, work} : CountWithinBudget(v) /\ BytesWithinBudget(v)

\* Every token in the retained history still restores to the original that
\* its message meant, although the vault was pruned, cloned and replaced and
\* tokens were issued anew in between.
HistoryRestorable ==
    \A m \in history : \A pair \in m.wrote :
        /\ pair[1] \in m.atoms
        /\ vault.byReplacement[pair[1]] # NoItem
        /\ vault.byReplacement[pair[1]].original = pair[2]

\* Between turns the vault remembers an original only for as long as the
\* history mentions its token (VAULT.md:13), and no irreversible item.
NothingKeptUnreferenced ==
    \A i \in vault.items : i.restore /\ i.replacement \in AtomsOf(history)

\* The vault holds no more than its budget allows and the history needs.
VaultsHoldNoMoreThanTheyMay == VaultsWithinBudget /\ NothingKeptUnreferenced

\* Whatever the history holds, a later turn that adds nothing of its own gets
\* past the wire guard: no turn can leave a history that makes every later
\* turn of the conversation fail.
HistoryStaysSendable ==
    \A a \in AtomsOf(history) : WireAccepts(a, vault, {})

\* The history never holds an original in the clear, a token that nobody
\* issued, or data the provider came up with (output_guard.py:45-46,
\* docs/adr/0006-output-guard-order.md:6-8), as far as a detector can read it.
HistoryProviderSafe ==
    AtomsOf(history) \subseteq Replacement \cup {Redacted} \cup Unsendable

\* A history is fit if it is safe to keep and if nothing in it but an odd shape
\* or a coded text keeps a later turn from being sent.
HistoryIsFit ==
    /\ HistoryProviderSafe
    /\ \A a \in AtomsOf(history) \ Unsendable : WireAccepts(a, vault, {})

\* A chat turn in which the policy allowed nothing leaves a fit history fit,
\* whatever was answered and trimmed (output_guard.py:45-46), and if it is the
\* turn after which nothing can be sent any more, then because of what it was
\* answered: an odd shape or a coded text, which the clean-up keeps.  Whoever
\* never allows a value and never streams is stuck for no other reason.
ChatTurnsKeepHistoryFit ==
    [][kind = "chat" /\ approved = {} /\ HistoryIsFit =>
          /\ HistoryIsFit'
          /\ HistoryStaysSendable /\ ~ HistoryStaysSendable' =>
                \E m \in history' \ history :
                    m.role = "assistant" /\ m.atoms \cap Unsendable # {}]_vars

\* The committed vault and history change together and only when a turn
\* succeeds: a refused or failed turn leaves no trace, even when it had
\* already added items (anonymizer.py:61).
OnlySuccessfulTurnsLeaveATrace ==
    [][<<vault, history>>' # <<vault, history>> =>
          /\ phase = "calling"
          /\ ~ blocked
          /\ \A m \in history' \ history :
                m.atoms \cap Original \subseteq approved]_vars
=============================================================================
