--------------------------- MODULE MCConversation ---------------------------
(* MaskedConversation on a small instance, in two deployments. *)
EXTENDS MaskedConversation, TLC

CONSTANTS alice, bob, carol, t1, t2, t3

MCBytes == [o \in Original |-> CASE o = alice -> 1 [] o = bob -> 2 [] OTHER -> 3]

Tokens == Permutations(Replacement)

-----------------------------------------------------------------------------
VARIABLE deployment

\* Every path and decision for messages of two entities, which are not carol, or of
\* one when the history is full, or only chat turns of messages of three under a
\* policy that never allows.
MCInit == Init /\ deployment \in {"open", "closed"}

MCNext ==
    /\ Next
    /\ IF deployment = "open"
       THEN /\ masked' <= IF Cardinality(history) < MaxMessages THEN 2 ELSE 1
            /\ carol \notin approved' \cup {i.original : i \in work'.items}
       ELSE kind' = "chat" /\ approved' = {}
    /\ UNCHANGED deployment

MCSpec == MCInit /\ [][MCNext]_<<vars, deployment>>
=============================================================================
