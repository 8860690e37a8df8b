--------------------------- MODULE ConversationLog ---------------------------
(***************************************************************************)
(* What the conversation store promises to clients, without locks, stores, *)
(* clocks or streams: under each key a log of whole turns.  Every turn is  *)
(* answered once and enters at most one log, at its end; the log keeps its *)
(* newest turns; a conversation is forgotten only as a whole, and what was *)
(* forgotten never comes back.  Module ChatTurns implements this.          *)
(***************************************************************************)
EXTENDS Naturals, Sequences

CONSTANTS Req, Key, MaxHistory

VARIABLES
    log,      \* the turns a key still remembers
    answered  \* turns whose answer was accepted

Newest(h) ==
    IF Len(h) > MaxHistory THEN SubSeq(h, Len(h) - MaxHistory + 1, Len(h)) ELSE h

Init ==
    /\ log = [k \in Key |-> <<>>]
    /\ answered = {}

\* The conversation of the turn may be gone by then, or there was none.
Answer(r) ==
    /\ r \notin answered
    /\ answered' = answered \cup {r}
    /\ \/ UNCHANGED log
       \/ \E k \in Key : log' = [log EXCEPT ![k] = Newest(Append(@, r))]

\* Clear, expiry and the removal of conversations nothing was committed to.
Forget(keys) ==
    /\ log' = [k \in Key |-> IF k \in keys THEN <<>> ELSE log[k]]
    /\ UNCHANGED answered

Next ==
    \/ \E r \in Req : Answer(r)
    \/ \E keys \in SUBSET Key : Forget(keys)

Spec == Init /\ [][Next]_<<log, answered>>
=============================================================================
