------------------------------- MODULE Vault -------------------------------
(***************************************************************************)
(* The mapping vault of one masking session (app/privacy/vault.py,         *)
(* InMemoryVault), as operators on a vault value.  The vault is a plain    *)
(* value here because the code copies it: a turn works on a deep copy and  *)
(* the copy replaces the conversation's vault only when the turn commits.  *)
(*                                                                         *)
(* The list of items holds at most one item for an original, so it is a    *)
(* set.  Each method runs under the vault's own lock and is one step.      *)
(***************************************************************************)
EXTENDS Naturals, FiniteSets, FiniteSetsExt

CONSTANTS
    Original,      \* sensitive strings a client may send
    Replacement,   \* strings that stand for them on the wire
    Redacted,      \* the irreversible "[REDACTED_...]" replacement
    NoItem,        \* None
    MaxMappings,   \* VaultBudget.max_mappings
    MaxBytes,      \* VaultBudget.max_sensitive_bytes, after its 1024 floor
    Bytes          \* [Original -> Nat], the encoded length of an original

ASSUME VaultAssumption ==
    /\ Redacted \notin Replacement
    /\ MaxMappings \in Nat
    /\ MaxBytes \in Nat
    /\ Bytes \in [Original -> Nat]

Item == [original : Original,
         replacement : Replacement \cup {Redacted},
         restore : BOOLEAN]

ASSUME NoItemAssumption == NoItem \notin Item

Reversible(o, t) == [original |-> o, replacement |-> t, restore |-> TRUE]
Irreversible(o) == [original |-> o, replacement |-> Redacted, restore |-> FALSE]

Vaults == [items : SUBSET Item,
           byOriginal : [Original -> Item \cup {NoItem}],
           byReplacement : [Replacement \cup {Redacted} -> Item \cup {NoItem}],
           bytes : Nat]

EmptyVault == [items |-> {},
               byOriginal |-> [o \in Original |-> NoItem],
               byReplacement |-> [t \in Replacement \cup {Redacted} |-> NoItem],
               bytes |-> 0]

----------------------------------------------------------------------------
FindOriginal(v, o) == v.byOriginal[o]
ContainsReplacement(v, t) == v.byReplacement[t] # NoItem

\* add() refuses an original bound to another item, and a reversible item
\* whose replacement already stands for another original.
Collides(v, item) ==
    LET existing == v.byOriginal[item.original]
        reverse == v.byReplacement[item.replacement]
    IN  \/ existing # NoItem /\ existing # item
        \/ /\ existing = NoItem
           /\ item.restore
           /\ reverse # NoItem
           /\ reverse.original # item.original

\* Mutant: the bytes of the new item are not counted.
FullWithoutTheItem(v, item) ==
    \/ Cardinality(v.items) >= IF MaxMappings > 1 THEN MaxMappings ELSE 1
    \/ v.bytes > MaxBytes

Full(v, item) ==
    \/ Cardinality(v.items) >= IF MaxMappings > 1 THEN MaxMappings ELSE 1
    \/ v.bytes + Bytes[item.original] > MaxBytes

\* add() of an item whose original is new, past both refusals.
Added(v, item) ==
    [items |-> v.items \cup {item},
     byOriginal |-> [v.byOriginal EXCEPT ![item.original] = item],
     byReplacement |-> IF item.restore
                       THEN [v.byReplacement EXCEPT ![item.replacement] = item]
                       ELSE v.byReplacement,
     bytes |-> v.bytes + Bytes[item.original]]

Refuses(v, item) ==
    Collides(v, item) \/ (v.byOriginal[item.original] = NoItem /\ Full(v, item))

\* add() as a whole: an item that is already there is kept as it is.
Add(v, item) ==
    IF v.byOriginal[item.original] = NoItem THEN Added(v, item) ELSE v

----------------------------------------------------------------------------

\* prune_to_references(): only the reversible items whose replacement occurs
\* in the retained messages survive; both indexes and the byte count are
\* rebuilt from them.
Retained(v, refs) == {i \in v.items : i.restore /\ i.replacement \in refs}

ByOriginal(items) ==
    [o \in Original |->
        IF \E i \in items : i.original = o
        THEN CHOOSE i \in items : i.original = o ELSE NoItem]

\* Mutant: the rebuilt index has no entry for the redaction.
ByToken(items) ==
    [t \in Replacement |->
        IF \E i \in items : i.replacement = t
        THEN CHOOSE i \in items : i.replacement = t ELSE NoItem]

ByReplacement(items) ==
    [t \in Replacement \cup {Redacted} |->
        IF \E i \in items : i.replacement = t
        THEN CHOOSE i \in items : i.replacement = t ELSE NoItem]

BytesOf(items) == MapThenSumSet(LAMBDA i : Bytes[i.original], items)

\* Mutant: the indexes are not rebuilt.
PruneItems(v, refs) ==
    [v EXCEPT !.items = Retained(v, refs), !.bytes = BytesOf(Retained(v, refs))]

Prune(v, refs) ==
    LET kept == Retained(v, refs)
    IN  [items |-> kept,
         byOriginal |-> ByOriginal(kept),
         byReplacement |-> ByReplacement(kept),
         bytes |-> BytesOf(kept)]

----------------------------------------------------------------------------
(* What the two indexes promise. *)

OriginalsIndexed(v) ==
    \A o \in Original :
        /\ v.byOriginal[o] # NoItem =>
              v.byOriginal[o] \in v.items /\ v.byOriginal[o].original = o
        /\ \A i \in v.items : i.original = o => v.byOriginal[o] = i

ReplacementsIndexed(v) ==
    \A t \in Replacement \cup {Redacted} :
        /\ v.byReplacement[t] # NoItem =>
              /\ v.byReplacement[t] \in v.items
              /\ v.byReplacement[t].restore
              /\ v.byReplacement[t].replacement = t
        /\ \A i \in v.items :
              i.restore /\ i.replacement = t => v.byReplacement[t] = i

\* No two originals share a reversible replacement, no original has two items.
Bijective(v) ==
    \A i, j \in v.items :
        /\ i.original = j.original => i = j
        /\ i.restore /\ j.restore /\ i.replacement = j.replacement => i = j

CountWithinBudget(v) ==
    Cardinality(v.items) <= IF MaxMappings > 1 THEN MaxMappings ELSE 1

BytesWithinBudget(v) == v.bytes = BytesOf(v.items) /\ v.bytes <= MaxBytes
=============================================================================
