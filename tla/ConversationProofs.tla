-------------------------- MODULE ConversationProofs --------------------------
(***************************************************************************)
(* Proofs about Vault and MaskedConversation: both indexes of the vault    *)
(* survive every add, clone and prune, and every token that the history    *)
(* retains still restores to the original its message meant.               *)
(***************************************************************************)
EXTENDS MaskedConversation, Induction, FiniteSetTheorems

----------------------------------------------------------------------------
(* The operators of Vault: the indexes survive add() and prune_to_references(), *)
(* and so do the two budgets.  The byte count is a sum over a set, which takes  *)
(* induction.                                                                   *)

\* The part of a vault's type that its indexes need.
Shaped(v) ==
    /\ v.items \subseteq Item
    /\ v.byOriginal \in [Original -> Item \cup {NoItem}]
    /\ v.byReplacement \in [Replacement \cup {Redacted} -> Item \cup {NoItem}]

\* Indexes that agree with the items (VaultConsistent of MaskedConversation).
Sound(v) == Shaped(v) /\ OriginalsIndexed(v) /\ ReplacementsIndexed(v) /\ Bijective(v)

----------------------------------------------------------------------------
(* The indexes. *)

LEMMA EmptySound == Sound(EmptyVault)
  BY DEF Sound, Shaped, EmptyVault, OriginalsIndexed,
         ReplacementsIndexed, Bijective

\* add() of a new item keeps both indexes.
LEMMA AddSound ==
    ASSUME NEW v, Sound(v), NEW item \in Item,
           v.byOriginal[item.original] = NoItem,
           item.restore => v.byReplacement[item.replacement] = NoItem
    PROVE  /\ Sound(Add(v, item))
           /\ v.items \subseteq Add(v, item).items
           /\ item \in Add(v, item).items
<1> DEFINE a == Added(v, item)
<1>1. Add(v, item) = a
  BY DEF Add
<1>2. /\ item.original \in Original
      /\ item.replacement \in Replacement \cup {Redacted}
      /\ item # NoItem
  BY NoItemAssumption DEF Item
<1>3. /\ a.items = v.items \cup {item}
      /\ a.byOriginal = [v.byOriginal EXCEPT ![item.original] = item]
      /\ a.byReplacement = IF item.restore
                           THEN [v.byReplacement EXCEPT ![item.replacement] = item]
                           ELSE v.byReplacement
  BY DEF Added
<1> HIDE DEF a
<1>4. Shaped(a)
  BY <1>2, <1>3 DEF Sound, Shaped
<1>5. \A i \in v.items : i.original # item.original
  BY <1>2, NoItemAssumption DEF Sound, Shaped, OriginalsIndexed
<1>6. item.restore => \A i \in v.items : i.restore => i.replacement # item.replacement
  BY <1>2, NoItemAssumption DEF Sound, Shaped, ReplacementsIndexed
<1>7. OriginalsIndexed(a)
  BY <1>2, <1>3, <1>5 DEF Sound, Shaped, OriginalsIndexed
<1>8. ReplacementsIndexed(a)
  BY <1>2, <1>3, <1>6 DEF Sound, Shaped, ReplacementsIndexed
<1>9. Bijective(a)
  BY <1>3, <1>5, <1>6 DEF Sound, Bijective
<1> QED
  BY <1>1, <1>3, <1>4, <1>7, <1>8, <1>9 DEF Sound

\* prune_to_references() rebuilds both indexes as they would have grown.
LEMMA PruneSound ==
    ASSUME NEW v, Sound(v), NEW refs
    PROVE  /\ Sound(Prune(v, refs))
           /\ Prune(v, refs).items = Retained(v, refs)
<1> DEFINE p == Prune(v, refs)
           kept == Retained(v, refs)
<1>1. /\ p.items = kept
      /\ p.byOriginal = ByOriginal(kept)
      /\ p.byReplacement = ByReplacement(kept)
  BY DEF Prune
<1>2. kept \subseteq v.items /\ kept \subseteq Item /\ \A i \in kept : i.restore
  BY DEF Retained, Sound, Shaped
<1>3. \A i, j \in kept : /\ i.original = j.original => i = j
                         /\ i.replacement = j.replacement => i = j
  BY <1>2 DEF Sound, Bijective
<1> HIDE DEF kept, p
<1>4. \A i \in kept : /\ i.original \in Original
                      /\ i.replacement \in Replacement \cup {Redacted}
                      /\ i # NoItem
  BY <1>2, NoItemAssumption DEF Item
<1>5. Shaped(p)
  BY <1>1, <1>2 DEF Shaped, ByOriginal, ByReplacement
<1>6. OriginalsIndexed(p)
  BY <1>1, <1>3, <1>4 DEF OriginalsIndexed, ByOriginal
<1>7. ReplacementsIndexed(p)
  BY <1>1, <1>2, <1>3, <1>4 DEF ReplacementsIndexed, ByReplacement
<1>8. Bijective(p)
  BY <1>1, <1>3 DEF Bijective
<1> QED
  BY <1>1, <1>5, <1>6, <1>7, <1>8 DEF Sound, p, kept

----------------------------------------------------------------------------
(* The sum of bytes. *)

\* The bytes of one item, and the item that the sum takes first.
Size(i) == Bytes[i.original]
First(s) == CHOOSE i \in s : TRUE

Summed(f, s) == IF s = {} THEN 0 ELSE Size(First(s)) + f[s \ {First(s)}]

\* f sums every set of items of S.
Sums(f, S) == f = [s \in SUBSET S |-> Summed(f, s)]

\* What removing an element does to a finite set.
LEMMA WithoutFirst ==
    ASSUME NEW S, IsFiniteSet(S), NEW T \in SUBSET S, T # {}
    PROVE  /\ First(T) \in T
           /\ IsFiniteSet(T) /\ Cardinality(T) \in Nat
           /\ T \ {First(T)} \in SUBSET S
           /\ Cardinality(T \ {First(T)}) = Cardinality(T) - 1
           /\ Cardinality(T \ {First(T)}) \in Nat
<1>1. First(T) \in T
  BY DEF First
<1>2. IsFiniteSet(T)
  BY FS_Subset
<1>3. /\ IsFiniteSet(T \ {First(T)})
      /\ Cardinality(T \ {First(T)}) = Cardinality(T) - 1
  BY <1>1, <1>2, FS_RemoveElement
<1> QED
  BY <1>1, <1>2, <1>3, FS_CardinalityType

\* There is a function that sums the bytes of every subset, ...
LEMMA SumsExist ==
    ASSUME NEW S \in SUBSET Item, IsFiniteSet(S)
    PROVE  \E f \in [SUBSET S -> Nat] : Sums(f, S)
<1> DEFINE Upto(n) == {T \in SUBSET S : Cardinality(T) <= n}
           N == {n \in Nat : \E f \in [SUBSET S -> Nat] :
                                \A T \in Upto(n) : f[T] = Summed(f, T)}
<1>1. \A T \in SUBSET S : Cardinality(T) \in Nat /\ (Cardinality(T) = 0 <=> T = {})
  BY FS_Subset, FS_CardinalityType, FS_EmptySet
<1>2. 0 \in N
  <2> DEFINE f == [T \in SUBSET S |-> 0]
  <2>1. \A T \in Upto(0) : T = {}
    BY <1>1
  <2>2. f \in [SUBSET S -> Nat] /\ \A T \in Upto(0) : f[T] = Summed(f, T)
    BY <2>1 DEF Summed
  <2> QED
    BY <2>2
<1>3. ASSUME NEW n \in Nat, n \in N
      PROVE  n + 1 \in N
  <2>1. PICK f \in [SUBSET S -> Nat] : \A T \in Upto(n) : f[T] = Summed(f, T)
    BY <1>3
  <2> DEFINE g == [T \in SUBSET S |-> Summed(f, T)]
  <2>2. ASSUME NEW T \in SUBSET S, T # {}
        PROVE  /\ First(T) \in T /\ Size(First(T)) \in Nat
               /\ T \ {First(T)} \in SUBSET S
               /\ T \in Upto(n + 1) => T \ {First(T)} \in Upto(n)
    <3>1. First(T) \in T /\ T \ {First(T)} \in SUBSET S
      BY WithoutFirst, <2>2
    <3>2. Size(First(T)) \in Nat
      BY <3>1, VaultAssumption DEF Size, Item
    <3>3. /\ Cardinality(T) \in Nat
          /\ Cardinality(T \ {First(T)}) = Cardinality(T) - 1
      BY WithoutFirst, <2>2
    <3> QED
      BY <3>1, <3>2, <3>3
  <2>3. ASSUME NEW T \in SUBSET S
        PROVE  Summed(f, T) \in Nat
    <3>1. CASE T = {}
      BY <3>1 DEF Summed
    <3>2. CASE T # {}
      <4>1. Size(First(T)) \in Nat /\ f[T \ {First(T)}] \in Nat
        BY <2>2, <3>2
      <4> QED
        BY <3>2, <4>1 DEF Summed
    <3> QED
      BY <3>1, <3>2
  <2>4. g \in [SUBSET S -> Nat]
    BY <2>3
  <2>5. ASSUME NEW T \in Upto(n + 1)
        PROVE  g[T] = Summed(g, T)
    <3>1. CASE T = {}
      BY <3>1 DEF Summed
    <3>2. CASE T # {}
      <4> DEFINE U == T \ {First(T)}
      <4>1. U \in Upto(n)
        BY <2>2, <3>2
      <4>2. g[U] = f[U]
        BY <2>1, <4>1
      <4> QED
        BY <3>2, <4>2 DEF Summed
    <3> QED
      BY <3>1, <3>2
  <2> HIDE DEF g
  <2> QED
    BY <2>4, <2>5
<1>4. Cardinality(S) \in N
  <2> HIDE DEF N
  <2>1. Nat \subseteq N
    BY <1>2, <1>3, NaturalsByInduction
  <2> QED
    BY <2>1, FS_CardinalityType
<1>5. PICK f \in [SUBSET S -> Nat] : \A T \in Upto(Cardinality(S)) : f[T] = Summed(f, T)
  BY <1>4
<1>6. \A T \in SUBSET S : T \in Upto(Cardinality(S))
  BY FS_Subset
<1>7. Sums(f, S)
  BY <1>5, <1>6 DEF Sums
<1> QED
  BY <1>7

\* ... only one, whatever larger set it is defined on, ...
LEMMA SumsAgree ==
    ASSUME NEW S, IsFiniteSet(S), NEW U \in SUBSET S,
           NEW f, Sums(f, S), NEW g, Sums(g, U)
    PROVE  f[U] = g[U]
<1> DEFINE N == {n \in Nat : \A T \in SUBSET U : Cardinality(T) = n => f[T] = g[T]}
<1>1. \A T \in SUBSET U : f[T] = Summed(f, T) /\ g[T] = Summed(g, T)
  BY DEF Sums
<1>2. IsFiniteSet(U)
  BY FS_Subset
<1>3. 0 \in N
  <2>1. \A T \in SUBSET U : Cardinality(T) = 0 => T = {}
    BY <1>2, FS_Subset, FS_EmptySet
  <2> QED
    BY <1>1, <2>1 DEF Summed
<1>4. ASSUME NEW n \in Nat, n \in N
      PROVE  n + 1 \in N
  <2> SUFFICES ASSUME NEW T \in SUBSET U, Cardinality(T) = n + 1
               PROVE  f[T] = g[T]
    OBVIOUS
  <2>1. T # {}
    BY FS_EmptySet
  <2>2. T \ {First(T)} \in SUBSET U /\ Cardinality(T \ {First(T)}) = n
    BY <1>2, <2>1, WithoutFirst
  <2>3. f[T \ {First(T)}] = g[T \ {First(T)}]
    BY <1>4, <2>2
  <2> QED
    BY <1>1, <2>1, <2>3 DEF Summed
<1>5. Cardinality(U) \in N
  <2> HIDE DEF N
  <2>1. Nat \subseteq N
    BY <1>3, <1>4, NaturalsByInduction
  <2> QED
    BY <1>2, <2>1, FS_CardinalityType
<1> QED
  BY <1>5

\* BytesOf is the sum it says.
LEMMA BytesSum ==
    ASSUME NEW S \in SUBSET Item, IsFiniteSet(S)
    PROVE  \E f \in [SUBSET S -> Nat] : Sums(f, S) /\ BytesOf(S) = f[S]
<1> DEFINE g == CHOOSE h : h = [s \in SUBSET S |->
                    IF s = {} THEN 0
                    ELSE Bytes[(CHOOSE x \in s : TRUE).original]
                           + h[s \ {CHOOSE x \in s : TRUE}]]
<1>1. BytesOf(S) = g[S]
  BY DEF BytesOf, MapThenSumSet, MapThenFoldSet
<1>2. PICK f \in [SUBSET S -> Nat] : Sums(f, S)
  BY SumsExist
<1>3. g = CHOOSE h : Sums(h, S)
  BY DEF Sums, Summed, Size, First
<1> HIDE DEF g
<1>4. Sums(g, S)
  BY <1>2, <1>3
<1>5. f[S] = g[S]
  BY <1>2, <1>4, SumsAgree
<1> QED
  BY <1>1, <1>2, <1>5

\* ... and BytesOf is its value: the sum can be taken item by item.
LEMMA BytesStep ==
    ASSUME NEW S \in SUBSET Item, IsFiniteSet(S)
    PROVE  /\ BytesOf(S) \in Nat
           /\ BytesOf({}) = 0
           /\ S # {} => BytesOf(S) = Size(First(S)) + BytesOf(S \ {First(S)})
<1>1. PICK f \in [SUBSET S -> Nat] : Sums(f, S) /\ BytesOf(S) = f[S]
  BY BytesSum
<1>2. BytesOf({}) = 0
  <2>1. PICK g : Sums(g, {}) /\ BytesOf({}) = g[{}]
    BY BytesSum, FS_EmptySet
  <2> QED
    BY <2>1 DEF Sums, Summed
<1>3. ASSUME S # {}
      PROVE  BytesOf(S) = Size(First(S)) + BytesOf(S \ {First(S)})
  <2> DEFINE U == S \ {First(S)}
  <2>1. U \in SUBSET S /\ IsFiniteSet(U) /\ U \in SUBSET Item
    BY <1>3, FS_Subset
  <2>2. PICK g : Sums(g, U) /\ BytesOf(U) = g[U]
    BY <2>1, BytesSum
  <2>3. f[U] = g[U]
    BY <1>1, <2>1, <2>2, SumsAgree
  <2>4. f[S] = Size(First(S)) + f[U]
    BY <1>1, <1>3 DEF Sums, Summed
  <2> QED
    BY <1>1, <2>2, <2>3, <2>4
<1> QED
  BY <1>1, <1>2, <1>3

\* The sum does not depend on the order.
LEMMA BytesWithout ==
    ASSUME NEW S \in SUBSET Item, IsFiniteSet(S), NEW i \in S
    PROVE  BytesOf(S) = Size(i) + BytesOf(S \ {i})
<1> DEFINE Splits(T) == \A x \in T : BytesOf(T) = Size(x) + BytesOf(T \ {x})
           N == {n \in Nat : \A T \in SUBSET S : Cardinality(T) = n => Splits(T)}
<1>1. 0 \in N
  <2>1. \A T \in SUBSET S : Cardinality(T) = 0 => T = {}
    BY FS_Subset, FS_EmptySet
  <2> QED
    BY <2>1
<1>2. ASSUME NEW n \in Nat, n \in N
      PROVE  n + 1 \in N
  <2> SUFFICES ASSUME NEW T \in SUBSET S, Cardinality(T) = n + 1, NEW x \in T
               PROVE  BytesOf(T) = Size(x) + BytesOf(T \ {x})
    OBVIOUS
  <2> DEFINE y == First(T)
  <2>1. IsFiniteSet(T) /\ y \in T
    BY FS_Subset DEF First
  <2>2. BytesOf(T) = Size(y) + BytesOf(T \ {y})
    BY <2>1, BytesStep
  <2> HIDE DEF y
  <2>3. CASE x # y
    <3>1. ASSUME NEW z \in T
          PROVE  Splits(T \ {z})
      <4>1. Cardinality(T \ {z}) = Cardinality(T) - 1
        BY <2>1, FS_RemoveElement
      <4>2. T \ {z} \in SUBSET S /\ Cardinality(T \ {z}) = n
        BY <4>1
      <4> QED
        BY <1>2, <4>2
    <3>2. BytesOf(T \ {y}) = Size(x) + BytesOf((T \ {y}) \ {x})
      BY <2>1, <2>3, <3>1
    <3>3. BytesOf(T \ {x}) = Size(y) + BytesOf((T \ {x}) \ {y})
      BY <2>1, <2>3, <3>1
    <3>4. (T \ {y}) \ {x} = (T \ {x}) \ {y}
      OBVIOUS
    <3>5. BytesOf((T \ {y}) \ {x}) \in Nat
      BY <2>1, FS_Subset, BytesStep
    <3>6. Size(x) \in Nat /\ Size(y) \in Nat
      BY <2>1, VaultAssumption DEF Size, Item
    <3> QED
      BY <2>2, <3>2, <3>3, <3>4, <3>5, <3>6
  <2> QED
    BY <2>2, <2>3
<1>3. Cardinality(S) \in N
  <2> HIDE DEF N
  <2>1. Nat \subseteq N
    BY <1>1, <1>2, NaturalsByInduction
  <2> QED
    BY <2>1, FS_CardinalityType
<1> QED
  BY <1>3

\* A new item adds its bytes.
LEMMA BytesAdd ==
    ASSUME NEW S \in SUBSET Item, IsFiniteSet(S), NEW i \in Item \ S
    PROVE  BytesOf(S \cup {i}) = BytesOf(S) + Size(i)
<1>1. IsFiniteSet(S \cup {i}) /\ (S \cup {i}) \ {i} = S
  BY FS_AddElement
<1>2. BytesOf(S \cup {i}) = Size(i) + BytesOf(S)
  BY <1>1, BytesWithout
<1>3. Size(i) \in Nat /\ BytesOf(S) \in Nat
  BY BytesStep, VaultAssumption DEF Size, Item
<1> QED
  BY <1>2, <1>3

\* Fewer items are no more bytes.
LEMMA BytesMonotone ==
    ASSUME NEW S \in SUBSET Item, IsFiniteSet(S), NEW T \in SUBSET S
    PROVE  BytesOf(T) <= BytesOf(S)
<1> DEFINE N == {n \in Nat : \A U \in SUBSET S :
                                T \subseteq U /\ Cardinality(U \ T) = n
                                => BytesOf(T) <= BytesOf(U)}
<1>1. \A U \in SUBSET S : IsFiniteSet(U) /\ IsFiniteSet(U \ T) /\ BytesOf(U) \in Nat
  BY FS_Subset, BytesStep
<1>2. 0 \in N
  <2>1. \A U \in SUBSET S : Cardinality(U \ T) = 0 => U \ T = {}
    BY <1>1, FS_EmptySet
  <2>2. \A U \in SUBSET S : T \subseteq U /\ Cardinality(U \ T) = 0 => U = T
    BY <2>1
  <2> QED
    BY SMTT(30), <1>1, <2>2
<1>3. ASSUME NEW n \in Nat, n \in N
      PROVE  n + 1 \in N
  <2> SUFFICES ASSUME NEW U \in SUBSET S, T \subseteq U, Cardinality(U \ T) = n + 1
               PROVE  BytesOf(T) <= BytesOf(U)
    OBVIOUS
  <2>1. U \ T # {}
    BY FS_EmptySet
  <2>2. PICK i \in U : i \notin T
    BY <2>1
  <2> DEFINE V == U \ {i}
  <2>3. V \in SUBSET S /\ T \subseteq V /\ V \ T = (U \ T) \ {i}
    BY <2>2
  <2>4. Cardinality(V \ T) = n
    <3>1. IsFiniteSet(U \ T) /\ i \in U \ T
      BY <1>1, <2>2
    <3>2. Cardinality((U \ T) \ {i}) = Cardinality(U \ T) - 1
      BY <3>1, FS_RemoveElement
    <3> QED
      BY <2>3, <3>2
  <2>5. BytesOf(T) <= BytesOf(V)
    BY <1>3, <2>3, <2>4
  <2>6. BytesOf(U) = Size(i) + BytesOf(V)
    BY <1>1, BytesWithout
  <2>7. Size(i) \in Nat
    BY <2>2, VaultAssumption DEF Size, Item
  <2> HIDE DEF V
  <2>8. BytesOf(V) \in Nat /\ BytesOf(T) \in Nat
    BY <1>1, <2>3
  <2> QED
    BY <2>5, <2>6, <2>7, <2>8
<1>4. Cardinality(S \ T) \in N
  <2> HIDE DEF N
  <2>1. Nat \subseteq N
    BY <1>2, <1>3, NaturalsByInduction
  <2> QED
    BY <1>1, <2>1, FS_CardinalityType
<1> QED
  BY <1>4

----------------------------------------------------------------------------
(* The budgets. *)

Budgeted(v) ==
    /\ v.items \subseteq Item
    /\ IsFiniteSet(v.items)
    /\ CountWithinBudget(v)
    /\ BytesWithinBudget(v)

LEMMA EmptyBudgeted == Budgeted(EmptyVault)
<1>1. IsFiniteSet({}) /\ Cardinality({}) = 0 /\ BytesOf({}) = 0
  BY FS_EmptySet, BytesStep
<1> QED
  BY <1>1, VaultAssumption DEF Budgeted, CountWithinBudget, BytesWithinBudget, EmptyVault

\* add() counts the new item before it takes it.
LEMMA AddBudgeted ==
    ASSUME NEW v, Budgeted(v), NEW item \in Item \ v.items, ~ Full(v, item)
    PROVE  Budgeted(Added(v, item))
<1> DEFINE a == Added(v, item)
           S == v.items \cup {item}
<1>1. a.items = S /\ a.bytes = v.bytes + Bytes[item.original]
  BY DEF Added
<1>2. /\ S \in SUBSET Item
      /\ IsFiniteSet(S)
      /\ Cardinality(S) = Cardinality(v.items) + 1
      /\ Cardinality(v.items) \in Nat
  BY FS_AddElement, FS_CardinalityType DEF Budgeted
<1>3. BytesOf(S) = v.bytes + Bytes[item.original]
  BY BytesAdd DEF Budgeted, BytesWithinBudget, Size
<1>4. v.bytes \in Nat /\ Bytes[item.original] \in Nat
  BY BytesStep, VaultAssumption DEF Budgeted, BytesWithinBudget, Item
<1> HIDE DEF a, S
<1>5. CountWithinBudget(a)
  BY <1>1, <1>2, VaultAssumption DEF Full, CountWithinBudget
<1>6. BytesWithinBudget(a)
  BY <1>1, <1>3, <1>4, VaultAssumption DEF Full, BytesWithinBudget
<1> QED
  BY <1>1, <1>2, <1>5, <1>6 DEF Budgeted, a

\* What is left after a prune weighs no more than what was there.
LEMMA PruneBudgeted ==
    ASSUME NEW v, Budgeted(v), NEW refs
    PROVE  Budgeted(Prune(v, refs))
<1> DEFINE p == Prune(v, refs)
           kept == Retained(v, refs)
<1>1. p.items = kept /\ p.bytes = BytesOf(kept)
  BY DEF Prune
<1>2. kept \in SUBSET v.items
  BY DEF Retained
<1> HIDE DEF p, kept
<1>3. /\ IsFiniteSet(kept)
      /\ Cardinality(kept) <= Cardinality(v.items)
      /\ BytesOf(kept) <= BytesOf(v.items)
  BY <1>2, FS_Subset, BytesMonotone DEF Budgeted
<1>4. /\ Cardinality(kept) \in Nat /\ Cardinality(v.items) \in Nat
      /\ BytesOf(kept) \in Nat /\ BytesOf(v.items) \in Nat
  BY <1>2, <1>3, FS_CardinalityType, BytesStep DEF Budgeted
<1>5. CountWithinBudget(p)
  BY <1>1, <1>3, <1>4, VaultAssumption DEF Budgeted, CountWithinBudget
<1>6. BytesWithinBudget(p)
  BY <1>1, <1>3, <1>4, VaultAssumption DEF Budgeted, BytesWithinBudget
<1> QED
  BY <1>1, <1>2, <1>3, <1>5, <1>6 DEF Budgeted, p

----------------------------------------------------------------------------
(* Conversations. *)

USE DEF turn

\* An item that restores what the client meant by a token.
Restores(v, pair) ==
    \E i \in v.items : i.restore /\ i.replacement = pair[1] /\ i.original = pair[2]

\* The clone of a turn has everything the committed vault has, ...
CloneGrows == phase # "idle" => vault.items \subseteq work.items

\* ... and restores every token of the turn's own message.
MessageRestorable ==
    /\ phase = "idle" => wrote = {}
    /\ \A pair \in wrote : pair[1] \in sent /\ Restores(work, pair)

KeptRestorable ==
    \A m \in history : \A pair \in m.wrote :
        pair[1] \in m.atoms /\ Restores(vault, pair)

IInv ==
    /\ Sound(vault)
    /\ Sound(work)
    /\ CloneGrows
    /\ MessageRestorable
    /\ KeptRestorable

----------------------------------------------------------------------------
(* The turn. *)

LEMMA InitKeeps == Init => IInv
  BY EmptySound DEF Init, IInv, CloneGrows, MessageRestorable, KeptRestorable

\* Every exit that leaves the vault and the history alone.
LEMMA TurnOverKeeps ==
    ASSUME IInv, TurnOver, UNCHANGED <<vault, history>>
    PROVE  IInv'
  BY EmptySound DEF TurnOver, IInv, Sound, Shaped, OriginalsIndexed,
     ReplacementsIndexed, Bijective, CloneGrows, MessageRestorable, KeptRestorable,
     Restores

\* The replacement of an item that the clone has enters the message.
LEMMA EmitKeeps ==
    ASSUME IInv, phase = "masking", phase' = phase, UNCHANGED <<vault, history>>,
           NEW o \in Original, NEW v, NEW item, Emit(o, item, v),
           Sound(v), work.items \subseteq v.items,
           item \in v.items, item.original = o
    PROVE  IInv'
<1>1. /\ work' = v
      /\ sent' = sent \cup {item.replacement}
      /\ wrote' = IF item.restore THEN wrote \cup {<<item.replacement, o>>} ELSE wrote
  BY DEF Emit
<1>2. Sound(vault)' /\ Sound(work)'
  BY <1>1 DEF IInv, Sound, Shaped, OriginalsIndexed,
              ReplacementsIndexed, Bijective
<1>3. CloneGrows'
  BY <1>1 DEF IInv, CloneGrows
<1>4. MessageRestorable'
  <2> SUFFICES ASSUME NEW pair \in wrote'
               PROVE  pair[1] \in sent' /\ Restores(work', pair)
    BY DEF MessageRestorable, Restores
  <2>1. CASE pair \in wrote
    BY <1>1, <2>1 DEF IInv, MessageRestorable, Restores
  <2>2. CASE item.restore /\ pair = <<item.replacement, o>>
    BY <1>1, <2>2 DEF Restores
  <2> QED
    BY <1>1, <2>1, <2>2
<1>5. KeptRestorable'
  BY DEF IInv, KeptRestorable, Restores
<1> QED
  BY <1>2, <1>3, <1>4, <1>5 DEF IInv

\* A new item is refused, which ends the turn, or indexed and sent.
LEMMA IssueKeeps ==
    ASSUME IInv, phase = "masking", UNCHANGED <<vault, history>>,
           NEW item \in Item, Issue(item.original, item),
           FindOriginal(work, item.original) = NoItem,
           item.restore => ~ ContainsReplacement(work, item.replacement)
    PROVE  IInv'
<1>1. CASE Refuses(work, item)
  BY <1>1, TurnOverKeeps DEF Issue
<1>2. CASE ~ Refuses(work, item)
  <2>1. /\ Sound(Add(work, item))
        /\ work.items \subseteq Add(work, item).items
        /\ item \in Add(work, item).items
    BY AddSound DEF IInv, FindOriginal, ContainsReplacement
  <2>2. Emit(item.original, item, Add(work, item)) /\ phase' = phase
    BY <1>2 DEF Issue
  <2>3. item.original \in Original
    BY DEF Item
  <2> QED
    BY <2>1, <2>2, <2>3, EmitKeeps
<1> QED
  BY <1>1, <1>2

\* Masking an entity adds what the message means by its new token.
LEMMA MaskEntityKeeps ==
    ASSUME IInv, NEW o \in Original, NEW action \in Actions, MaskEntity(o, action)
    PROVE  IInv'
<1>1. phase = "masking" /\ UNCHANGED <<vault, history>>
  BY DEF MaskEntity
<1>2. CASE /\ \/ sent' = sent
              \/ sent' = sent \cup {o}
           /\ UNCHANGED <<phase, work, wrote>>
  BY <1>1, <1>2 DEF IInv, Sound, Shaped, OriginalsIndexed,
     ReplacementsIndexed, Bijective, CloneGrows, MessageRestorable, KeptRestorable,
     Restores
<1>3. CASE /\ FindOriginal(work, o) # NoItem
           /\ Emit(o, FindOriginal(work, o), work)
           /\ UNCHANGED phase
  <2>1. FindOriginal(work, o) \in work.items /\ FindOriginal(work, o).original = o
    BY <1>3 DEF FindOriginal, IInv, Sound, OriginalsIndexed
  <2>2. Sound(work)
    BY DEF IInv
  <2> QED
    BY <1>1, <1>3, <2>1, <2>2, EmitKeeps
<1>4. CASE FindOriginal(work, o) = NoItem /\ Issue(o, Irreversible(o))
  <2>1. /\ Irreversible(o) \in Item
        /\ Irreversible(o).original = o
        /\ ~ Irreversible(o).restore
    BY DEF Irreversible, Item
  <2> QED
    BY <1>1, <1>4, <2>1, IssueKeeps
<1>5. CASE \E t \in Replacement :
               /\ FindOriginal(work, o) = NoItem
               /\ ~ ContainsReplacement(work, t)
               /\ Issue(o, Reversible(o, t))
  <2>1. PICK t \in Replacement : /\ FindOriginal(work, o) = NoItem
                                 /\ ~ ContainsReplacement(work, t)
                                 /\ Issue(o, Reversible(o, t))
    BY <1>5
  <2>2. /\ Reversible(o, t) \in Item
        /\ Reversible(o, t).original = o
        /\ Reversible(o, t).replacement = t
    BY DEF Reversible, Item
  <2> QED
    BY <1>1, <2>1, <2>2, IssueKeeps
<1> QED
  BY <1>2, <1>3, <1>4, <1>5 DEF MaskEntity

\* A turn begins with a copy of everything.
LEMMA BeginKeeps ==
    ASSUME IInv, Begin
    PROVE  IInv'
<1>1. /\ phase = "idle" /\ phase' = "masking" /\ work' = vault
      /\ UNCHANGED <<vault, history, sent, wrote>>
  BY DEF Begin
<1> QED
  BY <1>1 DEF IInv, Sound, Shaped, OriginalsIndexed,
     ReplacementsIndexed, Bijective, CloneGrows, MessageRestorable, KeptRestorable,
     Restores

\* The guard changes nothing.
LEMMA WirePassKeeps ==
    ASSUME IInv, WirePass
    PROVE  IInv'
  BY DEF WirePass, IInv, Sound, Shaped, OriginalsIndexed,
     ReplacementsIndexed, Bijective, CloneGrows, MessageRestorable, KeptRestorable,
     Restores

\* The pruned clone still restores every token of every message that is kept,
\* be it from before the turn or of the turn.
LEMMA CommitRestores ==
    ASSUME IInv, phase = "calling", NEW atoms, NEW kept,
           \A m \in kept :
              \/ m \in history
              \/ m = [role |-> "user", atoms |-> sent, wrote |-> wrote]
              \/ m = [role |-> "assistant", atoms |-> atoms,
                      wrote |-> Meaning(atoms, work)],
           NEW m \in kept, NEW pair \in m.wrote
    PROVE  pair[1] \in m.atoms /\ Restores(Prune(work, AtomsOf(kept)), pair)
<1>1. pair[1] \in m.atoms /\ Restores(work, pair)
  <2>1. CASE m \in history
    BY <2>1 DEF IInv, KeptRestorable, CloneGrows, Restores
  <2>2. CASE m = [role |-> "user", atoms |-> sent, wrote |-> wrote]
    BY <2>2 DEF IInv, MessageRestorable
  <2>3. CASE m = [role |-> "assistant", atoms |-> atoms,
                  wrote |-> Meaning(atoms, work)]
    BY <2>3 DEF Meaning, Restores
  <2> QED
    BY <2>1, <2>2, <2>3
<1>2. pair[1] \in AtomsOf(kept)
  BY <1>1 DEF AtomsOf
<1>3. Prune(work, AtomsOf(kept)).items = Retained(work, AtomsOf(kept))
  BY PruneSound DEF IInv
<1> QED
  BY <1>1, <1>2, <1>3 DEF Restores, Retained

\* What a commit keeps can be restored from the pruned clone.
LEMMA CommitKeeps ==
    ASSUME IInv, Commit
    PROVE  IInv'
<1>1. phase = "calling" /\ TurnOver
  BY DEF Commit
<1>2. PICK atoms, kept :
          /\ \A m \in kept :
                \/ m \in history
                \/ m = [role |-> "user", atoms |-> sent, wrote |-> wrote]
                \/ m = [role |-> "assistant", atoms |-> atoms,
                        wrote |-> Meaning(atoms, work)]
          /\ history' = kept
          /\ vault' = Prune(work, AtomsOf(kept))
  BY DEF Commit, AssistantMessages
<1>3. Sound(vault')
  BY <1>2, PruneSound DEF IInv
<1>4. KeptRestorable'
  BY <1>1, <1>2, CommitRestores DEF KeptRestorable, Restores
<1>5. work' = EmptyVault /\ phase' = "idle" /\ wrote' = {}
  BY <1>1 DEF TurnOver
<1> QED
  BY <1>3, <1>4, <1>5, EmptySound
     DEF IInv, Sound, Shaped, OriginalsIndexed, ReplacementsIndexed,
         Bijective, CloneGrows, MessageRestorable

----------------------------------------------------------------------------
\* The invariant holds whatever is masked, refused, sent, answered or trimmed.
THEOREM ConversationInductive == Spec => []IInv
<1>1. IInv /\ [Next]_vars => IInv'
  <2> SUFFICES ASSUME IInv, [Next]_vars PROVE IInv'
    OBVIOUS
  <2>1. CASE Begin
    BY <2>1, BeginKeeps
  <2>2. ASSUME NEW o \in Original, NEW a \in Actions, MaskEntity(o, a) PROVE IInv'
    BY <2>2, MaskEntityKeeps
  <2>3. CASE Blocked \/ WireReject \/ ProviderFails
    BY <2>3, TurnOverKeeps DEF Blocked, WireReject, ProviderFails
  <2>4. CASE WirePass
    BY <2>4, WirePassKeeps
  <2>5. CASE Commit
    BY <2>5, CommitKeeps
  <2>6. CASE UNCHANGED vars
    BY <2>6 DEF vars, IInv, Sound, Shaped, OriginalsIndexed,
       ReplacementsIndexed, Bijective, CloneGrows, MessageRestorable, KeptRestorable,
       Restores
  <2> QED
    BY <2>1, <2>2, <2>3, <2>4, <2>5, <2>6 DEF Next
<1> QED
  BY <1>1, InitKeeps, PTL DEF Spec

\* Both indexes agree with the items of the committed vault and of the clone,
\* and no two originals share a token, through every add, clone and prune.
THEOREM Consistent == Spec => []VaultsConsistent
<1>1. IInv => VaultsConsistent
  BY DEF IInv, Sound, VaultsConsistent, VaultConsistent
<1> QED
  BY <1>1, ConversationInductive, PTL

\* Every token in the retained history restores to the original it stood for
\* when its message was masked.
THEOREM Restorable == Spec => []HistoryRestorable
<1>1. IInv => HistoryRestorable
  <2> SUFFICES ASSUME IInv, NEW m \in history, NEW pair \in m.wrote
               PROVE  /\ pair[1] \in m.atoms
                      /\ vault.byReplacement[pair[1]] # NoItem
                      /\ vault.byReplacement[pair[1]].original = pair[2]
    BY DEF HistoryRestorable
  <2>1. pair[1] \in m.atoms /\ Restores(vault, pair)
    BY DEF IInv, KeptRestorable
  <2>2. PICK i \in vault.items :
            i.restore /\ i.replacement = pair[1] /\ i.original = pair[2]
    BY <2>1 DEF Restores
  <2>3. i \in Item /\ pair[1] \in Replacement \cup {Redacted}
    BY <2>2 DEF IInv, Sound, Shaped, Item
  <2>4. vault.byReplacement[pair[1]] = i
    BY <2>2, <2>3 DEF IInv, Sound, ReplacementsIndexed
  <2> QED
    BY <2>1, <2>2, <2>3, <2>4, NoItemAssumption
<1> QED
  BY <1>1, ConversationInductive, PTL

----------------------------------------------------------------------------
(* Budgets, references and what a turn leaves.                             *)

\* Only what can be restored has a token.
WellMade(v) == \A i \in v.items : i.restore <=> i.replacement \in Replacement

\* The turn sends an original in the clear only when the policy allowed it, and a
\* call is under way only when the guard found nothing else in the history.
SentIsApproved ==
    /\ sent \cap Original \subseteq approved
    /\ phase = "calling" =>
          ~ blocked /\ AtomsOf(history) \cap Original \subseteq approved

TurnInv ==
    /\ TypeOK
    /\ WellMade(vault) /\ WellMade(work)
    /\ Budgeted(vault) /\ Budgeted(work)
    /\ NothingKeptUnreferenced
    /\ SentIsApproved

\* A new item for o, within the budgets, enters the clone.
Grown(o) ==
    \E item \in Item \ work.items :
        /\ item \in {Irreversible(o)} \cup {Reversible(o, t) : t \in Replacement}
        /\ ~ Full(work, item)
        /\ work' = Added(work, item)

\* What one entity changes in a turn that goes on.
Masked(o) ==
    /\ UNCHANGED <<vault, history, phase, kind>>
    /\ phase = "masking"
    /\ masked' = masked + 1
    /\ work' = work \/ Grown(o)
    /\ \/ /\ blocked' = TRUE
          /\ UNCHANGED <<work, sent, wrote, approved>>
       \/ /\ "ALLOW" \in Actions
          /\ sent' = sent \cup {o}
          /\ approved' = approved \cup {o}
          /\ UNCHANGED <<work, wrote, blocked>>
       \/ /\ \E item \in work'.items :
                /\ item.original = o
                /\ sent' = sent \cup {item.replacement}
                /\ wrote' = IF item.restore THEN wrote \cup {<<item.replacement, o>>}
                            ELSE wrote
          /\ UNCHANGED <<approved, blocked>>

\* A new item enters the clone, or its refusal ends the turn.
LEMMA IssueOutcome ==
    ASSUME IInv, phase = "masking", UNCHANGED <<vault, history>>,
           NEW o \in Original,
           NEW item \in {Irreversible(o)} \cup {Reversible(o, t) : t \in Replacement},
           FindOriginal(work, o) = NoItem, Issue(o, item)
    PROVE  TurnOver \/ Masked(o)
<1>1. item \in Item /\ item.original = o
  <2>1. Irreversible(o) \in Item /\ Irreversible(o).original = o
    BY DEF Irreversible, Item
  <2>2. \A t \in Replacement : Reversible(o, t) \in Item /\ Reversible(o, t).original = o
    BY DEF Reversible, Item
  <2> QED
    BY <2>1, <2>2
<1>2. \A i \in work.items : i.original # o
  BY NoItemAssumption DEF IInv, Sound, Shaped, OriginalsIndexed, FindOriginal
<1>3. CASE ~ Refuses(work, item)
  <2>1. /\ Emit(o, item, Added(work, item))
        /\ masked' = masked + 1
        /\ UNCHANGED <<phase, kind>>
        /\ ~ Full(work, item)
    BY <1>1, <1>3 DEF Issue, Refuses, Add, FindOriginal
  <2>2. item \in work'.items /\ Grown(o)
    BY <1>1, <1>2, <2>1 DEF Emit, Added, Grown
  <2> QED
    BY <1>1, <2>1, <2>2 DEF Emit, Masked
<1> QED
  BY <1>3 DEF Issue

\* Masking one entity ends the turn, or changes its clone and message only.
LEMMA MaskEntityOutcome ==
    ASSUME IInv, NEW o \in Original, NEW action \in Actions, MaskEntity(o, action)
    PROVE  TurnOver \/ Masked(o)
<1>1. phase = "masking" /\ UNCHANGED <<vault, history>>
  BY DEF MaskEntity
<1>2. CASE action = "BLOCK"
  BY <1>1, <1>2 DEF MaskEntity, Masked
<1>3. CASE action = "ALLOW"
  BY <1>1, <1>3 DEF MaskEntity, Masked
<1>4. CASE /\ FindOriginal(work, o) # NoItem
           /\ Emit(o, FindOriginal(work, o), work)
           /\ masked' = masked + 1
           /\ UNCHANGED <<phase, kind>>
  <2>1. FindOriginal(work, o) \in work.items /\ FindOriginal(work, o).original = o
    BY <1>4 DEF FindOriginal, IInv, Sound, OriginalsIndexed
  <2> QED
    BY <1>1, <1>4, <2>1 DEF Emit, Masked
<1>5. ASSUME NEW item \in {Irreversible(o)} \cup {Reversible(o, t) : t \in Replacement},
             FindOriginal(work, o) = NoItem, Issue(o, item)
      PROVE  TurnOver \/ Masked(o)
  BY <1>1, <1>5, IssueOutcome
<1> QED
  BY <1>2, <1>3, <1>4, <1>5 DEF MaskEntity

LEMMA InitTurn == Init => TurnInv
<1>1. EmptyVault \in Vaults /\ WellMade(EmptyVault) /\ EmptyVault.items = {}
  BY DEF EmptyVault, Vaults, WellMade
<1> SUFFICES ASSUME Init PROVE TurnInv
  OBVIOUS
<1>2. TypeOK
  BY <1>1 DEF Init, TypeOK
<1>3. WellMade(vault) /\ WellMade(work) /\ Budgeted(vault) /\ Budgeted(work)
  BY <1>1, EmptyBudgeted DEF Init
<1>4. NothingKeptUnreferenced /\ SentIsApproved
  BY <1>1 DEF Init, NothingKeptUnreferenced, SentIsApproved
<1> QED
  BY <1>2, <1>3, <1>4 DEF TurnInv

\* Every exit that leaves the vault and the history alone.
LEMMA TurnOverKeepsTurn ==
    ASSUME TurnInv, TurnOver, UNCHANGED <<vault, history>>
    PROVE  TurnInv'
<1>1. EmptyVault \in Vaults /\ WellMade(EmptyVault)
  BY DEF EmptyVault, Vaults, WellMade
<1>2. /\ vault' = vault /\ history' = history /\ work' = EmptyVault
      /\ phase' = "idle" /\ kind' = "chat" /\ sent' = {} /\ wrote' = {}
      /\ approved' = {} /\ blocked' = FALSE /\ masked' = 0
  BY DEF TurnOver
<1>3. TypeOK'
  BY <1>1, <1>2 DEF TurnInv, TypeOK
<1>4. WellMade(vault)' /\ WellMade(work)' /\ Budgeted(vault)' /\ Budgeted(work)'
  BY <1>1, <1>2, EmptyBudgeted DEF TurnInv
<1>5. NothingKeptUnreferenced'
  BY <1>2 DEF TurnInv, NothingKeptUnreferenced, AtomsOf
<1>6. SentIsApproved'
  BY <1>2 DEF SentIsApproved
<1> QED
  BY <1>3, <1>4, <1>5, <1>6 DEF TurnInv

\* A new item within the budgets keeps the clone well made.
LEMMA GrownKeeps ==
    ASSUME TurnInv, NEW o \in Original, Grown(o)
    PROVE  work' \in Vaults /\ WellMade(work') /\ Budgeted(work')
<1>1. PICK item \in Item \ work.items :
          /\ item \in {Irreversible(o)} \cup {Reversible(o, t) : t \in Replacement}
          /\ ~ Full(work, item)
          /\ work' = Added(work, item)
  BY DEF Grown
<1>2. item.restore <=> item.replacement \in Replacement
  BY <1>1, VaultAssumption DEF Irreversible, Reversible
<1>3. /\ item.original \in Original
      /\ item.replacement \in Replacement \cup {Redacted}
      /\ Bytes[item.original] \in Nat
  BY VaultAssumption DEF Item
<1>4. work' \in Vaults
  BY <1>1, <1>3 DEF TurnInv, TypeOK, Vaults, Added
<1>5. WellMade(work')
  BY <1>1, <1>2 DEF TurnInv, WellMade, Added
<1>6. Budgeted(work')
  BY <1>1, AddBudgeted DEF TurnInv
<1> QED
  BY <1>4, <1>5, <1>6

\* An entity that was masked leaves the clone within its budgets.
LEMMA MaskedKeepsTurn ==
    ASSUME TurnInv, NEW o \in Original, Masked(o)
    PROVE  TurnInv'
<1>1. work' \in Vaults /\ WellMade(work') /\ Budgeted(work')
  BY GrownKeeps DEF Masked, TurnInv, TypeOK
<1>2. ASSUME NEW item \in work'.items
      PROVE  /\ item \in Item
             /\ item.replacement \in Replacement \cup {Redacted}
             /\ item.replacement \in Atom \ Original
             /\ item.restore => item.replacement \in Replacement
  BY <1>1, ConversationAssumption DEF Vaults, Item, WellMade, Atom, Readable
<1>3. /\ UNCHANGED <<vault, history, phase, kind>>
      /\ phase = "masking"
      /\ masked' = masked + 1
  BY DEF Masked
<1>4. /\ sent' \subseteq Atom
      /\ wrote' \subseteq Replacement \X Original
      /\ approved' \subseteq Original
      /\ blocked' \in BOOLEAN
      /\ sent' \cap Original \subseteq approved'
  <2>1. CASE blocked' = TRUE /\ UNCHANGED <<work, sent, wrote, approved>>
    BY <2>1 DEF TurnInv, TypeOK, SentIsApproved
  <2>2. CASE /\ sent' = sent \cup {o}
             /\ approved' = approved \cup {o}
             /\ UNCHANGED <<work, wrote, blocked>>
    BY <2>2 DEF TurnInv, TypeOK, SentIsApproved, Atom, Readable
  <2>3. ASSUME NEW item \in work'.items, item.original = o,
               sent' = sent \cup {item.replacement},
               wrote' = IF item.restore THEN wrote \cup {<<item.replacement, o>>}
                        ELSE wrote,
               UNCHANGED <<approved, blocked>>
        PROVE  /\ sent' \subseteq Atom
               /\ wrote' \subseteq Replacement \X Original
               /\ approved' \subseteq Original
               /\ blocked' \in BOOLEAN
               /\ sent' \cap Original \subseteq approved'
    <3>1. wrote' \subseteq Replacement \X Original
      BY <1>2, <2>3 DEF TurnInv, TypeOK
    <3> QED
      BY <1>2, <2>3, <3>1 DEF TurnInv, TypeOK, SentIsApproved
  <2> QED
    BY <2>1, <2>2, <2>3 DEF Masked
<1>5. TypeOK'
  BY <1>1, <1>3, <1>4 DEF TurnInv, TypeOK
<1>6. WellMade(vault)' /\ Budgeted(vault)' /\ WellMade(work)' /\ Budgeted(work)'
  BY <1>1, <1>3 DEF TurnInv
<1>7. NothingKeptUnreferenced'
  BY <1>3 DEF TurnInv, NothingKeptUnreferenced, AtomsOf
<1>8. SentIsApproved'
  BY <1>3, <1>4 DEF SentIsApproved
<1> QED
  BY <1>5, <1>6, <1>7, <1>8 DEF TurnInv

\* A copy of the vault is within the budgets, too.
LEMMA BeginKeepsTurn ==
    ASSUME TurnInv, Begin
    PROVE  TurnInv'
<1>1. /\ work' = vault /\ phase' = "masking" /\ kind' \in {"chat", "stream"}
      /\ UNCHANGED <<vault, history, sent, wrote, approved, blocked, masked>>
  BY ConversationAssumption DEF Begin
<1>2. TypeOK'
  BY <1>1 DEF TurnInv, TypeOK
<1> QED
  BY <1>1, <1>2 DEF TurnInv, SentIsApproved, NothingKeptUnreferenced, AtomsOf

\* What the guard lets through of the originals was allowed in this turn.
LEMMA WirePassKeepsTurn ==
    ASSUME TurnInv, WirePass
    PROVE  TurnInv'
<1>1. /\ phase' = "calling" /\ ~ blocked
      /\ UNCHANGED <<vault, history, turn>>
      /\ \A a \in AtomsOf(history) \cup sent : WireAccepts(a, work, approved)
  BY DEF WirePass
<1>2. \A a \in Original : WireAccepts(a, work, approved) => a \in approved
  BY ConversationAssumption DEF WireAccepts
<1>3. SentIsApproved'
  BY <1>1, <1>2 DEF TurnInv, SentIsApproved, AtomsOf
<1>4. TypeOK'
  BY <1>1 DEF TurnInv, TypeOK
<1>5. NothingKeptUnreferenced'
  BY <1>1 DEF TurnInv, NothingKeptUnreferenced, AtomsOf
<1> QED
  BY <1>1, <1>3, <1>4, <1>5 DEF TurnInv

\* What a commit keeps comes from the history, the turn and its answer.
Committed(atoms, kept) ==
    /\ atoms \subseteq Atom
    /\ kind = "stream" =>
          atoms \subseteq AtomsOf(history) \cup sent \cup {ForeignToken, ProviderPII}
                              \cup CodedTexts
    /\ kind = "chat" => atoms \subseteq ReversibleTokens(work) \cup {Redacted} \cup Unsendable
    /\ \A m \in kept :
          \/ m \in history
          \/ m = [role |-> "user", atoms |-> sent, wrote |-> wrote]
          \/ m = [role |-> "assistant", atoms |-> atoms, wrote |-> Meaning(atoms, work)]
    /\ history' = kept
    /\ vault' = Prune(work, AtomsOf(kept))

\* The messages that a commit keeps.
LEMMA CommitOutcome ==
    ASSUME TurnInv, Commit
    PROVE  \E atoms, kept : Committed(atoms, kept)
<1>1. PICK reply \in SUBSET Sayable :
           \E assistant \in AssistantMessages(reply) :
              LET said == {[role |-> "user", atoms |-> sent, wrote |-> wrote]} \cup assistant
              IN  \E kept \in SUBSET (history \cup said) :
                     /\ kept # {}
                     /\ Cardinality(kept) <= MaxMessages
                     /\ history' = kept
                     /\ vault' = Prune(work, AtomsOf(kept))
  BY DEF Commit
<1> DEFINE atoms == IF kind = "chat" THEN SanitizedForHistory(reply, work) ELSE reply
<1>2. PICK assistant \in {{}, {[role |-> "assistant", atoms |-> atoms,
                                wrote |-> Meaning(atoms, work)]}} :
           \E kept \in SUBSET (history \cup
                 {[role |-> "user", atoms |-> sent, wrote |-> wrote]} \cup assistant) :
              /\ history' = kept
              /\ vault' = Prune(work, AtomsOf(kept))
  BY <1>1 DEF AssistantMessages
<1>3. PICK kept \in SUBSET (history \cup
                 {[role |-> "user", atoms |-> sent, wrote |-> wrote]} \cup assistant) :
           /\ history' = kept
           /\ vault' = Prune(work, AtomsOf(kept))
  BY <1>2
<1>4. \A m \in kept :
          \/ m \in history
          \/ m = [role |-> "user", atoms |-> sent, wrote |-> wrote]
          \/ m = [role |-> "assistant", atoms |-> atoms, wrote |-> Meaning(atoms, work)]
  BY <1>2, <1>3
<1>5. reply \subseteq Atom
  <2>1. AtomsOf(history) \subseteq Atom
    BY DEF TurnInv, TypeOK, Message, AtomsOf
  <2>2. sent \subseteq Atom
    BY DEF TurnInv, TypeOK
  <2> QED
    BY <2>1, <2>2 DEF Sayable, Atom, Readable, Unsendable
<1>6. SanitizedForHistory(reply, work) \subseteq reply \cup {Redacted}
  BY DEF SanitizedForHistory
<1>7. SanitizedForHistory(reply, work) \subseteq
          ReversibleTokens(work) \cup {Redacted} \cup Unsendable
  BY DEF SanitizedForHistory
<1>8. atoms \subseteq Atom
  BY <1>5, <1>6 DEF Atom, Readable
<1>9. kind = "stream" =>
          atoms \subseteq AtomsOf(history) \cup sent \cup {ForeignToken, ProviderPII}
                              \cup CodedTexts
  BY <1>1 DEF Sayable
<1>10. kind = "chat" => atoms \subseteq ReversibleTokens(work) \cup {Redacted} \cup Unsendable
  BY <1>7
<1> HIDE DEF atoms
<1> QED
  BY <1>3, <1>4, <1>8, <1>9, <1>10 DEF Committed

\* A pruned clone is within the budgets and has nothing that nobody refers to.
LEMMA CommitKeepsTurn ==
    ASSUME TurnInv, Commit
    PROVE  TurnInv'
<1>1. PICK atoms, kept : Committed(atoms, kept)
  BY CommitOutcome
<1> DEFINE p == Prune(work, AtomsOf(kept))
<1>2. history' = kept /\ vault' = p
  BY <1>1 DEF Committed
<1>3. /\ p = [items |-> Retained(work, AtomsOf(kept)),
              byOriginal |-> ByOriginal(Retained(work, AtomsOf(kept))),
              byReplacement |-> ByReplacement(Retained(work, AtomsOf(kept))),
              bytes |-> BytesOf(Retained(work, AtomsOf(kept)))]
      /\ Retained(work, AtomsOf(kept)) \subseteq work.items
  BY DEF Prune, Retained
<1> HIDE DEF p
<1>4. Budgeted(p)
  BY PruneBudgeted DEF TurnInv, p
<1>5. p \in Vaults
  <2> DEFINE R == Retained(work, AtomsOf(kept))
  <2>1. R \subseteq Item
    BY <1>3 DEF TurnInv, Budgeted
  <2>2. BytesOf(R) \in Nat
    BY <1>3, <1>4, BytesStep DEF Budgeted
  <2> HIDE DEF R
  <2>3. /\ ByOriginal(R) \in [Original -> Item \cup {NoItem}]
        /\ ByReplacement(R) \in [Replacement \cup {Redacted} -> Item \cup {NoItem}]
    BY <2>1 DEF ByOriginal, ByReplacement
  <2> QED
    BY <1>3, <2>1, <2>2, <2>3 DEF Vaults, R
<1>6. WellMade(p)
  BY <1>3 DEF TurnInv, WellMade
<1>7. /\ work' = EmptyVault /\ phase' = "idle" /\ kind' = "chat"
      /\ sent' = {} /\ wrote' = {} /\ approved' = {} /\ blocked' = FALSE /\ masked' = 0
  BY DEF Commit, TurnOver
<1>8. EmptyVault \in Vaults /\ WellMade(EmptyVault)
  BY DEF EmptyVault, Vaults, WellMade
<1>9. kept \subseteq Message
  <2>1. Meaning(atoms, work) \subseteq Replacement \X Original
    BY DEF TurnInv, TypeOK, Vaults, Item, WellMade, Meaning
  <2>2. [role |-> "assistant", atoms |-> atoms, wrote |-> Meaning(atoms, work)] \in Message
    BY <1>1, <2>1 DEF Committed, Message
  <2>3. [role |-> "user", atoms |-> sent, wrote |-> wrote] \in Message
    BY DEF TurnInv, TypeOK, Message
  <2> QED
    BY <1>1, <2>2, <2>3 DEF Committed, TurnInv, TypeOK
<1>10. TypeOK'
  BY <1>2, <1>5, <1>7, <1>8, <1>9 DEF TypeOK
<1>11. WellMade(vault)' /\ WellMade(work)' /\ Budgeted(vault)' /\ Budgeted(work)'
  BY <1>2, <1>4, <1>6, <1>7, <1>8, EmptyBudgeted
<1>12. NothingKeptUnreferenced'
  BY <1>2, <1>3 DEF NothingKeptUnreferenced, Retained
<1>13. SentIsApproved'
  BY <1>7 DEF SentIsApproved
<1> QED
  BY <1>10, <1>11, <1>12, <1>13 DEF TurnInv

\* The budgets, the references and the approvals survive whatever is masked,
\* refused, sent, answered or trimmed.
THEOREM TurnInductive == Spec => [](IInv /\ TurnInv)
<1>1. IInv /\ TurnInv /\ [Next]_vars => TurnInv'
  <2> SUFFICES ASSUME IInv, TurnInv, [Next]_vars PROVE TurnInv'
    OBVIOUS
  <2>1. CASE Begin
    BY <2>1, BeginKeepsTurn
  <2>2. ASSUME NEW o \in Original, NEW a \in Actions, MaskEntity(o, a) PROVE TurnInv'
    BY <2>2, MaskEntityOutcome, TurnOverKeepsTurn, MaskedKeepsTurn DEF MaskEntity
  <2>3. CASE Blocked \/ WireReject \/ ProviderFails
    BY <2>3, TurnOverKeepsTurn DEF Blocked, WireReject, ProviderFails
  <2>4. CASE WirePass
    BY <2>4, WirePassKeepsTurn
  <2>5. CASE Commit
    BY <2>5, CommitKeepsTurn
  <2>6. CASE UNCHANGED vars
    <3>1. TypeOK'
      BY <2>6 DEF vars, TurnInv, TypeOK
    <3>2. WellMade(vault)' /\ WellMade(work)' /\ Budgeted(vault)' /\ Budgeted(work)'
      BY <2>6 DEF vars, TurnInv
    <3> QED
      BY <2>6, <3>1, <3>2
         DEF vars, TurnInv, NothingKeptUnreferenced, SentIsApproved, AtomsOf
  <2> QED
    BY <2>1, <2>2, <2>3, <2>4, <2>5, <2>6 DEF Next
<1> QED
  BY <1>1, InitTurn, ConversationInductive, PTL DEF Spec

\* Every variable keeps its type (run conversation checks it on an instance).
THEOREM ConversationTypeOK == Spec => []TypeOK
<1>1. TurnInv => TypeOK
  BY DEF TurnInv
<1> QED
  BY <1>1, TurnInductive, PTL

\* The committed vault and the clone of a turn never exceed their budgets, the
\* running byte count is the sum over the items, and between turns nothing is
\* kept that the history does not mention.
THEOREM WithinBudget == Spec => []VaultsHoldNoMoreThanTheyMay
<1>1. TurnInv => VaultsHoldNoMoreThanTheyMay
  BY DEF TurnInv, VaultsHoldNoMoreThanTheyMay, VaultsWithinBudget, Budgeted
<1> QED
  BY <1>1, TurnInductive, PTL

\* A refused or failed turn leaves no trace, and a committed one puts no original
\* into the history that the policy did not allow in this very turn.
THEOREM NoTrace == Spec => OnlySuccessfulTurnsLeaveATrace
<1>1. ASSUME IInv, TurnInv, [Next]_vars, <<vault, history>>' # <<vault, history>>
      PROVE  Commit
  <2>1. ASSUME NEW o \in Original, NEW a \in Actions, MaskEntity(o, a)
        PROVE  FALSE
    BY <1>1, <2>1 DEF MaskEntity
  <2> QED
    BY <1>1, <2>1 DEF Next, Begin, Blocked, WirePass, WireReject, ProviderFails, vars
<1>2. ASSUME TurnInv, Commit
      PROVE  /\ phase = "calling"
             /\ ~ blocked
             /\ \A m \in history' \ history : m.atoms \cap Original \subseteq approved
  <2>1. phase = "calling"
    BY <1>2 DEF Commit
  <2>2. /\ ~ blocked
        /\ (AtomsOf(history) \cup sent) \cap Original \subseteq approved
    BY <1>2, <2>1 DEF TurnInv, SentIsApproved
  <2>3. PICK atoms, kept : Committed(atoms, kept)
    BY <1>2, CommitOutcome
  <2>4. atoms \cap Original \subseteq approved
    <3>0. Unsendable \cap Original = {} /\ CodedTexts \subseteq Unsendable
      BY ConversationAssumption DEF Readable, Unsendable
    <3>1. CASE kind = "chat"
      <4>1. ReversibleTokens(work) \subseteq Replacement
        BY <1>2 DEF TurnInv, WellMade, ReversibleTokens
      <4> QED
        BY <2>3, <3>0, <3>1, <4>1, ConversationAssumption DEF Committed
    <3>2. CASE kind = "stream"
      BY <2>2, <2>3, <3>0, <3>2, ConversationAssumption DEF Committed
    <3> QED
      BY <1>2, <3>1, <3>2 DEF TurnInv, TypeOK
  <2>5. ASSUME NEW m \in history' \ history
        PROVE  m.atoms \cap Original \subseteq approved
    <3>1. m.atoms = sent \/ m.atoms = atoms
      BY <2>3, <2>5 DEF Committed
    <3> QED
      BY <2>2, <2>4, <3>1
  <2> QED
    BY <2>1, <2>2, <2>5
<1>3. IInv /\ TurnInv /\ [Next]_vars =>
          [<<vault, history>>' # <<vault, history>> =>
              /\ phase = "calling"
              /\ ~ blocked
              /\ \A m \in history' \ history :
                    m.atoms \cap Original \subseteq approved]_vars
  BY <1>1, <1>2
<1> QED
  BY <1>3, TurnInductive, PTL DEF Spec, OnlySuccessfulTurnsLeaveATrace

----------------------------------------------------------------------------
(* The history stays fit. *)

\* All that the atoms say can be restored from the vault.
Named(atoms, v) == atoms \subseteq ReversibleTokens(v) \cup {Redacted}

\* What the turn sends, it has issued or was allowed; between turns that is nothing.
SentIsNamed ==
    /\ Named(sent \ approved, work)
    /\ phase = "idle" => sent = {}

\* Masking an entity sends what the clone has, or what was allowed.
LEMMA MaskedKeepsNames ==
    ASSUME TurnInv, SentIsNamed, NEW o \in Original, Masked(o)
    PROVE  SentIsNamed'
<1>1. work.items \subseteq work'.items
  BY DEF Masked, Grown, Added
<1>2. ReversibleTokens(work) \subseteq ReversibleTokens(work')
  BY <1>1 DEF ReversibleTokens
<1>3. approved \subseteq approved'
  BY DEF Masked
<1>4. ASSUME NEW item \in work'.items
      PROVE  item.replacement \in ReversibleTokens(work') \cup {Redacted}
  <2>1. WellMade(work') /\ work' \in Vaults
    BY MaskedKeepsTurn DEF TurnInv, TypeOK
  <2> QED
    BY <1>4, <2>1 DEF WellMade, Vaults, Item, ReversibleTokens
<1>5. \/ sent' \subseteq sent \cup approved'
      \/ \E item \in work'.items : sent' = sent \cup {item.replacement}
  BY DEF Masked
<1>6. sent \ approved' \subseteq ReversibleTokens(work') \cup {Redacted}
  BY <1>2, <1>3 DEF SentIsNamed, Named
<1>7. sent' \ approved' \subseteq ReversibleTokens(work') \cup {Redacted}
  BY <1>4, <1>5, <1>6
<1> QED
  BY <1>7 DEF Masked, SentIsNamed, Named, ReversibleTokens

\* Everything a turn sends in place of an original is in its clone.
LEMMA NamesInductive == Spec => []SentIsNamed
<1>1. Init => SentIsNamed
  BY DEF Init, SentIsNamed, Named
<1>2. TurnOver => SentIsNamed'
  BY DEF TurnOver, SentIsNamed, Named
<1>3. IInv /\ TurnInv /\ SentIsNamed /\ [Next]_vars => SentIsNamed'
  <2> SUFFICES ASSUME IInv, TurnInv, SentIsNamed, [Next]_vars PROVE SentIsNamed'
    OBVIOUS
  <2>1. CASE Begin
    BY <2>1 DEF Begin, SentIsNamed, Named
  <2>2. ASSUME NEW o \in Original, NEW a \in Actions, MaskEntity(o, a)
        PROVE  SentIsNamed'
    BY <1>2, <2>2, MaskEntityOutcome, MaskedKeepsNames
  <2>3. CASE WirePass \/ UNCHANGED vars
    BY <2>3 DEF WirePass, vars, SentIsNamed, Named, ReversibleTokens
  <2> QED
    BY <1>2, <2>1, <2>2, <2>3 DEF Next, Blocked, WireReject, ProviderFails, Commit
<1> QED
  BY <1>1, <1>3, TurnInductive, PTL DEF Spec

\* A history is fit when the vault can restore everything in it that is not odd
\* or coded.
LEMMA FitIsNamed ==
    ASSUME TurnInv
    PROVE  HistoryIsFit <=> Named(AtomsOf(history) \ Unsendable, vault)
<1>1. \A i \in vault.items : i.restore <=> i.replacement \in Replacement
  BY DEF TurnInv, WellMade
<1>2. \A a \in Replacement : WireAccepts(a, vault, {}) <=> a \in ReversibleTokens(vault)
  BY <1>1, VaultAssumption DEF WireAccepts, ReversibleTokens
<1>3. ReversibleTokens(vault) \subseteq Replacement
  BY <1>1 DEF ReversibleTokens
<1>4. WireAccepts(Redacted, vault, {})
  BY DEF WireAccepts
<1> QED
  BY <1>2, <1>3, <1>4 DEF HistoryIsFit, HistoryProviderSafe, Named

\* The commit of such a turn.
LEMMA CommitStaysFit ==
    ASSUME IInv, TurnInv, TurnInv', SentIsNamed, Commit,
           kind = "chat", approved = {}, HistoryIsFit
    PROVE  HistoryIsFit'
<1>1. PICK atoms, kept : Committed(atoms, kept)
  BY CommitOutcome
<1>2. phase = "calling"
  BY DEF Commit
<1>3. AtomsOf(history) \ Unsendable \subseteq ReversibleTokens(work) \cup {Redacted}
  BY <1>2, FitIsNamed DEF IInv, CloneGrows, Named, ReversibleTokens
<1>4. sent \subseteq ReversibleTokens(work) \cup {Redacted}
  BY DEF SentIsNamed, Named
<1>5. AtomsOf(kept) \ Unsendable \subseteq ReversibleTokens(work) \cup {Redacted}
  <2> SUFFICES ASSUME NEW m \in kept
               PROVE  m.atoms \ Unsendable \subseteq ReversibleTokens(work) \cup {Redacted}
    BY DEF AtomsOf
  <2>1. \/ m \in history
        \/ m.atoms = sent
        \/ m.atoms = atoms
    BY <1>1 DEF Committed
  <2>2. m \in history => m.atoms \subseteq AtomsOf(history)
    BY DEF AtomsOf
  <2> QED
    BY <1>1, <1>3, <1>4, <2>1, <2>2 DEF Committed
<1>6. ReversibleTokens(work) \cap AtomsOf(kept) \subseteq
          ReversibleTokens(Prune(work, AtomsOf(kept)))
  BY DEF ReversibleTokens, Prune, Retained
<1>7. Named(AtomsOf(history') \ Unsendable, vault')
  BY <1>1, <1>5, <1>6 DEF Committed, Named
<1>8. TurnInv' => (HistoryIsFit' <=> Named(AtomsOf(history) \ Unsendable, vault)')
  BY FitIsNamed, PTL
<1> QED
  BY <1>7, <1>8 DEF Named, AtomsOf, ReversibleTokens

\* The guards accept nothing odd or coded, not even when it was allowed.
LEMMA UnsendableIsRefused ==
    ASSUME NEW a \in Unsendable, NEW v
    PROVE  ~ WireAccepts(a, v, {})
  BY ConversationAssumption DEF Readable, WireAccepts

\* What makes a history unsendable came in with the answer.
LEMMA CommitBlames ==
    ASSUME IInv, TurnInv, SentIsNamed, Commit, kind = "chat", approved = {},
           HistoryIsFit', HistoryStaysSendable, ~ HistoryStaysSendable'
    PROVE  \E m \in history' \ history :
               m.role = "assistant" /\ m.atoms \cap Unsendable # {}
<1>1. PICK atoms, kept : Committed(atoms, kept)
  BY CommitOutcome
<1>2. PICK a \in AtomsOf(history') : ~ WireAccepts(a, vault', {})
  BY DEF HistoryStaysSendable, AtomsOf, WireAccepts
<1>3. a \in Unsendable
  BY <1>2 DEF HistoryIsFit, AtomsOf, WireAccepts
<1>4. PICK m \in history' : a \in m.atoms
  BY <1>2 DEF AtomsOf
<1>5. m \notin history
  BY <1>3, <1>4, UnsendableIsRefused DEF HistoryStaysSendable, AtomsOf
<1>6. m # [role |-> "user", atoms |-> sent, wrote |-> wrote]
  <2>1. ReversibleTokens(work) \subseteq Replacement
    BY DEF TurnInv, WellMade, ReversibleTokens
  <2>2. sent \subseteq Replacement \cup {Redacted}
    BY <2>1 DEF SentIsNamed, Named
  <2> QED
    BY <1>3, <1>4, <2>2, ConversationAssumption DEF Readable
<1>7. m = [role |-> "assistant", atoms |-> atoms, wrote |-> Meaning(atoms, work)]
  BY <1>1, <1>4, <1>5, <1>6 DEF Committed
<1> QED
  BY <1>3, <1>4, <1>5, <1>7

\* A chat turn in which the policy allowed nothing leaves a fit history fit: no
\* original in the clear, no token that nobody issued, no data of the provider
\* that a detector reads, and nothing that makes a later turn fail at the guards
\* but an odd shape or a coded text, which then came in with the answer.
THEOREM StaysFit == Spec => ChatTurnsKeepHistoryFit
<1> DEFINE Blamed ==
        HistoryStaysSendable /\ ~ HistoryStaysSendable' =>
            \E m \in history' \ history :
                m.role = "assistant" /\ m.atoms \cap Unsendable # {}
<1>1. ASSUME IInv, TurnInv, TurnInv', SentIsNamed, [Next]_vars,
             kind = "chat", approved = {}, HistoryIsFit
      PROVE  HistoryIsFit' /\ Blamed
  <2>1. CASE UNCHANGED <<vault, history>>
    BY <1>1, <2>1 DEF HistoryIsFit, HistoryProviderSafe, HistoryStaysSendable,
                      WireAccepts, AtomsOf
  <2>2. CASE Commit
    <3>1. HistoryIsFit'
      BY <1>1, <2>2, CommitStaysFit
    <3> QED
      BY <1>1, <2>2, <3>1, CommitBlames
  <2>3. Commit \/ UNCHANGED <<vault, history>>
    BY <1>1 DEF Next, Begin, MaskEntity, Blocked, WirePass, WireReject,
                ProviderFails, vars
  <2> QED
    BY <2>1, <2>2, <2>3
<1>2. IInv /\ TurnInv /\ TurnInv' /\ SentIsNamed /\ [Next]_vars =>
          [kind = "chat" /\ approved = {} /\ HistoryIsFit => HistoryIsFit' /\ Blamed]_vars
  BY <1>1
<1> QED
  BY <1>2, TurnInductive, NamesInductive, PTL DEF Spec, ChatTurnsKeepHistoryFit

\* Hence in a deployment that never allows a value and never streams the history
\* is fit at any time: nothing readable in it is unsafe to keep, and only an odd
\* shape or a coded text can keep it from being sent.
Closed == Kinds \subseteq {"chat"} /\ "ALLOW" \notin Actions

THEOREM ClosedIsFit ==
    ASSUME Closed
    PROVE  Spec => []HistoryIsFit
<1> DEFINE Only == kind = "chat" /\ approved = {}
<1>1. Init => Only /\ HistoryIsFit
  BY DEF Init, HistoryIsFit, HistoryProviderSafe, AtomsOf
<1>2. IInv /\ Only /\ [Next]_vars => Only'
  <2> SUFFICES ASSUME IInv, Only, [Next]_vars PROVE Only'
    OBVIOUS
  <2>1. TurnOver => Only'
    BY DEF TurnOver
  <2>2. ASSUME NEW o \in Original, NEW a \in Actions, MaskEntity(o, a) PROVE Only'
    BY <2>1, <2>2, MaskEntityOutcome DEF Masked, Closed
  <2> QED
    BY <2>1, <2>2 DEF Next, Begin, Blocked, WirePass, WireReject, ProviderFails, Commit,
                      vars, Closed
<1>3. IInv /\ TurnInv /\ TurnInv' /\ SentIsNamed /\ Only /\ HistoryIsFit /\ [Next]_vars =>
          HistoryIsFit'
  <2> SUFFICES ASSUME IInv, TurnInv, TurnInv', SentIsNamed, Only, HistoryIsFit, [Next]_vars
               PROVE  HistoryIsFit'
    OBVIOUS
  <2>1. CASE UNCHANGED <<vault, history>>
    BY <2>1 DEF HistoryIsFit, HistoryProviderSafe, WireAccepts, AtomsOf
  <2>2. CASE Commit
    BY <2>2, CommitStaysFit
  <2>3. Commit \/ UNCHANGED <<vault, history>>
    BY DEF Next, Begin, MaskEntity, Blocked, WirePass, WireReject, ProviderFails, vars
  <2> QED
    BY <2>1, <2>2, <2>3
<1> QED
  BY <1>1, <1>2, <1>3, TurnInductive, NamesInductive, PTL DEF Spec
=============================================================================
