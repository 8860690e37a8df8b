---------------------------- MODULE AdapterProofs ----------------------------
(***************************************************************************)
(* Proofs about ProviderAdapters and ProviderStreams: an accepted request  *)
(* reaches the provider readable and complete, with everybody's words in   *)
(* their own mouth, and takes no state, tool or field to a provider it was *)
(* not meant for; and what a provider streams can be put together again.   *)
(*                                                                         *)
(* The adapters put lists together with FlattenSeq, so the first part is   *)
(* about lists of lists (Bind); then come the adapters, one after the      *)
(* other, the requests on their way, and the events of streamed answers.   *)
(***************************************************************************)
EXTENDS ProviderAdapters, ProviderStreams, Induction, FiniteSetTheorems

-----------------------------------------------------------------------------
(* Lists put together. *)

\* The function that FlattenSeq chooses to put the first n sequences together.
Flatten(s) == CHOOSE f : f = [i \in 1 .. Len(s) |-> IF i = 1 THEN s[i] ELSE f[i - 1] \o s[i]]

\* Sequences of sequences of E are put together one after the other.
LEMMA FlattenedSteps ==
    ASSUME NEW E, NEW s \in Seq(Seq(E)), Len(s) # 0
    PROVE  /\ Flatten(s) \in [1 .. Len(s) -> Seq(E)]
           /\ Flatten(s)[1] = s[1]
           /\ \A i \in 2 .. Len(s) : Flatten(s)[i] = Flatten(s)[i - 1] \o s[i]
<1> DEFINE N == Len(s)
           V == Seq(E)
           step == [i \in 1 .. N |-> [v \in V |-> v \o s[i]]]
           base == <<>>
<1>1. N \in Nat /\ base \in V /\ \A i \in 1 .. N : s[i] \in V
  OBVIOUS
<1>2. step \in [1 .. N -> [V -> V]]
  BY <1>1
<1>3. \A i \in 1 .. N : \A v \in V : step[i][v] = v \o s[i]
  OBVIOUS
<1> HIDE DEF V, step, base
<1>4. PICK f : Follows(f, V, base, N, step)
  BY <1>1, <1>2, Recursion
<1>5. f \in [0 .. N -> V] /\ f[0] = base
  BY <1>4 DEF Follows
<1>6. ASSUME NEW i \in 1 .. N PROVE f[i] = f[i - 1] \o s[i] /\ f[i] \in V /\ f[i - 1] \in V
  <2>1. i - 1 \in 0 .. N /\ i \in 0 .. N
    OBVIOUS
  <2> QED
    BY <1>3, <1>4, <1>5, <2>1 DEF Follows
<1> DEFINE g == [i \in 1 .. N |-> f[i]]
<1>7. g = [i \in 1 .. N |-> IF i = 1 THEN s[i] ELSE g[i - 1] \o s[i]]
  <2> SUFFICES ASSUME NEW i \in 1 .. N PROVE f[i] = IF i = 1 THEN s[i] ELSE g[i - 1] \o s[i]
    OBVIOUS
  <2>1. CASE i = 1
    <3>1. f[i] = f[0] \o s[i] /\ s[i] \in Seq(E)
      <4>1. i - 1 = 0
        BY <2>1
      <4> QED
        BY <1>1, <1>6, <4>1 DEF V
    <3>2. f[0] = <<>>
      BY <1>5 DEF base
    <3>3. <<>> \o s[i] = s[i]
      BY <3>1
    <3>4. f[i] = s[i]
      BY <3>1, <3>2, <3>3
    <3> QED
      BY <2>1, <3>4
  <2>2. CASE i # 1
    <3>1. i - 1 \in 1 .. N
      BY <2>2
    <3>2. g[i - 1] = f[i - 1]
      BY <3>1
    <3> QED
      BY <1>6, <2>2, <3>2
  <2> QED
    BY <2>1, <2>2
<1> DEFINE F == Flatten(s)
<1> HIDE DEF g
<1>8. F = [i \in 1 .. N |-> IF i = 1 THEN s[i] ELSE F[i - 1] \o s[i]]
  BY <1>7 DEF Flatten
<1> HIDE DEF F
<1> DEFINE S == {m \in Nat : m + 1 <= N => F[m + 1] \in V}
<1>9. 0 \in S
  BY <1>1, <1>8
<1>10. ASSUME NEW m \in Nat, m \in S PROVE m + 1 \in S
  <2> SUFFICES ASSUME (m + 1) + 1 <= N PROVE F[(m + 1) + 1] \in V
    OBVIOUS
  <2>1. F[m + 1] \in V
    BY <1>1, <1>10
  <2>2. (m + 1) + 1 \in 1 .. N /\ (m + 1) + 1 # 1 /\ ((m + 1) + 1) - 1 = m + 1
    BY <1>1
  <2>3. F[(m + 1) + 1] = F[m + 1] \o s[(m + 1) + 1]
    BY <1>8, <2>2
  <2> QED
    BY <1>1, <2>1, <2>2, <2>3 DEF V
<1> HIDE DEF S
<1>11. Nat \subseteq S
  BY <1>9, <1>10, NaturalsByInduction
<1>12. ASSUME NEW i \in 1 .. N PROVE F[i] \in V
  <2>1. i - 1 \in Nat /\ (i - 1) + 1 = i /\ (i - 1) + 1 <= N
    BY <1>1
  <2>2. i - 1 \in S
    BY <1>11, <2>1
  <2>3. F[(i - 1) + 1] \in V
    BY <2>1, <2>2 DEF S
  <2> QED
    BY <2>1, <2>3
<1>13. F \in [1 .. N -> V]
  <2> DEFINE h == [i \in 1 .. N |-> F[i]]
  <2>1. h \in [1 .. N -> V]
    BY <1>12
  <2>2. F = h
    BY <1>8, Zenon
  <2> HIDE DEF h
  <2> QED
    BY <2>1, <2>2
<1>14. F[1] = s[1]
  BY <1>1, <1>8
<1>15. ASSUME NEW i \in 2 .. N PROVE F[i] = F[i - 1] \o s[i]
  <2>1. i \in 1 .. N /\ i # 1
    BY <1>1
  <2> QED
    BY <1>8, <2>1
<1> QED
  BY <1>13, <1>14, <1>15 DEF F, V

LEMMA FlattenIsTheLast ==
    ASSUME NEW s, Len(s) # 0
    PROVE  FlattenSeq(s) = Flatten(s)[Len(s)]
BY DEF FlattenSeq, Flatten

LEMMA FlattenEmpty == FlattenSeq(<<>>) = <<>>
BY DEF FlattenSeq

LEMMA FlattenType ==
    ASSUME NEW E, NEW s \in Seq(Seq(E))
    PROVE  FlattenSeq(s) \in Seq(E)
<1>1. CASE Len(s) = 0
  <2>1. s = <<>>
    BY <1>1
  <2>2. <<>> \in Seq(E)
    OBVIOUS
  <2> QED
    BY <2>1, <2>2, FlattenEmpty
<1>2. CASE Len(s) # 0
  <2>1. Flatten(s) \in [1 .. Len(s) -> Seq(E)]
    BY <1>2, FlattenedSteps
  <2>2. Len(s) \in 1 .. Len(s)
    BY <1>2
  <2> QED
    BY <1>2, <2>1, <2>2, FlattenIsTheLast
<1> QED
  BY <1>1, <1>2

\* The sequences that two lists begin with come to the same.
LEMMA FlattenedPrefix ==
    ASSUME NEW E, NEW s \in Seq(Seq(E)), NEW x \in Seq(E), Len(s) # 0
    PROVE  \A i \in 1 .. Len(s) : Flatten(Append(s, x))[i] = Flatten(s)[i]
<1> DEFINE N == Len(s)
           t == Append(s, x)
           F == Flatten(s)
           G == Flatten(t)
           S == {m \in Nat : m + 1 <= N => G[m + 1] = F[m + 1]}
<1>1. t \in Seq(Seq(E)) /\ Len(t) = N + 1 /\ N \in Nat \ {0}
  OBVIOUS
<1>2. \A i \in 1 .. N : t[i] = s[i]
  OBVIOUS
<1> HIDE DEF t
<1>3. F[1] = s[1] /\ \A i \in 2 .. N : F[i] = F[i - 1] \o s[i]
  BY FlattenedSteps
<1>4. G[1] = t[1] /\ \A i \in 2 .. Len(t) : G[i] = G[i - 1] \o t[i]
  <2>1. Len(t) # 0
    BY <1>1
  <2> QED
    BY <1>1, <2>1, FlattenedSteps
<1> HIDE DEF F, G
<1>5. 0 \in S
  <2>1. 1 \in 1 .. N
    BY <1>1
  <2> QED
    BY <1>2, <1>3, <1>4, <2>1
<1>6. ASSUME NEW m \in Nat, m \in S PROVE m + 1 \in S
  <2> SUFFICES ASSUME (m + 1) + 1 <= N PROVE G[(m + 1) + 1] = F[(m + 1) + 1]
    OBVIOUS
  <2> DEFINE i == (m + 1) + 1
  <2>1. G[m + 1] = F[m + 1]
    BY <1>1, <1>6
  <2>2. i \in 2 .. N /\ i \in 1 .. N /\ i \in 2 .. Len(t) /\ i - 1 = m + 1
    BY <1>1
  <2> HIDE DEF i
  <2>3. F[i] = F[i - 1] \o s[i] /\ G[i] = G[i - 1] \o t[i] /\ t[i] = s[i]
    BY <1>2, <1>3, <1>4, <2>2
  <2>4. F[i] = G[i]
    BY <2>1, <2>2, <2>3
  <2> QED
    BY <2>4 DEF i
<1> HIDE DEF S
<1>7. Nat \subseteq S
  BY <1>5, <1>6, NaturalsByInduction
<1>8. ASSUME NEW i \in 1 .. N PROVE G[i] = F[i]
  <2>1. i - 1 \in Nat /\ (i - 1) + 1 = i /\ (i - 1) + 1 <= N
    BY <1>1
  <2>2. i - 1 \in S
    BY <1>7, <2>1
  <2>3. G[(i - 1) + 1] = F[(i - 1) + 1]
    BY <2>1, <2>2 DEF S
  <2> QED
    BY <2>1, <2>3
<1> QED
  BY <1>8 DEF F, G, t, N

LEMMA FlattenAppend ==
    ASSUME NEW E, NEW s \in Seq(Seq(E)), NEW x \in Seq(E)
    PROVE  FlattenSeq(Append(s, x)) = FlattenSeq(s) \o x
<1> DEFINE t == Append(s, x)
           N == Len(t)
<1>1. t \in Seq(Seq(E)) /\ N = Len(s) + 1 /\ N \in Nat \ {0} /\ t[N] = x
  OBVIOUS
<1> HIDE DEF t
<1>2. N # 0
  BY <1>1
<1>3. FlattenSeq(t) = Flatten(t)[N]
  BY <1>2, FlattenIsTheLast
<1>4. Flatten(t)[1] = t[1] /\ \A i \in 2 .. N : Flatten(t)[i] = Flatten(t)[i - 1] \o t[i]
  BY <1>1, <1>2, FlattenedSteps
<1>5. CASE Len(s) = 0
  <2>1. s = <<>> /\ N = 1
    BY <1>1, <1>5
  <2>2. FlattenSeq(s) = <<>>
    BY <2>1, FlattenEmpty
  <2>3. FlattenSeq(t) = x
    BY <1>1, <1>3, <1>4, <2>1
  <2>4. <<>> \o x = x
    OBVIOUS
  <2> QED
    BY <2>2, <2>3, <2>4 DEF t
<1>6. CASE Len(s) # 0
  <2>1. N \in 2 .. N /\ N - 1 = Len(s) /\ Len(s) \in 1 .. Len(s)
    BY <1>1, <1>6
  <2>2. Flatten(t)[N] = Flatten(t)[Len(s)] \o x
    BY <1>1, <1>4, <2>1
  <2>3. Flatten(t)[Len(s)] = Flatten(s)[Len(s)]
    BY <1>6, <2>1, FlattenedPrefix DEF t
  <2>4. FlattenSeq(s) = Flatten(s)[Len(s)]
    BY <1>6, FlattenIsTheLast
  <2> QED
    BY <1>3, <2>2, <2>3, <2>4 DEF t
<1> QED
  BY <1>5, <1>6

-----------------------------------------------------------------------------
(* Lists of lists. *)

Lists(s) == IsList(s) /\ \A i \in DOMAIN s : IsList(s[i])

LEMMA AList == ASSUME NEW E, NEW s \in Seq(E) PROVE IsList(s)
<1>1. \A i \in DOMAIN s : s[i] \in ToSet(s)
  BY DEF ToSet
<1>2. DOMAIN s = 1 .. Len(s) /\ Len(s) \in Nat /\ s \in [1 .. Len(s) -> E]
  OBVIOUS
<1> DEFINE T == ToSet(s)
<1> HIDE DEF T
<1>3. s \in [1 .. Len(s) -> T]
  BY <1>1, <1>2 DEF T
<1>4. s \in Seq(T)
  BY <1>2, <1>3
<1> QED
  BY <1>4 DEF IsList, T

LEMMA ListFacts ==
    ASSUME NEW s, IsList(s)
    PROVE  /\ s \in Seq(ToSet(s)) /\ Len(s) \in Nat /\ DOMAIN s = 1 .. Len(s)
           /\ \A i \in DOMAIN s : s[i] \in ToSet(s)
           /\ \A x \in ToSet(s) : \E i \in DOMAIN s : x = s[i]
<1>1. s \in Seq(ToSet(s))
  BY DEF IsList
<1>2. (\A i \in DOMAIN s : s[i] \in ToSet(s)) /\ \A x \in ToSet(s) : \E i \in DOMAIN s : x = s[i]
  BY DEF ToSet
<1> QED
  BY <1>1, <1>2

\* A function of the first numbers is a list.
LEMMA ListOfValues ==
    ASSUME NEW n \in Nat, NEW s, s = [i \in 1 .. n |-> s[i]]
    PROVE  IsList(s) /\ Len(s) = n
<1> DEFINE T == ToSet(s)
<1>1. \A i \in 1 .. n : s[i] \in T
  BY DEF ToSet
<1> HIDE DEF T
<1>2. s \in [1 .. n -> T]
  BY <1>1
<1>3. s \in Seq(T) /\ Len(s) = n
  BY <1>2
<1> QED
  BY <1>3 DEF IsList, T

LEMMA Members ==
    ASSUME NEW E, NEW s \in Seq(E)
    PROVE  ToSet(s) \subseteq E
BY DEF ToSet

LEMMA SmallLists ==
    /\ IsList(<<>>) /\ ToSet(<<>>) = {}
    /\ \A x : IsList(<<x>>) /\ ToSet(<<x>>) = {x}
<1>1. IsList(<<>>)
  <2>1. <<>> \in Seq({})
    OBVIOUS
  <2> QED
    BY <2>1, AList
<1>2. ToSet(<<>>) = {}
  BY DEF ToSet
<1>3. ASSUME NEW x PROVE IsList(<<x>>) /\ ToSet(<<x>>) = {x}
  <2>1. <<x>> \in Seq({x})
    OBVIOUS
  <2>2. IsList(<<x>>)
    BY <2>1, AList
  <2>3. DOMAIN <<x>> = {1} /\ <<x>>[1] = x
    OBVIOUS
  <2>4. ToSet(<<x>>) = {<<x>>[i] : i \in DOMAIN <<x>>}
    BY DEF ToSet
  <2>5. ToSet(<<x>>) = {x}
    BY <2>3, <2>4
  <2> QED
    BY <2>2, <2>5
<1> QED
  BY <1>1, <1>2, <1>3

LEMMA JoinedList ==
    ASSUME NEW s, NEW t, IsList(s), IsList(t)
    PROVE  IsList(s \o t) /\ ToSet(s \o t) = ToSet(s) \cup ToSet(t)
<1> DEFINE E == ToSet(s) \cup ToSet(t)
<1>1. s \in Seq(E) /\ t \in Seq(E)
  <2>1. s \in Seq(ToSet(s)) /\ t \in Seq(ToSet(t))
    BY DEF IsList
  <2>2. ToSet(s) \subseteq E /\ ToSet(t) \subseteq E
    OBVIOUS
  <2> QED
    BY <2>1, <2>2, SeqMonotonic
<1>2. s \o t \in Seq(E)
  BY <1>1
<1>3. Len(s \o t) = Len(s) + Len(t) /\ Len(s) \in Nat /\ Len(t) \in Nat
      /\ DOMAIN s = 1 .. Len(s) /\ DOMAIN t = 1 .. Len(t) /\ DOMAIN (s \o t) = 1 .. Len(s \o t)
  BY <1>1, <1>2
<1> HIDE DEF E
<1>4. \A i \in 1 .. Len(s) : (s \o t)[i] = s[i]
  BY <1>1
<1>5. \A i \in 1 .. Len(t) : (s \o t)[Len(s) + i] = t[i]
  BY <1>1
<1>6. ToSet(s \o t) \subseteq E
  BY <1>2, Members
<1>7. ASSUME NEW x \in E PROVE x \in ToSet(s \o t)
  <2>1. CASE x \in ToSet(s)
    <3>1. PICK i \in DOMAIN s : x = s[i]
      BY <2>1, ListFacts
    <3>2. i \in DOMAIN (s \o t) /\ (s \o t)[i] = x
      BY <1>3, <1>4, <3>1
    <3> QED
      BY <3>2 DEF ToSet
  <2>2. CASE x \in ToSet(t)
    <3>1. PICK i \in DOMAIN t : x = t[i]
      BY <2>2, ListFacts
    <3>2. Len(s) + i \in DOMAIN (s \o t) /\ (s \o t)[Len(s) + i] = x
      BY <1>3, <1>5, <3>1
    <3> QED
      BY <3>2 DEF ToSet
  <2> QED
    BY <2>1, <2>2 DEF E
<1> QED
  BY <1>2, <1>6, <1>7, AList DEF E

LEMMA ListsAreTyped ==
    ASSUME NEW s, Lists(s)
    PROVE  s \in Seq(Seq(UNION {ToSet(s[i]) : i \in DOMAIN s}))
<1> DEFINE E == UNION {ToSet(s[i]) : i \in DOMAIN s}
<1>1. ASSUME NEW i \in DOMAIN s PROVE s[i] \in Seq(E)
  <2>1. ToSet(s[i]) \subseteq E
    OBVIOUS
  <2>2. s[i] \in Seq(ToSet(s[i]))
    BY DEF Lists, IsList
  <2> QED
    BY <2>1, <2>2, SeqMonotonic
<1> HIDE DEF E
<1>2. s \in Seq(ToSet(s)) /\ Len(s) \in Nat /\ DOMAIN s = 1 .. Len(s)
  BY ListFacts DEF Lists
<1>3. s = [i \in 1 .. Len(s) |-> s[i]]
  BY <1>2
<1> DEFINE V == Seq(E)
<1> HIDE DEF V
<1>4. s \in [1 .. Len(s) -> V]
  BY <1>1, <1>2, <1>3 DEF V
<1>5. s \in Seq(V)
  BY <1>2, <1>4
<1> QED
  BY <1>5 DEF V, E

\* The members of lists put together are those of the lists.
LEMMA FlattenMembers ==
    ASSUME NEW s, Lists(s)
    PROVE  /\ IsList(FlattenSeq(s))
           /\ ToSet(FlattenSeq(s)) = UNION {ToSet(s[i]) : i \in DOMAIN s}
<1> DEFINE E == UNION {ToSet(s[i]) : i \in DOMAIN s}
           V == Seq(E)
           Holds(t) == ToSet(FlattenSeq(t)) = UNION {ToSet(t[i]) : i \in DOMAIN t}
           S == {t \in Seq(V) : Holds(t)}
<1>1. s \in Seq(V)
  BY ListsAreTyped
<1> HIDE DEF E
<1>2. <<>> \in S
  <2>1. ToSet(FlattenSeq(<<>>)) = {}
    BY FlattenEmpty, SmallLists
  <2>2. DOMAIN <<>> = {}
    OBVIOUS
  <2>3. Holds(<<>>)
    BY <2>1, <2>2
  <2>4. <<>> \in Seq(V)
    OBVIOUS
  <2> QED
    BY <2>3, <2>4
<1>3. ASSUME NEW t \in Seq(V), NEW x \in V, t \in S PROVE Append(t, x) \in S
  <2> DEFINE u == Append(t, x)
  <2>1. u \in Seq(V) /\ DOMAIN u = DOMAIN t \cup {Len(t) + 1} /\ u[Len(t) + 1] = x
        /\ \A i \in DOMAIN t : u[i] = t[i]
    OBVIOUS
  <2>2. FlattenSeq(u) = FlattenSeq(t) \o x
    BY FlattenAppend
  <2> HIDE DEF u
  <2>3. FlattenSeq(t) \in V
    BY FlattenType
  <2>4. IsList(FlattenSeq(t)) /\ IsList(x)
    BY <2>3, AList
  <2>5. ToSet(FlattenSeq(u)) = ToSet(FlattenSeq(t)) \cup ToSet(x)
    BY <2>2, <2>4, JoinedList
  <2>6. ToSet(FlattenSeq(t)) = UNION {ToSet(t[i]) : i \in DOMAIN t}
    BY <1>3
  <2>7. UNION {ToSet(u[i]) : i \in DOMAIN u} = (UNION {ToSet(t[i]) : i \in DOMAIN t}) \cup ToSet(x)
    BY <2>1
  <2>8. Holds(u)
    BY <2>5, <2>6, <2>7
  <2> HIDE DEF Holds
  <2> QED
    BY <2>1, <2>8 DEF u
<1> HIDE DEF V, S
<1>4. Seq(V) \subseteq S
  BY <1>2, <1>3, SequencesByInduction
<1>5. Holds(s)
  BY <1>1, <1>4 DEF S
<1>6. FlattenSeq(s) \in V
  BY <1>1, FlattenType DEF V
<1>7. IsList(FlattenSeq(s))
  BY <1>6, AList DEF V
<1> QED
  BY <1>5, <1>7

LEMMA FlattenConcat ==
    ASSUME NEW s, NEW t, Lists(s), Lists(t)
    PROVE  FlattenSeq(s \o t) = FlattenSeq(s) \o FlattenSeq(t)
<1> DEFINE Es == UNION {ToSet(s[i]) : i \in DOMAIN s}
           Et == UNION {ToSet(t[i]) : i \in DOMAIN t}
           E == Es \cup Et
           V == Seq(E)
           S == {u \in Seq(V) : FlattenSeq(s \o u) = FlattenSeq(s) \o FlattenSeq(u)}
<1>1. s \in Seq(Seq(Es)) /\ t \in Seq(Seq(Et))
  BY ListsAreTyped
<1> HIDE DEF Es, Et
<1>2. Seq(Es) \subseteq V /\ Seq(Et) \subseteq V
  BY SeqMonotonic
<1> HIDE DEF E
<1>3. s \in Seq(V) /\ t \in Seq(V)
  <2> HIDE DEF V
  <2> QED
    BY <1>1, <1>2, SeqMonotonic
<1>4. FlattenSeq(s) \in V
  BY <1>3, FlattenType
<1>5. <<>> \in S
  <2>1. s \o <<>> = s
    BY <1>3
  <2>2. FlattenSeq(s) \o <<>> = FlattenSeq(s)
    BY <1>4
  <2>3. <<>> \in Seq(V)
    OBVIOUS
  <2> QED
    BY <2>1, <2>2, <2>3, FlattenEmpty
<1>6. ASSUME NEW u \in Seq(V), NEW x \in V, u \in S PROVE Append(u, x) \in S
  <2>1. s \o Append(u, x) = Append(s \o u, x) /\ s \o u \in Seq(V) /\ Append(u, x) \in Seq(V)
    <3> HIDE DEF V
    <3> QED
      BY <1>3
  <2>2. FlattenSeq(Append(s \o u, x)) = FlattenSeq(s \o u) \o x
    BY <2>1, FlattenAppend
  <2>3. FlattenSeq(Append(u, x)) = FlattenSeq(u) \o x
    BY FlattenAppend
  <2>4. FlattenSeq(u) \in V
    BY FlattenType
  <2>5. (FlattenSeq(s) \o FlattenSeq(u)) \o x = FlattenSeq(s) \o (FlattenSeq(u) \o x)
    BY <1>4, <2>4, SMTT(60)
  <2> QED
    BY <1>6, <2>1, <2>2, <2>3, <2>5
<1> HIDE DEF V, S
<1>7. Seq(V) \subseteq S
  BY <1>5, <1>6, SequencesByInduction
<1> QED
  BY <1>3, <1>7 DEF S

-----------------------------------------------------------------------------
(* Each member of a list replaced by a list: the adapters' loops, and the
   choice of members, are of this form. *)

Bind(s, g) == FlattenSeq([i \in DOMAIN s |-> g[s[i]]])
Maps(s, g) == IsList(s) /\ \A x \in ToSet(s) : IsList(g[x])

LEMMA BoundLists ==
    ASSUME NEW s, NEW g, Maps(s, g)
    PROVE  /\ Lists([i \in DOMAIN s |-> g[s[i]]])
           /\ Len([i \in DOMAIN s |-> g[s[i]]]) = Len(s)
<1> DEFINE t == [i \in DOMAIN s |-> g[s[i]]]
<1>1. DOMAIN s = 1 .. Len(s) /\ Len(s) \in Nat /\ \A i \in DOMAIN s : s[i] \in ToSet(s)
  BY ListFacts DEF Maps
<1>2. t = [i \in 1 .. Len(s) |-> t[i]]
  BY <1>1
<1>3. \A i \in DOMAIN t : IsList(t[i])
  BY <1>1 DEF Maps
<1> HIDE DEF t
<1>4. IsList(t) /\ Len(t) = Len(s)
  BY <1>1, <1>2, ListOfValues
<1> QED
  BY <1>3, <1>4 DEF Lists, t

LEMMA BindNothing == ASSUME NEW g PROVE Bind(<<>>, g) = <<>>
<1>1. [i \in DOMAIN <<>> |-> g[<<>>[i]]] = <<>>
  OBVIOUS
<1> QED
  BY <1>1, FlattenEmpty DEF Bind

LEMMA FlattenOne == ASSUME NEW x, IsList(x) PROVE FlattenSeq(<<x>>) = x
<1> DEFINE V == Seq(ToSet(x))
<1>1. x \in V
  BY DEF IsList
<1>2. <<>> \in Seq(V)
  OBVIOUS
<1>3. Append(<<>>, x) = <<x>> /\ <<>> \o x = x
  BY <1>1
<1>4. FlattenSeq(Append(<<>>, x)) = FlattenSeq(<<>>) \o x
  BY <1>1, <1>2, FlattenAppend
<1> QED
  BY <1>3, <1>4, FlattenEmpty

LEMMA BindOne == ASSUME NEW x, NEW g, IsList(g[x]) PROVE Bind(<<x>>, g) = g[x]
<1> DEFINE s == <<x>>
<1>1. [i \in DOMAIN s |-> g[s[i]]] = <<g[x]>>
  OBVIOUS
<1> HIDE DEF s
<1>2. Bind(s, g) = FlattenSeq(<<g[x]>>)
  BY <1>1 DEF Bind
<1> QED
  BY <1>2, FlattenOne DEF s

LEMMA BindConcat ==
    ASSUME NEW s, NEW t, NEW g, Maps(s, g), Maps(t, g)
    PROVE  Bind(s \o t, g) = Bind(s, g) \o Bind(t, g)
<1> DEFINE a == [i \in DOMAIN s |-> g[s[i]]]
           b == [i \in DOMAIN t |-> g[t[i]]]
           c == [i \in DOMAIN (s \o t) |-> g[(s \o t)[i]]]
<1>1. Lists(a) /\ Lists(b) /\ Len(a) = Len(s) /\ Len(b) = Len(t)
  BY BoundLists
<1>2. IsList(s) /\ IsList(t) /\ IsList(s \o t)
  BY JoinedList DEF Maps
<1>3. /\ DOMAIN s = 1 .. Len(s) /\ Len(s) \in Nat /\ DOMAIN t = 1 .. Len(t) /\ Len(t) \in Nat
      /\ s \in Seq(ToSet(s)) /\ t \in Seq(ToSet(t))
  BY <1>2, ListFacts
<1>4. Len(s \o t) = Len(s) + Len(t) /\ DOMAIN (s \o t) = 1 .. Len(s) + Len(t)
  BY <1>3
<1>5. \A i \in 1 .. Len(s) : (s \o t)[i] = s[i]
  BY <1>3
<1>6. \A i \in 1 .. Len(t) : (s \o t)[Len(s) + i] = t[i]
  BY <1>3
<1>7. a \in Seq(ToSet(a)) /\ b \in Seq(ToSet(b))
  BY <1>1 DEF Lists, IsList
<1>8. DOMAIN c = 1 .. Len(s) + Len(t)
  BY <1>4
<1>9. DOMAIN (a \o b) = 1 .. Len(s) + Len(t)
  <2> HIDE DEF a, b
  <2> QED
    BY <1>1, <1>7
<1>10. ASSUME NEW i \in 1 .. Len(s) + Len(t) PROVE c[i] = (a \o b)[i]
  <2>1. CASE i \in 1 .. Len(s)
    <3>1. c[i] = g[s[i]] /\ a[i] = g[s[i]]
      BY <1>3, <1>4, <1>5, <2>1
    <3> HIDE DEF a, b, c
    <3>2. (a \o b)[i] = a[i]
      BY <1>1, <1>7, <2>1
    <3> QED
      BY <3>1, <3>2
  <2>2. CASE i \notin 1 .. Len(s)
    <3>1. PICK j \in 1 .. Len(t) : i = Len(s) + j
      <4>1. i - Len(s) \in 1 .. Len(t) /\ i = Len(s) + (i - Len(s))
        BY <1>3, <2>2
      <4> QED
        BY <4>1
    <3>2. c[i] = g[t[j]] /\ b[j] = g[t[j]]
      BY <1>3, <1>4, <1>6, <3>1
    <3> HIDE DEF a, b, c
    <3>3. (a \o b)[Len(a) + j] = b[j]
      BY <1>1, <1>7
    <3> QED
      BY <1>1, <3>1, <3>2, <3>3
  <2> QED
    BY <2>1, <2>2
<1>11. c = a \o b
  <2> DEFINE d == a \o b
  <2>1. d = [i \in 1 .. Len(s) + Len(t) |-> d[i]]
    <3>1. d \in Seq(ToSet(a) \cup ToSet(b))
      <4> HIDE DEF a, b
      <4>1. a \in Seq(ToSet(a) \cup ToSet(b)) /\ b \in Seq(ToSet(a) \cup ToSet(b))
        BY <1>7, SeqMonotonic
      <4> QED
        BY <4>1
    <3> HIDE DEF a, b, d
    <3>2. DOMAIN d = 1 .. Len(s) + Len(t)
      BY <1>9 DEF d
    <3> QED
      BY <3>1, <3>2
  <2>2. c = [i \in 1 .. Len(s) + Len(t) |-> c[i]]
    BY <1>8
  <2> HIDE DEF a, b, c
  <2> QED
    BY <1>10, <2>1, <2>2
<1> HIDE DEF a, b, c
<1>12. FlattenSeq(a \o b) = FlattenSeq(a) \o FlattenSeq(b)
  BY <1>1, FlattenConcat
<1> QED
  BY <1>11, <1>12 DEF Bind, a, b, c

LEMMA BindMembers ==
    ASSUME NEW s, NEW g, Maps(s, g)
    PROVE  /\ IsList(Bind(s, g))
           /\ ToSet(Bind(s, g)) = UNION {ToSet(g[x]) : x \in ToSet(s)}
<1> DEFINE t == [i \in DOMAIN s |-> g[s[i]]]
<1>1. Lists(t)
  BY BoundLists
<1>2. DOMAIN t = DOMAIN s /\ \A i \in DOMAIN s : t[i] = g[s[i]]
  OBVIOUS
<1> HIDE DEF t
<1>3. IsList(FlattenSeq(t)) /\ ToSet(FlattenSeq(t)) = UNION {ToSet(t[i]) : i \in DOMAIN t}
  BY <1>1, FlattenMembers
<1>4. UNION {ToSet(t[i]) : i \in DOMAIN t} = UNION {ToSet(g[x]) : x \in ToSet(s)}
  BY <1>2 DEF ToSet
<1> QED
  BY <1>3, <1>4 DEF Bind, t

LEMMA BindSame ==
    ASSUME NEW s, NEW g, NEW h, IsList(s), \A x \in ToSet(s) : g[x] = h[x]
    PROVE  Bind(s, g) = Bind(s, h)
<1>1. \A i \in DOMAIN s : s[i] \in ToSet(s)
  BY ListFacts
<1>2. [i \in DOMAIN s |-> g[s[i]]] = [i \in DOMAIN s |-> h[s[i]]]
  BY <1>1
<1> QED
  BY <1>2 DEF Bind

\* What a sequence of members of s is replaced by, one member more.
LEMMA BindAppend ==
    ASSUME NEW s, NEW g, Maps(s, g), NEW u \in Seq(ToSet(s)), NEW x \in ToSet(s)
    PROVE  /\ Maps(u, g) /\ Maps(<<x>>, g)
           /\ Bind(Append(u, x), g) = Bind(u, g) \o g[x]
<1>1. IsList(u) /\ ToSet(u) \subseteq ToSet(s)
  BY AList, Members
<1>2. Maps(u, g)
  BY <1>1 DEF Maps
<1>3. Maps(<<x>>, g)
  BY SmallLists DEF Maps
<1>4. Append(u, x) = u \o <<x>>
  OBVIOUS
<1>5. IsList(g[x])
  BY DEF Maps
<1>6. Bind(<<x>>, g) = g[x]
  BY <1>5, BindOne
<1> QED
  BY <1>2, <1>3, <1>4, <1>6, BindConcat

\* Replacing twice is replacing once by what the replacements become.
LEMMA BindTwice ==
    ASSUME NEW s, NEW g, NEW h, NEW k, Maps(s, g),
           \A x \in ToSet(s) : Maps(g[x], h) /\ k[x] = Bind(g[x], h)
    PROVE  Bind(Bind(s, g), h) = Bind(s, k)
<1> DEFINE V == ToSet(s)
           S == {u \in Seq(V) : Bind(Bind(u, g), h) = Bind(u, k)}
<1>1. s \in Seq(V)
  BY DEF Maps, IsList
<1>2. Maps(s, k)
  <2>1. \A x \in V : IsList(Bind(g[x], h))
    BY BindMembers
  <2> QED
    BY <2>1 DEF Maps
<1>3. <<>> \in S
  <2>1. <<>> \in Seq(V)
    OBVIOUS
  <2> QED
    BY <2>1, BindNothing
<1>4. ASSUME NEW u \in Seq(V), NEW x \in V, u \in S PROVE Append(u, x) \in S
  <2>1. Maps(u, g) /\ Bind(Append(u, x), g) = Bind(u, g) \o g[x]
    BY BindAppend
  <2>2. Bind(Append(u, x), k) = Bind(u, k) \o k[x]
    BY <1>2, BindAppend
  <2>3. Maps(Bind(u, g), h)
    <3>1. ToSet(u) \subseteq V
      BY Members
    <3>2. IsList(Bind(u, g)) /\ ToSet(Bind(u, g)) = UNION {ToSet(g[y]) : y \in ToSet(u)}
      BY <2>1, BindMembers
    <3>3. \A y \in V : \A z \in ToSet(g[y]) : IsList(h[z])
      BY DEF Maps
    <3> HIDE DEF V
    <3> QED
      BY <3>1, <3>2, <3>3 DEF Maps
  <2>4. Maps(g[x], h)
    OBVIOUS
  <2>5. Bind(Bind(u, g) \o g[x], h) = Bind(Bind(u, g), h) \o Bind(g[x], h)
    BY <2>3, <2>4, BindConcat
  <2>6. Bind(Bind(u, g), h) = Bind(u, k)
    BY <1>4
  <2>7. Bind(Bind(Append(u, x), g), h) = Bind(Append(u, x), k)
    BY <2>1, <2>2, <2>5, <2>6
  <2> QED
    BY <2>7
<1> HIDE DEF V, S
<1>5. Seq(V) \subseteq S
  BY <1>3, <1>4, SequencesByInduction
<1> QED
  BY <1>1, <1>5 DEF S

\* Each member replaced by itself.
LEMMA BindItself ==
    ASSUME NEW s, NEW g, IsList(s), \A x \in ToSet(s) : g[x] = <<x>>
    PROVE  Bind(s, g) = s
<1> DEFINE V == ToSet(s)
           S == {u \in Seq(V) : Bind(u, g) = u}
<1>1. Maps(s, g)
  BY SmallLists DEF Maps
<1>2. <<>> \in S
  <2>1. <<>> \in Seq(V)
    OBVIOUS
  <2> QED
    BY <2>1, BindNothing
<1>3. ASSUME NEW u \in Seq(V), NEW x \in V, u \in S PROVE Append(u, x) \in S
  <2>1. Bind(Append(u, x), g) = Bind(u, g) \o g[x]
    BY <1>1, BindAppend
  <2>2. Append(u, x) = u \o <<x>>
    OBVIOUS
  <2>3. Bind(u, g) = u /\ g[x] = <<x>>
    BY <1>3
  <2> QED
    BY <2>1, <2>2, <2>3
<1> HIDE DEF V, S
<1>4. Seq(V) \subseteq S
  BY <1>2, <1>3, SequencesByInduction
<1>5. s \in Seq(V)
  BY DEF IsList, V
<1> QED
  BY <1>4, <1>5 DEF S

LEMMA BindToNothing ==
    ASSUME NEW s, NEW g, IsList(s), \A x \in ToSet(s) : g[x] = <<>>
    PROVE  Bind(s, g) = <<>>
<1>1. Maps(s, g)
  BY SmallLists DEF Maps
<1>2. IsList(Bind(s, g)) /\ ToSet(Bind(s, g)) = UNION {ToSet(g[x]) : x \in ToSet(s)}
  BY <1>1, BindMembers
<1>3. ToSet(Bind(s, g)) = {}
  BY <1>2, SmallLists
<1> DEFINE b == Bind(s, g)
<1> HIDE DEF b
<1>4. DOMAIN b = 1 .. Len(b) /\ Len(b) \in Nat /\ b \in Seq(ToSet(b)) /\ \A i \in DOMAIN b : b[i] \in ToSet(b)
  BY <1>2, ListFacts DEF b
<1>5. Len(b) = 0
  BY <1>3, <1>4 DEF b
<1> QED
  BY <1>4, <1>5 DEF b

\* A member for a member.
LEMMA Mapped ==
    ASSUME NEW s, NEW m, IsList(s)
    PROVE  LET t == [i \in DOMAIN s |-> m[s[i]]]
           IN  /\ IsList(t) /\ DOMAIN t = DOMAIN s /\ Len(t) = Len(s)
               /\ ToSet(t) = {m[x] : x \in ToSet(s)}
<1> DEFINE t == [i \in DOMAIN s |-> m[s[i]]]
<1>1. DOMAIN s = 1 .. Len(s) /\ Len(s) \in Nat
  BY ListFacts
<1>2. t = [i \in 1 .. Len(s) |-> t[i]] /\ DOMAIN t = DOMAIN s
  BY <1>1
<1>3. ToSet(t) = {m[x] : x \in ToSet(s)}
  BY DEF ToSet
<1> HIDE DEF t
<1>4. IsList(t) /\ Len(t) = Len(s)
  BY <1>1, <1>2, ListOfValues
<1> QED
  BY <1>2, <1>3, <1>4 DEF t

LEMMA MappedTo ==
    ASSUME NEW s, NEW m, NEW t, IsList(s), t = [i \in DOMAIN s |-> m[s[i]]]
    PROVE  /\ IsList(t) /\ DOMAIN t = DOMAIN s /\ Len(t) = Len(s)
           /\ ToSet(t) = {m[x] : x \in ToSet(s)}
BY Mapped

LEMMA BindMapped ==
    ASSUME NEW s, NEW m, NEW h, NEW k, IsList(s), \A x \in ToSet(s) : k[x] = h[m[x]]
    PROVE  Bind([i \in DOMAIN s |-> m[s[i]]], h) = Bind(s, k)
<1>1. \A i \in DOMAIN s : s[i] \in ToSet(s)
  BY ListFacts
<1>2. [j \in DOMAIN [i \in DOMAIN s |-> m[s[i]]] |-> h[[i \in DOMAIN s |-> m[s[i]]][j]]]
      = [i \in DOMAIN s |-> k[s[i]]]
  BY <1>1
<1> QED
  BY <1>2 DEF Bind

-----------------------------------------------------------------------------
(* Members chosen by a field. *)

Chosen(E, field, values) == [x \in E |-> IF x[field] \in values THEN <<x>> ELSE <<>>]

LEMMA HavingBinds ==
    ASSUME NEW list, NEW field, NEW values, NEW E, IsList(list), ToSet(list) \subseteq E
    PROVE  /\ Having(list, field, values) = Bind(list, Chosen(E, field, values))
           /\ Maps(list, Chosen(E, field, values))
<1> DEFINE g == Chosen(E, field, values)
<1>1. \A x \in E : g[x] = IF x[field] \in values THEN <<x>> ELSE <<>>
  BY DEF Chosen
<1>2. \A i \in DOMAIN list : list[i] \in E
  BY ListFacts
<1> HIDE DEF g
<1>3. [i \in DOMAIN list |-> g[list[i]]]
      = [i \in DOMAIN list |-> IF list[i][field] \in values THEN <<list[i]>> ELSE <<>>]
  BY <1>1, <1>2
<1>4. \A x \in E : IsList(g[x])
  BY <1>1, SmallLists
<1>5. Maps(list, g)
  BY <1>4 DEF Maps
<1> QED
  BY <1>3, <1>5 DEF Having, Bind, g

LEMMA HavingMembers ==
    ASSUME NEW list, NEW field, NEW values, IsList(list)
    PROVE  /\ IsList(Having(list, field, values))
           /\ ToSet(Having(list, field, values)) = {x \in ToSet(list) : x[field] \in values}
<1> DEFINE E == ToSet(list)
           g == Chosen(E, field, values)
<1>1. Having(list, field, values) = Bind(list, g) /\ Maps(list, g)
  BY HavingBinds
<1>2. \A x \in E : ToSet(g[x]) = IF x[field] \in values THEN {x} ELSE {}
  <2>1. \A x \in E : g[x] = IF x[field] \in values THEN <<x>> ELSE <<>>
    BY DEF Chosen
  <2> HIDE DEF g, E
  <2> QED
    BY <2>1, SmallLists
<1> HIDE DEF g
<1>3. IsList(Bind(list, g)) /\ ToSet(Bind(list, g)) = UNION {ToSet(g[x]) : x \in E}
  BY <1>1, BindMembers
<1> DEFINE H == {x \in E : x[field] \in values}
<1>4. UNION {ToSet(g[x]) : x \in E} = H
  <2> HIDE DEF E
  <2>1. ASSUME NEW x \in E, NEW y \in ToSet(g[x]) PROVE y \in H
    BY <1>2, <2>1
  <2>2. ASSUME NEW y \in H PROVE y \in E /\ y \in ToSet(g[y])
    BY <1>2, <2>2
  <2> HIDE DEF H
  <2> QED
    BY <2>1, <2>2
<1> QED
  BY <1>1, <1>3, <1>4

\* What follows a choice of members.
LEMMA BindHaving ==
    ASSUME NEW list, NEW field, NEW values, NEW h, NEW k, IsList(list),
           \A x \in ToSet(list) : /\ x[field] \in values => IsList(h[x]) /\ k[x] = h[x]
                                  /\ x[field] \notin values => k[x] = <<>>
    PROVE  Bind(Having(list, field, values), h) = Bind(list, k)
<1> DEFINE E == ToSet(list)
           g == Chosen(E, field, values)
<1>1. Having(list, field, values) = Bind(list, g) /\ Maps(list, g)
  BY HavingBinds
<1>2. ASSUME NEW x \in E PROVE Maps(g[x], h) /\ k[x] = Bind(g[x], h)
  <2>1. CASE x[field] \in values
    <3>1. g[x] = <<x>>
      BY <2>1 DEF Chosen
    <3> HIDE DEF g
    <3>2. Bind(<<x>>, h) = h[x]
      BY <2>1, BindOne
    <3>3. Maps(<<x>>, h)
      BY <2>1, SmallLists DEF Maps
    <3> QED
      BY <2>1, <3>1, <3>2, <3>3
  <2>2. CASE x[field] \notin values
    <3>1. g[x] = <<>>
      BY <2>2 DEF Chosen
    <3> HIDE DEF g
    <3>2. Maps(<<>>, h)
      BY SmallLists DEF Maps
    <3> QED
      BY <2>2, <3>1, <3>2, BindNothing
  <2> QED
    BY <2>1, <2>2
<1> HIDE DEF g
<1>3. Bind(Bind(list, g), h) = Bind(list, k)
  BY <1>1, <1>2, BindTwice
<1> QED
  BY <1>1, <1>3

\* Choosing from what members are replaced by.
LEMMA HavingOfBind ==
    ASSUME NEW s, NEW g, NEW field, NEW values, NEW k, Maps(s, g),
           \A x \in ToSet(s) : k[x] = Having(g[x], field, values)
    PROVE  Having(Bind(s, g), field, values) = Bind(s, k)
<1> DEFINE E == ToSet(Bind(s, g))
           h == Chosen(E, field, values)
<1>1. IsList(Bind(s, g)) /\ E = UNION {ToSet(g[x]) : x \in ToSet(s)}
  BY BindMembers
<1>2. Having(Bind(s, g), field, values) = Bind(Bind(s, g), h)
  BY <1>1, HavingBinds
<1>3. ASSUME NEW x \in ToSet(s) PROVE Maps(g[x], h) /\ k[x] = Bind(g[x], h)
  <2>1. ToSet(g[x]) \subseteq E /\ IsList(g[x])
    BY <1>1 DEF Maps
  <2> HIDE DEF E
  <2>2. Having(g[x], field, values) = Bind(g[x], h) /\ Maps(g[x], h)
    BY <2>1, HavingBinds
  <2> QED
    BY <2>2
<1> HIDE DEF E, h
<1>4. Bind(Bind(s, g), h) = Bind(s, k)
  BY <1>3, BindTwice
<1> QED
  BY <1>2, <1>4

LEMMA HavingAll ==
    ASSUME NEW list, NEW field, NEW values, IsList(list),
           \A x \in ToSet(list) : x[field] \in values
    PROVE  Having(list, field, values) = list
<1> DEFINE g == Chosen(ToSet(list), field, values)
<1>1. Having(list, field, values) = Bind(list, g)
  BY HavingBinds
<1>2. \A x \in ToSet(list) : g[x] = <<x>>
  BY DEF Chosen
<1> HIDE DEF g
<1> QED
  BY <1>1, <1>2, BindItself

LEMMA HavingNone ==
    ASSUME NEW list, NEW field, NEW values, IsList(list),
           \A x \in ToSet(list) : x[field] \notin values
    PROVE  Having(list, field, values) = <<>>
<1> DEFINE g == Chosen(ToSet(list), field, values)
<1>1. Having(list, field, values) = Bind(list, g)
  BY HavingBinds
<1>2. \A x \in ToSet(list) : g[x] = <<>>
  BY DEF Chosen
<1> HIDE DEF g
<1> QED
  BY <1>1, <1>2, BindToNothing

LEMMA HavingConcat ==
    ASSUME NEW s, NEW t, NEW field, NEW values, IsList(s), IsList(t)
    PROVE  Having(s \o t, field, values) = Having(s, field, values) \o Having(t, field, values)
<1> DEFINE E == ToSet(s) \cup ToSet(t)
           g == Chosen(E, field, values)
<1>1. IsList(s \o t) /\ ToSet(s \o t) = E
  BY JoinedList
<1>2. ToSet(s) \subseteq E /\ ToSet(t) \subseteq E
  OBVIOUS
<1> HIDE DEF E
<1>3. Having(s, field, values) = Bind(s, g) /\ Maps(s, g)
  BY <1>2, HavingBinds
<1>4. Having(t, field, values) = Bind(t, g) /\ Maps(t, g)
  BY <1>2, HavingBinds
<1>5. Having(s \o t, field, values) = Bind(s \o t, g)
  BY <1>1, HavingBinds
<1> HIDE DEF g
<1> QED
  BY <1>3, <1>4, <1>5, BindConcat

\* What adapters make of what clients send: a canonical request.
AllowedIn(turn, b) ==
    \/ IsText(b) /\ turn.role # "tool"
    \/ IsCall(b) /\ turn.role = "assistant" /\ b.args.object
    \/ IsResult(b) /\ turn.role = "tool" /\ OneResult(turn)

IsTurn(turn) ==
    /\ turn = Turn(turn.role, turn.content, turn.name)
    /\ turn.role \in Roles /\ turn.content # <<>> /\ AreBlocks(turn.content)
    /\ \A b \in ToSet(turn.content) : AllowedIn(turn, b)
AreTurns(turns) == IsList(turns) /\ \A turn \in ToSet(turns) : IsTurn(turn)

IsCanonicalTool(t) ==
    \/ IsFunction(t) /\ t = Function(t.name, t.strict) /\ t.strict \in BOOLEAN
    \/ t.kind = "remote" /\ t = Remote(t.provider, t.type)

IsCanonicalChoice(choice) ==
    \/ choice = <<>>
    \/ \E mode \in {"auto", "none", "required"} : \E name :
          choice = <<Choice(mode, name)>> /\ name = <<>>
    \/ \E name : choice = <<Choice("specific", name)>> /\ name # <<>>

IsRequest(r) ==
    /\ r = CanonicalRequest(r.model, r.turns, r.tools, r.choice, r.output, r.settings,
                            r.stream, r.store, r.extensions)
    /\ r.model # "" /\ AreTurns(r.turns)
    /\ IsList(r.tools) /\ \A t \in ToSet(r.tools) : IsCanonicalTool(t)
    /\ IsCanonicalChoice(r.choice) /\ IsOutput(r.output)
    /\ r.settings = Settings(r.settings.max, r.settings.temperature, r.settings.stop)
    /\ IsList(r.settings.max) /\ r.store \in BOOLEAN
    /\ \A e \in r.extensions : e = [provider |-> e.provider, name |-> e.name]

\* State, tools and fields that the ingress adapter lets a client ask for.
IsOwn(provider, policy, r) ==
    /\ r.store => policy.storage
    /\ \A t \in ToSet(r.tools) : ~ IsFunction(t) => policy.remote /\ t.provider = provider
    /\ \A e \in r.extensions : e.provider = provider /\ e.name \in policy.safe
IsParsed(provider, policy, r) == IsRequest(r) /\ IsOwn(provider, policy, r)

LEMMA FieldsOfTurns ==
    ASSUME NEW role, NEW content, NEW name, NEW t, t = Turn(role, content, name)
    PROVE  t.role = role /\ t.content = content /\ t.name = name /\ t = Turn(t.role, t.content, t.name)
BY DEF Turn

\* A turn of one result.
LEMMA ResultTurn ==
    ASSUME NEW id, NEW name, NEW value, NEW error, NEW who, NEW t,
           t = Turn("tool", <<Result(id, name, value, error)>>, who)
    PROVE  IsTurn(t)
<1> DEFINE b == Result(id, name, value, error)
<1>1. t.role = "tool" /\ t.content = <<b>> /\ t = Turn(t.role, t.content, t.name)
  BY FieldsOfTurns
<1>2. IsResult(b) /\ b = Result(b.id, b.name, b.value, b.error)
  BY DEF Result, IsResult
<1> HIDE DEF b
<1>3. IsBlock(b)
  BY <1>2 DEF IsBlock
<1>4. IsList(<<b>>) /\ ToSet(<<b>>) = {b}
  BY SmallLists
<1>5. AreBlocks(<<b>>)
  BY <1>3, <1>4 DEF AreBlocks
<1>6. OneResult(t)
  BY <1>1, <1>2 DEF OneResult
<1>7. <<b>> # <<>>
  OBVIOUS
<1> QED
  BY <1>1, <1>2, <1>4, <1>5, <1>6, <1>7 DEF IsTurn, AllowedIn, Roles

\* A turn of texts, and of calls if it is the assistant's.
LEMMA SpokenTurn ==
    ASSUME NEW role \in Roles \ {"tool"}, NEW content, NEW name, NEW t, t = Turn(role, content, name),
           AreBlocks(content), content # <<>>,
           \A b \in ToSet(content) : IsText(b) \/ (IsCall(b) /\ role = "assistant" /\ b.args.object)
    PROVE  IsTurn(t)
<1>1. t.role = role /\ t.content = content /\ t = Turn(t.role, t.content, t.name)
  BY FieldsOfTurns
<1> QED
  BY <1>1 DEF IsTurn, AllowedIn

LEMMA ToolsAreCanonical ==
    ASSUME NEW provider, NEW policy, NEW tools, AreTools(provider, tools), RemoteReads(policy, tools)
    PROVE  /\ IsList(tools)
           /\ \A t \in ToSet(tools) : IsCanonicalTool(t)
           /\ \A t \in ToSet(tools) : ~ IsFunction(t) => policy.remote /\ t.provider = provider
<1>1. IsList(tools)
  BY DEF AreTools
<1> SUFFICES ASSUME NEW t \in ToSet(tools)
             PROVE  IsCanonicalTool(t) /\ (~ IsFunction(t) => policy.remote /\ t.provider = provider)
  BY <1>1
<1>2. PICK i \in DOMAIN tools : t = tools[i]
  BY <1>1, ListFacts
<1>3. policy.remote \/ IsFunction(t)
  BY <1>2 DEF RemoteReads
<1>4. CASE IsFunction(t) /\ t = Function(t.name, t.strict) /\ t.strict \in BOOLEAN
  BY <1>4 DEF IsCanonicalTool
<1>5. CASE t.kind = "remote" /\ t = Remote(provider, t.type)
  <2>1. t.provider = provider
    BY <1>5 DEF Remote
  <2>2. ~ IsFunction(t)
    BY <1>5 DEF IsFunction
  <2> QED
    BY <1>3, <1>5, <2>1, <2>2 DEF IsCanonicalTool
<1> QED
  BY <1>4, <1>5 DEF AreTools

LEMMA ExtensionsAreOwn ==
    ASSUME NEW provider, NEW policy, NEW extra, FieldsReviewed(policy, extra)
    PROVE  \A e \in ExtensionsOf(provider, extra) :
              /\ e = [provider |-> e.provider, name |-> e.name]
              /\ e.provider = provider /\ e.name \in policy.safe
<1> SUFFICES ASSUME NEW f \in extra, NEW e, e = [provider |-> provider, name |-> f]
             PROVE  /\ e = [provider |-> e.provider, name |-> e.name]
                    /\ e.provider = provider /\ e.name \in policy.safe
  BY DEF ExtensionsOf
<1> QED
  BY DEF FieldsReviewed

LEMMA OptionalForm ==
    ASSUME NEW s, Optional(s), s # <<>>
    PROVE  s = <<s[1]>> /\ s[1] \in ToSet(s)
<1>1. s \in Seq(ToSet(s)) /\ Len(s) <= 1 /\ Len(s) \in Nat /\ DOMAIN s = 1 .. Len(s)
      /\ \A i \in DOMAIN s : s[i] \in ToSet(s)
  BY ListFacts DEF Optional
<1>2. Len(s) = 1
  BY <1>1
<1>3. s = <<s[1]>>
  BY <1>1, <1>2
<1> QED
  BY <1>1, <1>2, <1>3

LEMMA ChoiceForm ==
    ASSUME NEW choice, IsChoice(choice), choice # <<>>
    PROVE  choice = <<Choice(choice[1].mode, choice[1].name)>>
BY OptionalForm DEF IsChoice

LEMMA TurnsOfWire ==
    ASSUME NEW s, NEW m, IsList(s), \A x \in ToSet(s) : IsTurn(m[x])
    PROVE  AreTurns([i \in DOMAIN s |-> m[s[i]]])
BY Mapped DEF AreTurns

LEMMA JoinedTurns ==
    ASSUME NEW s, NEW t, AreTurns(s), AreTurns(t)
    PROVE  AreTurns(s \o t)
BY JoinedList DEF AreTurns

CarriesTools(provider, policy, tools) ==
    /\ IsList(tools)
    /\ \A t \in ToSet(tools) :
          IsCanonicalTool(t) /\ (~ IsFunction(t) => policy.remote /\ t.provider = provider)

\* The parts of a request that an adapter puts together.
AreParts(provider, p, model, turns, tools, choice, output, max, store, extra) ==
    /\ model # "" /\ AreTurns(turns) /\ CarriesTools(provider, p, tools)
    /\ IsCanonicalChoice(choice) /\ IsOutput(output) /\ IsList(max)
    /\ store \in BOOLEAN /\ StorageAllowed(p, store) /\ FieldsReviewed(p, extra)

LEMMA Assembled ==
    ASSUME NEW provider, NEW p, NEW model, NEW turns, NEW tools, NEW choice, NEW output, NEW max,
           NEW temperature, NEW stop, NEW stream, NEW store, NEW extra, NEW r,
           AreParts(provider, p, model, turns, tools, choice, output, max, store, extra),
           r = CanonicalRequest(model, turns, tools, choice, output, Settings(max, temperature, stop),
                                stream, store, ExtensionsOf(provider, extra))
    PROVE  IsParsed(provider, p, r)
<1> DEFINE settings == Settings(max, temperature, stop)
           extensions == ExtensionsOf(provider, extra)
<1>1. settings = Settings(settings.max, settings.temperature, settings.stop) /\ settings.max = max
  BY DEF Settings
<1>2. \A e \in extensions : /\ e = [provider |-> e.provider, name |-> e.name]
                            /\ e.provider = provider /\ e.name \in p.safe
  BY ExtensionsAreOwn DEF AreParts
<1> HIDE DEF settings, extensions
<1>3. /\ r.model = model /\ r.turns = turns /\ r.tools = tools /\ r.choice = choice
      /\ r.output = output /\ r.settings = settings /\ r.stream = stream /\ r.store = store
      /\ r.extensions = extensions
      /\ r = CanonicalRequest(r.model, r.turns, r.tools, r.choice, r.output, r.settings,
                            r.stream, r.store, r.extensions)
  BY DEF CanonicalRequest, settings, extensions
<1>4. IsRequest(r)
  BY <1>1, <1>2, <1>3 DEF IsRequest, CarriesTools, AreParts
<1>5. IsOwn(provider, p, r)
  BY <1>2, <1>3 DEF IsOwn, CarriesTools, AreParts, StorageAllowed
<1> QED
  BY <1>4, <1>5 DEF IsParsed

-----------------------------------------------------------------------------
(* What the Chat Completions adapter reads is a canonical request. *)

\* A call whose arguments are parsed.
LEMMA ParsedCall ==
    ASSUME NEW c, c = Call(c.id, c.name, c.args), ReadsObject(c.args)
    PROVE  LET b == [c EXCEPT !.args = @.of]
           IN  IsBlock(b) /\ IsCall(b) /\ b.args.object
<1> DEFINE b == [kind |-> "call", id |-> c.id, name |-> c.name, args |-> c.args.of]
<1>1. c = [kind |-> "call", id |-> c.id, name |-> c.name, args |-> c.args]
  BY DEF Call
<1>2. [c EXCEPT !.args = @.of] = b
  BY <1>1
<1>3. IsCall(b) /\ b = Call(b.id, b.name, b.args) /\ b.args = c.args.of
  BY DEF IsCall, Call
<1>4. c.args.of.object
  BY DEF ReadsObject
<1> HIDE DEF b
<1> QED
  BY <1>2, <1>3, <1>4 DEF IsBlock

\* The calls of a message, parsed.
LEMMA ParsedCalls ==
    ASSUME NEW calls, IsList(calls), \A c \in ToSet(calls) : c = Call(c.id, c.name, c.args),
           \A c \in ToSet(calls) : ReadsObject(c.args)
    PROVE  LET parsed == [i \in DOMAIN calls |-> [calls[i] EXCEPT !.args = @.of]]
           IN  AreBlocks(parsed) /\ \A b \in ToSet(parsed) : IsCall(b) /\ b.args.object
<1> DEFINE m == [c \in ToSet(calls) |-> [c EXCEPT !.args = @.of]]
           parsed == [i \in DOMAIN calls |-> [calls[i] EXCEPT !.args = @.of]]
<1>1. \A i \in DOMAIN calls : calls[i] \in ToSet(calls)
  BY ListFacts
<1>2. parsed = [i \in DOMAIN calls |-> m[calls[i]]]
  BY <1>1
<1>3. ASSUME NEW c \in ToSet(calls)
      PROVE  IsBlock(m[c]) /\ IsCall(m[c]) /\ m[c].args.object
  <2>1. m[c] = [c EXCEPT !.args = @.of]
    OBVIOUS
  <2> HIDE DEF m
  <2> QED
    BY <2>1, ParsedCall
<1> HIDE DEF m, parsed
<1>4. IsList(parsed) /\ ToSet(parsed) = {m[c] : c \in ToSet(calls)}
  BY <1>2, Mapped
<1> QED
  BY <1>3, <1>4 DEF AreBlocks, parsed

LEMMA ChatTurn ==
    ASSUME NEW m, IsChatMessage(m), ChatMessageReads(m)
    PROVE  IsTurn(ChatMessageFromWire(m))
<1>1. CASE m.role = "tool"
  <2>1. ChatMessageFromWire(m)
        = Turn("tool", <<Result(m.answer[1].id, m.name, json_or_text(m.answer[1].text), FALSE)>>, m.name)
    BY <1>1 DEF ChatMessageFromWire
  <2> QED
    BY <2>1, ResultTurn
<1>2. CASE m.role # "tool"
  <2> DEFINE parsed == [i \in DOMAIN m.calls |-> [m.calls[i] EXCEPT !.args = @.of]]
  <2>1. AreBlocks(m.content) /\ IsList(m.calls) /\ \A c \in ToSet(m.calls) : c = Call(c.id, c.name, c.args)
    BY DEF IsChatMessage
  <2>2. /\ m.role \in Roles \ {"tool"} /\ (m.content # <<>> \/ m.calls # <<>>)
        /\ \A i \in DOMAIN m.content : IsText(m.content[i])
        /\ m.calls # <<>> => m.role = "assistant"
        /\ \A i \in DOMAIN m.calls : ReadsObject(m.calls[i].args)
    BY <1>2 DEF ChatMessageReads
  <2>3. \A c \in ToSet(m.calls) : ReadsObject(c.args)
    BY <2>1, <2>2, ListFacts
  <2>4. AreBlocks(parsed) /\ \A b \in ToSet(parsed) : IsCall(b) /\ b.args.object
    BY <2>1, <2>3, ParsedCalls
  <2>5. DOMAIN parsed = DOMAIN m.calls
    OBVIOUS
  <2> HIDE DEF parsed
  <2>6. ChatMessageFromWire(m) = Turn(m.role, m.content \o parsed, m.name)
    BY <1>2 DEF ChatMessageFromWire, parsed
  <2>7. IsList(m.content) /\ IsList(parsed)
    BY <2>1, <2>4 DEF AreBlocks
  <2>8. IsList(m.content \o parsed) /\ ToSet(m.content \o parsed) = ToSet(m.content) \cup ToSet(parsed)
    BY <2>7, JoinedList
  <2>9. AreBlocks(m.content \o parsed)
    BY <2>1, <2>4, <2>8 DEF AreBlocks
  <2>10. \A b \in ToSet(m.content) : IsText(b)
    BY <2>2, <2>7, ListFacts
  <2>11. parsed # <<>> => m.role = "assistant"
    <3>1. m.calls = <<>> => DOMAIN parsed = {}
      BY <2>5
    <3>2. parsed = <<>> \/ DOMAIN parsed # {}
      BY <2>7, ListFacts
    <3> QED
      BY <2>2, <3>1, <3>2
  <2>12. ToSet(parsed) # {} => m.role = "assistant"
    BY <2>11, SmallLists
  <2>13. m.content \o parsed # <<>>
    <3>1. ToSet(m.content \o parsed) # {}
      <4>1. CASE m.content # <<>>
        <5>1. 1 \in DOMAIN m.content /\ m.content[1] \in ToSet(m.content)
          BY <2>7, <4>1, ListFacts
        <5> QED
          BY <2>8, <5>1
      <4>2. CASE m.calls # <<>>
        <5>1. 1 \in DOMAIN m.calls
          BY <2>1, <4>2, ListFacts
        <5>2. parsed[1] \in ToSet(parsed)
          BY <2>5, <2>7, <5>1, ListFacts
        <5> QED
          BY <2>8, <5>2
      <4> QED
        BY <2>2, <4>1, <4>2
    <3> QED
      BY <3>1, SmallLists
  <2>14. \A b \in ToSet(m.content \o parsed) :
            IsText(b) \/ (IsCall(b) /\ m.role = "assistant" /\ b.args.object)
    BY <2>4, <2>8, <2>10, <2>12
  <2> QED
    BY <2>2, <2>6, <2>9, <2>13, <2>14, SpokenTurn
<1> QED
  BY <1>1, <1>2

LEMMA ChatParses ==
    ASSUME NEW p, NEW w, IsChatWire(w), ReadsChat(p, w)
    PROVE  IsParsed(ChatName, p, ChatFromWire(p, w))
<1> DEFINE m == [x \in ToSet(w.messages) |-> ChatMessageFromWire(x)]
           turns == [i \in DOMAIN w.messages |-> ChatMessageFromWire(w.messages[i])]
           max == w.max_completion_tokens \o w.max_tokens
<1>1. /\ IsList(w.messages) /\ \A x \in ToSet(w.messages) : IsChatMessage(x)
      /\ AreTools(ChatName, w.tools) /\ IsOutput(w.output) /\ IsChoice(w.choice)
      /\ w.choice # <<>> /\ w.choice[1].mode # "specific" => w.choice[1].name = <<>>
      /\ IsList(w.max_tokens) /\ IsList(w.max_completion_tokens) /\ w.store \in BOOLEAN
  BY DEF IsChatWire
<1>2. /\ FieldsReviewed(p, w.extra) /\ w.model # ""
      /\ \A i \in DOMAIN w.messages : ChatMessageReads(w.messages[i])
      /\ RemoteReads(p, w.tools) /\ ChatChoiceReads(w.choice) /\ StorageAllowed(p, w.store)
  BY DEF ReadsChat
<1>3. AreTurns(turns)
  <2>1. turns = [i \in DOMAIN w.messages |-> m[w.messages[i]]]
    BY <1>1, ListFacts
  <2>2. ASSUME NEW x \in ToSet(w.messages) PROVE IsTurn(m[x])
    <3>1. PICK i \in DOMAIN w.messages : x = w.messages[i]
      BY <1>1, ListFacts
    <3>2. IsTurn(ChatMessageFromWire(x))
      BY <1>1, <1>2, <3>1, ChatTurn
    <3> QED
      BY <3>2
  <2> HIDE DEF m, turns
  <2> QED
    BY <1>1, <2>1, <2>2, TurnsOfWire
<1>4. IsList(max)
  BY <1>1, JoinedList
<1>5. IsCanonicalChoice(w.choice)
  <2>1. CASE w.choice = <<>>
    BY <2>1 DEF IsCanonicalChoice
  <2>2. CASE w.choice # <<>>
    <3>1. w.choice = <<Choice(w.choice[1].mode, w.choice[1].name)>>
      BY <1>1, <2>2, ChoiceForm
    <3>2. \/ w.choice[1].mode \in {"auto", "none", "required"} /\ w.choice[1].name = <<>>
          \/ w.choice[1].mode = "specific" /\ w.choice[1].name # <<>>
      BY <1>1, <1>2, <2>2 DEF ChatChoiceReads
    <3> QED
      BY <3>1, <3>2 DEF IsCanonicalChoice
  <2> QED
    BY <2>1, <2>2
<1>6. ChatFromWire(p, w)
      = CanonicalRequest(w.model, turns, w.tools, w.choice, w.output,
                         Settings(max, w.temperature, w.stop), w.stream, w.store,
                         ExtensionsOf(ChatName, w.extra))
  BY DEF ChatFromWire
<1> HIDE DEF m, turns, max
<1>7. AreTools(ChatName, w.tools) /\ RemoteReads(p, w.tools)
  BY <1>1, <1>2
<1>8. CarriesTools(ChatName, p, w.tools)
  BY <1>7, ToolsAreCanonical DEF CarriesTools
<1>9. AreParts(ChatName, p, w.model, turns, w.tools, w.choice, w.output, max, w.store, w.extra)
  BY <1>1, <1>2, <1>3, <1>4, <1>5, <1>8 DEF AreParts
<1> QED
  BY <1>6, <1>9, Assembled

\* The turn of instructions that stand apart.
LEMMA InstructionTurn ==
    ASSUME NEW blocks, AreBlocks(blocks), blocks # <<>>, \A b \in ToSet(blocks) : IsText(b)
    PROVE  AreTurns(<<Turn("system", blocks, <<>>)>>)
<1> DEFINE t == Turn("system", blocks, <<>>)
<1>1. "system" \in Roles \ {"tool"}
  BY DEF Roles
<1>2. IsTurn(t)
  BY <1>1, SpokenTurn
<1> HIDE DEF t
<1>3. AreTurns(<<t>>)
  BY <1>2, SmallLists DEF AreTurns
<1> QED
  BY <1>3 DEF t

LEMMA OneText ==
    ASSUME NEW text, IsList(text)
    PROVE  AreBlocks(<<Text(text)>>) /\ <<Text(text)>> # <<>> /\ \A b \in ToSet(<<Text(text)>>) : IsText(b)
<1> DEFINE t == Text(text)
<1>1. IsText(t) /\ t = Text(t.text) /\ IsList(t.text)
  BY DEF Text, IsText
<1> HIDE DEF t
<1>2. IsBlock(t)
  BY <1>1 DEF IsBlock
<1>3. AreBlocks(<<t>>) /\ <<t>> # <<>> /\ \A b \in ToSet(<<t>>) : IsText(b)
  BY <1>1, <1>2, SmallLists DEF AreBlocks
<1> QED
  BY <1>3 DEF t

LEMMA NoTurns == AreTurns(<<>>)
BY SmallLists DEF AreTurns

\* A turn of one call.
LEMMA CallTurn ==
    ASSUME NEW b, NEW t, IsBlock(b), IsCall(b), b.args.object, t = Turn("assistant", <<b>>, <<>>)
    PROVE  IsTurn(t)
<1>1. AreBlocks(<<b>>) /\ <<b>> # <<>> /\ ToSet(<<b>>) = {b}
  BY SmallLists DEF AreBlocks
<1>2. "assistant" \in Roles \ {"tool"}
  BY DEF Roles
<1> QED
  BY <1>1, <1>2, SpokenTurn

-----------------------------------------------------------------------------
(* So is what the Responses adapter reads, *)

LEMMA ItemTurn ==
    ASSUME NEW item, IsItem(item), ItemReads(item)
    PROVE  IsTurn(ItemFromWire(item))
<1>1. CASE item.type = "message"
  <2>1. AreBlocks(item.content) /\ item.role \in Roles \ {"tool"} /\ item.content # <<>>
        /\ \A i \in DOMAIN item.content : IsText(item.content[i])
    BY <1>1 DEF IsItem, ItemReads
  <2>2. \A b \in ToSet(item.content) : IsText(b)
    BY <2>1, ListFacts DEF AreBlocks
  <2>3. ItemFromWire(item) = Turn(item.role, item.content, <<>>)
    BY <1>1 DEF ItemFromWire
  <2> QED
    BY <2>1, <2>2, <2>3, SpokenTurn
<1>2. CASE item.type = "function_call"
  <2> DEFINE b == [item.call EXCEPT !.args = @.of]
  <2>1. item.call = Call(item.call.id, item.call.name, item.call.args) /\ ReadsObject(item.call.args)
    BY <1>2 DEF IsItem, ItemReads
  <2>2. IsBlock(b) /\ IsCall(b) /\ b.args.object
    BY <2>1, ParsedCall
  <2>3. ItemFromWire(item) = Turn("assistant", <<b>>, <<>>)
    BY <1>2 DEF ItemFromWire
  <2> HIDE DEF b
  <2> QED
    BY <2>2, <2>3, CallTurn
<1>3. CASE item.type = "function_call_output"
  <2>1. ItemFromWire(item) = Turn("tool", <<Result(item.id, <<>>, json_or_text(item.text), FALSE)>>, <<>>)
    BY <1>3 DEF ItemFromWire
  <2> QED
    BY <2>1, ResultTurn
<1> QED
  BY <1>1, <1>2, <1>3 DEF ItemReads

\* The modes in one word.
LEMMA SimpleChoice ==
    ASSUME NEW mode \in DOMAIN SimpleModes
    PROVE  IsCanonicalChoice(<<Choice(SimpleModes[mode], <<>>)>>)
<1>1. mode \in {"auto", "none", "required", "any"}
  BY DEF SimpleModes
<1>2. SimpleModes[mode] \in {"auto", "none", "required"}
  BY <1>1 DEF SimpleModes
<1> QED
  BY <1>2 DEF IsCanonicalChoice

LEMMA ResponsesParses ==
    ASSUME NEW p, NEW w, IsResponsesWire(w), ReadsResponses(p, w)
    PROVE  IsParsed(ResponsesName, p, ResponsesFromWire(p, w))
<1> DEFINE m == [x \in ToSet(w.input) |-> ItemFromWire(x)]
           first == IF w.instructions = <<>> THEN <<>>
                    ELSE <<Turn("system", <<Text(w.instructions[1])>>, <<>>)>>
           items == [i \in DOMAIN w.input |-> ItemFromWire(w.input[i])]
<1>1. /\ IsList(w.input) /\ \A item \in ToSet(w.input) : IsItem(item)
      /\ Optional(w.instructions) /\ (w.instructions # <<>> => IsList(w.instructions[1]))
      /\ AreTools(ResponsesName, w.tools) /\ IsOutput(w.output) /\ IsChoice(w.choice)
      /\ IsList(w.max) /\ w.store \in BOOLEAN
  BY DEF IsResponsesWire
<1>2. /\ FieldsReviewed(p, w.extra) /\ \A i \in DOMAIN w.input : ItemReads(w.input[i])
      /\ RemoteReads(p, w.tools) /\ w.model # "" /\ ResponsesChoiceReads(w.choice)
      /\ StorageAllowed(p, w.store)
  BY DEF ReadsResponses
<1>3. AreTurns(items)
  <2>1. items = [i \in DOMAIN w.input |-> m[w.input[i]]]
    BY <1>1, ListFacts
  <2>2. ASSUME NEW x \in ToSet(w.input) PROVE IsTurn(m[x])
    <3>1. PICK i \in DOMAIN w.input : x = w.input[i]
      BY <1>1, ListFacts
    <3>2. IsTurn(ItemFromWire(x))
      BY <1>1, <1>2, <3>1, ItemTurn
    <3> QED
      BY <3>2
  <2> HIDE DEF m, items
  <2> QED
    BY <1>1, <2>1, <2>2, TurnsOfWire
<1>4. AreTurns(first)
  BY <1>1, OneText, InstructionTurn, NoTurns
<1>5. IsCanonicalChoice(ResponsesChoiceFromWire(w.choice))
  <2>1. CASE w.choice = <<>>
    BY <2>1 DEF IsCanonicalChoice, ResponsesChoiceFromWire
  <2>2. CASE w.choice # <<>> /\ w.choice[1].mode = "function"
    <3>1. w.choice[1].name # <<>>
      <4>1. "function" \notin DOMAIN SimpleModes
        BY DEF SimpleModes
      <4> QED
        BY <1>2, <2>2, <4>1 DEF ResponsesChoiceReads
    <3>2. ResponsesChoiceFromWire(w.choice) = <<Choice("specific", w.choice[1].name)>>
      BY <2>2 DEF ResponsesChoiceFromWire
    <3> QED
      BY <3>1, <3>2 DEF IsCanonicalChoice
  <2>3. CASE w.choice # <<>> /\ w.choice[1].mode # "function"
    <3>1. w.choice[1].mode \in DOMAIN SimpleModes
      BY <1>2, <2>3 DEF ResponsesChoiceReads
    <3>2. ResponsesChoiceFromWire(w.choice) = <<Choice(SimpleModes[w.choice[1].mode], <<>>)>>
      BY <2>3 DEF ResponsesChoiceFromWire
    <3> QED
      BY <3>1, <3>2, SimpleChoice
  <2> QED
    BY <2>1, <2>2, <2>3
<1>6. ResponsesFromWire(p, w)
      = CanonicalRequest(w.model, first \o items, w.tools, ResponsesChoiceFromWire(w.choice), w.output,
                         Settings(w.max, w.temperature, <<>>), w.stream, w.store,
                         ExtensionsOf(ResponsesName, w.extra))
  BY DEF ResponsesFromWire
<1> HIDE DEF m, first, items
<1>7. AreTurns(first \o items)
  BY <1>3, <1>4, JoinedTurns
<1>8. CarriesTools(ResponsesName, p, w.tools)
  <2>1. AreTools(ResponsesName, w.tools) /\ RemoteReads(p, w.tools)
    BY <1>1, <1>2
  <2> QED
    BY <2>1, ToolsAreCanonical DEF CarriesTools
<1>9. AreParts(ResponsesName, p, w.model, first \o items, w.tools, ResponsesChoiceFromWire(w.choice),
               w.output, w.max, w.store, w.extra)
  BY <1>1, <1>2, <1>5, <1>7, <1>8 DEF AreParts
<1> QED
  BY <1>6, <1>9, Assembled

-----------------------------------------------------------------------------
(* what the adapter of Anthropic reads, *)

LEMMA AnthropicTurn ==
    ASSUME NEW m, AreBlocks(m.content), AnthropicMessageReads(m)
    PROVE  IsTurn(AnthropicMessageFromWire(m))
<1>1. /\ m.role \in {"user", "assistant"} /\ m.content # <<>>
      /\ \A i \in DOMAIN m.content : BlockReads(m.role, m.content[i])
      /\ (\E i \in DOMAIN m.content : IsResult(m.content[i])) => Len(m.content) = 1
  BY DEF AnthropicMessageReads
<1>2. IsList(m.content) /\ 1 \in DOMAIN m.content
  BY <1>1, ListFacts DEF AreBlocks
<1>3. CASE IsResult(m.content[1])
  <2>1. AnthropicMessageFromWire(m)
        = Turn("tool", <<Result(m.content[1].id, <<>>, json_or_text(m.content[1].value),
                                m.content[1].error)>>, <<>>)
    BY <1>3 DEF AnthropicMessageFromWire
  <2> QED
    BY <2>1, ResultTurn
<1>4. CASE ~ IsResult(m.content[1])
  <2>1. AnthropicMessageFromWire(m) = Turn(m.role, m.content, <<>>)
    BY <1>4 DEF AnthropicMessageFromWire
  <2>2. ASSUME NEW b \in ToSet(m.content)
        PROVE  IsText(b) \/ (IsCall(b) /\ m.role = "assistant" /\ b.args.object)
    <3>1. PICK i \in DOMAIN m.content : b = m.content[i]
      BY <1>2, ListFacts
    <3>2. ~ IsResult(b)
      <4>1. ASSUME IsResult(b) PROVE FALSE
        <5>1. Len(m.content) = 1
          BY <1>1, <3>1, <4>1
        <5>2. i = 1
          BY <1>2, <3>1, <5>1, ListFacts
        <5> QED
          BY <1>4, <3>1, <4>1, <5>2
      <4> QED
        BY <4>1
    <3> QED
      BY <1>1, <3>1, <3>2 DEF BlockReads
  <2>3. m.role \in Roles \ {"tool"}
    BY <1>1 DEF Roles
  <2> QED
    BY <1>1, <2>1, <2>2, <2>3, SpokenTurn
<1> QED
  BY <1>3, <1>4

LEMMA AnthropicChoice ==
    ASSUME NEW choice, AnthropicChoiceReads(choice)
    PROVE  IsCanonicalChoice(AnthropicChoiceFromWire(choice))
<1>1. CASE choice = <<>>
  BY <1>1 DEF IsCanonicalChoice, AnthropicChoiceFromWire
<1>2. CASE choice # <<>> /\ choice[1].mode = "tool"
  <2>1. choice[1].name # <<>>
    <3>1. "tool" \notin DOMAIN ModeFromWire
      BY DEF ModeFromWire
    <3> QED
      BY <1>2, <3>1 DEF AnthropicChoiceReads
  <2>2. AnthropicChoiceFromWire(choice) = <<Choice("specific", choice[1].name)>>
    BY <1>2 DEF AnthropicChoiceFromWire
  <2> QED
    BY <2>1, <2>2 DEF IsCanonicalChoice
<1>3. CASE choice # <<>> /\ choice[1].mode # "tool"
  <2>1. choice[1].mode \in {"auto", "none", "any"}
    BY <1>3 DEF AnthropicChoiceReads, ModeFromWire
  <2>2. ModeFromWire[choice[1].mode] \in {"auto", "none", "required"}
    BY <2>1 DEF ModeFromWire
  <2>3. AnthropicChoiceFromWire(choice) = <<Choice(ModeFromWire[choice[1].mode], <<>>)>>
    BY <1>3 DEF AnthropicChoiceFromWire
  <2> QED
    BY <2>2, <2>3 DEF IsCanonicalChoice
<1> QED
  BY <1>1, <1>2, <1>3

\* The two formats that have one schema only call it by this name.
LEMMA OneOutput ==
    /\ IsOutput(<<>>) /\ IsOutput(<<Output("response", TRUE)>>)
    /\ \A condition \in BOOLEAN : IsOutput(IF condition THEN <<>> ELSE <<Output("response", TRUE)>>)
<1>1. IsOutput(<<>>)
  BY SmallLists DEF IsOutput, Optional
<1> DEFINE o == Output("response", TRUE)
<1>2. o = Output(o.name, o.strict) /\ o.strict \in BOOLEAN
  BY DEF Output
<1> HIDE DEF o
<1>3. IsOutput(<<o>>)
  BY <1>2, SmallLists DEF IsOutput, Optional
<1> QED
  BY <1>1, <1>3 DEF o

LEMMA AnthropicParses ==
    ASSUME NEW p, NEW w, IsAnthropicWire(w), ReadsAnthropic(p, w)
    PROVE  IsParsed(AnthropicName, p, AnthropicFromWire(p, w))
<1> DEFINE m == [x \in ToSet(w.messages) |-> AnthropicMessageFromWire(x)]
           first == IF w.system = <<>> THEN <<>> ELSE <<Turn("system", w.system[1], <<>>)>>
           messages == [i \in DOMAIN w.messages |-> AnthropicMessageFromWire(w.messages[i])]
           output == IF w.format = <<>> THEN <<>> ELSE <<Output("response", TRUE)>>
<1>1. /\ IsList(w.messages) /\ \A x \in ToSet(w.messages) : AreBlocks(x.content)
      /\ Optional(w.system)
      /\ w.system # <<>> => AreBlocks(w.system[1]) /\ \A b \in ToSet(w.system[1]) : IsText(b)
      /\ AreTools(AnthropicName, w.tools) /\ IsChoice(w.choice) /\ IsList(w.format)
      /\ IsList(w.max_tokens)
  BY DEF IsAnthropicWire
<1>2. /\ FieldsReviewed(p, w.extra) /\ (w.system # <<>> => w.system[1] # <<>>)
      /\ \A i \in DOMAIN w.messages : AnthropicMessageReads(w.messages[i])
      /\ w.model # "" /\ RemoteReads(p, w.tools) /\ AnthropicChoiceReads(w.choice)
  BY DEF ReadsAnthropic
<1>3. AreTurns(messages)
  <2>1. messages = [i \in DOMAIN w.messages |-> m[w.messages[i]]]
    BY <1>1, ListFacts
  <2>2. ASSUME NEW x \in ToSet(w.messages) PROVE IsTurn(m[x])
    <3>1. PICK i \in DOMAIN w.messages : x = w.messages[i]
      BY <1>1, ListFacts
    <3>2. IsTurn(AnthropicMessageFromWire(x))
      BY <1>1, <1>2, <3>1, AnthropicTurn
    <3> QED
      BY <3>2
  <2> HIDE DEF m, messages
  <2> QED
    BY <1>1, <2>1, <2>2, TurnsOfWire
<1>4. AreTurns(first)
  BY <1>1, <1>2, InstructionTurn, NoTurns
<1>5. IsOutput(output)
  BY OneOutput
<1>6. AnthropicFromWire(p, w)
      = CanonicalRequest(w.model, first \o messages, w.tools, AnthropicChoiceFromWire(w.choice), output,
                         Settings(w.max_tokens, w.temperature, w.stop_sequences), w.stream, FALSE,
                         ExtensionsOf(AnthropicName, w.extra))
  BY DEF AnthropicFromWire
<1> HIDE DEF m, first, messages, output
<1>7. AreTurns(first \o messages)
  BY <1>3, <1>4, JoinedTurns
<1>8. CarriesTools(AnthropicName, p, w.tools)
  <2>1. AreTools(AnthropicName, w.tools) /\ RemoteReads(p, w.tools)
    BY <1>1, <1>2
  <2> QED
    BY <2>1, ToolsAreCanonical DEF CarriesTools
<1>9. StorageAllowed(p, FALSE)
  BY DEF StorageAllowed
<1>10. AreParts(AnthropicName, p, w.model, first \o messages, w.tools, AnthropicChoiceFromWire(w.choice),
               output, w.max_tokens, FALSE, w.extra)
  BY <1>1, <1>2, <1>5, <1>7, <1>8, <1>9, AnthropicChoice DEF AreParts
<1> QED
  BY <1>6, <1>10, Assembled

-----------------------------------------------------------------------------
(* what the adapter of Gemini's generateContent reads, *)

LEMMA GeminiTurn ==
    ASSUME NEW c, AreBlocks(c.parts), ContentReads(c)
    PROVE  IsTurn(ContentFromWire(c))
<1>1. /\ c.role \in {"user", "model"} /\ c.parts # <<>>
      /\ \A i \in DOMAIN c.parts : PartReads(c.role, c.parts[i])
      /\ (\E i \in DOMAIN c.parts : IsResult(c.parts[i])) => Len(c.parts) = 1
  BY DEF ContentReads
<1>2. IsList(c.parts) /\ 1 \in DOMAIN c.parts /\ DOMAIN c.parts = 1 .. Len(c.parts)
      /\ c.parts \in Seq(ToSet(c.parts))
  BY <1>1, ListFacts DEF AreBlocks
<1>3. CASE IsResult(c.parts[1])
  <2> DEFINE b == c.parts[1]
             t == ContentFromWire(c)
  <2>0. c.role = "user"
    BY <1>1, <1>2, <1>3 DEF PartReads, IsResult, IsText, IsCall
  <2>1. t = Turn("tool", c.parts, <<>>)
    BY <1>3, <2>0 DEF ContentFromWire
  <2>2. Len(c.parts) = 1
    BY <1>1, <1>2, <1>3
  <2> HIDE DEF t
  <2>3. t.role = "tool" /\ t.content = c.parts /\ t = Turn(t.role, t.content, t.name)
    BY <2>1, FieldsOfTurns
  <2>4. OneResult(t)
    BY <1>3, <2>2, <2>3 DEF OneResult
  <2>5. \A x \in ToSet(c.parts) : x = b
    BY <1>2, <2>2, ListFacts
  <2> QED
    BY <1>1, <1>3, <2>3, <2>4, <2>5 DEF IsTurn, AllowedIn, Roles, t
<1>4. CASE ~ IsResult(c.parts[1])
  <2> DEFINE role == IF c.role = "model" THEN "assistant" ELSE "user"
  <2>1. ContentFromWire(c) = Turn(role, c.parts, <<>>)
    BY <1>4 DEF ContentFromWire
  <2>2. ASSUME NEW b \in ToSet(c.parts)
        PROVE  IsText(b) \/ (IsCall(b) /\ role = "assistant" /\ b.args.object)
    <3>1. PICK i \in DOMAIN c.parts : b = c.parts[i]
      BY <1>2, ListFacts
    <3>2. ~ IsResult(b)
      <4>1. ASSUME IsResult(b) PROVE FALSE
        <5>1. Len(c.parts) = 1
          BY <1>1, <3>1, <4>1
        <5>2. i = 1
          BY <1>2, <3>1, <5>1
        <5> QED
          BY <1>4, <3>1, <4>1, <5>2
      <4> QED
        BY <4>1
    <3> QED
      BY <1>1, <3>1, <3>2 DEF PartReads
  <2>3. role \in Roles \ {"tool"}
    BY DEF Roles
  <2> HIDE DEF role
  <2> QED
    BY <1>1, <2>1, <2>2, <2>3, SpokenTurn
<1> QED
  BY <1>3, <1>4

\* The tools of an entry.
DeclaredIn(entry) ==
    IF entry.kind = "declarations"
    THEN [j \in DOMAIN entry.names |-> Function(entry.names[j], FALSE)] ELSE <<entry>>

LEMMA EntryTools ==
    ASSUME NEW entry, IsEntry(entry)
    PROVE  /\ IsList(DeclaredIn(entry))
           /\ \A t \in ToSet(DeclaredIn(entry)) :
                 \/ IsFunction(t) /\ t = Function(t.name, t.strict) /\ t.strict = FALSE
                 \/ t = entry /\ t.kind = "remote" /\ t = Remote(GeminiName, t.type)
<1>1. CASE entry.kind = "declarations"
  <2> DEFINE m == [x \in ToSet(entry.names) |-> Function(x, FALSE)]
  <2>1. IsList(entry.names)
    BY <1>1 DEF IsEntry
  <2>2. DeclaredIn(entry) = [j \in DOMAIN entry.names |-> m[entry.names[j]]]
    BY <1>1, <2>1, ListFacts DEF DeclaredIn
  <2>3. \A x \in ToSet(entry.names) : m[x] = Function(x, FALSE)
    OBVIOUS
  <2> HIDE DEF m
  <2>4. IsList(DeclaredIn(entry)) /\ ToSet(DeclaredIn(entry)) = {m[x] : x \in ToSet(entry.names)}
    BY <2>1, <2>2, Mapped, SMTT(60)
  <2>5. ASSUME NEW t \in ToSet(DeclaredIn(entry))
        PROVE  IsFunction(t) /\ t = Function(t.name, t.strict) /\ t.strict = FALSE
    <3>1. PICK x \in ToSet(entry.names) : t = m[x]
      BY <2>4
    <3>2. t = Function(x, FALSE)
      BY <2>3, <3>1
    <3> QED
      BY <3>2 DEF Function, IsFunction
  <2> QED
    BY <2>4, <2>5
<1>2. CASE entry.kind # "declarations"
  <2>1. DeclaredIn(entry) = <<entry>> /\ entry.kind = "remote" /\ entry = Remote(GeminiName, entry.type)
    BY <1>2 DEF IsEntry, DeclaredIn
  <2> QED
    BY <2>1, SmallLists
<1> QED
  BY <1>1, <1>2

LEMMA ToolsFromEntries ==
    ASSUME NEW entries, IsList(entries), \A entry \in ToSet(entries) : IsEntry(entry)
    PROVE  LET g == [entry \in ToSet(entries) |-> DeclaredIn(entry)]
           IN  /\ ToolsFromWire(entries) = Bind(entries, g) /\ Maps(entries, g)
               /\ AreTools(GeminiName, ToolsFromWire(entries))
               /\ \A t \in ToSet(ToolsFromWire(entries)) : IsFunction(t) \/ t \in ToSet(entries)
<1> DEFINE g == [entry \in ToSet(entries) |-> DeclaredIn(entry)]
           tools == ToolsFromWire(entries)
<1>1. [i \in DOMAIN entries |-> g[entries[i]]]
      = [i \in DOMAIN entries |->
          IF entries[i].kind = "declarations"
          THEN [j \in DOMAIN entries[i].names |-> Function(entries[i].names[j], FALSE)]
          ELSE <<entries[i]>>]
  BY ListFacts DEF DeclaredIn
<1>2. tools = Bind(entries, g)
  BY <1>1 DEF ToolsFromWire, Bind
<1>3. \A entry \in ToSet(entries) : g[entry] = DeclaredIn(entry)
  OBVIOUS
<1> HIDE DEF g
<1>4. Maps(entries, g)
  BY <1>3, EntryTools DEF Maps
<1>5. IsList(Bind(entries, g)) /\ ToSet(Bind(entries, g)) = UNION {ToSet(g[x]) : x \in ToSet(entries)}
  BY <1>4, BindMembers
<1> HIDE DEF tools
<1>6. ASSUME NEW t \in ToSet(tools)
      PROVE  /\ \/ IsFunction(t) /\ t = Function(t.name, t.strict) /\ t.strict \in BOOLEAN
                \/ t.kind = "remote" /\ t = Remote(GeminiName, t.type)
             /\ IsFunction(t) \/ t \in ToSet(entries)
  <2>1. PICK entry \in ToSet(entries) : t \in ToSet(DeclaredIn(entry))
    BY <1>2, <1>3, <1>5
  <2>2. \/ IsFunction(t) /\ t = Function(t.name, t.strict) /\ t.strict = FALSE
        \/ t = entry /\ t.kind = "remote" /\ t = Remote(GeminiName, t.type)
    BY <2>1, EntryTools
  <2> QED
    BY <2>2
<1>7. AreTools(GeminiName, tools)
  BY <1>2, <1>5, <1>6 DEF AreTools
<1> QED
  BY <1>2, <1>4, <1>6, <1>7 DEF tools, g

LEMMA GeminiChoice ==
    ASSUME NEW choice, GeminiChoiceReads(choice)
    PROVE  IsCanonicalChoice(GeminiChoiceFromWire(choice))
<1> DEFINE c == choice[1]
<1>1. CASE choice = <<>>
  BY <1>1 DEF IsCanonicalChoice, GeminiChoiceFromWire
<1>2. CASE choice # <<>> /\ c.mode = "ANY" /\ c.name # <<>>
  <2>1. GeminiChoiceFromWire(choice) = <<Choice("specific", c.name)>>
    BY <1>2 DEF GeminiChoiceFromWire
  <2> QED
    BY <1>2, <2>1 DEF IsCanonicalChoice
<1>3. CASE choice # <<>> /\ c.mode = "ANY" /\ c.name = <<>>
  <2>1. GeminiChoiceFromWire(choice) = <<Choice("required", <<>>)>>
    BY <1>3 DEF GeminiChoiceFromWire
  <2> QED
    BY <2>1 DEF IsCanonicalChoice
<1>4. CASE choice # <<>> /\ c.mode = "AUTO"
  <2>1. GeminiChoiceFromWire(choice) = <<Choice("auto", <<>>)>>
    BY <1>4 DEF GeminiChoiceFromWire
  <2> QED
    BY <2>1 DEF IsCanonicalChoice
<1>5. CASE choice # <<>> /\ c.mode = "NONE"
  <2>1. GeminiChoiceFromWire(choice) = <<Choice("none", <<>>)>>
    BY <1>5 DEF GeminiChoiceFromWire
  <2> QED
    BY <2>1 DEF IsCanonicalChoice
<1> QED
  BY <1>1, <1>2, <1>3, <1>4, <1>5 DEF GeminiChoiceReads

LEMMA GeminiParses ==
    ASSUME NEW p, NEW w, IsGeminiWire(w), ReadsGemini(p, w)
    PROVE  IsParsed(GeminiName, p, GeminiFromWire(p, w))
<1> DEFINE m == [x \in ToSet(w.contents) |-> ContentFromWire(x)]
           first == IF w.systemInstruction = <<>> THEN <<>>
                    ELSE <<Turn("system", w.systemInstruction[1], <<>>)>>
           contents == [i \in DOMAIN w.contents |-> ContentFromWire(w.contents[i])]
           output == IF w.responseSchema THEN <<Output("response", TRUE)>> ELSE <<>>
           tools == ToolsFromWire(w.tools)
<1>1. /\ IsList(w.contents) /\ \A c \in ToSet(w.contents) : AreBlocks(c.parts)
      /\ Optional(w.systemInstruction)
      /\ w.systemInstruction # <<>> =>
            /\ AreBlocks(w.systemInstruction[1])
            /\ \A b \in ToSet(w.systemInstruction[1]) : IsText(b)
      /\ IsList(w.tools) /\ \A entry \in ToSet(w.tools) : IsEntry(entry)
      /\ IsList(w.maxOutputTokens) /\ w.responseSchema \in BOOLEAN
  BY DEF IsGeminiWire
<1>2. /\ FieldsReviewed(p, w.extra) /\ (w.systemInstruction # <<>> => w.systemInstruction[1] # <<>>)
      /\ \A i \in DOMAIN w.contents : ContentReads(w.contents[i])
      /\ w.model # "" /\ RemoteReads(p, tools) /\ GeminiChoiceReads(w.toolConfig)
  BY DEF ReadsGemini
<1>3. AreTurns(contents)
  <2>1. contents = [i \in DOMAIN w.contents |-> m[w.contents[i]]]
    BY <1>1, ListFacts
  <2>2. ASSUME NEW x \in ToSet(w.contents) PROVE IsTurn(m[x])
    <3>1. PICK i \in DOMAIN w.contents : x = w.contents[i]
      BY <1>1, ListFacts
    <3>2. IsTurn(ContentFromWire(x))
      BY <1>1, <1>2, <3>1, GeminiTurn
    <3> QED
      BY <3>2
  <2> HIDE DEF m, contents
  <2> QED
    BY <1>1, <2>1, <2>2, TurnsOfWire
<1>4. AreTurns(first)
  BY <1>1, <1>2, InstructionTurn, NoTurns
<1>5. IsOutput(output)
  BY OneOutput
<1>6. GeminiFromWire(p, w)
      = CanonicalRequest(w.model, first \o contents, tools, GeminiChoiceFromWire(w.toolConfig), output,
                         Settings(w.maxOutputTokens, w.temperature, w.stopSequences), w.stream, FALSE,
                         ExtensionsOf(GeminiName, w.extra))
  BY DEF GeminiFromWire
<1>7. CarriesTools(GeminiName, p, tools)
  <2>1. AreTools(GeminiName, tools)
    BY <1>1, ToolsFromEntries
  <2> HIDE DEF tools
  <2> QED
    BY <1>2, <2>1, ToolsAreCanonical DEF CarriesTools
<1> HIDE DEF m, first, contents, output, tools
<1>8. AreTurns(first \o contents)
  BY <1>3, <1>4, JoinedTurns
<1>9. StorageAllowed(p, FALSE)
  BY DEF StorageAllowed
<1>10. AreParts(GeminiName, p, w.model, first \o contents, tools, GeminiChoiceFromWire(w.toolConfig),
               output, w.maxOutputTokens, FALSE, w.extra)
  BY <1>1, <1>2, <1>5, <1>7, <1>8, <1>9, GeminiChoice DEF AreParts
<1> QED
  BY <1>6, <1>10, Assembled

-----------------------------------------------------------------------------
(* and what the adapter of Gemini Interactions reads. *)

LEMMA StepTurn ==
    ASSUME NEW step, IsStep(step), StepReads(step)
    PROVE  IsTurn(StepFromWire(step))
<1>1. CASE step.type \in {"user_input", "model_output"}
  <2> DEFINE role == IF step.type = "user_input" THEN "user" ELSE "assistant"
  <2>1. AreBlocks(step.content) /\ step.content # <<>>
        /\ \A i \in DOMAIN step.content : IsText(step.content[i])
    BY <1>1 DEF IsStep, StepReads
  <2>2. \A b \in ToSet(step.content) : IsText(b)
    BY <2>1, ListFacts DEF AreBlocks
  <2>3. StepFromWire(step) = Turn(role, step.content, <<>>)
    BY <1>1 DEF StepFromWire
  <2>4. role \in Roles \ {"tool"}
    BY DEF Roles
  <2> HIDE DEF role
  <2> QED
    BY <2>1, <2>2, <2>3, <2>4, SpokenTurn
<1>2. CASE step.type = "function_call"
  <2>1. step.call = Call(step.call.id, step.call.name, step.call.args) /\ step.call.args.object
    BY <1>2 DEF IsStep, StepReads
  <2>2. IsCall(step.call)
    BY <2>1 DEF IsCall, Call
  <2>3. IsBlock(step.call)
    BY <2>1, <2>2 DEF IsBlock
  <2>4. StepFromWire(step) = Turn("assistant", <<step.call>>, <<>>)
    BY <1>2 DEF StepFromWire
  <2> QED
    BY <2>1, <2>2, <2>3, <2>4, CallTurn
<1>3. CASE step.type = "function_result"
  <2>1. StepFromWire(step) = Turn("tool", <<Result(step.id, step.name, json_or_text(step.text), FALSE)>>, <<>>)
    BY <1>3 DEF StepFromWire
  <2> QED
    BY <2>1, ResultTurn
<1> QED
  BY <1>1, <1>2, <1>3 DEF StepReads

LEMMA InteractionsTools ==
    ASSUME NEW p, NEW tools, AreTools(InteractionsName, tools), RemoteReads(p, tools)
    PROVE  CarriesTools(InteractionsName, p, [i \in DOMAIN tools |-> ToolFromWire(tools[i])])
<1> DEFINE m == [t \in ToSet(tools) |-> ToolFromWire(t)]
           got == [i \in DOMAIN tools |-> ToolFromWire(tools[i])]
<1>1. IsList(tools) /\ \A t \in ToSet(tools) : IsCanonicalTool(t)
                         /\ (~ IsFunction(t) => p.remote /\ t.provider = InteractionsName)
  BY ToolsAreCanonical
<1>2. got = [i \in DOMAIN tools |-> m[tools[i]]]
  BY <1>1, ListFacts
<1>3. \A t \in ToSet(tools) : m[t] = ToolFromWire(t)
  OBVIOUS
<1> HIDE DEF m, got
<1>4. IsList(got) /\ ToSet(got) = {m[t] : t \in ToSet(tools)}
  <2>1. IsList(tools)
    BY <1>1
  <2> QED
    BY ONLY <2>1, <1>2, MappedTo, SMTT(60)
<1>5. ASSUME NEW t \in ToSet(got)
      PROVE  IsCanonicalTool(t) /\ (~ IsFunction(t) => p.remote /\ t.provider = InteractionsName)
  <2>1. PICK x \in ToSet(tools) : t = ToolFromWire(x)
    BY <1>3, <1>4
  <2>2. CASE IsFunction(x)
    <3>1. t = Function(x.name, FALSE)
      BY <2>1, <2>2 DEF ToolFromWire
    <3> QED
      BY <3>1 DEF IsCanonicalTool, Function, IsFunction
  <2>3. CASE ~ IsFunction(x)
    BY <1>1, <2>1, <2>3 DEF ToolFromWire
  <2> QED
    BY <2>2, <2>3
<1> QED
  BY <1>4, <1>5 DEF CarriesTools, got

LEMMA InteractionsChoice ==
    ASSUME NEW choice, IsChoice(choice), InteractionsChoiceReads(choice)
    PROVE  /\ IsCanonicalChoice([i \in DOMAIN choice |-> Choice(SimpleModes[choice[i].mode], <<>>)])
           /\ choice = <<>> => [i \in DOMAIN choice |-> Choice(SimpleModes[choice[i].mode], <<>>)] = <<>>
           /\ choice # <<>> => [i \in DOMAIN choice |-> Choice(SimpleModes[choice[i].mode], <<>>)]
                               = <<Choice(SimpleModes[choice[1].mode], <<>>)>>
<1> DEFINE got == [i \in DOMAIN choice |-> Choice(SimpleModes[choice[i].mode], <<>>)]
<1>1. CASE choice = <<>>
  <2>1. got = <<>>
    BY <1>1
  <2> HIDE DEF got
  <2> QED
    BY <1>1, <2>1 DEF IsCanonicalChoice, got
<1>2. CASE choice # <<>>
  <2>1. Len(choice) = 1 /\ DOMAIN choice = 1 .. 1
    <3>1. DOMAIN choice = 1 .. Len(choice) /\ Len(choice) \in Nat /\ Len(choice) <= 1
          /\ choice \in Seq(ToSet(choice))
      BY ListFacts DEF IsChoice, Optional
    <3> QED
      BY <1>2, <3>1
  <2>2. got = <<Choice(SimpleModes[choice[1].mode], <<>>)>>
    BY <2>1
  <2>3. choice[1].mode \in DOMAIN SimpleModes
    BY <1>2 DEF InteractionsChoiceReads
  <2> HIDE DEF got
  <2>4. IsCanonicalChoice(got)
    BY <2>2, <2>3, SimpleChoice
  <2> QED
    BY <1>2, <2>2, <2>4 DEF got
<1> QED
  BY <1>1, <1>2

LEMMA InteractionsParses ==
    ASSUME NEW p, NEW w, IsInteractionsWire(w), ReadsInteractions(p, w)
    PROVE  IsParsed(InteractionsName, p, InteractionsFromWire(p, w))
<1> DEFINE m == [x \in ToSet(w.input) |-> StepFromWire(x)]
           first == IF w.system_instruction = <<>> THEN <<>>
                    ELSE <<Turn("system", <<Text(w.system_instruction[1])>>, <<>>)>>
           steps == [i \in DOMAIN w.input |-> StepFromWire(w.input[i])]
           output == IF w.response_format = <<>> THEN <<>> ELSE <<Output("response", TRUE)>>
           tools == [i \in DOMAIN w.tools |-> ToolFromWire(w.tools[i])]
           choice == [i \in DOMAIN w.choice |-> Choice(SimpleModes[w.choice[i].mode], <<>>)]
           extra == w.extra \cup (IF w.previous THEN {Previous} ELSE {})
<1>1. /\ IsList(w.input) /\ \A step \in ToSet(w.input) : IsStep(step)
      /\ w.system_instruction # <<>> => IsList(w.system_instruction[1])
      /\ AreTools(InteractionsName, w.tools) /\ IsChoice(w.choice)
      /\ IsList(w.max) /\ w.store \in BOOLEAN
  BY DEF IsInteractionsWire
<1>2. /\ FieldsReviewed(p, w.extra) /\ StorageAllowed(p, w.store)
      /\ w.previous => PreviousAllowed(p, w.store)
      /\ \A i \in DOMAIN w.input : StepReads(w.input[i])
      /\ w.model # "" /\ RemoteReads(p, w.tools) /\ InteractionsChoiceReads(w.choice)
  BY DEF ReadsInteractions
<1>3. AreTurns(steps)
  <2>1. steps = [i \in DOMAIN w.input |-> m[w.input[i]]]
    BY <1>1, ListFacts
  <2>2. ASSUME NEW x \in ToSet(w.input) PROVE IsTurn(m[x])
    <3>1. PICK i \in DOMAIN w.input : x = w.input[i]
      BY <1>1, ListFacts
    <3>2. IsTurn(StepFromWire(x))
      BY <1>1, <1>2, <3>1, StepTurn
    <3> QED
      BY <3>2
  <2> HIDE DEF m, steps
  <2> QED
    BY <1>1, <2>1, <2>2, TurnsOfWire
<1>4. AreTurns(first)
  BY <1>1, OneText, InstructionTurn, NoTurns
<1>5. IsOutput(output)
  BY OneOutput
<1>6. InteractionsFromWire(p, w)
      = CanonicalRequest(w.model, first \o steps, tools, choice, output,
                         Settings(w.max, w.temperature, w.stop), w.stream, w.store,
                         ExtensionsOf(InteractionsName, extra))
  BY DEF InteractionsFromWire
<1>7. CarriesTools(InteractionsName, p, tools)
  BY <1>1, <1>2, InteractionsTools
<1>8. IsCanonicalChoice(choice)
  BY <1>1, <1>2, InteractionsChoice
<1>9. FieldsReviewed(p, extra)
  BY <1>2 DEF FieldsReviewed, PreviousAllowed
<1> HIDE DEF m, first, steps, output, tools, choice, extra
<1>10. AreTurns(first \o steps)
  BY <1>3, <1>4, JoinedTurns
<1>11. AreParts(InteractionsName, p, w.model, first \o steps, tools, choice, output, w.max, w.store, extra)
  BY <1>1, <1>2, <1>5, <1>7, <1>8, <1>9, <1>10 DEF AreParts
<1> QED
  BY <1>6, <1>11, Assembled

-----------------------------------------------------------------------------
(* What egress adapters write is what they read. *)

\* The texts and the calls of a turn.
LEMMA PartsOfTurns ==
    ASSUME NEW t, IsTurn(t)
    PROVE  /\ IsList(t.content) /\ t.content # <<>> /\ t.role \in Roles
           /\ AreBlocks(TextsOf(t)) /\ AreBlocks(CallsOf(t))
           /\ ToSet(TextsOf(t)) = {b \in ToSet(t.content) : IsText(b)}
           /\ ToSet(CallsOf(t)) = {b \in ToSet(t.content) : IsCall(b)}
           /\ \A b \in ToSet(CallsOf(t)) : b.args.object /\ b = Call(b.id, b.name, b.args)
           /\ t.role # "tool" => \A b \in ToSet(t.content) : IsText(b) \/ IsCall(b)
           /\ t.role # "tool" => TextsOf(t) # <<>> \/ CallsOf(t) # <<>>
           /\ CallsOf(t) # <<>> => t.role = "assistant"
           /\ TextsOf(t) # <<>> => t.role # "tool"
<1>1. /\ IsList(t.content) /\ t.content # <<>> /\ t.role \in Roles
      /\ \A b \in ToSet(t.content) : IsBlock(b) /\ AllowedIn(t, b)
  BY DEF IsTurn, AreBlocks
<1>2. IsList(TextsOf(t)) /\ ToSet(TextsOf(t)) = {b \in ToSet(t.content) : b.kind \in {"text"}}
  BY <1>1, HavingMembers DEF TextsOf
<1>3. IsList(CallsOf(t)) /\ ToSet(CallsOf(t)) = {b \in ToSet(t.content) : b.kind \in {"call"}}
  BY <1>1, HavingMembers DEF CallsOf
<1>4. ToSet(TextsOf(t)) = {b \in ToSet(t.content) : IsText(b)}
      /\ ToSet(CallsOf(t)) = {b \in ToSet(t.content) : IsCall(b)}
  BY <1>2, <1>3 DEF IsText, IsCall
<1>5. AreBlocks(TextsOf(t)) /\ AreBlocks(CallsOf(t))
  BY <1>1, <1>2, <1>3 DEF AreBlocks
<1>6. ASSUME NEW b \in ToSet(CallsOf(t))
      PROVE  b.args.object /\ b = Call(b.id, b.name, b.args) /\ t.role = "assistant"
  BY <1>1, <1>4 DEF AllowedIn, IsBlock, IsText, IsCall, IsResult, Media
<1>7. ASSUME t.role # "tool", NEW b \in ToSet(t.content)
      PROVE  IsText(b) \/ IsCall(b)
  BY <1>1, <1>7 DEF AllowedIn
<1>8. ASSUME t.role # "tool"
      PROVE  TextsOf(t) # <<>> \/ CallsOf(t) # <<>>
  <2>1. 1 \in DOMAIN t.content /\ t.content[1] \in ToSet(t.content)
    BY <1>1, ListFacts
  <2>2. ToSet(TextsOf(t)) # {} \/ ToSet(CallsOf(t)) # {}
    BY <1>4, <1>7, <1>8, <2>1
  <2> QED
    BY <2>2, SmallLists
<1>9. CallsOf(t) # <<>> => t.role = "assistant"
  <2>1. CallsOf(t) # <<>> => CallsOf(t)[1] \in ToSet(CallsOf(t))
    BY <1>3, ListFacts
  <2> QED
    BY <1>6, <2>1
<1>10. TextsOf(t) # <<>> => t.role # "tool"
  <2>1. ASSUME TextsOf(t) # <<>>, t.role = "tool" PROVE FALSE
    <3>1. TextsOf(t)[1] \in ToSet(TextsOf(t))
      BY <1>2, <2>1, ListFacts
    <3>2. PICK b \in ToSet(t.content) : IsText(b)
      BY <1>4, <3>1
    <3> QED
      BY <1>1, <2>1, <3>2 DEF AllowedIn, IsText, IsCall, IsResult
  <2> QED
    BY <2>1
<1> QED
  BY <1>1, <1>4, <1>5, <1>6, <1>7, <1>8, <1>9, <1>10

\* A call whose arguments are written as text.
WrittenCall(c) == [c EXCEPT !.args = compact_json(@)]

LEMMA CallsAreWritten ==
    ASSUME NEW c, c = Call(c.id, c.name, c.args)
    PROVE  LET b == WrittenCall(c)
           IN  /\ b = Call(c.id, c.name, compact_json(c.args))
               /\ b = Call(b.id, b.name, b.args)
               /\ c.args.object => ReadsObject(b.args)
               /\ [b EXCEPT !.args = @.of] = c
<1> DEFINE b == Call(c.id, c.name, compact_json(c.args))
<1>1. c = [kind |-> "call", id |-> c.id, name |-> c.name, args |-> c.args]
  BY DEF Call
<1>2. WrittenCall(c) = b
  BY <1>1 DEF WrittenCall, Call
<1>3. b = Call(b.id, b.name, b.args) /\ b.args = compact_json(c.args)
  BY DEF Call
<1>4. b.args.json = TRUE /\ b.args.of = c.args
  BY <1>3 DEF compact_json, JsonText
<1>5. c.args.object => ReadsObject(b.args)
  BY <1>4 DEF ReadsObject
<1>6. b = [kind |-> "call", id |-> c.id, name |-> c.name, args |-> b.args]
  BY DEF Call
<1> HIDE DEF b
<1>7. [b EXCEPT !.args = @.of] = [kind |-> "call", id |-> c.id, name |-> c.name, args |-> b.args.of]
  BY <1>6
<1>8. [b EXCEPT !.args = @.of] = c
  BY <1>1, <1>4, <1>7
<1> QED
  BY <1>2, <1>3, <1>5, <1>8 DEF b

\* All calls of a turn, written one by one by h.
LEMMA WrittenCalls ==
    ASSUME NEW t, IsTurn(t)
    PROVE  LET calls == CallsOf(t)
               m == [c \in ToSet(calls) |-> WrittenCall(c)]
               written == [i \in DOMAIN calls |-> [calls[i] EXCEPT !.args = compact_json(@)]]
           IN  /\ written = [i \in DOMAIN calls |-> m[calls[i]]]
               /\ IsList(written) /\ DOMAIN written = DOMAIN calls
               /\ written = <<>> <=> calls = <<>>
               /\ \A c \in ToSet(written) : c = Call(c.id, c.name, c.args) /\ ReadsObject(c.args)
<1> DEFINE calls == CallsOf(t)
           m == [c \in ToSet(calls) |-> WrittenCall(c)]
           written == [i \in DOMAIN calls |-> [calls[i] EXCEPT !.args = compact_json(@)]]
<1>1. IsList(calls) /\ \A c \in ToSet(calls) : c.args.object /\ c = Call(c.id, c.name, c.args)
  BY PartsOfTurns DEF AreBlocks
<1>2. written = [i \in DOMAIN calls |-> m[calls[i]]]
  BY <1>1, ListFacts DEF WrittenCall
<1>3. \A c \in ToSet(calls) : m[c] = WrittenCall(c)
  OBVIOUS
<1> HIDE DEF calls, m, written
<1>4. IsList(written) /\ DOMAIN written = DOMAIN calls /\ Len(written) = Len(calls)
      /\ ToSet(written) = {m[c] : c \in ToSet(calls)}
  BY <1>1, <1>2, MappedTo
<1>5. written = <<>> <=> calls = <<>>
  BY <1>1, <1>4, ListFacts
<1>6. ASSUME NEW c \in ToSet(written) PROVE c = Call(c.id, c.name, c.args) /\ ReadsObject(c.args)
  <2>1. PICK x \in ToSet(calls) : c = WrittenCall(x)
    BY <1>3, <1>4
  <2> QED
    BY <1>1, <2>1, CallsAreWritten
<1> QED
  BY <1>2, <1>4, <1>5, <1>6 DEF calls, m, written

\* The result of a turn of the tool.
LEMMA ResultsOfTurns ==
    ASSUME NEW t, IsTurn(t), OneResult(t)
    PROVE  LET b == t.content[1]
           IN  t.content = <<b>> /\ IsResult(b) /\ b = Result(b.id, b.name, b.value, b.error)
               /\ ToSet(t.content) = {b} /\ t.role = "tool"
<1>1. IsList(t.content) /\ Len(t.content) = 1 /\ IsResult(t.content[1])
      /\ \A b \in ToSet(t.content) : IsBlock(b) /\ AllowedIn(t, b)
  BY DEF IsTurn, AreBlocks, OneResult
<1>2. Optional(t.content) /\ t.content # <<>>
  BY <1>1 DEF Optional
<1>3. t.content = <<t.content[1]>> /\ t.content[1] \in ToSet(t.content)
  BY <1>2, OptionalForm
<1> DEFINE b == t.content[1]
<1>4. IsBlock(b) /\ AllowedIn(t, b) /\ IsResult(b)
  BY <1>1, <1>3
<1> HIDE DEF b
<1>5. b = Result(b.id, b.name, b.value, b.error) /\ t.role = "tool"
  BY <1>4 DEF IsBlock, AllowedIn, IsText, IsCall, IsResult, Media
<1>6. ToSet(t.content) = {b}
  <2>1. t.content = <<b>>
    BY <1>3 DEF b
  <2> QED
    BY <2>1, SmallLists
<1> QED
  BY <1>3, <1>4, <1>5, <1>6 DEF b

\* Tools and fields that are written can be read.
LEMMA ToolsAreWritten ==
    ASSUME NEW provider, NEW p, NEW tools, IsList(tools), \A t \in ToSet(tools) : IsCanonicalTool(t),
           RemoteWrites(provider, p, tools)
    PROVE  /\ AreTools(provider, tools) /\ RemoteReads(p, tools)
           /\ \A t \in ToSet(tools) : ~ IsFunction(t) => t.provider = provider
<1>1. ASSUME NEW t \in ToSet(tools)
      PROVE  /\ ~ IsFunction(t) => t.provider = provider /\ p.remote
             /\ \/ IsFunction(t) /\ t = Function(t.name, t.strict) /\ t.strict \in BOOLEAN
                \/ t.kind = "remote" /\ t = Remote(provider, t.type)
  <2>1. PICK i \in DOMAIN tools : t = tools[i]
    BY ListFacts
  <2>2. ~ IsFunction(t) => t.provider = provider /\ p.remote
    BY <2>1 DEF RemoteWrites
  <2>3. t.kind = "remote" => ~ IsFunction(t)
    BY DEF IsFunction
  <2> QED
    BY <2>2, <2>3 DEF IsCanonicalTool
<1>2. AreTools(provider, tools)
  BY <1>1 DEF AreTools
<1>3. \A i \in DOMAIN tools : IsFunction(tools[i]) \/ p.remote
  BY <1>1, ListFacts
<1>4. RemoteReads(p, tools)
  BY <1>3 DEF RemoteReads
<1> QED
  BY <1>1, <1>2, <1>4

LEMMA FieldsAreWritten ==
    ASSUME NEW provider, NEW p, NEW r, IsRequest(r), ExtensionsWritten(provider, p, r.extensions)
    PROVE  /\ FieldsReviewed(p, FieldsOf(r.extensions))
           /\ ExtensionsOf(provider, FieldsOf(r.extensions)) = r.extensions
<1>1. \A e \in r.extensions : e = [provider |-> e.provider, name |-> e.name]
  BY DEF IsRequest
<1>2. \A e \in r.extensions : e.provider = provider /\ e.name \in p.safe
  BY DEF ExtensionsWritten
<1>3. FieldsReviewed(p, FieldsOf(r.extensions))
  BY <1>2 DEF FieldsReviewed, FieldsOf
<1>4. \A e \in r.extensions : e = [provider |-> provider, name |-> e.name]
  BY <1>1, <1>2
<1>5. ExtensionsOf(provider, FieldsOf(r.extensions)) = r.extensions
  BY <1>4 DEF ExtensionsOf, FieldsOf
<1> QED
  BY <1>3, <1>5

LEMMA OneChoice ==
    ASSUME NEW mode, NEW name
    PROVE  LET c == <<Choice(mode, name)>>
           IN  IsChoice(c) /\ c # <<>> /\ c[1].mode = mode /\ c[1].name = name
<1> DEFINE x == Choice(mode, name)
<1>1. x = Choice(x.mode, x.name) /\ x.mode = mode /\ x.name = name
  BY DEF Choice
<1> HIDE DEF x
<1>2. <<x>>[1] = x /\ <<x>> # <<>> /\ Len(<<x>>) <= 1
  OBVIOUS
<1>3. IsChoice(<<x>>)
  BY <1>1, <1>2, SmallLists DEF IsChoice, Optional
<1> QED
  BY <1>1, <1>2, <1>3 DEF x

LEMMA NoChoice == IsChoice(<<>>)
BY SmallLists DEF IsChoice, Optional

-----------------------------------------------------------------------------
(* A turn as a message of Chat Completions. *)

LEMMA ChatMessageIsRead ==
    ASSUME NEW t, IsTurn(t), ChatTurnWrites(t)
    PROVE  IsChatMessage(ChatMessageToWire(t)) /\ ChatMessageReads(ChatMessageToWire(t))
<1>1. CASE t.role = "tool"
  <2> DEFINE answer == [id |-> t.content[1].id, text |-> compact_json(t.content[1].value)]
             m == ChatMessage("tool", <<>>, <<>>, <<answer>>, t.name, FALSE)
  <2>1. ChatMessageToWire(t) = m
    BY <1>1 DEF ChatMessageToWire
  <2> HIDE DEF answer
  <2>2. /\ m.role = "tool" /\ m.content = <<>> /\ m.calls = <<>> /\ m.answer = <<answer>>
        /\ m.unknown = FALSE
    BY DEF ChatMessage
  <2> HIDE DEF m
  <2>3. Optional(<<answer>>) /\ <<answer>> # <<>>
    BY SmallLists DEF Optional
  <2>4. AreBlocks(<<>>) /\ IsList(<<>>) /\ ToSet(<<>>) = {}
    BY SmallLists DEF AreBlocks
  <2>5. IsChatMessage(m)
    BY <2>2, <2>3, <2>4 DEF IsChatMessage
  <2>6. ChatMessageReads(m)
    BY <2>2, <2>3 DEF ChatMessageReads, Roles
  <2> QED
    BY <2>1, <2>5, <2>6
<1>2. CASE t.role # "tool"
  <2> DEFINE calls == CallsOf(t)
             written == [i \in DOMAIN calls |-> [calls[i] EXCEPT !.args = compact_json(@)]]
             texts == TextsOf(t)
             m == ChatMessage(t.role, texts, written, <<>>, t.name, FALSE)
  <2>1. ChatMessageToWire(t) = m
    BY <1>2 DEF ChatMessageToWire
  <2>2. /\ IsList(written) /\ (written = <<>> <=> calls = <<>>)
        /\ \A c \in ToSet(written) : c = Call(c.id, c.name, c.args) /\ ReadsObject(c.args)
    BY WrittenCalls
  <2>3. /\ AreBlocks(texts) /\ t.role \in Roles
        /\ ToSet(texts) = {b \in ToSet(t.content) : IsText(b)}
        /\ texts # <<>> \/ calls # <<>>
        /\ calls # <<>> => t.role = "assistant"
    BY <1>2, PartsOfTurns
  <2> HIDE DEF calls, written, texts
  <2>4. /\ m.role = t.role /\ m.content = texts /\ m.calls = written /\ m.answer = <<>>
        /\ m.unknown = FALSE
    BY DEF ChatMessage
  <2> HIDE DEF m
  <2>5. IsChatMessage(m)
    BY <2>2, <2>3, <2>4, SmallLists DEF IsChatMessage, Optional
  <2>6. \A i \in DOMAIN m.content : IsText(m.content[i])
    BY <2>3, <2>4, ListFacts DEF AreBlocks
  <2>7. \A i \in DOMAIN m.calls : ReadsObject(m.calls[i].args)
    BY <2>2, <2>4, ListFacts
  <2>8. ChatMessageReads(m)
    BY <1>2, <2>2, <2>3, <2>4, <2>6, <2>7 DEF ChatMessageReads
  <2> QED
    BY <2>1, <2>5, <2>8
<1> QED
  BY <1>1, <1>2

LEMMA ChatChoiceIsRead ==
    ASSUME NEW choice, IsCanonicalChoice(choice)
    PROVE  /\ IsChoice(choice) /\ ChatChoiceReads(choice)
           /\ choice # <<>> /\ choice[1].mode # "specific" => choice[1].name = <<>>
<1>1. CASE choice = <<>>
  BY <1>1, NoChoice DEF ChatChoiceReads
<1>2. ASSUME NEW mode \in {"auto", "none", "required"}, choice = <<Choice(mode, <<>>)>>
      PROVE  /\ IsChoice(choice) /\ ChatChoiceReads(choice)
             /\ choice # <<>> /\ choice[1].mode # "specific" => choice[1].name = <<>>
  <2>1. IsChoice(choice) /\ choice # <<>> /\ choice[1].mode = mode /\ choice[1].name = <<>>
    BY <1>2, OneChoice
  <2> QED
    BY <2>1 DEF ChatChoiceReads
<1>3. ASSUME NEW name, choice = <<Choice("specific", name)>>, name # <<>>
      PROVE  /\ IsChoice(choice) /\ ChatChoiceReads(choice)
             /\ choice # <<>> /\ choice[1].mode # "specific" => choice[1].name = <<>>
  <2>1. IsChoice(choice) /\ choice # <<>> /\ choice[1].mode = "specific" /\ choice[1].name = name
    BY <1>3, OneChoice
  <2> QED
    BY <1>3, <2>1 DEF ChatChoiceReads
<1> QED
  BY <1>1, <1>2, <1>3 DEF IsCanonicalChoice

LEMMA ChatIsRead ==
    ASSUME NEW p, NEW r, IsRequest(r), WritesChat(p, r)
    PROVE  IsChatWire(ChatToWire(r)) /\ ReadsChat(p, ChatToWire(r))
<1> DEFINE w == ChatToWire(r)
           m == [t \in ToSet(r.turns) |-> ChatMessageToWire(t)]
           messages == [i \in DOMAIN r.turns |-> ChatMessageToWire(r.turns[i])]
<1>1. /\ w.model = r.model /\ w.messages = messages /\ w.tools = r.tools /\ w.choice = r.choice
      /\ w.output = r.output /\ w.max_completion_tokens = r.settings.max /\ w.max_tokens = <<>>
      /\ w.store = r.store /\ w.extra = FieldsOf(r.extensions)
  BY DEF ChatToWire
<1>2. /\ r.model # "" /\ IsList(r.turns) /\ \A t \in ToSet(r.turns) : IsTurn(t)
  BY DEF IsRequest, AreTurns
<1>3. messages = [i \in DOMAIN r.turns |-> m[r.turns[i]]]
  BY <1>2, ListFacts
<1>4. ASSUME NEW t \in ToSet(r.turns) PROVE IsChatMessage(m[t]) /\ ChatMessageReads(m[t])
  <2>1. PICK i \in DOMAIN r.turns : t = r.turns[i]
    BY <1>2, ListFacts
  <2>2. ChatTurnWrites(t)
    BY <2>1 DEF WritesChat
  <2> QED
    BY <1>2, <2>2, ChatMessageIsRead
<1> HIDE DEF w, m, messages
<1>5. IsList(messages) /\ ToSet(messages) = {m[t] : t \in ToSet(r.turns)}
  <2> DEFINE turns == r.turns
  <2>1. IsList(turns) /\ messages = [i \in DOMAIN turns |-> m[turns[i]]]
    BY <1>2, <1>3
  <2> HIDE DEF turns
  <2>2. IsList(messages) /\ ToSet(messages) = {m[t] : t \in ToSet(turns)}
    BY <2>1, MappedTo, SMTT(60)
  <2> QED
    BY <2>2 DEF turns
<1>6. \A x \in ToSet(messages) : IsChatMessage(x) /\ ChatMessageReads(x)
  BY <1>4, <1>5
<1>7. \A i \in DOMAIN messages : ChatMessageReads(messages[i])
  BY <1>5, <1>6, ListFacts
<1>8. AreTools(ChatName, r.tools) /\ RemoteReads(p, r.tools)
  BY ToolsAreWritten DEF IsRequest, WritesChat
<1>9. FieldsReviewed(p, FieldsOf(r.extensions))
  BY FieldsAreWritten DEF WritesChat
<1>10. /\ IsChoice(r.choice) /\ ChatChoiceReads(r.choice)
       /\ r.choice # <<>> /\ r.choice[1].mode # "specific" => r.choice[1].name = <<>>
  BY ChatChoiceIsRead DEF IsRequest
<1>11. IsOutput(r.output) /\ IsList(r.settings.max) /\ r.store \in BOOLEAN
  BY DEF IsRequest
<1>12. StorageAllowed(p, r.store)
  BY DEF WritesChat
<1>13. IsChatWire(w)
  BY <1>1, <1>5, <1>6, <1>8, <1>10, <1>11, SmallLists DEF IsChatWire
<1>14. ReadsChat(p, w)
  BY <1>1, <1>2, <1>7, <1>8, <1>9, <1>10, <1>12 DEF ReadsChat
<1> QED
  BY <1>13, <1>14 DEF w

\* Instructions and the other turns.
LEMMA TurnsApart ==
    ASSUME NEW turns, AreTurns(turns)
    PROVE  /\ AreTurns(InstructionsOf(turns)) /\ AreTurns(OthersOf(turns))
           /\ ToSet(InstructionsOf(turns)) = {t \in ToSet(turns) : IsInstruction(t)}
           /\ ToSet(OthersOf(turns)) = {t \in ToSet(turns) : ~ IsInstruction(t)}
<1>1. IsList(turns) /\ \A t \in ToSet(turns) : IsTurn(t) /\ t.role \in Roles
  BY DEF AreTurns, IsTurn
<1>2. IsList(InstructionsOf(turns))
      /\ ToSet(InstructionsOf(turns)) = {t \in ToSet(turns) : t.role \in {"system", "developer"}}
  BY <1>1, HavingMembers DEF InstructionsOf
<1>3. IsList(OthersOf(turns))
      /\ ToSet(OthersOf(turns)) = {t \in ToSet(turns) : t.role \in {"user", "assistant", "tool"}}
  BY <1>1, HavingMembers DEF OthersOf
<1>4. \A t \in ToSet(turns) : t.role \in {"user", "assistant", "tool"} <=> ~ IsInstruction(t)
  BY <1>1 DEF IsInstruction, Roles
<1>5. \A t \in ToSet(turns) : t.role \in {"system", "developer"} <=> IsInstruction(t)
  BY DEF IsInstruction
<1> QED
  BY <1>1, <1>2, <1>3, <1>4, <1>5 DEF AreTurns

\* One text of instructions, joined.
LEMMA JoinedTexts ==
    ASSUME NEW t, IsTurn(t), TextsOnly(t)
    PROVE  /\ IsList(Joined(t))
           /\ \A b \in ToSet(t.content) : IsText(b) /\ b = Text(b.text) /\ IsList(b.text)
<1> DEFINE s == [i \in DOMAIN t.content |->
                    IF i = 1 THEN t.content[i].text ELSE <<"newline">> \o t.content[i].text]
<1>1. IsList(t.content) /\ \A b \in ToSet(t.content) : IsBlock(b)
  BY DEF IsTurn, AreBlocks
<1>2. \A b \in ToSet(t.content) : IsText(b)
  BY <1>1, ListFacts DEF TextsOnly
<1>3. \A b \in ToSet(t.content) : b = Text(b.text) /\ IsList(b.text)
  BY <1>1, <1>2 DEF IsBlock, IsText, IsCall, IsResult, Media
<1>4. \A i \in DOMAIN t.content : IsList(t.content[i].text)
  BY <1>1, <1>3, ListFacts
<1>5. IsList(<<"newline">>)
  BY SmallLists
<1>6. \A i \in DOMAIN t.content : IsList(<<"newline">> \o t.content[i].text)
  BY <1>4, <1>5, JoinedList
<1>7. \A i \in DOMAIN t.content : IsList(s[i])
  BY <1>4, <1>6
<1>8. DOMAIN t.content = 1 .. Len(t.content) /\ Len(t.content) \in Nat
  BY <1>1, ListFacts
<1>9. s = [i \in 1 .. Len(t.content) |-> s[i]] /\ DOMAIN s = DOMAIN t.content
  BY <1>8
<1>10. Joined(t) = FlattenSeq(s)
  BY DEF Joined
<1> HIDE DEF s
<1>11. IsList(s)
  BY <1>8, <1>9, ListOfValues
<1>12. Lists(s)
  BY <1>7, <1>9, <1>11 DEF Lists
<1> QED
  BY <1>2, <1>3, <1>10, <1>12, FlattenMembers

-----------------------------------------------------------------------------
(* Turns as items of Responses. *)

LEMMA ItemsAreRead ==
    ASSUME NEW t, IsTurn(t), ResponsesTurnWrites(t)
    PROVE  /\ IsList(TurnToItems(t))
           /\ \A item \in ToSet(TurnToItems(t)) : IsItem(item) /\ ItemReads(item)
<1>1. CASE t.role = "tool"
  <2> DEFINE item == OutputItem(t.content[1].id, compact_json(t.content[1].value))
  <2>1. TurnToItems(t) = <<item>>
    BY <1>1 DEF TurnToItems
  <2>2. item.type = "function_call_output"
    BY DEF OutputItem
  <2> HIDE DEF item
  <2>3. IsItem(item) /\ ItemReads(item)
    BY <2>2 DEF IsItem, ItemReads
  <2> QED
    BY <2>1, <2>3, SmallLists
<1>2. CASE t.role # "tool"
  <2> DEFINE texts == TextsOf(t)
             calls == CallsOf(t)
             m == [c \in ToSet(calls) |-> CallItem(WrittenCall(c))]
             message == MessageItem(t.role, texts)
             a == IF texts = <<>> THEN <<>> ELSE <<message>>
             b == [i \in DOMAIN calls |-> CallItem([calls[i] EXCEPT !.args = compact_json(@)])]
  <2>1. TurnToItems(t) = a \o b
    BY <1>2 DEF TurnToItems
  <2>2. /\ AreBlocks(texts) /\ AreBlocks(calls) /\ t.role \in Roles
        /\ ToSet(texts) = {x \in ToSet(t.content) : IsText(x)}
        /\ \A c \in ToSet(calls) : c.args.object /\ c = Call(c.id, c.name, c.args)
    BY PartsOfTurns
  <2>3. b = [i \in DOMAIN calls |-> m[calls[i]]]
    BY <2>2, ListFacts DEF WrittenCall, AreBlocks
  <2>4. message.type = "message" /\ message.role = t.role /\ message.content = texts
    BY DEF MessageItem
  <2>5. \A c \in ToSet(calls) : m[c] = CallItem(WrittenCall(c))
    OBVIOUS
  <2>6. a = <<>> \/ (a = <<message>> /\ texts # <<>>)
    OBVIOUS
  <2> HIDE DEF texts, calls, m, message, a, b
  <2>7. IsItem(message)
    BY <2>2, <2>4 DEF IsItem
  <2>8. texts # <<>> => ItemReads(message)
    <3>1. \A i \in DOMAIN texts : IsText(texts[i])
      BY <2>2, ListFacts DEF AreBlocks
    <3> QED
      BY <1>2, <2>2, <2>4, <3>1 DEF ItemReads
  <2>9. IsList(b) /\ ToSet(b) = {m[c] : c \in ToSet(calls)}
    <3>1. IsList(calls)
      BY <2>2 DEF AreBlocks
    <3> QED
      BY <2>3, <3>1, MappedTo, SMTT(60)
  <2>10. ASSUME NEW item \in ToSet(b) PROVE IsItem(item) /\ ItemReads(item)
    <3>1. PICK c \in ToSet(calls) : item = CallItem(WrittenCall(c))
      BY <2>5, <2>9
    <3>2. item.type = "function_call" /\ item.call = WrittenCall(c)
      BY <3>1 DEF CallItem
    <3>3. item.call = Call(item.call.id, item.call.name, item.call.args) /\ ReadsObject(item.call.args)
      BY <2>2, <3>2, CallsAreWritten
    <3> QED
      BY <3>2, <3>3 DEF IsItem, ItemReads
  <2>11. IsList(a) /\ \A item \in ToSet(a) : IsItem(item) /\ ItemReads(item)
    BY <2>6, <2>7, <2>8, SmallLists
  <2>12. IsList(a \o b) /\ ToSet(a \o b) = ToSet(a) \cup ToSet(b)
    BY <2>9, <2>11, JoinedList
  <2> QED
    BY <2>1, <2>10, <2>11, <2>12
<1> QED
  BY <1>1, <1>2

LEMMA ResponsesChoiceIsRead ==
    ASSUME NEW choice, IsCanonicalChoice(choice)
    PROVE  LET c == ResponsesChoiceToWire(choice)
           IN  IsChoice(c) /\ ResponsesChoiceReads(c) /\ ResponsesChoiceFromWire(c) = choice
<1> DEFINE c == ResponsesChoiceToWire(choice)
<1>1. CASE choice = <<>>
  <2>1. c = <<>>
    BY <1>1 DEF ResponsesChoiceToWire, Specific
  <2> HIDE DEF c
  <2>2. IsChoice(c) /\ ResponsesChoiceReads(c) /\ ResponsesChoiceFromWire(c) = choice
    BY <1>1, <2>1, NoChoice DEF ResponsesChoiceReads, ResponsesChoiceFromWire
  <2> QED
    BY <2>2 DEF c
<1>2. ASSUME NEW mode \in {"auto", "none", "required"}, choice = <<Choice(mode, <<>>)>>
      PROVE  IsChoice(c) /\ ResponsesChoiceReads(c) /\ ResponsesChoiceFromWire(c) = choice
  <2>1. IsChoice(choice) /\ choice # <<>> /\ choice[1].mode = mode /\ choice[1].name = <<>>
    BY <1>2, OneChoice
  <2>2. c = choice
    BY <2>1 DEF ResponsesChoiceToWire, Specific
  <2> HIDE DEF c
  <2>3. SimpleModes[mode] = mode /\ mode \in DOMAIN SimpleModes
    BY DEF SimpleModes
  <2>4. ResponsesChoiceFromWire(c) = <<Choice(mode, <<>>)>>
    BY <2>1, <2>2, <2>3 DEF ResponsesChoiceFromWire
  <2> QED
    BY <1>2, <2>1, <2>2, <2>3, <2>4 DEF ResponsesChoiceReads
<1>3. ASSUME NEW name, choice = <<Choice("specific", name)>>, name # <<>>
      PROVE  IsChoice(c) /\ ResponsesChoiceReads(c) /\ ResponsesChoiceFromWire(c) = choice
  <2>1. choice # <<>> /\ choice[1].mode = "specific" /\ choice[1].name = name
    BY <1>3, OneChoice
  <2>2. c = <<Choice("function", name)>>
    BY <2>1 DEF ResponsesChoiceToWire, Specific
  <2> HIDE DEF c
  <2>3. IsChoice(c) /\ c # <<>> /\ c[1].mode = "function" /\ c[1].name = name
    BY <2>2, OneChoice
  <2>4. ResponsesChoiceFromWire(c) = <<Choice("specific", name)>>
    BY <2>3 DEF ResponsesChoiceFromWire
  <2> QED
    BY <1>3, <2>3, <2>4 DEF ResponsesChoiceReads
<1> QED
  BY <1>1, <1>2, <1>3 DEF IsCanonicalChoice

LEMMA ResponsesInstructions ==
    ASSUME NEW p, NEW r, IsRequest(r), WritesResponses(p, r)
    PROVE  LET instructions == InstructionsOf(r.turns)
           IN  /\ instructions = <<>> \/
                  /\ instructions = <<instructions[1]>> /\ IsTurn(instructions[1])
                  /\ TextsOnly(instructions[1]) /\ IsInstruction(instructions[1])
               /\ Optional(Instructions(r))
               /\ Instructions(r) # <<>> => IsList(Instructions(r)[1])
<1> DEFINE instructions == InstructionsOf(r.turns)
<1>1. AreTurns(instructions) /\ \A t \in ToSet(instructions) : IsInstruction(t)
  BY TurnsApart DEF IsRequest
<1>2. Len(instructions) <= 1 /\ \A i \in DOMAIN instructions : TextsOnly(instructions[i])
  BY DEF WritesResponses
<1>3. Instructions(r) = IF instructions = <<>> THEN <<>> ELSE <<Joined(instructions[1])>>
  BY DEF Instructions
<1> HIDE DEF instructions
<1>4. CASE instructions = <<>>
  <2>1. Instructions(r) = <<>>
    BY <1>3, <1>4
  <2> QED
    BY <1>4, <2>1, SmallLists DEF Optional, instructions
<1>5. CASE instructions # <<>>
  <2>1. Optional(instructions)
    BY <1>1, <1>2 DEF Optional, AreTurns
  <2>2. instructions = <<instructions[1]>> /\ instructions[1] \in ToSet(instructions)
    BY <1>5, <2>1, OptionalForm
  <2>3. IsTurn(instructions[1]) /\ IsInstruction(instructions[1])
    BY <1>1, <2>2 DEF AreTurns
  <2>4. TextsOnly(instructions[1])
    <3>1. 1 \in DOMAIN instructions
      BY <1>1, <1>5, ListFacts DEF AreTurns
    <3> QED
      BY <1>2, <3>1
  <2> DEFINE joined == Joined(instructions[1])
  <2>5. IsList(joined)
    BY <2>3, <2>4, JoinedTexts
  <2>6. Instructions(r) = <<joined>>
    BY <1>3, <1>5
  <2> HIDE DEF joined
  <2>7. Optional(<<joined>>) /\ <<joined>>[1] = joined
    BY SmallLists DEF Optional
  <2> QED
    BY <2>2, <2>3, <2>4, <2>5, <2>6, <2>7 DEF instructions
<1> QED
  BY <1>4, <1>5

LEMMA ResponsesIsRead ==
    ASSUME NEW p, NEW r, IsRequest(r), WritesResponses(p, r)
    PROVE  IsResponsesWire(ResponsesToWire(r)) /\ ReadsResponses(p, ResponsesToWire(r))
<1> DEFINE w == ResponsesToWire(r)
           others == OthersOf(r.turns)
           g == [t \in ToSet(others) |-> TurnToItems(t)]
           choice == ResponsesChoiceToWire(r.choice)
<1>1. /\ w.model = r.model /\ w.tools = r.tools /\ w.choice = choice /\ w.output = r.output
      /\ w.instructions = Instructions(r) /\ w.max = r.settings.max /\ w.store = r.store
      /\ w.extra = FieldsOf(r.extensions)
      /\ w.input = FlattenSeq([i \in DOMAIN others |-> TurnToItems(others[i])])
  BY DEF ResponsesToWire
<1>2. AreTurns(others)
  BY TurnsApart DEF IsRequest
<1>3. w.input = Bind(others, g)
  <2>1. [i \in DOMAIN others |-> TurnToItems(others[i])] = [i \in DOMAIN others |-> g[others[i]]]
    BY <1>2, ListFacts DEF AreTurns
  <2> QED
    BY <1>1, <2>1 DEF Bind
<1>4. ASSUME NEW t \in ToSet(others)
      PROVE  IsList(g[t]) /\ \A item \in ToSet(g[t]) : IsItem(item) /\ ItemReads(item)
  <2>1. PICK i \in DOMAIN others : t = others[i]
    BY <1>2, ListFacts DEF AreTurns
  <2>2. ResponsesTurnWrites(t)
    BY <2>1 DEF WritesResponses
  <2> QED
    BY <1>2, <2>2, ItemsAreRead DEF AreTurns
<1> HIDE DEF w, g, others, choice
<1>5. IsList(w.input) /\ ToSet(w.input) = UNION {ToSet(g[t]) : t \in ToSet(others)}
  <2>1. Maps(others, g)
    BY <1>2, <1>4 DEF Maps, AreTurns
  <2> QED
    BY <1>3, <2>1, BindMembers
<1>6. \A item \in ToSet(w.input) : IsItem(item) /\ ItemReads(item)
  BY <1>4, <1>5
<1>7. \A i \in DOMAIN w.input : ItemReads(w.input[i])
  BY <1>5, <1>6, ListFacts
<1>8. AreTools(ResponsesName, r.tools) /\ RemoteReads(p, r.tools)
  BY ToolsAreWritten DEF IsRequest, WritesResponses
<1>9. FieldsReviewed(p, FieldsOf(r.extensions))
  BY FieldsAreWritten DEF WritesResponses
<1>10. IsChoice(choice) /\ ResponsesChoiceReads(choice)
  BY ResponsesChoiceIsRead DEF IsRequest, choice
<1>11. IsOutput(r.output) /\ IsList(r.settings.max) /\ r.store \in BOOLEAN /\ r.model # ""
  BY DEF IsRequest
<1>12. StorageAllowed(p, r.store)
  BY DEF WritesResponses
<1>13. Optional(Instructions(r)) /\ (Instructions(r) # <<>> => IsList(Instructions(r)[1]))
  BY ResponsesInstructions
<1>14. IsResponsesWire(w)
  BY <1>1, <1>5, <1>6, <1>8, <1>10, <1>11, <1>13 DEF IsResponsesWire
<1>15. ReadsResponses(p, w)
  BY <1>1, <1>7, <1>8, <1>9, <1>10, <1>11, <1>12 DEF ReadsResponses
<1> QED
  BY <1>14, <1>15 DEF w

\* The instructions of several turns, as one list of texts.
Contents(turns) == FlattenSeq([i \in DOMAIN turns |-> turns[i].content])

LEMMA InstructionsAsTexts ==
    ASSUME NEW turns, AreTurns(turns), \A t \in ToSet(turns) : TextsOnly(t)
    PROVE  LET g == [t \in ToSet(turns) |-> t.content]
           IN  /\ Contents(turns) = Bind(turns, g) /\ Maps(turns, g)
               /\ AreBlocks(Contents(turns))
               /\ \A b \in ToSet(Contents(turns)) : IsText(b)
<1> DEFINE g == [t \in ToSet(turns) |-> t.content]
           s == Contents(turns)
<1>1. IsList(turns) /\ \A t \in ToSet(turns) : IsTurn(t)
  BY DEF AreTurns
<1>2. [i \in DOMAIN turns |-> turns[i].content] = [i \in DOMAIN turns |-> g[turns[i]]]
  BY <1>1, ListFacts
<1>3. s = Bind(turns, g)
  BY <1>2 DEF Contents, Bind
<1>4. ASSUME NEW t \in ToSet(turns)
      PROVE  IsList(g[t]) /\ \A b \in ToSet(g[t]) : IsBlock(b) /\ IsText(b)
  <2>1. g[t] = t.content
    OBVIOUS
  <2>2. IsList(t.content) /\ \A b \in ToSet(t.content) : IsBlock(b)
    BY <1>1 DEF IsTurn, AreBlocks
  <2>3. \A b \in ToSet(t.content) : IsText(b)
    BY <2>2, ListFacts DEF TextsOnly
  <2> QED
    BY <2>1, <2>2, <2>3
<1> HIDE DEF g, s
<1>5. Maps(turns, g)
  BY <1>1, <1>4 DEF Maps
<1>6. IsList(s) /\ ToSet(s) = UNION {ToSet(g[t]) : t \in ToSet(turns)}
  BY <1>3, <1>5, BindMembers
<1>7. \A b \in ToSet(s) : IsBlock(b) /\ IsText(b)
  BY <1>4, <1>6
<1>8. AreBlocks(s)
  BY <1>6, <1>7 DEF AreBlocks
<1> QED
  BY <1>3, <1>5, <1>7, <1>8 DEF g, s

\* The field of the instructions: nothing, or a list of texts that is not empty.
LEMMA InstructionsField ==
    ASSUME NEW s, AreBlocks(s), \A b \in ToSet(s) : IsText(b)
    PROVE  LET f == IF s = <<>> THEN <<>> ELSE <<s>>
           IN  /\ Optional(f) /\ (f = <<>> <=> s = <<>>)
               /\ f # <<>> => /\ f[1] = s /\ f[1] # <<>> /\ AreBlocks(f[1])
                              /\ \A b \in ToSet(f[1]) : IsText(b)
<1>1. <<s>>[1] = s /\ <<s>> # <<>> /\ Len(<<s>>) <= 1 /\ Len(<<>>) <= 1
  OBVIOUS
<1> QED
  BY <1>1, SmallLists DEF Optional

LEMMA EmptyList == ASSUME NEW s, IsList(s) PROVE s = <<>> <=> Len(s) = 0
BY ListFacts

\* One entry for each member of a list.
LEMMA OutputField ==
    ASSUME NEW output, IsOutput(output), NEW f, f = [i \in DOMAIN output |-> "json_schema"]
    PROVE  IsList(f) /\ (f = <<>> <=> output = <<>>)
<1>1. IsList(output) /\ Len(output) \in Nat /\ DOMAIN output = 1 .. Len(output)
  BY ListFacts DEF IsOutput, Optional
<1>2. f = [i \in 1 .. Len(output) |-> f[i]]
  BY <1>1
<1>3. IsList(f) /\ Len(f) = Len(output)
  BY <1>1, <1>2, ListOfValues
<1>4. (f = <<>> <=> Len(f) = 0) /\ (output = <<>> <=> Len(output) = 0)
  BY <1>1, <1>3, EmptyList
<1> QED
  BY <1>3, <1>4

-----------------------------------------------------------------------------
(* A turn as a message of Anthropic. *)

LEMMA AnthropicMessageIsRead ==
    ASSUME NEW t, IsTurn(t), AnthropicTurnWrites(t)
    PROVE  LET m == AnthropicMessageToWire(t)
           IN  AreBlocks(m.content) /\ AnthropicMessageReads(m)
<1> DEFINE m == AnthropicMessageToWire(t)
<1>1. CASE t.role = "tool"
  <2>1. OneResult(t)
    BY <1>1 DEF AnthropicTurnWrites
  <2> DEFINE b == t.content[1]
             r == Result(b.id, <<>>, compact_json(b.value), b.error)
  <2>2. b = Result(b.id, b.name, b.value, b.error)
    BY <2>1, ResultsOfTurns
  <2> HIDE DEF b
  <2>3. [b EXCEPT !.name = <<>>, !.value = compact_json(@)] = r
    <3>1. b = [kind |-> "result", id |-> b.id, name |-> b.name, value |-> b.value, error |-> b.error]
      BY <2>2 DEF Result
    <3> DEFINE c == [b EXCEPT !.name = <<>>]
    <3>2. c = [kind |-> "result", id |-> b.id, name |-> <<>>, value |-> b.value, error |-> b.error]
      BY <3>1
    <3>3. [b EXCEPT !.name = <<>>, !.value = compact_json(@)] = [c EXCEPT !.value = compact_json(@)]
      OBVIOUS
    <3> HIDE DEF c
    <3>4. [c EXCEPT !.value = compact_json(@)]
          = [kind |-> "result", id |-> b.id, name |-> <<>>, value |-> compact_json(b.value), error |-> b.error]
      BY <3>2
    <3> QED
      BY <3>3, <3>4 DEF Result
  <2>4. m = AnthropicMessage("user", <<r>>)
    BY <1>1, <2>3 DEF AnthropicMessageToWire, b
  <2>5. IsResult(r) /\ r = Result(r.id, r.name, r.value, r.error)
    BY DEF IsResult, Result
  <2> HIDE DEF r
  <2>6. m.role = "user" /\ m.content = <<r>>
    BY <2>4 DEF AnthropicMessage
  <2> HIDE DEF m
  <2>7. AreBlocks(<<r>>)
    BY <2>5, SmallLists DEF AreBlocks, IsBlock
  <2>8. <<r>> # <<>> /\ Len(<<r>>) = 1 /\ \A i \in DOMAIN <<r>> : <<r>>[i] = r
    OBVIOUS
  <2>9. AnthropicMessageReads(m)
    BY <2>5, <2>6, <2>8 DEF AnthropicMessageReads, BlockReads
  <2> QED
    BY <2>6, <2>7, <2>9 DEF m
<1>2. CASE t.role # "tool"
  <2>1. /\ t.role \in {"user", "assistant"}
        /\ \A i \in DOMAIN t.content : IsText(t.content[i]) \/ (IsCall(t.content[i]) /\ t.role = "assistant")
    BY <1>2 DEF AnthropicTurnWrites
  <2>2. m = AnthropicMessage(t.role, t.content)
    BY <1>2 DEF AnthropicMessageToWire
  <2>3. m.role = t.role /\ m.content = t.content
    BY <2>2 DEF AnthropicMessage
  <2> HIDE DEF m
  <2>4. AreBlocks(t.content) /\ t.content # <<>> /\ \A b \in ToSet(t.content) : AllowedIn(t, b)
    BY DEF IsTurn
  <2>5. ASSUME NEW i \in DOMAIN t.content
        PROVE  BlockReads(t.role, t.content[i]) /\ ~ IsResult(t.content[i])
    <3>1. AllowedIn(t, t.content[i])
      BY <2>4, ListFacts DEF AreBlocks
    <3>2. IsCall(t.content[i]) => ~ IsText(t.content[i]) /\ ~ IsResult(t.content[i])
      BY DEF IsText, IsCall, IsResult
    <3>3. IsText(t.content[i]) => ~ IsResult(t.content[i])
      BY DEF IsText, IsResult
    <3> QED
      BY <2>1, <3>1, <3>2, <3>3 DEF AllowedIn, BlockReads
  <2>6. AnthropicMessageReads(m)
    BY <2>1, <2>3, <2>4, <2>5 DEF AnthropicMessageReads
  <2> QED
    BY <2>3, <2>4, <2>6 DEF m
<1> QED
  BY <1>1, <1>2

LEMMA AnthropicChoiceIsRead ==
    ASSUME NEW choice, IsCanonicalChoice(choice)
    PROVE  LET c == AnthropicChoiceToWire(choice)
           IN  IsChoice(c) /\ AnthropicChoiceReads(c) /\ AnthropicChoiceFromWire(c) = choice
<1> DEFINE c == AnthropicChoiceToWire(choice)
<1>1. CASE choice = <<>>
  <2>1. c = <<>>
    BY <1>1 DEF AnthropicChoiceToWire, Specific
  <2> HIDE DEF c
  <2>2. IsChoice(c) /\ AnthropicChoiceReads(c) /\ AnthropicChoiceFromWire(c) = choice
    BY <1>1, <2>1, NoChoice DEF AnthropicChoiceReads, AnthropicChoiceFromWire
  <2> QED
    BY <2>2 DEF c
<1>2. ASSUME NEW mode \in {"auto", "none", "required"}, choice = <<Choice(mode, <<>>)>>
      PROVE  IsChoice(c) /\ AnthropicChoiceReads(c) /\ AnthropicChoiceFromWire(c) = choice
  <2> DEFINE word == IF mode = "required" THEN "any" ELSE mode
  <2>1. IsChoice(choice) /\ choice # <<>> /\ choice[1].mode = mode /\ choice[1].name = <<>>
    BY <1>2, OneChoice
  <2>2. c = <<Choice(word, <<>>)>>
    BY <1>2, <2>1 DEF AnthropicChoiceToWire, Specific
  <2>3. word \in DOMAIN ModeFromWire /\ ModeFromWire[word] = mode /\ word # "tool"
    BY DEF ModeFromWire
  <2> HIDE DEF c, word
  <2>4. IsChoice(c) /\ c # <<>> /\ c[1].mode = word /\ c[1].name = <<>>
    BY <2>2, OneChoice
  <2>5. AnthropicChoiceFromWire(c) = <<Choice(mode, <<>>)>>
    BY <2>3, <2>4 DEF AnthropicChoiceFromWire
  <2>6. AnthropicChoiceReads(c)
    BY <2>3, <2>4 DEF AnthropicChoiceReads
  <2>7. IsChoice(c) /\ AnthropicChoiceReads(c) /\ AnthropicChoiceFromWire(c) = choice
    BY <1>2, <2>4, <2>5, <2>6
  <2> QED
    BY <2>7 DEF c
<1>3. ASSUME NEW name, choice = <<Choice("specific", name)>>, name # <<>>
      PROVE  IsChoice(c) /\ AnthropicChoiceReads(c) /\ AnthropicChoiceFromWire(c) = choice
  <2>1. choice # <<>> /\ choice[1].mode = "specific" /\ choice[1].name = name
    BY <1>3, OneChoice
  <2>2. c = <<Choice("tool", name)>>
    BY <2>1 DEF AnthropicChoiceToWire, Specific
  <2> HIDE DEF c
  <2>3. IsChoice(c) /\ c # <<>> /\ c[1].mode = "tool" /\ c[1].name = name
    BY <2>2, OneChoice
  <2>4. AnthropicChoiceFromWire(c) = <<Choice("specific", name)>>
    BY <2>3 DEF AnthropicChoiceFromWire
  <2>5. IsChoice(c) /\ AnthropicChoiceReads(c) /\ AnthropicChoiceFromWire(c) = choice
    BY <1>3, <2>3, <2>4 DEF AnthropicChoiceReads
  <2> QED
    BY <2>5 DEF c
<1> QED
  BY <1>1, <1>2, <1>3 DEF IsCanonicalChoice

LEMMA AnthropicIsRead ==
    ASSUME NEW p, NEW r, IsRequest(r), WritesAnthropic(p, r)
    PROVE  IsAnthropicWire(AnthropicToWire(r)) /\ ReadsAnthropic(p, AnthropicToWire(r))
<1> DEFINE w == AnthropicToWire(r)
           others == OthersOf(r.turns)
           instructions == InstructionsOf(r.turns)
           s == Contents(instructions)
           system == IF s = <<>> THEN <<>> ELSE <<s>>
           m == [t \in ToSet(others) |-> AnthropicMessageToWire(t)]
           messages == [i \in DOMAIN others |-> AnthropicMessageToWire(others[i])]
           choice == AnthropicChoiceToWire(r.choice)
           format == [i \in DOMAIN r.output |-> "json_schema"]
<1>1. /\ w.model = r.model /\ w.tools = r.tools /\ w.choice = choice /\ w.format = format
      /\ w.system = system /\ w.messages = messages /\ w.max_tokens = r.settings.max
      /\ w.extra = FieldsOf(r.extensions)
  BY DEF AnthropicToWire, Contents
<1>2. AreTurns(others) /\ AreTurns(instructions) /\ AreTurns(r.turns)
  BY TurnsApart DEF IsRequest
<1>3. \A i \in DOMAIN r.turns :
         IF IsInstruction(r.turns[i]) THEN TextsOnly(r.turns[i]) ELSE AnthropicTurnWrites(r.turns[i])
  BY DEF WritesAnthropic
<1>4. /\ \A t \in ToSet(instructions) : TextsOnly(t)
      /\ \A t \in ToSet(others) : AnthropicTurnWrites(t)
  <2>1. \A t \in ToSet(r.turns) : IF IsInstruction(t) THEN TextsOnly(t) ELSE AnthropicTurnWrites(t)
    BY <1>2, <1>3, ListFacts DEF AreTurns
  <2> QED
    BY <1>2, <2>1, TurnsApart
<1>5. messages = [i \in DOMAIN others |-> m[others[i]]]
  BY <1>2, ListFacts DEF AreTurns
<1>6. \A t \in ToSet(others) : m[t] = AnthropicMessageToWire(t)
  OBVIOUS
<1>7. IsList(format)
  BY OutputField DEF IsRequest
<1> HIDE DEF w, m, messages, others, instructions, choice, format
<1>8. IsList(messages) /\ ToSet(messages) = {m[t] : t \in ToSet(others)}
  <2>1. IsList(others)
    BY <1>2 DEF AreTurns
  <2> QED
    BY <1>5, <2>1, MappedTo, SMTT(60)
<1>9. \A x \in ToSet(messages) : AreBlocks(x.content) /\ AnthropicMessageReads(x)
  BY <1>2, <1>4, <1>6, <1>8, AnthropicMessageIsRead DEF AreTurns
<1>10. \A i \in DOMAIN messages : AnthropicMessageReads(messages[i])
  BY <1>8, <1>9, ListFacts
<1>11. AreBlocks(s) /\ \A b \in ToSet(s) : IsText(b)
  BY <1>2, <1>4, InstructionsAsTexts
<1> HIDE DEF s
<1>12. /\ Optional(system)
       /\ system # <<>> => /\ system[1] # <<>> /\ AreBlocks(system[1])
                           /\ \A b \in ToSet(system[1]) : IsText(b)
  BY <1>11, InstructionsField
<1> HIDE DEF system
<1>13. AreTools(AnthropicName, r.tools) /\ RemoteReads(p, r.tools)
  BY ToolsAreWritten DEF IsRequest, WritesAnthropic
<1>14. FieldsReviewed(p, FieldsOf(r.extensions))
  BY FieldsAreWritten DEF WritesAnthropic
<1>15. IsChoice(choice) /\ AnthropicChoiceReads(choice)
  BY AnthropicChoiceIsRead DEF IsRequest, choice
<1>16. IsList(r.settings.max) /\ r.model # ""
  BY DEF IsRequest
<1>17. IsAnthropicWire(w)
  BY <1>1, <1>7, <1>8, <1>9, <1>12, <1>13, <1>15, <1>16 DEF IsAnthropicWire
<1>18. ReadsAnthropic(p, w)
  BY <1>1, <1>10, <1>12, <1>13, <1>14, <1>15, <1>16 DEF ReadsAnthropic
<1> QED
  BY <1>17, <1>18 DEF w

-----------------------------------------------------------------------------
(* A turn as a content of Gemini's generateContent. *)

LEMMA ContentIsRead ==
    ASSUME NEW t, IsTurn(t), GeminiTurnWrites(t)
    PROVE  LET c == ContentToWire(t)
           IN  AreBlocks(c.parts) /\ ContentReads(c)
<1> DEFINE c == ContentToWire(t)
           role == IF t.role = "assistant" THEN "model" ELSE "user"
<1>1. c.role = role /\ c.parts = t.content
  BY DEF ContentToWire, GeminiContent
<1>2. /\ AreBlocks(t.content) /\ t.content # <<>> /\ \A b \in ToSet(t.content) : AllowedIn(t, b)
  BY DEF IsTurn
<1>3. ASSUME NEW i \in DOMAIN t.content
      PROVE  PartReads(role, t.content[i]) /\ (IsResult(t.content[i]) => Len(t.content) = 1)
  <2> DEFINE b == t.content[i]
  <2>1. AllowedIn(t, b)
    BY <1>2, ListFacts DEF AreBlocks
  <2>2. \/ IsText(b)
        \/ IsCall(b) /\ t.role = "assistant"
        \/ IsResult(b) /\ t.role = "tool" /\ b.name # <<>>
    BY DEF GeminiTurnWrites
  <2> HIDE DEF b
  <2>3. /\ IsCall(b) => ~ IsText(b) /\ ~ IsResult(b)
        /\ IsText(b) => ~ IsResult(b)
    BY DEF IsText, IsCall, IsResult
  <2>4. IsResult(b) => Len(t.content) = 1
    BY <2>1, <2>3 DEF AllowedIn, OneResult
  <2>5. PartReads(role, b)
    BY <2>1, <2>2, <2>3 DEF AllowedIn, PartReads
  <2> QED
    BY <2>4, <2>5 DEF b
<1>4. role \in {"user", "model"}
  OBVIOUS
<1> HIDE DEF c, role
<1>5. ContentReads(c)
  BY <1>1, <1>2, <1>3, <1>4 DEF ContentReads
<1> QED
  BY <1>1, <1>2, <1>5 DEF c

\* Functions and the others of a list of tools.
LEMMA ToolsApart ==
    ASSUME NEW tools, IsList(tools), \A t \in ToSet(tools) : IsCanonicalTool(t)
    PROVE  /\ IsList(FunctionsOf(tools)) /\ IsList(RemotesOf(tools))
           /\ ToSet(FunctionsOf(tools)) = {t \in ToSet(tools) : IsFunction(t)}
           /\ ToSet(RemotesOf(tools)) = {t \in ToSet(tools) : ~ IsFunction(t)}
<1>1. IsList(FunctionsOf(tools))
      /\ ToSet(FunctionsOf(tools)) = {t \in ToSet(tools) : t.kind \in {"function"}}
  BY HavingMembers DEF FunctionsOf
<1>2. IsList(RemotesOf(tools)) /\ ToSet(RemotesOf(tools)) = {t \in ToSet(tools) : t.kind \in {"remote"}}
  BY HavingMembers DEF RemotesOf
<1>3. \A t \in ToSet(tools) : /\ t.kind \in {"function"} <=> IsFunction(t)
                              /\ t.kind \in {"remote"} <=> ~ IsFunction(t)
  BY DEF IsCanonicalTool, IsFunction
<1> QED
  BY <1>1, <1>2, <1>3

\* The entries that are written.
LEMMA EntriesAreWritten ==
    ASSUME NEW tools, IsList(tools), AreTools(GeminiName, tools), \A t \in ToSet(tools) : IsCanonicalTool(t),
           NoneStrict(tools)
    PROVE  /\ IsList(ToolsToWire(tools)) /\ \A entry \in ToSet(ToolsToWire(tools)) : IsEntry(entry)
           /\ ToolsFromWire(ToolsToWire(tools)) = FunctionsOf(tools) \o RemotesOf(tools)
<1> DEFINE functions == FunctionsOf(tools)
           remotes == RemotesOf(tools)
           names == [i \in DOMAIN functions |-> functions[i].name]
           a == IF functions = <<>> THEN <<>> ELSE <<Declarations(names)>>
           entries == ToolsToWire(tools)
           g == [entry \in ToSet(entries) |-> DeclaredIn(entry)]
<1>1. /\ IsList(functions) /\ IsList(remotes)
      /\ ToSet(functions) = {t \in ToSet(tools) : IsFunction(t)}
      /\ ToSet(remotes) = {t \in ToSet(tools) : ~ IsFunction(t)}
  BY ToolsApart
<1>2. entries = a \o remotes
  BY DEF ToolsToWire
<1>3. ASSUME NEW t \in ToSet(functions) PROVE t = Function(t.name, FALSE)
  <2>1. PICK i \in DOMAIN tools : t = tools[i]
    BY <1>1, ListFacts
  <2>2. ~ t.strict /\ IsFunction(t)
    BY <1>1, <2>1 DEF NoneStrict
  <2>3. t = Function(t.name, t.strict) /\ t.strict \in BOOLEAN
    BY <1>1, <2>2 DEF IsCanonicalTool, IsFunction
  <2> QED
    BY <2>2, <2>3
<1>4. ASSUME NEW t \in ToSet(remotes) PROVE t.kind = "remote" /\ t = Remote(GeminiName, t.type)
  BY <1>1 DEF AreTools
<1>5. DOMAIN functions = 1 .. Len(functions) /\ Len(functions) \in Nat
      /\ functions = [i \in DOMAIN functions |-> functions[i]]
  BY <1>1, ListFacts
<1>6. DOMAIN names = DOMAIN functions /\ \A i \in DOMAIN functions : names[i] = functions[i].name
  OBVIOUS
<1>7. IsList(names)
  <2>1. names = [i \in 1 .. Len(functions) |-> names[i]]
    BY <1>5
  <2> HIDE DEF names
  <2> QED
    BY <1>5, <2>1, ListOfValues
<1>8. (a = <<>> /\ functions = <<>>) \/ a = <<Declarations(names)>>
  OBVIOUS
<1>9. \A entry \in ToSet(entries) : g[entry] = DeclaredIn(entry)
  OBVIOUS
<1> HIDE DEF functions, remotes, names, a, entries, g
<1> DEFINE D == Declarations(names)
<1>10. D.kind = "declarations" /\ D.names = names
  BY DEF Declarations
<1>11. DeclaredIn(D) = functions
  <2>1. DeclaredIn(D) = [j \in DOMAIN names |-> Function(names[j], FALSE)]
    BY <1>10 DEF DeclaredIn
  <2>2. ASSUME NEW j \in DOMAIN functions PROVE functions[j] = Function(names[j], FALSE)
    <3>1. functions[j] \in ToSet(functions)
      BY <1>1, ListFacts
    <3> QED
      BY <1>3, <1>6, <3>1
  <2>3. [j \in DOMAIN names |-> Function(names[j], FALSE)] = [j \in DOMAIN functions |-> functions[j]]
    BY <1>6, <2>2
  <2> QED
    BY <1>5, <2>1, <2>3
<1> HIDE DEF D
<1>12. IsList(a) /\ (ToSet(a) = {} \/ ToSet(a) = {D})
  BY <1>8, SmallLists DEF D
<1>13. IsList(entries) /\ ToSet(entries) = ToSet(a) \cup ToSet(remotes)
  BY <1>1, <1>2, <1>12, JoinedList
<1>14. IsEntry(D)
  BY <1>7, <1>10 DEF IsEntry
<1>15. \A t \in ToSet(remotes) : IsEntry(t) /\ DeclaredIn(t) = <<t>>
  BY <1>4 DEF IsEntry, DeclaredIn
<1>16. \A entry \in ToSet(entries) : IsEntry(entry)
  BY <1>12, <1>13, <1>14, <1>15
<1>17. ToolsFromWire(entries) = Bind(entries, g) /\ Maps(entries, g)
  BY <1>13, <1>16, ToolsFromEntries DEF g
<1>18. Maps(a, g) /\ Maps(remotes, g)
  BY <1>1, <1>12, <1>13, <1>17 DEF Maps
<1>19. Bind(entries, g) = Bind(a, g) \o Bind(remotes, g)
  BY <1>2, <1>18, BindConcat
<1>20. Bind(a, g) = functions
  <2>1. CASE a = <<>> /\ functions = <<>>
    BY <2>1, BindNothing
  <2>2. CASE a = <<D>>
    <3>1. D \in ToSet(entries)
      BY <1>13, <2>2, SmallLists
    <3>2. g[D] = functions
      BY <1>9, <1>11, <3>1
    <3> QED
      BY <1>1, <2>2, <3>2, BindOne
  <2> QED
    BY <1>8, <2>1, <2>2 DEF D
<1>21. Bind(remotes, g) = remotes
  <2>1. \A t \in ToSet(remotes) : g[t] = <<t>>
    BY <1>9, <1>13, <1>15
  <2> QED
    BY <1>1, <2>1, BindItself
<1> QED
  BY <1>13, <1>16, <1>17, <1>19, <1>20, <1>21 DEF entries, functions, remotes

LEMMA GeminiChoiceIsRead ==
    ASSUME NEW choice, IsCanonicalChoice(choice)
    PROVE  LET c == GeminiChoiceToWire(choice)
           IN  IsChoice(c) /\ GeminiChoiceReads(c) /\ GeminiChoiceFromWire(c) = choice
<1> DEFINE c == GeminiChoiceToWire(choice)
<1>1. CASE choice = <<>>
  <2>1. c = <<>>
    BY <1>1 DEF GeminiChoiceToWire, Specific
  <2> HIDE DEF c
  <2>2. IsChoice(c) /\ GeminiChoiceReads(c) /\ GeminiChoiceFromWire(c) = choice
    BY <1>1, <2>1, NoChoice DEF GeminiChoiceReads, GeminiChoiceFromWire
  <2> QED
    BY <2>2 DEF c
<1>2. ASSUME NEW mode \in {"auto", "none", "required"}, choice = <<Choice(mode, <<>>)>>
      PROVE  IsChoice(c) /\ GeminiChoiceReads(c) /\ GeminiChoiceFromWire(c) = choice
  <2> DEFINE word == CASE mode = "required" -> "ANY" [] mode = "auto" -> "AUTO" [] OTHER -> "NONE"
  <2>1. IsChoice(choice) /\ choice # <<>> /\ choice[1].mode = mode /\ choice[1].name = <<>>
    BY <1>2, OneChoice
  <2>2. c = <<Choice(word, <<>>)>>
    BY <1>2, <2>1 DEF GeminiChoiceToWire, Specific
  <2>3. /\ mode = "required" => word = "ANY"
        /\ mode = "auto" => word = "AUTO"
        /\ mode = "none" => word = "NONE"
    OBVIOUS
  <2> HIDE DEF c, word
  <2>4. IsChoice(c) /\ c # <<>> /\ c[1].mode = word /\ c[1].name = <<>>
    BY <2>2, OneChoice
  <2>5. GeminiChoiceFromWire(c) = <<Choice(mode, <<>>)>>
    BY <2>3, <2>4 DEF GeminiChoiceFromWire
  <2>6. GeminiChoiceReads(c)
    BY <2>3, <2>4 DEF GeminiChoiceReads
  <2>7. IsChoice(c) /\ GeminiChoiceReads(c) /\ GeminiChoiceFromWire(c) = choice
    BY <1>2, <2>4, <2>5, <2>6
  <2> QED
    BY <2>7 DEF c
<1>3. ASSUME NEW name, choice = <<Choice("specific", name)>>, name # <<>>
      PROVE  IsChoice(c) /\ GeminiChoiceReads(c) /\ GeminiChoiceFromWire(c) = choice
  <2>1. choice # <<>> /\ choice[1].mode = "specific" /\ choice[1].name = name
    BY <1>3, OneChoice
  <2>2. c = <<Choice("ANY", name)>>
    BY <2>1 DEF GeminiChoiceToWire, Specific
  <2> HIDE DEF c
  <2>3. IsChoice(c) /\ c # <<>> /\ c[1].mode = "ANY" /\ c[1].name = name
    BY <2>2, OneChoice
  <2>4. GeminiChoiceFromWire(c) = <<Choice("specific", name)>>
    BY <1>3, <2>3 DEF GeminiChoiceFromWire
  <2>5. IsChoice(c) /\ GeminiChoiceReads(c) /\ GeminiChoiceFromWire(c) = choice
    BY <1>3, <2>3, <2>4 DEF GeminiChoiceReads
  <2> QED
    BY <2>5 DEF c
<1> QED
  BY <1>1, <1>2, <1>3 DEF IsCanonicalChoice

LEMMA GeminiIsRead ==
    ASSUME NEW p, NEW r, IsRequest(r), WritesGemini(p, r)
    PROVE  IsGeminiWire(GeminiToWire(r)) /\ ReadsGemini(p, GeminiToWire(r))
<1> DEFINE w == GeminiToWire(r)
           others == OthersOf(r.turns)
           instructions == InstructionsOf(r.turns)
           s == Contents(instructions)
           system == IF s = <<>> THEN <<>> ELSE <<s>>
           m == [t \in ToSet(others) |-> ContentToWire(t)]
           contents == [i \in DOMAIN others |-> ContentToWire(others[i])]
           choice == GeminiChoiceToWire(r.choice)
           tools == ToolsToWire(r.tools)
<1>1. /\ w.model = r.model /\ w.tools = tools /\ w.toolConfig = choice
      /\ w.systemInstruction = system /\ w.contents = contents /\ w.maxOutputTokens = r.settings.max
      /\ w.responseMimeType = (r.output # <<>>) /\ w.responseSchema = (r.output # <<>>)
      /\ w.extra = FieldsOf(r.extensions)
  BY DEF GeminiToWire, Contents
<1>2. AreTurns(others) /\ AreTurns(instructions) /\ AreTurns(r.turns)
  BY TurnsApart DEF IsRequest
<1>3. \A i \in DOMAIN r.turns :
         IF IsInstruction(r.turns[i]) THEN TextsOnly(r.turns[i]) ELSE GeminiTurnWrites(r.turns[i])
  BY DEF WritesGemini
<1>4. /\ \A t \in ToSet(instructions) : TextsOnly(t)
      /\ \A t \in ToSet(others) : GeminiTurnWrites(t)
  <2>1. \A t \in ToSet(r.turns) : IF IsInstruction(t) THEN TextsOnly(t) ELSE GeminiTurnWrites(t)
    BY <1>2, <1>3, ListFacts DEF AreTurns
  <2> QED
    BY <1>2, <2>1, TurnsApart
<1>5. contents = [i \in DOMAIN others |-> m[others[i]]]
  BY <1>2, ListFacts DEF AreTurns
<1>6. \A t \in ToSet(others) : m[t] = ContentToWire(t)
  OBVIOUS
<1> HIDE DEF w, m, contents, others, instructions, choice, tools
<1>7. w.responseSchema \in BOOLEAN /\ w.responseMimeType = w.responseSchema
  BY <1>1
<1>8. IsList(contents) /\ ToSet(contents) = {m[t] : t \in ToSet(others)}
  <2>1. IsList(others)
    BY <1>2 DEF AreTurns
  <2> QED
    BY <1>5, <2>1, MappedTo
<1>9. \A x \in ToSet(contents) : AreBlocks(x.parts) /\ ContentReads(x)
  BY <1>2, <1>4, <1>6, <1>8, ContentIsRead DEF AreTurns
<1>10. \A i \in DOMAIN contents : ContentReads(contents[i])
  BY <1>8, <1>9, ListFacts
<1>11. AreBlocks(s) /\ \A b \in ToSet(s) : IsText(b)
  BY <1>2, <1>4, InstructionsAsTexts
<1> HIDE DEF s
<1>12. /\ Optional(system)
       /\ system # <<>> => /\ system[1] # <<>> /\ AreBlocks(system[1])
                           /\ \A b \in ToSet(system[1]) : IsText(b)
  BY <1>11, InstructionsField
<1> HIDE DEF system
<1>13. /\ IsList(r.tools) /\ \A t \in ToSet(r.tools) : IsCanonicalTool(t)
       /\ NoneStrict(r.tools) /\ RemoteWrites(GeminiName, p, r.tools)
  BY DEF IsRequest, WritesGemini
<1>14. AreTools(GeminiName, r.tools) /\ RemoteReads(p, r.tools)
  BY <1>13, ToolsAreWritten
<1>15. /\ IsList(tools) /\ \A entry \in ToSet(tools) : IsEntry(entry)
       /\ ToolsFromWire(tools) = FunctionsOf(r.tools) \o RemotesOf(r.tools)
  BY <1>13, <1>14, EntriesAreWritten DEF tools
<1>16. RemoteReads(p, ToolsFromWire(tools))
  <2>1. /\ IsList(ToolsFromWire(tools))
        /\ ToSet(ToolsFromWire(tools)) = ToSet(FunctionsOf(r.tools)) \cup ToSet(RemotesOf(r.tools))
    BY <1>13, <1>15, ToolsApart, JoinedList
  <2>2. \A t \in ToSet(ToolsFromWire(tools)) : t \in ToSet(r.tools)
    BY <1>13, <2>1, ToolsApart
  <2>3. \A t \in ToSet(r.tools) : p.remote \/ IsFunction(t)
    BY <1>13, <1>14, ListFacts DEF RemoteReads
  <2>4. \A i \in DOMAIN ToolsFromWire(tools) : p.remote \/ IsFunction(ToolsFromWire(tools)[i])
    BY <2>1, <2>2, <2>3, ListFacts
  <2> QED
    BY <2>4 DEF RemoteReads
<1>17. FieldsReviewed(p, FieldsOf(r.extensions))
  BY FieldsAreWritten DEF WritesGemini
<1>18. IsChoice(choice) /\ GeminiChoiceReads(choice)
  BY GeminiChoiceIsRead DEF IsRequest, choice
<1>19. IsList(r.settings.max) /\ r.model # ""
  BY DEF IsRequest
<1>20. IsGeminiWire(w)
  BY <1>1, <1>7, <1>8, <1>9, <1>12, <1>15, <1>18, <1>19 DEF IsGeminiWire
<1>21. ReadsGemini(p, w)
  BY <1>1, <1>7, <1>10, <1>12, <1>16, <1>17, <1>18, <1>19 DEF ReadsGemini
<1> QED
  BY <1>20, <1>21 DEF w

-----------------------------------------------------------------------------
(* A turn as steps of Gemini Interactions. *)

LEMMA StepsAreRead ==
    ASSUME NEW t, IsTurn(t), ~ IsInstruction(t), InteractionsTurnWrites(t)
    PROVE  /\ IsList(TurnToInputs(t))
           /\ \A step \in ToSet(TurnToInputs(t)) : IsStep(step) /\ StepReads(step)
<1>1. CASE t.role = "tool"
  <2> DEFINE b == t.content[1]
             step == ResultStep(b.id, b.name, compact_json(b.value))
  <2>1. TurnToInputs(t) = <<step>>
    BY <1>1 DEF TurnToInputs
  <2>2. step.type = "function_result" /\ step.name = b.name
    BY DEF ResultStep
  <2>3. b.name # <<>>
    BY <1>1 DEF InteractionsTurnWrites
  <2> HIDE DEF step, b
  <2>4. IsStep(step) /\ StepReads(step)
    BY <2>2, <2>3 DEF IsStep, StepReads
  <2> QED
    BY <2>1, <2>4, SmallLists
<1>2. CASE t.role # "tool"
  <2> DEFINE texts == TextsOf(t)
             calls == CallsOf(t)
             type == IF t.role = "user" THEN "user_input" ELSE "model_output"
             m == [c \in ToSet(calls) |-> CallStep(c)]
             first == TextStep(type, texts)
             a == IF texts = <<>> THEN <<>> ELSE <<first>>
             b == [i \in DOMAIN calls |-> CallStep(calls[i])]
  <2>1. TurnToInputs(t) = a \o b
    BY <1>2 DEF TurnToInputs
  <2>2. /\ AreBlocks(texts) /\ AreBlocks(calls) /\ t.role \in Roles
        /\ ToSet(texts) = {x \in ToSet(t.content) : IsText(x)}
        /\ \A c \in ToSet(calls) : c.args.object /\ c = Call(c.id, c.name, c.args)
    BY PartsOfTurns
  <2>3. IsList(texts) /\ IsList(calls)
    BY <2>2 DEF AreBlocks
  <2>4. b = [i \in DOMAIN calls |-> m[calls[i]]]
    BY <2>3, ListFacts
  <2>5. first.type = type /\ first.content = texts
    BY DEF TextStep
  <2>6. \A c \in ToSet(calls) : m[c] = CallStep(c)
    OBVIOUS
  <2>7. a = <<>> \/ (a = <<first>> /\ texts # <<>>)
    OBVIOUS
  <2>8. type \in {"user_input", "model_output"}
    OBVIOUS
  <2> HIDE DEF texts, calls, type, m, first, a, b
  <2>9. IsStep(first)
    BY <2>2, <2>5, <2>8 DEF IsStep
  <2>10. texts # <<>> => StepReads(first)
    <3>1. \A i \in DOMAIN texts : IsText(texts[i])
      BY <2>2, <2>3, ListFacts
    <3> QED
      BY <2>5, <2>8, <3>1 DEF StepReads
  <2>11. IsList(b) /\ ToSet(b) = {m[c] : c \in ToSet(calls)}
    BY <2>3, <2>4, MappedTo, SMTT(60)
  <2>12. ASSUME NEW step \in ToSet(b) PROVE IsStep(step) /\ StepReads(step)
    <3>1. PICK c \in ToSet(calls) : step = CallStep(c)
      BY <2>6, <2>11
    <3>2. step.type = "function_call" /\ step.call = c
      BY <3>1 DEF CallStep
    <3> QED
      BY <2>2, <3>2 DEF IsStep, StepReads
  <2>13. IsList(a) /\ \A step \in ToSet(a) : IsStep(step) /\ StepReads(step)
    BY <2>7, <2>9, <2>10, SmallLists
  <2>14. IsList(a \o b) /\ ToSet(a \o b) = ToSet(a) \cup ToSet(b)
    BY <2>11, <2>13, JoinedList
  <2> QED
    BY <2>1, <2>12, <2>13, <2>14
<1> QED
  BY <1>1, <1>2

LEMMA InteractionsChoiceIsRead ==
    ASSUME NEW choice, IsCanonicalChoice(choice), ~ Specific(choice)
    PROVE  /\ IsChoice(choice) /\ InteractionsChoiceReads(choice)
           /\ [i \in DOMAIN choice |-> Choice(SimpleModes[choice[i].mode], <<>>)] = choice
<1> DEFINE got == [i \in DOMAIN choice |-> Choice(SimpleModes[choice[i].mode], <<>>)]
<1>1. CASE choice = <<>>
  <2>1. InteractionsChoiceReads(choice)
    BY <1>1 DEF InteractionsChoiceReads
  <2> QED
    BY <1>1, <2>1, NoChoice, InteractionsChoice
<1>2. ASSUME NEW mode \in {"auto", "none", "required"}, choice = <<Choice(mode, <<>>)>>
      PROVE  IsChoice(choice) /\ InteractionsChoiceReads(choice) /\ got = choice
  <2>1. IsChoice(choice) /\ choice # <<>> /\ choice[1].mode = mode /\ choice[1].name = <<>>
    BY <1>2, OneChoice
  <2>2. SimpleModes[mode] = mode /\ mode \in DOMAIN SimpleModes
    BY DEF SimpleModes
  <2>3. InteractionsChoiceReads(choice)
    BY <2>1, <2>2 DEF InteractionsChoiceReads
  <2>4. got = <<Choice(SimpleModes[choice[1].mode], <<>>)>>
    BY <2>1, <2>3, InteractionsChoice
  <2> HIDE DEF got
  <2> QED
    BY <1>2, <2>1, <2>2, <2>3, <2>4
<1>3. ASSUME NEW name, choice = <<Choice("specific", name)>>, name # <<>>
      PROVE  FALSE
  <2>1. choice # <<>> /\ choice[1].mode = "specific"
    BY <1>3, OneChoice
  <2> QED
    BY <2>1 DEF Specific
<1> QED
  BY <1>1, <1>2, <1>3 DEF IsCanonicalChoice

LEMMA InteractionsIsRead ==
    ASSUME NEW p, NEW r, IsRequest(r), WritesInteractions(p, r)
    PROVE  IsInteractionsWire(InteractionsToWire(r)) /\ ReadsInteractions(p, InteractionsToWire(r))
<1> DEFINE w == InteractionsToWire(r)
           others == OthersOf(r.turns)
           instructions == InstructionsOf(r.turns)
           system == IF instructions = <<>> THEN <<>> ELSE <<Joined(instructions[1])>>
           g == [t \in ToSet(others) |-> TurnToInputs(t)]
           format == [i \in DOMAIN r.output |-> "json_schema"]
           fields == FieldsOf(r.extensions)
<1>1. /\ w.model = r.model /\ w.tools = r.tools /\ w.choice = r.choice /\ w.response_format = format
      /\ w.system_instruction = system /\ w.max = r.settings.max /\ w.store = r.store
      /\ w.previous = (Previous \in fields) /\ w.extra = fields \ {Previous}
      /\ w.input = FlattenSeq([i \in DOMAIN others |-> TurnToInputs(others[i])])
  BY DEF InteractionsToWire
<1>2. /\ AreTurns(others) /\ AreTurns(instructions) /\ AreTurns(r.turns)
      /\ \A t \in ToSet(others) : ~ IsInstruction(t)
  BY TurnsApart DEF IsRequest
<1>3. /\ \A t \in ToSet(instructions) : TextsOnly(t)
      /\ \A t \in ToSet(others) : InteractionsTurnWrites(t)
  <2>1. \A t \in ToSet(r.turns) : IF IsInstruction(t) THEN TextsOnly(t) ELSE InteractionsTurnWrites(t)
    BY <1>2, ListFacts DEF AreTurns, WritesInteractions
  <2> QED
    BY <1>2, <2>1, TurnsApart
<1>4. w.input = Bind(others, g)
  <2>1. [i \in DOMAIN others |-> TurnToInputs(others[i])] = [i \in DOMAIN others |-> g[others[i]]]
    BY <1>2, ListFacts DEF AreTurns
  <2> QED
    BY <1>1, <2>1 DEF Bind
<1>5. ASSUME NEW t \in ToSet(others)
      PROVE  IsList(g[t]) /\ \A step \in ToSet(g[t]) : IsStep(step) /\ StepReads(step)
  BY <1>2, <1>3, StepsAreRead DEF AreTurns
<1>6. IsList(format)
  BY OutputField DEF IsRequest
<1> HIDE DEF w, g, others, instructions, format, fields
<1>7. IsList(w.input) /\ ToSet(w.input) = UNION {ToSet(g[t]) : t \in ToSet(others)}
  <2>1. Maps(others, g)
    BY <1>2, <1>5 DEF Maps, AreTurns
  <2> QED
    BY <1>4, <2>1, BindMembers
<1>8. \A step \in ToSet(w.input) : IsStep(step) /\ StepReads(step)
  BY <1>5, <1>7
<1>9. \A i \in DOMAIN w.input : StepReads(w.input[i])
  BY <1>7, <1>8, ListFacts
<1>10. Optional(system) /\ (system # <<>> => IsList(system[1]))
  <2>1. CASE instructions = <<>>
    BY <2>1, SmallLists DEF Optional
  <2>2. CASE instructions # <<>>
    <3> DEFINE text == Joined(instructions[1])
    <3>1. instructions[1] \in ToSet(instructions)
      BY <1>2, <2>2, ListFacts DEF AreTurns
    <3>2. IsList(text)
      BY <1>2, <1>3, <3>1, JoinedTexts DEF AreTurns
    <3>3. system = <<text>>
      BY <2>2
    <3> HIDE DEF text, system
    <3>4. <<text>>[1] = text /\ Len(<<text>>) <= 1
      OBVIOUS
    <3>5. Optional(system) /\ (system # <<>> => IsList(system[1]))
      BY <3>2, <3>3, <3>4, SmallLists DEF Optional
    <3> QED
      BY <3>5 DEF system
  <2> QED
    BY <2>1, <2>2
<1> HIDE DEF system
<1>11. AreTools(InteractionsName, r.tools) /\ RemoteReads(p, r.tools)
  BY ToolsAreWritten DEF IsRequest, WritesInteractions
<1>12. FieldsReviewed(p, fields)
  BY FieldsAreWritten DEF WritesInteractions, fields
<1>13. FieldsReviewed(p, fields \ {Previous}) /\ (Previous \in fields => Previous \in p.safe)
  BY <1>12 DEF FieldsReviewed
<1>14. StorageAllowed(p, r.store) /\ (Previous \in fields => r.store)
  BY DEF WritesInteractions, fields
<1>15. w.previous => PreviousAllowed(p, w.store)
  BY <1>1, <1>13, <1>14 DEF PreviousAllowed, StorageAllowed
<1>16. IsChoice(r.choice) /\ InteractionsChoiceReads(r.choice)
  BY InteractionsChoiceIsRead DEF IsRequest, WritesInteractions
<1>17. IsList(r.settings.max) /\ r.model # "" /\ r.store \in BOOLEAN
  BY DEF IsRequest
<1>18. w.previous \in BOOLEAN
  BY <1>1
<1>19. IsInteractionsWire(w)
  BY <1>1, <1>6, <1>7, <1>8, <1>10, <1>11, <1>16, <1>17, <1>18 DEF IsInteractionsWire
<1>20. ReadsInteractions(p, w)
  BY <1>1, <1>9, <1>11, <1>13, <1>14, <1>15, <1>16, <1>17 DEF ReadsInteractions
<1> QED
  BY <1>19, <1>20 DEF w

-----------------------------------------------------------------------------
(* What the provider reads, apart from the turns. *)

\* The parameters of a request and of what a provider reads.
CarriedOver(provider, r, got) ==
    /\ got.model = r.model /\ got.choice = r.choice /\ got.settings = r.settings
    /\ got.stream = r.stream /\ got.extensions = r.extensions
    /\ FunctionsOf(got.tools) = FunctionsOf(r.tools) /\ RemotesOf(got.tools) = RemotesOf(r.tools)
    /\ Len(got.output) = Len(r.output)
    /\ \A i \in DOMAIN r.output : r.output[i].strict => got.output[i].strict
    /\ r.output \in {<<>>, <<Output("response", TRUE)>>} => got.output = r.output
    /\ got.store => r.store
    /\ got.store # r.store => provider = GeminiName

\* The one schema that a format calls by its own name.
LEMMA OneSchema ==
    ASSUME NEW output, IsOutput(output), NEW got,
           got = IF output = <<>> THEN <<>> ELSE <<Output("response", TRUE)>>
    PROVE  /\ Len(got) = Len(output)
           /\ \A i \in DOMAIN output : output[i].strict => got[i].strict
           /\ output \in {<<>>, <<Output("response", TRUE)>>} => got = output
<1>1. CASE output = <<>>
  BY <1>1
<1>2. CASE output # <<>>
  <2> DEFINE o == Output("response", TRUE)
  <2>1. o.strict = TRUE
    BY DEF Output
  <2>2. got = <<o>>
    BY <1>2
  <2> HIDE DEF o
  <2>3. output = <<output[1]>>
    BY <1>2, OptionalForm DEF IsOutput
  <2>4. Len(output) = 1 /\ DOMAIN output = {1}
    <3> DEFINE x == output[1]
    <3> HIDE DEF x
    <3>1. Len(<<x>>) = 1 /\ DOMAIN <<x>> = {1}
      OBVIOUS
    <3> QED
      BY <2>3, <3>1 DEF x
  <2>5. ASSUME output \in {<<>>, <<o>>} PROVE got = output
    <3>1. output = <<o>>
      BY <1>2, <2>5
    <3> QED
      BY <2>2, <3>1
  <2>6. Len(got) = 1 /\ got[1] = o
    <3>1. Len(<<o>>) = 1 /\ <<o>>[1] = o
      OBVIOUS
    <3> QED
      BY <2>2, <3>1
  <2>7. \A i \in DOMAIN output : got[i].strict
    BY <2>1, <2>4, <2>6
  <2> QED
    BY <2>4, <2>5, <2>6, <2>7 DEF o
<1> QED
  BY <1>1, <1>2

LEMMA SettingsFields ==
    ASSUME NEW r, IsRequest(r)
    PROVE  r.settings = Settings(r.settings.max, r.settings.temperature, r.settings.stop)
           /\ IsList(r.settings.max) /\ IsOutput(r.output)
BY DEF IsRequest

LEMMA ChatCarriesOver ==
    ASSUME NEW p, NEW r, IsRequest(r), WritesChat(p, r)
    PROVE  CarriedOver(ChatName, r, ChatFromWire(p, ChatToWire(r)))
<1> DEFINE w == ChatToWire(r)
           got == ChatFromWire(p, w)
           settings == Settings(w.max_completion_tokens \o w.max_tokens, w.temperature, w.stop)
           extensions == ExtensionsOf(ChatName, w.extra)
<1>1. /\ w.model = r.model /\ w.tools = r.tools /\ w.choice = r.choice
      /\ w.output = r.output /\ w.max_completion_tokens = r.settings.max /\ w.max_tokens = <<>>
      /\ w.temperature = r.settings.temperature /\ w.stop = r.settings.stop
      /\ w.stream = r.stream /\ w.store = r.store /\ w.extra = FieldsOf(r.extensions)
  BY DEF ChatToWire
<1> HIDE DEF w
<1>2. /\ got.model = w.model /\ got.tools = w.tools /\ got.choice = w.choice /\ got.output = w.output
      /\ got.settings = settings /\ got.stream = w.stream /\ got.store = w.store
      /\ got.extensions = extensions
  BY DEF ChatFromWire, CanonicalRequest
<1> HIDE DEF got
<1>3. extensions = r.extensions
  BY <1>1, FieldsAreWritten DEF WritesChat
<1>4. r.settings.max \o <<>> = r.settings.max
  <2>1. r.settings.max \in Seq(ToSet(r.settings.max))
    BY SettingsFields DEF IsList
  <2> QED
    BY <2>1
<1>5. settings = r.settings
  BY <1>1, <1>4, SettingsFields
<1> HIDE DEF settings, extensions
<1>6. CarriedOver(ChatName, r, got)
  BY <1>1, <1>2, <1>3, <1>5 DEF CarriedOver
<1> QED
  BY <1>6 DEF got, w

LEMMA ResponsesCarriesOver ==
    ASSUME NEW p, NEW r, IsRequest(r), WritesResponses(p, r)
    PROVE  CarriedOver(ResponsesName, r, ResponsesFromWire(p, ResponsesToWire(r)))
<1> DEFINE w == ResponsesToWire(r)
           got == ResponsesFromWire(p, w)
           settings == Settings(w.max, w.temperature, <<>>)
           extensions == ExtensionsOf(ResponsesName, w.extra)
<1>1. /\ w.model = r.model /\ w.tools = r.tools /\ w.choice = ResponsesChoiceToWire(r.choice)
      /\ w.output = r.output /\ w.max = r.settings.max /\ w.temperature = r.settings.temperature
      /\ w.stream = r.stream /\ w.store = r.store /\ w.extra = FieldsOf(r.extensions)
  BY DEF ResponsesToWire
<1> HIDE DEF w
<1>2. /\ got.model = w.model /\ got.tools = w.tools /\ got.choice = ResponsesChoiceFromWire(w.choice)
      /\ got.output = w.output
      /\ got.settings = settings /\ got.stream = w.stream /\ got.store = w.store
      /\ got.extensions = extensions
  BY DEF ResponsesFromWire, CanonicalRequest
<1> HIDE DEF got
<1>3. extensions = r.extensions
  BY <1>1, FieldsAreWritten DEF WritesResponses
<1>4. settings = r.settings
  <2>1. r.settings.stop = <<>>
    BY DEF WritesResponses
  <2> QED
    BY <1>1, <2>1, SettingsFields
<1>5. ResponsesChoiceFromWire(w.choice) = r.choice
  BY <1>1, ResponsesChoiceIsRead DEF IsRequest
<1> HIDE DEF settings, extensions
<1>6. CarriedOver(ResponsesName, r, got)
  BY <1>1, <1>2, <1>3, <1>4, <1>5 DEF CarriedOver
<1> QED
  BY <1>6 DEF got, w

LEMMA AnthropicCarriesOver ==
    ASSUME NEW p, NEW r, IsRequest(r), WritesAnthropic(p, r)
    PROVE  CarriedOver(AnthropicName, r, AnthropicFromWire(p, AnthropicToWire(r)))
<1> DEFINE w == AnthropicToWire(r)
           got == AnthropicFromWire(p, w)
           settings == Settings(w.max_tokens, w.temperature, w.stop_sequences)
           extensions == ExtensionsOf(AnthropicName, w.extra)
           output == IF w.format = <<>> THEN <<>> ELSE <<Output("response", TRUE)>>
           format == [i \in DOMAIN r.output |-> "json_schema"]
<1>1. /\ w.model = r.model /\ w.tools = r.tools /\ w.choice = AnthropicChoiceToWire(r.choice)
      /\ w.format = format /\ w.max_tokens = r.settings.max /\ w.temperature = r.settings.temperature
      /\ w.stop_sequences = r.settings.stop
      /\ w.stream = r.stream /\ w.extra = FieldsOf(r.extensions)
  BY DEF AnthropicToWire
<1> HIDE DEF w
<1>2. /\ got.model = w.model /\ got.tools = w.tools /\ got.choice = AnthropicChoiceFromWire(w.choice)
      /\ got.output = output
      /\ got.settings = settings /\ got.stream = w.stream /\ got.store = FALSE
      /\ got.extensions = extensions
  BY DEF AnthropicFromWire, CanonicalRequest
<1> HIDE DEF got
<1>3. extensions = r.extensions
  <2>1. ExtensionsWritten(AnthropicName, p, r.extensions)
    BY DEF WritesAnthropic
  <2> QED
    BY <1>1, <2>1, FieldsAreWritten
<1>4. settings = r.settings
  BY <1>1, SettingsFields
<1>5. AnthropicChoiceFromWire(w.choice) = r.choice
  BY <1>1, AnthropicChoiceIsRead DEF IsRequest
<1>6. format = <<>> <=> r.output = <<>>
  <2>1. IsOutput(r.output)
    BY SettingsFields
  <2> DEFINE schema == r.output
  <2>2. IsOutput(schema) /\ format = [i \in DOMAIN schema |-> "json_schema"]
    BY <2>1
  <2> HIDE DEF format, schema
  <2>3. format = <<>> <=> schema = <<>>
    BY <2>2, OutputField
  <2> QED
    BY <2>3 DEF schema
<1>7. output = IF r.output = <<>> THEN <<>> ELSE <<Output("response", TRUE)>>
  BY <1>1, <1>6
<1> HIDE DEF settings, extensions, output, format
<1>8. /\ Len(output) = Len(r.output)
      /\ \A i \in DOMAIN r.output : r.output[i].strict => output[i].strict
      /\ r.output \in {<<>>, <<Output("response", TRUE)>>} => output = r.output
  BY <1>7, SettingsFields, OneSchema
<1>9. r.store = FALSE
  BY DEF WritesAnthropic, IsRequest
<1>10. CarriedOver(AnthropicName, r, got)
  BY <1>1, <1>2, <1>3, <1>4, <1>5, <1>8, <1>9 DEF CarriedOver
<1> QED
  BY <1>10 DEF got, w

\* Functions and the others that follow them.
LEMMA ToolsInGroups ==
    ASSUME NEW tools, IsList(tools), \A t \in ToSet(tools) : IsCanonicalTool(t),
           NEW got, got = FunctionsOf(tools) \o RemotesOf(tools)
    PROVE  FunctionsOf(got) = FunctionsOf(tools) /\ RemotesOf(got) = RemotesOf(tools)
<1> DEFINE a == FunctionsOf(tools)
           b == RemotesOf(tools)
<1>1. /\ IsList(a) /\ IsList(b)
      /\ \A t \in ToSet(a) : t.kind \in {"function"} /\ t.kind \notin {"remote"}
      /\ \A t \in ToSet(b) : t.kind \in {"remote"} /\ t.kind \notin {"function"}
  BY ToolsApart DEF IsCanonicalTool, IsFunction
<1> HIDE DEF a, b
<1>2. /\ Having(a, "kind", {"function"}) = a /\ Having(b, "kind", {"function"}) = <<>>
      /\ Having(a, "kind", {"remote"}) = <<>> /\ Having(b, "kind", {"remote"}) = b
  <2>1. Having(a, "kind", {"function"}) = a
    BY <1>1, HavingAll
  <2>2. Having(b, "kind", {"function"}) = <<>>
    BY <1>1, HavingNone
  <2>3. Having(a, "kind", {"remote"}) = <<>>
    BY <1>1, HavingNone
  <2>4. Having(b, "kind", {"remote"}) = b
    BY <1>1, HavingAll
  <2> QED
    BY <2>1, <2>2, <2>3, <2>4
<1>3. /\ Having(a \o b, "kind", {"function"}) = a \o <<>>
      /\ Having(a \o b, "kind", {"remote"}) = <<>> \o b
  <2>1. Having(a \o b, "kind", {"function"})
        = Having(a, "kind", {"function"}) \o Having(b, "kind", {"function"})
    BY <1>1, HavingConcat
  <2>2. Having(a \o b, "kind", {"remote"}) = Having(a, "kind", {"remote"}) \o Having(b, "kind", {"remote"})
    BY <1>1, HavingConcat
  <2> QED
    BY <1>2, <2>1, <2>2
<1>4. a \o <<>> = a /\ <<>> \o b = b
  <2>1. a \in Seq(ToSet(a)) /\ b \in Seq(ToSet(b))
    BY <1>1 DEF IsList
  <2> QED
    BY <2>1
<1>5. got = a \o b
  BY DEF a, b
<1>6. FunctionsOf(got) = a /\ RemotesOf(got) = b
  BY <1>3, <1>4, <1>5 DEF FunctionsOf, RemotesOf
<1> QED
  BY <1>6 DEF a, b

LEMMA GeminiCarriesOver ==
    ASSUME NEW p, NEW r, IsRequest(r), WritesGemini(p, r)
    PROVE  CarriedOver(GeminiName, r, GeminiFromWire(p, GeminiToWire(r)))
<1> DEFINE w == GeminiToWire(r)
           got == GeminiFromWire(p, w)
           settings == Settings(w.maxOutputTokens, w.temperature, w.stopSequences)
           extensions == ExtensionsOf(GeminiName, w.extra)
           output == IF w.responseSchema THEN <<Output("response", TRUE)>> ELSE <<>>
<1>1. /\ w.model = r.model /\ w.tools = ToolsToWire(r.tools) /\ w.toolConfig = GeminiChoiceToWire(r.choice)
      /\ w.maxOutputTokens = r.settings.max /\ w.temperature = r.settings.temperature
      /\ w.stopSequences = r.settings.stop /\ w.responseSchema = (r.output # <<>>)
      /\ w.stream = r.stream /\ w.extra = FieldsOf(r.extensions)
  BY DEF GeminiToWire
<1> HIDE DEF w
<1>2. /\ got.model = w.model /\ got.tools = ToolsFromWire(w.tools)
      /\ got.choice = GeminiChoiceFromWire(w.toolConfig)
      /\ got.output = output
      /\ got.settings = settings /\ got.stream = w.stream /\ got.store = FALSE
      /\ got.extensions = extensions
  BY DEF GeminiFromWire, CanonicalRequest
<1> HIDE DEF got
<1>3. extensions = r.extensions
  BY <1>1, FieldsAreWritten DEF WritesGemini
<1>4. settings = r.settings
  BY <1>1, SettingsFields
<1>5. GeminiChoiceFromWire(w.toolConfig) = r.choice
  BY <1>1, GeminiChoiceIsRead DEF IsRequest
<1>6. output = IF r.output = <<>> THEN <<>> ELSE <<Output("response", TRUE)>>
  BY <1>1
<1> HIDE DEF settings, extensions, output
<1>7. /\ Len(output) = Len(r.output)
      /\ \A i \in DOMAIN r.output : r.output[i].strict => output[i].strict
      /\ r.output \in {<<>>, <<Output("response", TRUE)>>} => output = r.output
  BY <1>6, SettingsFields, OneSchema
<1>8. FunctionsOf(got.tools) = FunctionsOf(r.tools) /\ RemotesOf(got.tools) = RemotesOf(r.tools)
  <2>1. /\ IsList(r.tools) /\ \A t \in ToSet(r.tools) : IsCanonicalTool(t)
        /\ NoneStrict(r.tools) /\ RemoteWrites(GeminiName, p, r.tools)
    BY DEF IsRequest, WritesGemini
  <2>2. ToolsFromWire(ToolsToWire(r.tools)) = FunctionsOf(r.tools) \o RemotesOf(r.tools)
    BY <2>1, ToolsAreWritten, EntriesAreWritten
  <2> QED
    BY <1>1, <1>2, <2>1, <2>2, ToolsInGroups
<1>9. CarriedOver(GeminiName, r, got)
  BY <1>1, <1>2, <1>3, <1>4, <1>5, <1>7, <1>8 DEF CarriedOver
<1> QED
  BY <1>9 DEF got, w

LEMMA InteractionsCarriesOver ==
    ASSUME NEW p, NEW r, IsRequest(r), WritesInteractions(p, r)
    PROVE  CarriedOver(InteractionsName, r, InteractionsFromWire(p, InteractionsToWire(r)))
<1> DEFINE w == InteractionsToWire(r)
           got == InteractionsFromWire(p, w)
           settings == Settings(w.max, w.temperature, w.stop)
           fields == FieldsOf(r.extensions)
           extra == w.extra \cup (IF w.previous THEN {Previous} ELSE {})
           extensions == ExtensionsOf(InteractionsName, extra)
           output == IF w.response_format = <<>> THEN <<>> ELSE <<Output("response", TRUE)>>
           format == [i \in DOMAIN r.output |-> "json_schema"]
           tools == [i \in DOMAIN w.tools |-> ToolFromWire(w.tools[i])]
           choice == [i \in DOMAIN w.choice |-> Choice(SimpleModes[w.choice[i].mode], <<>>)]
<1>1. /\ w.model = r.model /\ w.tools = r.tools /\ w.choice = r.choice
      /\ w.response_format = format /\ w.max = r.settings.max /\ w.temperature = r.settings.temperature
      /\ w.stop = r.settings.stop /\ w.previous = (Previous \in fields) /\ w.extra = fields \ {Previous}
      /\ w.stream = r.stream /\ w.store = r.store
  BY DEF InteractionsToWire
<1> HIDE DEF w
<1>2. /\ got.model = w.model /\ got.tools = tools /\ got.choice = choice
      /\ got.output = output
      /\ got.settings = settings /\ got.stream = w.stream /\ got.store = w.store
      /\ got.extensions = extensions
  BY DEF InteractionsFromWire, CanonicalRequest
<1> HIDE DEF got
<1>3. extensions = r.extensions
  <2>1. extra = fields
    BY <1>1
  <2> QED
    BY <2>1, FieldsAreWritten DEF WritesInteractions
<1>4. settings = r.settings
  BY <1>1, SettingsFields
<1>5. choice = r.choice
  <2>1. IsCanonicalChoice(r.choice) /\ ~ Specific(r.choice)
    BY DEF IsRequest, WritesInteractions
  <2> QED
    BY <1>1, <2>1, InteractionsChoiceIsRead
<1>6. format = <<>> <=> r.output = <<>>
  <2>1. IsOutput(r.output)
    BY SettingsFields
  <2> DEFINE schema == r.output
  <2>2. IsOutput(schema) /\ format = [i \in DOMAIN schema |-> "json_schema"]
    BY <2>1
  <2> HIDE DEF format, schema
  <2>3. format = <<>> <=> schema = <<>>
    BY <2>2, OutputField
  <2> QED
    BY <2>3 DEF schema
<1>7. output = IF r.output = <<>> THEN <<>> ELSE <<Output("response", TRUE)>>
  BY <1>1, <1>6
<1>8. tools = r.tools
  <2>1. /\ IsList(r.tools) /\ \A t \in ToSet(r.tools) : IsCanonicalTool(t) /\ NoneStrict(r.tools)
    BY DEF IsRequest, WritesInteractions
  <2>2. ASSUME NEW i \in DOMAIN r.tools PROVE ToolFromWire(r.tools[i]) = r.tools[i]
    <3> DEFINE t == r.tools[i]
    <3>1. IsCanonicalTool(t) /\ (IsFunction(t) => ~ t.strict)
      BY <2>1, ListFacts DEF NoneStrict
    <3> HIDE DEF t
    <3>2. ToolFromWire(t) = t
      BY <3>1 DEF ToolFromWire, IsCanonicalTool, IsFunction
    <3> QED
      BY <3>2 DEF t
  <2>3. tools = [i \in DOMAIN r.tools |-> r.tools[i]]
    BY <1>1, <2>2
  <2> HIDE DEF tools
  <2>4. r.tools \in Seq(ToSet(r.tools))
    BY <2>1 DEF IsList
  <2> QED
    BY <2>3, <2>4
<1> HIDE DEF settings, extensions, output, format, tools, choice, fields, extra
<1>9. /\ Len(output) = Len(r.output)
      /\ \A i \in DOMAIN r.output : r.output[i].strict => output[i].strict
      /\ r.output \in {<<>>, <<Output("response", TRUE)>>} => output = r.output
  BY <1>7, SettingsFields, OneSchema
<1>10. CarriedOver(InteractionsName, r, got)
  BY <1>1, <1>2, <1>3, <1>4, <1>5, <1>8, <1>9 DEF CarriedOver
<1> QED
  BY <1>10 DEF got, w

-----------------------------------------------------------------------------
(* All adapters, and the requests on their way. *)

IsWire(dialect, w) ==
    CASE dialect = ChatName -> IsChatWire(w)
      [] dialect = ResponsesName -> IsResponsesWire(w)
      [] dialect = AnthropicName -> IsAnthropicWire(w)
      [] dialect = GeminiName -> IsGeminiWire(w)
      [] OTHER -> IsInteractionsWire(w)

LEMMA AdapterNames ==
    /\ ChatName = "openai-chat-completions" /\ ResponsesName = "openai-responses"
    /\ AnthropicName = "anthropic-messages" /\ GeminiName = "gemini-generate-content"
    /\ InteractionsName = "gemini-interactions"
BY DEF ChatName, ResponsesName, AnthropicName, GeminiName, InteractionsName

\* An adapter is one of the five.
LEMMA EachAdapter ==
    ASSUME NEW dialect \in Adapters
    PROVE  /\ \/ dialect = ChatName \/ dialect = ResponsesName \/ dialect = AnthropicName
              \/ dialect = GeminiName \/ dialect = InteractionsName
           /\ \A p, w :
                 /\ dialect = ChatName => /\ (IsWire(dialect, w) <=> IsChatWire(w))
                                          /\ (Reads(dialect, p, w) <=> ReadsChat(p, w))
                                          /\ (Writes(dialect, p, w) <=> WritesChat(p, w))
                                          /\ FromWire(dialect, p, w) = ChatFromWire(p, w)
                                          /\ ToWire(dialect, w) = ChatToWire(w)
                 /\ dialect = ResponsesName => /\ (IsWire(dialect, w) <=> IsResponsesWire(w))
                                               /\ (Reads(dialect, p, w) <=> ReadsResponses(p, w))
                                               /\ (Writes(dialect, p, w) <=> WritesResponses(p, w))
                                               /\ FromWire(dialect, p, w) = ResponsesFromWire(p, w)
                                               /\ ToWire(dialect, w) = ResponsesToWire(w)
                 /\ dialect = AnthropicName => /\ (IsWire(dialect, w) <=> IsAnthropicWire(w))
                                               /\ (Reads(dialect, p, w) <=> ReadsAnthropic(p, w))
                                               /\ (Writes(dialect, p, w) <=> WritesAnthropic(p, w))
                                               /\ FromWire(dialect, p, w) = AnthropicFromWire(p, w)
                                               /\ ToWire(dialect, w) = AnthropicToWire(w)
                 /\ dialect = GeminiName => /\ (IsWire(dialect, w) <=> IsGeminiWire(w))
                                            /\ (Reads(dialect, p, w) <=> ReadsGemini(p, w))
                                            /\ (Writes(dialect, p, w) <=> WritesGemini(p, w))
                                            /\ FromWire(dialect, p, w) = GeminiFromWire(p, w)
                                            /\ ToWire(dialect, w) = GeminiToWire(w)
                 /\ dialect = InteractionsName => /\ (IsWire(dialect, w) <=> IsInteractionsWire(w))
                                                  /\ (Reads(dialect, p, w) <=> ReadsInteractions(p, w))
                                                  /\ (Writes(dialect, p, w) <=> WritesInteractions(p, w))
                                                  /\ FromWire(dialect, p, w) = InteractionsFromWire(p, w)
                                                  /\ ToWire(dialect, w) = InteractionsToWire(w)
<1>1. \/ dialect = ChatName \/ dialect = ResponsesName \/ dialect = AnthropicName
      \/ dialect = GeminiName \/ dialect = InteractionsName
  BY DEF Adapters
<1>2. ASSUME NEW p, NEW w, dialect = ChatName
      PROVE  /\ (IsWire(dialect, w) <=> IsChatWire(w))
             /\ (Reads(dialect, p, w) <=> ReadsChat(p, w))
             /\ (Writes(dialect, p, w) <=> WritesChat(p, w))
             /\ FromWire(dialect, p, w) = ChatFromWire(p, w)
             /\ ToWire(dialect, w) = ChatToWire(w)
  BY <1>2, AdapterNames DEF IsWire, Reads, Writes, FromWire, ToWire
<1>3. ASSUME NEW p, NEW w, dialect = ResponsesName
      PROVE  /\ (IsWire(dialect, w) <=> IsResponsesWire(w))
             /\ (Reads(dialect, p, w) <=> ReadsResponses(p, w))
             /\ (Writes(dialect, p, w) <=> WritesResponses(p, w))
             /\ FromWire(dialect, p, w) = ResponsesFromWire(p, w)
             /\ ToWire(dialect, w) = ResponsesToWire(w)
  BY <1>3, AdapterNames DEF IsWire, Reads, Writes, FromWire, ToWire
<1>4. ASSUME NEW p, NEW w, dialect = AnthropicName
      PROVE  /\ (IsWire(dialect, w) <=> IsAnthropicWire(w))
             /\ (Reads(dialect, p, w) <=> ReadsAnthropic(p, w))
             /\ (Writes(dialect, p, w) <=> WritesAnthropic(p, w))
             /\ FromWire(dialect, p, w) = AnthropicFromWire(p, w)
             /\ ToWire(dialect, w) = AnthropicToWire(w)
  BY <1>4, AdapterNames DEF IsWire, Reads, Writes, FromWire, ToWire
<1>5. ASSUME NEW p, NEW w, dialect = GeminiName
      PROVE  /\ (IsWire(dialect, w) <=> IsGeminiWire(w))
             /\ (Reads(dialect, p, w) <=> ReadsGemini(p, w))
             /\ (Writes(dialect, p, w) <=> WritesGemini(p, w))
             /\ FromWire(dialect, p, w) = GeminiFromWire(p, w)
             /\ ToWire(dialect, w) = GeminiToWire(w)
  BY <1>5, AdapterNames DEF IsWire, Reads, Writes, FromWire, ToWire
<1>6. ASSUME NEW p, NEW w, dialect = InteractionsName
      PROVE  /\ (IsWire(dialect, w) <=> IsInteractionsWire(w))
             /\ (Reads(dialect, p, w) <=> ReadsInteractions(p, w))
             /\ (Writes(dialect, p, w) <=> WritesInteractions(p, w))
             /\ FromWire(dialect, p, w) = InteractionsFromWire(p, w)
             /\ ToWire(dialect, w) = InteractionsToWire(w)
  BY <1>6, AdapterNames DEF IsWire, Reads, Writes, FromWire, ToWire
<1> QED
  BY <1>1, <1>2, <1>3, <1>4, <1>5, <1>6

LEMMA AdapterParses ==
    ASSUME NEW dialect \in Adapters, NEW p, NEW w, IsWire(dialect, w), Reads(dialect, p, w)
    PROVE  IsParsed(dialect, p, FromWire(dialect, p, w))
<1>1. CASE dialect = ChatName
  BY <1>1, EachAdapter, ChatParses
<1>2. CASE dialect = ResponsesName
  BY <1>2, EachAdapter, ResponsesParses
<1>3. CASE dialect = AnthropicName
  BY <1>3, EachAdapter, AnthropicParses
<1>4. CASE dialect = GeminiName
  BY <1>4, EachAdapter, GeminiParses
<1>5. CASE dialect = InteractionsName
  BY <1>5, EachAdapter, InteractionsParses
<1> QED
  BY <1>1, <1>2, <1>3, <1>4, <1>5, EachAdapter

LEMMA AdapterIsRead ==
    ASSUME NEW dialect \in Adapters, NEW p, NEW r, IsRequest(r), Writes(dialect, p, r)
    PROVE  IsWire(dialect, ToWire(dialect, r)) /\ Reads(dialect, p, ToWire(dialect, r))
<1>1. CASE dialect = ChatName
  BY <1>1, EachAdapter, ChatIsRead
<1>2. CASE dialect = ResponsesName
  BY <1>2, EachAdapter, ResponsesIsRead
<1>3. CASE dialect = AnthropicName
  BY <1>3, EachAdapter, AnthropicIsRead
<1>4. CASE dialect = GeminiName
  BY <1>4, EachAdapter, GeminiIsRead
<1>5. CASE dialect = InteractionsName
  BY <1>5, EachAdapter, InteractionsIsRead
<1> QED
  BY <1>1, <1>2, <1>3, <1>4, <1>5, EachAdapter

LEMMA AdapterCarriesOver ==
    ASSUME NEW dialect \in Adapters, NEW p, NEW r, IsRequest(r), Writes(dialect, p, r)
    PROVE  CarriedOver(dialect, r, FromWire(dialect, p, ToWire(dialect, r)))
<1>1. CASE dialect = ChatName
  BY <1>1, EachAdapter, ChatCarriesOver
<1>2. CASE dialect = ResponsesName
  BY <1>2, EachAdapter, ResponsesCarriesOver
<1>3. CASE dialect = AnthropicName
  BY <1>3, EachAdapter, AnthropicCarriesOver
<1>4. CASE dialect = GeminiName
  BY <1>4, EachAdapter, GeminiCarriesOver
<1>5. CASE dialect = InteractionsName
  BY <1>5, EachAdapter, InteractionsCarriesOver
<1> QED
  BY <1>1, <1>2, <1>3, <1>4, <1>5, EachAdapter

\* An adapter under a policy read r from something a client may send.
HasRead(dialect, policy, r) ==
    \E w : IsWire(dialect, w) /\ Reads(dialect, policy, w) /\ r = FromWire(dialect, policy, w)

LEMMA HasReadParses ==
    ASSUME NEW dialect \in Adapters, NEW p, NEW r, HasRead(dialect, p, r)
    PROVE  IsParsed(dialect, p, r)
BY AdapterParses DEF HasRead

\* Where a request is on its way.
AdaptersInv ==
    /\ ingress \in Adapters /\ egress \in Egress
    /\ stage \in {"received", "parsed", "sent", "understood", "refused"}
    /\ stage = "received" => wire \in Wires[ingress] /\ request = <<>>
    /\ request # <<>> => HasRead(ingress, policies[1], request)
    /\ stage \in {"parsed", "sent", "understood"} => HasRead(ingress, policies[1], request)
    /\ stage \in {"sent", "understood"} =>
          Writes(egress, policies[2], request) /\ wire = ToWire(egress, request)
    /\ stage = "understood" => read = FromWire(egress, policies[2], wire)
    /\ stage # "understood" => read = <<>>

LEMMA AdaptersInitial == AdaptersInit => AdaptersInv
BY DEF AdaptersInit, AdaptersInv

LEMMA AdaptersStep ==
    ASSUME AdaptersInv, [AdaptersNext]_adaptersVars
    PROVE  AdaptersInv'
<1>1. CASE Parse
  <2>1. stage = "received" /\ wire \in Wires[ingress] /\ ingress \in Adapters /\ egress \in Egress
    BY <1>1 DEF Parse, AdaptersInv
  <2>2. IsWire(ingress, wire)
    BY <2>1, EachAdapter, RequestsAreParsed
  <2>3. CASE Reads(ingress, policies[1], wire)
    <3>1. stage' = "parsed" /\ request' = FromWire(ingress, policies[1], wire)
          /\ UNCHANGED <<ingress, egress, policies, wire, read>>
      BY <1>1, <2>3 DEF Parse
    <3>2. HasRead(ingress, policies[1], request')
      BY <2>2, <2>3, <3>1 DEF HasRead
    <3> QED
      BY <2>1, <3>1, <3>2 DEF AdaptersInv
  <2>4. CASE ~ Reads(ingress, policies[1], wire)
    <3>1. stage' = "refused" /\ UNCHANGED <<ingress, egress, policies, wire, request, read>>
      BY <1>1, <2>4 DEF Parse
    <3> QED
      BY <2>1, <3>1 DEF AdaptersInv
  <2> QED
    BY <2>3, <2>4
<1>2. CASE Serialize
  <2>1. stage = "parsed" /\ HasRead(ingress, policies[1], request)
    BY <1>2 DEF Serialize, AdaptersInv
  <2>2. CASE Writes(egress, policies[2], request)
    <3>1. stage' = "sent" /\ wire' = ToWire(egress, request)
          /\ UNCHANGED <<ingress, egress, policies, request, read>>
      BY <1>2, <2>2 DEF Serialize
    <3> QED
      BY <2>1, <2>2, <3>1 DEF AdaptersInv
  <2>3. CASE ~ Writes(egress, policies[2], request)
    <3>1. stage' = "refused" /\ UNCHANGED <<ingress, egress, policies, wire, request, read>>
      BY <1>2, <2>3 DEF Serialize
    <3> QED
      BY <2>1, <3>1 DEF AdaptersInv
  <2> QED
    BY <2>2, <2>3
<1>3. CASE Understand
  <2>1. /\ stage = "sent" /\ HasRead(ingress, policies[1], request)
        /\ Writes(egress, policies[2], request) /\ wire = ToWire(egress, request)
        /\ ingress \in Adapters /\ egress \in Adapters
    BY <1>3, AdaptersAssumption DEF Understand, AdaptersInv
  <2>2. IsRequest(request)
    BY <2>1, HasReadParses DEF IsParsed
  <2>3. Reads(egress, policies[2], wire)
    BY <2>1, <2>2, AdapterIsRead
  <2>4. stage' = "understood" /\ read' = FromWire(egress, policies[2], wire)
        /\ UNCHANGED <<ingress, egress, policies, wire, request>>
    BY <1>3, <2>3 DEF Understand
  <2> QED
    BY <2>1, <2>4 DEF AdaptersInv
<1>4. CASE UNCHANGED adaptersVars
  BY <1>4 DEF AdaptersInv, adaptersVars
<1> QED
  BY <1>1, <1>2, <1>3, <1>4 DEF AdaptersNext

\* The invariant of the adapters is inductive.
THEOREM AdaptersInductive == AdaptersSpec => []AdaptersInv
<1> QED
  BY AdaptersInitial, AdaptersStep, PTL DEF AdaptersSpec

\* What an adapter writes, it reads.
THEOREM WrittenIsRead == AdaptersSpec => []WrittenIsReadable
<1>1. AdaptersInv => WrittenIsReadable
  BY DEF AdaptersInv, WrittenIsReadable
<1> QED
  BY <1>1, AdaptersInductive, PTL

LEMMA RequestsAreTyped ==
    ASSUME NEW r, IsRequest(r)
    PROVE  \A i \in DOMAIN r.turns :
              LET turn == r.turns[i]
              IN  /\ turn.role \in Roles /\ turn.content # <<>>
                  /\ \A j \in DOMAIN turn.content :
                        LET b == turn.content[j]
                        IN  \/ IsText(b) /\ turn.role # "tool"
                            \/ IsCall(b) /\ turn.role = "assistant" /\ b.args.object
                            \/ IsResult(b) /\ turn.role = "tool" /\ OneResult(turn)
<1> SUFFICES ASSUME NEW i \in DOMAIN r.turns, NEW turn, turn = r.turns[i]
             PROVE  /\ turn.role \in Roles /\ turn.content # <<>>
                    /\ \A j \in DOMAIN turn.content : AllowedIn(turn, turn.content[j])
  BY DEF AllowedIn
<1>1. IsTurn(turn)
  BY ListFacts DEF IsRequest, AreTurns
<1> QED
  BY <1>1, ListFacts DEF IsTurn, AreBlocks

\* What the provider reads is a request under its policy.
LEMMA ReadIsParsed ==
    ASSUME AdaptersInv, stage = "understood"
    PROVE  /\ IsParsed(ingress, policies[1], request) /\ IsParsed(egress, policies[2], read)
           /\ CarriedOver(egress, request, read)
           /\ ingress \in Adapters /\ egress \in Adapters
<1>1. /\ HasRead(ingress, policies[1], request)
      /\ Writes(egress, policies[2], request) /\ wire = ToWire(egress, request)
      /\ read = FromWire(egress, policies[2], wire)
      /\ ingress \in Adapters /\ egress \in Adapters
  BY AdaptersAssumption DEF AdaptersInv
<1>2. IsParsed(ingress, policies[1], request) /\ IsRequest(request)
  BY <1>1, HasReadParses DEF IsParsed
<1>3. IsWire(egress, wire) /\ Reads(egress, policies[2], wire)
  BY <1>1, <1>2, AdapterIsRead
<1> QED
  BY <1>1, <1>2, <1>3, AdapterParses, AdapterCarriesOver

\* Types: both sides hold canonical requests.
THEOREM AdaptersTyped == AdaptersSpec => []AdaptersTypeOK
<1>1. AdaptersInv => AdaptersTypeOK
  <2> SUFFICES ASSUME AdaptersInv PROVE AdaptersTypeOK
    OBVIOUS
  <2>1. \A r \in {request, read} \ {<<>>} : IsRequest(r)
    <3>1. request # <<>> => IsRequest(request)
      BY HasReadParses DEF AdaptersInv, IsParsed
    <3>2. read # <<>> => IsRequest(read)
      BY ReadIsParsed DEF AdaptersInv, IsParsed
    <3> QED
      BY <3>1, <3>2
  <2>2. /\ ingress \in Adapters /\ egress \in Egress
        /\ stage \in {"received", "parsed", "sent", "understood", "refused", "misread"}
    BY DEF AdaptersInv
  <2> QED
    BY <2>1, <2>2, RequestsAreTyped DEF AdaptersTypeOK
<1> QED
  BY <1>1, AdaptersInductive, PTL

\* State, remote tools and reviewed fields go to the provider they were meant for.
THEOREM StateAtHome == AdaptersSpec => []StateStaysHome
<1>1. AdaptersInv => StateStaysHome
  <2> SUFFICES ASSUME AdaptersInv, Understood PROVE StateStaysHome
    BY DEF StateStaysHome
  <2>1. /\ IsParsed(ingress, policies[1], request) /\ IsParsed(egress, policies[2], read)
        /\ CarriedOver(egress, request, read)
    BY ReadIsParsed DEF Understood
  <2>2. /\ IsOwn(ingress, policies[1], request) /\ IsOwn(egress, policies[2], read)
        /\ IsRequest(request) /\ IsRequest(read)
    BY <2>1 DEF IsParsed
  <2>3. read.store => policies[1].storage /\ policies[2].storage
    BY <2>1, <2>2 DEF CarriedOver, IsOwn
  <2>4. \A e \in read.extensions : ingress = egress /\ e.name \in policies[1].safe \cap policies[2].safe
    BY <2>1, <2>2 DEF CarriedOver, IsOwn
  <2>5. ASSUME NEW i \in DOMAIN read.tools, ~ IsFunction(read.tools[i])
        PROVE  /\ policies[1].remote /\ policies[2].remote
               /\ read.tools[i].provider = egress /\ ingress = egress
    <3> DEFINE t == read.tools[i]
    <3>1. /\ IsList(read.tools) /\ \A x \in ToSet(read.tools) : IsCanonicalTool(x)
          /\ IsList(request.tools) /\ \A x \in ToSet(request.tools) : IsCanonicalTool(x)
      BY <2>2 DEF IsRequest
    <3>2. t \in ToSet(read.tools)
      BY <3>1, ListFacts
    <3>3. t \in ToSet(RemotesOf(read.tools))
      BY <2>5, <3>1, <3>2, ToolsApart
    <3>4. t \in ToSet(request.tools)
      BY <2>1, <3>1, <3>3, ToolsApart DEF CarriedOver
    <3> HIDE DEF t
    <3>5. ~ IsFunction(t)
      BY <2>5 DEF t
    <3>6. policies[1].remote /\ t.provider = ingress /\ policies[2].remote /\ t.provider = egress
      BY <2>2, <3>2, <3>4, <3>5 DEF IsOwn
    <3> QED
      BY <3>6 DEF t
  <2> QED
    BY <2>3, <2>4, <2>5 DEF StateStaysHome
<1> QED
  BY <1>1, AdaptersInductive, PTL

\* Parameters and strictness, from what is carried over.
LEMMA ParametersCarried ==
    ASSUME IsRequest(request), IsRequest(read), CarriedOver(egress, request, read)
    PROVE  ParametersArrive /\ StrictnessIsNotLost
<1>1. /\ read.choice = request.choice /\ read.settings = request.settings
      /\ read.stream = request.stream /\ read.extensions = request.extensions
      /\ Len(read.output) = Len(request.output)
      /\ read.store # request.store => egress = GeminiName
      /\ \A i \in DOMAIN request.output : request.output[i].strict => read.output[i].strict
      /\ FunctionsOf(read.tools) = FunctionsOf(request.tools)
      /\ RemotesOf(read.tools) = RemotesOf(request.tools)
  BY DEF CarriedOver
<1>2. \A kind \in {"function", "remote"} :
         Having(read.tools, "kind", {kind}) = Having(request.tools, "kind", {kind})
  BY <1>1 DEF FunctionsOf, RemotesOf
<1>3. ParametersArrive
  BY <1>1, <1>2 DEF ParametersArrive
<1>4. {t \in ToSet(request.tools) : IsFunction(t) /\ t.strict}
      = {t \in ToSet(read.tools) : IsFunction(t) /\ t.strict}
  <2>1. /\ IsList(read.tools) /\ \A x \in ToSet(read.tools) : IsCanonicalTool(x)
        /\ IsList(request.tools) /\ \A x \in ToSet(request.tools) : IsCanonicalTool(x)
    BY DEF IsRequest
  <2>2. {t \in ToSet(request.tools) : IsFunction(t)} = {t \in ToSet(read.tools) : IsFunction(t)}
    BY <1>1, <2>1, ToolsApart
  <2> QED
    BY <2>2
<1>5. StrictnessIsNotLost
  BY <1>1, <1>4 DEF StrictnessIsNotLost
<1> QED
  BY <1>3, <1>5

-----------------------------------------------------------------------------
(* Calls, results and words of lists of turns. *)

ExchangedIn(turns) == FlattenSeq([i \in DOMAIN turns |-> Exchanged(turns[i])])
SpokenIn(turns) == FlattenSeq([i \in DOMAIN turns |-> Spoken(turns[i])])

\* What remains of a block that is exchanged.
Plain(b) == IF IsCall(b) THEN b ELSE Result(b.id, <<>>, b.value, FALSE)

\* A piece of a text and who says it.
Said(by, piece) == [by |-> by, piece |-> piece, joins |-> piece = "newline"]
SaidBy(by, text) == Having([i \in DOMAIN text |-> Said(by, text[i])], "joins", {FALSE})

LEMMA ExchangedBlocks ==
    ASSUME NEW t, IsList(t.content), NEW blocks, blocks = Having(t.content, "kind", {"call", "result"})
    PROVE  /\ Exchanged(t) = [i \in DOMAIN blocks |-> Plain(blocks[i])]
           /\ IsList(Exchanged(t))
<1> DEFINE m == [b \in ToSet(blocks) |-> Plain(b)]
           s == [i \in DOMAIN blocks |-> Plain(blocks[i])]
<1>1. Exchanged(t) = s
  BY DEF Exchanged, Plain
<1>2. IsList(blocks)
  BY HavingMembers
<1>3. s = [i \in DOMAIN blocks |-> m[blocks[i]]]
  BY <1>2, ListFacts
<1> HIDE DEF m, s
<1>4. IsList(s)
  BY <1>2, <1>3, MappedTo, SMTT(60)
<1> QED
  BY <1>1, <1>4 DEF s

LEMMA SaidPieces ==
    ASSUME NEW by, NEW text, IsList(text), NEW g,
           \A x \in ToSet(text) : g[x] = IF x = "newline" THEN <<>> ELSE <<Said(by, x)>>
    PROVE  /\ SaidBy(by, text) = Bind(text, g) /\ Maps(text, g)
           /\ IsList(SaidBy(by, text))
           /\ \A x \in ToSet(SaidBy(by, text)) : x.by = by
<1> DEFINE m == [x \in ToSet(text) |-> Said(by, x)]
           s == [i \in DOMAIN text |-> Said(by, text[i])]
           h == Chosen(ToSet(s), "joins", {FALSE})
<1>1. s = [i \in DOMAIN text |-> m[text[i]]]
  BY ListFacts
<1>2. \A x \in ToSet(text) : m[x] = Said(by, x)
  OBVIOUS
<1>3. \A x : Said(by, x).joins = (x = "newline") /\ Said(by, x).by = by
  BY DEF Said
<1>4. \A x \in ToSet(text) : g[x] = IF x = "newline" THEN <<>> ELSE <<Said(by, x)>>
  OBVIOUS
<1>5. SaidBy(by, text) = Having(s, "joins", {FALSE})
  BY DEF SaidBy
<1> HIDE DEF m, s
<1>6. IsList(s) /\ ToSet(s) = {m[x] : x \in ToSet(text)}
  BY <1>1, MappedTo
<1>7. Having(s, "joins", {FALSE}) = Bind(s, h)
  BY <1>6, HavingBinds
<1>8. \A y \in ToSet(s) : h[y] = IF y["joins"] \in {FALSE} THEN <<y>> ELSE <<>>
  BY DEF Chosen
<1> HIDE DEF h
<1>9. ASSUME NEW x \in ToSet(text) PROVE g[x] = h[m[x]]
  <2>1. m[x] = Said(by, x) /\ m[x] \in ToSet(s)
    BY <1>2, <1>6
  <2>2. m[x].joins = (x = "newline")
    BY <1>3, <2>1
  <2> QED
    BY <1>4, <1>8, <2>1, <2>2
<1>10. Bind([i \in DOMAIN text |-> m[text[i]]], h) = Bind(text, g)
  BY <1>9, BindMapped
<1>11. SaidBy(by, text) = Bind(text, g)
  BY <1>1, <1>5, <1>7, <1>10
<1>12. Maps(text, g)
  BY <1>4, SmallLists DEF Maps
<1>13. /\ IsList(Having(s, "joins", {FALSE}))
       /\ \A x \in ToSet(Having(s, "joins", {FALSE})) : x \in ToSet(s)
  BY <1>6, HavingMembers
<1>14. \A x \in ToSet(s) : x.by = by
  BY <1>2, <1>3, <1>6
<1> QED
  BY <1>5, <1>11, <1>12, <1>13, <1>14

\* The texts of a turn, piece by piece.
LEMMA SpokenTexts ==
    ASSUME NEW t, NEW texts, texts = TextsOf(t), IsList(texts), \A b \in ToSet(texts) : IsList(b.text),
           NEW E, ToSet(texts) \subseteq E, NEW q, q = [b \in E |-> SaidBy(Speaker(t), b.text)]
    PROVE  /\ Spoken(t) = Bind(texts, q) /\ Maps(texts, q)
           /\ IsList(Spoken(t)) /\ \A x \in ToSet(Spoken(t)) : x.by = Speaker(t)
<1> DEFINE by == Speaker(t)
           says(text) == [i \in DOMAIN text |-> Said(by, text[i])]
           g == [b \in ToSet(texts) |-> says(b.text)]
           s == [i \in DOMAIN texts |-> says(texts[i].text)]
<1>1. Spoken(t) = Having(FlattenSeq(s), "joins", {FALSE})
  BY DEF Spoken, Said
<1>2. s = [i \in DOMAIN texts |-> g[texts[i]]]
  BY ListFacts
<1>3. \A b \in ToSet(texts) : g[b] = says(b.text)
  OBVIOUS
<1>4. FlattenSeq(s) = Bind(texts, g)
  BY <1>2 DEF Bind
<1>5. ASSUME NEW b \in ToSet(texts)
      PROVE  IsList(g[b]) /\ q[b] = Having(g[b], "joins", {FALSE}) /\ IsList(q[b])
             /\ \A x \in ToSet(q[b]) : x.by = by
  <2> DEFINE text == b.text
             m == [x \in ToSet(text) |-> Said(by, x)]
             G == [x \in ToSet(text) |-> IF x = "newline" THEN <<>> ELSE <<Said(by, x)>>]
  <2>1. IsList(text)
    OBVIOUS
  <2>2. says(text) = [i \in DOMAIN text |-> m[text[i]]]
    BY <2>1, ListFacts
  <2>3. q[b] = SaidBy(by, text)
    OBVIOUS
  <2>4. SaidBy(by, text) = Having(says(text), "joins", {FALSE})
    BY DEF SaidBy
  <2>5. g[b] = says(text)
    OBVIOUS
  <2> HIDE DEF text, m, says, by
  <2>6. IsList(says(text))
    BY <2>1, <2>2, MappedTo
  <2>7. IsList(SaidBy(by, text)) /\ \A x \in ToSet(SaidBy(by, text)) : x.by = by
    <3>1. \A x \in ToSet(text) : G[x] = IF x = "newline" THEN <<>> ELSE <<Said(by, x)>>
      OBVIOUS
    <3> HIDE DEF G
    <3> QED
      BY <2>1, <3>1, SaidPieces
  <2> QED
    BY <2>3, <2>4, <2>5, <2>6, <2>7
<1> HIDE DEF g, s, by
<1>6. Maps(texts, g) /\ Maps(texts, q)
  BY <1>5 DEF Maps
<1>7. Having(Bind(texts, g), "joins", {FALSE}) = Bind(texts, q)
  BY <1>5, <1>6, HavingOfBind
<1>8. IsList(Bind(texts, q)) /\ ToSet(Bind(texts, q)) = UNION {ToSet(q[b]) : b \in ToSet(texts)}
  BY <1>6, BindMembers
<1> QED
  BY <1>1, <1>4, <1>5, <1>6, <1>7, <1>8 DEF by

\* What turns exchange and say are lists.
LEMMA TurnsAreLists ==
    ASSUME NEW t, IsTurn(t)
    PROVE  /\ IsList(Exchanged(t)) /\ IsList(Spoken(t))
           /\ \A x \in ToSet(Spoken(t)) : x.by = Speaker(t)
           /\ IsList(TextsOf(t)) /\ \A b \in ToSet(TextsOf(t)) : IsList(b.text)
<1>1. IsList(t.content) /\ AreBlocks(TextsOf(t)) /\ \A b \in ToSet(TextsOf(t)) : IsText(b)
  BY PartsOfTurns
<1>2. IsList(TextsOf(t)) /\ \A b \in ToSet(TextsOf(t)) : IsBlock(b) /\ IsText(b)
  BY <1>1 DEF AreBlocks
<1>3. \A b \in ToSet(TextsOf(t)) : IsList(b.text)
  BY <1>2 DEF IsBlock, IsText, IsCall, IsResult, Media
<1> DEFINE q == [b \in ToSet(TextsOf(t)) |-> SaidBy(Speaker(t), b.text)]
<1>4. IsList(Spoken(t)) /\ \A x \in ToSet(Spoken(t)) : x.by = Speaker(t)
  BY <1>2, <1>3, SpokenTexts
<1>5. IsList(Exchanged(t))
  BY <1>1, ExchangedBlocks
<1> QED
  BY <1>2, <1>3, <1>4, <1>5

\* Lists of turns, as replacements of each turn.
LEMMA TurnsBind ==
    ASSUME NEW s, AreTurns(s), NEW E, ToSet(s) \subseteq E,
           NEW x, x = [t \in E |-> Exchanged(t)], NEW y, y = [t \in E |-> Spoken(t)]
    PROVE  /\ ExchangedIn(s) = Bind(s, x) /\ Maps(s, x)
           /\ SpokenIn(s) = Bind(s, y) /\ Maps(s, y)
<1>1. IsList(s) /\ \A t \in ToSet(s) : IsTurn(t)
  BY DEF AreTurns
<1>2. \A t \in ToSet(s) : x[t] = Exchanged(t) /\ y[t] = Spoken(t)
  OBVIOUS
<1>3. [i \in DOMAIN s |-> Exchanged(s[i])] = [i \in DOMAIN s |-> x[s[i]]]
  BY <1>1, <1>2, ListFacts
<1>4. [i \in DOMAIN s |-> Spoken(s[i])] = [i \in DOMAIN s |-> y[s[i]]]
  BY <1>1, <1>2, ListFacts
<1>5. Maps(s, x) /\ Maps(s, y)
  BY <1>1, <1>2, TurnsAreLists DEF Maps
<1>6. ExchangedIn(s) = Bind(s, x)
  BY <1>3 DEF ExchangedIn, Bind
<1>7. SpokenIn(s) = Bind(s, y)
  BY <1>4 DEF SpokenIn, Bind
<1> QED
  BY <1>5, <1>6, <1>7

LEMMA TurnsConcat ==
    ASSUME NEW s, NEW t, AreTurns(s), AreTurns(t)
    PROVE  /\ ExchangedIn(s \o t) = ExchangedIn(s) \o ExchangedIn(t)
           /\ SpokenIn(s \o t) = SpokenIn(s) \o SpokenIn(t)
<1> DEFINE E == ToSet(s) \cup ToSet(t)
           x == [u \in E |-> Exchanged(u)]
           y == [u \in E |-> Spoken(u)]
<1>1. IsList(s) /\ IsList(t) /\ AreTurns(s \o t)
  BY JoinedTurns DEF AreTurns
<1>2. ToSet(s \o t) = E /\ ToSet(s) \subseteq E /\ ToSet(t) \subseteq E
  BY <1>1, JoinedList
<1>3. /\ ExchangedIn(s) = Bind(s, x) /\ Maps(s, x) /\ SpokenIn(s) = Bind(s, y) /\ Maps(s, y)
  BY <1>2, TurnsBind
<1>4. /\ ExchangedIn(t) = Bind(t, x) /\ Maps(t, x) /\ SpokenIn(t) = Bind(t, y) /\ Maps(t, y)
  BY <1>2, TurnsBind
<1>5. ExchangedIn(s \o t) = Bind(s \o t, x) /\ SpokenIn(s \o t) = Bind(s \o t, y)
  BY <1>1, <1>2, TurnsBind
<1> HIDE DEF x, y
<1> QED
  BY <1>3, <1>4, <1>5, BindConcat

LEMMA OneTurn ==
    ASSUME NEW t, IsTurn(t)
    PROVE  /\ AreTurns(<<t>>) /\ ExchangedIn(<<t>>) = Exchanged(t) /\ SpokenIn(<<t>>) = Spoken(t)
<1> DEFINE x == [u \in {t} |-> Exchanged(u)]
           y == [u \in {t} |-> Spoken(u)]
<1>1. AreTurns(<<t>>) /\ ToSet(<<t>>) = {t}
  BY SmallLists DEF AreTurns
<1>2. ExchangedIn(<<t>>) = Bind(<<t>>, x) /\ SpokenIn(<<t>>) = Bind(<<t>>, y)
  BY <1>1, TurnsBind
<1>3. x[t] = Exchanged(t) /\ y[t] = Spoken(t)
  OBVIOUS
<1> HIDE DEF x, y
<1> QED
  BY <1>1, <1>2, <1>3, BindOne, TurnsAreLists

LEMMA NoTurnsSay == ExchangedIn(<<>>) = <<>> /\ SpokenIn(<<>>) = <<>>
<1>1. [i \in DOMAIN <<>> |-> Exchanged(<<>>[i])] = <<>> /\ [i \in DOMAIN <<>> |-> Spoken(<<>>[i])] = <<>>
  OBVIOUS
<1> QED
  BY <1>1, FlattenEmpty DEF ExchangedIn, SpokenIn

\* Turns that say and exchange what one turn does.
Conveys(s, t) == AreTurns(s) /\ ExchangedIn(s) = Exchanged(t) /\ SpokenIn(s) = Spoken(t)

LEMMA Conveyed ==
    ASSUME NEW turns, AreTurns(turns), NEW g, \A t \in ToSet(turns) : Conveys(g[t], t)
    PROVE  /\ AreTurns(Bind(turns, g))
           /\ ExchangedIn(Bind(turns, g)) = ExchangedIn(turns)
           /\ SpokenIn(Bind(turns, g)) = SpokenIn(turns)
<1> DEFINE all == Bind(turns, g)
           E == ToSet(all) \cup ToSet(turns)
           x == [u \in E |-> Exchanged(u)]
           y == [u \in E |-> Spoken(u)]
<1>1. IsList(turns) /\ \A t \in ToSet(turns) : IsTurn(t)
  BY DEF AreTurns
<1>2. Maps(turns, g) /\ \A t \in ToSet(turns) : AreTurns(g[t])
  BY <1>1 DEF Maps, Conveys, AreTurns
<1>3. IsList(all) /\ ToSet(all) = UNION {ToSet(g[t]) : t \in ToSet(turns)}
  BY <1>2, BindMembers
<1>4. AreTurns(all)
  BY <1>2, <1>3 DEF AreTurns
<1>5. ToSet(all) \subseteq E /\ ToSet(turns) \subseteq E /\ \A t \in ToSet(turns) : ToSet(g[t]) \subseteq E
  BY <1>3
<1>6. ExchangedIn(all) = Bind(all, x) /\ SpokenIn(all) = Bind(all, y)
  <2> HIDE DEF all, E
  <2> QED
    BY <1>4, <1>5, TurnsBind
<1>7. ExchangedIn(turns) = Bind(turns, x) /\ SpokenIn(turns) = Bind(turns, y)
  <2> HIDE DEF all, E
  <2> QED
    BY <1>5, TurnsBind
<1>8. ASSUME NEW t \in ToSet(turns)
      PROVE  /\ Maps(g[t], x) /\ x[t] = Bind(g[t], x)
             /\ Maps(g[t], y) /\ y[t] = Bind(g[t], y)
  <2>1. x[t] = Exchanged(t) /\ y[t] = Spoken(t)
    BY <1>5
  <2> HIDE DEF all, E
  <2>2. /\ ExchangedIn(g[t]) = Bind(g[t], x) /\ Maps(g[t], x)
        /\ SpokenIn(g[t]) = Bind(g[t], y) /\ Maps(g[t], y)
    BY <1>2, <1>5, TurnsBind
  <2> QED
    BY <2>1, <2>2 DEF Conveys
<1> HIDE DEF x, y, E
<1>9. Bind(Bind(turns, g), x) = Bind(turns, x)
  BY <1>2, <1>8, BindTwice
<1>10. Bind(Bind(turns, g), y) = Bind(turns, y)
  BY <1>2, <1>8, BindTwice
<1> QED
  BY <1>4, <1>6, <1>7, <1>9, <1>10

LEMMA MapIsBind ==
    ASSUME NEW s, NEW m, NEW n, IsList(s), \A x \in ToSet(s) : n[x] = <<m[x]>>
    PROVE  [i \in DOMAIN s |-> m[s[i]]] = Bind(s, n)
<1> DEFINE t == [i \in DOMAIN s |-> m[s[i]]]
           id == [y \in ToSet(t) |-> <<y>>]
<1>1. IsList(t) /\ ToSet(t) = {m[x] : x \in ToSet(s)}
  BY Mapped
<1>2. \A y \in ToSet(t) : id[y] = <<y>>
  OBVIOUS
<1> HIDE DEF id
<1>3. Bind(t, id) = t
  <2> HIDE DEF t
  <2> QED
    BY <1>1, <1>2, BindItself
<1>4. \A x \in ToSet(s) : n[x] = id[m[x]]
  BY <1>1, <1>2
<1>5. Bind([i \in DOMAIN s |-> m[s[i]]], id) = Bind(s, n)
  BY <1>4, BindMapped
<1> QED
  BY <1>3, <1>5

LEMMA HavingSame ==
    ASSUME NEW list, NEW field, NEW A, NEW B, IsList(list),
           \A x \in ToSet(list) : x[field] \in A <=> x[field] \in B
    PROVE  Having(list, field, A) = Having(list, field, B)
<1> DEFINE g == Chosen(ToSet(list), field, A)
           h == Chosen(ToSet(list), field, B)
<1>1. Having(list, field, A) = Bind(list, g) /\ Having(list, field, B) = Bind(list, h)
  BY HavingBinds
<1>2. \A x \in ToSet(list) : g[x] = h[x]
  BY DEF Chosen
<1> HIDE DEF g, h
<1> QED
  BY <1>1, <1>2, BindSame

-----------------------------------------------------------------------------
(* What one turn exchanges and says. *)

LEMMA ExchangedBySpeakers ==
    ASSUME NEW t, IsTurn(t), t.role # "tool"
    PROVE  Exchanged(t) = CallsOf(t)
<1> DEFINE calls == CallsOf(t)
           blocks == Having(t.content, "kind", {"call", "result"})
<1>1. /\ IsList(t.content) /\ \A b \in ToSet(t.content) : IsText(b) \/ IsCall(b)
      /\ AreBlocks(calls) /\ ToSet(calls) = {b \in ToSet(t.content) : IsCall(b)}
  BY PartsOfTurns
<1>2. \A b \in ToSet(t.content) : b["kind"] \in {"call", "result"} <=> b["kind"] \in {"call"}
  BY <1>1 DEF IsText, IsCall
<1>3. blocks = calls
  BY <1>1, <1>2, HavingSame DEF CallsOf
<1>4. Exchanged(t) = [i \in DOMAIN blocks |-> Plain(blocks[i])]
  BY <1>1, ExchangedBlocks
<1> HIDE DEF calls, blocks
<1>5. IsList(calls) /\ \A i \in DOMAIN calls : Plain(calls[i]) = calls[i]
  BY <1>1, ListFacts DEF Plain, AreBlocks
<1>6. Exchanged(t) = [i \in DOMAIN calls |-> calls[i]]
  BY <1>3, <1>4, <1>5
<1>7. calls \in Seq(ToSet(calls))
  BY <1>5 DEF IsList
<1>8. [i \in DOMAIN calls |-> calls[i]] = calls
  BY <1>7
<1> QED
  BY <1>6, <1>8 DEF calls

LEMMA SilentTurns ==
    ASSUME NEW t, IsTurn(t), TextsOf(t) = <<>>
    PROVE  Spoken(t) = <<>>
<1> DEFINE texts == TextsOf(t)
           q == [b \in ToSet(texts) |-> SaidBy(Speaker(t), b.text)]
<1>1. IsList(texts) /\ \A b \in ToSet(texts) : IsList(b.text)
  BY TurnsAreLists
<1>2. Spoken(t) = Bind(texts, q)
  BY <1>1, SpokenTexts
<1> HIDE DEF q
<1> QED
  BY <1>2, BindNothing

LEMMA SpokenAlike ==
    ASSUME NEW t, NEW u, IsTurn(t), IsTurn(u), TextsOf(u) = TextsOf(t),
           TextsOf(t) # <<>> => Speaker(u) = Speaker(t)
    PROVE  Spoken(u) = Spoken(t)
<1>1. CASE TextsOf(t) = <<>>
  BY <1>1, SilentTurns
<1>2. CASE TextsOf(t) # <<>>
  BY <1>2 DEF Spoken
<1> QED
  BY <1>1, <1>2

\* A turn of texts only.
LEMMA TextsTurn ==
    ASSUME NEW u, IsTurn(u), \A b \in ToSet(u.content) : IsText(b)
    PROVE  TextsOf(u) = u.content /\ CallsOf(u) = <<>> /\ Exchanged(u) = <<>>
<1>1. IsList(u.content) /\ u.content # <<>>
  BY PartsOfTurns
<1>2. \A b \in ToSet(u.content) : b["kind"] \in {"text"} /\ b["kind"] \notin {"call"}
  BY DEF IsText
<1>3. TextsOf(u) = u.content
  BY <1>1, <1>2, HavingAll DEF TextsOf
<1>4. CallsOf(u) = <<>>
  BY <1>1, <1>2, HavingNone DEF CallsOf
<1>5. u.role # "tool"
  BY <1>1, <1>3, PartsOfTurns
<1> QED
  BY <1>3, <1>4, <1>5, ExchangedBySpeakers

\* A turn of one call.
LEMMA CallTurnSays ==
    ASSUME NEW c, IsBlock(c), IsCall(c), c.args.object, NEW u, u = Turn("assistant", <<c>>, <<>>)
    PROVE  IsTurn(u) /\ Exchanged(u) = <<c>> /\ Spoken(u) = <<>>
<1>1. IsTurn(u)
  BY CallTurn
<1>2. u.role = "assistant" /\ u.content = <<c>>
  BY FieldsOfTurns
<1>3. IsList(<<c>>) /\ ToSet(<<c>>) = {c}
  BY SmallLists
<1>4. c["kind"] \in {"call"} /\ c["kind"] \notin {"text"}
  BY DEF IsCall
<1>5. CallsOf(u) = <<c>>
  BY <1>2, <1>3, <1>4, HavingAll DEF CallsOf
<1>6. TextsOf(u) = <<>>
  BY <1>2, <1>3, <1>4, HavingNone DEF TextsOf
<1> QED
  BY <1>1, <1>2, <1>5, <1>6, ExchangedBySpeakers, SilentTurns

\* A turn of one result.
LEMMA ResultTurnSays ==
    ASSUME NEW b, IsResult(b), NEW u, IsTurn(u), u.content = <<b>>
    PROVE  Exchanged(u) = <<Result(b.id, <<>>, b.value, FALSE)>> /\ Spoken(u) = <<>>
<1> DEFINE blocks == Having(u.content, "kind", {"call", "result"})
<1>1. IsList(<<b>>) /\ ToSet(<<b>>) = {b}
  BY SmallLists
<1>2. b["kind"] \in {"call", "result"} /\ b["kind"] \notin {"text"}
  BY DEF IsResult
<1>3. blocks = <<b>>
  BY <1>1, <1>2, HavingAll
<1>4. TextsOf(u) = <<>>
  BY <1>1, <1>2, HavingNone DEF TextsOf
<1>5. Exchanged(u) = [i \in DOMAIN blocks |-> Plain(blocks[i])]
  BY <1>1, ExchangedBlocks
<1> HIDE DEF blocks
<1> DEFINE r == Result(b.id, <<>>, b.value, FALSE)
<1>6. Plain(b) = r
  BY DEF Plain, IsCall, IsResult
<1> HIDE DEF r
<1>7. [i \in DOMAIN <<b>> |-> Plain(<<b>>[i])] = <<Plain(b)>>
  OBVIOUS
<1>8. Exchanged(u) = <<r>>
  BY <1>3, <1>5, <1>6, <1>7
<1> QED
  BY <1>4, <1>8, SilentTurns DEF r

\* A turn as a turn of its texts and one of each call.
LEMMA SplitConveys ==
    ASSUME NEW t, IsTurn(t), ~ (t.role = "tool"), NEW role, TextsOf(t) # <<>> => role = t.role,
           NEW n, \A c \in ToSet(CallsOf(t)) : n[c] = <<Turn("assistant", <<c>>, <<>>)>>,
           NEW a, a = IF TextsOf(t) = <<>> THEN <<>> ELSE <<Turn(role, TextsOf(t), <<>>)>>
    PROVE  Conveys(a \o Bind(CallsOf(t), n), t)
<1> DEFINE texts == TextsOf(t)
           calls == CallsOf(t)
           b == Bind(calls, n)
           x == [u \in ToSet(b) |-> Exchanged(u)]
           y == [u \in ToSet(b) |-> Spoken(u)]
<1>1. /\ AreBlocks(texts) /\ AreBlocks(calls) /\ t.role \in Roles
      /\ ToSet(texts) = {z \in ToSet(t.content) : IsText(z)}
      /\ ToSet(calls) = {z \in ToSet(t.content) : IsCall(z)}
      /\ \A c \in ToSet(calls) : c.args.object
  BY PartsOfTurns
<1>2. ASSUME NEW c \in ToSet(calls), NEW u, u = Turn("assistant", <<c>>, <<>>)
      PROVE  IsTurn(u) /\ Exchanged(u) = <<c>> /\ Spoken(u) = <<>>
  <2>1. IsBlock(c) /\ IsCall(c) /\ c.args.object
    BY <1>1 DEF AreBlocks
  <2> QED
    BY <1>2, <2>1, CallTurnSays
<1>3. IsList(calls) /\ \A c \in ToSet(calls) : n[c] = <<Turn("assistant", <<c>>, <<>>)>>
  BY <1>1 DEF AreBlocks
<1>4. Maps(calls, n)
  BY <1>3, SmallLists DEF Maps
<1> HIDE DEF calls, texts
<1>5. IsList(b) /\ ToSet(b) = UNION {ToSet(n[c]) : c \in ToSet(calls)}
  BY <1>4, BindMembers
<1>6. \A c \in ToSet(calls) : ToSet(n[c]) = {Turn("assistant", <<c>>, <<>>)}
  BY <1>3, SmallLists
<1>7. AreTurns(b)
  <2>1. ASSUME NEW z \in ToSet(b) PROVE IsTurn(z)
    <3>1. PICK c \in ToSet(calls) : z = Turn("assistant", <<c>>, <<>>)
      BY <1>5, <1>6, SMTT(60)
    <3> QED
      BY <1>2, <3>1
  <2> QED
    BY <1>5, <2>1 DEF AreTurns
<1>8. ExchangedIn(b) = Bind(b, x) /\ SpokenIn(b) = Bind(b, y)
  <2> HIDE DEF b
  <2> QED
    BY <1>7, TurnsBind
<1>9. ASSUME NEW c \in ToSet(calls)
      PROVE  /\ Maps(n[c], x) /\ Bind(n[c], x) = <<c>>
             /\ Maps(n[c], y) /\ Bind(n[c], y) = <<>>
  <2> DEFINE u == Turn("assistant", <<c>>, <<>>)
  <2>1. IsTurn(u) /\ Exchanged(u) = <<c>> /\ Spoken(u) = <<>>
    BY <1>2
  <2>2. u \in ToSet(b) /\ n[c] = <<u>>
    BY <1>3, <1>5, <1>6
  <2>3. x[u] = <<c>> /\ y[u] = <<>>
    BY <2>1, <2>2
  <2> HIDE DEF x, y, u
  <2>4. IsList(x[u]) /\ IsList(y[u]) /\ ToSet(<<u>>) = {u} /\ IsList(<<u>>)
    BY <2>3, SmallLists
  <2> QED
    BY <2>2, <2>3, <2>4, BindOne DEF Maps
<1> DEFINE k == [c \in ToSet(calls) |-> <<c>>]
           l == [c \in ToSet(calls) |-> <<>>]
<1>10. \A c \in ToSet(calls) : k[c] = <<c>> /\ l[c] = <<>>
  OBVIOUS
<1> HIDE DEF x, y, k, l
<1>11. Bind(b, x) = Bind(calls, k) /\ Bind(b, y) = Bind(calls, l)
  BY <1>4, <1>9, <1>10, BindTwice
<1>12. Bind(calls, k) = calls /\ Bind(calls, l) = <<>>
  BY <1>3, <1>10, BindItself, BindToNothing
<1>13. ExchangedIn(b) = calls /\ SpokenIn(b) = <<>>
  BY <1>8, <1>11, <1>12
<1> HIDE DEF b
<1>14. AreTurns(a) /\ ExchangedIn(a) = <<>> /\ SpokenIn(a) = Spoken(t)
  <2>1. CASE texts = <<>>
    <3>1. a = <<>> /\ Spoken(t) = <<>>
      BY <2>1, SilentTurns DEF texts
    <3> QED
      BY <3>1, NoTurns, NoTurnsSay
  <2>2. CASE texts # <<>>
    <3> DEFINE u == Turn(role, texts, <<>>)
    <3>1. a = <<u>> /\ role = t.role /\ role \in Roles \ {"tool"}
      BY <1>1, <2>2 DEF texts
    <3>2. \A z \in ToSet(texts) : IsText(z)
      BY <1>1
    <3>3. u.role = role /\ u.content = texts
      BY FieldsOfTurns
    <3>4. IsTurn(u)
      BY <1>1, <2>2, <3>1, <3>2, SpokenTurn
    <3> HIDE DEF u
    <3>5. TextsOf(u) = texts /\ Exchanged(u) = <<>>
      BY <3>2, <3>3, <3>4, TextsTurn
    <3>6. Speaker(u) = Speaker(t)
      BY <3>1, <3>3 DEF Speaker, IsInstruction
    <3>7. Spoken(u) = Spoken(t)
      BY <3>4, <3>5, <3>6, SpokenAlike DEF texts
    <3> QED
      BY <3>1, <3>4, <3>5, <3>7, OneTurn
  <2> QED
    BY <2>1, <2>2
<1>15. /\ AreTurns(a \o b) /\ ExchangedIn(a \o b) = <<>> \o calls
       /\ SpokenIn(a \o b) = Spoken(t) \o <<>>
  <2>1. AreTurns(a \o b)
    BY <1>7, <1>14, JoinedTurns
  <2>2. /\ ExchangedIn(a \o b) = ExchangedIn(a) \o ExchangedIn(b)
        /\ SpokenIn(a \o b) = SpokenIn(a) \o SpokenIn(b)
    BY <1>7, <1>14, TurnsConcat
  <2> QED
    BY <1>13, <1>14, <2>1, <2>2
<1>16. <<>> \o calls = calls /\ Spoken(t) \o <<>> = Spoken(t)
  <2>1. calls \in Seq(ToSet(calls))
    BY <1>3 DEF IsList
  <2>2. Spoken(t) \in Seq(ToSet(Spoken(t)))
    BY TurnsAreLists DEF IsList
  <2> QED
    BY <2>1, <2>2
<1>17. Exchanged(t) = calls
  BY ExchangedBySpeakers DEF calls
<1> QED
  BY <1>15, <1>16, <1>17 DEF Conveys, b, calls

-----------------------------------------------------------------------------
(* What the provider reads of each turn says and exchanges the same. *)

LEMMA SameContent ==
    ASSUME NEW t, IsTurn(t), NEW name, NEW u, u = Turn(t.role, t.content, name)
    PROVE  Conveys(<<u>>, t)
<1>1. u.role = t.role /\ u.content = t.content /\ u = Turn(u.role, u.content, u.name)
  BY FieldsOfTurns
<1>2. IsTurn(u)
  BY <1>1 DEF IsTurn, AllowedIn, OneResult
<1>3. TextsOf(u) = TextsOf(t) /\ Speaker(u) = Speaker(t)
  BY <1>1 DEF TextsOf, Speaker, IsInstruction
<1>4. Spoken(u) = Spoken(t)
  BY <1>2, <1>3, SpokenAlike
<1>5. Exchanged(u) = Exchanged(t)
  BY <1>1 DEF Exchanged
<1> QED
  BY <1>2, <1>4, <1>5, OneTurn DEF Conveys

\* A result whose value was written as text.
LEMMA SameResult ==
    ASSUME NEW t, IsTurn(t), OneResult(t), NEW name, NEW error, NEW who, NEW u,
           u = Turn("tool", <<Result(t.content[1].id, name,
                                     json_or_text(compact_json(t.content[1].value)), error)>>, who)
    PROVE  Conveys(<<u>>, t)
<1> DEFINE b == t.content[1]
           value == json_or_text(compact_json(b.value))
           r == Result(b.id, name, value, error)
<1>1. IsTurn(u) /\ u.content = <<r>>
  BY ResultTurn, FieldsOfTurns
<1>2. t.content = <<b>> /\ IsResult(b)
  BY ResultsOfTurns
<1>3. value = b.value
  BY DEF json_or_text, compact_json, JsonText
<1>4. r.id = b.id /\ r.value = value /\ IsResult(r)
  BY DEF Result, IsResult
<1> HIDE DEF b, r, value
<1>5. Exchanged(u) = <<Result(r.id, <<>>, r.value, FALSE)>> /\ Spoken(u) = <<>>
  BY <1>1, <1>4, ResultTurnSays
<1>6. Exchanged(t) = <<Result(b.id, <<>>, b.value, FALSE)>> /\ Spoken(t) = <<>>
  BY <1>2, ResultTurnSays
<1>7. Exchanged(u) = Exchanged(t) /\ Spoken(u) = Spoken(t)
  BY <1>3, <1>4, <1>5, <1>6
<1> QED
  BY <1>1, <1>7, OneTurn DEF Conveys

\* A message as it is read again: texts in front of calls.
LEMMA ChatReadsTurn ==
    ASSUME NEW t, IsTurn(t), NEW u, u = ChatMessageFromWire(ChatMessageToWire(t))
    PROVE  /\ t.role = "tool" =>
                  u = Turn("tool", <<Result(t.content[1].id, t.name,
                                            json_or_text(compact_json(t.content[1].value)), FALSE)>>, t.name)
           /\ t.role # "tool" => u = Turn(t.role, TextsOf(t) \o CallsOf(t), t.name)
<1> DEFINE m == ChatMessageToWire(t)
<1>1. CASE t.role = "tool"
  <2> DEFINE answer == [id |-> t.content[1].id, text |-> compact_json(t.content[1].value)]
  <2>1. m = ChatMessage("tool", <<>>, <<>>, <<answer>>, t.name, FALSE)
    BY <1>1 DEF ChatMessageToWire
  <2>2. answer.id = t.content[1].id /\ answer.text = compact_json(t.content[1].value)
    OBVIOUS
  <2> HIDE DEF answer
  <2>3. m.role = "tool" /\ m.answer[1] = answer /\ m.name = t.name
    BY <2>1 DEF ChatMessage
  <2> HIDE DEF m
  <2>4. u = Turn("tool", <<Result(answer.id, t.name, json_or_text(answer.text), FALSE)>>, t.name)
    BY <2>3 DEF ChatMessageFromWire, m
  <2> QED
    BY <1>1, <2>2, <2>4
<1>2. CASE t.role # "tool"
  <2> DEFINE calls == CallsOf(t)
             texts == TextsOf(t)
             written == [i \in DOMAIN calls |-> [calls[i] EXCEPT !.args = compact_json(@)]]
             parsed == [i \in DOMAIN m.calls |-> [m.calls[i] EXCEPT !.args = @.of]]
  <2>1. m = ChatMessage(t.role, texts, written, <<>>, t.name, FALSE)
    BY <1>2 DEF ChatMessageToWire
  <2>2. IsList(calls) /\ \A c \in ToSet(calls) : c = Call(c.id, c.name, c.args)
    BY PartsOfTurns DEF AreBlocks
  <2>3. u = ChatMessageFromWire(m)
    OBVIOUS
  <2> HIDE DEF written
  <2>4. m.role = t.role /\ m.content = texts /\ m.calls = written /\ m.name = t.name
    BY <2>1 DEF ChatMessage
  <2> HIDE DEF m, calls, texts
  <2>5. u = Turn(t.role, texts \o parsed, t.name)
    BY <1>2, <2>3, <2>4 DEF ChatMessageFromWire
  <2>6. parsed = calls
    <3>1. DOMAIN written = DOMAIN calls
      BY DEF written
    <3>2. \A i \in DOMAIN calls : written[i] = WrittenCall(calls[i])
      BY DEF written, WrittenCall
    <3>3. \A i \in DOMAIN calls : [written[i] EXCEPT !.args = @.of] = calls[i]
      BY <2>2, <3>2, CallsAreWritten, ListFacts
    <3>4. parsed = [i \in DOMAIN calls |-> calls[i]]
      BY <2>4, <3>1, <3>3
    <3>5. calls \in Seq(ToSet(calls))
      BY <2>2 DEF IsList
    <3> HIDE DEF parsed
    <3> QED
      BY <3>4, <3>5
  <2> QED
    BY <1>2, <2>5, <2>6 DEF calls, texts
<1> QED
  BY <1>1, <1>2

\* A turn of texts in front of calls.
LEMMA TextsThenCalls ==
    ASSUME NEW u, NEW texts, NEW calls, IsList(texts), IsList(calls), u.content = texts \o calls,
           \A b \in ToSet(texts) : IsText(b), \A b \in ToSet(calls) : IsCall(b)
    PROVE  TextsOf(u) = texts /\ CallsOf(u) = calls
<1>1. /\ \A b \in ToSet(texts) : b["kind"] \in {"text"} /\ b["kind"] \notin {"call"}
      /\ \A b \in ToSet(calls) : b["kind"] \in {"call"} /\ b["kind"] \notin {"text"}
  BY DEF IsText, IsCall
<1>2. TextsOf(u) = Having(texts, "kind", {"text"}) \o Having(calls, "kind", {"text"})
  BY HavingConcat DEF TextsOf
<1>3. CallsOf(u) = Having(texts, "kind", {"call"}) \o Having(calls, "kind", {"call"})
  BY HavingConcat DEF CallsOf
<1>4. Having(texts, "kind", {"text"}) = texts
  BY <1>1, HavingAll
<1>5. Having(calls, "kind", {"call"}) = calls
  BY <1>1, HavingAll
<1>6. Having(texts, "kind", {"call"}) = <<>>
  BY <1>1, HavingNone
<1>7. Having(calls, "kind", {"text"}) = <<>>
  BY <1>1, HavingNone
<1>8. texts \o <<>> = texts /\ <<>> \o calls = calls
  <2>1. texts \in Seq(ToSet(texts)) /\ calls \in Seq(ToSet(calls))
    BY DEF IsList
  <2> QED
    BY <2>1
<1> QED
  BY <1>2, <1>3, <1>4, <1>5, <1>6, <1>7, <1>8

LEMMA ChatConveys ==
    ASSUME NEW t, IsTurn(t), ChatTurnWrites(t)
    PROVE  Conveys(<<ChatMessageFromWire(ChatMessageToWire(t))>>, t)
<1> DEFINE u == ChatMessageFromWire(ChatMessageToWire(t))
<1>1. CASE t.role = "tool"
  <2>1. OneResult(t)
    BY <1>1 DEF ChatTurnWrites
  <2>2. u = Turn("tool", <<Result(t.content[1].id, t.name,
                                  json_or_text(compact_json(t.content[1].value)), FALSE)>>, t.name)
    BY <1>1, ChatReadsTurn
  <2> HIDE DEF u
  <2>3. Conveys(<<u>>, t)
    BY <2>1, <2>2, SameResult
  <2> QED
    BY <2>3 DEF u
<1>2. CASE t.role # "tool"
  <2> DEFINE calls == CallsOf(t)
             texts == TextsOf(t)
  <2>1. IsTurn(u)
    BY ChatMessageIsRead, ChatTurn
  <2>2. /\ AreBlocks(texts) /\ AreBlocks(calls)
        /\ ToSet(texts) = {b \in ToSet(t.content) : IsText(b)}
        /\ ToSet(calls) = {b \in ToSet(t.content) : IsCall(b)}
    BY PartsOfTurns
  <2>3. IsList(texts) /\ IsList(calls)
    BY <2>2 DEF AreBlocks
  <2>4. u = Turn(t.role, texts \o calls, t.name)
    BY <1>2, ChatReadsTurn
  <2> HIDE DEF u, calls, texts
  <2>5. u.role = t.role /\ u.content = texts \o calls
    <3>1. u = Turn(t.role, texts \o calls, t.name)
      BY <2>4
    <3> DEFINE content == texts \o calls
    <3> HIDE DEF content
    <3>2. u = Turn(t.role, content, t.name)
      BY <3>1 DEF content
    <3>3. u.role = t.role /\ u.content = content
      BY <3>2, FieldsOfTurns
    <3> QED
      BY <3>3 DEF content
  <2>6. TextsOf(u) = texts /\ CallsOf(u) = calls
    BY <2>2, <2>3, <2>5, TextsThenCalls
  <2>7. Exchanged(u) = Exchanged(t)
    BY <1>2, <2>1, <2>5, <2>6, ExchangedBySpeakers DEF calls
  <2>8. Spoken(u) = Spoken(t)
    <3>1. Speaker(u) = Speaker(t)
      BY <2>5 DEF Speaker, IsInstruction
    <3> QED
      BY <2>1, <2>6, <3>1, SpokenAlike DEF texts
  <2>9. Conveys(<<u>>, t)
    BY <2>1, <2>7, <2>8, OneTurn DEF Conveys
  <2> QED
    BY <2>9 DEF u
<1> QED
  BY <1>1, <1>2

LEMMA ResponsesConveys ==
    ASSUME NEW t, IsTurn(t), ResponsesTurnWrites(t), NEW n,
           \A item \in ToSet(TurnToItems(t)) : n[item] = <<ItemFromWire(item)>>
    PROVE  Conveys(Bind(TurnToItems(t), n), t)
<1>1. CASE t.role = "tool"
  <2> DEFINE b == t.content[1]
             item == OutputItem(b.id, compact_json(b.value))
             u == ItemFromWire(item)
  <2>1. OneResult(t)
    BY <1>1 DEF ResponsesTurnWrites
  <2>2. TurnToItems(t) = <<item>>
    BY <1>1 DEF TurnToItems
  <2>3. item.type = "function_call_output" /\ item.id = b.id /\ item.text = compact_json(b.value)
    BY DEF OutputItem
  <2> HIDE DEF item
  <2>4. u = Turn("tool", <<Result(b.id, <<>>, json_or_text(compact_json(b.value)), FALSE)>>, <<>>)
    BY <2>3 DEF ItemFromWire
  <2>5. n[item] = <<u>>
    BY <2>2, SmallLists
  <2> HIDE DEF u
  <2>6. Conveys(<<u>>, t)
    BY <2>1, <2>4, SameResult
  <2>7. Bind(<<item>>, n) = <<u>>
    BY <2>5, BindOne, SmallLists
  <2> QED
    BY <2>2, <2>6, <2>7
<1>2. CASE t.role # "tool"
  <2> DEFINE texts == TextsOf(t)
             calls == CallsOf(t)
             m == [c \in ToSet(calls) |-> CallItem(WrittenCall(c))]
             message == MessageItem(t.role, texts)
             a == IF texts = <<>> THEN <<>> ELSE <<message>>
             b == [i \in DOMAIN calls |-> CallItem([calls[i] EXCEPT !.args = compact_json(@)])]
             k == [c \in ToSet(calls) |-> <<Turn("assistant", <<c>>, <<>>)>>]
             u == Turn(t.role, texts, <<>>)
             first == IF texts = <<>> THEN <<>> ELSE <<u>>
  <2>1. TurnToItems(t) = a \o b
    BY <1>2 DEF TurnToItems
  <2>2. /\ AreBlocks(texts) /\ AreBlocks(calls)
        /\ \A c \in ToSet(calls) : c = Call(c.id, c.name, c.args)
    BY PartsOfTurns
  <2>3. IsList(calls)
    BY <2>2 DEF AreBlocks
  <2>4. b = [i \in DOMAIN calls |-> m[calls[i]]]
    BY <2>3, ListFacts DEF WrittenCall
  <2>5. message.type = "message" /\ message.role = t.role /\ message.content = texts
    BY DEF MessageItem
  <2>6. \A c \in ToSet(calls) : m[c] = CallItem(WrittenCall(c)) /\ k[c] = <<Turn("assistant", <<c>>, <<>>)>>
    OBVIOUS
  <2>7. (a = <<>> /\ first = <<>>) \/ (a = <<message>> /\ first = <<u>>)
    <3> HIDE DEF texts, message, u
    <3>1. CASE texts = <<>>
      BY <3>1
    <3>2. CASE texts # <<>>
      BY <3>2
    <3> QED
      BY <3>1, <3>2
  <2>8. Conveys(first \o Bind(calls, k), t)
    <3> HIDE DEF k
    <3> QED
      BY <1>2, <2>6, SplitConveys
  <2> HIDE DEF texts, calls, m, message, a, b, k, u, first
  <2>9. IsList(b) /\ ToSet(b) = {m[c] : c \in ToSet(calls)}
    BY <2>3, <2>4, MappedTo
  <2>10. IsList(a)
    BY <2>7, SmallLists
  <2>11. ToSet(a \o b) = ToSet(a) \cup ToSet(b)
    BY <2>9, <2>10, JoinedList
  <2>12. \A item \in ToSet(a) \cup ToSet(b) : n[item] = <<ItemFromWire(item)>>
    BY <2>1, <2>11
  <2>13. Maps(a, n) /\ Maps(b, n)
    <3>1. \A item \in ToSet(a) \cup ToSet(b) : IsList(n[item])
      BY <2>12, SmallLists
    <3> QED
      BY <2>9, <2>10, <3>1 DEF Maps
  <2>14. Bind(a \o b, n) = Bind(a, n) \o Bind(b, n)
    BY <2>13, BindConcat
  <2>15. Bind(a, n) = first
    <3>1. CASE a = <<>> /\ first = <<>>
      BY <3>1, BindNothing
    <3>2. CASE a = <<message>> /\ first = <<u>>
      <4>1. ItemFromWire(message) = u
        BY <2>5 DEF ItemFromWire, u
      <4>2. n[message] = <<u>>
        BY <2>12, <3>2, <4>1, SmallLists
      <4> QED
        BY <3>2, <4>2, BindOne, SmallLists
    <3> QED
      BY <2>7, <3>1, <3>2
  <2>16. ASSUME NEW c \in ToSet(calls) PROVE k[c] = n[m[c]]
    <3> DEFINE item == CallItem(WrittenCall(c))
    <3>1. item.type = "function_call" /\ item.call = WrittenCall(c)
      BY DEF CallItem
    <3>2. [WrittenCall(c) EXCEPT !.args = @.of] = c
      BY <2>2, CallsAreWritten
    <3> HIDE DEF item
    <3>3. ItemFromWire(item) = Turn("assistant", <<c>>, <<>>)
      BY <3>1, <3>2 DEF ItemFromWire
    <3>4. m[c] = item /\ item \in ToSet(b)
      BY <2>6, <2>9 DEF item
    <3> QED
      BY <2>6, <2>12, <3>3, <3>4
  <2>17. Bind([i \in DOMAIN calls |-> m[calls[i]]], n) = Bind(calls, k)
    BY <2>3, <2>16, BindMapped
  <2> QED
    BY <2>1, <2>4, <2>8, <2>14, <2>15, <2>17
<1> QED
  BY <1>1, <1>2

LEMMA AnthropicReadsTurn ==
    ASSUME NEW t, IsTurn(t), AnthropicTurnWrites(t), NEW b, b = t.content[1],
           NEW u, u = AnthropicMessageFromWire(AnthropicMessageToWire(t))
    PROVE  /\ t.role = "tool" =>
                  /\ OneResult(t)
                  /\ u = Turn("tool", <<Result(b.id, <<>>, json_or_text(compact_json(b.value)), b.error)>>, <<>>)
           /\ t.role # "tool" => u = Turn(t.role, t.content, <<>>)
<1> DEFINE m == AnthropicMessageToWire(t)
<1>0. u = AnthropicMessageFromWire(m)
  OBVIOUS
<1>1. CASE t.role = "tool"
  <2>1. OneResult(t)
    BY <1>1 DEF AnthropicTurnWrites
  <2> DEFINE r == [b EXCEPT !.name = <<>>, !.value = compact_json(@)]
  <2>2. b = Result(b.id, b.name, b.value, b.error)
    BY <2>1, ResultsOfTurns
  <2>3. m = AnthropicMessage("user", <<r>>)
    BY <1>1 DEF AnthropicMessageToWire
  <2>4. r = Result(b.id, <<>>, compact_json(b.value), b.error)
    <3> DEFINE c == [b EXCEPT !.name = <<>>]
    <3>1. c = [kind |-> "result", id |-> b.id, name |-> <<>>, value |-> b.value, error |-> b.error]
      BY <2>2 DEF Result
    <3>2. r = [c EXCEPT !.value = compact_json(@)]
      OBVIOUS
    <3> HIDE DEF c
    <3>3. [c EXCEPT !.value = compact_json(@)]
          = [kind |-> "result", id |-> b.id, name |-> <<>>, value |-> compact_json(b.value), error |-> b.error]
      BY <3>1
    <3> QED
      BY <3>2, <3>3 DEF Result
  <2> HIDE DEF r
  <2>5. IsResult(r) /\ r.id = b.id /\ r.value = compact_json(b.value) /\ r.error = b.error
    BY <2>4 DEF IsResult, Result
  <2>6. m.role = "user" /\ m.content = <<r>> /\ m.content[1] = r
    BY <2>3 DEF AnthropicMessage
  <2> HIDE DEF m
  <2>7. u = Turn("tool", <<Result(b.id, <<>>, json_or_text(compact_json(b.value)), b.error)>>, <<>>)
    BY <1>0, <2>5, <2>6 DEF AnthropicMessageFromWire
  <2> QED
    BY <1>1, <2>1, <2>7
<1>2. CASE t.role # "tool"
  <2>1. m = AnthropicMessage(t.role, t.content)
    BY <1>2 DEF AnthropicMessageToWire
  <2>2. m.role = t.role /\ m.content = t.content
    BY <2>1 DEF AnthropicMessage
  <2>3. ~ IsResult(t.content[1])
    <3>1. 1 \in DOMAIN t.content
      BY PartsOfTurns, ListFacts
    <3> QED
      BY <1>2, <3>1 DEF AnthropicTurnWrites, IsText, IsCall, IsResult
  <2> HIDE DEF m
  <2>4. u = Turn(t.role, t.content, <<>>)
    BY <1>0, <2>2, <2>3 DEF AnthropicMessageFromWire
  <2> QED
    BY <1>2, <2>4
<1> QED
  BY <1>1, <1>2

LEMMA AnthropicConveys ==
    ASSUME NEW t, IsTurn(t), AnthropicTurnWrites(t)
    PROVE  Conveys(<<AnthropicMessageFromWire(AnthropicMessageToWire(t))>>, t)
<1> DEFINE u == AnthropicMessageFromWire(AnthropicMessageToWire(t))
           b == t.content[1]
<1>1. u = AnthropicMessageFromWire(AnthropicMessageToWire(t)) /\ b = t.content[1]
  OBVIOUS
<1> HIDE DEF u, b
<1>2. /\ t.role = "tool" =>
            /\ OneResult(t)
            /\ u = Turn("tool", <<Result(b.id, <<>>, json_or_text(compact_json(b.value)), b.error)>>, <<>>)
      /\ t.role # "tool" => u = Turn(t.role, t.content, <<>>)
  BY <1>1, AnthropicReadsTurn
<1>3. ASSUME t.role = "tool" PROVE Conveys(<<u>>, t)
  BY <1>2, <1>3, SameResult DEF b
<1>4. ASSUME t.role # "tool" PROVE Conveys(<<u>>, t)
  BY <1>2, <1>4, SameContent
<1>5. Conveys(<<u>>, t)
  BY <1>3, <1>4
<1> QED
  BY <1>5 DEF u

LEMMA GeminiReadsTurn ==
    ASSUME NEW t, IsTurn(t), GeminiTurnWrites(t)
    PROVE  ContentFromWire(ContentToWire(t)) = Turn(t.role, t.content, <<>>)
<1> DEFINE c == ContentToWire(t)
           b == t.content[1]
<1>1. c.role = (IF t.role = "assistant" THEN "model" ELSE "user") /\ c.parts = t.content
  BY DEF ContentToWire, GeminiContent
<1>2. AllowedIn(t, b)
  <2>1. b \in ToSet(t.content)
    BY PartsOfTurns, ListFacts
  <2> QED
    BY <2>1 DEF IsTurn
<1>3. t.role \in {"user", "assistant", "tool"}
  BY DEF GeminiTurnWrites
<1> HIDE DEF c, b
<1>4. IsResult(b) <=> t.role = "tool"
  BY <1>2 DEF AllowedIn, IsText, IsCall, IsResult
<1>5. CASE t.role = "tool"
  BY <1>1, <1>4, <1>5 DEF ContentFromWire, c, b
<1>6. CASE t.role = "assistant"
  BY <1>1, <1>4, <1>6 DEF ContentFromWire, c, b
<1>7. CASE t.role = "user"
  BY <1>1, <1>4, <1>7 DEF ContentFromWire, c, b
<1> QED
  BY <1>3, <1>5, <1>6, <1>7

LEMMA GeminiConveys ==
    ASSUME NEW t, IsTurn(t), GeminiTurnWrites(t)
    PROVE  Conveys(<<ContentFromWire(ContentToWire(t))>>, t)
BY GeminiReadsTurn, SameContent

LEMMA InteractionsConveys ==
    ASSUME NEW t, IsTurn(t), ~ IsInstruction(t), InteractionsTurnWrites(t), NEW n,
           \A step \in ToSet(TurnToInputs(t)) : n[step] = <<StepFromWire(step)>>
    PROVE  Conveys(Bind(TurnToInputs(t), n), t)
<1>1. CASE t.role = "tool"
  <2> DEFINE b == t.content[1]
             step == ResultStep(b.id, b.name, compact_json(b.value))
             u == StepFromWire(step)
  <2>1. OneResult(t)
    BY <1>1 DEF InteractionsTurnWrites
  <2>2. TurnToInputs(t) = <<step>>
    BY <1>1 DEF TurnToInputs
  <2>3. step.type = "function_result" /\ step.id = b.id /\ step.name = b.name
        /\ step.text = compact_json(b.value)
    BY DEF ResultStep
  <2> HIDE DEF step
  <2>4. u = Turn("tool", <<Result(b.id, b.name, json_or_text(compact_json(b.value)), FALSE)>>, <<>>)
    BY <2>3 DEF StepFromWire
  <2>5. n[step] = <<u>>
    BY <2>2, SmallLists
  <2> HIDE DEF u
  <2>6. Conveys(<<u>>, t)
    BY <2>1, <2>4, SameResult
  <2>7. Bind(<<step>>, n) = <<u>>
    BY <2>5, BindOne, SmallLists
  <2> QED
    BY <2>2, <2>6, <2>7
<1>2. CASE t.role # "tool"
  <2> DEFINE texts == TextsOf(t)
             calls == CallsOf(t)
             type == IF t.role = "user" THEN "user_input" ELSE "model_output"
             role == IF t.role = "user" THEN "user" ELSE "assistant"
             m == [c \in ToSet(calls) |-> CallStep(c)]
             said == TextStep(type, texts)
             a == IF texts = <<>> THEN <<>> ELSE <<said>>
             b == [i \in DOMAIN calls |-> CallStep(calls[i])]
             k == [c \in ToSet(calls) |-> <<Turn("assistant", <<c>>, <<>>)>>]
             u == Turn(role, texts, <<>>)
             first == IF texts = <<>> THEN <<>> ELSE <<u>>
  <2>1. TurnToInputs(t) = a \o b
    BY <1>2 DEF TurnToInputs
  <2>2. AreBlocks(texts) /\ AreBlocks(calls)
    BY PartsOfTurns
  <2>3. IsList(calls)
    BY <2>2 DEF AreBlocks
  <2>4. b = [i \in DOMAIN calls |-> m[calls[i]]]
    BY <2>3, ListFacts
  <2>5. said.type = type /\ said.content = texts
    BY DEF TextStep
  <2>6. \A c \in ToSet(calls) : m[c] = CallStep(c) /\ k[c] = <<Turn("assistant", <<c>>, <<>>)>>
    OBVIOUS
  <2>7. (a = <<>> /\ first = <<>>) \/ (a = <<said>> /\ first = <<u>>)
    <3> HIDE DEF texts, said, u
    <3>1. CASE texts = <<>>
      BY <3>1
    <3>2. CASE texts # <<>>
      BY <3>2
    <3> QED
      BY <3>1, <3>2
  <2>8. texts # <<>> => role = t.role
    BY <1>2 DEF InteractionsTurnWrites
  <2>9. Conveys(first \o Bind(calls, k), t)
    <3> HIDE DEF k, role
    <3> QED
      BY <1>2, <2>6, <2>8, SplitConveys
  <2>10. (type = "user_input" /\ role = "user") \/ (type = "model_output" /\ role = "assistant")
    <3> HIDE DEF texts, calls, m, said, a, b, k, u, first
    <3>1. CASE t.role = "user"
      BY <3>1
    <3>2. CASE t.role # "user"
      BY <3>2
    <3> QED
      BY <3>1, <3>2
  <2> HIDE DEF texts, calls, type, role, m, said, a, b, k, u, first
  <2>11. IsList(b) /\ ToSet(b) = {m[c] : c \in ToSet(calls)}
    BY <2>3, <2>4, MappedTo, SMTT(60)
  <2>12. IsList(a)
    BY <2>7, SmallLists
  <2>13. ToSet(a \o b) = ToSet(a) \cup ToSet(b)
    BY <2>11, <2>12, JoinedList
  <2>14. \A step \in ToSet(a) \cup ToSet(b) : n[step] = <<StepFromWire(step)>>
    BY <2>1, <2>13
  <2>15. Maps(a, n) /\ Maps(b, n)
    <3>1. \A step \in ToSet(a) \cup ToSet(b) : IsList(n[step])
      BY <2>14, SmallLists
    <3> QED
      BY <2>11, <2>12, <3>1 DEF Maps
  <2>16. Bind(a \o b, n) = Bind(a, n) \o Bind(b, n)
    BY <2>15, BindConcat
  <2>17. Bind(a, n) = first
    <3>1. CASE a = <<>> /\ first = <<>>
      BY <3>1, BindNothing
    <3>2. CASE a = <<said>> /\ first = <<u>>
      <4>1. StepFromWire(said) = u
        BY <2>5, <2>10 DEF StepFromWire, u
      <4>2. n[said] = <<u>>
        BY <2>14, <3>2, <4>1, SmallLists
      <4> QED
        BY <3>2, <4>2, BindOne, SmallLists
    <3> QED
      BY <2>7, <3>1, <3>2
  <2>18. ASSUME NEW c \in ToSet(calls) PROVE k[c] = n[m[c]]
    <3> DEFINE step == CallStep(c)
    <3>1. step.type = "function_call" /\ step.call = c
      BY DEF CallStep
    <3> HIDE DEF step
    <3>2. StepFromWire(step) = Turn("assistant", <<c>>, <<>>)
      BY <3>1 DEF StepFromWire
    <3>3. m[c] = step /\ step \in ToSet(b)
      BY <2>6, <2>11 DEF step
    <3> QED
      BY <2>6, <2>14, <3>2, <3>3
  <2>19. Bind([i \in DOMAIN calls |-> m[calls[i]]], n) = Bind(calls, k)
    BY <2>3, <2>18, BindMapped
  <2> QED
    BY <2>1, <2>4, <2>9, <2>16, <2>17, <2>19
<1> QED
  BY <1>1, <1>2

LEMMA FlattenIsBind ==
    ASSUME NEW s, Lists(s), NEW h, NEW k, \A x \in ToSet(s) : Maps(x, h) /\ k[x] = Bind(x, h)
    PROVE  Bind(FlattenSeq(s), h) = Bind(s, k)
<1> DEFINE id == [x \in ToSet(s) |-> x]
<1>1. IsList(s) /\ \A i \in DOMAIN s : IsList(s[i])
  BY DEF Lists
<1>2. \A x \in ToSet(s) : id[x] = x /\ IsList(x)
  BY <1>1, ListFacts
<1>3. s \in Seq(ToSet(s)) /\ \A i \in DOMAIN s : s[i] \in ToSet(s)
  BY <1>1, ListFacts
<1>4. [i \in DOMAIN s |-> id[s[i]]] = [i \in DOMAIN s |-> s[i]]
  BY <1>2, <1>3
<1>5. [i \in DOMAIN s |-> s[i]] = s
  BY <1>3
<1>6. Bind(s, id) = FlattenSeq(s)
  BY <1>4, <1>5 DEF Bind
<1>7. Maps(s, id)
  BY <1>1, <1>2 DEF Maps
<1>8. \A x \in ToSet(s) : Maps(id[x], h) /\ k[x] = Bind(id[x], h)
  BY <1>2
<1> HIDE DEF id
<1> QED
  BY <1>6, <1>7, <1>8, BindTwice

\* Instructions that come first are a beginning of the turns.
LEMMA Partition ==
    ASSUME NEW turns, AreTurns(turns), SystemFirst(turns)
    PROVE  turns = InstructionsOf(turns) \o OthersOf(turns)
<1> DEFINE E == ToSet(turns)
           S == {u \in Seq(E) : SystemFirst(u) => u = InstructionsOf(u) \o OthersOf(u)}
<1>1. turns \in Seq(E) /\ \A t \in E : IsTurn(t) /\ t.role \in Roles
  BY DEF AreTurns, IsTurn, IsList
<1>2. <<>> \in S
  <2>1. IsList(<<>>) /\ ToSet(<<>>) = {}
    BY SmallLists
  <2>2. InstructionsOf(<<>>) = <<>> /\ OthersOf(<<>>) = <<>>
    BY <2>1, HavingNone DEF InstructionsOf, OthersOf
  <2>3. <<>> = <<>> \o <<>> /\ <<>> \in Seq(E)
    OBVIOUS
  <2> QED
    BY <2>2, <2>3
<1>3. ASSUME NEW u \in Seq(E), NEW t \in E, u \in S PROVE Append(u, t) \in S
  <2> DEFINE a == Append(u, t)
  <2>1. u \in Seq(E) /\ (SystemFirst(u) => u = InstructionsOf(u) \o OthersOf(u))
    BY <1>3
  <2>2. a = u \o <<t>> /\ a \in Seq(E) /\ Len(a) = Len(u) + 1 /\ a[Len(a)] = t
        /\ \A i \in DOMAIN u : a[i] = u[i] /\ i \in DOMAIN a /\ i < Len(a)
        /\ Len(a) \in DOMAIN a
    BY <2>1
  <2>3. IsList(u) /\ IsList(<<t>>) /\ ToSet(<<t>>) = {t} /\ \A x \in ToSet(u) : x \in E
    BY <2>1, AList, Members, SmallLists
  <2> HIDE DEF a, S
  <2>4. /\ InstructionsOf(a) = InstructionsOf(u) \o InstructionsOf(<<t>>)
        /\ OthersOf(a) = OthersOf(u) \o OthersOf(<<t>>)
    <3>1. Having(u \o <<t>>, "role", {"system", "developer"})
          = Having(u, "role", {"system", "developer"}) \o Having(<<t>>, "role", {"system", "developer"})
      BY <2>3, HavingConcat, SMTT(60)
    <3>2. Having(u \o <<t>>, "role", {"user", "assistant", "tool"})
          = Having(u, "role", {"user", "assistant", "tool"})
            \o Having(<<t>>, "role", {"user", "assistant", "tool"})
      BY <2>3, HavingConcat, SMTT(60)
    <3> QED
      BY <2>2, <3>1, <3>2 DEF InstructionsOf, OthersOf
  <2>5. AreTurns(u)
    BY <1>1, <2>3 DEF AreTurns
  <2>6. IsList(InstructionsOf(u)) /\ IsList(OthersOf(u))
    BY <2>5, TurnsApart DEF AreTurns
  <2>7. InstructionsOf(u) \in Seq(E) /\ OthersOf(u) \in Seq(E)
    <3>1. /\ InstructionsOf(u) \in Seq(ToSet(InstructionsOf(u)))
          /\ OthersOf(u) \in Seq(ToSet(OthersOf(u)))
      BY <2>6 DEF IsList
    <3>2. ToSet(InstructionsOf(u)) \subseteq E /\ ToSet(OthersOf(u)) \subseteq E
      BY <2>3, <2>5, TurnsApart
    <3> QED
      BY <3>1, <3>2, SeqMonotonic
  <2>8. ASSUME SystemFirst(a) PROVE a = InstructionsOf(a) \o OthersOf(a)
    <3>1. SystemFirst(u)
      BY <2>2, <2>8 DEF SystemFirst
    <3>2. u = InstructionsOf(u) \o OthersOf(u)
      BY <2>1, <3>1
    <3>3. CASE IsInstruction(t)
      <4>1. \A i \in DOMAIN u : IsInstruction(u[i])
        BY <2>2, <2>8, <3>3 DEF SystemFirst
      <4>2. \A x \in ToSet(u) : IsInstruction(x)
        BY <2>3, <4>1, ListFacts
      <4>3. \A x : IsInstruction(x) => /\ x["role"] \in {"system", "developer"}
                                      /\ x["role"] \notin {"user", "assistant", "tool"}
        BY DEF IsInstruction
      <4>4. OthersOf(u) = <<>>
        BY <2>3, <4>2, <4>3, HavingNone DEF OthersOf
      <4>5. OthersOf(<<t>>) = <<>>
        BY <2>3, <3>3, <4>3, HavingNone DEF OthersOf
      <4>6. InstructionsOf(<<t>>) = <<t>>
        BY <2>3, <3>3, <4>3, HavingAll DEF InstructionsOf
      <4> DEFINE i == InstructionsOf(u)
      <4> HIDE DEF i
      <4>7. i \in Seq(E) /\ u = i \o <<>>
        BY <2>7, <3>2, <4>4 DEF i
      <4>8. i \o <<t>> = (i \o <<t>>) \o (<<>> \o <<>>)
        BY <4>7
      <4>9. u = i
        BY <4>7
      <4> QED
        BY <2>2, <2>4, <4>4, <4>5, <4>6, <4>8, <4>9 DEF i
    <3>4. CASE ~ IsInstruction(t)
      <4>1. t["role"] \in {"user", "assistant", "tool"} /\ t["role"] \notin {"system", "developer"}
        BY <1>1, <3>4 DEF IsInstruction, Roles
      <4>2. OthersOf(<<t>>) = <<t>>
        BY <2>3, <4>1, HavingAll DEF OthersOf
      <4>3. InstructionsOf(<<t>>) = <<>>
        BY <2>3, <4>1, HavingNone DEF InstructionsOf
      <4> DEFINE i == InstructionsOf(u)
                 o == OthersOf(u)
      <4> HIDE DEF i, o
      <4>4. i \in Seq(E) /\ o \in Seq(E) /\ u = i \o o
        BY <2>7, <3>2 DEF i, o
      <4>5. (i \o o) \o <<t>> = (i \o <<>>) \o (o \o <<t>>)
        <5>1. i \o <<>> = i
          BY <4>4
        <5>2. <<t>> \in Seq(E)
          OBVIOUS
        <5>3. (i \o o) \o <<t>> = i \o (o \o <<t>>)
          BY <4>4, <5>2
        <5> QED
          BY <5>1, <5>3
      <4> QED
        BY <2>2, <2>4, <4>2, <4>3, <4>4, <4>5 DEF i, o
    <3> QED
      BY <3>3, <3>4
  <2> QED
    BY <2>2, <2>8 DEF S, a
<1> HIDE DEF E
<1>4. turns \in S
  <2> HIDE DEF S
  <2> QED
    BY <1>1, <1>2, <1>3, SequencesByInduction
<1> QED
  BY <1>4

-----------------------------------------------------------------------------
(* Calls and words of instructions and of the others. *)

LEMMA ExchangedByOthers ==
    ASSUME NEW turns, AreTurns(turns)
    PROVE  ExchangedIn(OthersOf(turns)) = ExchangedIn(turns)
<1> DEFINE E == ToSet(turns)
           x == [t \in E |-> Exchanged(t)]
           y == [t \in E |-> Spoken(t)]
<1>1. /\ AreTurns(OthersOf(turns))
      /\ ToSet(OthersOf(turns)) = {t \in E : ~ IsInstruction(t)}
      /\ IsList(turns) /\ \A t \in E : IsTurn(t)
  BY TurnsApart DEF AreTurns
<1>2. \A t \in E : x[t] = Exchanged(t) /\ IsList(Exchanged(t))
  BY <1>1, TurnsAreLists
<1>3. ExchangedIn(OthersOf(turns)) = Bind(OthersOf(turns), x)
  <2> HIDE DEF E
  <2> QED
    BY <1>1, TurnsBind
<1>4. ExchangedIn(turns) = Bind(turns, x)
  BY TurnsBind
<1>5. ASSUME NEW t \in E
      PROVE  /\ t["role"] \in {"user", "assistant", "tool"} => IsList(x[t]) /\ x[t] = x[t]
             /\ t["role"] \notin {"user", "assistant", "tool"} => x[t] = <<>>
  <2>1. IsTurn(t) /\ t.role \in Roles
    BY <1>1 DEF IsTurn
  <2>2. ASSUME t.role \notin {"user", "assistant", "tool"} PROVE Exchanged(t) = <<>>
    <3>1. t.role \notin {"tool", "assistant"}
      BY <2>2
    <3>2. CallsOf(t) = <<>>
      BY <2>1, <3>1, PartsOfTurns
    <3> QED
      BY <2>1, <3>1, <3>2, ExchangedBySpeakers
  <2> QED
    BY <1>2, <2>2
<1> HIDE DEF x, y, E
<1>6. Bind(OthersOf(turns), x) = Bind(turns, x)
  BY <1>1, <1>5, BindHaving DEF OthersOf, E
<1> QED
  BY <1>3, <1>4, <1>6

\* What one of them says among all that is said.
LEMMA WordsOfOne ==
    ASSUME NEW turns, AreTurns(turns), NEW who, NEW q,
           \A t \in ToSet(turns) : q[t] = IF Speaker(t) = who THEN Spoken(t) ELSE <<>>
    PROVE  Having(SpokenIn(turns), "by", {who}) = Bind(turns, q)
<1> DEFINE E == ToSet(turns)
           x == [t \in E |-> Exchanged(t)]
           y == [t \in E |-> Spoken(t)]
<1>1. SpokenIn(turns) = Bind(turns, y) /\ Maps(turns, y)
  BY TurnsBind
<1>2. ASSUME NEW t \in E PROVE q[t] = Having(y[t], "by", {who})
  <2>1. y[t] = Spoken(t) /\ IsTurn(t)
    BY DEF AreTurns
  <2>2. IsList(Spoken(t)) /\ \A z \in ToSet(Spoken(t)) : z["by"] = Speaker(t)
    BY <2>1, TurnsAreLists
  <2>3. CASE Speaker(t) = who
    BY <2>1, <2>2, <2>3, HavingAll
  <2>4. CASE Speaker(t) # who
    BY <2>1, <2>2, <2>4, HavingNone
  <2> QED
    BY <2>3, <2>4
<1> HIDE DEF x, y
<1>3. \A t \in ToSet(turns) : q[t] = Having(y[t], "by", {who})
  BY <1>2
<1>4. Having(Bind(turns, y), "by", {who}) = Bind(turns, q)
  <2> HIDE DEF E
  <2> DEFINE values == {who}
  <2>1. \A t \in ToSet(turns) : q[t] = Having(y[t], "by", values)
    BY <1>3
  <2> HIDE DEF values
  <2>2. Having(Bind(turns, y), "by", values) = Bind(turns, q)
    BY <1>1, <2>1, HavingOfBind
  <2> QED
    BY <2>2 DEF values
<1> QED
  BY <1>1, <1>4

LEMMA SpeakersApart ==
    ASSUME NEW turns, AreTurns(turns), NEW who
    PROVE  Having(SpokenIn(InstructionsOf(turns)) \o SpokenIn(OthersOf(turns)), "by", {who})
           = Having(SpokenIn(turns), "by", {who})
<1> DEFINE E == ToSet(turns)
           q == [t \in E |-> IF Speaker(t) = who THEN Spoken(t) ELSE <<>>]
           instructions == InstructionsOf(turns)
           others == OthersOf(turns)
<1>1. /\ AreTurns(instructions) /\ AreTurns(others)
      /\ ToSet(instructions) = {t \in E : IsInstruction(t)}
      /\ ToSet(others) = {t \in E : ~ IsInstruction(t)}
      /\ IsList(turns) /\ \A t \in E : IsTurn(t) /\ t.role \in Roles
  BY TurnsApart DEF AreTurns, IsTurn
<1>2. \A t \in E : q[t] = IF Speaker(t) = who THEN Spoken(t) ELSE <<>>
  OBVIOUS
<1> HIDE DEF q, instructions, others
<1>3. Having(SpokenIn(turns), "by", {who}) = Bind(turns, q)
  BY <1>2, WordsOfOne
<1>4. Having(SpokenIn(instructions), "by", {who}) = Bind(instructions, q)
  BY <1>1, <1>2, WordsOfOne, ZenonT(60)
<1>5. Having(SpokenIn(others), "by", {who}) = Bind(others, q)
  BY <1>1, <1>2, WordsOfOne, ZenonT(60)
<1>6. IsList(SpokenIn(instructions)) /\ IsList(SpokenIn(others))
  <2>1. ASSUME NEW s, AreTurns(s) PROVE IsList(SpokenIn(s))
    <3> DEFINE x == [t \in ToSet(s) |-> Exchanged(t)]
               y == [t \in ToSet(s) |-> Spoken(t)]
    <3>1. SpokenIn(s) = Bind(s, y) /\ Maps(s, y)
      BY <2>1, TurnsBind
    <3> HIDE DEF x, y
    <3> QED
      BY <3>1, BindMembers
  <2> QED
    BY <1>1, <2>1
<1>7. Having(SpokenIn(instructions) \o SpokenIn(others), "by", {who})
      = Bind(instructions, q) \o Bind(others, q)
  <2>1. Having(SpokenIn(instructions) \o SpokenIn(others), "by", {who})
        = Having(SpokenIn(instructions), "by", {who}) \o Having(SpokenIn(others), "by", {who})
    BY <1>6, HavingConcat
  <2> QED
    BY <1>4, <1>5, <2>1
<1>8. \A t \in E : IsList(q[t])
  BY <1>1, <1>2, TurnsAreLists, SmallLists
<1>9. \A t \in E : Speaker(t) = "instruction" <=> IsInstruction(t)
  BY <1>1 DEF Speaker, IsInstruction, Roles
<1>10. IsList(Bind(turns, q))
  BY <1>1, <1>8, BindMembers DEF Maps
<1>11. Bind(turns, q) \o <<>> = Bind(turns, q) /\ <<>> \o Bind(turns, q) = Bind(turns, q)
  <2> DEFINE b == Bind(turns, q)
  <2>1. b \in Seq(ToSet(b))
    BY <1>10 DEF IsList
  <2> HIDE DEF b
  <2> QED
    BY <2>1 DEF b
<1>12. CASE who = "instruction"
  <2>1. \A t \in ToSet(others) : q[t] = <<>>
    BY <1>1, <1>2, <1>9, <1>12
  <2>2. Bind(others, q) = <<>>
    BY <1>1, <2>1, BindToNothing DEF AreTurns
  <2>3. \A t \in E : /\ t["role"] \in {"system", "developer"} => IsList(q[t]) /\ q[t] = q[t]
                     /\ t["role"] \notin {"system", "developer"} => q[t] = <<>>
    BY <1>2, <1>8, <1>9, <1>12 DEF IsInstruction
  <2>4. Bind(instructions, q) = Bind(turns, q)
    <3> HIDE DEF E
    <3> QED
      BY <1>1, <2>3, BindHaving DEF instructions, InstructionsOf, E
  <2> QED
    BY <1>3, <1>7, <1>11, <2>2, <2>4 DEF instructions, others
<1>13. CASE who # "instruction"
  <2>1. \A t \in ToSet(instructions) : q[t] = <<>>
    BY <1>1, <1>2, <1>9, <1>13
  <2>2. Bind(instructions, q) = <<>>
    BY <1>1, <2>1, BindToNothing DEF AreTurns
  <2>3. \A t \in E : /\ t["role"] \in {"user", "assistant", "tool"} => IsList(q[t]) /\ q[t] = q[t]
                     /\ t["role"] \notin {"user", "assistant", "tool"} => q[t] = <<>>
    BY <1>1, <1>2, <1>8, <1>9, <1>13 DEF IsInstruction, Roles
  <2>4. Bind(others, q) = Bind(turns, q)
    <3> HIDE DEF E
    <3> QED
      BY <1>1, <2>3, BindHaving DEF others, OthersOf, E
  <2> QED
    BY <1>3, <1>7, <1>11, <2>2, <2>4 DEF instructions, others
<1> QED
  BY <1>12, <1>13

-----------------------------------------------------------------------------
(* Instructions in front of the other turns. *)

Fronts(first, instructions) ==
    AreTurns(first) /\ ExchangedIn(first) = <<>> /\ SpokenIn(first) = SpokenIn(instructions)

\* The same exchanged, and the same said with the instructions in front.
Retold(turns, got) ==
    /\ AreTurns(got) /\ ExchangedIn(got) = ExchangedIn(turns)
    /\ SpokenIn(got) = SpokenIn(InstructionsOf(turns)) \o SpokenIn(OthersOf(turns))

LEMMA ListsOfTurns ==
    ASSUME NEW s, AreTurns(s)
    PROVE  IsList(ExchangedIn(s)) /\ IsList(SpokenIn(s))
<1> DEFINE x == [t \in ToSet(s) |-> Exchanged(t)]
           y == [t \in ToSet(s) |-> Spoken(t)]
<1>1. ExchangedIn(s) = Bind(s, x) /\ Maps(s, x) /\ SpokenIn(s) = Bind(s, y) /\ Maps(s, y)
  BY TurnsBind
<1> HIDE DEF x, y
<1> QED
  BY <1>1, BindMembers

LEMMA Retelling ==
    ASSUME NEW turns, AreTurns(turns), NEW first, Fronts(first, InstructionsOf(turns)), NEW g,
           \A t \in ToSet(OthersOf(turns)) : Conveys(g[t], t), NEW got,
           got = first \o Bind(OthersOf(turns), g)
    PROVE  Retold(turns, got)
<1> DEFINE others == OthersOf(turns)
           rest == Bind(others, g)
<1>1. AreTurns(others)
  BY TurnsApart
<1>2. /\ AreTurns(rest) /\ ExchangedIn(rest) = ExchangedIn(others)
      /\ SpokenIn(rest) = SpokenIn(others)
  <2> HIDE DEF others
  <2>1. \A t \in ToSet(others) : Conveys(g[t], t)
    BY DEF others
  <2> QED
    BY <1>1, <2>1, Conveyed
<1>3. got = first \o rest
  OBVIOUS
<1>4. ExchangedIn(others) = ExchangedIn(turns)
  BY ExchangedByOthers
<1> HIDE DEF rest
<1>5. AreTurns(first) /\ ExchangedIn(first) = <<>> /\ SpokenIn(first) = SpokenIn(InstructionsOf(turns))
  BY DEF Fronts
<1>6. /\ ExchangedIn(first \o rest) = ExchangedIn(first) \o ExchangedIn(rest)
      /\ SpokenIn(first \o rest) = SpokenIn(first) \o SpokenIn(rest)
      /\ AreTurns(first \o rest)
  BY <1>2, <1>5, TurnsConcat, JoinedTurns
<1>7. <<>> \o ExchangedIn(turns) = ExchangedIn(turns)
  <2> DEFINE e == ExchangedIn(turns)
  <2>1. e \in Seq(ToSet(e))
    BY ListsOfTurns DEF IsList
  <2> HIDE DEF e
  <2> QED
    BY <2>1 DEF e
<1> QED
  BY <1>2, <1>3, <1>4, <1>5, <1>6, <1>7 DEF Retold, others

LEMMA InOrder ==
    ASSUME NEW turns, AreTurns(turns), SystemFirst(turns), NEW got, Retold(turns, got)
    PROVE  SpokenIn(got) = SpokenIn(turns)
<1>1. turns = InstructionsOf(turns) \o OthersOf(turns)
  BY Partition
<1>2. AreTurns(InstructionsOf(turns)) /\ AreTurns(OthersOf(turns))
  BY TurnsApart
<1>3. SpokenIn(InstructionsOf(turns) \o OthersOf(turns))
      = SpokenIn(InstructionsOf(turns)) \o SpokenIn(OthersOf(turns))
  BY <1>2, TurnsConcat
<1> QED
  BY <1>1, <1>3 DEF Retold

\* What an instruction turn of some texts says.
LEMMA SystemTurn ==
    ASSUME NEW texts, AreBlocks(texts), texts # <<>>, \A b \in ToSet(texts) : IsText(b), NEW u,
           u = Turn("system", texts, <<>>), NEW q,
           \A b \in ToSet(texts) : q[b] = SaidBy("instruction", b.text)
    PROVE  IsTurn(u) /\ Exchanged(u) = <<>> /\ Spoken(u) = Bind(texts, q) /\ Maps(texts, q)
<1>1. u.role = "system" /\ u.content = texts
  BY FieldsOfTurns
<1>2. IsTurn(u)
  BY SpokenTurn DEF Roles
<1>3. TextsOf(u) = texts /\ Exchanged(u) = <<>>
  BY <1>1, <1>2, TextsTurn
<1>4. Speaker(u) = "instruction"
  BY <1>1 DEF Speaker, IsInstruction
<1>5. IsList(texts) /\ \A b \in ToSet(texts) : IsList(b.text)
  BY <1>2, <1>3, TurnsAreLists
<1> DEFINE k == [b \in ToSet(texts) |-> SaidBy(Speaker(u), b.text)]
<1>6. Spoken(u) = Bind(texts, k) /\ Maps(texts, k)
  BY <1>3, <1>5, SpokenTexts
<1>7. \A b \in ToSet(texts) : k[b] = q[b]
  BY <1>4
<1> HIDE DEF k
<1>8. Bind(texts, k) = Bind(texts, q) /\ Maps(texts, q)
  BY <1>5, <1>6, <1>7, BindSame DEF Maps
<1> QED
  BY <1>2, <1>3, <1>6, <1>8

\* Instructions as one list of all their texts.
LEMMA ListedInstructions ==
    ASSUME NEW s, AreTurns(s), \A t \in ToSet(s) : TextsOnly(t) /\ IsInstruction(t), NEW first,
           first = IF Contents(s) = <<>> THEN <<>> ELSE <<Turn("system", Contents(s), <<>>)>>
    PROVE  Fronts(first, s)
<1> DEFINE texts == Contents(s)
           g == [t \in ToSet(s) |-> t.content]
           x == [t \in ToSet(s) |-> Exchanged(t)]
           y == [t \in ToSet(s) |-> Spoken(t)]
           q == [b \in ToSet(texts) |-> SaidBy("instruction", b.text)]
<1>1. /\ texts = Bind(s, g) /\ Maps(s, g) /\ AreBlocks(texts)
      /\ \A b \in ToSet(texts) : IsText(b)
  BY InstructionsAsTexts
<1>2. ToSet(texts) = UNION {ToSet(g[t]) : t \in ToSet(s)}
  <2> HIDE DEF g, texts
  <2> QED
    BY <1>1, BindMembers
<1>3. \A b \in ToSet(texts) : q[b] = SaidBy("instruction", b.text)
  OBVIOUS
<1>4. SpokenIn(s) = Bind(s, y)
  BY TurnsBind
<1>5. \A t \in ToSet(s) : g[t] = t.content /\ y[t] = Spoken(t) /\ IsTurn(t)
  BY DEF AreTurns
<1>6. IsList(s)
  BY DEF AreTurns
<1> HIDE DEF texts, g, q, x, y
<1>7. ASSUME NEW t \in ToSet(s) PROVE Maps(g[t], q) /\ y[t] = Bind(g[t], q)
  <2>1. g[t] = t.content /\ y[t] = Spoken(t) /\ IsTurn(t) /\ IsInstruction(t)
    BY <1>5
  <2>2. AreBlocks(t.content) /\ \A b \in ToSet(t.content) : IsText(b)
    <3>1. AreBlocks(t.content) /\ IsList(t.content)
      BY <2>1 DEF IsTurn, AreBlocks
    <3> QED
      BY <3>1, JoinedTexts, <2>1
  <2>3. TextsOf(t) = t.content
    BY <2>1, <2>2, TextsTurn
  <2>4. IsList(t.content) /\ \A b \in ToSet(t.content) : IsList(b.text)
    BY <2>1, <2>3, TurnsAreLists
  <2>5. \A b \in ToSet(t.content) : b \in ToSet(texts)
    BY <1>2, <2>1
  <2> DEFINE k == [b \in ToSet(t.content) |-> SaidBy(Speaker(t), b.text)]
             content == t.content
  <2>6. Spoken(t) = Bind(content, k) /\ Maps(content, k)
    BY <2>3, <2>4, SpokenTexts
  <2>7. \A b \in ToSet(content) : k[b] = q[b]
    BY <1>3, <2>1, <2>5 DEF Speaker
  <2> HIDE DEF k, content
  <2>8. Bind(content, k) = Bind(content, q) /\ Maps(content, q)
    BY <2>6, <2>7, BindSame DEF Maps
  <2> QED
    BY <2>1, <2>6, <2>8 DEF content
<1>8. SpokenIn(s) = Bind(texts, q)
  BY <1>1, <1>4, <1>7, BindTwice
<1>9. CASE texts = <<>>
  BY <1>8, <1>9, BindNothing, NoTurns, NoTurnsSay DEF Fronts, texts
<1>10. CASE texts # <<>>
  <2> DEFINE u == Turn("system", texts, <<>>)
  <2>1. first = <<u>>
    BY <1>10 DEF texts
  <2>2. IsTurn(u) /\ Exchanged(u) = <<>> /\ Spoken(u) = Bind(texts, q)
    BY <1>1, <1>3, <1>10, SystemTurn
  <2> HIDE DEF u
  <2> QED
    BY <1>8, <2>1, <2>2, OneTurn DEF Fronts
<1> QED
  BY <1>9, <1>10

\* A joined text says what the texts say: line breaks are nobody's words.
LEMMA JoinedSays ==
    ASSUME NEW t, IsTurn(t), TextsOnly(t), IsInstruction(t)
    PROVE  SaidBy("instruction", Joined(t)) = Spoken(t)
<1> DEFINE by == "instruction"
           content == t.content
           J == Joined(t)
           E == ToSet(J) \cup {"newline"}
           s == [i \in DOMAIN content |->
                    IF i = 1 THEN content[i].text ELSE <<"newline">> \o content[i].text]
           q == [b \in ToSet(content) |-> SaidBy(by, b.text)]
<1>1. /\ IsList(J) /\ IsList(content)
      /\ \A b \in ToSet(content) : IsText(b) /\ IsList(b.text)
  BY JoinedTexts DEF IsTurn, AreBlocks
<1>2. J = FlattenSeq(s)
  BY DEF Joined
<1>3. \A i \in DOMAIN content : IsList(content[i].text) /\ content[i] \in ToSet(content)
  BY <1>1, ListFacts
<1>4. /\ IsList(s) /\ DOMAIN s = DOMAIN content
      /\ \A i \in DOMAIN s : \/ s[i] = content[i].text
                             \/ s[i] = <<"newline">> \o content[i].text
  <2>1. DOMAIN content = 1 .. Len(content) /\ Len(content) \in Nat
    BY <1>1, ListFacts
  <2>2. s = [i \in 1 .. Len(content) |-> s[i]] /\ DOMAIN s = DOMAIN content
    BY <2>1
  <2>3. \A i \in DOMAIN s : s[i] = content[i].text \/ s[i] = <<"newline">> \o content[i].text
    OBVIOUS
  <2> HIDE DEF s
  <2>4. IsList(s)
    BY <2>1, <2>2, ListOfValues
  <2> QED
    BY <2>2, <2>3, <2>4
<1> HIDE DEF s, content, J
<1>5. \A i \in DOMAIN s : IsList(s[i])
  <2>1. IsList(<<"newline">>)
    BY SmallLists
  <2>2. \A i \in DOMAIN s : IsList(content[i].text) /\ IsList(<<"newline">> \o content[i].text)
    BY <1>3, <1>4, <2>1, JoinedList
  <2> QED
    BY <1>4, <2>2
<1>6. Lists(s)
  BY <1>4, <1>5 DEF Lists
<1>7. ToSet(J) = UNION {ToSet(s[i]) : i \in DOMAIN s}
  BY <1>2, <1>6, FlattenMembers
<1> DEFINE g == [x \in E |-> IF x = "newline" THEN <<>> ELSE <<Said(by, x)>>]
<1>8. \A x \in E : g[x] = IF x = "newline" THEN <<>> ELSE <<Said(by, x)>>
  OBVIOUS
<1>9. SaidBy(by, J) = Bind(J, g) /\ \A x \in E : IsList(g[x])
  <2>1. \A x \in ToSet(J) : g[x] = IF x = "newline" THEN <<>> ELSE <<Said(by, x)>>
    BY <1>8
  <2> HIDE DEF g, by
  <2>2. SaidBy(by, J) = Bind(J, g)
    BY <1>1, <2>1, SaidPieces
  <2>3. \A x \in E : IsList(g[x])
    BY <1>8, SmallLists
  <2> QED
    BY <2>2, <2>3
<1> HIDE DEF g
<1>10. ASSUME NEW i \in DOMAIN s
       PROVE  Maps(s[i], g) /\ Bind(s[i], g) = SaidBy(by, content[i].text)
  <2> DEFINE text == content[i].text
  <2>1. IsList(text) /\ (s[i] = text \/ s[i] = <<"newline">> \o text)
    BY <1>3, <1>4
  <2> HIDE DEF text
  <2>2. IsList(s[i]) /\ ToSet(s[i]) \subseteq E
    BY <1>5, <1>7
  <2>3. Maps(s[i], g)
    BY <1>9, <2>2 DEF Maps
  <2>4. ToSet(text) \subseteq E /\ IsList(<<"newline">>) /\ ToSet(<<"newline">>) = {"newline"}
    <3> DEFINE nl == <<"newline">>
    <3>1. IsList(nl) /\ ToSet(nl) = {"newline"}
      BY SmallLists
    <3> HIDE DEF nl, E
    <3>2. ToSet(nl \o text) = ToSet(nl) \cup ToSet(text)
      BY <2>1, <3>1, JoinedList
    <3>3. s[i] = text \/ s[i] = nl \o text
      BY <2>1 DEF nl
    <3>4. ToSet(text) \subseteq E
      BY <2>2, <3>2, <3>3
    <3> QED
      BY <3>1, <3>4 DEF nl
  <2>5. Maps(text, g) /\ Maps(<<"newline">>, g)
    BY <1>9, <2>1, <2>4 DEF Maps
  <2>6. SaidBy(by, text) = Bind(text, g)
    <3> HIDE DEF by, E
    <3>1. \A x \in ToSet(text) : g[x] = IF x = "newline" THEN <<>> ELSE <<Said(by, x)>>
      BY <1>8, <2>4
    <3> QED
      BY <2>1, <3>1, SaidPieces
  <2>7. g["newline"] = <<>>
    BY <1>8
  <2>8. Bind(<<"newline">> \o text, g) = Bind(text, g)
    <3>1. Bind(<<"newline">> \o text, g) = Bind(<<"newline">>, g) \o Bind(text, g)
      BY <2>5, BindConcat
    <3>2. Bind(<<"newline">>, g) = <<>>
      BY <2>7, BindOne, SmallLists
    <3> DEFINE b == Bind(text, g)
    <3>3. b \in Seq(ToSet(b))
      BY <2>5, BindMembers DEF IsList
    <3> HIDE DEF b
    <3>4. <<>> \o b = b
      BY <3>3
    <3> QED
      BY <3>1, <3>2, <3>4 DEF b
  <2> QED
    BY <2>1, <2>3, <2>6, <2>8 DEF text
<1> DEFINE k == [x \in ToSet(s) |-> Bind(x, g)]
<1>11. \A x \in ToSet(s) : Maps(x, g) /\ k[x] = Bind(x, g)
  BY <1>4, <1>10, ListFacts
<1> HIDE DEF k
<1>12. Bind(J, g) = Bind(s, k)
  BY <1>2, <1>6, <1>11, FlattenIsBind
<1>13. \A b \in ToSet(content) : q[b] = SaidBy(by, b.text)
  OBVIOUS
<1>14. [i \in DOMAIN s |-> k[s[i]]] = [i \in DOMAIN content |-> q[content[i]]]
  <2> HIDE DEF q, by
  <2>1. ASSUME NEW i \in DOMAIN content PROVE k[s[i]] = q[content[i]]
    <3>1. i \in DOMAIN s /\ s[i] \in ToSet(s)
      BY <1>4, ListFacts
    <3>2. k[s[i]] = SaidBy(by, content[i].text)
      BY <1>10, <1>11, <3>1
    <3> QED
      BY <1>3, <1>13, <3>2
  <2> QED
    BY <1>4, <2>1
<1>15. Bind(s, k) = Bind(content, q)
  BY <1>14 DEF Bind
<1>16. TextsOf(t) = content /\ Speaker(t) = by
  <2>1. \A b \in ToSet(content) : IsText(b)
    BY <1>1
  <2> QED
    BY <2>1, TextsTurn DEF Speaker, content
<1>17. Spoken(t) = Bind(content, q)
  BY <1>1, <1>16, SpokenTexts
<1> QED
  BY <1>9, <1>12, <1>15, <1>17 DEF J

\* Instructions as one text.
LEMMA JoinedInstructions ==
    ASSUME NEW s, s = <<>> \/ (s = <<s[1]>> /\ IsTurn(s[1]) /\ TextsOnly(s[1]) /\ IsInstruction(s[1])),
           NEW first, first = IF s = <<>> THEN <<>> ELSE <<Turn("system", <<Text(Joined(s[1]))>>, <<>>)>>
    PROVE  Fronts(first, s)
<1>1. CASE s = <<>>
  BY <1>1, NoTurns, NoTurnsSay DEF Fronts
<1>2. CASE s # <<>>
  <2> DEFINE t == s[1]
             J == Joined(t)
             b == Text(J)
             u == Turn("system", <<b>>, <<>>)
             q == [x \in {b} |-> SaidBy("instruction", J)]
  <2>1. s = <<t>> /\ IsTurn(t) /\ TextsOnly(t) /\ IsInstruction(t)
    BY <1>2
  <2>2. IsList(J) /\ SaidBy("instruction", J) = Spoken(t)
    BY <2>1, JoinedTexts, JoinedSays
  <2>3. AreBlocks(<<b>>) /\ <<b>> # <<>> /\ \A x \in ToSet(<<b>>) : IsText(x)
    BY <2>2, OneText
  <2>4. b.text = J /\ q[b] = SaidBy("instruction", J)
    BY DEF Text
  <2>5. first = <<u>>
    BY <1>2
  <2> HIDE DEF b, J, q, t, u
  <2>6. \A x \in ToSet(<<b>>) : q[x] = SaidBy("instruction", x.text)
    BY <2>4, SmallLists
  <2>7. IsTurn(u) /\ Exchanged(u) = <<>> /\ Spoken(u) = Bind(<<b>>, q) /\ Maps(<<b>>, q)
    BY <2>3, <2>6, SystemTurn DEF u
  <2>8. Bind(<<b>>, q) = Spoken(t)
    <3>1. IsList(q[b])
      BY <2>7, SmallLists DEF Maps
    <3> QED
      BY <2>2, <2>4, <3>1, BindOne
  <2> QED
    BY <2>1, <2>5, <2>7, <2>8, OneTurn DEF Fronts
<1> QED
  BY <1>1, <1>2

-----------------------------------------------------------------------------
(* The turns that the provider reads, adapter by adapter. *)

LEMMA ChatTurnsRead ==
    ASSUME NEW p, NEW r, IsRequest(r), NEW k,
           \A t \in ToSet(r.turns) : k[t] = <<ChatMessageFromWire(ChatMessageToWire(t))>>
    PROVE  ChatFromWire(p, ChatToWire(r)).turns = Bind(r.turns, k)
<1> DEFINE s == r.turns
           w == ChatToWire(r)
           m == [t \in ToSet(s) |-> ChatMessageFromWire(ChatMessageToWire(t))]
           written == [i \in DOMAIN s |-> ChatMessageToWire(s[i])]
           got == [i \in DOMAIN w.messages |-> ChatMessageFromWire(w.messages[i])]
<1>1. w.messages = written
  BY DEF ChatToWire
<1>2. ChatFromWire(p, w).turns = got
  BY DEF ChatFromWire, CanonicalRequest
<1>3. IsList(s)
  BY DEF IsRequest, AreTurns
<1>4. \A t \in ToSet(s) : m[t] = ChatMessageFromWire(ChatMessageToWire(t)) /\ k[t] = <<m[t]>>
  OBVIOUS
<1> HIDE DEF s, w, m
<1>5. got = [i \in DOMAIN s |-> m[s[i]]]
  <2>1. DOMAIN written = DOMAIN s
    OBVIOUS
  <2>2. \A i \in DOMAIN s : ChatMessageFromWire(written[i]) = m[s[i]]
    BY <1>3, <1>4, ListFacts
  <2> HIDE DEF written
  <2> QED
    BY <1>1, <2>1, <2>2
<1>6. [i \in DOMAIN s |-> m[s[i]]] = Bind(s, k)
  BY <1>3, <1>4, MapIsBind
<1> HIDE DEF got
<1> QED
  BY <1>2, <1>5, <1>6 DEF s, w

LEMMA AnthropicTurnsRead ==
    ASSUME NEW p, NEW r, IsRequest(r), NEW k, NEW instructions, instructions = InstructionsOf(r.turns),
           \A t \in ToSet(OthersOf(r.turns)) : k[t] = <<AnthropicMessageFromWire(AnthropicMessageToWire(t))>>,
           NEW system, system = Contents(instructions), IsList(system)
    PROVE  AnthropicFromWire(p, AnthropicToWire(r)).turns
           = (IF system = <<>> THEN <<>> ELSE <<Turn("system", system, <<>>)>>) \o Bind(OthersOf(r.turns), k)
<1> DEFINE s == OthersOf(r.turns)
           w == AnthropicToWire(r)
           m == [t \in ToSet(s) |-> AnthropicMessageFromWire(AnthropicMessageToWire(t))]
           written == [i \in DOMAIN s |-> AnthropicMessageToWire(s[i])]
           first == IF system = <<>> THEN <<>> ELSE <<Turn("system", system, <<>>)>>
           front == IF w.system = <<>> THEN <<>> ELSE <<Turn("system", w.system[1], <<>>)>>
           got == [i \in DOMAIN w.messages |-> AnthropicMessageFromWire(w.messages[i])]
<1>1. w.messages = written /\ w.system = IF system = <<>> THEN <<>> ELSE <<system>>
  BY DEF AnthropicToWire, Contents
<1>2. AnthropicFromWire(p, w).turns = front \o got
  BY DEF AnthropicFromWire, CanonicalRequest
<1>3. IsList(s)
  BY TurnsApart DEF IsRequest, AreTurns
<1>4. \A t \in ToSet(s) : m[t] = AnthropicMessageFromWire(AnthropicMessageToWire(t)) /\ k[t] = <<m[t]>>
  OBVIOUS
<1> HIDE DEF s, w, m
<1>5. got = [i \in DOMAIN s |-> m[s[i]]]
  <2>1. DOMAIN written = DOMAIN s
    OBVIOUS
  <2>2. \A i \in DOMAIN s : AnthropicMessageFromWire(written[i]) = m[s[i]]
    BY <1>3, <1>4, ListFacts
  <2> HIDE DEF written, first, front
  <2> QED
    BY <1>1, <2>1, <2>2
<1>6. [i \in DOMAIN s |-> m[s[i]]] = Bind(s, k)
  BY <1>3, <1>4, MapIsBind
<1> HIDE DEF got, written
<1>7. front = first
  <2>1. CASE system = <<>>
    BY <1>1, <2>1
  <2>2. CASE system # <<>>
    <3>1. w.system = <<system>>
      BY <1>1, <2>2
    <3>2. w.system # <<>> /\ w.system[1] = system
      BY <3>1
    <3> QED
      BY <2>2, <3>2
  <2> QED
    BY <2>1, <2>2
<1> HIDE DEF front, first
<1>8. AnthropicFromWire(p, w).turns = first \o Bind(s, k)
  BY <1>2, <1>5, <1>6, <1>7
<1> QED
  BY <1>8 DEF s, w, first

LEMMA GeminiTurnsRead ==
    ASSUME NEW p, NEW r, IsRequest(r), NEW k, NEW instructions, instructions = InstructionsOf(r.turns),
           \A t \in ToSet(OthersOf(r.turns)) : k[t] = <<ContentFromWire(ContentToWire(t))>>,
           NEW system, system = Contents(instructions), IsList(system)
    PROVE  GeminiFromWire(p, GeminiToWire(r)).turns
           = (IF system = <<>> THEN <<>> ELSE <<Turn("system", system, <<>>)>>) \o Bind(OthersOf(r.turns), k)
<1> DEFINE s == OthersOf(r.turns)
           w == GeminiToWire(r)
           m == [t \in ToSet(s) |-> ContentFromWire(ContentToWire(t))]
           written == [i \in DOMAIN s |-> ContentToWire(s[i])]
           first == IF system = <<>> THEN <<>> ELSE <<Turn("system", system, <<>>)>>
           front == IF w.systemInstruction = <<>> THEN <<>>
                    ELSE <<Turn("system", w.systemInstruction[1], <<>>)>>
           got == [i \in DOMAIN w.contents |-> ContentFromWire(w.contents[i])]
<1>1. w.contents = written /\ w.systemInstruction = IF system = <<>> THEN <<>> ELSE <<system>>
  BY DEF GeminiToWire, Contents
<1>2. GeminiFromWire(p, w).turns = front \o got
  BY DEF GeminiFromWire, CanonicalRequest
<1>3. IsList(s)
  BY TurnsApart DEF IsRequest, AreTurns
<1>4. \A t \in ToSet(s) : m[t] = ContentFromWire(ContentToWire(t)) /\ k[t] = <<m[t]>>
  OBVIOUS
<1> HIDE DEF s, w, m
<1>5. got = [i \in DOMAIN s |-> m[s[i]]]
  <2>1. DOMAIN written = DOMAIN s
    OBVIOUS
  <2>2. \A i \in DOMAIN s : ContentFromWire(written[i]) = m[s[i]]
    BY <1>3, <1>4, ListFacts
  <2> HIDE DEF written, first, front
  <2> QED
    BY <1>1, <2>1, <2>2
<1>6. [i \in DOMAIN s |-> m[s[i]]] = Bind(s, k)
  BY <1>3, <1>4, MapIsBind
<1> HIDE DEF got, written
<1>7. front = first
  <2>1. CASE system = <<>>
    BY <1>1, <2>1
  <2>2. CASE system # <<>>
    <3>1. w.systemInstruction = <<system>>
      BY <1>1, <2>2
    <3>2. w.systemInstruction # <<>> /\ w.systemInstruction[1] = system
      BY <3>1
    <3> QED
      BY <2>2, <3>2
  <2> QED
    BY <2>1, <2>2
<1> HIDE DEF front, first
<1>8. GeminiFromWire(p, w).turns = first \o Bind(s, k)
  BY <1>2, <1>5, <1>6, <1>7
<1> QED
  BY <1>8 DEF s, w, first

\* What is read of the items, or inputs, of a turn.
ItemsRead(t) == [i \in DOMAIN TurnToItems(t) |-> ItemFromWire(TurnToItems(t)[i])]
InputsRead(t) == [i \in DOMAIN TurnToInputs(t) |-> StepFromWire(TurnToInputs(t)[i])]
Applied(f, list) == [i \in DOMAIN list |-> f[list[i]]]

\* A list that is replaced and then read member by member.
LEMMA ReplacedAndRead ==
    ASSUME NEW s, NEW g, Maps(s, g), NEW all, all = Bind(s, g), NEW f, NEW k,
           \A t \in ToSet(s) : k[t] = Applied(f, g[t])
    PROVE  Applied(f, all) = Bind(s, k)
<1> DEFINE n == [x \in ToSet(all) |-> <<f[x]>>]
<1>1. IsList(all) /\ ToSet(all) = UNION {ToSet(g[t]) : t \in ToSet(s)}
  BY BindMembers
<1>2. \A x \in ToSet(all) : n[x] = <<f[x]>>
  OBVIOUS
<1> HIDE DEF n
<1>3. [i \in DOMAIN all |-> f[all[i]]] = Bind(all, n)
  BY <1>1, <1>2, MapIsBind
<1>4. ASSUME NEW t \in ToSet(s) PROVE Maps(g[t], n) /\ k[t] = Bind(g[t], n)
  <2> DEFINE list == g[t]
  <2>1. IsList(list) /\ \A x \in ToSet(list) : n[x] = <<f[x]>>
    BY <1>1, <1>2 DEF Maps
  <2>2. k[t] = [i \in DOMAIN list |-> f[list[i]]]
    BY DEF Applied
  <2> HIDE DEF list
  <2>3. [i \in DOMAIN list |-> f[list[i]]] = Bind(list, n)
    BY <2>1, MapIsBind
  <2>4. Maps(list, n)
    BY <2>1, SmallLists DEF Maps
  <2> QED
    BY <2>2, <2>3, <2>4 DEF list
<1>5. Bind(Bind(s, g), n) = Bind(s, k)
  BY <1>4, BindTwice
<1> QED
  BY <1>3, <1>5 DEF Applied

LEMMA ResponsesTurnsRead ==
    ASSUME NEW p, NEW r, IsRequest(r), WritesResponses(p, r), NEW k, NEW s, s = InstructionsOf(r.turns),
           \A t \in ToSet(OthersOf(r.turns)) : k[t] = ItemsRead(t)
    PROVE  ResponsesFromWire(p, ResponsesToWire(r)).turns
           = (IF s = <<>> THEN <<>> ELSE <<Turn("system", <<Text(Joined(s[1]))>>, <<>>)>>)
             \o Bind(OthersOf(r.turns), k)
<1> DEFINE others == OthersOf(r.turns)
           w == ResponsesToWire(r)
           g == [t \in ToSet(others) |-> TurnToItems(t)]
           f == [x \in ToSet(w.input) |-> ItemFromWire(x)]
           first == IF s = <<>> THEN <<>> ELSE <<Turn("system", <<Text(Joined(s[1]))>>, <<>>)>>
           front == IF w.instructions = <<>> THEN <<>>
                    ELSE <<Turn("system", <<Text(w.instructions[1])>>, <<>>)>>
           got == [i \in DOMAIN w.input |-> ItemFromWire(w.input[i])]
           written == [i \in DOMAIN others |-> TurnToItems(others[i])]
<1>1. w.input = FlattenSeq(written) /\ w.instructions = Instructions(r)
  BY DEF ResponsesToWire
<1>2. ResponsesFromWire(p, w).turns = front \o got
  BY DEF ResponsesFromWire, CanonicalRequest
<1>3. AreTurns(others) /\ IsList(others) /\ \A t \in ToSet(others) : IsTurn(t)
  BY TurnsApart DEF IsRequest, AreTurns
<1>4. Instructions(r) = IF s = <<>> THEN <<>> ELSE <<Joined(s[1])>>
  BY DEF Instructions
<1>5. \A t \in ToSet(others) : ResponsesTurnWrites(t)
  <2>1. \A i \in DOMAIN others : ResponsesTurnWrites(others[i])
    BY DEF WritesResponses
  <2> QED
    BY <1>3, <2>1, ListFacts
<1>6. \A t \in ToSet(others) : k[t] = ItemsRead(t)
  OBVIOUS
<1> HIDE DEF others, w
<1>7. written = [i \in DOMAIN others |-> g[others[i]]] /\ Maps(others, g)
  <2>1. Maps(others, g)
    BY <1>3, <1>5, ItemsAreRead DEF Maps
  <2> QED
    BY <1>3, <2>1, ListFacts
<1>8. w.input = Bind(others, g)
  BY <1>1, <1>7 DEF Bind
<1>9. ToSet(w.input) = UNION {ToSet(g[t]) : t \in ToSet(others)} /\ IsList(w.input)
  <2> HIDE DEF g
  <2> QED
    BY <1>7, <1>8, BindMembers
<1>10. \A t \in ToSet(others) : g[t] = TurnToItems(t)
  OBVIOUS
<1>11. \A x \in ToSet(w.input) : f[x] = ItemFromWire(x)
  OBVIOUS
<1> HIDE DEF g, f, written
<1>12. ASSUME NEW t \in ToSet(others) PROVE k[t] = Applied(f, g[t])
  <2> DEFINE items == TurnToItems(t)
  <2>1. g[t] = items /\ IsList(items)
    BY <1>3, <1>5, <1>10, ItemsAreRead
  <2>2. k[t] = [i \in DOMAIN items |-> ItemFromWire(items[i])]
    BY <1>6 DEF ItemsRead
  <2> HIDE DEF items
  <2>3. \A i \in DOMAIN items : f[items[i]] = ItemFromWire(items[i])
    BY <1>9, <1>11, <2>1, ListFacts
  <2> QED
    BY <2>1, <2>2, <2>3 DEF Applied
<1>13. got = Applied(f, w.input)
  <2> DEFINE input == w.input
  <2>1. IsList(input) /\ \A x \in ToSet(input) : f[x] = ItemFromWire(x)
    BY <1>9, <1>11
  <2>2. got = [i \in DOMAIN input |-> ItemFromWire(input[i])]
    OBVIOUS
  <2> HIDE DEF input, got, front, first
  <2>3. \A i \in DOMAIN input : f[input[i]] = ItemFromWire(input[i])
    BY <2>1, ListFacts
  <2>4. got = [i \in DOMAIN input |-> f[input[i]]]
    BY <2>2, <2>3
  <2> QED
    BY <2>4 DEF input, Applied
<1>14. Applied(f, w.input) = Bind(others, k)
  <2> DEFINE input == w.input
  <2>1. input = Bind(others, g)
    BY <1>8
  <2> HIDE DEF input, front, first, got
  <2>2. Applied(f, input) = Bind(others, k)
    BY <1>7, <2>1, <1>12, ReplacedAndRead
  <2> QED
    BY <2>2 DEF input
<1> HIDE DEF got
<1>15. front = first
  <2>1. CASE s = <<>>
    BY <1>1, <1>4, <2>1
  <2>2. CASE s # <<>>
    <3> DEFINE J == Joined(s[1])
    <3>1. w.instructions = <<J>>
      BY <1>1, <1>4, <2>2
    <3>2. first = <<Turn("system", <<Text(J)>>, <<>>)>>
      BY <2>2
    <3> HIDE DEF J, first
    <3>3. w.instructions # <<>> /\ w.instructions[1] = J
      BY <3>1
    <3> QED
      BY <3>2, <3>3
  <2> QED
    BY <2>1, <2>2
<1> HIDE DEF front, first
<1>16. ResponsesFromWire(p, w).turns = first \o Bind(others, k)
  BY <1>2, <1>13, <1>14, <1>15
<1> QED
  BY <1>16 DEF others, w, first

LEMMA InteractionsTurnsRead ==
    ASSUME NEW p, NEW r, IsRequest(r), WritesInteractions(p, r), NEW k, NEW s, s = InstructionsOf(r.turns),
           \A t \in ToSet(OthersOf(r.turns)) : InteractionsTurnWrites(t),
           \A t \in ToSet(OthersOf(r.turns)) : k[t] = InputsRead(t)
    PROVE  InteractionsFromWire(p, InteractionsToWire(r)).turns
           = (IF s = <<>> THEN <<>> ELSE <<Turn("system", <<Text(Joined(s[1]))>>, <<>>)>>)
             \o Bind(OthersOf(r.turns), k)
<1> DEFINE others == OthersOf(r.turns)
           w == InteractionsToWire(r)
           g == [t \in ToSet(others) |-> TurnToInputs(t)]
           f == [x \in ToSet(w.input) |-> StepFromWire(x)]
           first == IF s = <<>> THEN <<>> ELSE <<Turn("system", <<Text(Joined(s[1]))>>, <<>>)>>
           front == IF w.system_instruction = <<>> THEN <<>>
                    ELSE <<Turn("system", <<Text(w.system_instruction[1])>>, <<>>)>>
           got == [i \in DOMAIN w.input |-> StepFromWire(w.input[i])]
           written == [i \in DOMAIN others |-> TurnToInputs(others[i])]
<1>1. w.input = FlattenSeq(written)
      /\ w.system_instruction = IF s = <<>> THEN <<>> ELSE <<Joined(s[1])>>
  BY DEF InteractionsToWire
<1>2. InteractionsFromWire(p, w).turns = front \o got
  BY DEF InteractionsFromWire, CanonicalRequest
<1>3. AreTurns(others) /\ IsList(others)
      /\ \A t \in ToSet(others) : IsTurn(t) /\ ~ IsInstruction(t)
  BY TurnsApart DEF IsRequest, AreTurns
<1>4. \A t \in ToSet(others) : InteractionsTurnWrites(t)
  OBVIOUS
<1>5. \A t \in ToSet(others) : k[t] = InputsRead(t)
  OBVIOUS
<1> HIDE DEF others, w
<1>6. Maps(others, g)
  BY <1>3, <1>4, StepsAreRead DEF Maps
<1>7. written = [i \in DOMAIN others |-> g[others[i]]]
  BY <1>3, ListFacts
<1>8. w.input = Bind(others, g)
  BY <1>1, <1>7 DEF Bind
<1>9. ToSet(w.input) = UNION {ToSet(g[t]) : t \in ToSet(others)} /\ IsList(w.input)
  <2> HIDE DEF g
  <2> QED
    BY <1>6, <1>8, BindMembers
<1>10. \A t \in ToSet(others) : g[t] = TurnToInputs(t)
  OBVIOUS
<1>11. \A x \in ToSet(w.input) : f[x] = StepFromWire(x)
  OBVIOUS
<1> HIDE DEF g, f, written
<1>12. ASSUME NEW t \in ToSet(others) PROVE k[t] = Applied(f, g[t])
  <2> DEFINE inputs == TurnToInputs(t)
  <2>1. g[t] = inputs /\ IsList(inputs)
    BY <1>3, <1>4, <1>10, StepsAreRead
  <2>2. k[t] = [i \in DOMAIN inputs |-> StepFromWire(inputs[i])]
    BY <1>5 DEF InputsRead
  <2> HIDE DEF inputs
  <2>3. \A i \in DOMAIN inputs : f[inputs[i]] = StepFromWire(inputs[i])
    BY <1>9, <1>11, <2>1, ListFacts
  <2> QED
    BY <2>1, <2>2, <2>3 DEF Applied
<1>13. got = Applied(f, w.input)
  <2> DEFINE input == w.input
  <2>1. IsList(input) /\ \A x \in ToSet(input) : f[x] = StepFromWire(x)
    BY <1>9, <1>11
  <2>2. got = [i \in DOMAIN input |-> StepFromWire(input[i])]
    OBVIOUS
  <2> HIDE DEF input, got, front, first
  <2>3. \A i \in DOMAIN input : f[input[i]] = StepFromWire(input[i])
    BY <2>1, ListFacts
  <2>4. got = [i \in DOMAIN input |-> f[input[i]]]
    BY <2>2, <2>3
  <2> QED
    BY <2>4 DEF input, Applied
<1>14. Applied(f, w.input) = Bind(others, k)
  <2> DEFINE input == w.input
  <2>1. input = Bind(others, g)
    BY <1>8
  <2> HIDE DEF input, front, first, got
  <2>2. Applied(f, input) = Bind(others, k)
    BY <1>6, <2>1, <1>12, ReplacedAndRead
  <2> QED
    BY <2>2 DEF input
<1> HIDE DEF got
<1>15. front = first
  <2>1. CASE s = <<>>
    BY <1>1, <2>1
  <2>2. CASE s # <<>>
    <3> DEFINE J == Joined(s[1])
    <3>1. w.system_instruction = <<J>>
      BY <1>1, <2>2
    <3>2. first = <<Turn("system", <<Text(J)>>, <<>>)>>
      BY <2>2
    <3> HIDE DEF J, first
    <3>3. w.system_instruction # <<>> /\ w.system_instruction[1] = J
      BY <3>1
    <3> QED
      BY <3>2, <3>3
  <2> QED
    BY <2>1, <2>2
<1> HIDE DEF front, first
<1>16. InteractionsFromWire(p, w).turns = first \o Bind(others, k)
  BY <1>2, <1>13, <1>14, <1>15
<1> QED
  BY <1>16 DEF others, w, first

-----------------------------------------------------------------------------
(* What turns exchange and say arrives, adapter by adapter. *)

TurnsArrive(provider, turns, got) ==
    /\ ExchangedIn(got) = ExchangedIn(turns)
    /\ \A who : Having(SpokenIn(got), "by", {who}) = Having(SpokenIn(turns), "by", {who})
    /\ provider # ResponsesName => SpokenIn(got) = SpokenIn(turns)

LEMMA RetoldArrives ==
    ASSUME NEW provider, NEW turns, AreTurns(turns), NEW got, Retold(turns, got),
           provider # ResponsesName => SystemFirst(turns)
    PROVE  TurnsArrive(provider, turns, got)
<1>1. \A who : Having(SpokenIn(got), "by", {who}) = Having(SpokenIn(turns), "by", {who})
  BY SpeakersApart DEF Retold
<1>2. ExchangedIn(got) = ExchangedIn(turns)
  BY DEF Retold
<1>3. provider # ResponsesName => SpokenIn(got) = SpokenIn(turns)
  BY InOrder
<1> QED
  BY <1>1, <1>2, <1>3 DEF TurnsArrive

LEMMA ChatArrives ==
    ASSUME NEW p, NEW r, IsRequest(r), WritesChat(p, r)
    PROVE  TurnsArrive(ChatName, r.turns, ChatFromWire(p, ChatToWire(r)).turns)
<1> DEFINE s == r.turns
           k == [t \in ToSet(s) |-> <<ChatMessageFromWire(ChatMessageToWire(t))>>]
           got == ChatFromWire(p, ChatToWire(r)).turns
<1>1. AreTurns(s) /\ IsList(s) /\ \A t \in ToSet(s) : IsTurn(t)
  BY DEF IsRequest, AreTurns
<1>2. \A t \in ToSet(s) : k[t] = <<ChatMessageFromWire(ChatMessageToWire(t))>>
  OBVIOUS
<1>3. \A t \in ToSet(s) : ChatTurnWrites(t)
  <2>1. \A i \in DOMAIN s : ChatTurnWrites(s[i])
    BY DEF WritesChat
  <2> QED
    BY <1>1, <2>1, ListFacts
<1> HIDE DEF k, got
<1>4. got = Bind(s, k)
  <2>1. \A t \in ToSet(r.turns) : k[t] = <<ChatMessageFromWire(ChatMessageToWire(t))>>
    BY <1>2
  <2>2. ChatFromWire(p, ChatToWire(r)).turns = Bind(r.turns, k)
    BY <2>1, ChatTurnsRead
  <2> QED
    BY <2>2 DEF got
<1> HIDE DEF s
<1>5. \A t \in ToSet(s) : Conveys(k[t], t)
  BY <1>1, <1>2, <1>3, ChatConveys
<1>6. ExchangedIn(got) = ExchangedIn(s) /\ SpokenIn(got) = SpokenIn(s)
  BY <1>1, <1>4, <1>5, Conveyed
<1> QED
  BY <1>6 DEF TurnsArrive, s, got

LEMMA AnthropicArrives ==
    ASSUME NEW p, NEW r, IsRequest(r), WritesAnthropic(p, r)
    PROVE  TurnsArrive(AnthropicName, r.turns, AnthropicFromWire(p, AnthropicToWire(r)).turns)
<1> DEFINE s == r.turns
           instructions == InstructionsOf(s)
           others == OthersOf(s)
           system == Contents(instructions)
           k == [t \in ToSet(others) |-> <<AnthropicMessageFromWire(AnthropicMessageToWire(t))>>]
           first == IF system = <<>> THEN <<>> ELSE <<Turn("system", system, <<>>)>>
           got == AnthropicFromWire(p, AnthropicToWire(r)).turns
<1>1. AreTurns(s) /\ IsList(s)
  BY DEF IsRequest, AreTurns
<1>2. SystemFirst(s) /\ \A i \in DOMAIN s : IF IsInstruction(s[i]) THEN TextsOnly(s[i])
                                             ELSE AnthropicTurnWrites(s[i])
  BY DEF WritesAnthropic
<1> HIDE DEF s
<1>3. \A t \in ToSet(s) : IF IsInstruction(t) THEN TextsOnly(t) ELSE AnthropicTurnWrites(t)
  BY <1>1, <1>2, ListFacts
<1>4. /\ AreTurns(instructions) /\ AreTurns(others)
      /\ \A t \in ToSet(instructions) : TextsOnly(t) /\ IsInstruction(t)
      /\ \A t \in ToSet(others) : IsTurn(t) /\ AnthropicTurnWrites(t)
  BY <1>1, <1>3, TurnsApart DEF AreTurns
<1>5. \A t \in ToSet(others) : k[t] = <<AnthropicMessageFromWire(AnthropicMessageToWire(t))>>
  OBVIOUS
<1>6. IsList(system)
  BY <1>4, InstructionsAsTexts DEF AreBlocks
<1>7. Fronts(first, instructions)
  <2> HIDE DEF instructions
  <2> QED
    BY <1>4, ListedInstructions
<1> HIDE DEF k, got, instructions, others
<1>8. got = first \o Bind(others, k)
  <2> HIDE DEF system
  <2>1. \A t \in ToSet(OthersOf(r.turns)) : k[t] = <<AnthropicMessageFromWire(AnthropicMessageToWire(t))>>
    BY <1>5 DEF s, others
  <2>2. instructions = InstructionsOf(r.turns)
    BY DEF instructions, s
  <2>3. system = Contents(instructions)
    BY DEF system
  <2>4. AnthropicFromWire(p, AnthropicToWire(r)).turns = first \o Bind(OthersOf(r.turns), k)
    BY <1>6, <2>1, <2>2, <2>3, AnthropicTurnsRead
  <2> QED
    BY <2>4 DEF got, others, s
<1>9. \A t \in ToSet(others) : Conveys(k[t], t)
  BY <1>4, <1>5, AnthropicConveys
<1> HIDE DEF first
<1>10. Retold(s, got)
  BY <1>1, <1>7, <1>8, <1>9, Retelling DEF instructions, others
<1> QED
  BY <1>1, <1>2, <1>10, RetoldArrives DEF s, got

LEMMA GeminiArrives ==
    ASSUME NEW p, NEW r, IsRequest(r), WritesGemini(p, r)
    PROVE  TurnsArrive(GeminiName, r.turns, GeminiFromWire(p, GeminiToWire(r)).turns)
<1> DEFINE s == r.turns
           instructions == InstructionsOf(s)
           others == OthersOf(s)
           system == Contents(instructions)
           k == [t \in ToSet(others) |-> <<ContentFromWire(ContentToWire(t))>>]
           first == IF system = <<>> THEN <<>> ELSE <<Turn("system", system, <<>>)>>
           got == GeminiFromWire(p, GeminiToWire(r)).turns
<1>1. AreTurns(s) /\ IsList(s)
  BY DEF IsRequest, AreTurns
<1>2. SystemFirst(s) /\ \A i \in DOMAIN s : IF IsInstruction(s[i]) THEN TextsOnly(s[i])
                                             ELSE GeminiTurnWrites(s[i])
  BY DEF WritesGemini
<1> HIDE DEF s
<1>3. \A t \in ToSet(s) : IF IsInstruction(t) THEN TextsOnly(t) ELSE GeminiTurnWrites(t)
  BY <1>1, <1>2, ListFacts
<1>4. /\ AreTurns(instructions) /\ AreTurns(others)
      /\ \A t \in ToSet(instructions) : TextsOnly(t) /\ IsInstruction(t)
      /\ \A t \in ToSet(others) : IsTurn(t) /\ GeminiTurnWrites(t)
  BY <1>1, <1>3, TurnsApart DEF AreTurns
<1>5. \A t \in ToSet(others) : k[t] = <<ContentFromWire(ContentToWire(t))>>
  OBVIOUS
<1>6. IsList(system)
  BY <1>4, InstructionsAsTexts DEF AreBlocks
<1>7. Fronts(first, instructions)
  <2> HIDE DEF instructions
  <2> QED
    BY <1>4, ListedInstructions
<1> HIDE DEF k, got, instructions, others
<1>8. got = first \o Bind(others, k)
  <2> HIDE DEF system
  <2>1. \A t \in ToSet(OthersOf(r.turns)) : k[t] = <<ContentFromWire(ContentToWire(t))>>
    BY <1>5 DEF s, others
  <2>2. instructions = InstructionsOf(r.turns)
    BY DEF instructions, s
  <2>3. system = Contents(instructions)
    BY DEF system
  <2>4. GeminiFromWire(p, GeminiToWire(r)).turns = first \o Bind(OthersOf(r.turns), k)
    BY <1>6, <2>1, <2>2, <2>3, GeminiTurnsRead
  <2> QED
    BY <2>4 DEF got, others, s
<1>9. \A t \in ToSet(others) : Conveys(k[t], t)
  BY <1>4, <1>5, GeminiConveys
<1> HIDE DEF first
<1>10. Retold(s, got)
  BY <1>1, <1>7, <1>8, <1>9, Retelling DEF instructions, others
<1> QED
  BY <1>1, <1>2, <1>10, RetoldArrives DEF s, got

\* What is read of items, or inputs, as a replacement of each.
LEMMA ReadOfItems ==
    ASSUME NEW t, IsTurn(t), ResponsesTurnWrites(t)
    PROVE  Conveys(ItemsRead(t), t)
<1> DEFINE list == TurnToItems(t)
           m == [x \in ToSet(list) |-> ItemFromWire(x)]
           n == [x \in ToSet(list) |-> <<ItemFromWire(x)>>]
<1>1. IsList(list)
  BY ItemsAreRead
<1>2. \A x \in ToSet(list) : n[x] = <<ItemFromWire(x)>> /\ n[x] = <<m[x]>> /\ m[x] = ItemFromWire(x)
  OBVIOUS
<1> HIDE DEF m, n, list
<1>3. [i \in DOMAIN list |-> m[list[i]]] = Bind(list, n)
  BY <1>1, <1>2, MapIsBind
<1>4. ItemsRead(t) = [i \in DOMAIN list |-> m[list[i]]]
  BY <1>1, <1>2, ListFacts DEF ItemsRead, list
<1>5. Conveys(Bind(list, n), t)
  BY <1>2, ResponsesConveys DEF list
<1> QED
  BY <1>3, <1>4, <1>5

LEMMA ReadOfInputs ==
    ASSUME NEW t, IsTurn(t), ~ IsInstruction(t), InteractionsTurnWrites(t)
    PROVE  Conveys(InputsRead(t), t)
<1> DEFINE list == TurnToInputs(t)
           m == [x \in ToSet(list) |-> StepFromWire(x)]
           n == [x \in ToSet(list) |-> <<StepFromWire(x)>>]
<1>1. IsList(list)
  BY StepsAreRead
<1>2. \A x \in ToSet(list) : n[x] = <<StepFromWire(x)>> /\ n[x] = <<m[x]>> /\ m[x] = StepFromWire(x)
  OBVIOUS
<1> HIDE DEF m, n, list
<1>3. [i \in DOMAIN list |-> m[list[i]]] = Bind(list, n)
  BY <1>1, <1>2, MapIsBind
<1>4. InputsRead(t) = [i \in DOMAIN list |-> m[list[i]]]
  BY <1>1, <1>2, ListFacts DEF InputsRead, list
<1>5. Conveys(Bind(list, n), t)
  BY <1>2, InteractionsConveys DEF list
<1> QED
  BY <1>3, <1>4, <1>5

LEMMA ResponsesArrives ==
    ASSUME NEW p, NEW r, IsRequest(r), WritesResponses(p, r)
    PROVE  TurnsArrive(ResponsesName, r.turns, ResponsesFromWire(p, ResponsesToWire(r)).turns)
<1> DEFINE s == r.turns
           instructions == InstructionsOf(s)
           others == OthersOf(s)
           k == [t \in ToSet(others) |-> ItemsRead(t)]
           first == IF instructions = <<>> THEN <<>>
                    ELSE <<Turn("system", <<Text(Joined(instructions[1]))>>, <<>>)>>
           got == ResponsesFromWire(p, ResponsesToWire(r)).turns
<1>1. AreTurns(s)
  BY DEF IsRequest
<1>2. \/ instructions = <<>>
      \/ /\ instructions = <<instructions[1]>> /\ IsTurn(instructions[1])
         /\ TextsOnly(instructions[1]) /\ IsInstruction(instructions[1])
  BY ResponsesInstructions
<1>3. \A t \in ToSet(others) : IsTurn(t) /\ ResponsesTurnWrites(t)
  <2>1. AreTurns(others) /\ IsList(others)
    BY <1>1, TurnsApart DEF AreTurns
  <2>2. \A i \in DOMAIN others : ResponsesTurnWrites(others[i])
    BY DEF WritesResponses
  <2> HIDE DEF others
  <2> QED
    BY <2>1, <2>2, ListFacts DEF AreTurns
<1>4. \A t \in ToSet(others) : k[t] = ItemsRead(t)
  OBVIOUS
<1> HIDE DEF s, instructions, others, k, got
<1>5. Fronts(first, instructions)
  BY <1>2, JoinedInstructions
<1>6. got = first \o Bind(others, k)
  <2>1. instructions = InstructionsOf(r.turns)
    BY DEF instructions, s
  <2>2. \A t \in ToSet(OthersOf(r.turns)) : k[t] = ItemsRead(t)
    BY <1>4 DEF others, s
  <2>3. ResponsesFromWire(p, ResponsesToWire(r)).turns = first \o Bind(OthersOf(r.turns), k)
    BY <2>1, <2>2, ResponsesTurnsRead
  <2> QED
    BY <2>3 DEF got, others, s
<1>7. \A t \in ToSet(others) : Conveys(k[t], t)
  BY <1>3, <1>4, ReadOfItems
<1> HIDE DEF first
<1>8. Retold(s, got)
  BY <1>1, <1>5, <1>6, <1>7, Retelling DEF instructions, others
<1> QED
  BY <1>1, <1>8, RetoldArrives DEF s, got

LEMMA InteractionsInstructions ==
    ASSUME NEW p, NEW r, IsRequest(r), WritesInteractions(p, r), NEW s, s = InstructionsOf(r.turns)
    PROVE  /\ SystemFirst(r.turns)
           /\ s = <<>> \/ (s = <<s[1]>> /\ IsTurn(s[1]) /\ TextsOnly(s[1]) /\ IsInstruction(s[1]))
           /\ \A t \in ToSet(OthersOf(r.turns)) :
                 IsTurn(t) /\ ~ IsInstruction(t) /\ InteractionsTurnWrites(t)
<1> DEFINE turns == r.turns
           o == OthersOf(turns)
<1>1. AreTurns(turns) /\ IsList(turns)
  BY DEF IsRequest, AreTurns
<1>2. \A i \in DOMAIN turns : IF IsInstruction(turns[i]) THEN i = 1 /\ TextsOnly(turns[i])
                              ELSE InteractionsTurnWrites(turns[i])
  BY DEF WritesInteractions
<1>3. s = InstructionsOf(turns)
  OBVIOUS
<1> HIDE DEF turns
<1>4. DOMAIN turns = 1 .. Len(turns) /\ Len(turns) \in Nat
  BY <1>1, ListFacts
<1>5. SystemFirst(turns)
  BY <1>2, <1>4 DEF SystemFirst
<1>6. \A t \in ToSet(turns) : IF IsInstruction(t) THEN t = turns[1] /\ TextsOnly(t)
                              ELSE InteractionsTurnWrites(t)
  BY <1>1, <1>2, ListFacts
<1>7. /\ AreTurns(s) /\ AreTurns(o)
      /\ ToSet(s) = {t \in ToSet(turns) : IsInstruction(t)}
      /\ ToSet(o) = {t \in ToSet(turns) : ~ IsInstruction(t)}
  BY <1>1, <1>3, TurnsApart
<1>8. \A t \in ToSet(o) : IsTurn(t) /\ ~ IsInstruction(t) /\ InteractionsTurnWrites(t)
  BY <1>6, <1>7 DEF AreTurns
<1>9. ASSUME s # <<>>
      PROVE  s = <<s[1]>> /\ IsTurn(s[1]) /\ TextsOnly(s[1]) /\ IsInstruction(s[1])
  <2>1. turns = s \o o
    BY <1>1, <1>3, <1>5, Partition
  <2> HIDE DEF o
  <2>2. IsList(s) /\ IsList(o) /\ Len(s) \in Nat /\ DOMAIN s = 1 .. Len(s) /\ Len(o) \in Nat
        /\ s \in Seq(ToSet(s)) /\ o \in Seq(ToSet(o))
    BY <1>7, ListFacts DEF AreTurns, IsList
  <2>3. Len(s) # 0
    BY <1>9, <2>2
  <2>4. \A i \in DOMAIN s : turns[i] = s[i] /\ i \in DOMAIN turns
    <3>1. s \in Seq(ToSet(s) \cup ToSet(o)) /\ o \in Seq(ToSet(s) \cup ToSet(o))
      BY <2>2, SeqMonotonic
    <3> QED
      BY <2>1, <2>2, <3>1
  <2>5. \A i \in DOMAIN s : s[i] \in ToSet(s)
    BY <2>2, ListFacts
  <2>6. \A i \in DOMAIN s : IsInstruction(turns[i])
    BY <1>7, <2>4, <2>5
  <2>7. \A i \in DOMAIN s : i = 1
    BY <1>2, <2>4, <2>6
  <2>8. Len(s) = 1
    <3>1. Len(s) \in DOMAIN s
      BY <2>2, <2>3
    <3> QED
      BY <2>7, <3>1
  <2>9. Optional(s)
    BY <2>2, <2>8 DEF Optional
  <2>10. s = <<s[1]>> /\ s[1] \in ToSet(s)
    BY <1>9, <2>9, OptionalForm
  <2> QED
    BY <1>6, <1>7, <2>10 DEF AreTurns
<1> QED
  BY <1>5, <1>8, <1>9 DEF turns, o

LEMMA InteractionsArrives ==
    ASSUME NEW p, NEW r, IsRequest(r), WritesInteractions(p, r)
    PROVE  TurnsArrive(InteractionsName, r.turns, InteractionsFromWire(p, InteractionsToWire(r)).turns)
<1> DEFINE s == r.turns
           instructions == InstructionsOf(s)
           others == OthersOf(s)
           k == [t \in ToSet(others) |-> InputsRead(t)]
           first == IF instructions = <<>> THEN <<>>
                    ELSE <<Turn("system", <<Text(Joined(instructions[1]))>>, <<>>)>>
           got == InteractionsFromWire(p, InteractionsToWire(r)).turns
<1>1. AreTurns(s)
  BY DEF IsRequest
<1>2. /\ SystemFirst(s)
      /\ \/ instructions = <<>>
         \/ /\ instructions = <<instructions[1]>> /\ IsTurn(instructions[1])
            /\ TextsOnly(instructions[1]) /\ IsInstruction(instructions[1])
      /\ \A t \in ToSet(others) : IsTurn(t) /\ ~ IsInstruction(t) /\ InteractionsTurnWrites(t)
  BY InteractionsInstructions
<1>4. \A t \in ToSet(others) : k[t] = InputsRead(t)
  OBVIOUS
<1> HIDE DEF s, instructions, others, k, got
<1>5. Fronts(first, instructions)
  BY <1>2, JoinedInstructions
<1>6. got = first \o Bind(others, k)
  <2>1. instructions = InstructionsOf(r.turns)
    BY DEF instructions, s
  <2>2. \A t \in ToSet(OthersOf(r.turns)) : k[t] = InputsRead(t) /\ InteractionsTurnWrites(t)
    BY <1>2, <1>4 DEF others, s
  <2>3. InteractionsFromWire(p, InteractionsToWire(r)).turns = first \o Bind(OthersOf(r.turns), k)
    BY <2>1, <2>2, InteractionsTurnsRead, SMTT(60)
  <2> QED
    BY <2>3 DEF got, others, s
<1>7. \A t \in ToSet(others) : Conveys(k[t], t)
  BY <1>2, <1>4, ReadOfInputs
<1> HIDE DEF first
<1>8. Retold(s, got)
  BY <1>1, <1>5, <1>6, <1>7, Retelling DEF instructions, others
<1> QED
  BY <1>1, <1>2, <1>8, RetoldArrives DEF s, got

-----------------------------------------------------------------------------
(* What an adapter read, it writes and reads again as it was. *)

LEMMA JsonComesBack == \A value : json_or_text(compact_json(value)) = value
BY DEF json_or_text, compact_json, JsonText

\* Instructions in front, put together by an adapter.
LEMMA FrontAndRest ==
    ASSUME NEW front, NEW rest, AreTurns(front), AreTurns(rest), \A t \in ToSet(front) : IsInstruction(t),
           \A t \in ToSet(rest) : ~ IsInstruction(t), NEW turns, turns = front \o rest
    PROVE  InstructionsOf(turns) = front /\ OthersOf(turns) = rest
<1>1. IsList(front) /\ IsList(rest) /\ \A t \in ToSet(rest) : t.role \in Roles
  BY DEF AreTurns, IsTurn
<1>2. \A t \in ToSet(front) : /\ t["role"] \in {"system", "developer"}
                              /\ t["role"] \notin {"user", "assistant", "tool"}
  BY DEF IsInstruction
<1>3. \A t \in ToSet(rest) : /\ t["role"] \notin {"system", "developer"}
                             /\ t["role"] \in {"user", "assistant", "tool"}
  BY <1>1 DEF IsInstruction, Roles
<1>4. Having(front, "role", {"system", "developer"}) = front
  BY <1>1, <1>2, HavingAll
<1>5. Having(rest, "role", {"system", "developer"}) = <<>>
  BY <1>1, <1>3, HavingNone
<1>6. Having(front, "role", {"user", "assistant", "tool"}) = <<>>
  BY <1>1, <1>2, HavingNone
<1>7. Having(rest, "role", {"user", "assistant", "tool"}) = rest
  BY <1>1, <1>3, HavingAll
<1>8. Having(front \o rest, "role", {"system", "developer"}) = front \o <<>>
  <2>1. Having(front \o rest, "role", {"system", "developer"})
        = Having(front, "role", {"system", "developer"}) \o Having(rest, "role", {"system", "developer"})
    BY <1>1, HavingConcat
  <2> QED
    BY <1>4, <1>5, <2>1
<1>9. Having(front \o rest, "role", {"user", "assistant", "tool"}) = <<>> \o rest
  <2>1. Having(front \o rest, "role", {"user", "assistant", "tool"})
        = Having(front, "role", {"user", "assistant", "tool"})
          \o Having(rest, "role", {"user", "assistant", "tool"})
    BY <1>1, HavingConcat
  <2> QED
    BY <1>6, <1>7, <2>1
<1>10. front \o <<>> = front /\ <<>> \o rest = rest
  <2>1. front \in Seq(ToSet(front)) /\ rest \in Seq(ToSet(rest))
    BY <1>1 DEF IsList
  <2> QED
    BY <2>1
<1> QED
  BY <1>8, <1>9, <1>10 DEF InstructionsOf, OthersOf

\* The instructions that an adapter puts in front.
LEMMA FrontOfWire ==
    ASSUME NEW field, Optional(field), NEW texts,
           field # <<>> => AreBlocks(texts) /\ texts # <<>> /\ \A b \in ToSet(texts) : IsText(b),
           NEW front, front = IF field = <<>> THEN <<>> ELSE <<Turn("system", texts, <<>>)>>
    PROVE  /\ AreTurns(front) /\ \A t \in ToSet(front) : IsInstruction(t)
           /\ \/ front = <<>>
              \/ front = <<Turn("system", texts, <<>>)>> /\ field # <<>>
<1>1. CASE field = <<>>
  BY <1>1, NoTurns, SmallLists
<1>2. CASE field # <<>>
  <2> DEFINE u == Turn("system", texts, <<>>)
  <2>1. front = <<u>> /\ AreTurns(<<u>>)
    BY <1>2, InstructionTurn
  <2>2. u.role = "system"
    BY FieldsOfTurns
  <2> HIDE DEF u
  <2>3. ToSet(<<u>>) = {u} /\ IsInstruction(u)
    BY <2>2, SmallLists DEF IsInstruction
  <2> QED
    BY <1>2, <2>1, <2>3 DEF u
<1> QED
  BY <1>1, <1>2

\* The rest of the turns, each read from one item.
LEMMA RestOfWire ==
    ASSUME NEW items, IsList(items), NEW f, NEW rest, rest = [i \in DOMAIN items |-> f[items[i]]],
           \A x \in ToSet(items) : IsTurn(f[x]) /\ ~ IsInstruction(f[x])
    PROVE  /\ AreTurns(rest) /\ \A t \in ToSet(rest) : ~ IsInstruction(t)
           /\ \A t \in ToSet(rest) : \E x \in ToSet(items) : t = f[x]
<1>1. IsList(items) /\ rest = [i \in DOMAIN items |-> f[items[i]]]
  OBVIOUS
<1>2. IsList(rest)
  BY ONLY <1>1, MappedTo
<1>3. ToSet(rest) = {f[x] : x \in ToSet(items)}
  BY ONLY <1>1, MappedTo
<1> QED
  BY <1>2, <1>3 DEF AreTurns

\* Messages of Chat Completions.
LEMMA ChatOwnTurn ==
    ASSUME NEW m, IsChatMessage(m), ChatMessageReads(m), NEW t, t = ChatMessageFromWire(m)
    PROVE  ChatMessageFromWire(ChatMessageToWire(t)) = t
<1> DEFINE parsed == [i \in DOMAIN m.calls |-> [m.calls[i] EXCEPT !.args = @.of]]
           b == Result(m.answer[1].id, m.name, json_or_text(m.answer[1].text), FALSE)
           content == m.content
           u == ChatMessageFromWire(ChatMessageToWire(t))
<1>1. IsTurn(t)
  BY ChatTurn
<1>2. u = ChatMessageFromWire(ChatMessageToWire(t))
  OBVIOUS
<1> HIDE DEF u
<1>3. CASE m.role = "tool"
  <2>1. t = Turn("tool", <<b>>, m.name)
    BY <1>3 DEF ChatMessageFromWire
  <2>2. b = Result(b.id, m.name, b.value, FALSE)
    BY DEF Result
  <2> HIDE DEF b
  <2>3. t.role = "tool" /\ t.content = <<b>> /\ t.name = m.name
    BY <2>1, FieldsOfTurns
  <2>4. t.content[1] = b
    BY <2>3
  <2>5. u = Turn("tool", <<Result(b.id, m.name, b.value, FALSE)>>, m.name)
    BY <1>1, <1>2, <2>3, <2>4, ChatReadsTurn, JsonComesBack
  <2> QED
    BY <1>2, <2>1, <2>2, <2>5
<1>4. CASE m.role # "tool"
  <2>1. t = Turn(m.role, content \o parsed, m.name)
    BY <1>4 DEF ChatMessageFromWire
  <2>2. AreBlocks(content) /\ IsList(content) /\ IsList(m.calls)
        /\ \A c \in ToSet(m.calls) : c = Call(c.id, c.name, c.args)
    BY DEF IsChatMessage, AreBlocks
  <2>3. /\ \A i \in DOMAIN content : IsText(content[i])
        /\ \A i \in DOMAIN m.calls : ReadsObject(m.calls[i].args)
    BY <1>4 DEF ChatMessageReads
  <2>4. \A c \in ToSet(content) : IsText(c)
    BY <2>2, <2>3, ListFacts
  <2>5. IsList(parsed) /\ \A c \in ToSet(parsed) : IsCall(c)
    <3>1. \A c \in ToSet(m.calls) : ReadsObject(c.args)
      BY <2>2, <2>3, ListFacts
    <3> DEFINE calls == m.calls
    <3>2. AreBlocks([i \in DOMAIN calls |-> [calls[i] EXCEPT !.args = @.of]])
          /\ \A c \in ToSet([i \in DOMAIN calls |-> [calls[i] EXCEPT !.args = @.of]]) : IsCall(c)
      <4> HIDE DEF calls
      <4>1. IsList(calls) /\ \A c \in ToSet(calls) : c = Call(c.id, c.name, c.args) /\ ReadsObject(c.args)
        BY <2>2, <3>1 DEF calls
      <4> QED
        BY <4>1, ParsedCalls
    <3> QED
      BY <3>2 DEF AreBlocks
  <2> HIDE DEF parsed, content
  <2> DEFINE all == content \o parsed
  <2>6. t = Turn(m.role, all, m.name)
    BY <2>1
  <2>7. all = content \o parsed
    OBVIOUS
  <2> HIDE DEF all
  <2>8. t.role = m.role /\ t.content = all /\ t.name = m.name
    BY ONLY <2>6, FieldsOfTurns
  <2>9. t.content = content \o parsed
    BY <2>7, <2>8
  <2>10. TextsOf(t) = content /\ CallsOf(t) = parsed
    BY ONLY <2>2, <2>4, <2>5, <2>9, TextsThenCalls
  <2>11. u = Turn(t.role, TextsOf(t) \o CallsOf(t), t.name)
    BY <1>1, <1>2, <1>4, <2>8, ChatReadsTurn
  <2>12. u = Turn(m.role, all, m.name)
    BY <2>7, <2>8, <2>10, <2>11
  <2> QED
    BY <1>2, <2>6, <2>12
<1> QED
  BY <1>3, <1>4

LEMMA ChatSameTurns ==
    ASSUME NEW p, NEW q, NEW w, IsChatWire(w), ReadsChat(p, w), NEW r, r = ChatFromWire(p, w), IsRequest(r)
    PROVE  ChatFromWire(q, ChatToWire(r)).turns = r.turns
<1> DEFINE s == r.turns
           f == [m \in ToSet(w.messages) |-> ChatMessageFromWire(m)]
           k == [t \in ToSet(s) |-> <<ChatMessageFromWire(ChatMessageToWire(t))>>]
<1>1. /\ IsList(w.messages) /\ \A m \in ToSet(w.messages) : IsChatMessage(m)
      /\ \A i \in DOMAIN w.messages : ChatMessageReads(w.messages[i])
  BY DEF IsChatWire, ReadsChat
<1>2. \A m \in ToSet(w.messages) : ChatMessageReads(m)
  BY <1>1, ListFacts
<1>3. s = [i \in DOMAIN w.messages |-> ChatMessageFromWire(w.messages[i])]
  BY DEF ChatFromWire, CanonicalRequest
<1>4. s = [i \in DOMAIN w.messages |-> f[w.messages[i]]]
  BY <1>1, <1>3, ListFacts
<1>5. \A m \in ToSet(w.messages) : f[m] = ChatMessageFromWire(m)
  OBVIOUS
<1>6. \A t \in ToSet(s) : k[t] = <<ChatMessageFromWire(ChatMessageToWire(t))>>
  OBVIOUS
<1>7. ChatFromWire(q, ChatToWire(r)).turns = Bind(s, k)
  <2> HIDE DEF k
  <2> QED
    BY <1>6, ChatTurnsRead
<1> HIDE DEF s, f, k
<1>8. IsList(s) /\ ToSet(s) = {f[m] : m \in ToSet(w.messages)}
  <2> DEFINE messages == w.messages
  <2>1. IsList(messages) /\ s = [i \in DOMAIN messages |-> f[messages[i]]]
    BY <1>1, <1>4
  <2> HIDE DEF messages
  <2>2. IsList(s) /\ ToSet(s) = {f[m] : m \in ToSet(messages)}
    BY <2>1, MappedTo
  <2> QED
    BY <2>2 DEF messages
<1>9. ASSUME NEW t \in ToSet(s) PROVE k[t] = <<t>>
  <2>1. PICK m \in ToSet(w.messages) : t = ChatMessageFromWire(m)
    BY <1>5, <1>8
  <2>2. ChatMessageFromWire(ChatMessageToWire(t)) = t
    BY <1>1, <1>2, <2>1, ChatOwnTurn
  <2> QED
    BY <1>6, <2>2
<1>10. Bind(s, k) = s
  BY <1>8, <1>9, BindItself
<1> QED
  BY <1>7, <1>10 DEF s

\* Messages of Anthropic.
LEMMA AnthropicOwnTurn ==
    ASSUME NEW m, AreBlocks(m.content), AnthropicMessageReads(m), NEW t, t = AnthropicMessageFromWire(m),
           AnthropicTurnWrites(t)
    PROVE  AnthropicMessageFromWire(AnthropicMessageToWire(t)) = t
<1> DEFINE c == m.content[1]
           r == Result(c.id, <<>>, json_or_text(c.value), c.error)
           u == AnthropicMessageFromWire(AnthropicMessageToWire(t))
           b == t.content[1]
<1>1. IsTurn(t)
  BY AnthropicTurn
<1>2. u = AnthropicMessageFromWire(AnthropicMessageToWire(t)) /\ b = t.content[1]
  OBVIOUS
<1> HIDE DEF u, b
<1>3. /\ t.role = "tool" => u = Turn("tool", <<Result(b.id, <<>>, b.value, b.error)>>, <<>>)
      /\ t.role # "tool" => u = Turn(t.role, t.content, <<>>)
  BY <1>1, <1>2, AnthropicReadsTurn, JsonComesBack
<1>4. CASE IsResult(c)
  <2>1. t = Turn("tool", <<r>>, <<>>)
    BY <1>4 DEF AnthropicMessageFromWire
  <2>2. r = Result(r.id, <<>>, r.value, r.error)
    BY DEF Result
  <2> HIDE DEF r
  <2>3. t.role = "tool" /\ t.content = <<r>>
    BY <2>1, FieldsOfTurns
  <2>4. b = r
    BY <1>2, <2>3
  <2> QED
    BY <1>2, <1>3, <2>1, <2>2, <2>3, <2>4
<1>5. CASE ~ IsResult(c)
  <2>1. t = Turn(m.role, m.content, <<>>) /\ m.role \in {"user", "assistant"}
    BY <1>5 DEF AnthropicMessageFromWire, AnthropicMessageReads
  <2>2. t.role = m.role /\ t.content = m.content
    BY <2>1, FieldsOfTurns
  <2> QED
    BY <1>2, <1>3, <2>1, <2>2
<1> QED
  BY <1>4, <1>5

LEMMA AnthropicNoInstruction ==
    ASSUME NEW m, AnthropicMessageReads(m)
    PROVE  ~ IsInstruction(AnthropicMessageFromWire(m))
<1> DEFINE t == AnthropicMessageFromWire(m)
<1>1. t.role \in {m.role, "tool"}
  BY DEF AnthropicMessageFromWire, Turn
<1> QED
  BY <1>1 DEF IsInstruction, AnthropicMessageReads

\* Instructions as a list of texts, read again.
LEMMA SameTexts ==
    ASSUME NEW front, AreTurns(front), NEW texts,
           front = <<>> \/ (front = <<Turn("system", texts, <<>>)>> /\ AreBlocks(texts) /\ texts # <<>>),
           NEW system, system = Contents(front)
    PROVE  IsList(system)
           /\ (IF system = <<>> THEN <<>> ELSE <<Turn("system", system, <<>>)>>) = front
<1>1. CASE front = <<>>
  <2>1. [i \in DOMAIN <<>> |-> (<<>>[i]).content] = <<>>
    OBVIOUS
  <2>2. system = <<>>
    BY <1>1, <2>1, FlattenEmpty DEF Contents
  <2> QED
    BY <1>1, <2>2, SmallLists
<1>2. CASE front # <<>>
  <2> DEFINE u == Turn("system", texts, <<>>)
  <2>1. front = <<u>> /\ u.content = texts /\ IsList(texts) /\ texts # <<>>
    BY <1>2, FieldsOfTurns DEF AreBlocks
  <2> HIDE DEF u
  <2>2. [i \in DOMAIN <<u>> |-> (<<u>>[i]).content] = <<u.content>>
    OBVIOUS
  <2>3. system = texts
    BY <2>1, <2>2, FlattenOne DEF Contents
  <2> QED
    BY <2>1, <2>3 DEF u
<1> QED
  BY <1>1, <1>2

LEMMA AnthropicSameTurns ==
    ASSUME NEW p, NEW q, NEW w, IsAnthropicWire(w), ReadsAnthropic(p, w), NEW r, r = AnthropicFromWire(p, w),
           IsRequest(r), WritesAnthropic(q, r)
    PROVE  AnthropicFromWire(q, AnthropicToWire(r)).turns = r.turns
<1> DEFINE messages == w.messages
           texts == w.system[1]
           front == IF w.system = <<>> THEN <<>> ELSE <<Turn("system", texts, <<>>)>>
           rest == [i \in DOMAIN messages |-> AnthropicMessageFromWire(messages[i])]
           f == [m \in ToSet(messages) |-> AnthropicMessageFromWire(m)]
           k == [t \in ToSet(rest) |-> <<AnthropicMessageFromWire(AnthropicMessageToWire(t))>>]
           system == Contents(front)
<1>1. /\ IsList(messages) /\ \A m \in ToSet(messages) : AreBlocks(m.content)
      /\ \A i \in DOMAIN messages : AnthropicMessageReads(messages[i])
  BY DEF IsAnthropicWire, ReadsAnthropic
<1>2. \A m \in ToSet(messages) : AnthropicMessageReads(m)
  BY <1>1, ListFacts
<1>3. /\ Optional(w.system)
      /\ w.system # <<>> => AreBlocks(texts) /\ texts # <<>> /\ \A b \in ToSet(texts) : IsText(b)
  BY DEF IsAnthropicWire, ReadsAnthropic
<1>4. r.turns = front \o rest
  BY DEF AnthropicFromWire, CanonicalRequest
<1>5. /\ AreTurns(front) /\ \A t \in ToSet(front) : IsInstruction(t)
      /\ \/ front = <<>>
         \/ front = <<Turn("system", texts, <<>>)>> /\ w.system # <<>>
  <2> DEFINE field == w.system
  <2>1. front = IF field = <<>> THEN <<>> ELSE <<Turn("system", texts, <<>>)>>
    OBVIOUS
  <2> HIDE DEF texts, front, field
  <2>2. Optional(field)
        /\ (field # <<>> => AreBlocks(texts) /\ texts # <<>> /\ \A b \in ToSet(texts) : IsText(b))
    BY <1>3 DEF field
  <2>3. /\ AreTurns(front) /\ \A t \in ToSet(front) : IsInstruction(t)
        /\ \/ front = <<>>
           \/ front = <<Turn("system", texts, <<>>)>> /\ field # <<>>
    BY <2>1, <2>2, FrontOfWire
  <2> QED
    BY <2>3 DEF field
<1>6. \A m \in ToSet(messages) : f[m] = AnthropicMessageFromWire(m)
  OBVIOUS
<1>7. rest = [i \in DOMAIN messages |-> f[messages[i]]]
  BY <1>1, ListFacts
<1>8. \A t \in ToSet(rest) : k[t] = <<AnthropicMessageFromWire(AnthropicMessageToWire(t))>>
  OBVIOUS
<1> HIDE DEF messages, texts, front, rest, f, k
<1>9. \A m \in ToSet(messages) : IsTurn(f[m]) /\ ~ IsInstruction(f[m])
  BY <1>1, <1>2, <1>6, AnthropicTurn, AnthropicNoInstruction
<1>10. /\ AreTurns(rest) /\ \A t \in ToSet(rest) : ~ IsInstruction(t)
       /\ \A t \in ToSet(rest) : \E m \in ToSet(messages) : t = f[m]
  BY <1>1, <1>7, <1>9, RestOfWire
<1>11. InstructionsOf(r.turns) = front /\ OthersOf(r.turns) = rest
  BY <1>4, <1>5, <1>10, FrontAndRest
<1>12. \A t \in ToSet(rest) : AnthropicTurnWrites(t)
  <2>1. \A i \in DOMAIN r.turns : ~ IsInstruction(r.turns[i]) => AnthropicTurnWrites(r.turns[i])
    BY DEF WritesAnthropic
  <2>2. IsList(r.turns) /\ ToSet(rest) \subseteq ToSet(r.turns)
    BY <1>11, TurnsApart DEF IsRequest, AreTurns
  <2> QED
    BY <1>10, <2>1, <2>2, ListFacts, ZenonT(60)
<1>13. ASSUME NEW t \in ToSet(rest) PROVE k[t] = <<t>>
  <2>1. PICK m \in ToSet(messages) : t = AnthropicMessageFromWire(m)
    BY <1>6, <1>10
  <2>2. AnthropicMessageFromWire(AnthropicMessageToWire(t)) = t
    BY <1>1, <1>2, <1>12, <2>1, AnthropicOwnTurn
  <2> QED
    BY <1>8, <2>2
<1>14. Bind(rest, k) = rest
  BY <1>10, <1>13, BindItself DEF AreTurns
<1>15. IsList(system) /\ (IF system = <<>> THEN <<>> ELSE <<Turn("system", system, <<>>)>>) = front
  BY <1>3, <1>5, SameTexts
<1>16. AnthropicFromWire(q, AnthropicToWire(r)).turns
       = (IF system = <<>> THEN <<>> ELSE <<Turn("system", system, <<>>)>>) \o Bind(rest, k)
  <2>1. \A t \in ToSet(OthersOf(r.turns)) : k[t] = <<AnthropicMessageFromWire(AnthropicMessageToWire(t))>>
    BY <1>8, <1>11
  <2>2. front = InstructionsOf(r.turns) /\ system = Contents(front)
    BY <1>11
  <2> HIDE DEF system
  <2>3. AnthropicFromWire(q, AnthropicToWire(r)).turns
        = (IF system = <<>> THEN <<>> ELSE <<Turn("system", system, <<>>)>>) \o Bind(OthersOf(r.turns), k)
    BY <1>15, <2>1, <2>2, AnthropicTurnsRead, SMTT(60)
  <2> QED
    BY <1>11, <2>3
<1> QED
  BY <1>4, <1>14, <1>15, <1>16

\* Contents of Gemini.
LEMMA GeminiSameTurns ==
    ASSUME NEW p, NEW q, NEW w, IsGeminiWire(w), ReadsGemini(p, w), NEW r, r = GeminiFromWire(p, w),
           IsRequest(r), WritesGemini(q, r)
    PROVE  GeminiFromWire(q, GeminiToWire(r)).turns = r.turns
<1> DEFINE contents == w.contents
           texts == w.systemInstruction[1]
           front == IF w.systemInstruction = <<>> THEN <<>> ELSE <<Turn("system", texts, <<>>)>>
           rest == [i \in DOMAIN contents |-> ContentFromWire(contents[i])]
           f == [c \in ToSet(contents) |-> ContentFromWire(c)]
           k == [t \in ToSet(rest) |-> <<ContentFromWire(ContentToWire(t))>>]
           system == Contents(front)
<1>1. /\ IsList(contents) /\ \A c \in ToSet(contents) : AreBlocks(c.parts)
      /\ \A i \in DOMAIN contents : ContentReads(contents[i])
  BY DEF IsGeminiWire, ReadsGemini
<1>2. \A c \in ToSet(contents) : ContentReads(c)
  BY <1>1, ListFacts
<1>3. /\ Optional(w.systemInstruction)
      /\ w.systemInstruction # <<>> =>
            AreBlocks(texts) /\ texts # <<>> /\ \A b \in ToSet(texts) : IsText(b)
  BY DEF IsGeminiWire, ReadsGemini
<1>4. r.turns = front \o rest
  BY DEF GeminiFromWire, CanonicalRequest
<1>5. /\ AreTurns(front) /\ \A t \in ToSet(front) : IsInstruction(t)
      /\ \/ front = <<>>
         \/ front = <<Turn("system", texts, <<>>)>> /\ w.systemInstruction # <<>>
  <2> DEFINE field == w.systemInstruction
  <2>1. front = IF field = <<>> THEN <<>> ELSE <<Turn("system", texts, <<>>)>>
    OBVIOUS
  <2> HIDE DEF texts, front, field
  <2>2. Optional(field)
        /\ (field # <<>> => AreBlocks(texts) /\ texts # <<>> /\ \A b \in ToSet(texts) : IsText(b))
    BY <1>3 DEF field
  <2>3. /\ AreTurns(front) /\ \A t \in ToSet(front) : IsInstruction(t)
        /\ \/ front = <<>>
           \/ front = <<Turn("system", texts, <<>>)>> /\ field # <<>>
    BY <2>1, <2>2, FrontOfWire
  <2> QED
    BY <2>3 DEF field
<1>6. \A c \in ToSet(contents) : f[c] = ContentFromWire(c)
  OBVIOUS
<1>7. rest = [i \in DOMAIN contents |-> f[contents[i]]]
  BY <1>1, ListFacts
<1>8. \A t \in ToSet(rest) : k[t] = <<ContentFromWire(ContentToWire(t))>>
  OBVIOUS
<1> HIDE DEF contents, texts, front, rest, f, k
<1>9. ASSUME NEW c \in ToSet(contents)
      PROVE  /\ IsTurn(f[c]) /\ ~ IsInstruction(f[c])
             /\ f[c] = Turn(f[c].role, f[c].content, <<>>)
  <2>1. IsTurn(ContentFromWire(c))
    BY <1>1, <1>2, GeminiTurn
  <2>2. \E role \in {"tool", "assistant", "user"} : ContentFromWire(c) = Turn(role, c.parts, <<>>)
    BY DEF ContentFromWire
  <2>3. PICK role \in {"tool", "assistant", "user"} : f[c] = Turn(role, c.parts, <<>>)
    BY <1>6, <2>2
  <2>4. f[c].role = role /\ f[c].content = c.parts
    BY <2>3, FieldsOfTurns
  <2> QED
    BY <1>6, <2>1, <2>3, <2>4 DEF IsInstruction
<1>10. /\ AreTurns(rest) /\ \A t \in ToSet(rest) : ~ IsInstruction(t)
       /\ \A t \in ToSet(rest) : \E c \in ToSet(contents) : t = f[c]
  <2>1. \A c \in ToSet(contents) : IsTurn(f[c]) /\ ~ IsInstruction(f[c])
    BY <1>9
  <2> QED
    BY <1>1, <1>7, <2>1, RestOfWire
<1>11. InstructionsOf(r.turns) = front /\ OthersOf(r.turns) = rest
  BY <1>4, <1>5, <1>10, FrontAndRest
<1>12. \A t \in ToSet(rest) : GeminiTurnWrites(t)
  <2>1. \A i \in DOMAIN r.turns : ~ IsInstruction(r.turns[i]) => GeminiTurnWrites(r.turns[i])
    BY DEF WritesGemini
  <2>2. IsList(r.turns) /\ ToSet(rest) \subseteq ToSet(r.turns)
    BY <1>11, TurnsApart DEF IsRequest, AreTurns
  <2> QED
    BY <1>10, <2>1, <2>2, ListFacts
<1>13. ASSUME NEW t \in ToSet(rest) PROVE k[t] = <<t>>
  <2>1. IsTurn(t) /\ t = Turn(t.role, t.content, <<>>)
    BY <1>9, <1>10
  <2>2. ContentFromWire(ContentToWire(t)) = Turn(t.role, t.content, <<>>)
    BY <1>12, <2>1, GeminiReadsTurn
  <2> QED
    BY <1>8, <2>1, <2>2
<1>14. Bind(rest, k) = rest
  BY <1>10, <1>13, BindItself DEF AreTurns
<1>15. IsList(system) /\ (IF system = <<>> THEN <<>> ELSE <<Turn("system", system, <<>>)>>) = front
  BY <1>3, <1>5, SameTexts
<1>16. GeminiFromWire(q, GeminiToWire(r)).turns
       = (IF system = <<>> THEN <<>> ELSE <<Turn("system", system, <<>>)>>) \o Bind(rest, k)
  <2>1. \A t \in ToSet(OthersOf(r.turns)) : k[t] = <<ContentFromWire(ContentToWire(t))>>
    BY <1>8, <1>11
  <2>2. front = InstructionsOf(r.turns) /\ system = Contents(front)
    BY <1>11
  <2> HIDE DEF system
  <2>3. GeminiFromWire(q, GeminiToWire(r)).turns
        = (IF system = <<>> THEN <<>> ELSE <<Turn("system", system, <<>>)>>) \o Bind(OthersOf(r.turns), k)
    BY <1>15, <2>1, <2>2, GeminiTurnsRead, SMTT(60)
  <2> QED
    BY <1>11, <2>3
<1> QED
  BY <1>4, <1>14, <1>15, <1>16

\* Steps of Interactions.
\* One step, read again.
LEMMA OneInput ==
    ASSUME NEW t, NEW step, TurnToInputs(t) = <<step>>, StepFromWire(step) = t
    PROVE  InputsRead(t) = <<t>>
<1>1. [i \in DOMAIN <<step>> |-> StepFromWire(<<step>>[i])] = <<StepFromWire(step)>>
  OBVIOUS
<1> QED
  BY <1>1 DEF InputsRead

LEMMA InteractionsOwnTurn ==
    ASSUME NEW step, IsStep(step), StepReads(step), NEW t, t = StepFromWire(step)
    PROVE  InputsRead(t) = <<t>> /\ ~ IsInstruction(t)
<1>0. IsTurn(t)
  BY StepTurn
<1>1. CASE step.type \in {"user_input", "model_output"}
  <2> DEFINE role == IF step.type = "user_input" THEN "user" ELSE "assistant"
             texts == step.content
             s == TextStep(step.type, texts)
  <2>1. t = Turn(role, texts, <<>>) /\ role \in {"user", "assistant"}
        /\ step.type = IF role = "user" THEN "user_input" ELSE "model_output"
    BY <1>1 DEF StepFromWire
  <2>2. IsList(texts) /\ texts # <<>> /\ \A i \in DOMAIN texts : IsText(texts[i])
    BY <1>1 DEF IsStep, StepReads, AreBlocks
  <2>3. \A b \in ToSet(texts) : IsText(b)
    BY <2>2, ListFacts
  <2>4. s.type = step.type /\ s.content = texts
    BY DEF TextStep
  <2>5. s = TextStep(step.type, texts)
    OBVIOUS
  <2> HIDE DEF role, texts, s
  <2>6. t.role = role /\ t.content = texts
    BY <2>1, FieldsOfTurns
  <2>7. TextsOf(t) = texts /\ CallsOf(t) = <<>>
    BY <1>0, <2>3, <2>6, TextsTurn
  <2>8. TurnToInputs(t) = <<s>> \o <<>>
    <3>1. [i \in DOMAIN <<>> |-> CallStep(<<>>[i])] = <<>>
      OBVIOUS
    <3> DEFINE calls == CallsOf(t)
    <3>2. TurnToInputs(t)
          = (IF TextsOf(t) = <<>> THEN <<>>
             ELSE <<TextStep(IF t.role = "user" THEN "user_input" ELSE "model_output", TextsOf(t))>>)
            \o [i \in DOMAIN calls |-> CallStep(calls[i])]
      BY <2>1, <2>6 DEF TurnToInputs
    <3>3. [i \in DOMAIN calls |-> CallStep(calls[i])] = <<>>
      BY <2>7, <3>1
    <3> HIDE DEF calls
    <3> QED
      BY <2>1, <2>2, <2>5, <2>6, <2>7, <3>2, <3>3
  <2>9. TurnToInputs(t) = <<s>>
    BY <2>8
  <2>10. StepFromWire(s) = t
    BY <2>1, <2>4 DEF StepFromWire
  <2> QED
    BY <2>1, <2>6, <2>9, <2>10, OneInput DEF IsInstruction
<1>2. CASE step.type = "function_call"
  <2> DEFINE c == step.call
             s == CallStep(c)
  <2>1. t = Turn("assistant", <<c>>, <<>>)
    BY <1>2 DEF StepFromWire
  <2>2. c = Call(c.id, c.name, c.args)
    BY <1>2 DEF IsStep
  <2>3. s.type = "function_call" /\ s.call = c
    BY DEF CallStep
  <2>4. s = CallStep(c)
    OBVIOUS
  <2> HIDE DEF c, s
  <2>5. t.role = "assistant" /\ t.content = <<c>>
    BY <2>1, FieldsOfTurns
  <2>6. IsCall(c)
    BY <2>2 DEF Call, IsCall
  <2>7. CallsOf(t) = <<c>> /\ TextsOf(t) = <<>>
    <3>1. IsList(<<c>>) /\ IsList(<<>>) /\ ToSet(<<c>>) = {c} /\ ToSet(<<>>) = {}
      BY SmallLists
    <3>2. t.content = <<>> \o <<c>>
      BY <2>5
    <3> QED
      BY <2>6, <3>1, <3>2, TextsThenCalls
  <2>8. TurnToInputs(t) = <<s>>
    <3> DEFINE calls == CallsOf(t)
    <3>1. [i \in DOMAIN <<c>> |-> CallStep(<<c>>[i])] = <<CallStep(c)>>
      OBVIOUS
    <3>2. [i \in DOMAIN calls |-> CallStep(calls[i])] = <<s>>
      BY <2>4, <2>7, <3>1
    <3>3. TurnToInputs(t) = <<>> \o [i \in DOMAIN calls |-> CallStep(calls[i])]
      BY <2>5, <2>7 DEF TurnToInputs
    <3> HIDE DEF calls
    <3> QED
      BY <3>2, <3>3
  <2>9. StepFromWire(s) = t
    BY <2>1, <2>3 DEF StepFromWire
  <2> QED
    BY <2>5, <2>8, <2>9, OneInput DEF IsInstruction
<1>3. CASE step.type \notin {"user_input", "model_output", "function_call"}
  <2> DEFINE b == Result(step.id, step.name, json_or_text(step.text), FALSE)
             s == ResultStep(b.id, b.name, compact_json(b.value))
  <2>1. t = Turn("tool", <<b>>, <<>>)
    BY <1>3 DEF StepFromWire
  <2>2. b = Result(b.id, b.name, b.value, FALSE)
    BY DEF Result
  <2> HIDE DEF b
  <2>3. s.type = "function_result" /\ s.id = b.id /\ s.name = b.name /\ s.text = compact_json(b.value)
    BY DEF ResultStep
  <2>4. t.role = "tool" /\ t.content = <<b>>
    BY <2>1, FieldsOfTurns
  <2>5. t.content[1] = b
    BY <2>4
  <2>6. TurnToInputs(t) = <<s>>
    BY <2>4, <2>5 DEF TurnToInputs
  <2> HIDE DEF s
  <2>7. StepFromWire(s) = Turn("tool", <<Result(b.id, b.name, json_or_text(compact_json(b.value)), FALSE)>>, <<>>)
    BY <2>3 DEF StepFromWire
  <2>8. StepFromWire(s) = t
    BY <2>1, <2>2, <2>7, JsonComesBack
  <2> QED
    BY <2>4, <2>6, <2>8, OneInput DEF IsInstruction
<1> QED
  BY <1>1, <1>2, <1>3

\* An instruction of one text, joined.
LEMMA SameText ==
    ASSUME NEW text, IsList(text), NEW u, u = Turn("system", <<Text(text)>>, <<>>)
    PROVE  Joined(u) = text
<1> DEFINE b == Text(text)
<1>1. b.text = text
  BY DEF Text
<1>2. u.content = <<b>>
  BY FieldsOfTurns
<1> HIDE DEF b
<1>3. [i \in DOMAIN <<b>> |-> IF i = 1 THEN <<b>>[i].text ELSE <<"newline">> \o <<b>>[i].text] = <<b.text>>
  OBVIOUS
<1>4. Joined(u) = FlattenSeq(<<text>>)
  BY <1>1, <1>2, <1>3 DEF Joined
<1> QED
  BY <1>4, FlattenOne

LEMMA InteractionsSameTurns ==
    ASSUME NEW p, NEW q, NEW w, IsInteractionsWire(w), ReadsInteractions(p, w), NEW r,
           r = InteractionsFromWire(p, w), IsRequest(r), WritesInteractions(q, r)
    PROVE  InteractionsFromWire(q, InteractionsToWire(r)).turns = r.turns
<1> DEFINE steps == w.input
           text == w.system_instruction[1]
           texts == <<Text(text)>>
           front == IF w.system_instruction = <<>> THEN <<>> ELSE <<Turn("system", texts, <<>>)>>
           rest == [i \in DOMAIN steps |-> StepFromWire(steps[i])]
           f == [x \in ToSet(steps) |-> StepFromWire(x)]
           k == [t \in ToSet(rest) |-> InputsRead(t)]
           first == IF front = <<>> THEN <<>> ELSE <<Turn("system", <<Text(Joined(front[1]))>>, <<>>)>>
<1>1. /\ IsList(steps) /\ \A x \in ToSet(steps) : IsStep(x)
      /\ \A i \in DOMAIN steps : StepReads(steps[i])
  BY DEF IsInteractionsWire, ReadsInteractions
<1>2. \A x \in ToSet(steps) : StepReads(x)
  BY <1>1, ListFacts
<1>3. /\ Optional(w.system_instruction)
      /\ w.system_instruction # <<>> => IsList(text)
  BY DEF IsInteractionsWire
<1>4. r.turns = front \o rest
  BY DEF InteractionsFromWire, CanonicalRequest
<1>5. /\ AreTurns(front) /\ \A t \in ToSet(front) : IsInstruction(t)
      /\ \/ front = <<>>
         \/ front = <<Turn("system", texts, <<>>)>> /\ w.system_instruction # <<>>
  <2> DEFINE field == w.system_instruction
  <2>1. front = IF field = <<>> THEN <<>> ELSE <<Turn("system", texts, <<>>)>>
    OBVIOUS
  <2>2. field # <<>> => AreBlocks(texts) /\ texts # <<>> /\ \A b \in ToSet(texts) : IsText(b)
    BY <1>3, OneText
  <2> HIDE DEF texts, front, field
  <2>3. Optional(field)
    BY <1>3 DEF field
  <2>4. /\ AreTurns(front) /\ \A t \in ToSet(front) : IsInstruction(t)
        /\ \/ front = <<>>
           \/ front = <<Turn("system", texts, <<>>)>> /\ field # <<>>
    BY <2>1, <2>2, <2>3, FrontOfWire
  <2> QED
    BY <2>4 DEF field
<1>6. \A x \in ToSet(steps) : f[x] = StepFromWire(x)
  OBVIOUS
<1>7. rest = [i \in DOMAIN steps |-> f[steps[i]]]
  BY <1>1, ListFacts
<1>8. \A t \in ToSet(rest) : k[t] = InputsRead(t)
  OBVIOUS
<1> HIDE DEF steps, front, rest, f, k
<1>9. ASSUME NEW x \in ToSet(steps)
      PROVE  IsTurn(f[x]) /\ ~ IsInstruction(f[x]) /\ InputsRead(f[x]) = <<f[x]>>
  BY <1>1, <1>2, <1>6, StepTurn, InteractionsOwnTurn
<1>10. /\ AreTurns(rest) /\ \A t \in ToSet(rest) : ~ IsInstruction(t)
       /\ \A t \in ToSet(rest) : \E x \in ToSet(steps) : t = f[x]
  <2>1. \A x \in ToSet(steps) : IsTurn(f[x]) /\ ~ IsInstruction(f[x])
    BY <1>9
  <2> QED
    BY <1>1, <1>7, <2>1, RestOfWire
<1>11. InstructionsOf(r.turns) = front /\ OthersOf(r.turns) = rest
  BY <1>4, <1>5, <1>10, FrontAndRest
<1>12. \A t \in ToSet(rest) : InteractionsTurnWrites(t)
  BY <1>11, InteractionsInstructions
<1>13. \A t \in ToSet(rest) : k[t] = <<t>>
  BY <1>8, <1>9, <1>10
<1>14. Bind(rest, k) = rest
  BY <1>10, <1>13, BindItself DEF AreTurns
<1>15. first = front
  <2>1. CASE front = <<>>
    BY <2>1
  <2>2. CASE front # <<>>
    <3> DEFINE u == Turn("system", texts, <<>>)
    <3>1. front = <<u>> /\ IsList(text)
      BY <1>3, <1>5, <2>2
    <3>2. Joined(u) = text
      <4> HIDE DEF text
      <4> QED
        BY <3>1, SameText
    <3> HIDE DEF u, text
    <3>3. front[1] = u
      BY <3>1
    <3>4. first = <<Turn("system", <<Text(text)>>, <<>>)>>
      BY <2>2, <3>2, <3>3
    <3> QED
      BY <3>1, <3>4 DEF u
  <2> QED
    BY <2>1, <2>2
<1>16. InteractionsFromWire(q, InteractionsToWire(r)).turns = first \o Bind(rest, k)
  <2>1. \A t \in ToSet(OthersOf(r.turns)) : InteractionsTurnWrites(t)
    BY <1>11, <1>12
  <2>2. \A t \in ToSet(OthersOf(r.turns)) : k[t] = InputsRead(t)
    BY <1>8, <1>11
  <2>3. front = InstructionsOf(r.turns)
    BY <1>11
  <2>4. IsRequest(r) /\ WritesInteractions(q, r)
    OBVIOUS
  <2> HIDE DEF texts, text
  <2>5. InteractionsFromWire(q, InteractionsToWire(r)).turns = first \o Bind(OthersOf(r.turns), k)
    BY ONLY <2>1, <2>2, <2>3, <2>4, InteractionsTurnsRead, SMTT(60)
  <2> QED
    BY <1>11, <2>5
<1> QED
  BY <1>4, <1>14, <1>15, <1>16

-----------------------------------------------------------------------------
(* What the provider understands of the request. *)

LEMMA AdapterArrives ==
    ASSUME NEW dialect \in Adapters, NEW p, NEW r, IsRequest(r), Writes(dialect, p, r)
    PROVE  TurnsArrive(dialect, r.turns, FromWire(dialect, p, ToWire(dialect, r)).turns)
<1>1. CASE dialect = ChatName
  BY <1>1, EachAdapter, ChatArrives
<1>2. CASE dialect = ResponsesName
  BY <1>2, EachAdapter, ResponsesArrives
<1>3. CASE dialect = AnthropicName
  BY <1>3, EachAdapter, AnthropicArrives
<1>4. CASE dialect = GeminiName
  BY <1>4, EachAdapter, GeminiArrives
<1>5. CASE dialect = InteractionsName
  BY <1>5, EachAdapter, InteractionsArrives
<1> QED
  BY <1>1, <1>2, <1>3, <1>4, <1>5, EachAdapter

\* The understood request is what the egress adapter makes of what it wrote.
LEMMA ReadArrives ==
    ASSUME AdaptersInv, stage = "understood"
    PROVE  TurnsArrive(egress, request.turns, read.turns)
<1>1. /\ HasRead(ingress, policies[1], request)
      /\ Writes(egress, policies[2], request) /\ wire = ToWire(egress, request)
      /\ read = FromWire(egress, policies[2], wire)
      /\ ingress \in Adapters /\ egress \in Adapters
  BY AdaptersAssumption DEF AdaptersInv
<1>2. IsRequest(request)
  BY <1>1, HasReadParses DEF IsParsed
<1> QED
  BY <1>1, <1>2, AdapterArrives

\* Words arrive as those of who said them, and in their place.
THEOREM WordsArrive == AdaptersSpec => []WordsArriveAsSpoken
<1>1. AdaptersInv => WordsArriveAsSpoken
  <2> SUFFICES ASSUME AdaptersInv, Understood PROVE WordsArriveAsSpoken
    BY DEF WordsArriveAsSpoken, WordsKeepTheirSpeaker, WordsKeepTheirPlace
  <2>1. TurnsArrive(egress, request.turns, read.turns)
    BY ReadArrives DEF Understood
  <2>2. SpokenPieces(request) = SpokenIn(request.turns) /\ SpokenPieces(read) = SpokenIn(read.turns)
    BY DEF SpokenPieces, SpokenIn
  <2>3. WordsKeepTheirSpeaker
    BY <2>1, <2>2 DEF TurnsArrive, WordsKeepTheirSpeaker
  <2>4. WordsKeepTheirPlace
    BY <2>1, <2>2 DEF TurnsArrive, WordsKeepTheirPlace
  <2> QED
    BY <2>3, <2>4 DEF WordsArriveAsSpoken
<1> QED
  BY <1>1, AdaptersInductive, PTL

\* What an adapter reads of its own format it also writes and reads again.
LEMMA SameTurns ==
    ASSUME NEW dialect \in Adapters, dialect # ResponsesName, NEW p, NEW q, NEW r,
           HasRead(dialect, p, r), IsRequest(r), Writes(dialect, q, r)
    PROVE  FromWire(dialect, q, ToWire(dialect, r)).turns = r.turns
<1> PICK w : IsWire(dialect, w) /\ Reads(dialect, p, w) /\ r = FromWire(dialect, p, w)
  BY DEF HasRead
<1>1. CASE dialect = ChatName
  BY <1>1, EachAdapter, ChatSameTurns
<1>2. CASE dialect = AnthropicName
  BY <1>2, EachAdapter, AnthropicSameTurns
<1>3. CASE dialect = GeminiName
  BY <1>3, EachAdapter, GeminiSameTurns
<1>4. CASE dialect = InteractionsName
  BY <1>4, EachAdapter, InteractionsSameTurns
<1> QED
  BY <1>1, <1>2, <1>3, <1>4, EachAdapter

\* Output and storage of what an adapter reads.
LEMMA OwnOutput ==
    ASSUME NEW dialect \in Adapters, dialect # ResponsesName, NEW p, NEW r, HasRead(dialect, p, r)
    PROVE  /\ dialect = ChatName \/ r.output \in {<<>>, <<Output("response", TRUE)>>}
           /\ dialect = GeminiName => ~ r.store
<1> PICK w : IsWire(dialect, w) /\ Reads(dialect, p, w) /\ r = FromWire(dialect, p, w)
  BY DEF HasRead
<1>1. CASE dialect = ChatName
  BY <1>1, AdapterNames
<1>2. CASE dialect = AnthropicName
  <2>0. r = AnthropicFromWire(p, w)
    BY <1>2, EachAdapter
  <2>1. r.output = IF w.format = <<>> THEN <<>> ELSE <<Output("response", TRUE)>>
    BY <2>0 DEF AnthropicFromWire, CanonicalRequest
  <2> QED
    BY <1>2, <2>1, AdapterNames
<1>3. CASE dialect = GeminiName
  <2>0. r = GeminiFromWire(p, w)
    BY <1>3, EachAdapter
  <2>1. /\ r.output = IF w.responseSchema THEN <<Output("response", TRUE)>> ELSE <<>>
        /\ r.store = FALSE
    BY <2>0 DEF GeminiFromWire, CanonicalRequest
  <2> QED
    BY <2>1
<1>4. CASE dialect = InteractionsName
  <2>0. r = InteractionsFromWire(p, w)
    BY <1>4, EachAdapter
  <2>1. r.output = IF w.response_format = <<>> THEN <<>> ELSE <<Output("response", TRUE)>>
    BY <2>0 DEF InteractionsFromWire, CanonicalRequest
  <2> QED
    BY <1>4, <2>1, AdapterNames
<1> QED
  BY <1>1, <1>2, <1>3, <1>4, EachAdapter

LEMMA ChatOutput ==
    ASSUME NEW q, NEW r
    PROVE  ChatFromWire(q, ChatToWire(r)).output = r.output
BY DEF ChatFromWire, ChatToWire, CanonicalRequest

\* All fields but the tools are the same.
LEMMA SameButTools ==
    ASSUME NEW r, IsRequest(r), NEW s, IsRequest(s), s.model = r.model, s.turns = r.turns,
           s.choice = r.choice, s.output = r.output, s.settings = r.settings, s.stream = r.stream,
           s.store = r.store, s.extensions = r.extensions
    PROVE  [s EXCEPT !.tools = <<>>] = [r EXCEPT !.tools = <<>>]
<1>1. ASSUME NEW x, IsRequest(x)
      PROVE  [x EXCEPT !.tools = <<>>]
             = CanonicalRequest(x.model, x.turns, <<>>, x.choice, x.output, x.settings,
                                x.stream, x.store, x.extensions)
  <2>1. x = CanonicalRequest(x.model, x.turns, x.tools, x.choice, x.output, x.settings,
                             x.stream, x.store, x.extensions)
    BY <1>1 DEF IsRequest
  <2>2. \A a, b, c, d, e, f, g, h, i :
           [CanonicalRequest(a, b, c, d, e, f, g, h, i) EXCEPT !.tools = <<>>]
           = CanonicalRequest(a, b, <<>>, d, e, f, g, h, i)
    BY DEF CanonicalRequest
  <2> QED
    BY <2>1, <2>2
<1> QED
  BY <1>1

LEMMA SameToolSets ==
    ASSUME NEW r, IsRequest(r), NEW s, IsRequest(s), FunctionsOf(s.tools) = FunctionsOf(r.tools),
           RemotesOf(s.tools) = RemotesOf(r.tools)
    PROVE  ToSet(s.tools) = ToSet(r.tools)
<1>1. ASSUME NEW x, IsRequest(x)
      PROVE  ToSet(x.tools) = ToSet(FunctionsOf(x.tools)) \cup ToSet(RemotesOf(x.tools))
  <2>1. IsList(x.tools) /\ \A t \in ToSet(x.tools) : IsCanonicalTool(t)
    BY <1>1 DEF IsRequest
  <2> QED
    BY <2>1, ToolsApart
<1> QED
  BY <1>1

LEMMA RoundTripHolds ==
    ASSUME AdaptersInv, stage = "understood"
    PROVE  RoundTrip
<1> SUFFICES ASSUME ingress = egress, egress # ResponsesName
             PROVE  /\ [read EXCEPT !.tools = <<>>] = [request EXCEPT !.tools = <<>>]
                    /\ ToSet(read.tools) = ToSet(request.tools)
  BY DEF RoundTrip
<1>1. /\ HasRead(egress, policies[1], request)
      /\ Writes(egress, policies[2], request) /\ wire = ToWire(egress, request)
      /\ read = FromWire(egress, policies[2], wire) /\ egress \in Adapters
  BY AdaptersAssumption DEF AdaptersInv
<1>2. IsRequest(request) /\ IsRequest(read) /\ CarriedOver(egress, request, read)
  BY ReadIsParsed DEF IsParsed
<1>3. read.turns = request.turns
  BY <1>1, <1>2, SameTurns
<1>4. /\ egress = ChatName \/ request.output \in {<<>>, <<Output("response", TRUE)>>}
      /\ egress = GeminiName => ~ request.store
  BY <1>1, OwnOutput
<1>5. read.output = request.output
  <2>1. CASE egress = ChatName
    BY <1>1, <2>1, EachAdapter, ChatOutput
  <2>2. CASE egress # ChatName
    BY <1>2, <1>4, <2>2 DEF CarriedOver
  <2> QED
    BY <2>1, <2>2
<1>6. read.store = request.store
  <2>1. read.store \in BOOLEAN /\ request.store \in BOOLEAN
    BY <1>2 DEF IsRequest
  <2>2. (read.store => request.store) /\ (read.store # request.store => egress = GeminiName)
    BY <1>2 DEF CarriedOver
  <2> QED
    BY <1>4, <2>1, <2>2
<1>7. /\ read.model = request.model /\ read.choice = request.choice
      /\ read.settings = request.settings /\ read.stream = request.stream
      /\ read.extensions = request.extensions
      /\ FunctionsOf(read.tools) = FunctionsOf(request.tools)
      /\ RemotesOf(read.tools) = RemotesOf(request.tools)
  BY <1>2 DEF CarriedOver
<1>8. [read EXCEPT !.tools = <<>>] = [request EXCEPT !.tools = <<>>]
  BY <1>2, <1>3, <1>5, <1>6, <1>7, SameButTools
<1>9. ToSet(read.tools) = ToSet(request.tools)
  BY <1>2, <1>7, SameToolSets
<1> QED
  BY <1>8, <1>9

\* A request that is accepted arrives readable and complete.
THEOREM RequestsWhole == AdaptersSpec => []RequestsArriveWhole
<1>1. AdaptersInv => RequestsArriveWhole
  <2> SUFFICES ASSUME AdaptersInv PROVE RequestsArriveWhole
    OBVIOUS
  <2>1. WrittenIsReadable
    BY DEF AdaptersInv, WrittenIsReadable
  <2>2. CASE ~ Understood
    BY <2>1, <2>2 DEF RequestsArriveWhole, CallsAndResultsArrive, ParametersArrive,
                      StrictnessIsNotLost, RoundTrip
  <2>3. CASE Understood
    <3>1. stage = "understood"
      BY <2>3 DEF Understood
    <3>2. CallsAndResultsArrive
      <4>1. TurnsArrive(egress, request.turns, read.turns)
        BY <3>1, ReadArrives
      <4>2. Exchanges(request) = ExchangedIn(request.turns) /\ Exchanges(read) = ExchangedIn(read.turns)
        BY DEF Exchanges, ExchangedIn
      <4> QED
        BY <4>1, <4>2 DEF CallsAndResultsArrive, TurnsArrive
    <3>3. ParametersArrive /\ StrictnessIsNotLost
      BY <3>1, ReadIsParsed, ParametersCarried DEF IsParsed
    <3>4. RoundTrip
      BY <3>1, RoundTripHolds
    <3> QED
      BY <2>1, <3>2, <3>3, <3>4 DEF RequestsArriveWhole
  <2> QED
    BY <2>2, <2>3
<1> QED
  BY <1>1, AdaptersInductive, PTL

-----------------------------------------------------------------------------
(* Streamed answers: who picks the events of one block finds its fragments. *)

\* The events of some kinds whose field has one value.
Picked(list, kinds, field, v) == Having(Having(list, "kind", kinds), field, {v})

\* No event is picked where none has the value.
LEMMA PickedNone ==
    ASSUME NEW list, NEW kinds, NEW field, NEW v, IsList(list),
           \A x \in ToSet(list) : x.kind \in kinds => x[field] # v
    PROVE  Picked(list, kinds, field, v) = <<>>
<1> DEFINE some == Having(list, "kind", kinds)
<1>1. IsList(some) /\ ToSet(some) = {x \in ToSet(list) : x["kind"] \in kinds}
  BY HavingMembers
<1>2. \A x \in ToSet(some) : x[field] \notin {v}
  BY <1>1
<1> HIDE DEF some
<1>3. Having(some, field, {v}) = <<>>
  BY <1>1, <1>2, HavingNone
<1> QED
  BY <1>3 DEF Picked, some

\* What is picked are the events of these kinds that have the value.
LEMMA PickedMembers ==
    ASSUME NEW s, NEW kinds, NEW field, NEW v, IsList(s)
    PROVE  /\ IsList(Picked(s, kinds, field, v))
           /\ ToSet(Picked(s, kinds, field, v)) = {x \in ToSet(s) : x.kind \in kinds /\ x[field] = v}
<1> DEFINE p == Having(s, "kind", kinds)
<1>1. IsList(p) /\ ToSet(p) = {x \in ToSet(s) : x["kind"] \in kinds}
  BY HavingMembers
<1> HIDE DEF p
<1>2. IsList(Having(p, field, {v})) /\ ToSet(Having(p, field, {v})) = {x \in ToSet(p) : x[field] \in {v}}
  BY <1>1, HavingMembers
<1>3. Picked(s, kinds, field, v) = Having(p, field, {v})
  BY DEF Picked, p
<1>4. {x \in ToSet(p) : x[field] \in {v}} = {x \in ToSet(s) : x.kind \in kinds /\ x[field] = v}
  BY <1>1
<1> QED
  BY <1>2, <1>3, <1>4

\* Events are picked from two lists as from one after the other.
LEMMA PickedConcat ==
    ASSUME NEW s, NEW t, NEW kinds, NEW field, NEW v, IsList(s), IsList(t)
    PROVE  Picked(s \o t, kinds, field, v) = Picked(s, kinds, field, v) \o Picked(t, kinds, field, v)
<1> DEFINE p == Having(s, "kind", kinds)
           q == Having(t, "kind", kinds)
<1>1. IsList(p) /\ IsList(q)
  BY HavingMembers
<1>2. Having(s \o t, "kind", kinds) = p \o q
  BY HavingConcat
<1> HIDE DEF p, q
<1>3. Having(p \o q, field, {v}) = Having(p, field, {v}) \o Having(q, field, {v})
  BY <1>1, HavingConcat
<1> QED
  BY <1>2, <1>3 DEF Picked, p, q

\* Where one event has the value, it is the one that is picked.
LEMMA PickedOne ==
    ASSUME NEW list, NEW kinds, NEW field, NEW v, NEW k, IsList(list), k \in DOMAIN list,
           list[k].kind \in kinds, list[k][field] = v,
           \A i \in DOMAIN list : i # k /\ list[i].kind \in kinds => list[i][field] # v
    PROVE  Picked(list, kinds, field, v) = <<list[k]>>
<1> DEFINE E == ToSet(list)
           front == SubSeq(list, 1, k - 1)
           back == SubSeq(list, k + 1, Len(list))
           one == <<list[k]>>
<1>1. list \in Seq(E) /\ Len(list) \in Nat /\ DOMAIN list = 1 .. Len(list) /\ k \in 1 .. Len(list)
  BY ListFacts
<1>2. list[k] \in E
  BY ListFacts
<1> HIDE DEF E
<1>3. front \in Seq(E) /\ back \in Seq(E) /\ one \in Seq(E)
  BY <1>1, <1>2
<1>4. /\ Len(front) = k - 1
      /\ \A i \in 1 .. (k - 1) : front[i] = list[i]
  BY <1>1
<1>5. /\ Len(back) = Len(list) - k
      /\ \A i \in 1 .. (Len(list) - k) : back[i] = list[i + k]
  BY <1>1
<1>6. Len(one) = 1 /\ one[1] = list[k]
  OBVIOUS
<1> HIDE DEF front, back, one
<1>7. list = (front \o one) \o back
  <2>1. one = SubSeq(list, k, k)
    BY <1>1 DEF one
  <2>2. /\ k - 1 \in 1 - 1 .. Len(list) /\ 1 \in 1 .. Len(list) + 1 /\ k \in k - 1 .. Len(list)
        /\ (k - 1) + 1 = k /\ k \in 1 - 1 .. Len(list) /\ Len(list) \in k .. Len(list)
    <3> DEFINE N == Len(list)
    <3>1. N \in Nat /\ k \in 1 .. N
      BY <1>1
    <3> HIDE DEF N
    <3>2. /\ k - 1 \in 1 - 1 .. N /\ 1 \in 1 .. N + 1 /\ k \in k - 1 .. N
          /\ (k - 1) + 1 = k /\ k \in 1 - 1 .. N /\ N \in k .. N
      BY <3>1
    <3> QED
      BY <3>2 DEF N
  <2>3. SubSeq(list, 1, k - 1) \o SubSeq(list, (k - 1) + 1, k) = SubSeq(list, 1, k)
    BY <1>1, <2>2, ConcatAdjacentSubSeq
  <2>4. SubSeq(list, 1, k) \o SubSeq(list, k + 1, Len(list)) = SubSeq(list, 1, Len(list))
    BY <1>1, <2>2, ConcatAdjacentSubSeq
  <2>5. SubSeq(list, 1, Len(list)) = list
    BY <1>1, SubSeqFull
  <2> QED
    BY <2>1, <2>2, <2>3, <2>4, <2>5 DEF front, back
<1>8. IsList(front) /\ IsList(back) /\ IsList(one)
  BY <1>3, AList
<1>9. IsList(front \o one)
  BY <1>8, JoinedList
<1>10. \A x \in ToSet(front) : x.kind \in kinds => x[field] # v
  <2>1. \A x \in ToSet(front) : \E i \in DOMAIN front : x = front[i]
    BY <1>8, ListFacts
  <2>2. DOMAIN front = 1 .. (k - 1)
    BY <1>3, <1>4
  <2> QED
    BY <1>1, <1>4, <2>1, <2>2
<1>11. \A x \in ToSet(back) : x.kind \in kinds => x[field] # v
  <2>1. \A x \in ToSet(back) : \E i \in DOMAIN back : x = back[i]
    BY <1>8, ListFacts
  <2>2. DOMAIN back = 1 .. (Len(list) - k)
    BY <1>3, <1>5
  <2>3. ASSUME NEW i \in DOMAIN back, back[i].kind \in kinds PROVE back[i][field] # v
    <3>1. back[i] = list[i + k] /\ i + k \in DOMAIN list /\ i + k # k
      BY <1>1, <1>5, <2>2
    <3> QED
      BY <2>3, <3>1
  <2> QED
    BY <2>1, <2>3
<1>12. Picked(one, kinds, field, v) = one
  <2>1. \A x \in ToSet(one) : x = list[k]
    BY SmallLists DEF one
  <2>2. Having(one, "kind", kinds) = one
    <3>1. \A x \in ToSet(one) : x["kind"] \in kinds
      BY <2>1
    <3> QED
      BY <1>8, <3>1, HavingAll
  <2>3. Having(one, field, {v}) = one
    <3>1. \A x \in ToSet(one) : x[field] \in {v}
      BY <2>1
    <3> QED
      BY <1>8, <3>1, HavingAll
  <2> QED
    BY <2>2, <2>3 DEF Picked
<1>13. Picked(front, kinds, field, v) = <<>>
  BY <1>8, <1>10, PickedNone
<1>14. Picked(back, kinds, field, v) = <<>>
  BY <1>8, <1>11, PickedNone
<1>15. Picked(front \o one, kinds, field, v) = <<>> \o one
  <2>1. Picked(front \o one, kinds, field, v)
        = Picked(front, kinds, field, v) \o Picked(one, kinds, field, v)
    BY <1>8, PickedConcat
  <2> QED
    BY <1>12, <1>13, <2>1
<1>16. Picked(list, kinds, field, v) = (<<>> \o one) \o <<>>
  <2>1. Picked((front \o one) \o back, kinds, field, v)
        = Picked(front \o one, kinds, field, v) \o Picked(back, kinds, field, v)
    BY <1>8, <1>9, PickedConcat
  <2> QED
    BY <1>7, <1>14, <1>15, <2>1
<1>17. (<<>> \o one) \o <<>> = one
  BY <1>3
<1> QED
  BY <1>16, <1>17 DEF one

\* The texts of two lists are those of one after the other.
LEMMA TextsConcat ==
    ASSUME NEW s, NEW t, IsList(s), IsList(t)
    PROVE  Texts(s \o t) = Texts(s) \o Texts(t)
<1> DEFINE E == ToSet(s) \cup ToSet(t)
           V == {x.text : x \in E}
           a == Texts(s)
           b == Texts(t)
           N == Len(s)
           M == Len(t)
<1>1. s \in Seq(E) /\ t \in Seq(E) /\ N \in Nat /\ M \in Nat
  <2>1. s \in Seq(ToSet(s)) /\ t \in Seq(ToSet(t))
    BY ListFacts
  <2>2. Seq(ToSet(s)) \subseteq Seq(E) /\ Seq(ToSet(t)) \subseteq Seq(E)
    BY SeqMonotonic
  <2> QED
    BY <2>1, <2>2
<1>2. DOMAIN s = 1 .. N /\ DOMAIN t = 1 .. M
  BY <1>1
<1>3. (\A i \in 1 .. N : s[i].text \in V) /\ (\A i \in 1 .. M : t[i].text \in V)
  BY <1>1, <1>2
<1> HIDE DEF V
<1>4. a \in Seq(V) /\ Len(a) = N /\ \A i \in 1 .. N : a[i] = s[i].text
  BY <1>1, <1>2, <1>3 DEF Texts
<1>5. b \in Seq(V) /\ Len(b) = M /\ \A i \in 1 .. M : b[i] = t[i].text
  BY <1>1, <1>2, <1>3 DEF Texts
<1> HIDE DEF a, b, N, M, E
<1>6. /\ s \o t \in Seq(E) /\ Len(s \o t) = N + M
      /\ \A i \in 1 .. N + M : (s \o t)[i] = IF i <= N THEN s[i] ELSE t[i - N]
  BY <1>1, ConcatProperties DEF N, M
<1>7. /\ a \o b \in Seq(V) /\ Len(a \o b) = N + M
      /\ \A i \in 1 .. N + M : (a \o b)[i] = IF i <= N THEN a[i] ELSE b[i - N]
  BY <1>4, <1>5, ConcatProperties
<1>8. ASSUME NEW i \in 1 .. N + M PROVE (s \o t)[i].text = (a \o b)[i]
  <2>1. CASE i <= N
    <3>1. i \in 1 .. N
      BY <1>1, <2>1
    <3> QED
      BY <1>4, <1>6, <1>7, <2>1, <3>1
  <2>2. CASE ~ (i <= N)
    <3>1. i - N \in 1 .. M
      BY <1>1, <2>2
    <3> QED
      BY <1>5, <1>6, <1>7, <2>2, <3>1
  <2> QED
    BY <2>1, <2>2
<1>9. Texts(s \o t) = [i \in 1 .. N + M |-> (s \o t)[i].text]
  <2>1. DOMAIN (s \o t) = 1 .. N + M
    BY <1>6
  <2> QED
    BY <2>1 DEF Texts
<1>10. a \o b = [i \in 1 .. N + M |-> (a \o b)[i]]
  <2> DEFINE c == a \o b
             K == N + M
  <2>1. c \in Seq(V) /\ Len(c) = K
    BY <1>7
  <2> HIDE DEF c, K
  <2>2. c = [i \in 1 .. K |-> c[i]]
    BY <2>1
  <2> QED
    BY <2>2 DEF c, K
<1>11. [i \in 1 .. N + M |-> (s \o t)[i].text] = [i \in 1 .. N + M |-> (a \o b)[i]]
  BY <1>8
<1> QED
  BY <1>9, <1>10, <1>11 DEF a, b

\* The text of one event, and of none.
LEMMA TextsOfFew == Texts(<<>>) = <<>> /\ \A d : Texts(<<d>>) = <<d.text>>
BY DEF Texts

-----------------------------------------------------------------------------
(* What the events tell of the blocks. *)

\* The blocks that the provider's protocol can send.
Sendable(b) ==
    IF adapter = "chat" THEN b.kind # "call" => b.index = 0
    ELSE b.choice = 0 /\ b.kind # "refusal"

\* Where the adapter says a fragment belongs, what kind of fragment it is, and
\* whose arguments.
PathOf(b) ==
    CASE adapter = "chat" ->
            (IF b.kind = "call" THEN <<"choices", b.choice, "tool_calls", b.index>>
             ELSE <<"choices", b.choice, IF b.kind = "text" THEN "content" ELSE "refusal">>)
      [] adapter = "responses" ->
            (IF b.kind = "text" THEN <<"output", 0, "content", b.index>>
             ELSE <<"output", b.index + 1, "arguments">>)
      [] adapter = "anthropic" ->
            <<"content", Number(b), IF b.kind = "text" THEN "text" ELSE "input">>
      [] OTHER -> <<"steps", Number(b), IF b.kind = "text" THEN "text" ELSE "arguments">>
KindOf(b) ==
    IF b.kind = "call" THEN "arguments"
    ELSE IF b.kind = "text" /\ structured THEN "structured" ELSE "text"
IdOf(b) ==
    CASE adapter = "anthropic" -> <<"content-block", Number(b)>>
      [] adapter = "interactions" -> <<"step", Number(b)>>
      [] OTHER -> <<"id", b>>

\* The event of the n-th fragment of a block.
Tells(b, n, e) ==
    /\ e.kind = KindOf(b) /\ e.text = <<b, n>>
    /\ adapter # "gemini" => e.path = PathOf(b)
    /\ adapter # "chat" /\ b.kind = "call" => e.call = IdOf(b)

DeltaKinds == {"text", "structured", "arguments"}

IsEvent(e) ==
    \/ \E b \in Blocks, n \in Nat : Sendable(b) /\ Tells(b, n, e)
    \/ e.kind = "finish" /\ IF adapter = "chat" THEN e.path[2] \in ended ELSE 0 \in ended
    \/ e.kind = "error"

StreamTyped ==
    /\ adapter \in Protocols /\ structured \in BOOLEAN
    /\ sent \in [Blocks -> Nat] /\ DOMAIN why = ChoiceIndexes
    /\ why = [c \in ChoiceIndexes |-> why[c]]
    /\ adapter # "chat" => ended \subseteq {0}
    /\ phase = "stopped" => adapter = "anthropic" /\ 0 \in ended
    /\ \A b \in Blocks : sent[b] > 0 => Sendable(b)

PathsWhole ==
    adapter # "gemini" =>
        \A b \in Blocks : Sendable(b) =>
            Texts(Picked(events, DeltaKinds, "path", PathOf(b))) = Fragments(b)
ArgumentsWhole ==
    adapter # "chat" =>
        \A b \in Blocks : Sendable(b) /\ b.kind = "call" =>
            Texts(Picked(events, {"arguments"}, "call", IdOf(b))) = Fragments(b)

EventsTyped == IsList(events) /\ \A e \in ToSet(events) : IsEvent(e)

StreamsInv ==
    StreamTyped /\ EventsTyped /\ PathsWhole /\ ArgumentsWhole /\ FirstFinishTellsWhy

\* Blocks that are alike are the same block.
LEMMA SameBlock ==
    ASSUME NEW b \in Blocks, NEW c \in Blocks,
           b.choice = c.choice, b.index = c.index, b.kind = c.kind
    PROVE  b = c
<1>1. b \in Block /\ c \in Block
  BY StreamsAssumption
<1> QED
  BY <1>1 DEF Block

\* Every fragment has a place of its block's own, and a call an id of its own.
LEMMA OwnPaths ==
    ASSUME NEW b \in Blocks, NEW c \in Blocks, adapter \in Protocols, Sendable(b), Sendable(c),
           b # c
    PROVE  /\ adapter # "gemini" => PathOf(b) # PathOf(c)
           /\ adapter # "chat" /\ b.kind = "call" /\ c.kind = "call" => IdOf(b) # IdOf(c)
<1>1. b \in Block /\ c \in Block
  BY StreamsAssumption
<1>2. /\ b.index \in Nat /\ c.index \in Nat /\ b.choice \in Nat /\ c.choice \in Nat
      /\ b.kind \in {"text", "refusal", "call"} /\ c.kind \in {"text", "refusal", "call"}
  BY <1>1 DEF Block
<1>3. Cardinality(Blocks) \in Nat
  BY StreamsAssumption, FS_CardinalityType
<1>4. b.choice # c.choice \/ b.index # c.index \/ b.kind # c.kind
  BY SameBlock
<1>5. b.kind = c.kind /\ b.index # c.index => Number(b) # Number(c)
  BY <1>2, <1>3 DEF Number
<1>6. ASSUME adapter = "chat" PROVE PathOf(b) # PathOf(c)
  <2>1. CASE b.kind = "call" /\ c.kind = "call"
    <3>1. /\ PathOf(b) = <<"choices", b.choice, "tool_calls", b.index>>
          /\ PathOf(c) = <<"choices", c.choice, "tool_calls", c.index>>
      BY <1>6, <2>1 DEF PathOf
    <3> QED
      BY <1>4, <2>1, <3>1
  <2>2. CASE b.kind # "call" /\ c.kind # "call"
    <3>1. /\ PathOf(b) = <<"choices", b.choice, IF b.kind = "text" THEN "content" ELSE "refusal">>
          /\ PathOf(c) = <<"choices", c.choice, IF c.kind = "text" THEN "content" ELSE "refusal">>
      BY <1>6, <2>2 DEF PathOf
    <3>2. b.index = 0 /\ c.index = 0
      BY <1>6, <2>2 DEF Sendable
    <3> QED
      BY <1>2, <1>4, <2>2, <3>1, <3>2
  <2>3. CASE (b.kind = "call") # (c.kind = "call")
    <3>1. Len(PathOf(b)) # Len(PathOf(c))
      BY <1>6, <2>3 DEF PathOf
    <3> QED
      BY <3>1
  <2> QED
    BY <2>1, <2>2, <2>3
<1>7. ASSUME adapter # "chat"
      PROVE  /\ b.choice = 0 /\ c.choice = 0
             /\ b.kind \in {"text", "call"} /\ c.kind \in {"text", "call"}
  BY <1>2, <1>7 DEF Sendable
<1>8. ASSUME adapter = "responses" PROVE PathOf(b) # PathOf(c)
  <2>1. CASE b.kind = "text" /\ c.kind = "text"
    <3>1. /\ PathOf(b) = <<"output", 0, "content", b.index>>
          /\ PathOf(c) = <<"output", 0, "content", c.index>>
      BY <1>8, <2>1 DEF PathOf
    <3> QED
      BY <1>4, <1>7, <1>8, <2>1, <3>1
  <2>2. CASE b.kind # "text" /\ c.kind # "text"
    <3>1. /\ PathOf(b) = <<"output", b.index + 1, "arguments">>
          /\ PathOf(c) = <<"output", c.index + 1, "arguments">>
      BY <1>8, <2>2 DEF PathOf
    <3>2. b.index + 1 # c.index + 1
      BY <1>2, <1>4, <1>7, <1>8, <2>2
    <3> QED
      BY <3>1, <3>2
  <2>3. CASE (b.kind = "text") # (c.kind = "text")
    <3>1. Len(PathOf(b)) # Len(PathOf(c))
      BY <1>8, <2>3 DEF PathOf
    <3> QED
      BY <3>1
  <2> QED
    BY <2>1, <2>2, <2>3
<1>9. ASSUME adapter = "anthropic" PROVE PathOf(b) # PathOf(c)
  <2>1. /\ PathOf(b) = <<"content", Number(b), IF b.kind = "text" THEN "text" ELSE "input">>
        /\ PathOf(c) = <<"content", Number(c), IF c.kind = "text" THEN "text" ELSE "input">>
    BY <1>9 DEF PathOf
  <2> QED
    BY <1>4, <1>5, <1>7, <1>9, <2>1
<1>10. ASSUME adapter = "interactions" PROVE PathOf(b) # PathOf(c)
  <2>1. /\ PathOf(b) = <<"steps", Number(b), IF b.kind = "text" THEN "text" ELSE "arguments">>
        /\ PathOf(c) = <<"steps", Number(c), IF c.kind = "text" THEN "text" ELSE "arguments">>
    BY <1>10 DEF PathOf
  <2> QED
    BY <1>4, <1>5, <1>7, <1>10, <2>1
<1>11. ASSUME adapter # "chat", b.kind = "call", c.kind = "call" PROVE IdOf(b) # IdOf(c)
  <2>1. b.index # c.index
    BY <1>4, <1>7, <1>11
  <2>2. Number(b) # Number(c)
    BY <1>5, <1>11, <2>1
  <2>3. CASE adapter = "anthropic"
    BY <2>2, <2>3 DEF IdOf
  <2>4. CASE adapter = "interactions"
    BY <2>2, <2>4 DEF IdOf
  <2>5. CASE adapter # "anthropic" /\ adapter # "interactions"
    BY <2>5 DEF IdOf
  <2> QED
    BY <2>3, <2>4, <2>5
<1> QED
  BY <1>6, <1>8, <1>9, <1>10, <1>11 DEF Protocols

-----------------------------------------------------------------------------
(* What every fragment that is sent keeps. *)

\* An event with the next fragments of some blocks.
Sends(order, new) ==
    /\ IsList(order) /\ ToSet(order) \subseteq Blocks
    /\ \A i, j \in DOMAIN order : i # j => order[i] # order[j]
    /\ new = [i \in DOMAIN order |-> new[i]]
    /\ \A i \in DOMAIN order :
          /\ Sendable(order[i]) /\ order[i].choice \notin ended
          /\ Tells(order[i], sent[order[i]] + 1, new[i])
    /\ sent' = [b \in Blocks |-> IF b \in ToSet(order) THEN sent[b] + 1 ELSE sent[b]]
    /\ events' = events \o new
    /\ UNCHANGED <<adapter, structured, ended, phase, why>>

LEMMA SendsAreLists ==
    ASSUME NEW order, NEW new, Sends(order, new)
    PROVE  /\ IsList(new) /\ DOMAIN new = DOMAIN order
           /\ \A i \in DOMAIN order : order[i] \in Blocks /\ order[i] \in ToSet(order)
           /\ \A b \in ToSet(order) : \E i \in DOMAIN order : order[i] = b
           /\ \A e \in ToSet(new) : \E i \in DOMAIN order : e = new[i]
<1>1. IsList(order) /\ ToSet(order) \subseteq Blocks /\ new = [i \in DOMAIN order |-> new[i]]
  BY DEF Sends
<1>2. /\ Len(order) \in Nat /\ DOMAIN order = 1 .. Len(order)
      /\ \A i \in DOMAIN order : order[i] \in ToSet(order)
      /\ \A x \in ToSet(order) : \E i \in DOMAIN order : x = order[i]
  BY <1>1, ListFacts
<1>3. IsList(new)
  BY <1>1, <1>2, ListOfValues
<1>4. \A e \in ToSet(new) : \E i \in DOMAIN new : e = new[i]
  BY <1>3, ListFacts
<1> QED
  BY <1>1, <1>2, <1>3, <1>4

\* The fragments of a block are one more, if one of it is sent, or the same.
LEMMA FragmentsGrow ==
    ASSUME StreamTyped, NEW order, NEW new, Sends(order, new), NEW b \in Blocks
    PROVE  Fragments(b)' = Fragments(b)
                           \o (IF b \in ToSet(order) THEN <<<<b, sent[b] + 1>>>> ELSE <<>>)
<1> DEFINE N == sent[b]
<1>1. N \in Nat
  BY DEF StreamTyped
<1>2. sent'[b] = IF b \in ToSet(order) THEN N + 1 ELSE N
  BY DEF Sends
<1>3. Fragments(b) = [n \in 1 .. N |-> <<b, n>>] /\ Fragments(b)' = [n \in 1 .. sent'[b] |-> <<b, n>>]
  BY DEF Fragments
<1> HIDE DEF N
<1> DEFINE old == [n \in 1 .. N |-> <<b, n>>]
           add == <<<<b, N + 1>>>>
<1>4. CASE b \in ToSet(order)
  <2>1. old \in Seq({b} \X Nat) /\ Len(old) = N /\ add \in Seq({b} \X Nat) /\ Len(add) = 1
    BY <1>1
  <2>2. old \o add = [n \in 1 .. N + 1 |-> <<b, n>>]
    BY <1>1, <2>1
  <2> QED
    BY <1>2, <1>3, <1>4, <2>2 DEF N
<1>5. CASE b \notin ToSet(order)
  <2>1. old \in Seq({b} \X Nat)
    BY <1>1
  <2>2. old \o <<>> = old
    BY <2>1
  <2> QED
    BY <1>2, <1>3, <1>5, <2>2
<1> QED
  BY <1>4, <1>5

\* Picked by a value that only the events of block b have, its fragments grow.
LEMMA PickedGrows ==
    ASSUME StreamTyped, EventsTyped, NEW order, NEW new, Sends(order, new), NEW b \in Blocks,
           NEW kinds, NEW field, NEW v,
           Texts(Picked(events, kinds, field, v)) = Fragments(b),
           \A i \in DOMAIN order :
               new[i].kind \in kinds /\ new[i][field] = v <=> order[i] = b
    PROVE  Texts(Picked(events', kinds, field, v)) = Fragments(b)'
<1>1. IsList(events) /\ IsList(new) /\ DOMAIN new = DOMAIN order
  BY SendsAreLists DEF EventsTyped
<1>2. events' = events \o new
  BY DEF Sends
<1> DEFINE old == Picked(events, kinds, field, v)
           add == Picked(new, kinds, field, v)
<1>3. Picked(events \o new, kinds, field, v) = old \o add
  BY <1>1, PickedConcat
<1>4. IsList(old)
  BY <1>1, PickedMembers
<1>5. IsList(add)
  BY <1>1, PickedMembers
<1>6. \/ add = <<>> /\ b \notin ToSet(order)
      \/ \E k \in DOMAIN order : order[k] = b /\ add = <<new[k]>>
  <2>1. CASE b \in ToSet(order)
    <3>1. PICK k \in DOMAIN order : order[k] = b
      BY <2>1, SendsAreLists
    <3>2. \A i \in DOMAIN order : i # k => order[i] # b
      BY <3>1 DEF Sends
    <3>3. add = <<new[k]>>
      BY <1>1, <3>1, <3>2, PickedOne
    <3> QED
      BY <3>1, <3>3
  <2>2. CASE b \notin ToSet(order)
    <3>1. \A i \in DOMAIN order : order[i] # b
      BY <2>2, SendsAreLists
    <3>2. \A e \in ToSet(new) : \E i \in DOMAIN order : e = new[i]
      BY SendsAreLists
    <3>3. \A e \in ToSet(new) : e.kind \in kinds => e[field] # v
      BY <3>1, <3>2
    <3> QED
      BY <1>1, <2>2, <3>3, PickedNone
  <2> QED
    BY <2>1, <2>2
<1>7. Texts(old \o add) = Texts(old) \o Texts(add)
  <2> HIDE DEF old, add
  <2> QED
    BY <1>4, <1>5, TextsConcat
<1>8. Texts(add) = IF b \in ToSet(order) THEN <<<<b, sent[b] + 1>>>> ELSE <<>>
  <2>1. CASE add = <<>> /\ b \notin ToSet(order)
    BY <2>1, TextsOfFew
  <2>2. ASSUME NEW k \in DOMAIN order, order[k] = b, add = <<new[k]>>
        PROVE  Texts(add) = <<<<b, sent[b] + 1>>>> /\ b \in ToSet(order)
    <3>1. b \in ToSet(order)
      BY <2>2, SendsAreLists
    <3>2. new[k].text = <<b, sent[b] + 1>>
      BY <2>2 DEF Sends, Tells
    <3> HIDE DEF add
    <3> QED
      BY <2>2, <3>1, <3>2, TextsOfFew
  <2> HIDE DEF add
  <2> QED
    BY <1>6, <2>1, <2>2
<1>9. Fragments(b)' = Fragments(b) \o (IF b \in ToSet(order) THEN <<<<b, sent[b] + 1>>>> ELSE <<>>)
  BY FragmentsGrow
<1> HIDE DEF old, add
<1> QED
  BY <1>2, <1>3, <1>7, <1>8, <1>9 DEF old

\* What the parts of an invariant do not tell apart stays the same.
LEMMA SameNames ==
    ASSUME UNCHANGED <<adapter, structured>>
    PROVE  /\ \A b : /\ (Sendable(b))' = Sendable(b) /\ (PathOf(b))' = PathOf(b)
                     /\ (KindOf(b))' = KindOf(b) /\ (IdOf(b))' = IdOf(b)
           /\ \A b, n, e : (Tells(b, n, e))' = Tells(b, n, e)
<1>1. \A b : (Sendable(b))' = Sendable(b)
  BY DEF Sendable
<1>2. \A b : (PathOf(b))' = PathOf(b)
  BY DEF PathOf, Number
<1>3. \A b : (KindOf(b))' = KindOf(b)
  BY DEF KindOf
<1>4. \A b : (IdOf(b))' = IdOf(b)
  BY DEF IdOf, Number
<1>5. \A b, n, e : (Tells(b, n, e))' = Tells(b, n, e)
  BY <1>2, <1>3, <1>4 DEF Tells
<1> QED
  BY <1>1, <1>2, <1>3, <1>4, <1>5

\* The events of a choice that a fragment or an end is about.
Mine(c, e) == e.kind # "error" /\ (adapter = "chat" => e.path[2] = c)

\* The events of fragments are of choices that have not ended.
LEMMA SendsAreOfOpenChoices ==
    ASSUME StreamTyped, NEW order, NEW new, Sends(order, new), NEW i \in DOMAIN order,
           NEW c \in ended
    PROVE  ~ Mine(c, new[i])
<1>1. Sendable(order[i]) /\ order[i].choice \notin ended /\ Tells(order[i], sent[order[i]] + 1, new[i])
  BY DEF Sends
<1>2. CASE adapter = "chat"
  <2>1. new[i].path = PathOf(order[i])
    BY <1>1, <1>2 DEF Tells
  <2>2. PathOf(order[i])[2] = order[i].choice
    BY <1>2 DEF PathOf
  <2> QED
    BY <1>1, <1>2, <2>1, <2>2 DEF Mine
<1>3. CASE adapter # "chat"
  <2>1. order[i].choice = 0
    BY <1>1, <1>3 DEF Sendable
  <2>2. ended \subseteq {0}
    BY <1>3 DEF StreamTyped
  <2> QED
    BY <1>1, <2>1, <2>2
<1> QED
  BY <1>2, <1>3

\* The first finish of one choice.
FinishTellsWhy(c) ==
    \E n \in DOMAIN events :
        /\ Mine(c, events[n]) /\ events[n].kind = "finish" /\ events[n].reason = why[c]
        /\ \A i \in DOMAIN events : Mine(c, events[i]) =>
              /\ i < n => events[i].kind # "finish"
              /\ i > n => events[i].kind = "finish"

LEMMA FirstFinish ==
    /\ FirstFinishTellsWhy <=> \A c \in ended : FinishTellsWhy(c)
    /\ FirstFinishTellsWhy' <=> \A c \in ended' : (FinishTellsWhy(c))'
BY DEF FirstFinishTellsWhy, FinishTellsWhy, Mine

\* What is appended to the events comes after them.
LEMMA MoreEvents ==
    ASSUME IsList(events), NEW new, IsList(new), events' = events \o new
    PROVE  /\ DOMAIN events = 1 .. Len(events) /\ DOMAIN new = 1 .. Len(new)
           /\ Len(events) \in Nat /\ Len(new) \in Nat
           /\ DOMAIN events' = 1 .. (Len(events) + Len(new))
           /\ \A i \in DOMAIN events : i \in DOMAIN events' /\ events'[i] = events[i]
           /\ \A i \in DOMAIN events' \ DOMAIN events :
                 /\ i - Len(events) \in DOMAIN new /\ events'[i] = new[i - Len(events)]
                 /\ \A n \in DOMAIN events : n < i
           /\ IsList(events') /\ ToSet(events') = ToSet(events) \cup ToSet(new)
<1> DEFINE E == ToSet(events) \cup ToSet(new)
           N == Len(events)
           M == Len(new)
<1>1. events \in Seq(E) /\ new \in Seq(E) /\ N \in Nat /\ M \in Nat
  <2>1. events \in Seq(ToSet(events)) /\ new \in Seq(ToSet(new))
    BY ListFacts
  <2>2. Seq(ToSet(events)) \subseteq Seq(E) /\ Seq(ToSet(new)) \subseteq Seq(E)
    BY SeqMonotonic
  <2> QED
    BY <2>1, <2>2
<1>2. DOMAIN events = 1 .. N /\ DOMAIN new = 1 .. M
  BY <1>1
<1> HIDE DEF E
<1>3. /\ events' \in Seq(E) /\ Len(events') = Len(events) + Len(new)
      /\ \A i \in 1 .. Len(events) + Len(new) :
            events'[i] = IF i <= Len(events) THEN events[i] ELSE new[i - Len(events)]
  BY <1>1, ConcatProperties
<1>4. IsList(events') /\ ToSet(events') = ToSet(events) \cup ToSet(new)
  BY JoinedList
<1>5. DOMAIN events' = 1 .. Len(events')
  BY <1>3
<1> HIDE DEF N, M
<1>6. /\ Len(events') = N + M
      /\ \A i \in 1 .. N + M : events'[i] = IF i <= N THEN events[i] ELSE new[i - N]
  BY <1>3 DEF N, M
<1>7. ASSUME NEW i \in DOMAIN events PROVE i \in DOMAIN events' /\ events'[i] = events[i]
  <2>1. i \in 1 .. N + M /\ i <= N
    BY <1>1, <1>2
  <2> QED
    BY <1>5, <1>6, <2>1
<1>8. ASSUME NEW i \in DOMAIN events' \ DOMAIN events
      PROVE  /\ i - N \in DOMAIN new /\ events'[i] = new[i - N]
             /\ \A n \in DOMAIN events : n < i
  <2>1. i \in 1 .. N + M /\ ~ (i <= N) /\ i - N \in 1 .. M
    BY <1>1, <1>2, <1>5, <1>6
  <2>2. \A n \in 1 .. N : n < i
    BY <1>1, <2>1
  <2> QED
    BY <1>2, <1>6, <2>1, <2>2
<1> QED
  BY <1>1, <1>2, <1>4, <1>5, <1>6, <1>7, <1>8 DEF N, M

\* An ended choice keeps its first finish, if nothing but finishes is appended to
\* its events.
LEMMA FinishStaysFirst ==
    ASSUME IsList(events), NEW new, IsList(new), events' = events \o new, NEW c \in ended,
           FinishTellsWhy(c), UNCHANGED adapter, why'[c] = why[c],
           \A j \in DOMAIN new : Mine(c, new[j]) => new[j].kind = "finish"
    PROVE  (FinishTellsWhy(c))'
<1>1. PICK n \in DOMAIN events :
                /\ Mine(c, events[n]) /\ events[n].kind = "finish" /\ events[n].reason = why[c]
                /\ \A i \in DOMAIN events : Mine(c, events[i]) =>
                      /\ i < n => events[i].kind # "finish"
                      /\ i > n => events[i].kind = "finish"
  BY DEF FinishTellsWhy
<1>2. \A e : (Mine(c, e))' = Mine(c, e)
  BY DEF Mine
<1>3. \A i : (Mine(c, events[i]))' = Mine(c, events'[i])
  BY DEF Mine
<1>4. n \in DOMAIN events' /\ events'[n] = events[n]
  BY MoreEvents
<1>5. ASSUME NEW i \in DOMAIN events', Mine(c, events'[i])
      PROVE  /\ i < n => events'[i].kind # "finish"
             /\ i > n => events'[i].kind = "finish"
  <2>1. CASE i \in DOMAIN events
    <3>1. events'[i] = events[i]
      BY <2>1, MoreEvents
    <3> QED
      BY <1>1, <1>5, <2>1, <3>1
  <2>2. CASE i \notin DOMAIN events
    <3>1. i - Len(events) \in DOMAIN new /\ events'[i] = new[i - Len(events)] /\ n < i
      BY <2>2, MoreEvents
    <3>2. events'[i].kind = "finish"
      BY <1>5, <3>1
    <3>3. ~ (i < n)
      BY <2>2, <3>1, MoreEvents
    <3> QED
      BY <3>2, <3>3
  <2> QED
    BY <2>1, <2>2
<1> QED
  BY <1>1, <1>3, <1>4, <1>5 DEF FinishTellsWhy

\* Sending fragments keeps all of them in place.
LEMMA SendKeeps ==
    ASSUME StreamsInv, NEW order, NEW new, Sends(order, new)
    PROVE  StreamsInv'
<1>1. StreamTyped /\ EventsTyped /\ PathsWhole /\ ArgumentsWhole /\ FirstFinishTellsWhy
  BY DEF StreamsInv
<1>2. UNCHANGED <<adapter, structured, ended, phase, why>> /\ events' = events \o new
  BY DEF Sends
<1>3. /\ \A b : /\ (Sendable(b))' = Sendable(b) /\ (PathOf(b))' = PathOf(b)
                /\ (KindOf(b))' = KindOf(b) /\ (IdOf(b))' = IdOf(b)
      /\ \A b, n, e : (Tells(b, n, e))' = Tells(b, n, e)
  BY <1>2, SameNames
<1>4. /\ IsList(new) /\ DOMAIN new = DOMAIN order
      /\ \A i \in DOMAIN order : order[i] \in Blocks /\ order[i] \in ToSet(order)
      /\ \A b \in ToSet(order) : \E i \in DOMAIN order : order[i] = b
      /\ \A e \in ToSet(new) : \E i \in DOMAIN order : e = new[i]
  BY SendsAreLists
<1>5. IsList(events)
  BY <1>1 DEF EventsTyped
<1>6. ASSUME NEW i \in DOMAIN order
      PROVE  /\ order[i] \in Blocks /\ Sendable(order[i])
             /\ sent[order[i]] + 1 \in Nat /\ Tells(order[i], sent[order[i]] + 1, new[i])
  <2>1. sent[order[i]] \in Nat
    BY <1>1, <1>4 DEF StreamTyped
  <2> QED
    BY <1>4, <2>1 DEF Sends
<1>7. StreamTyped'
  <2>1. sent' \in [Blocks -> Nat]
    BY <1>1 DEF Sends, StreamTyped
  <2>2. ASSUME NEW b \in Blocks, sent'[b] > 0 PROVE Sendable(b)
    <3>1. CASE b \in ToSet(order)
      BY <1>4, <1>6, <3>1
    <3>2. CASE b \notin ToSet(order)
      <4>1. sent'[b] = sent[b]
        BY <3>2 DEF Sends
      <4> QED
        BY <1>1, <2>2, <4>1 DEF StreamTyped
    <3> QED
      BY <3>1, <3>2
  <2>3. \A b \in Blocks : sent'[b] > 0 => (Sendable(b))'
    BY <1>3, <2>2
  <2>4. /\ adapter \in Protocols /\ structured \in BOOLEAN
        /\ DOMAIN why = ChoiceIndexes /\ why = [c \in ChoiceIndexes |-> why[c]]
        /\ adapter # "chat" => ended \subseteq {0}
        /\ phase = "stopped" => adapter = "anthropic" /\ 0 \in ended
    BY <1>1 DEF StreamTyped
  <2>5. adapter' = adapter /\ structured' = structured /\ ended' = ended /\ phase' = phase /\ why' = why
    BY <1>2
  <2> QED
    BY <2>1, <2>3, <2>4, <2>5 DEF StreamTyped
<1>8. EventsTyped'
  <2>1. IsList(events') /\ ToSet(events') = ToSet(events) \cup ToSet(new)
    BY <1>2, <1>4, <1>5, MoreEvents
  <2>2. ASSUME NEW e \in ToSet(events') PROVE (IsEvent(e))'
    <3>1. CASE e \in ToSet(new)
      <4>1. PICK i \in DOMAIN order : e = new[i]
        BY <1>4, <3>1
      <4>2. \E b \in Blocks, n \in Nat : Sendable(b) /\ Tells(b, n, e)
        BY <1>6, <4>1
      <4>3. \E b \in Blocks, n \in Nat : (Sendable(b))' /\ (Tells(b, n, e))'
        BY <1>3, <4>2
      <4> QED
        BY <4>3 DEF IsEvent
    <3>2. CASE e \in ToSet(events)
      <4>1. IsEvent(e)
        BY <1>1, <3>2 DEF EventsTyped
      <4> QED
        BY <1>2, <1>3, <4>1 DEF IsEvent
    <3> QED
      BY <2>1, <3>1, <3>2
  <2> QED
    BY <2>1, <2>2 DEF EventsTyped
<1>9. PathsWhole'
  <2> SUFFICES ASSUME adapter # "gemini", NEW b \in Blocks, Sendable(b)
               PROVE  Texts(Picked(events', DeltaKinds, "path", PathOf(b))) = Fragments(b)'
    BY <1>2, <1>3 DEF PathsWhole
  <2>1. Texts(Picked(events, DeltaKinds, "path", PathOf(b))) = Fragments(b)
    BY <1>1 DEF PathsWhole
  <2>2. ASSUME NEW i \in DOMAIN order
        PROVE  new[i].kind \in DeltaKinds /\ new[i]["path"] = PathOf(b) <=> order[i] = b
    <3>1. new[i].path = PathOf(order[i]) /\ new[i].kind \in DeltaKinds
      BY <1>6 DEF Tells, KindOf, DeltaKinds
    <3>2. order[i] # b => PathOf(order[i]) # PathOf(b)
      <4>1. adapter \in Protocols
        BY <1>1 DEF StreamTyped
      <4> QED
        BY <1>6, <4>1, OwnPaths
    <3> QED
      BY <3>1, <3>2
  <2> QED
    BY <1>1, <2>1, <2>2, PickedGrows
<1>10. ArgumentsWhole'
  <2> SUFFICES ASSUME adapter # "chat", NEW b \in Blocks, Sendable(b), b.kind = "call"
               PROVE  Texts(Picked(events', {"arguments"}, "call", IdOf(b))) = Fragments(b)'
    BY <1>2, <1>3 DEF ArgumentsWhole
  <2>1. Texts(Picked(events, {"arguments"}, "call", IdOf(b))) = Fragments(b)
    BY <1>1 DEF ArgumentsWhole
  <2>2. ASSUME NEW i \in DOMAIN order
        PROVE  new[i].kind \in {"arguments"} /\ new[i]["call"] = IdOf(b) <=> order[i] = b
    <3>1. new[i].kind = "arguments" <=> order[i].kind = "call"
      BY <1>6 DEF Tells, KindOf
    <3>2. order[i].kind = "call" => new[i].call = IdOf(order[i])
      BY <1>6 DEF Tells
    <3>3. order[i].kind = "call" /\ order[i] # b => IdOf(order[i]) # IdOf(b)
      <4>1. adapter \in Protocols
        BY <1>1 DEF StreamTyped
      <4> QED
        BY <1>6, <4>1, OwnPaths
    <3> QED
      BY <3>1, <3>2, <3>3
  <2> QED
    BY <1>1, <2>1, <2>2, PickedGrows
<1>11. FirstFinishTellsWhy'
  <2>1. ASSUME NEW c \in ended PROVE (FinishTellsWhy(c))'
    <3>1. \A j \in DOMAIN new : Mine(c, new[j]) => new[j].kind = "finish"
      BY <1>1, <1>4, SendsAreOfOpenChoices
    <3>2. why'[c] = why[c] /\ adapter' = adapter
      BY <1>2
    <3>3. FinishTellsWhy(c)
      BY <1>1, FirstFinish
    <3> QED
      BY <1>2, <1>4, <1>5, <3>1, <3>2, <3>3, FinishStaysFirst
  <2>2. ended' = ended
    BY <1>2
  <2> QED
    BY <2>1, <2>2, FirstFinish
<1> QED
  BY <1>7, <1>8, <1>9, <1>10, <1>11 DEF StreamsInv

\* Events that are no fragments leave the fragments as they are.
LEMMA OthersKeepFragments ==
    ASSUME IsList(events), PathsWhole, ArgumentsWhole,
           NEW new, IsList(new), events' = events \o new,
           \A e \in ToSet(new) : e.kind \in {"finish", "error"},
           UNCHANGED <<adapter, structured, sent>>
    PROVE  PathsWhole' /\ ArgumentsWhole'
<1>1. \A b : /\ (Sendable(b))' = Sendable(b) /\ (PathOf(b))' = PathOf(b)
             /\ (IdOf(b))' = IdOf(b)
  BY SameNames
<1>2. \A b : Fragments(b)' = Fragments(b)
  BY DEF Fragments
<1>3. ASSUME NEW kinds, "finish" \notin kinds, "error" \notin kinds, NEW field, NEW v
      PROVE  Picked(events', kinds, field, v) = Picked(events, kinds, field, v)
  <2>1. Picked(new, kinds, field, v) = <<>>
    BY <1>3, PickedNone
  <2>2. Picked(events \o new, kinds, field, v) = Picked(events, kinds, field, v) \o Picked(new, kinds, field, v)
    BY PickedConcat
  <2>3. IsList(Picked(events, kinds, field, v))
    BY PickedMembers
  <2> DEFINE old == Picked(events, kinds, field, v)
  <2>4. old \in Seq(ToSet(old))
    BY <2>3 DEF IsList
  <2> HIDE DEF old
  <2>5. old \o <<>> = old
    BY <2>4
  <2> QED
    BY <2>1, <2>2, <2>5 DEF old
<1>4. "finish" \notin DeltaKinds /\ "error" \notin DeltaKinds
  BY DEF DeltaKinds
<1>5. ASSUME NEW v PROVE Picked(events', DeltaKinds, "path", v) = Picked(events, DeltaKinds, "path", v)
  BY <1>3, <1>4
<1>6. ASSUME NEW v PROVE Picked(events', {"arguments"}, "call", v) = Picked(events, {"arguments"}, "call", v)
  BY <1>3
<1>7. PathsWhole'
  BY <1>1, <1>2, <1>5 DEF PathsWhole
<1>8. ArgumentsWhole'
  BY <1>1, <1>2, <1>6 DEF ArgumentsWhole
<1> QED
  BY <1>7, <1>8

-----------------------------------------------------------------------------
(* The events of fragments, adapter by adapter. *)

\* SetToSeqs lists every member once.
LEMMA EveryOrder ==
    ASSUME NEW bs \in SUBSET Blocks, NEW order \in SetToSeqs(bs)
    PROVE  /\ IsList(order) /\ ToSet(order) = bs
           /\ \A i, j \in DOMAIN order : i # j => order[i] # order[j]
<1> DEFINE n == Cardinality(bs)
<1>1. IsFiniteSet(bs)
  BY StreamsAssumption, FS_Subset
<1>2. n \in Nat
  BY <1>1, FS_CardinalityType
<1>3. /\ order \in [1 .. n -> bs]
      /\ \A i, j \in 1 .. n : i # j => order[i] # order[j]
  BY DEF SetToSeqs
<1>4. Cardinality(1 .. n) = n
  BY <1>2, FS_Interval
<1> HIDE DEF n
<1>5. order \in Injection(1 .. n, bs)
  BY <1>3 DEF Injection, IsInjective
<1>6. order \in Surjection(1 .. n, bs)
  BY <1>1, <1>4, <1>5, FS_Injection DEF n
<1>7. \A b \in bs : \E i \in 1 .. n : order[i] = b
  BY <1>6 DEF Surjection
<1>8. ToSet(order) = bs
  BY <1>3, <1>7 DEF ToSet
<1>9. IsList(order)
  BY <1>2, <1>3, ListOfValues
<1> QED
  BY <1>3, <1>8, <1>9

\* One event with one fragment.
LEMMA SendOneKeeps ==
    ASSUME StreamsInv, NEW b \in Blocks, NEW e, Sendable(b), b.choice \notin ended,
           Tells(b, sent[b] + 1, e), events' = events \o <<e>>, Count({b}),
           UNCHANGED <<adapter, structured, ended, phase, why>>
    PROVE  StreamsInv'
<1> DEFINE order == <<b>>
           new == <<e>>
<1>1. IsList(order) /\ ToSet(order) = {b}
  BY SmallLists
<1>2. DOMAIN order = {1} /\ order[1] = b /\ new[1] = e
  OBVIOUS
<1>3. new = [i \in DOMAIN order |-> new[i]]
  OBVIOUS
<1>4. sent' = [c \in Blocks |-> IF c \in ToSet(order) THEN sent[c] + 1 ELSE sent[c]]
  BY <1>1 DEF Count
<1> HIDE DEF order
<1>5. events' = events \o new
  OBVIOUS
<1> HIDE DEF new
<1>6. Sends(order, new)
  BY <1>1, <1>2, <1>3, <1>4, <1>5 DEF Sends
<1> QED
  BY <1>6, SendKeeps

LEMMA SingleSends ==
    ASSUME NEW b \in Blocks, Single(b), adapter # "chat"
    PROVE  Sendable(b) /\ b.choice \notin ended /\ b.kind \in {"text", "call"}
<1>1. b \in Block
  BY StreamsAssumption
<1> QED
  BY <1>1 DEF Single, CanSend, Sendable, Block

LEMMA SendResponsesKeeps == ASSUME StreamsInv, SendResponses PROVE StreamsInv'
<1>1. adapter = "responses" /\ UNCHANGED <<adapter, structured, ended, phase, why>>
  BY DEF SendResponses
<1>2. PICK b \in Blocks :
          /\ Single(b) /\ Count({b})
          /\ events' = events \o ResponsesParse(
                IF b.kind = "text"
                THEN [type |-> "response.output_text.delta", output_index |-> 0,
                      content_index |-> b.index, delta |-> Next1(b)]
                ELSE [type |-> "response.function_call_arguments.delta",
                      output_index |-> b.index + 1, item_id |-> <<"id", b>>, delta |-> Next1(b)],
                structured)
  BY DEF SendResponses
<1>3. Sendable(b) /\ b.choice \notin ended /\ b.kind \in {"text", "call"}
  BY <1>1, <1>2, SingleSends
<1>4. structured \in BOOLEAN
  BY DEF StreamsInv, StreamTyped
<1>5. CASE b.kind = "text"
  <2> DEFINE e == Content(<<"output", 0, "content", b.index>>, Next1(b), structured)
  <2>1. ResponsesParse([type |-> "response.output_text.delta", output_index |-> 0,
                        content_index |-> b.index, delta |-> Next1(b)], structured) = <<e>>
    BY DEF ResponsesParse, ResponsesPath
  <2>2. Tells(b, sent[b] + 1, e)
    BY <1>1, <1>4, <1>5 DEF Tells, Content, TextDelta, StructuredDataDelta, Next1, KindOf, PathOf
  <2>3. events' = events \o <<e>>
    BY <1>2, <1>5, <2>1
  <2> HIDE DEF e
  <2> QED
    BY <1>1, <1>2, <1>3, <2>2, <2>3, SendOneKeeps
<1>6. CASE b.kind = "call"
  <2> DEFINE e == ToolArgumentsDelta(<<"id", b>>, <<"output", b.index + 1, "arguments">>, Next1(b))
  <2>1. ResponsesParse([type |-> "response.function_call_arguments.delta",
                        output_index |-> b.index + 1, item_id |-> <<"id", b>>,
                        delta |-> Next1(b)], structured) = <<e>>
    BY DEF ResponsesParse
  <2>2. Tells(b, sent[b] + 1, e)
    BY <1>1, <1>6 DEF Tells, ToolArgumentsDelta, Next1, KindOf, PathOf, IdOf
  <2>3. events' = events \o <<e>>
    BY <1>2, <1>6, <2>1
  <2> HIDE DEF e
  <2> QED
    BY <1>1, <1>2, <1>3, <2>2, <2>3, SendOneKeeps
<1> QED
  BY <1>3, <1>5, <1>6

LEMMA SendAnthropicKeeps == ASSUME StreamsInv, SendAnthropic PROVE StreamsInv'
<1>1. adapter = "anthropic" /\ UNCHANGED <<adapter, structured, ended, phase, why>>
  BY DEF SendAnthropic
<1>2. PICK b \in Blocks :
          /\ Single(b) /\ Count({b})
          /\ events' = events \o AnthropicParse(
                [type |-> "content_block_delta", index |-> Number(b),
                 delta |-> [type |-> IF b.kind = "text" THEN "text_delta" ELSE "input_json_delta",
                            text |-> Next1(b)]], structured)
  BY DEF SendAnthropic
<1>3. Sendable(b) /\ b.choice \notin ended /\ b.kind \in {"text", "call"}
  BY <1>1, <1>2, SingleSends
<1>4. structured \in BOOLEAN
  BY DEF StreamsInv, StreamTyped
<1>5. CASE b.kind = "text"
  <2> DEFINE e == Content(<<"content", Number(b), "text">>, Next1(b), structured)
  <2>1. AnthropicParse([type |-> "content_block_delta", index |-> Number(b),
                        delta |-> [type |-> "text_delta", text |-> Next1(b)]], structured) = <<e>>
    BY DEF AnthropicParse
  <2>2. Tells(b, sent[b] + 1, e)
    BY <1>1, <1>4, <1>5 DEF Tells, Content, TextDelta, StructuredDataDelta, Next1, KindOf, PathOf
  <2>3. events' = events \o <<e>>
    BY <1>2, <1>5, <2>1
  <2> HIDE DEF e
  <2> QED
    BY <1>1, <1>2, <1>3, <2>2, <2>3, SendOneKeeps
<1>6. CASE b.kind = "call"
  <2> DEFINE e == ToolArgumentsDelta(<<"content-block", Number(b)>>, <<"content", Number(b), "input">>,
                                     Next1(b))
  <2>1. AnthropicParse([type |-> "content_block_delta", index |-> Number(b),
                        delta |-> [type |-> "input_json_delta", text |-> Next1(b)]], structured) = <<e>>
    BY DEF AnthropicParse
  <2>2. Tells(b, sent[b] + 1, e)
    BY <1>1, <1>6 DEF Tells, ToolArgumentsDelta, Next1, KindOf, PathOf, IdOf
  <2>3. events' = events \o <<e>>
    BY <1>2, <1>6, <2>1
  <2> HIDE DEF e
  <2> QED
    BY <1>1, <1>2, <1>3, <2>2, <2>3, SendOneKeeps
<1> QED
  BY <1>3, <1>5, <1>6

LEMMA SendInteractionsKeeps == ASSUME StreamsInv, SendInteractions PROVE StreamsInv'
<1>1. adapter = "interactions" /\ UNCHANGED <<adapter, structured, ended, phase, why>>
  BY DEF SendInteractions
<1>2. PICK b \in Blocks :
          /\ Single(b) /\ Count({b})
          /\ events' = events \o InteractionsParse(
                [event_type |-> "step.delta", index |-> Number(b),
                 delta |-> [type |-> IF b.kind = "text" THEN "text" ELSE "arguments_delta",
                            text |-> Next1(b)]], structured)
  BY DEF SendInteractions
<1>3. Sendable(b) /\ b.choice \notin ended /\ b.kind \in {"text", "call"}
  BY <1>1, <1>2, SingleSends
<1>4. structured \in BOOLEAN
  BY DEF StreamsInv, StreamTyped
<1>5. CASE b.kind = "text"
  <2> DEFINE e == Content(<<"steps", Number(b), "text">>, Next1(b), structured)
  <2>1. InteractionsParse([event_type |-> "step.delta", index |-> Number(b),
                           delta |-> [type |-> "text", text |-> Next1(b)]], structured) = <<e>>
    BY DEF InteractionsParse, InteractionsText
  <2>2. Tells(b, sent[b] + 1, e)
    BY <1>1, <1>4, <1>5 DEF Tells, Content, TextDelta, StructuredDataDelta, Next1, KindOf, PathOf
  <2>3. events' = events \o <<e>>
    BY <1>2, <1>5, <2>1
  <2> HIDE DEF e
  <2> QED
    BY <1>1, <1>2, <1>3, <2>2, <2>3, SendOneKeeps
<1>6. CASE b.kind = "call"
  <2> DEFINE e == ToolArgumentsDelta(<<"step", Number(b)>>, <<"steps", Number(b), "arguments">>,
                                     Next1(b))
  <2>1. InteractionsParse([event_type |-> "step.delta", index |-> Number(b),
                           delta |-> [type |-> "arguments_delta", text |-> Next1(b)]], structured)
        = <<e>>
    BY DEF InteractionsParse
  <2>2. Tells(b, sent[b] + 1, e)
    BY <1>1, <1>6 DEF Tells, ToolArgumentsDelta, Next1, KindOf, PathOf, IdOf
  <2>3. events' = events \o <<e>>
    BY <1>2, <1>6, <2>1
  <2> HIDE DEF e
  <2> QED
    BY <1>1, <1>2, <1>3, <2>2, <2>3, SendOneKeeps
<1> QED
  BY <1>3, <1>5, <1>6

\* Lists of one event each are put together as the list of these.
LEMMA FlattenOnes ==
    ASSUME NEW s, IsList(s)
    PROVE  FlattenSeq([i \in DOMAIN s |-> <<s[i]>>]) = s
<1> DEFINE g == [x \in ToSet(s) |-> <<x>>]
<1>1. \A x \in ToSet(s) : g[x] = <<x>>
  OBVIOUS
<1>2. \A i \in DOMAIN s : s[i] \in ToSet(s)
  BY ListFacts
<1> HIDE DEF g
<1>3. [i \in DOMAIN s |-> g[s[i]]] = [i \in DOMAIN s |-> <<s[i]>>]
  BY <1>1, <1>2
<1>4. Bind(s, g) = s
  BY <1>1, BindItself
<1> QED
  BY <1>3, <1>4 DEF Bind

\* A path of three parts gets a fourth.
LEMMA OneMore == \A x, y, z, w : <<x, y, z>> \o <<w>> = <<x, y, z, w>>
<1> SUFFICES ASSUME NEW x, NEW y, NEW z, NEW w PROVE <<x, y, z>> \o <<w>> = <<x, y, z, w>>
  OBVIOUS
<1> DEFINE E == {x, y, z, w}
           s == <<x, y, z>>
           t == <<w>>
           u == <<x, y, z, w>>
<1>1. s \in Seq(E) /\ t \in Seq(E) /\ u \in Seq(E) /\ Len(s) = 3 /\ Len(t) = 1 /\ Len(u) = 4
  OBVIOUS
<1>2. s[1] = x /\ s[2] = y /\ s[3] = z /\ t[1] = w /\ u[1] = x /\ u[2] = y /\ u[3] = z /\ u[4] = w
  OBVIOUS
<1> HIDE DEF E, s, t, u
<1>3. /\ s \o t \in Seq(E) /\ Len(s \o t) = Len(s) + Len(t)
      /\ \A i \in 1 .. Len(s) + Len(t) : (s \o t)[i] = IF i <= Len(s) THEN s[i] ELSE t[i - Len(s)]
  BY <1>1, ConcatProperties
<1>4. Len(s \o t) = 4
  BY <1>1, <1>3
<1>5. \A i \in 1 .. 4 : (s \o t)[i] = IF i <= 3 THEN s[i] ELSE t[i - 3]
  BY <1>1, <1>3
<1>6. ASSUME NEW i \in 1 .. 4 PROVE (s \o t)[i] = u[i]
  <2>1. ASSUME NEW j \in 1 .. 3 PROVE (s \o t)[j] = s[j]
    <3>1. j \in 1 .. 4 /\ j <= 3
      OBVIOUS
    <3> QED
      BY <1>5, <3>1
  <2>2. (s \o t)[4] = t[1]
    <3>1. 4 \in 1 .. 4 /\ ~ (4 <= 3) /\ 4 - 3 = 1
      OBVIOUS
    <3> QED
      BY <1>5, <3>1
  <2>3. (s \o t)[1] = x /\ (s \o t)[2] = y /\ (s \o t)[3] = z
    <3>1. 1 \in 1 .. 3 /\ 2 \in 1 .. 3 /\ 3 \in 1 .. 3
      OBVIOUS
    <3>2. (s \o t)[1] = s[1]
      BY <2>1, <3>1
    <3>3. (s \o t)[2] = s[2]
      BY <2>1, <3>1
    <3>4. (s \o t)[3] = s[3]
      BY <2>1, <3>1
    <3> QED
      BY <1>2, <3>2, <3>3, <3>4
  <2>4. CASE i = 1
    BY <1>2, <2>3, <2>4
  <2>5. CASE i = 2
    BY <1>2, <2>3, <2>5
  <2>6. CASE i = 3
    BY <1>2, <2>3, <2>6
  <2>7. CASE i = 4
    BY <1>2, <2>2, <2>7
  <2>8. i = 1 \/ i = 2 \/ i = 3 \/ i = 4
    OBVIOUS
  <2> QED
    BY <2>4, <2>5, <2>6, <2>7, <2>8
<1>7. s \o t = u
  BY <1>1, <1>3, <1>4, <1>6, SMTT(60)
<1> QED
  BY <1>7 DEF s, t, u

\* A fragment in Chat Completions.
LEMMA ChatFragment ==
    ASSUME StreamTyped, adapter = "chat", NEW b \in Blocks, Sendable(b)
    PROVE  \E e : ChatChoice(ChatEvent(b), structured) = <<e>> /\ Tells(b, sent[b] + 1, e)
<1> DEFINE c == ChatEvent(b)
<1>1. b.kind \in {"text", "refusal", "call"}
  BY StreamsAssumption DEF Block
<1>2. structured \in BOOLEAN
  BY DEF StreamTyped
<1>3. c.index = b.choice /\ c.tool = b.index /\ c.text = <<b, sent[b] + 1>>
  BY DEF ChatEvent, Next1
<1>4. CASE b.kind = "text"
  <2> DEFINE e == Content(<<"choices", b.choice, "content">>, <<b, sent[b] + 1>>, structured)
  <2>1. c.field = "content"
    BY <1>4 DEF ChatEvent
  <2> HIDE DEF c
  <2>2. ChatChoice(c, structured) = <<e>>
    BY <1>3, <2>1 DEF ChatChoice
  <2>3. Tells(b, sent[b] + 1, e)
    BY <1>2, <1>4 DEF Tells, Content, TextDelta, StructuredDataDelta, KindOf, PathOf
  <2> QED
    BY <2>2, <2>3 DEF c
<1>5. CASE b.kind = "refusal"
  <2> DEFINE e == TextDelta(<<"choices", b.choice, "refusal">>, <<b, sent[b] + 1>>)
  <2>1. c.field = "refusal"
    BY <1>5 DEF ChatEvent
  <2> HIDE DEF c
  <2>2. ChatChoice(c, structured) = <<e>>
    BY <1>3, <2>1 DEF ChatChoice
  <2>3. Tells(b, sent[b] + 1, e)
    BY <1>5 DEF Tells, TextDelta, KindOf, PathOf
  <2> QED
    BY <2>2, <2>3 DEF c
<1>6. CASE b.kind = "call"
  <2> DEFINE id == IF c.id = <<>> THEN <<b.choice, b.index>> ELSE c.id
             e == ToolArgumentsDelta(id, <<"choices", b.choice, "tool_calls", b.index>>,
                                     <<b, sent[b] + 1>>)
  <2>1. c.field = "tool_calls"
    BY <1>6 DEF ChatEvent
  <2> HIDE DEF c
  <2>2. <<"choices", b.choice, "tool_calls">> \o <<b.index>>
        = <<"choices", b.choice, "tool_calls", b.index>>
    BY OneMore
  <2>3. ChatChoice(c, structured) = <<e>>
    BY <1>3, <2>1, <2>2 DEF ChatChoice
  <2>4. Tells(b, sent[b] + 1, e)
    BY <1>6 DEF Tells, ToolArgumentsDelta, KindOf, PathOf
  <2> QED
    BY <2>3, <2>4 DEF c
<1> QED
  BY <1>1, <1>4, <1>5, <1>6

LEMMA SendChatKeeps == ASSUME StreamsInv, SendChat PROVE StreamsInv'
<1>1. adapter = "chat" /\ UNCHANGED <<adapter, structured, ended, phase, why>>
  BY DEF SendChat
<1>2. PICK bs \in SUBSET Blocks \ {{}} :
          /\ \A b \in bs : CanSend(b) /\ (b.kind # "call" => b.index = 0)
          /\ \E order \in SetToSeqs(bs) :
                LET event == [i \in DOMAIN order |-> ChatEvent(order[i])]
                IN  ChatReads(event) /\ events' = events \o ChatParse(event, structured)
          /\ Count(bs)
  BY DEF SendChat
<1>3. PICK order \in SetToSeqs(bs) :
          events' = events \o ChatParse([i \in DOMAIN order |-> ChatEvent(order[i])], structured)
  BY <1>2
<1>4. /\ IsList(order) /\ ToSet(order) = bs
      /\ \A i, j \in DOMAIN order : i # j => order[i] # order[j]
  BY EveryOrder
<1>5. \A i \in DOMAIN order : order[i] \in bs
  BY <1>4, ListFacts
<1>6. \A i \in DOMAIN order : Sendable(order[i]) /\ order[i].choice \notin ended
  BY <1>1, <1>2, <1>5 DEF Sendable, CanSend
<1> DEFINE events1 == [i \in DOMAIN order |-> ChatEvent(order[i])]
           made == [i \in DOMAIN order |-> ChatChoice(ChatEvent(order[i]), structured)]
           new == [i \in DOMAIN order |-> made[i][1]]
<1>7. ASSUME NEW i \in DOMAIN order
      PROVE  made[i] = <<new[i]>> /\ Tells(order[i], sent[order[i]] + 1, new[i])
  <2>1. PICK e : ChatChoice(ChatEvent(order[i]), structured) = <<e>>
                 /\ Tells(order[i], sent[order[i]] + 1, e)
    BY <1>1, <1>5, <1>6, ChatFragment DEF StreamsInv
  <2>2. made[i] = <<e>> /\ new[i] = e
    BY <2>1
  <2> QED
    BY <2>1, <2>2
<1>8. ChatParse(events1, structured) = FlattenSeq(made)
  <2>1. DOMAIN events1 = DOMAIN order /\ \A i \in DOMAIN order : events1[i] = ChatEvent(order[i])
    OBVIOUS
  <2> HIDE DEF events1
  <2>2. [i \in DOMAIN events1 |-> ChatChoice(events1[i], structured)] = made
    BY <2>1
  <2> QED
    BY <2>2 DEF ChatParse
<1>9. DOMAIN new = DOMAIN order /\ new = [i \in DOMAIN order |-> new[i]]
  OBVIOUS
<1>10. made = [i \in DOMAIN order |-> made[i]]
  OBVIOUS
<1> HIDE DEF new, made
<1>11. made = [i \in DOMAIN new |-> <<new[i]>>]
  BY <1>7, <1>9, <1>10
<1>12. IsList(new)
  <2>1. DOMAIN order = 1 .. Len(order) /\ Len(order) \in Nat
    BY <1>4, ListFacts
  <2> QED
    BY <1>9, <2>1, ListOfValues
<1>13. FlattenSeq(made) = new
  BY <1>11, <1>12, FlattenOnes
<1>14. events' = events \o new
  BY <1>3, <1>8, <1>13
<1>15. sent' = [b \in Blocks |-> IF b \in ToSet(order) THEN sent[b] + 1 ELSE sent[b]]
  BY <1>2, <1>4 DEF Count
<1>16. Sends(order, new)
  BY <1>1, <1>4, <1>6, <1>7, <1>9, <1>14, <1>15 DEF Sends
<1> QED
  BY <1>16, SendKeeps

\* The events of one part in an event of generateContent; their path is the
\* position of the part.
PartOf(b) == [type |-> IF b.kind = "text" THEN "text" ELSE "functionCall",
              id |-> <<"id", b>>, text |-> Next1(b)]
DeltaAt(i, p) ==
    LET path == <<"candidates", 1 - 1, "parts", i - 1, p.type>>
    IN  IF p.type = "text" THEN Content(path, p.text, structured)
        ELSE ToolArgumentsDelta(GeminiCall(1, i, p), path, p.text)

LEMMA GeminiFragment ==
    ASSUME StreamTyped, adapter = "gemini", NEW b \in Blocks, Sendable(b), NEW i
    PROVE  Tells(b, sent[b] + 1, DeltaAt(i, PartOf(b)))
<1> DEFINE p == PartOf(b)
           e == DeltaAt(i, p)
           path == <<"candidates", 1 - 1, "parts", i - 1, p.type>>
<1>1. b.kind \in {"text", "call"}
  BY StreamsAssumption DEF Block, Sendable
<1>2. structured \in BOOLEAN
  BY DEF StreamTyped
<1>3. p.text = <<b, sent[b] + 1>> /\ p.id = <<"id", b>>
  BY DEF PartOf, Next1
<1>4. CASE b.kind = "text"
  <2>1. p.type = "text"
    BY <1>4 DEF PartOf
  <2>2. e = Content(path, <<b, sent[b] + 1>>, structured)
    BY <1>3, <2>1 DEF DeltaAt
  <2> HIDE DEF e, path
  <2>3. e.text = <<b, sent[b] + 1>> /\ e.kind = KindOf(b)
    BY <1>2, <1>4, <2>2 DEF Content, TextDelta, StructuredDataDelta, KindOf
  <2>4. Tells(b, sent[b] + 1, e)
    BY <1>4, <2>3 DEF Tells
  <2> QED
    BY <2>4 DEF e
<1>5. CASE b.kind = "call"
  <2>1. p.type # "text"
    BY <1>5 DEF PartOf
  <2>2. e = ToolArgumentsDelta(<<"id", b>>, path, <<b, sent[b] + 1>>)
    BY <1>3, <2>1 DEF DeltaAt, GeminiCall
  <2> HIDE DEF e, path
  <2>3. e.text = <<b, sent[b] + 1>> /\ e.kind = KindOf(b) /\ e.call = IdOf(b)
    BY <1>5, <2>2 DEF ToolArgumentsDelta, KindOf, IdOf
  <2>4. Tells(b, sent[b] + 1, e)
    BY <2>3 DEF Tells
  <2> QED
    BY <2>4 DEF e
<1> QED
  BY <1>1, <1>4, <1>5

\* What generateContent's events are made of.
CandidateEvents(candidate, c, asked) ==
    [i \in DOMAIN candidate.parts |->
        LET p == candidate.parts[i]
            path == <<"candidates", c - 1, "parts", i - 1, p.type>>
        IN  IF p.type = "text" THEN Content(path, p.text, asked)
            ELSE ToolArgumentsDelta(GeminiCall(c, i, p), path, p.text)]
    \o [i \in DOMAIN candidate.finishReason |->
            FinishEvent(candidate.finishReason[i], <<"candidates", c - 1>>)]

LEMMA GeminiOne ==
    ASSUME NEW candidate, IsList(CandidateEvents(candidate, 1, structured))
    PROVE  GeminiParse(<<candidate>>, structured) = CandidateEvents(candidate, 1, structured)
<1> DEFINE all == <<candidate>>
           made == CandidateEvents(candidate, 1, structured)
<1>1. DOMAIN all = {1} /\ all[1] = candidate
  OBVIOUS
<1>2. GeminiParse(all, structured)
      = FlattenSeq([c \in DOMAIN all |-> CandidateEvents(all[c], c, structured)])
  BY DEF GeminiParse, CandidateEvents
<1>3. [c \in DOMAIN all |-> CandidateEvents(all[c], c, structured)] = <<made>>
  <2> DEFINE f == [c \in DOMAIN all |-> CandidateEvents(all[c], c, structured)]
  <2>1. DOMAIN f = {1} /\ f[1] = made /\ f = [c \in {1} |-> f[c]]
    BY <1>1
  <2> HIDE DEF f, made
  <2>2. f = <<made>>
    BY <2>1
  <2> QED
    BY <2>2 DEF f
<1> HIDE DEF made, all
<1>4. FlattenSeq(<<made>>) = made
  BY FlattenOne DEF made
<1> QED
  BY <1>2, <1>3, <1>4 DEF all, made

LEMMA NothingAfter ==
    ASSUME NEW s, IsList(s)
    PROVE  s \o <<>> = s /\ <<>> \o s = s
BY ConcatEmptySeq DEF IsList

LEMMA SendGeminiKeeps == ASSUME StreamsInv, SendGemini PROVE StreamsInv'
<1>1. adapter = "gemini" /\ UNCHANGED <<adapter, structured, ended, phase, why>>
  BY DEF SendGemini
<1>2. PICK bs \in SUBSET Blocks \ {{}} :
          /\ \A b \in bs : Single(b) /\ (b.kind = "call" => sent[b] = 0)
          /\ \E order \in SetToSeqs(bs) :
                events' = events \o GeminiParse(
                        <<[parts |-> [i \in DOMAIN order |-> PartOf(order[i])],
                           finishReason |-> <<>>]>>, structured)
          /\ Count(bs)
  BY DEF SendGemini, PartOf
<1>3. PICK order \in SetToSeqs(bs) :
          events' = events \o GeminiParse(
                        <<[parts |-> [i \in DOMAIN order |-> PartOf(order[i])],
                           finishReason |-> <<>>]>>, structured)
  BY <1>2
<1>4. /\ IsList(order) /\ ToSet(order) = bs
      /\ \A i, j \in DOMAIN order : i # j => order[i] # order[j]
  BY EveryOrder
<1>5. \A i \in DOMAIN order : order[i] \in bs
  BY <1>4, ListFacts
<1>6. \A i \in DOMAIN order : Sendable(order[i]) /\ order[i].choice \notin ended
  BY <1>1, <1>2, <1>5, SingleSends
<1> DEFINE parts1 == [i \in DOMAIN order |-> PartOf(order[i])]
           candidate == [parts |-> parts1, finishReason |-> <<>>]
           new == [i \in DOMAIN order |-> DeltaAt(i, PartOf(order[i]))]
<1>7. ASSUME NEW i \in DOMAIN order
      PROVE  Tells(order[i], sent[order[i]] + 1, new[i])
  BY <1>1, <1>5, <1>6, GeminiFragment DEF StreamsInv
<1>8. DOMAIN new = DOMAIN order /\ new = [i \in DOMAIN order |-> new[i]]
  OBVIOUS
<1>9. IsList(new)
  <2>1. DOMAIN order = 1 .. Len(order) /\ Len(order) \in Nat
    BY <1>4, ListFacts
  <2> HIDE DEF new
  <2> QED
    BY <1>8, <2>1, ListOfValues
<1>10. CandidateEvents(candidate, 1, structured) = new
  <2>1. candidate.parts = parts1 /\ candidate.finishReason = <<>>
    OBVIOUS
  <2>2. DOMAIN parts1 = DOMAIN order /\ \A i \in DOMAIN order : parts1[i] = PartOf(order[i])
    OBVIOUS
  <2> HIDE DEF candidate, parts1
  <2>3. [i \in DOMAIN candidate.finishReason |->
            FinishEvent(candidate.finishReason[i], <<"candidates", 1 - 1>>)] = <<>>
    BY <2>1
  <2>4. [i \in DOMAIN candidate.parts |-> DeltaAt(i, candidate.parts[i])] = new
    BY <2>1, <2>2
  <2>5. CandidateEvents(candidate, 1, structured)
        = [i \in DOMAIN candidate.parts |-> DeltaAt(i, candidate.parts[i])]
          \o [i \in DOMAIN candidate.finishReason |->
                FinishEvent(candidate.finishReason[i], <<"candidates", 1 - 1>>)]
    BY DEF CandidateEvents, DeltaAt
  <2> HIDE DEF new
  <2>6. new \o <<>> = new
    BY <1>9, NothingAfter
  <2> QED
    BY <2>3, <2>4, <2>5, <2>6
<1>11. events' = events \o GeminiParse(<<candidate>>, structured)
  BY <1>3
<1> HIDE DEF new, candidate, parts1
<1>12. events' = events \o new
  BY <1>9, <1>10, <1>11, GeminiOne
<1>13. sent' = [b \in Blocks |-> IF b \in ToSet(order) THEN sent[b] + 1 ELSE sent[b]]
  BY <1>2, <1>4 DEF Count
<1>14. ToSet(order) \subseteq Blocks
  BY <1>2, <1>4
<1>15. Sends(order, new)
  BY <1>1, <1>4, <1>6, <1>7, <1>8, <1>12, <1>13, <1>14 DEF Sends
<1> QED
  BY <1>15, SendKeeps

-----------------------------------------------------------------------------
(* Ends and errors. *)

\* Events that are no fragments keep what the fragments tell.
LEMMA OthersKeepEvents ==
    ASSUME StreamsInv, NEW new, IsList(new), events' = events \o new,
           UNCHANGED <<adapter, structured, sent>>, ended \subseteq ended',
           \A e \in ToSet(new) : e.kind \in {"finish", "error"} /\ (IsEvent(e))'
    PROVE  EventsTyped' /\ PathsWhole' /\ ArgumentsWhole'
<1>1. IsList(events) /\ PathsWhole /\ ArgumentsWhole
  BY DEF StreamsInv, EventsTyped
<1>2. PathsWhole'
  BY <1>1, OthersKeepFragments
<1>3. ArgumentsWhole'
  BY <1>1, OthersKeepFragments
<1>4. IsList(events') /\ ToSet(events') = ToSet(events) \cup ToSet(new)
  BY <1>1, MoreEvents
<1>5. ASSUME NEW e \in ToSet(events) PROVE (IsEvent(e))'
  <2>1. IsEvent(e)
    BY DEF StreamsInv, EventsTyped
  <2>2. \A b : (Sendable(b))' = Sendable(b)
    BY SameNames
  <2>3. \A b, n : (Tells(b, n, e))' = Tells(b, n, e)
    BY SameNames
  <2> QED
    BY <2>1, <2>2, <2>3 DEF IsEvent
<1>6. EventsTyped'
  BY <1>4, <1>5 DEF EventsTyped
<1> QED
  BY <1>2, <1>3, <1>6

LEMMA TypedStays ==
    ASSUME StreamTyped, UNCHANGED <<adapter, structured, sent>>,
           DOMAIN why' = ChoiceIndexes, why' = [c \in ChoiceIndexes |-> why'[c]],
           adapter # "chat" => ended' \subseteq {0},
           phase' = "stopped" => adapter = "anthropic" /\ 0 \in ended'
    PROVE  StreamTyped'
<1>1. \A b : (Sendable(b))' = Sendable(b)
  BY SameNames
<1> QED
  BY <1>1 DEF StreamTyped

\* The event of a finish, adapter by adapter.
LEMMA FinishSends ==
    ASSUME StreamTyped, NEW c \in ChoiceIndexes, NEW reason \in Reasons,
           adapter = "responses" => reason = "completed", Finish(c, reason)
    PROVE  \E e : /\ events' = events \o <<e>> /\ e.kind = "finish" /\ e.reason = reason
                  /\ adapter = "chat" => e.path[2] = c
<1>1. adapter \in Protocols
  BY DEF StreamTyped
<1>2. CASE adapter = "chat"
  <2> DEFINE choice == [index |-> c, tool |-> 0, id |-> <<>>, field |-> "finish_reason", text |-> reason]
             e == FinishEvent(reason, <<"choices", c>>)
             choices == <<choice>>
  <2>1. events' = events \o ChatParse(choices, structured)
    BY <1>2 DEF Finish
  <2>2. ChatChoice(choice, structured) = <<e>>
    BY DEF ChatChoice
  <2>3. DOMAIN choices = {1} /\ choices[1] = choice
    OBVIOUS
  <2> HIDE DEF choice, choices, e
  <2> DEFINE f == [i \in DOMAIN choices |-> ChatChoice(choices[i], structured)]
  <2>4. DOMAIN f = {1} /\ f[1] = <<e>> /\ f = [i \in {1} |-> f[i]]
    BY <2>2, <2>3
  <2> HIDE DEF f
  <2>5. f = <<<<e>>>>
    BY <2>4
  <2>6. FlattenSeq(<<<<e>>>>) = <<e>>
    BY SmallLists, FlattenOne
  <2>7. ChatParse(choices, structured) = <<e>>
    BY <2>5, <2>6 DEF ChatParse, f
  <2>8. e.kind = "finish" /\ e.reason = reason /\ e.path[2] = c
    BY DEF e, FinishEvent
  <2> QED
    BY <2>1, <2>7, <2>8
<1>3. CASE adapter = "gemini"
  <2> DEFINE candidate == [parts |-> <<>>, finishReason |-> <<reason>>]
             e == FinishEvent(reason, <<"candidates", 1 - 1>>)
  <2>1. events' = events \o GeminiParse(<<candidate>>, structured)
    BY <1>3 DEF Finish
  <2>2. candidate.parts = <<>> /\ candidate.finishReason = <<reason>>
    OBVIOUS
  <2> HIDE DEF candidate, e
  <2> DEFINE first == [i \in DOMAIN candidate.parts |-> DeltaAt(i, candidate.parts[i])]
             second == [i \in DOMAIN candidate.finishReason |->
                            FinishEvent(candidate.finishReason[i], <<"candidates", 1 - 1>>)]
  <2>3. CandidateEvents(candidate, 1, structured) = first \o second
    BY DEF CandidateEvents, DeltaAt
  <2>4. first = <<>>
    BY <2>2
  <2>5. DOMAIN second = {1} /\ second[1] = e /\ second = [i \in {1} |-> second[i]]
    BY <2>2 DEF e
  <2> HIDE DEF first, second
  <2>6. second = <<e>>
    BY <2>5
  <2>7. IsList(<<e>>)
    BY SmallLists
  <2>8. <<>> \o <<e>> = <<e>>
    BY <2>7, NothingAfter
  <2>9. CandidateEvents(candidate, 1, structured) = <<e>>
    BY <2>3, <2>4, <2>6, <2>8
  <2>10. GeminiParse(<<candidate>>, structured) = <<e>>
    BY <2>7, <2>9, GeminiOne
  <2>11. e.kind = "finish" /\ e.reason = reason
    BY DEF e, FinishEvent
  <2> QED
    BY <1>3, <2>1, <2>10, <2>11
<1>4. CASE adapter = "anthropic"
  <2> DEFINE e == FinishEvent(reason, <<>>)
  <2>1. events' = events \o AnthropicParse([type |-> "message_delta", stop_reason |-> reason], structured)
    BY <1>4 DEF Finish
  <2>2. AnthropicParse([type |-> "message_delta", stop_reason |-> reason], structured) = <<e>>
    BY DEF AnthropicParse, AnthropicFinish
  <2>3. e.kind = "finish" /\ e.reason = reason
    BY DEF FinishEvent
  <2> QED
    BY <1>4, <2>1, <2>2, <2>3
<1>5. CASE adapter = "interactions"
  <2> DEFINE e == FinishEvent(reason, <<>>)
  <2>1. events' = events \o InteractionsParse(
                      [event_type |-> "interaction.completed", status |-> reason], structured)
    BY <1>5 DEF Finish
  <2>2. InteractionsParse([event_type |-> "interaction.completed", status |-> reason], structured)
        = <<e>>
    BY DEF InteractionsParse
  <2>3. e.kind = "finish" /\ e.reason = reason
    BY DEF FinishEvent
  <2> QED
    BY <1>5, <2>1, <2>2, <2>3
<1>6. CASE adapter = "responses"
  <2> DEFINE e == FinishEvent("completed", <<>>)
  <2>1. events' = events \o ResponsesParse([type |-> "response.completed"], structured)
    BY <1>6 DEF Finish
  <2>2. ResponsesParse([type |-> "response.completed"], structured) = <<e>>
    BY DEF ResponsesParse
  <2>3. e.kind = "finish" /\ e.reason = reason
    BY <1>6 DEF FinishEvent
  <2> QED
    BY <1>6, <2>1, <2>2, <2>3
<1> QED
  BY <1>1, <1>2, <1>3, <1>4, <1>5, <1>6 DEF Protocols

\* Before a choice ends, none of its events is a finish.
LEMMA NoEarlyFinish ==
    ASSUME StreamsInv, NEW c, c \notin ended, adapter = "chat" \/ c = 0,
           NEW i \in DOMAIN events, Mine(c, events[i])
    PROVE  events[i].kind # "finish"
<1>1. events[i] \in ToSet(events)
  BY ListFacts DEF StreamsInv, EventsTyped
<1>2. IsEvent(events[i])
  BY <1>1 DEF StreamsInv, EventsTyped
<1>3. CASE \E b \in Blocks, n \in Nat : Sendable(b) /\ Tells(b, n, events[i])
  BY <1>3 DEF Tells, KindOf
<1>4. CASE events[i].kind = "finish" /\ IF adapter = "chat" THEN events[i].path[2] \in ended
                                        ELSE 0 \in ended
  BY <1>4 DEF Mine
<1> QED
  BY <1>2, <1>3, <1>4 DEF IsEvent

LEMMA FinishKeeps ==
    ASSUME StreamsInv, NEW c \in ChoiceIndexes, NEW reason \in Reasons,
           adapter = "chat" \/ c = 0, adapter = "responses" => reason = "completed",
           Finish(c, reason)
    PROVE  StreamsInv'
<1>1. StreamTyped /\ EventsTyped /\ FirstFinishTellsWhy /\ IsList(events)
  BY DEF StreamsInv, EventsTyped
<1>2. /\ c \notin ended /\ ended' = ended \cup {c} /\ why' = [why EXCEPT ![c] = reason]
      /\ UNCHANGED <<adapter, structured, sent>>
  BY DEF Finish
<1>3. PICK e : /\ events' = events \o <<e>> /\ e.kind = "finish" /\ e.reason = reason
               /\ adapter = "chat" => e.path[2] = c
  BY <1>1, FinishSends
<1> DEFINE new == <<e>>
<1>4. IsList(new) /\ ToSet(new) = {e}
  BY SmallLists
<1>5. DOMAIN new = {1} /\ new[1] = e /\ Len(new) = 1
  OBVIOUS
<1>6. events' = events \o new
  BY <1>3
<1> HIDE DEF new
<1>7. why'[c] = reason /\ \A d \in ended : why'[d] = why[d]
  <2>1. why = [d \in ChoiceIndexes |-> why[d]]
    BY <1>1 DEF StreamTyped
  <2> QED
    BY <1>2, <2>1
<1>8. StreamTyped'
  <2>1. DOMAIN why' = ChoiceIndexes /\ why' = [d \in ChoiceIndexes |-> why'[d]]
    BY <1>1, <1>2 DEF StreamTyped
  <2>2. adapter # "chat" => ended' \subseteq {0}
    BY <1>1, <1>2 DEF StreamTyped
  <2>3. phase' = "stopped" => adapter = "anthropic" /\ 0 \in ended'
    <3>1. adapter # "anthropic" => phase' \in {"open", "done"}
      BY DEF Finish
    <3>2. adapter = "anthropic" => c = 0
      OBVIOUS
    <3> QED
      BY <1>2, <3>1, <3>2
  <2> QED
    BY <1>1, <1>2, <2>1, <2>2, <2>3, TypedStays
<1>9. (IsEvent(e))'
  BY <1>2, <1>3 DEF IsEvent
<1>10. \A d \in ToSet(new) : d.kind \in {"finish", "error"} /\ (IsEvent(d))'
  BY <1>3, <1>4, <1>9
<1>11. ended \subseteq ended'
  BY <1>2
<1>12. EventsTyped' /\ PathsWhole' /\ ArgumentsWhole'
  BY <1>2, <1>4, <1>6, <1>10, <1>11, OthersKeepEvents
<1>13. ASSUME NEW d \in ended PROVE (FinishTellsWhy(d))'
  <2>1. \A j \in DOMAIN new : Mine(d, new[j]) => new[j].kind = "finish"
    BY <1>3, <1>5
  <2>2. FinishTellsWhy(d)
    BY <1>1, FirstFinish
  <2> QED
    BY <1>1, <1>2, <1>4, <1>6, <1>7, <2>1, <2>2, FinishStaysFirst
<1>14. (FinishTellsWhy(c))'
  <2> DEFINE n == Len(events) + 1
  <2>1. /\ DOMAIN events = 1 .. Len(events) /\ Len(events) \in Nat
        /\ DOMAIN events' = 1 .. (Len(events) + Len(new))
    BY <1>1, <1>4, <1>6, MoreEvents
  <2>2. n \in DOMAIN events' /\ n \notin DOMAIN events /\ DOMAIN events' = 1 .. n
    BY <1>5, <2>1
  <2>3. events'[n] = e
    <3>1. n - Len(events) = 1
      BY <2>1
    <3>2. events'[n] = new[n - Len(events)]
      BY <1>1, <1>4, <1>6, <2>2, MoreEvents
    <3> QED
      BY <1>5, <3>1, <3>2
  <2>4. \A x : (Mine(c, x))' = Mine(c, x)
    BY <1>2 DEF Mine
  <2>5. \A i : (Mine(c, events[i]))' = Mine(c, events'[i])
    BY <1>2 DEF Mine
  <2>6. Mine(c, e)
    BY <1>3 DEF Mine
  <2>7. ASSUME NEW i \in DOMAIN events', Mine(c, events'[i])
        PROVE  /\ i < n => events'[i].kind # "finish"
               /\ ~ (i > n)
    <3>1. i \in 1 .. n
      BY <2>2
    <3>2. n \in Nat
      BY <2>1
    <3>3. ~ (i > n)
      BY <3>1, <3>2
    <3>4. ASSUME i < n PROVE events'[i].kind # "finish"
      <4>1. i \in DOMAIN events
        BY <2>1, <3>1, <3>4
      <4>2. events'[i] = events[i]
        BY <1>1, <1>4, <1>6, <4>1, MoreEvents
      <4> QED
        BY <1>2, <2>7, <4>1, <4>2, NoEarlyFinish
    <3> QED
      BY <3>3, <3>4
  <2> HIDE DEF n
  <2> QED
    BY <1>3, <1>7, <2>2, <2>3, <2>5, <2>6, <2>7 DEF FinishTellsWhy
<1>15. FirstFinishTellsWhy'
  BY <1>2, <1>13, <1>14, FirstFinish
<1> QED
  BY <1>8, <1>12, <1>15 DEF StreamsInv

\* A finish, an error or nothing after what ended keeps the invariant.
LEMMA LateEventsKeep ==
    ASSUME StreamsInv, NEW new, IsList(new), events' = events \o new,
           UNCHANGED <<adapter, structured, sent, ended, why>>,
           phase' = "stopped" => phase = "stopped",
           \A e \in ToSet(new) : (IsEvent(e))' /\ e.kind \in {"finish", "error"}
    PROVE  StreamsInv'
<1>1. StreamTyped /\ FirstFinishTellsWhy /\ IsList(events)
  BY DEF StreamsInv, EventsTyped
<1>2. StreamTyped'
  <2>1. DOMAIN why = ChoiceIndexes /\ why = [c \in ChoiceIndexes |-> why[c]]
    BY <1>1 DEF StreamTyped
  <2>2. adapter # "chat" => ended' \subseteq {0}
    BY <1>1 DEF StreamTyped
  <2>3. phase' = "stopped" => adapter = "anthropic" /\ 0 \in ended'
    BY <1>1 DEF StreamTyped
  <2>4. why' = why
    OBVIOUS
  <2>5. DOMAIN why' = ChoiceIndexes /\ why' = [c \in ChoiceIndexes |-> why'[c]]
    BY <2>1, <2>4
  <2> QED
    BY <1>1, <2>2, <2>3, <2>5, TypedStays
<1>3. EventsTyped' /\ PathsWhole' /\ ArgumentsWhole'
  BY OthersKeepEvents
<1>4. ASSUME NEW c \in ended PROVE (FinishTellsWhy(c))'
  <2>1. \A j \in DOMAIN new : Mine(c, new[j]) => new[j].kind = "finish"
    <3>1. \A j \in DOMAIN new : new[j] \in ToSet(new)
      BY ListFacts
    <3> QED
      BY <3>1 DEF Mine
  <2>2. FinishTellsWhy(c)
    BY <1>1, FirstFinish
  <2>3. why'[c] = why[c] /\ adapter' = adapter
    OBVIOUS
  <2> QED
    BY <1>1, <2>1, <2>2, <2>3, FinishStaysFirst
<1>5. FirstFinishTellsWhy'
  BY <1>4, FirstFinish
<1> QED
  BY <1>2, <1>3, <1>5 DEF StreamsInv

LEMMA EndKeeps == ASSUME StreamsInv, End PROVE StreamsInv'
<1> DEFINE e == FinishEvent("stop", <<>>)
           new == <<e>>
<1>1. phase = "stopped" /\ phase' = "done" /\ UNCHANGED <<adapter, structured, sent, ended, why>>
  BY DEF End
<1>2. adapter = "anthropic" /\ 0 \in ended
  BY <1>1 DEF StreamsInv, StreamTyped
<1>3. AnthropicParse([type |-> "message_stop"], structured) = new
  BY DEF AnthropicParse, AnthropicFinish
<1>4. events' = events \o new
  BY <1>3 DEF End
<1>5. e.kind = "finish"
  BY DEF FinishEvent
<1>6. IsList(new) /\ ToSet(new) = {e}
  BY SmallLists
<1> HIDE DEF new, e
<1>7. (IsEvent(e))'
  BY <1>1, <1>2, <1>5 DEF IsEvent
<1> QED
  BY <1>1, <1>4, <1>5, <1>6, <1>7, LateEventsKeep

LEMMA FailKeeps == ASSUME StreamsInv, Fail PROVE StreamsInv'
<1>1. phase' = "failed" /\ UNCHANGED <<adapter, structured, sent, ended, why>>
  BY DEF Fail
<1>2. CASE events' = events
  <2>1. IsList(events) /\ IsList(<<>>) /\ ToSet(<<>>) = {}
    BY SmallLists DEF StreamsInv, EventsTyped
  <2>2. events' = events \o <<>>
    BY <1>2, <2>1, NothingAfter
  <2> QED
    BY <1>1, <2>1, <2>2, LateEventsKeep
<1>3. CASE events' = Append(events, ErrorEvent)
  <2> DEFINE e == ErrorEvent
             new == <<e>>
  <2>1. IsList(new) /\ ToSet(new) = {e}
    BY SmallLists
  <2>2. e.kind = "error"
    BY DEF ErrorEvent
  <2>3. Append(events, e) = events \o new
    <3>1. events \in Seq(ToSet(events))
      BY DEF StreamsInv, EventsTyped, IsList
    <3> QED
      BY <3>1
  <2> HIDE DEF new, e
  <2>4. (IsEvent(e))'
    BY <2>2 DEF IsEvent
  <2>5. events' = events \o new
    BY <1>3, <2>3 DEF e
  <2> QED
    BY <1>1, <2>1, <2>2, <2>4, <2>5, LateEventsKeep
<1> QED
  BY <1>2, <1>3 DEF Fail

-----------------------------------------------------------------------------
(* Streamed answers. *)

LEMMA StreamsStart == StreamsInit => StreamsInv
<1> SUFFICES ASSUME StreamsInit PROVE StreamsInv
  OBVIOUS
<1>1. /\ adapter \in Protocols /\ structured \in BOOLEAN
      /\ sent = [b \in Blocks |-> 0] /\ ended = {} /\ phase = "open"
      /\ why = [c \in ChoiceIndexes |-> ""] /\ events = <<>>
  BY DEF StreamsInit
<1>2. IsList(events) /\ ToSet(events) = {}
  BY <1>1, SmallLists
<1> DEFINE none == 0
<1>3. sent \in [Blocks -> Nat] /\ \A b \in Blocks : sent[b] = none
  BY <1>1
<1>4. none \in Nat /\ ~ (none > 0) /\ 1 .. none = {}
  OBVIOUS
<1> HIDE DEF none
<1>5. StreamTyped
  <2>1. \A b \in Blocks : ~ (sent[b] > 0)
    BY <1>3, <1>4
  <2>2. DOMAIN why = ChoiceIndexes /\ why = [c \in ChoiceIndexes |-> why[c]]
    BY <1>1
  <2>3. ended \subseteq {0} /\ phase # "stopped"
    BY <1>1
  <2> QED
    BY <1>1, <1>3, <2>1, <2>2, <2>3 DEF StreamTyped
<1>6. ASSUME NEW b \in Blocks, NEW kinds, NEW field, NEW v
      PROVE  Texts(Picked(events, kinds, field, v)) = Fragments(b)
  <2>1. Picked(events, kinds, field, v) = <<>>
    BY <1>2, PickedNone
  <2>2. Fragments(b) = <<>>
    <3>1. 1 .. sent[b] = {}
      BY <1>3, <1>4
    <3> QED
      BY <3>1 DEF Fragments
  <2> QED
    BY <2>1, <2>2, TextsOfFew
<1>7. PathsWhole
  BY <1>6 DEF PathsWhole
<1>8. ArgumentsWhole
  BY <1>6 DEF ArgumentsWhole
<1>9. EventsTyped
  BY <1>2 DEF EventsTyped
<1>10. FirstFinishTellsWhy
  BY <1>1 DEF FirstFinishTellsWhy
<1> QED
  BY <1>5, <1>7, <1>8, <1>9, <1>10 DEF StreamsInv

\* No step of a provider or of its adapter breaks the invariant.
THEOREM StreamedInductive == StreamsSpec => []StreamsInv
<1>1. ASSUME StreamsInv, StreamsNext PROVE StreamsInv'
  <2>1. CASE SendChat
    BY <1>1, <2>1, SendChatKeeps
  <2>2. CASE SendResponses
    BY <1>1, <2>2, SendResponsesKeeps
  <2>3. CASE SendAnthropic
    BY <1>1, <2>3, SendAnthropicKeeps
  <2>4. CASE SendInteractions
    BY <1>1, <2>4, SendInteractionsKeeps
  <2>5. CASE SendGemini
    BY <1>1, <2>5, SendGeminiKeeps
  <2>6. ASSUME NEW c \in ChoiceIndexes, NEW reason \in Reasons,
               adapter = "chat" \/ c = 0, adapter = "responses" => reason = "completed",
               Finish(c, reason)
        PROVE  StreamsInv'
    BY <1>1, <2>6, FinishKeeps
  <2>7. CASE End
    BY <1>1, <2>7, EndKeeps
  <2>8. CASE Fail
    BY <1>1, <2>8, FailKeeps
  <2> QED
    BY <1>1, <2>1, <2>2, <2>3, <2>4, <2>5, <2>6, <2>7, <2>8 DEF StreamsNext
<1>2. ASSUME StreamsInv, UNCHANGED streamsVars PROVE StreamsInv'
  <2>1. /\ UNCHANGED <<adapter, structured, sent, ended, why>> /\ phase' = phase
        /\ events' = events
    BY <1>2 DEF streamsVars
  <2>2. IsList(events) /\ IsList(<<>>) /\ ToSet(<<>>) = {}
    BY <1>2, SmallLists DEF StreamsInv, EventsTyped
  <2>3. events' = events \o <<>>
    BY <2>1, <2>2, NothingAfter
  <2> QED
    BY <1>2, <2>1, <2>2, <2>3, LateEventsKeep
<1> QED
  BY <1>1, <1>2, StreamsStart, PTL DEF StreamsSpec

\* A block that was sent from has fragments among what is picked by its value.
LEMMA PickedHasSome ==
    ASSUME StreamsInv, NEW b \in Blocks, sent[b] > 0, NEW kinds, NEW field, NEW v,
           Texts(Picked(events, kinds, field, v)) = Fragments(b)
    PROVE  LET all == Having(events, "kind", kinds)
           IN  v \in {all[i][field] : i \in DOMAIN all}
<1> DEFINE all == Having(events, "kind", kinds)
           mine == Picked(events, kinds, field, v)
<1>1. IsList(events)
  BY DEF StreamsInv, EventsTyped
<1>2. IsList(all) /\ ToSet(all) = {x \in ToSet(events) : x["kind"] \in kinds}
  BY <1>1, HavingMembers
<1>3. IsList(mine) /\ ToSet(mine) = {x \in ToSet(events) : x.kind \in kinds /\ x[field] = v}
  BY <1>1, PickedMembers
<1>4. DOMAIN mine = 1 .. sent[b]
  <2>1. DOMAIN Texts(mine) = DOMAIN mine /\ DOMAIN Fragments(b) = 1 .. sent[b]
    BY DEF Texts, Fragments
  <2> QED
    BY <2>1
<1>5. sent[b] \in Nat
  BY DEF StreamsInv, StreamTyped
<1>6. 1 \in DOMAIN mine
  BY <1>4, <1>5
<1> HIDE DEF mine, all
<1>7. mine[1] \in ToSet(mine)
  BY <1>3, <1>6, ListFacts
<1>8. mine[1] \in ToSet(all) /\ mine[1][field] = v
  BY <1>2, <1>3, <1>7
<1>9. \E i \in DOMAIN all : mine[1] = all[i]
  BY <1>2, <1>8, ListFacts
<1> QED
  BY <1>8, <1>9 DEF all

\* Who joins the fragments a provider streamed has every block whole, in order and
\* apart from the others, typed as what it is, and knows why the answer ended.
THEOREM StreamsStayWhole == StreamsSpec => []StreamedBlocksStayWhole
<1>1. StreamsInv => StreamedBlocksStayWhole
  <2> SUFFICES ASSUME StreamsInv PROVE StreamedBlocksStayWhole
    OBVIOUS
  <2>1. \A b \in Blocks : sent[b] > 0 => Sendable(b)
    BY DEF StreamsInv, StreamTyped
  <2>2. Deltas = Having(events, "kind", DeltaKinds)
    BY DEF Deltas, DeltaKinds
  <2>3. PathsKeepBlocksApart
    <3> SUFFICES ASSUME adapter # "gemini", NEW b \in Blocks, sent[b] > 0
                 PROVE  \E p \in {Deltas[i].path : i \in DOMAIN Deltas} :
                            Texts(Having(Deltas, "path", {p})) = Fragments(b)
      BY DEF PathsKeepBlocksApart
    <3>1. Texts(Picked(events, DeltaKinds, "path", PathOf(b))) = Fragments(b)
      BY <2>1 DEF StreamsInv, PathsWhole
    <3>2. PathOf(b) \in {Deltas[i].path : i \in DOMAIN Deltas}
      BY <2>2, <3>1, PickedHasSome
    <3>3. Texts(Having(Deltas, "path", {PathOf(b)})) = Fragments(b)
      BY <2>2, <3>1 DEF Picked
    <3> QED
      BY <3>2, <3>3
  <2>4. CallsKeepTheirArguments
    <3> DEFINE calls == Having(events, "kind", {"arguments"})
    <3>1. ASSUME adapter # "chat", NEW b \in Blocks, b.kind = "call", sent[b] > 0
          PROVE  \E id \in {calls[i].call : i \in DOMAIN calls} :
                     Texts(Having(calls, "call", {id})) = Fragments(b)
      <4>1. Texts(Picked(events, {"arguments"}, "call", IdOf(b))) = Fragments(b)
        BY <2>1, <3>1 DEF StreamsInv, ArgumentsWhole
      <4>2. IdOf(b) \in {calls[i].call : i \in DOMAIN calls}
        BY <3>1, <4>1, PickedHasSome
      <4>3. Texts(Having(calls, "call", {IdOf(b)})) = Fragments(b)
        BY <4>1 DEF Picked
      <4> QED
        BY <4>2, <4>3
    <3> QED
      BY <3>1 DEF CallsKeepTheirArguments
  <2>5. StructuredIsTyped
    <3> SUFFICES ASSUME NEW i \in DOMAIN Deltas
                 PROVE  Deltas[i].kind = CASE Deltas[i].text[1].kind = "call" -> "arguments"
                           [] Deltas[i].text[1].kind = "text" /\ structured -> "structured"
                           [] OTHER -> "text"
      BY DEF StructuredIsTyped
    <3> DEFINE e == Deltas[i]
    <3>1. IsList(events)
      BY DEF StreamsInv, EventsTyped
    <3>2. IsList(Deltas) /\ ToSet(Deltas) = {x \in ToSet(events) : x["kind"] \in DeltaKinds}
      BY <2>2, <3>1, HavingMembers
    <3>3. e \in ToSet(Deltas)
      BY <3>2, ListFacts
    <3> HIDE DEF e
    <3>4. e \in ToSet(events) /\ e.kind \in DeltaKinds
      BY <3>2, <3>3
    <3>5. IsEvent(e)
      BY <3>4 DEF StreamsInv, EventsTyped
    <3>6. PICK b \in Blocks, n \in Nat : Tells(b, n, e)
      BY <3>4, <3>5 DEF IsEvent, DeltaKinds
    <3>7. e.text[1] = b /\ e.kind = KindOf(b)
      BY <3>6 DEF Tells
    <3>8. e.kind = CASE e.text[1].kind = "call" -> "arguments"
                     [] e.text[1].kind = "text" /\ structured -> "structured"
                     [] OTHER -> "text"
      BY <3>7 DEF KindOf
    <3> QED
      BY <3>8 DEF e
  <2>6. FirstFinishTellsWhy
    BY DEF StreamsInv
  <2> QED
    BY <2>3, <2>4, <2>5, <2>6 DEF StreamedBlocksStayWhole
<1> QED
  BY <1>1, StreamedInductive, PTL
==============================================================================
