---------------------------- MODULE PrivacyProofs -----------------------------
(***************************************************************************)
(* Proofs about the privacy runtime: what the sorted rules of a document   *)
(* and the entries of a legacy one decide, that every decision is the one  *)
(* of the document, and hence that nothing is clear without permission.    *)
(***************************************************************************)
EXTENDS PrivacyRuntime, Induction, FiniteSetTheorems, SequenceTheorems

----------------------------------------------------------------------------
(* Order. *)

\* A set of numbers has a least one.
LEMMA LeastExists ==
    ASSUME NEW S \in SUBSET Nat, S # {}
    PROVE  Min(S) \in S /\ \A n \in S : Min(S) <= n
BY LeastOfNumbers DEF Min

\* A bounded one has a greatest.
LEMMA GreatestExists ==
    ASSUME NEW N \in Nat, NEW S \in SUBSET (0 .. N), S # {}
    PROVE  Max(S) \in S /\ \A n \in S : n <= Max(S)
<1> DEFINE T == {k \in 0 .. N : N - k \in S}
<1>1. T \in SUBSET Nat /\ T # {}
  <2>1. PICK n \in S : n \in 0 .. N
    OBVIOUS
  <2>2. N - n \in T
    BY <2>1
  <2> QED
    BY <2>2
<1>2. Min(T) \in T /\ \A n \in T : Min(T) <= n
  <2> HIDE DEF T
  <2> QED
    BY <1>1, LeastExists
<1>3. PICK m \in S : m = N - Min(T)
  BY <1>2
<1>4. ASSUME NEW n \in S PROVE n <= m
  <2>1. N - n \in T
    OBVIOUS
  <2>2. Min(T) <= N - n /\ Min(T) \in 0 .. N
    BY <1>2, <2>1
  <2> QED
    BY <1>3, <2>2
<1>5. \E x \in S : \A n \in S : x >= n
  BY <1>4
<1> QED
  BY <1>5 DEF Max

\* What is mapped one to one into as many meets all of them.
LEMMA OntoByCounting ==
    ASSUME NEW N \in Nat, NEW f \in [1 .. N -> 1 .. N],
           \A i, j \in 1 .. N : f[i] = f[j] => i = j,
           NEW n \in 1 .. N
    PROVE  \E i \in 1 .. N : f[i] = n
<1> DEFINE S == 1 .. N
           T == S \ {n}
<1>1. IsFiniteSet(S) /\ Cardinality(S) = N
  BY FS_Interval
<1>2. IsFiniteSet(T) /\ Cardinality(T) = N - 1
  <2> HIDE DEF S
  <2>1. n \in S
    BY DEF S
  <2> QED
    BY <1>1, <2>1, FS_RemoveElement
<1>3. SUFFICES ASSUME \A i \in S : f[i] # n PROVE FALSE
  OBVIOUS
<1>4. f \in [S -> T]
  BY <1>3
<1>5. Cardinality(T) < Cardinality(S)
  BY <1>1, <1>2
<1> HIDE DEF S, T
<1>6. \E i, j \in S : i # j /\ f[i] = f[j]
  BY SMTT(30), <1>1, <1>2, <1>4, <1>5, FS_PigeonHole
<1> QED
  BY <1>6 DEF S

\* before is a total order on the numbers up to N.
Orders(before, N) ==
    /\ \A i \in 1 .. N : <<i, i>> \in before
    /\ \A i, j \in 1 .. N : <<i, j>> \in before \/ <<j, i>> \in before
    /\ \A i, j \in 1 .. N : <<i, j>> \in before /\ <<j, i>> \in before => i = j
    /\ \A i, j, k \in 1 .. N :
          <<i, j>> \in before /\ <<j, k>> \in before => <<i, k>> \in before

\* How many there are up to i.
Rank(before, N, i) == Cardinality({j \in 1 .. N : <<j, i>> \in before})

\* Each place in the order is taken by one.
LEMMA Places ==
    ASSUME NEW N \in Nat, NEW before, Orders(before, N)
    PROVE  /\ \A i \in 1 .. N : Rank(before, N, i) \in 1 .. N
           /\ \A i, j \in 1 .. N :
                 <<i, j>> \in before /\ i # j => Rank(before, N, i) < Rank(before, N, j)
           /\ \A n \in 1 .. N : \E i \in 1 .. N : Rank(before, N, i) = n
<1> DEFINE upTo(i) == {j \in 1 .. N : <<j, i>> \in before}
<1>1. IsFiniteSet(1 .. N) /\ Cardinality(1 .. N) = N
  BY FS_Interval
<1>2. ASSUME NEW i \in 1 .. N
      PROVE  /\ IsFiniteSet(upTo(i)) /\ Cardinality(upTo(i)) \in 1 .. N
             /\ Rank(before, N, i) = Cardinality(upTo(i))
  <2>1. upTo(i) \in SUBSET (1 .. N) /\ i \in upTo(i)
    BY DEF Orders
  <2> HIDE DEF upTo
  <2>2. /\ IsFiniteSet(upTo(i)) /\ Cardinality(upTo(i)) <= N
        /\ Cardinality(upTo(i)) \in Nat /\ Cardinality(upTo(i)) # 0
    BY <1>1, <2>1, FS_Subset, FS_CardinalityType, FS_EmptySet
  <2> QED
    BY <2>2 DEF Rank, upTo
<1>3. ASSUME NEW i \in 1 .. N, NEW j \in 1 .. N, <<i, j>> \in before, i # j
      PROVE  Cardinality(upTo(i)) < Cardinality(upTo(j))
  <2>1. upTo(i) \in SUBSET upTo(j) /\ j \in upTo(j) /\ j \notin upTo(i)
    BY <1>3 DEF Orders
  <2> HIDE DEF upTo
  <2>2. /\ Cardinality(upTo(i)) <= Cardinality(upTo(j))
        /\ Cardinality(upTo(i)) # Cardinality(upTo(j))
    BY <1>2, <2>1, FS_Subset
  <2> QED
    BY <1>2, <2>2
<1> HIDE DEF upTo
<1> DEFINE f == [i \in 1 .. N |-> Rank(before, N, i)]
<1>4. f \in [1 .. N -> 1 .. N]
  BY <1>2
<1>5. ASSUME NEW i \in 1 .. N, NEW j \in 1 .. N, f[i] = f[j] PROVE i = j
  <2>1. PICK n \in Nat : n = Cardinality(upTo(i)) /\ n = Cardinality(upTo(j))
    BY <1>2, <1>5
  <2>2. ~ (n < n)
    BY <2>1
  <2>3. i # j => <<i, j>> \in before \/ <<j, i>> \in before
    BY DEF Orders
  <2> QED
    BY <1>3, <2>1, <2>2, <2>3
<1>6. \A n \in 1 .. N : \E i \in 1 .. N : f[i] = n
  <2> HIDE DEF f
  <2> QED
    BY <1>4, <1>5, OntoByCounting
<1> QED
  BY <1>2, <1>3, <1>6, SMTT(60)

----------------------------------------------------------------------------
(* The order of the rules. *)

\* The rules by falling priority, all of them.
Sorted(s, rules) ==
    /\ s = [n \in 1 .. Len(rules) |-> s[n]]
    /\ \A n \in 1 .. Len(rules) : \E i \in 1 .. Len(rules) : s[n] = rules[i]
    /\ \A i \in 1 .. Len(rules) : \E n \in 1 .. Len(rules) : s[n] = rules[i]
    /\ \A m, n \in 1 .. Len(rules) : m < n => s[m].priority > s[n].priority

\* No two rules have the same priority.
Ranked(rules) ==
    /\ \A i \in 1 .. Len(rules) : rules[i].priority \in Int
    /\ \A i, j \in 1 .. Len(rules) : rules[i].priority = rules[j].priority => i = j

\* InOrder (sorted() in load_policy_v2) sorts.
LEMMA InOrderSorts ==
    ASSUME NEW V, NEW rules \in Seq(V), Ranked(rules)
    PROVE  Sorted(InOrder(rules), rules)
<1> DEFINE N == Len(rules)
           pr == [i \in 1 .. N |-> rules[i].priority]
           before == {p \in (1 .. N) \X (1 .. N) :
                         \/ pr[p[1]] > pr[p[2]]
                         \/ pr[p[1]] = pr[p[2]] /\ p[1] <= p[2]}
           at == [n \in 1 .. N |-> CHOOSE i \in DOMAIN rules : PlaceOf(rules, i) = n]
           s == InOrder(rules)
<1>1. N \in Nat /\ DOMAIN rules = 1 .. N
  OBVIOUS
<1>2. pr \in [1 .. N -> Int] /\ \A i, j \in 1 .. N : pr[i] = pr[j] => i = j
  BY DEF Ranked
<1>3. \A i, j \in 1 .. N :
         <<i, j>> \in before <=> pr[i] > pr[j] \/ (pr[i] = pr[j] /\ i <= j)
  <2> HIDE DEF pr
  <2> QED
    OBVIOUS
<1>4. Orders(before, N)
  <2> HIDE DEF before, N, pr
  <2>1. \A i \in 1 .. N : <<i, i>> \in before
    BY <1>1, <1>2, <1>3
  <2>2. ASSUME NEW i \in 1 .. N, NEW j \in 1 .. N
        PROVE  <<i, j>> \in before \/ <<j, i>> \in before
    <3>1. PICK x \in Int, y \in Int : x = pr[i] /\ y = pr[j]
      BY <1>2
    <3>2. i <= j \/ j <= i
      BY <1>1
    <3> QED
      BY <1>3, <3>1, <3>2
  <2>3. \A i, j \in 1 .. N : <<i, j>> \in before /\ <<j, i>> \in before => i = j
    BY <1>1, <1>2, <1>3
  <2>4. \A i, j, k \in 1 .. N :
           <<i, j>> \in before /\ <<j, k>> \in before => <<i, k>> \in before
    BY <1>1, <1>2, <1>3, SMTT(60)
  <2> QED
    BY <2>1, <2>2, <2>3, <2>4 DEF Orders
<1>5. ASSUME NEW i \in 1 .. N PROVE PlaceOf(rules, i) = Rank(before, N, i)
  <2>1. \A j \in 1 .. N : <<j, i>> \in before <=>
            \/ rules[j].priority > rules[i].priority
            \/ rules[j].priority = rules[i].priority /\ j <= i
    <3>1. \A j \in 1 .. N : pr[j] = rules[j].priority /\ pr[i] = rules[i].priority
      OBVIOUS
    <3> HIDE DEF before, N, pr
    <3> QED
      BY <1>3, <3>1
  <2> HIDE DEF before, N
  <2>2. {j \in 1 .. N : <<j, i>> \in before} =
           {j \in DOMAIN rules :
               \/ rules[j].priority > rules[i].priority
               \/ rules[j].priority = rules[i].priority /\ j <= i}
    BY <1>1, <2>1
  <2> QED
    BY <2>2 DEF Rank, PlaceOf
<1>6. s = [n \in 1 .. N |-> s[n]] /\ \A n \in 1 .. N : s[n] = rules[at[n]]
  BY <1>1 DEF InOrder
<1> HIDE DEF before, s
<1>7. ASSUME NEW n \in 1 .. N PROVE at[n] \in 1 .. N /\ Rank(before, N, at[n]) = n
  <2>1. \E i \in 1 .. N : Rank(before, N, i) = n
    BY <1>1, <1>4, Places
  <2>2. \E i \in DOMAIN rules : PlaceOf(rules, i) = n
    BY <1>1, <1>5, <2>1
  <2>3. at[n] \in DOMAIN rules /\ PlaceOf(rules, at[n]) = n
    BY <2>2
  <2> QED
    BY <1>1, <1>5, <2>3
<1> HIDE DEF at
<1>8. ASSUME NEW i \in 1 .. N PROVE \E n \in 1 .. N : at[n] = i
  <2>1. PICK r \in 1 .. N : r = Rank(before, N, i)
    BY <1>1, <1>4, Places
  <2>2. PICK j \in 1 .. N : j = at[r] /\ Rank(before, N, j) = r
    BY <1>7
  <2>3. ~ (r < r)
    OBVIOUS
  <2>4. i = j
    BY <1>1, <1>4, <2>1, <2>2, <2>3, Places DEF Orders
  <2> QED
    BY <2>2, <2>4
<1>9. ASSUME NEW m \in 1 .. N, NEW n \in 1 .. N, m < n
      PROVE  s[m].priority > s[n].priority
  <2>1. PICK i \in 1 .. N : i = at[m] /\ Rank(before, N, i) = m
    BY <1>7
  <2>2. PICK j \in 1 .. N : j = at[n] /\ Rank(before, N, j) = n
    BY <1>7
  <2>3. i # j /\ ~ (n < m)
    BY <1>9, <2>1, <2>2
  <2>4. <<j, i>> \in before => Rank(before, N, j) < Rank(before, N, i)
    BY <1>1, <1>4, <2>3, Places
  <2>5. <<i, j>> \in before
    BY <1>4, <2>1, <2>2, <2>3, <2>4 DEF Orders
  <2>6. pr[i] > pr[j]
    <3> HIDE DEF pr, N
    <3> QED
      BY <1>2, <1>3, <2>3, <2>5
  <2> QED
    BY <1>6, <2>1, <2>2, <2>6
<1>10. \A n \in 1 .. N : \E i \in 1 .. N : s[n] = rules[i]
  BY <1>6, <1>7
<1>11. \A i \in 1 .. N : \E n \in 1 .. N : s[n] = rules[i]
  BY <1>6, <1>8
<1> QED
  BY <1>6, <1>9, <1>10, <1>11 DEF Sorted, s

\* There is only one way to sort them.
LEMMA SortedOnce ==
    ASSUME NEW V, NEW rules \in Seq(V), Ranked(rules),
           NEW s, Sorted(s, rules), NEW t, Sorted(t, rules)
    PROVE  s = t
<1> DEFINE N == Len(rules)
           sp == [n \in 1 .. N |-> s[n].priority]
           tp == [n \in 1 .. N |-> t[n].priority]
           T == {n \in Nat : \A m \in 1 .. N : m <= n => s[m] = t[m]}
<1>1. N \in Nat
  OBVIOUS
<1>2. 0 \in T
  OBVIOUS
<1>3. \A n \in 1 .. N : \E i \in 1 .. N : t[i] = s[n]
  <2> SUFFICES ASSUME NEW n \in 1 .. N PROVE \E i \in 1 .. N : t[i] = s[n]
    OBVIOUS
  <2>1. PICK k \in 1 .. N : s[n] = rules[k]
    BY DEF Sorted
  <2> QED
    BY ZenonT(60), <2>1 DEF Sorted
<1>4. \A n \in 1 .. N : \E i \in 1 .. N : s[i] = t[n]
  <2> SUFFICES ASSUME NEW n \in 1 .. N PROVE \E i \in 1 .. N : s[i] = t[n]
    OBVIOUS
  <2>1. PICK k \in 1 .. N : t[n] = rules[k]
    BY DEF Sorted
  <2> QED
    BY <2>1, ZenonT(60) DEF Sorted
<1>5. sp \in [1 .. N -> Int] /\ tp \in [1 .. N -> Int]
  <2>1. ASSUME NEW n \in 1 .. N PROVE s[n].priority \in Int /\ t[n].priority \in Int
    <3>1. PICK i \in 1 .. N : s[n] = rules[i]
      BY DEF Sorted
    <3>2. PICK j \in 1 .. N : t[n] = rules[j]
      BY DEF Sorted
    <3> QED
      BY <3>1, <3>2 DEF Ranked
  <2> QED
    BY <2>1
<1>6. /\ \A m, n \in 1 .. N : m < n => sp[m] > sp[n]
      /\ \A m, n \in 1 .. N : m < n => tp[m] > tp[n]
  BY DEF Sorted
<1>7. /\ \A m, n \in 1 .. N : s[m] = t[n] => sp[m] = tp[n]
      /\ \A m, n \in 1 .. N : s[m] = s[n] => sp[m] = sp[n]
      /\ \A m, n \in 1 .. N : t[m] = t[n] => tp[m] = tp[n]
  OBVIOUS
<1> HIDE DEF N, sp, tp
<1>8. ASSUME NEW n \in Nat, n \in T PROVE n + 1 \in T
  <2> SUFFICES ASSUME n + 1 \in 1 .. N PROVE s[n + 1] = t[n + 1]
    BY <1>1, <1>8
  <2> PICK k \in 1 .. N : k = n + 1
    OBVIOUS
  <2>1. \A m \in 1 .. N : m < k => s[m] = t[m]
    BY <1>1, <1>8
  <2>2. PICK i \in 1 .. N : t[i] = s[k]
    BY <1>3
  <2>3. PICK j \in 1 .. N : s[j] = t[k]
    BY <1>4
  <2>4. ASSUME i < k PROVE FALSE
    <3>1. sp[i] > sp[k]
      BY <1>6, <2>4
    <3>2. sp[i] = sp[k]
      BY <1>7, <2>1, <2>2, <2>4
    <3> QED
      BY <1>5, <3>1, <3>2
  <2>5. ASSUME j < k PROVE FALSE
    <3>1. tp[j] > tp[k]
      BY <1>6, <2>5
    <3>2. tp[j] = tp[k]
      BY <1>7, <2>1, <2>3, <2>5
    <3> QED
      BY <1>5, <3>1, <3>2
  <2>6. ASSUME k < i PROVE FALSE
    <3>1. tp[k] > tp[i]
      BY <1>6, <2>6
    <3>2. tp[i] = sp[k] /\ tp[k] = sp[j]
      BY <1>7, <2>2, <2>3
    <3>3. k < j \/ k = j
      BY <1>1, <2>5
    <3>4. k < j => sp[k] > sp[j]
      BY <1>6
    <3> QED
      BY <1>5, <3>1, <3>2, <3>3, <3>4
  <2> QED
    BY <1>1, <2>2, <2>4, <2>6
<1> HIDE DEF T
<1>9. \A n \in Nat : n \in T => n + 1 \in T
  BY <1>8
<1>10. Nat \subseteq T
  BY <1>2, <1>9, NaturalsByInduction DEF T
<1>11. \A m \in 1 .. N : s[m] = t[m]
  BY <1>1, <1>10 DEF T
<1> QED
  BY <1>11 DEF Sorted, N

\* In whatever order the file lists its rules, one list comes out.
LEMMA OrderOfFile ==
    ASSUME NEW V, NEW rules \in Seq(V), Ranked(rules)
    PROVE  InOrder(Reverse(rules)) = InOrder(rules)
<1> DEFINE N == Len(rules)
           back == Reverse(rules)
<1>1. N \in Nat
  OBVIOUS
<1>2. /\ back \in Seq(V) /\ Len(back) = N
      /\ \A i \in 1 .. N : back[i] = rules[(N - i) + 1] /\ (N - i) + 1 \in 1 .. N
      /\ \A i \in 1 .. N : rules[i] = back[(N - i) + 1] /\ (N - i) + 1 \in 1 .. N
  BY <1>1 DEF Reverse
<1> HIDE DEF back, N
<1>3. Ranked(back)
  <2>1. \A i \in 1 .. N : back[i].priority \in Int
    BY <1>2 DEF Ranked, N
  <2>2. ASSUME NEW i \in 1 .. N, NEW j \in 1 .. N, back[i].priority = back[j].priority
        PROVE  i = j
    <3>1. PICK k \in 1 .. N : k = (N - i) + 1
      BY <1>2
    <3>2. PICK l \in 1 .. N : l = (N - j) + 1
      BY <1>2
    <3>3. rules[k].priority = rules[l].priority
      BY <1>2, <2>2, <3>1, <3>2
    <3>4. k = l
      BY <3>3 DEF Ranked, N
    <3> QED
      BY <1>1, <3>1, <3>2, <3>4
  <2> QED
    BY <1>2, <2>1, <2>2 DEF Ranked
<1>4. Sorted(InOrder(back), back)
  BY <1>2, <1>3, InOrderSorts
<1>5. Sorted(InOrder(back), rules)
  <2> DEFINE s == InOrder(back)
  <2> HIDE DEF s
  <2>1. /\ s = [n \in 1 .. N |-> s[n]]
        /\ \A n \in 1 .. N : \E i \in 1 .. N : s[n] = back[i]
        /\ \A i \in 1 .. N : \E n \in 1 .. N : s[n] = back[i]
        /\ \A m, n \in 1 .. N : m < n => s[m].priority > s[n].priority
    BY <1>2, <1>4 DEF Sorted, s
  <2>2. ASSUME NEW n \in 1 .. N PROVE \E i \in 1 .. N : s[n] = rules[i]
    <3>1. PICK i \in 1 .. N : s[n] = back[i]
      BY <2>1
    <3>2. PICK k \in 1 .. N : back[i] = rules[k]
      BY <1>2
    <3> QED
      BY <3>1, <3>2
  <2>3. ASSUME NEW i \in 1 .. N PROVE \E n \in 1 .. N : s[n] = rules[i]
    <3>1. PICK k \in 1 .. N : rules[i] = back[k]
      BY <1>2
    <3> QED
      BY <2>1, <3>1
  <2> QED
    BY <2>1, <2>2, <2>3 DEF Sorted, N, s
<1>6. Sorted(InOrder(rules), rules)
  BY InOrderSorts
<1> QED
  BY <1>5, <1>6, SortedOnce DEF back

----------------------------------------------------------------------------
(* What a loaded document decides. *)

\* The first rule of the sorted ones that applies outranks all that apply, and
\* is the only one that does.
LEMMA FirstIsForemost ==
    ASSUME NEW V, NEW rules \in Seq(V), Ranked(rules), NEW facts,
           NEW n, n = MatchingRule(InOrder(rules), facts)
    PROVE  /\ n = 0 => \A i \in 1 .. Len(rules) : ~ Matches(rules[i], facts)
           /\ n # 0 => \E k \in 1 .. Len(rules) :
                 /\ InOrder(rules)[n] = rules[k] /\ Matches(rules[k], facts)
                 /\ \A i \in 1 .. Len(rules) : Matches(rules[i], facts) =>
                       /\ rules[i].priority <= rules[k].priority
                       /\ rules[i].priority = rules[k].priority => i = k
<1> DEFINE N == Len(rules)
           s == InOrder(rules)
           S == {m \in 1 .. N : Matches(s[m], facts)}
<1>1. N \in Nat
  OBVIOUS
<1>2. Sorted(s, rules)
  BY InOrderSorts
<1>3. n = IF S = {} THEN 0 ELSE Min(S)
  <2>1. DOMAIN s = 1 .. N
    BY <1>2 DEF Sorted
  <2>2. {m \in DOMAIN s : Matches(s[m], facts)} = S
    BY <2>1
  <2> QED
    BY <2>2 DEF MatchingRule
<1> HIDE DEF s
<1>4. CASE S = {}
  <2>1. n = 0
    BY <1>3, <1>4
  <2>2. ASSUME NEW i \in 1 .. N PROVE ~ Matches(rules[i], facts)
    <3>1. PICK m \in 1 .. N : s[m] = rules[i]
      BY <1>2 DEF Sorted
    <3> QED
      BY <1>4, <3>1
  <2> QED
    BY <2>1, <2>2
<1>5. CASE S # {}
  <2>1. S \in SUBSET Nat
    BY <1>1
  <2>2. n \in S /\ \A m \in S : n <= m
    <3> HIDE DEF S
    <3>1. Min(S) \in S /\ \A m \in S : Min(S) <= m
      BY <1>5, <2>1, LeastExists
    <3>2. n = Min(S)
      BY <1>3, <1>5
    <3> QED
      BY <3>1, <3>2
  <2>3. n \in 1 .. N /\ n # 0 /\ Matches(s[n], facts)
    BY <1>1, <2>2
  <2>4. PICK k \in 1 .. N : s[n] = rules[k]
    BY <1>2, <2>3 DEF Sorted
  <2>5. ASSUME NEW i \in 1 .. N, Matches(rules[i], facts)
        PROVE  /\ rules[i].priority <= rules[k].priority
               /\ rules[i].priority = rules[k].priority => i = k
    <3>1. PICK m \in 1 .. N : s[m] = rules[i]
      BY <1>2 DEF Sorted
    <3>2. n <= m
      BY <2>2, <2>5, <3>1
    <3>3. n < m => s[n].priority > s[m].priority
      BY <1>2, <2>3 DEF Sorted
    <3>4. PICK x \in Int, y \in Int : x = rules[i].priority /\ y = rules[k].priority
      BY DEF Ranked
    <3>5. n = m \/ y > x
      BY <1>1, <2>3, <2>4, <3>1, <3>2, <3>3, <3>4
    <3>6. n = m => x = y
      BY <2>4, <3>1, <3>4
    <3>7. x = y => i = k
      BY <3>4 DEF Ranked
    <3> QED
      BY <3>4, <3>5, <3>6, <3>7
  <2> QED
    BY <2>3, <2>4, <2>5 DEF s
<1> QED
  BY <1>4, <1>5

\* What was read from a file of version 2.
ReadRules(raw) ==
    /\ "entries" \notin DOMAIN raw
    /\ raw.rules \in Seq(ToSet(raw.rules))
    /\ raw.assertions \in Seq(ToSet(raw.assertions))
    /\ \A a \in ToSet(raw.assertions) : a.expires \in Int

\* What loads has an order.
LEMMA LoadedIsRanked ==
    ASSUME NEW raw, ReadRules(raw), Loads(raw)
    PROVE  Ranked(raw.rules)
<1> DEFINE N == Len(raw.rules)
<1>1. DOMAIN raw.rules = 1 .. N
  BY DEF ReadRules
<1>2. \A i \in 1 .. N : raw.rules[i].priority \in Int
  BY <1>1 DEF Loads, RuleLoads
<1>3. \A i, j \in 1 .. N :
         raw.rules[i].priority = raw.rules[j].priority => i = j
  BY <1>1 DEF Loads, Unique, Distinct, IsInjective
<1> QED
  BY <1>2, <1>3 DEF Ranked

\* A clear value has the foremost rule or an assertion on its side.
LEMMA LoadedDecides ==
    ASSUME NEW raw, ReadRules(raw), Loads(raw), NEW facts, NEW value, NEW now,
           NEW d, d = Decide(Load(raw), facts, value, now)
    PROVE  /\ d \in [action : PrivacyAction, by : {"rule", "assertion", "default"}]
           /\ d.by = "default" => d.action \in Prohibition
           /\ d.action = "ALLOW" =>
                 \/ \E k \in 1 .. Len(raw.rules) :
                       /\ raw.rules[k].action = "ALLOW" /\ Matches(raw.rules[k], facts)
                       /\ \A i \in 1 .. Len(raw.rules) : Matches(raw.rules[i], facts) =>
                             raw.rules[i].priority <= raw.rules[k].priority
                 \/ /\ \E i \in DOMAIN raw.assertions :
                          Asserts(raw.assertions[i], facts, value, now)
                    /\ \A k \in 1 .. Len(raw.rules) :
                          /\ Matches(raw.rules[k], facts)
                          /\ \A i \in 1 .. Len(raw.rules) : Matches(raw.rules[i], facts) =>
                                raw.rules[i].priority <= raw.rules[k].priority
                          => raw.rules[k].action \notin Prohibition
<1> DEFINE rules == raw.rules
           N == Len(rules)
           s == InOrder(rules)
           n == MatchingRule(s, facts)
           asserted == \E i \in DOMAIN raw.assertions :
                          Asserts(raw.assertions[i], facts, value, now)
<1>1. rules \in Seq(ToSet(rules)) /\ Ranked(rules) /\ N \in Nat /\ DOMAIN rules = 1 .. N
  BY LoadedIsRanked DEF ReadRules
<1>2. /\ raw.default \in Prohibition
      /\ \A i \in 1 .. N : rules[i].action \in PrivacyAction
  BY <1>1 DEF Loads, RuleLoads
<1>3. d = IF n # 0 /\ s[n].action \in Prohibition THEN Decision(s[n].action, "rule")
          ELSE IF asserted THEN Decision("ALLOW", "assertion")
          ELSE IF n # 0 THEN Decision(s[n].action, "rule")
          ELSE Decision(raw.default, "default")
  BY DEF Decide, Load, Policy
<1> HIDE DEF s, n, asserted
<1>4. CASE n = 0
  <2>1. \A i \in 1 .. N : ~ Matches(rules[i], facts)
    BY <1>1, <1>4, FirstIsForemost DEF s, n
  <2>2. CASE asserted
    <3>1. d = Decision("ALLOW", "assertion")
      BY <1>3, <1>4, <2>2
    <3> QED
      BY <2>1, <2>2, <3>1 DEF Decision, PrivacyAction, asserted
  <2>3. CASE ~ asserted
    <3>1. d = Decision(raw.default, "default")
      BY <1>3, <1>4, <2>3
    <3> QED
      BY <1>2, <3>1 DEF Decision, PrivacyAction, Prohibition
  <2> QED
    BY <2>2, <2>3
<1>5. CASE n # 0
  <2>1. PICK k \in 1 .. N :
           /\ s[n] = rules[k] /\ Matches(rules[k], facts)
           /\ \A i \in 1 .. N : Matches(rules[i], facts) =>
                 /\ rules[i].priority <= rules[k].priority
                 /\ rules[i].priority = rules[k].priority => i = k
    BY <1>1, <1>5, FirstIsForemost DEF s, n
  <2>2. rules[k].action \in PrivacyAction
    BY <1>2
  <2>3. CASE s[n].action \in Prohibition
    <3>1. d = Decision(rules[k].action, "rule")
      BY <1>3, <1>5, <2>1, <2>3
    <3> QED
      BY <2>1, <2>2, <2>3, <3>1 DEF Decision, Prohibition
  <2>4. CASE s[n].action \notin Prohibition /\ asserted
    <3>1. d = Decision("ALLOW", "assertion")
      BY <1>3, <2>4
    <3>2. ASSUME NEW l \in 1 .. N, Matches(rules[l], facts),
                 \A i \in 1 .. N : Matches(rules[i], facts) =>
                     rules[i].priority <= rules[l].priority
          PROVE  rules[l].action \notin Prohibition
      <4>1. PICK x \in Int, y \in Int : x = rules[k].priority /\ y = rules[l].priority
        BY <1>1 DEF Ranked
      <4>2. x <= y /\ y <= x
        BY <2>1, <3>2, <4>1
      <4>3. l = k
        BY <2>1, <3>2, <4>1, <4>2
      <4> QED
        BY <2>1, <2>4, <4>3
    <3> QED
      BY <2>4, <3>1, <3>2 DEF Decision, PrivacyAction, asserted
  <2>5. CASE s[n].action \notin Prohibition /\ ~ asserted
    <3>1. d = Decision(rules[k].action, "rule")
      BY <1>3, <1>5, <2>1, <2>5
    <3> QED
      BY <2>1, <2>2, <3>1 DEF Decision
  <2> QED
    BY <2>3, <2>4, <2>5
<1> QED
  BY <1>4, <1>5

----------------------------------------------------------------------------
(* What a legacy document decides. *)

\* Actions for finitely many of the types of T.
Tables(T) ==
    UNION {[D -> DOMAIN LegacyAction] : D \in {D \in SUBSET T : IsFiniteSet(D)}}

\* Tables by what they hold.
LEMMA TableType ==
    ASSUME NEW T, NEW r
    PROVE  /\ r \in Tables(T) => /\ DOMAIN r \subseteq T /\ IsFiniteSet(DOMAIN r)
                                 /\ \A t \in DOMAIN r : r[t] \in DOMAIN LegacyAction
           /\ \A D \in SUBSET T :
                 IsFiniteSet(D) /\ r \in [D -> DOMAIN LegacyAction] => r \in Tables(T)
<1> DEFINE A == DOMAIN LegacyAction
<1> HIDE DEF A
<1>1. Tables(T) = UNION {[D -> A] : D \in {D \in SUBSET T : IsFiniteSet(D)}}
  BY DEF Tables, A
<1>2. ASSUME r \in Tables(T)
      PROVE  /\ DOMAIN r \subseteq T /\ IsFiniteSet(DOMAIN r)
             /\ \A t \in DOMAIN r : r[t] \in A
  <2>1. PICK D \in SUBSET T : IsFiniteSet(D) /\ r \in [D -> A]
    BY <1>1, <1>2
  <2>2. DOMAIN r = D
    BY <2>1
  <2> QED
    BY <2>1, <2>2
<1>3. ASSUME NEW D \in SUBSET T, IsFiniteSet(D), r \in [D -> A]
      PROVE  r \in Tables(T)
  BY <1>1, <1>3
<1> QED
  BY <1>2, <1>3 DEF A

\* The empty one.
LEMMA NoTable ==
    ASSUME NEW T
    PROVE  <<>> \in Tables(T)
<1>1. <<>> \in [{} -> DOMAIN LegacyAction]
  OBVIOUS
<1>2. {} \in SUBSET T /\ IsFiniteSet({})
  BY FS_EmptySet
<1> QED
  BY <1>1, <1>2, TableType

\* w is the table r, changed in one place.
IsWith(w, T, r, type, action) ==
    /\ w \in Tables(T)
    /\ DOMAIN w = DOMAIN r \cup {type}
    /\ w[type] = action
    /\ \A t \in DOMAIN r : t # type => w[t] = r[t]

\* With makes a table of a table, and changes it in one place.
LEMMA WithIsTable ==
    ASSUME NEW T, NEW r \in Tables(T), NEW type \in T, NEW action \in DOMAIN LegacyAction
    PROVE  IsWith(With(r, type, action), T, r, type, action)
<1> DEFINE A == DOMAIN LegacyAction
           w == With(r, type, action)
           D == DOMAIN r \cup {type}
<1> HIDE DEF A
<1>1. /\ DOMAIN r \subseteq T /\ IsFiniteSet(DOMAIN r)
      /\ \A t \in DOMAIN r : r[t] \in A
  BY TableType DEF A
<1>2. action \in A
  BY DEF A
<1>3. /\ w \in [D -> A] /\ w[type] = action
      /\ \A t \in DOMAIN r : t # type => w[t] = r[t]
  BY <1>1, <1>2 DEF With
<1>4. IsFiniteSet(D)
  BY <1>1, FS_AddElement
<1>5. D \in SUBSET T
  BY <1>1
<1> HIDE DEF w, D
<1>6. w \in Tables(T)
  BY <1>3, <1>4, <1>5, TableType DEF A
<1>7. DOMAIN w = D
  BY <1>3
<1> QED
  BY <1>3, <1>6, <1>7 DEF w, D, IsWith

\* What was read from a legacy file.
ReadEntries(raw) == "entries" \in DOMAIN raw /\ raw.entries \in Seq(ToSet(raw.entries))

TypesOf(raw) ==
    {raw.entries[i].type : i \in 1 .. Len(raw.entries)} \cup {"API_KEY", "CARD_NUMBER"}

\* The recursion over the entries has a solution.
LEMMA RulesExist ==
    ASSUME NEW raw, ReadEntries(raw)
    PROVE  /\ \A n \in 0 .. Len(raw.entries) : LegacyRulesUpTo(raw)[n] \in Tables(TypesOf(raw))
           /\ LegacyRulesUpTo(raw)[0] = <<>>
           /\ \A n \in 1 .. Len(raw.entries) :
                 LegacyRulesUpTo(raw)[n] = Entered(LegacyRulesUpTo(raw)[n - 1], raw.entries[n])
<1> DEFINE N == Len(raw.entries)
           T == TypesOf(raw)
           V == Tables(T)
           entry(n) == raw.entries[n]
           Enters(f) == f = [n \in 0 .. N |-> IF n = 0 THEN <<>> ELSE Entered(f[n - 1], entry(n))]
           step == [n \in 1 .. N |-> [r \in V |-> Entered(r, entry(n))]]
<1>1. N \in Nat
  BY DEF ReadEntries
<1>2. ASSUME NEW n \in 1 .. N, NEW r \in V PROVE Entered(r, entry(n)) \in V
  <2>1. entry(n).type \in T
    BY DEF TypesOf
  <2> HIDE DEF N, T, entry
  <2> QED
    BY <2>1, WithIsTable DEF Entered, IsWith
<1>3. <<>> \in V
  BY NoTable
<1> HIDE DEF V, T, entry
<1>4. PICK f : Follows(f, V, <<>>, N, step)
  <2>1. step \in [1 .. N -> [V -> V]]
    BY <1>2
  <2> HIDE DEF step, N
  <2> QED
    BY <1>1, <1>3, <2>1, Recursion
<1>5. Enters(f)
  <2>1. \A n \in 1 .. N : f[n - 1] \in V
    <3>1. \A n \in 1 .. N : n - 1 \in 0 .. N
      BY <1>1
    <3> HIDE DEF step, N
    <3> QED
      BY <1>4, <3>1 DEF Follows
  <2>2. ASSUME NEW n \in 1 .. N PROVE f[n] = Entered(f[n - 1], entry(n))
    <3>1. \A v \in V : step[n][v] = Entered(v, entry(n))
      OBVIOUS
    <3> HIDE DEF step, N
    <3> QED
      BY <1>4, <2>1, <3>1 DEF Follows
  <2>3. \A n \in 0 .. N : n # 0 => n \in 1 .. N
    BY <1>1
  <2> HIDE DEF N, step
  <2> QED
    BY <1>4, <2>2, <2>3 DEF Follows
<1> DEFINE g == CHOOSE h : Enters(h)
<1>6. Enters(g)
  BY <1>5
<1>7. LegacyRulesUpTo(raw) = g
  BY DEF LegacyRulesUpTo, entry
<1>8. \A n \in 0 .. N : g[n] = IF n = 0 THEN <<>> ELSE Entered(g[n - 1], entry(n))
  BY <1>6
<1> HIDE DEF g
<1>9. g[0] = <<>> /\ \A n \in 1 .. N : g[n] = Entered(g[n - 1], entry(n))
  BY <1>1, <1>8
<1>10. \A n \in 0 .. N : g[n] \in V
  <2> DEFINE S == {n \in Nat : n <= N => g[n] \in V}
  <2>1. 0 \in S
    BY <1>3, <1>9
  <2>2. ASSUME NEW n \in Nat, n \in S PROVE n + 1 \in S
    <3> SUFFICES ASSUME n + 1 <= N PROVE g[n + 1] \in V
      OBVIOUS
    <3>1. g[n] \in V /\ n + 1 \in 1 .. N /\ (n + 1) - 1 = n
      BY <1>1, <2>2
    <3>2. g[n + 1] = Entered(g[(n + 1) - 1], entry(n + 1))
      BY <1>9, <3>1
    <3> HIDE DEF N
    <3> QED
      BY <1>2, <3>1, <3>2
  <2>3. \A n \in Nat : n \in S => n + 1 \in S
    BY <2>2
  <2> HIDE DEF S
  <2>4. Nat \subseteq S
    BY <2>1, <2>3, NaturalsByInduction
  <2> QED
    BY <1>1, <2>4 DEF S
<1> QED
  BY <1>7, <1>9, <1>10 DEF V, T, entry

\* An entry about a type that counts.
Counts(raw, t, i) ==
    raw.entries[i].type = t /\ raw.entries[i].action \in DOMAIN LegacyAction

\* Of the first n entries, the last one that counts is what a table holds.
LastOf(raw, n, table) ==
    \A t \in DOMAIN table :
        \E i \in 1 .. n : /\ Counts(raw, t, i) /\ table[t] = raw.entries[i].action
                         /\ \A j \in 1 .. n : i < j => ~ Counts(raw, t, j)

\* The last entry of a type counts.
LEMMA LastEntryCounts ==
    ASSUME NEW raw, ReadEntries(raw)
    PROVE  /\ LegacyRules(raw) \in Tables(TypesOf(raw))
           /\ LastOf(raw, Len(raw.entries), LegacyRules(raw))
<1> DEFINE N == Len(raw.entries)
           g == LegacyRulesUpTo(raw)
           T == TypesOf(raw)
           S == {n \in Nat : n <= N => LastOf(raw, n, g[n])}
<1>1. N \in Nat
  BY DEF ReadEntries
<1>2. /\ \A n \in 0 .. N : g[n] \in Tables(T)
      /\ g[0] = <<>> /\ \A n \in 1 .. N : g[n] = Entered(g[n - 1], raw.entries[n])
  BY RulesExist
<1>3. \A n \in 1 .. N : raw.entries[n].type \in T
  BY DEF TypesOf
<1> HIDE DEF g, N, T
<1>4. 0 \in S
  BY <1>2 DEF LastOf
<1>5. ASSUME NEW n \in Nat, n \in S PROVE n + 1 \in S
  <2> SUFFICES ASSUME n + 1 <= N PROVE LastOf(raw, n + 1, g[n + 1])
    OBVIOUS
  <2>1. PICK m \in 1 .. N : m = n + 1
    BY <1>1
  <2>2. /\ n \in 0 .. N /\ n = m - 1
        /\ \A j : j \in 1 .. m <=> j \in 1 .. n \/ j = m
        /\ \A j \in 1 .. n : j < m /\ j # m
    BY <1>1, <2>1
  <2>3. g[m] = Entered(g[n], raw.entries[m]) /\ g[n] \in Tables(T)
    BY <1>2, <2>1, <2>2
  <2>4. LastOf(raw, n, g[n])
    BY <1>1, <1>5, <2>2
  <2>5. CASE raw.entries[m].action \notin DOMAIN LegacyAction
    <3>1. g[m] = g[n] /\ \A t : ~ Counts(raw, t, m)
      BY <2>3, <2>5 DEF Entered, Counts
    <3> QED
      BY <2>1, <2>2, <2>4, <3>1 DEF LastOf
  <2>6. CASE raw.entries[m].action \in DOMAIN LegacyAction
    <3> DEFINE type == raw.entries[m].type
               action == raw.entries[m].action
    <3>1. /\ DOMAIN g[m] = DOMAIN g[n] \cup {type} /\ g[m][type] = action
          /\ \A t \in DOMAIN g[n] : t # type => g[m][t] = g[n][t]
      <4>1. g[m] = With(g[n], type, action) /\ type \in T
        BY <1>3, <2>3, <2>6 DEF Entered
      <4>2. action \in DOMAIN LegacyAction
        BY <2>6
      <4> HIDE DEF type, action
      <4>3. IsWith(g[m], T, g[n], type, action)
        BY <2>3, <4>1, <4>2, WithIsTable
      <4> QED
        BY <4>3 DEF IsWith
    <3>2. \A t : Counts(raw, t, m) <=> t = type
      BY <2>6 DEF Counts
    <3> SUFFICES ASSUME NEW t \in DOMAIN g[m]
                 PROVE  \E i \in 1 .. m :
                           /\ Counts(raw, t, i) /\ g[m][t] = raw.entries[i].action
                           /\ \A j \in 1 .. m : i < j => ~ Counts(raw, t, j)
      BY <2>1 DEF LastOf
    <3>3. CASE t = type
      <4>1. m \in 1 .. m /\ \A j \in 1 .. m : ~ (m < j)
        BY <1>1, <2>1
      <4> QED
        BY <3>1, <3>2, <3>3, <4>1
    <3>4. CASE t # type
      <4>1. t \in DOMAIN g[n] /\ g[m][t] = g[n][t]
        BY <3>1, <3>4
      <4>2. PICK i \in 1 .. n :
               /\ Counts(raw, t, i) /\ g[n][t] = raw.entries[i].action
               /\ \A j \in 1 .. n : i < j => ~ Counts(raw, t, j)
        BY <2>4, <4>1 DEF LastOf
      <4>3. ~ Counts(raw, t, m) /\ i \in 1 .. m
        BY <2>2, <3>2, <3>4
      <4> QED
        BY <2>2, <4>1, <4>2, <4>3
    <3> QED
      BY <3>3, <3>4
  <2> QED
    BY <2>5, <2>6
<1>6. \A n \in Nat : n \in S => n + 1 \in S
  BY <1>5
<1> HIDE DEF S
<1>7. Nat \subseteq S
  BY <1>4, <1>6, NaturalsByInduction
<1>8. N \in 0 .. N /\ LastOf(raw, N, g[N])
  BY <1>1, <1>7 DEF S
<1> QED
  BY <1>2, <1>8 DEF LegacyRules, g, N, T

\* The elements of a finite set can be listed.
LEMMA Listed ==
    ASSUME NEW S, IsFiniteSet(S)
    PROVE  /\ Cardinality(S) \in Nat
           /\ SetToSeq(S) \in [1 .. Cardinality(S) -> S]
<1> DEFINE n == Cardinality(S)
<1>1. n \in Nat /\ ExistsBijection(1 .. n, S)
  BY FS_CardinalityType
<1>2. PICK f \in [1 .. n -> S] : \A a, b \in 1 .. n : f[a] = f[b] => a = b
  <2> HIDE DEF n
  <2> QED
    BY <1>1 DEF ExistsBijection, Bijection, Injection, IsInjective
<1>3. IsInjective(f)
  <2> HIDE DEF n
  <2> QED
    BY <1>2 DEF IsInjective
<1>4. \E g \in [1 .. n -> S] : IsInjective(g)
  BY <1>3
<1>5. SetToSeq(S) \in [1 .. n -> S]
  BY <1>4 DEF SetToSeq
<1> QED
  BY <1>1, <1>5

\* What the settings make of the rules of a document.
LEMMA EngineIsTable ==
    ASSUME NEW raw, ReadEntries(raw)
    PROVE  /\ LegacyEngine(raw) \in Tables(TypesOf(raw))
           /\ \A t \in DOMAIN LegacyEngine(raw) : LegacyEngine(raw)[t] = "ALLOW" =>
                 /\ t # "API_KEY" /\ (t = "CARD_NUMBER" => ~ raw.blockCards)
                 /\ t \in DOMAIN LegacyRules(raw) /\ LegacyRules(raw)[t] = "ALLOW"
<1> DEFINE T == TypesOf(raw)
           rules == LegacyRules(raw)
           action == IF raw.blockKeys THEN "BLOCK" ELSE "MASK"
           keyed == With(rules, "API_KEY", action)
           engine == LegacyEngine(raw)
<1>1. "API_KEY" \in T /\ "CARD_NUMBER" \in T
  BY DEF TypesOf
<1>2. action \in DOMAIN LegacyAction /\ "BLOCK" \in DOMAIN LegacyAction /\ action # "ALLOW"
  BY DEF LegacyAction
<1>3. rules \in Tables(T)
  BY LastEntryCounts
<1>4. engine = IF raw.blockCards THEN With(keyed, "CARD_NUMBER", "BLOCK") ELSE keyed
  BY DEF LegacyEngine
<1> HIDE DEF T, rules, action
<1>5. /\ keyed \in Tables(T) /\ DOMAIN keyed = DOMAIN rules \cup {"API_KEY"}
      /\ keyed["API_KEY"] = action
      /\ \A t \in DOMAIN rules : t # "API_KEY" => keyed[t] = rules[t]
  <2>1. IsWith(keyed, T, rules, "API_KEY", action)
    BY <1>1, <1>2, <1>3, WithIsTable
  <2> HIDE DEF keyed
  <2> QED
    BY <2>1 DEF IsWith
<1> HIDE DEF keyed
<1>6. \A t \in DOMAIN keyed : keyed[t] = "ALLOW" =>
          t # "API_KEY" /\ t \in DOMAIN rules /\ rules[t] = "ALLOW"
  BY <1>2, <1>5
<1> HIDE DEF engine
<1>7. CASE raw.blockCards
  <2>1. engine = With(keyed, "CARD_NUMBER", "BLOCK")
    BY <1>4, <1>7
  <2>2. /\ engine \in Tables(T) /\ DOMAIN engine = DOMAIN keyed \cup {"CARD_NUMBER"}
        /\ engine["CARD_NUMBER"] = "BLOCK"
        /\ \A t \in DOMAIN keyed : t # "CARD_NUMBER" => engine[t] = keyed[t]
    <3>1. IsWith(engine, T, keyed, "CARD_NUMBER", "BLOCK")
      BY <1>1, <1>2, <1>5, <2>1, WithIsTable
    <3> QED
      BY <3>1 DEF IsWith
  <2> QED
    BY <1>6, <2>2 DEF engine, T, rules
<1>8. CASE ~ raw.blockCards
  <2>1. engine = keyed
    BY <1>4, <1>8
  <2> QED
    BY <1>5, <1>6, <1>8, <2>1 DEF engine, T, rules
<1> QED
  BY <1>7, <1>8

\* All the facts there are about a finding, its type among them.
LEMMA FactsName ==
    ASSUME NEW finding, NEW score, NEW asks
    PROVE  Facts(finding, score, asks).entity_type = finding.type
BY DEF Facts

\* A clear value has the last entry of its type on its side, and no setting
\* against it.
LEMMA LegacyDecides ==
    ASSUME NEW raw, ReadEntries(raw), NEW facts, NEW value, NEW now,
           NEW d, d = Decide(Adapt(LegacyEngine(raw)), facts, value, now)
    PROVE  /\ d \in [action : PrivacyAction, by : {"rule", "assertion", "default"}]
           /\ d.by = "default" => d.action \in Prohibition
           /\ d.action = "ALLOW" =>
                 /\ facts.entity_type # "API_KEY"
                 /\ facts.entity_type = "CARD_NUMBER" => ~ raw.blockCards
                 /\ \E i \in 1 .. Len(raw.entries) :
                       /\ Counts(raw, facts.entity_type, i) /\ raw.entries[i].action = "ALLOW"
                       /\ \A j \in 1 .. Len(raw.entries) :
                             i < j => ~ Counts(raw, facts.entity_type, j)
<1> DEFINE engine == LegacyEngine(raw)
           types == SetToSeq(DOMAIN engine)
           rule(type) == [id |-> type, action |-> LegacyAction[engine[type]],
                          when |-> [entity_type |-> {type}],
                          confidence |-> <<0, 1000>>, risk |-> <<0, 100>>]
           rules == [i \in DOMAIN types |-> rule(types[i])]
           n == MatchingRule(rules, facts)
           N == Cardinality(DOMAIN engine)
<1>1. /\ DOMAIN engine \subseteq TypesOf(raw) /\ IsFiniteSet(DOMAIN engine)
      /\ \A t \in DOMAIN engine : engine[t] \in DOMAIN LegacyAction
  BY EngineIsTable, TableType
<1>2. N \in Nat /\ types \in [1 .. N -> DOMAIN engine]
  <2> HIDE DEF engine
  <2> QED
    BY <1>1, Listed
<1>3. Adapt(engine) = Policy("BLOCK", rules, <<>>)
  BY DEF Adapt
<1> HIDE DEF engine, types, N
<1>4. DOMAIN rules = 1 .. N /\ \A i \in 1 .. N : rules[i] = rule(types[i])
  BY <1>2
<1>5. n # 0 => n \in 1 .. N /\ Matches(rules[n], facts)
  <2> DEFINE S == {m \in DOMAIN rules : Matches(rules[m], facts)}
  <2>1. S \in SUBSET Nat
    BY <1>2, <1>4
  <2>2. n = IF S = {} THEN 0 ELSE Min(S)
    BY DEF MatchingRule
  <2>3. S # {} => Min(S) \in S
    <3> HIDE DEF S
    <3> QED
      BY <2>1, LeastExists
  <2> HIDE DEF rules
  <2> QED
    BY <1>4, <2>2, <2>3
<1> HIDE DEF rules, n
<1>6. d = IF n # 0 /\ rules[n].action \in Prohibition THEN Decision(rules[n].action, "rule")
          ELSE IF n # 0 THEN Decision(rules[n].action, "rule")
          ELSE Decision("BLOCK", "default")
  <2>1. d = Decide(Policy("BLOCK", rules, <<>>), facts, value, now)
    BY <1>3 DEF engine
  <2> QED
    BY <2>1 DEF Decide, Policy, n
<1>7. CASE n = 0
  <2>1. d = Decision("BLOCK", "default")
    BY <1>6, <1>7
  <2> QED
    BY <2>1 DEF Decision, PrivacyAction, Prohibition
<1>8. CASE n # 0
  <2>1. PICK t \in DOMAIN engine : rules[n] = rule(t)
    BY <1>2, <1>4, <1>5, <1>8
  <2>2. d = Decision(LegacyAction[engine[t]], "rule")
    BY <1>6, <1>8, <2>1
  <2>3. LegacyAction[engine[t]] \in PrivacyAction /\
        (LegacyAction[engine[t]] = "ALLOW" => engine[t] = "ALLOW")
    BY <1>1 DEF LegacyAction, PrivacyAction
  <2>4. facts.entity_type = t
    BY <1>5, <1>8, <2>1 DEF Matches, Fits
  <2>5. ASSUME engine[t] = "ALLOW"
        PROVE  /\ t # "API_KEY" /\ (t = "CARD_NUMBER" => ~ raw.blockCards)
               /\ \E i \in 1 .. Len(raw.entries) :
                     /\ Counts(raw, t, i) /\ raw.entries[i].action = "ALLOW"
                     /\ \A j \in 1 .. Len(raw.entries) : i < j => ~ Counts(raw, t, j)
    <3>1. /\ t # "API_KEY" /\ (t = "CARD_NUMBER" => ~ raw.blockCards)
          /\ t \in DOMAIN LegacyRules(raw) /\ LegacyRules(raw)[t] = "ALLOW"
      BY <2>5, EngineIsTable DEF engine
    <3>2. LastOf(raw, Len(raw.entries), LegacyRules(raw))
      BY LastEntryCounts
    <3> QED
      BY <3>1, <3>2 DEF LastOf
  <2> QED
    BY <2>2, <2>3, <2>4, <2>5 DEF Decision
<1> QED
  BY <1>7, <1>8

----------------------------------------------------------------------------
(* The runtime. *)

\* The policy is that of the document.
Running ==
    IF "entries" \in DOMAIN document
    THEN policy = Adapt(LegacyEngine(document))
    ELSE Loads(document) /\ policy = Load(document)

Decided(n) ==
    decisions[n] = Decide(policy, Facts(findings[n], risk, request), Spelled(findings[n]), moments[n])

\* Every decision is what the policy of the document said at its moment, about
\* findings and a risk that have not changed since.
RuntimeInv ==
    /\ document \in Documents /\ clock \in Nat
    /\ decisions \in Seq([action : PrivacyAction, by : {"rule", "assertion", "default"}])
    /\ moments \in Seq(Nat) /\ Len(moments) = Len(decisions)
    /\ stage \notin {"starting", "refused"} => Running
    /\ stage \notin {"assessed", "masked", "blocked"} => decisions = <<>>
    /\ \A n \in DOMAIN decisions : Decided(n)
    /\ RefusedIsNotMasked

\* What was read can be loaded as what it is.
LEMMA DocumentIsRead ==
    ASSUME NEW raw \in Documents
    PROVE  /\ "entries" \in DOMAIN raw => ReadEntries(raw) /\ "rules" \notin DOMAIN raw
           /\ "entries" \notin DOMAIN raw =>
                 ReadRules(raw) /\ DOMAIN raw = {"version", "default", "rules", "assertions"}
BY DocumentsAreRead DEF ReadEntries, ReadRules

\* A running policy decides something.
LEMMA DecisionType ==
    ASSUME document \in Documents, Running, NEW facts, NEW value, NEW now
    PROVE  /\ Decide(policy, facts, value, now) \in
                 [action : PrivacyAction, by : {"rule", "assertion", "default"}]
           /\ Decide(policy, facts, value, now).by = "default" =>
                 Decide(policy, facts, value, now).action \in Prohibition
<1> DEFINE d == Decide(policy, facts, value, now)
<1>1. CASE "entries" \in DOMAIN document
  <2>1. ReadEntries(document) /\ d = Decide(Adapt(LegacyEngine(document)), facts, value, now)
    BY <1>1, DocumentIsRead DEF Running
  <2> HIDE DEF d
  <2> QED
    BY <2>1, LegacyDecides DEF d
<1>2. CASE "entries" \notin DOMAIN document
  <2>1. /\ ReadRules(document) /\ Loads(document)
        /\ d = Decide(Load(document), facts, value, now)
    BY <1>2, DocumentIsRead DEF Running
  <2> HIDE DEF d
  <2> QED
    BY <2>1, LoadedDecides DEF d
<1> QED
  BY <1>1, <1>2

\* RuntimeInv is inductive.
LEMMA RuntimeInductive == RuntimeSpec => []RuntimeInv
<1> USE DEF given
<1>1. RuntimeInit => RuntimeInv
  BY DEF RuntimeInit, RuntimeInv, RefusedIsNotMasked
<1>2. ASSUME RuntimeInv, [RuntimeNext]_runtimeVars
      PROVE  RuntimeInv'
  <2>1. CASE Start
    BY <1>2, <2>1 DEF Start, RuntimeInv, Running, RefusedIsNotMasked
  <2>2. CASE DetectIn
    BY <1>2, <2>2 DEF DetectIn, RuntimeInv, Running, RefusedIsNotMasked
  <2>3. CASE AssessAll
    BY <1>2, <2>3 DEF AssessAll, RuntimeInv, Running, RefusedIsNotMasked
  <2>4. CASE DecideNext
    <3> DEFINE N == Len(decisions)
               f == findings[N + 1]
               d == Decide(policy, Facts(f, risk, request), Spelled(f), clock)
    <3>1. stage = "assessed" /\ Running
      BY <1>2, <2>4 DEF DecideNext, Undecided, RuntimeInv
    <3>2. d \in [action : PrivacyAction, by : {"rule", "assertion", "default"}]
      BY <1>2, <3>1, DecisionType DEF RuntimeInv
    <3>3. /\ decisions' = Append(decisions, d) /\ moments' = Append(moments, clock)
          /\ UNCHANGED <<stage, given, policy, clock, findings, risk, output>>
      BY <2>4 DEF DecideNext
    <3> HIDE DEF d
    <3>4. /\ document' \in Documents /\ clock' \in Nat
          /\ decisions' \in Seq([action : PrivacyAction, by : {"rule", "assertion", "default"}])
          /\ moments' \in Seq(Nat) /\ Len(moments') = Len(decisions')
      BY <1>2, <3>2, <3>3 DEF RuntimeInv
    <3>5. Running' /\ RefusedIsNotMasked' /\ stage' = "assessed"
      BY <3>1, <3>3 DEF Running, RefusedIsNotMasked
    <3>6. ASSUME NEW n \in DOMAIN decisions' PROVE Decided(n)'
      <4>1. /\ N \in Nat /\ Len(moments) = N
            /\ \/ n \in DOMAIN decisions /\ decisions'[n] = decisions[n] /\ moments'[n] = moments[n]
               \/ n = N + 1 /\ decisions'[n] = d /\ moments'[n] = clock
        BY <1>2, <3>2, <3>3 DEF RuntimeInv
      <4>2. CASE n \in DOMAIN decisions /\ decisions'[n] = decisions[n] /\ moments'[n] = moments[n]
        BY <1>2, <3>3, <4>2 DEF RuntimeInv, Decided, Spelled
      <4>3. CASE n = N + 1 /\ decisions'[n] = d /\ moments'[n] = clock
        BY <3>3, <4>3 DEF d, Decided, Spelled
      <4> QED
        BY <4>1, <4>2, <4>3
    <3> QED
      BY <3>4, <3>5, <3>6 DEF RuntimeInv
  <2>5. CASE Tick
    BY <1>2, <2>5
       DEF Tick, Undecided, RuntimeInv, Running, Decided, Spelled, RefusedIsNotMasked
  <2>6. CASE Mask
    <3>1. /\ stage = "assessed"
          /\ stage' \in {"masked", "blocked"}
          /\ stage' = "masked" => \A n \in DOMAIN decisions : decisions[n].action \notin Refused
          /\ UNCHANGED <<given, policy, clock, findings, risk, decisions, moments>>
      BY <2>6 DEF Mask
    <3> QED
      BY <1>2, <3>1
         DEF RuntimeInv, Running, Decided, Spelled, RefusedIsNotMasked, Refused, Prohibition
  <2>7. CASE UNCHANGED runtimeVars
    BY <1>2, <2>7
       DEF runtimeVars, RuntimeInv, Running, Decided, Spelled, RefusedIsNotMasked
  <2> QED
    BY <1>2, <2>1, <2>2, <2>3, <2>4, <2>5, <2>6, <2>7 DEF RuntimeNext
<1> QED
  BY <1>1, <1>2, PTL DEF RuntimeSpec

\* The order of a file's rules does not matter.
LEMMA OrderDoesNotMatter == RuntimeInv => FileOrderIsIrrelevant
<1> SUFFICES ASSUME RuntimeInv, stage = "ready", "rules" \in DOMAIN document
             PROVE  Load([document EXCEPT !.rules = Reverse(document.rules)]) = policy
  BY DEF FileOrderIsIrrelevant
<1> DEFINE turned == [document EXCEPT !.rules = Reverse(document.rules)]
<1>1. /\ "entries" \notin DOMAIN document /\ ReadRules(document)
      /\ DOMAIN document = {"version", "default", "rules", "assertions"}
  BY DocumentIsRead DEF RuntimeInv
<1>2. Loads(document) /\ policy = Load(document)
  BY <1>1 DEF RuntimeInv, Running
<1>3. InOrder(Reverse(document.rules)) = InOrder(document.rules)
  <2>1. document.rules \in Seq(ToSet(document.rules)) /\ Ranked(document.rules)
    BY <1>1, <1>2, LoadedIsRanked DEF ReadRules
  <2> QED
    BY <2>1, OrderOfFile
<1>4. /\ turned.rules = Reverse(document.rules)
      /\ turned.default = document.default /\ turned.assertions = document.assertions
  BY <1>1
<1> HIDE DEF turned
<1> QED
  BY <1>2, <1>3, <1>4 DEF Load, turned

\* Only the foremost rule or an assertion lets a value out.
LEMMA ClearIsPermitted == RuntimeInv => ClearNeedsPermission
<1> SUFFICES ASSUME RuntimeInv, NEW n \in DOMAIN decisions,
                    decisions[n].action = "ALLOW", "rules" \in DOMAIN document
             PROVE  LET f == findings[n]
                        facts == Facts(f, risk, request)
                        foremost == {r \in ToSet(document.rules) : Foremost(r, facts)}
                        allows(a) == /\ moments[n] < a.expires
                                     /\ a.type = f.type /\ a.value = Digest(Spelled(f))
                                     /\ \A d \in DOMAIN a.scope : facts[d] \in a.scope[d]
                    IN  \/ \E r \in foremost : r.action = "ALLOW"
                        \/ /\ \E a \in ToSet(document.assertions) : allows(a)
                           /\ \A r \in foremost : r.action \notin Prohibition
  BY DEF ClearNeedsPermission
<1> DEFINE f == findings[n]
           facts == Facts(f, risk, request)
           value == Spelled(f)
           rules == document.rules
           N == Len(rules)
<1>1. /\ "entries" \notin DOMAIN document /\ ReadRules(document)
      /\ stage \notin {"starting", "refused"}
  <2>1. decisions # <<>>
    OBVIOUS
  <2> QED
    BY <2>1, DocumentIsRead DEF RuntimeInv
<1>2. Loads(document) /\ policy = Load(document)
  BY <1>1 DEF RuntimeInv, Running
<1>3. decisions[n] = Decide(Load(document), facts, value, moments[n])
  BY <1>2 DEF RuntimeInv, Decided
<1>4. facts.entity_type = f.type
  BY FactsName
<1>5. moments[n] \in Nat
  BY DEF RuntimeInv
<1>6. ToSet(rules) = {rules[i] : i \in 1 .. N} /\ DOMAIN rules = 1 .. N
  BY <1>1 DEF ReadRules, ToSet
<1> HIDE DEF facts, value, f
<1>7. \A k \in 1 .. N :
         Foremost(rules[k], facts) <=>
            /\ Matches(rules[k], facts)
            /\ \A i \in 1 .. N : Matches(rules[i], facts) =>
                  rules[i].priority <= rules[k].priority
  BY <1>6 DEF Foremost
<1>8. \/ \E k \in 1 .. N : rules[k].action = "ALLOW" /\ Foremost(rules[k], facts)
      \/ /\ \E i \in DOMAIN document.assertions :
               Asserts(document.assertions[i], facts, value, moments[n])
         /\ \A k \in 1 .. N : Foremost(rules[k], facts) => rules[k].action \notin Prohibition
  BY <1>1, <1>2, <1>3, <1>7, LoadedDecides
<1>9. CASE \E k \in 1 .. N : rules[k].action = "ALLOW" /\ Foremost(rules[k], facts)
  BY <1>6, <1>9 DEF facts, f
<1>10. CASE /\ \E i \in DOMAIN document.assertions :
                  Asserts(document.assertions[i], facts, value, moments[n])
            /\ \A k \in 1 .. N : Foremost(rules[k], facts) => rules[k].action \notin Prohibition
  <2>1. PICK i \in DOMAIN document.assertions :
           Asserts(document.assertions[i], facts, value, moments[n])
    BY <1>10
  <2>2. PICK a \in ToSet(document.assertions) : a = document.assertions[i]
    BY DEF ToSet
  <2>3. a.expires \in Int
    BY <1>1 DEF ReadRules
  <2>4. /\ moments[n] < a.expires /\ a.type = f.type /\ a.value = Digest(value)
        /\ \A d \in DOMAIN a.scope : facts[d] \in a.scope[d]
    BY <1>4, <1>5, <2>1, <2>2, <2>3 DEF Asserts, Expired, Fits
  <2>5. \A r \in ToSet(rules) : Foremost(r, facts) => r.action \notin Prohibition
    BY <1>6, <1>10
  <2> QED
    BY <2>2, <2>4, <2>5 DEF facts, value, f
<1> QED
  BY <1>8, <1>9, <1>10

\* Only the last entry of its type lets a value out.
LEMMA LegacyClearIsPermitted == RuntimeInv => LegacyClearNeedsPermission
<1> SUFFICES ASSUME RuntimeInv, NEW n \in DOMAIN decisions,
                    decisions[n].action = "ALLOW", "entries" \in DOMAIN document
             PROVE  LET type == findings[n].type
                        valid == {i \in DOMAIN document.entries :
                                     /\ document.entries[i].type = type
                                     /\ document.entries[i].action \in DOMAIN LegacyAction}
                    IN  /\ type # "API_KEY" /\ (type = "CARD_NUMBER" => ~ document.blockCards)
                        /\ valid # {} /\ document.entries[Max(valid)].action = "ALLOW"
  BY DEF LegacyClearNeedsPermission
<1> DEFINE type == findings[n].type
           facts == Facts(findings[n], risk, request)
           value == Spelled(findings[n])
           N == Len(document.entries)
           valid == {i \in DOMAIN document.entries :
                        /\ document.entries[i].type = type
                        /\ document.entries[i].action \in DOMAIN LegacyAction}
<1>1. ReadEntries(document) /\ stage \notin {"starting", "refused"}
  <2>1. decisions # <<>>
    OBVIOUS
  <2> QED
    BY <2>1, DocumentIsRead DEF RuntimeInv
<1>2. policy = Adapt(LegacyEngine(document))
  BY <1>1 DEF RuntimeInv, Running
<1>3. decisions[n] = Decide(Adapt(LegacyEngine(document)), facts, value, moments[n])
  BY <1>2 DEF RuntimeInv, Decided
<1>4. facts.entity_type = type
  BY FactsName
<1>5. N \in Nat /\ DOMAIN document.entries = 1 .. N
  BY <1>1 DEF ReadEntries
<1> HIDE DEF facts, value, type
<1>6. /\ type # "API_KEY" /\ (type = "CARD_NUMBER" => ~ document.blockCards)
      /\ \E i \in 1 .. N :
            /\ Counts(document, type, i) /\ document.entries[i].action = "ALLOW"
            /\ \A j \in 1 .. N : i < j => ~ Counts(document, type, j)
  BY <1>1, <1>3, <1>4, LegacyDecides
<1>7. PICK i \in 1 .. N :
         /\ Counts(document, type, i) /\ document.entries[i].action = "ALLOW"
         /\ \A j \in 1 .. N : i < j => ~ Counts(document, type, j)
  BY <1>6
<1>8. i \in valid /\ valid \in SUBSET (0 .. N) /\ \A j \in valid : j \in 1 .. N /\ ~ (i < j)
  BY <1>5, <1>7 DEF Counts
<1> HIDE DEF valid
<1>9. Max(valid) \in valid /\ i <= Max(valid)
  <2>1. valid # {}
    BY <1>8
  <2> HIDE DEF N
  <2>2. Max(valid) \in valid /\ \A j \in valid : j <= Max(valid)
    BY <1>5, <1>8, <2>1, GreatestExists
  <2> QED
    BY <1>8, <2>2
<1>10. Max(valid) = i
  <2>1. PICK m \in valid : m = Max(valid)
    BY <1>9
  <2>2. m \in 1 .. N /\ ~ (i < m) /\ i <= m
    BY <1>8, <1>9, <2>1
  <2> QED
    BY <1>5, <2>1, <2>2
<1> QED
  BY <1>6, <1>7, <1>8, <1>10 DEF valid, type

\* Nothing goes out in the clear without the permission of the document as it
\* was written (the foremost rule, an unexpired assertion, the last legacy
\* entry), whatever the text, the policy and the time that passes while it
\* decides (_transform_text of privacy/runtime.py).
THEOREM PermissionNeeded == RuntimeSpec => []OnlyThePermittedIsClear
<1>1. RuntimeInv => OnlyThePermittedIsClear
  BY OrderDoesNotMatter, ClearIsPermitted, LegacyClearIsPermitted DEF OnlyThePermittedIsClear
<1> QED
  BY <1>1, RuntimeInductive, PTL

\* What no rule and no assertion decides is prohibited, and a text with a
\* prohibited value is never masked: it is refused as a whole.
THEOREM ProhibitedStaysIn == RuntimeSpec => [](DefaultsProhibit /\ RefusedIsNotMasked)
<1>1. RuntimeInv => DefaultsProhibit
  <2> SUFFICES ASSUME RuntimeInv, NEW n \in DOMAIN decisions
               PROVE  decisions[n].by = "default" => decisions[n].action \in Prohibition
    BY DEF DefaultsProhibit
  <2>1. decisions # <<>>
    BY DEF RuntimeInv
  <2>2. document \in Documents /\ Running /\ Decided(n)
    BY <2>1 DEF RuntimeInv
  <2> QED
    BY <2>2, DecisionType DEF Decided
<1>2. RuntimeInv => RefusedIsNotMasked
  BY DEF RuntimeInv
<1> QED
  BY <1>1, <1>2, RuntimeInductive, PTL
=============================================================================
