------------------------------ MODULE Induction -------------------------------
(***************************************************************************)
(* Induction and recursion over the naturals.  The provers do not          *)
(* instantiate a rule over predicates or operators, so the rules here are  *)
(* about a set of numbers and about a function of steps.                   *)
(***************************************************************************)
EXTENDS Integers, Sequences, SequenceTheorems, WellFoundedInduction, TLAPS

\* Induction over the naturals, for a set of them instead of a predicate.
LEMMA NaturalsByInduction ==
    ASSUME NEW S, 0 \in S, \A n \in Nat : n \in S => n + 1 \in S
    PROVE  Nat \subseteq S
<1> DEFINE T == Nat \ S
           R == OpToRel(<, Nat)
<1>1. IsWellFoundedOn(R, Nat)
  BY NatLessThanWellFounded
<1>2. \A m, n \in Nat : m < n => <<m, n>> \in R
  BY DEF OpToRel
<1>3. ASSUME T # {}
      PROVE  FALSE
  <2> HIDE DEF R
  <2>1. T \subseteq Nat
    OBVIOUS
  <2> HIDE DEF T
  <2>2. PICK x \in T : \A y \in T : ~ (<<y, x>> \in R)
    BY <1>1, <1>3, <2>1, WFMin
  <2>3. x \in Nat \ {0} /\ x - 1 \in Nat /\ x - 1 < x /\ x = (x - 1) + 1
    BY <2>1, <2>2 DEF T
  <2>4. x - 1 \notin T
    BY <1>2, <2>1, <2>2, <2>3
  <2>5. x \in S
    BY <2>3, <2>4 DEF T
  <2> QED
    BY <2>2, <2>5 DEF T
<1> QED
  BY <1>3

\* A set of numbers has a least one.
LEMMA LeastOfNumbers ==
    ASSUME NEW S \in SUBSET Nat, S # {}
    PROVE  \E m \in S : \A n \in S : m <= n
<1> DEFINE T == {n \in Nat : \A m \in Nat : m <= n => m \notin S}
<1>1. ASSUME \A m \in S : \E n \in S : n < m
      PROVE  FALSE
  <2>1. 0 \in T
    BY <1>1
  <2>2. ASSUME NEW n \in Nat, n \in T PROVE n + 1 \in T
    <3> SUFFICES ASSUME NEW m \in Nat, m <= n + 1, m \in S PROVE FALSE
      OBVIOUS
    <3>1. m = n + 1
      BY <2>2
    <3>2. PICK k \in S : k < m
      BY <1>1
    <3>3. k \in Nat /\ k <= n
      BY <3>1, <3>2
    <3> QED
      BY <2>2, <3>3
  <2>3. \A n \in Nat : n \in T => n + 1 \in T
    BY <2>2
  <2> HIDE DEF T
  <2>4. Nat \subseteq T
    BY <2>1, <2>3, NaturalsByInduction
  <2>5. \A n \in Nat : n \notin S
    BY <2>4 DEF T
  <2> QED
    BY <2>5
<1> QED
  BY <1>1

\* Induction over sequences, for a set of them, which grow at their end.
LEMMA SequencesByInduction ==
    ASSUME NEW V, NEW S, <<>> \in S, \A s \in Seq(V) : \A x \in V : s \in S => Append(s, x) \in S
    PROVE  Seq(V) \subseteq S
<1> DEFINE T == {n \in Nat : \A s \in Seq(V) : Len(s) = n => s \in S}
<1>1. 0 \in T
  <2>1. \A s \in Seq(V) : Len(s) = 0 => s = <<>>
    OBVIOUS
  <2> QED
    BY <2>1
<1>2. ASSUME NEW n \in Nat, n \in T PROVE n + 1 \in T
  <2> SUFFICES ASSUME NEW s \in Seq(V), Len(s) = n + 1 PROVE s \in S
    OBVIOUS
  <2>1. s # <<>>
    OBVIOUS
  <2>2. PICK t \in Seq(V), x \in V : s = Append(t, x)
    BY <2>1, SequenceEmptyOrAppend
  <2>3. Len(t) = n
    BY <2>2, AppendProperties
  <2>4. t \in S
    BY <1>2, <2>3
  <2> QED
    BY <2>2, <2>4
<1> HIDE DEF T
<1>3. Nat \subseteq T
  BY <1>1, <1>2, NaturalsByInduction
<1> QED
  BY <1>3 DEF T

\* f has the values of V that the steps lead to.
Follows(f, V, base, N, step) ==
    /\ f \in [0 .. N -> V]
    /\ f[0] = base
    /\ \A n \in 1 .. N : f[n] = step[n][f[n - 1]]

\* A function can be defined by its first value and its steps.
LEMMA Recursion ==
    ASSUME NEW V, NEW base \in V, NEW N \in Nat, NEW step \in [1 .. N -> [V -> V]]
    PROVE  \E f : Follows(f, V, base, N, step)
<1> DEFINE Works(f, m) ==
              f[0] = base /\ \A n \in 1 .. m : f[n] = step[n][f[n - 1]]
           S == {m \in Nat : m <= N => \E f \in [0 .. m -> V] : Works(f, m)}
<1>1. 0 \in S
  <2>1. [n \in 0 .. 0 |-> base] \in [0 .. 0 -> V]
    OBVIOUS
  <2>2. Works([n \in 0 .. 0 |-> base], 0)
    OBVIOUS
  <2> HIDE DEF Works
  <2> QED
    BY <2>1, <2>2
<1>2. ASSUME NEW m \in Nat, m \in S, m + 1 <= N
      PROVE  \E f \in [0 .. m + 1 -> V] : Works(f, m + 1)
  <2>1. PICK f \in [0 .. m -> V] : Works(f, m)
    BY <1>2
  <2> DEFINE g == [n \in 0 .. m + 1 |-> IF n = m + 1 THEN step[m + 1][f[m]] ELSE f[n]]
  <2>2. step[m + 1][f[m]] \in V
    BY <1>2
  <2>3. g \in [0 .. m + 1 -> V]
    BY <2>2
  <2>4. g[m + 1] = step[m + 1][g[m]] /\ g[0] = base
    BY <2>1
  <2>5. ASSUME NEW n \in 1 .. m PROVE g[n] = step[n][g[n - 1]]
    BY <2>1
  <2> HIDE DEF g
  <2>6. Works(g, m + 1)
    BY <2>4, <2>5
  <2> QED
    BY <2>3, <2>6
<1>3. Nat \subseteq S
  <2> HIDE DEF Works
  <2>1. \A m \in Nat : m \in S => m + 1 \in S
    BY <1>2
  <2> HIDE DEF S
  <2> QED
    BY <1>1, <2>1, NaturalsByInduction
<1>4. \E f \in [0 .. N -> V] : Works(f, N)
  BY <1>3
<1> QED
  BY <1>4 DEF Follows

\* A function with a first value and steps that lead from values of V to such has
\* values of V only.  This is how the solution of a recursive definition, which is
\* chosen, comes to follow the steps.
LEMMA Unrolled ==
    ASSUME NEW V, NEW base \in V, NEW N \in Nat, NEW step \in [1 .. N -> [V -> V]],
           NEW f, f = [n \in 0 .. N |-> f[n]], f[0] = base,
           \A n \in 1 .. N : f[n - 1] \in V => f[n] = step[n][f[n - 1]]
    PROVE  Follows(f, V, base, N, step)
<1> DEFINE S == {m \in Nat : m <= N => f[m] \in V}
<1>1. 0 \in S
  OBVIOUS
<1>2. ASSUME NEW m \in Nat, m \in S PROVE m + 1 \in S
  <2> SUFFICES ASSUME m + 1 <= N PROVE f[m + 1] \in V
    OBVIOUS
  <2>1. f[m] \in V /\ m + 1 \in 1 .. N /\ (m + 1) - 1 = m
    BY <1>2
  <2>2. step[m + 1] \in [V -> V]
    BY <2>1
  <2>3. f[m + 1] = step[m + 1][f[m]]
    BY <2>1
  <2> QED
    BY <2>1, <2>2, <2>3
<1> HIDE DEF S
<1>3. Nat \subseteq S
  BY <1>1, <1>2, NaturalsByInduction
<1>4. \A m \in 0 .. N : f[m] \in V
  BY <1>3 DEF S
<1>5. \A n \in 1 .. N : n - 1 \in 0 .. N
  OBVIOUS
<1> QED
  BY <1>4, <1>5 DEF Follows
=============================================================================
