--------------------------- MODULE DetectionProofs ----------------------------
(***************************************************************************)
(* Proofs about what is found in a text and what becomes of it: the        *)
(* findings cover what they matched and none is lost to another            *)
(* (Detection), the score follows them (RiskEngine), and the masked text   *)
(* carries out the decision about each of them (PrivacyRuntime).           *)
(***************************************************************************)
EXTENDS PrivacyProofs

----------------------------------------------------------------------------
(* Lists of sets. *)

\* A list of all that a finite set has.
LEMMA ListedAll ==
    ASSUME NEW S, IsFiniteSet(S)
    PROVE  SetToSeq(S) \in Seq(S) /\ ToSet(SetToSeq(S)) = S
<1> DEFINE n == Cardinality(S)
           g == SetToSeq(S)
           T == {g[i] : i \in 1 .. n}
<1>1. n \in Nat /\ ExistsBijection(1 .. n, S)
  BY FS_CardinalityType
<1>2. PICK f \in [1 .. n -> S] : \A a, b \in 1 .. n : f[a] = f[b] => a = b
  <2> HIDE DEF n
  <2> QED
    BY <1>1 DEF ExistsBijection, Bijection, Injection, IsInjective
<1>3. \E h \in [1 .. n -> S] : IsInjective(h)
  <2> HIDE DEF n
  <2> QED
    BY <1>2 DEF IsInjective
<1>4. g \in [1 .. n -> S] /\ IsInjective(g)
  BY <1>3 DEF SetToSeq
<1> HIDE DEF g, n
<1>5. \A a, b \in 1 .. n : g[a] = g[b] => a = b
  BY <1>4 DEF IsInjective
<1>6. T \in SUBSET S
  BY <1>4
<1>7. Cardinality(T) = n
  <2> DEFINE h == [i \in 1 .. n |-> g[i]]
  <2>1. h \in Bijection(1 .. n, T)
    BY <1>5 DEF Bijection, Injection, Surjection, IsInjective
  <2> HIDE DEF h, T
  <2>2. IsFiniteSet(1 .. n) /\ Cardinality(1 .. n) = n
    BY <1>1, FS_Interval
  <2> QED
    BY <2>1, <2>2, FS_Bijection DEF ExistsBijection
<1> HIDE DEF T
<1>8. T = S
  BY <1>6, <1>7, FS_Subset DEF n
<1> QED
  BY <1>1, <1>4, <1>8, SMTT(60) DEF T, g, ToSet

----------------------------------------------------------------------------
(* Sorting. *)

\* Which places go ahead of which: a matter of keys, which may be equal.
Ahead(ahead, N) ==
    /\ \A i, j \in 1 .. N : <<i, j>> \in ahead => <<j, i>> \notin ahead
    /\ \A i, j, k \in 1 .. N :
          <<i, k>> \in ahead => <<i, j>> \in ahead \/ <<j, k>> \in ahead

\* s has at each place another element of the list, and none before one that
\* goes ahead of it; at says which.
InPlace(s, list, ahead, at) ==
    LET N == Len(list)
    IN  /\ at \in [1 .. N -> 1 .. N]
        /\ s = [n \in 1 .. N |-> list[at[n]]]
        /\ \A i \in 1 .. N : \E n \in 1 .. N : at[n] = i
        /\ \A m, n \in 1 .. N : at[m] = at[n] => m = n
        /\ \A m, n \in 1 .. N : m < n => <<at[n], at[m]>> \notin ahead

\* Arranged (sorted() in _resolve_overlaps) sorts.
LEMMA ArrangedSorts ==
    ASSUME NEW V, NEW list \in Seq(V), NEW ahead, Ahead(ahead, Len(list))
    PROVE  \E at : InPlace(Arranged(list, ahead), list, ahead, at)
<1> DEFINE N == Len(list)
           before == {p \in (1 .. N) \X (1 .. N) :
                         \/ p \in ahead
                         \/ <<p[2], p[1]>> \notin ahead /\ p[1] <= p[2]}
           place(i) == Cardinality({j \in DOMAIN list :
                          \/ <<j, i>> \in ahead
                          \/ <<i, j>> \notin ahead /\ j <= i})
           at == [n \in 1 .. N |-> CHOOSE i \in DOMAIN list : place(i) = n]
           s == Arranged(list, ahead)
<1>1. N \in Nat /\ DOMAIN list = 1 .. N
  OBVIOUS
<1>2. \A i, j \in 1 .. N :
         <<i, j>> \in before <=> <<i, j>> \in ahead \/ (<<j, i>> \notin ahead /\ i <= j)
  OBVIOUS
<1>3. Orders(before, N)
  <2> HIDE DEF before, N
  <2>1. \A i \in 1 .. N : <<i, i>> \in before
    BY <1>1, <1>2 DEF Ahead, N
  <2>2. ASSUME NEW i \in 1 .. N, NEW j \in 1 .. N
        PROVE  <<i, j>> \in before \/ <<j, i>> \in before
    <3>1. i <= j \/ j <= i
      BY <1>1
    <3> QED
      BY <1>2, <3>1
  <2>3. \A i, j \in 1 .. N : <<i, j>> \in before /\ <<j, i>> \in before => i = j
    BY <1>1, <1>2 DEF Ahead, N
  <2>4. ASSUME NEW i \in 1 .. N, NEW j \in 1 .. N, NEW k \in 1 .. N,
               <<i, j>> \in before, <<j, k>> \in before
        PROVE  <<i, k>> \in before
    <3>1. /\ <<i, j>> \in ahead => <<i, k>> \in ahead \/ <<k, j>> \in ahead
          /\ <<j, k>> \in ahead => <<j, i>> \in ahead \/ <<i, k>> \in ahead
          /\ <<k, i>> \in ahead => <<k, j>> \in ahead \/ <<j, i>> \in ahead
          /\ <<i, j>> \in ahead => <<j, i>> \notin ahead
          /\ <<j, k>> \in ahead => <<k, j>> \notin ahead
      BY DEF Ahead, N
    <3>2. i <= j /\ j <= k => i <= k
      BY <1>1
    <3> QED
      BY <1>2, <2>4, <3>1, <3>2
  <2> QED
    BY <2>1, <2>2, <2>3, <2>4 DEF Orders
<1>4. ASSUME NEW i \in 1 .. N PROVE place(i) = Rank(before, N, i)
  <2>1. {j \in 1 .. N : <<j, i>> \in before} =
           {j \in DOMAIN list : \/ <<j, i>> \in ahead
                                \/ <<i, j>> \notin ahead /\ j <= i}
    <3> HIDE DEF before, N
    <3> QED
      BY <1>1, <1>2
  <2> HIDE DEF before, N
  <2> QED
    BY <2>1 DEF Rank
<1>5. s = [n \in 1 .. N |-> list[at[n]]]
  BY <1>1 DEF Arranged
<1> HIDE DEF before, s
<1>6. ASSUME NEW n \in 1 .. N PROVE at[n] \in 1 .. N /\ Rank(before, N, at[n]) = n
  <2>1. PICK i \in 1 .. N : Rank(before, N, i) = n
    BY <1>1, <1>3, Places
  <2>2. \E x \in DOMAIN list : place(x) = n
    BY <1>1, <1>4, <2>1
  <2>3. at[n] \in DOMAIN list /\ place(at[n]) = n
    BY <2>2
  <2> QED
    BY <1>1, <1>4, <2>3
<1>7. at \in [1 .. N -> 1 .. N]
  BY <1>6
<1> HIDE DEF at
<1>8. ASSUME NEW i \in 1 .. N PROVE \E n \in 1 .. N : at[n] = i
  <2>1. PICK r \in 1 .. N : r = Rank(before, N, i)
    BY <1>1, <1>3, Places
  <2>2. PICK j \in 1 .. N : j = at[r] /\ Rank(before, N, j) = r
    BY <1>6
  <2>3. ~ (r < r)
    OBVIOUS
  <2>4. i = j
    BY <1>1, <1>3, <2>1, <2>2, <2>3, Places DEF Orders
  <2> QED
    BY <2>2, <2>4
<1>9. ASSUME NEW m \in 1 .. N, NEW n \in 1 .. N, m < n
      PROVE  <<at[n], at[m]>> \notin ahead
  <2>1. PICK i \in 1 .. N : i = at[m] /\ Rank(before, N, i) = m
    BY <1>6
  <2>2. PICK j \in 1 .. N : j = at[n] /\ Rank(before, N, j) = n
    BY <1>6
  <2>3. i # j /\ ~ (n < m)
    BY <1>9, <2>1, <2>2
  <2>4. <<j, i>> \in before => Rank(before, N, j) < Rank(before, N, i)
    BY <1>1, <1>3, <2>3, Places
  <2>5. <<j, i>> \notin before
    BY <2>1, <2>2, <2>3, <2>4
  <2> QED
    BY <1>2, <2>1, <2>2, <2>5
<1>10. \A m, n \in 1 .. N : at[m] = at[n] => m = n
  BY <1>6
<1> QED
  BY <1>5, <1>7, <1>8, <1>9, <1>10 DEF InPlace, s

----------------------------------------------------------------------------
(* The canonical text. *)

\* Somewhere in a text of L characters.
Spot(L) == {s \in [from : Nat, to : Nat] : s.from < s.to /\ s.to <= L}

\* Lists of such places.
Spots(source) == Seq(Spot(Len(source)))

\* A cluster ends behind its marks.
LEMMA ClusterEnds ==
    ASSUME NEW source \in Seq(Character), NEW i \in 1 .. Len(source)
    PROVE  /\ ClusterEnd(source, i) \in i .. Len(source)
           /\ \A j \in i .. Len(source) :
                 (\A k \in i + 1 .. j : source[k] = "mark") => j <= ClusterEnd(source, i)
<1> DEFINE N == Len(source)
           S == {j \in i .. N : \A k \in i + 1 .. j : source[k] = "mark"}
<1>1. N \in Nat /\ S \in SUBSET (0 .. N) /\ i \in S
  OBVIOUS
<1>2. Max(S) \in S /\ \A j \in S : j <= Max(S)
  <2> HIDE DEF S, N
  <2> QED
    BY <1>1, GreatestExists
<1> QED
  BY <1>2 DEF ClusterEnd

\* What a character adds is one or two times the span of its cluster, or nothing.
LEMMA AddedSpans ==
    ASSUME NEW source \in Seq(Character), NEW i \in 1 .. Len(source)
    PROVE  /\ Added(source, i) \in Seq(Spot(Len(source)))
           /\ Len(Added(source, i)) = IF ~ StartsCluster(source, i) THEN 0
                                      ELSE IF source[i] = "double" THEN 2 ELSE 1
           /\ \A k \in 1 .. Len(Added(source, i)) :
                 Added(source, i)[k] = Span(i - 1, ClusterEnd(source, i))
<1> DEFINE s == Span(i - 1, ClusterEnd(source, i))
           m == IF source[i] = "double" THEN 2 ELSE 1
<1>1. s \in Spot(Len(source))
  BY ClusterEnds DEF Spot, Span
<1>2. Cluster(source, i) = [k \in 1 .. m |-> s] /\ m \in Nat
  BY DEF Cluster
<1> HIDE DEF s, m
<1>3. /\ Cluster(source, i) \in Seq(Spot(Len(source))) /\ Len(Cluster(source, i)) = m
      /\ \A k \in 1 .. m : Cluster(source, i)[k] = s
  BY <1>1, <1>2
<1>4. CASE StartsCluster(source, i)
  <2>1. Added(source, i) = Cluster(source, i)
    BY <1>4 DEF Added
  <2> QED
    BY <1>2, <1>3, <1>4, <2>1 DEF s, m
<1>5. CASE ~ StartsCluster(source, i)
  <2>1. Added(source, i) = <<>>
    BY <1>5 DEF Added
  <2> QED
    BY <1>5, <2>1
<1> QED
  BY <1>4, <1>5

\* The recursion over the characters has a solution.
LEMMA ProvenanceExists ==
    ASSUME NEW source \in Seq(Character)
    PROVE  /\ ProvenanceUpTo(source) \in [0 .. Len(source) -> Spots(source)]
           /\ ProvenanceUpTo(source)[0] = <<>>
           /\ \A n \in 1 .. Len(source) :
                 ProvenanceUpTo(source)[n] = ProvenanceUpTo(source)[n - 1] \o Added(source, n)
<1> DEFINE N == Len(source)
           step == [n \in 1 .. N |-> [v \in Spots(source) |-> v \o Added(source, n)]]
           Solves(f) == f = [n \in 0 .. N |-> IF n = 0 THEN <<>> ELSE f[n - 1] \o Added(source, n)]
           g == CHOOSE f : Solves(f)
<1>1. N \in Nat /\ <<>> \in Spots(source)
  BY DEF Spots
<1>2. /\ step \in [1 .. N -> [Spots(source) -> Spots(source)]]
      /\ \A n \in 1 .. N : \A v \in Spots(source) : step[n][v] = v \o Added(source, n)
  <2>1. \A n \in 1 .. N : \A v \in Spots(source) : v \o Added(source, n) \in Spots(source)
    <3>1. \A n \in 1 .. N : Added(source, n) \in Spots(source)
      BY AddedSpans DEF Spots
    <3> QED
      BY <3>1 DEF Spots
  <2> QED
    BY <2>1
<1>3. ProvenanceUpTo(source) = g
  BY DEF ProvenanceUpTo
<1> HIDE DEF step, N
<1>4. PICK f : Follows(f, Spots(source), <<>>, N, step)
  BY <1>1, <1>2, Recursion
<1>5. Solves(f)
  <2>1. \A n \in 0 .. N : n # 0 => n \in 1 .. N /\ n - 1 \in 0 .. N
    BY <1>1
  <2>2. \A n \in 0 .. N : f[n] = IF n = 0 THEN <<>> ELSE f[n - 1] \o Added(source, n)
    BY <1>2, <1>4, <2>1 DEF Follows
  <2> QED
    BY <1>4, <2>2 DEF Follows
<1>6. Solves(g)
  BY <1>5
<1> HIDE DEF g
<1>7. g = [n \in 0 .. N |-> g[n]] /\ g[0] = <<>>
  BY <1>1, <1>6
<1>8. \A n \in 1 .. N : n \in 0 .. N /\ g[n] = g[n - 1] \o Added(source, n)
  <2>1. \A n \in 1 .. N : n \in 0 .. N /\ n # 0
    BY <1>1
  <2> QED
    BY <1>6, <2>1
<1>9. Follows(g, Spots(source), <<>>, N, step)
  <2>1. \A n \in 1 .. N : g[n - 1] \in Spots(source) => g[n] = step[n][g[n - 1]]
    BY <1>2, <1>8
  <2> QED
    BY <1>1, <1>2, <1>7, <2>1, Unrolled
<1> QED
  BY <1>1, <1>3, <1>8, <1>9 DEF Follows, N

\* All of a text's canonical characters have a span in it.
LEMMA ProvenanceType ==
    ASSUME NEW source \in Seq(Character)
    PROVE  Provenance(source) \in Seq(Spot(Len(source)))
BY ProvenanceExists DEF Provenance, Spots

\* Of a part of the canonical text the span that holds all of its characters.
LEMMA OriginalSpanCovers ==
    ASSUME NEW L \in Nat, NEW p \in Seq(Spot(L)), NEW start \in Nat, NEW end \in start + 1 .. Len(p)
    PROVE  /\ OriginalSpan(p, start, end) \in Spot(L)
           /\ \A k \in start + 1 .. end : /\ OriginalSpan(p, start, end).from <= p[k].from
                                          /\ p[k].to <= OriginalSpan(p, start, end).to
<1> DEFINE F == {p[k].from : k \in start + 1 .. end}
           T == {p[k].to : k \in start + 1 .. end}
<1>1. \A k \in start + 1 .. end : k \in 1 .. Len(p) /\ p[k] \in Spot(L)
  OBVIOUS
<1>2. /\ F \in SUBSET Nat /\ T \in SUBSET (0 .. L)
      /\ \A k \in start + 1 .. end : p[k].from \in F /\ p[k].to \in T /\ p[k].from < p[k].to
  <2>1. \A x \in Spot(L) : x.from \in Nat /\ x.to \in 0 .. L /\ x.from < x.to
    BY DEF Spot
  <2> QED
    BY <1>1, <2>1
<1>3. start + 1 \in start + 1 .. end
  OBVIOUS
<1>4. OriginalSpan(p, start, end) = [from |-> Min(F), to |-> Max(T)]
  BY DEF OriginalSpan, Span
<1> HIDE DEF F, T
<1>5. F # {} /\ T # {}
  BY <1>2, <1>3
<1>6. Min(F) \in F /\ \A x \in F : Min(F) <= x
  BY <1>2, <1>5, LeastExists
<1>7. Max(T) \in T /\ \A x \in T : x <= Max(T)
  BY <1>2, <1>5, GreatestExists
<1>8. PICK a \in Nat, b \in 0 .. L : a = Min(F) /\ b = Max(T)
  BY <1>2, <1>6, <1>7
<1>9. \A k \in start + 1 .. end : a <= p[k].from /\ p[k].to <= b
  BY <1>2, <1>6, <1>7, <1>8
<1>10. a < b
  <2>1. PICK x \in Nat, y \in Nat : x = p[start + 1].from /\ y = p[start + 1].to
    BY <1>1, <1>3 DEF Spot
  <2> QED
    BY <1>2, <1>3, <1>9, <2>1, SMTT(60)
<1> QED
  BY <1>4, <1>8, <1>9, <1>10 DEF Spot

\* What two lists have together.
LEMMA JoinedSets ==
    ASSUME NEW T, NEW a \in Seq(T), NEW b \in Seq(T)
    PROVE  a \o b \in Seq(T) /\ ToSet(a \o b) = ToSet(a) \cup ToSet(b)
<1>1. /\ a \o b \in Seq(T) /\ Len(a \o b) = Len(a) + Len(b)
      /\ \A i \in 1 .. Len(a) : (a \o b)[i] = a[i]
      /\ \A i \in 1 .. Len(b) : (a \o b)[Len(a) + i] = b[i]
      /\ \A i \in 1 .. Len(a) + Len(b) :
            i \in 1 .. Len(a) \/ \E k \in 1 .. Len(b) : i = Len(a) + k
  <2>1. \A m, n \in Nat : \A i \in 1 .. m + n : i \notin 1 .. m =>
           i - m \in 1 .. n /\ i = m + (i - m)
    OBVIOUS
  <2>2. Len(a) \in Nat /\ Len(b) \in Nat
    OBVIOUS
  <2>3. a \o b \in Seq(T) /\ Len(a \o b) = Len(a) + Len(b)
    OBVIOUS
  <2>4. \A i \in 1 .. Len(a) : (a \o b)[i] = a[i]
    OBVIOUS
  <2>5. \A i \in 1 .. Len(b) : (a \o b)[Len(a) + i] = b[i]
    OBVIOUS
  <2>6. \A i \in 1 .. Len(a) + Len(b) :
           i \in 1 .. Len(a) \/ \E k \in 1 .. Len(b) : i = Len(a) + k
    BY <2>1, <2>2, Zenon
  <2> QED
    BY <2>3, <2>4, <2>5, <2>6
<1>2. \A i \in 1 .. Len(a) : i \in 1 .. Len(a) + Len(b)
  OBVIOUS
<1>3. \A i \in 1 .. Len(b) : Len(a) + i \in 1 .. Len(a) + Len(b)
  OBVIOUS
<1>4. /\ ToSet(a) = {a[i] : i \in 1 .. Len(a)} /\ ToSet(b) = {b[i] : i \in 1 .. Len(b)}
      /\ ToSet(a \o b) = {(a \o b)[i] : i \in 1 .. Len(a) + Len(b)}
  <2>1. /\ DOMAIN a = 1 .. Len(a) /\ DOMAIN b = 1 .. Len(b)
        /\ DOMAIN (a \o b) = 1 .. Len(a) + Len(b)
    OBVIOUS
  <2> QED
    BY <2>1 DEF ToSet
<1>5. ASSUME NEW x \in ToSet(a \o b) PROVE x \in ToSet(a) \cup ToSet(b)
  BY <1>1, <1>4
<1>6. ASSUME NEW x \in ToSet(a) PROVE x \in ToSet(a \o b)
  BY <1>1, <1>2, <1>4
<1>7. ASSUME NEW x \in ToSet(b) PROVE x \in ToSet(a \o b)
  BY <1>1, <1>3, <1>4
<1> QED
  BY <1>1, <1>5, <1>6, <1>7

----------------------------------------------------------------------------
(* What the recognizers report. *)

Class == {"PUBLIC_DATA", "QUASI_IDENTIFIER", "LOCATION", "BUSINESS_CONFIDENTIAL", "DIRECT_PII",
          "FINANCIAL", "HEALTH", "AUTH_SECRET"}
Validation == {"VALID", "AMBIGUOUS", "INVALID", "UNVALIDATED"}

Recognizer ==
    {"structured-secrets", "structured-identifiers", "network-address", "legacy-regex"}

Confidence == 0 .. 1000
Reported == [recognizers : Seq(Recognizer), confidence : Confidence, validation : Validation]

\* Findings with values of V in a text of L characters.
Finding(V, L) ==
    [type : Recognized, class : Class, value : V, span : Spot(L), recognizers : Seq(Recognizer),
     confidence : Confidence, validation : Validation]

FindingIn(written) == Finding({s.value : s \in written.shapes}, Len(written.source))

\* What recognizer r finds of a shape.
FoundOf(s, r, written, p) ==
    Findings(Reports(s, p)[r], s, Provenance(written.source), p)

\* Reports are few and well formed.
LEMMA ReportsType ==
    ASSUME NEW s, NEW p \in Profile, NEW r \in 1 .. 4
    PROVE  Reports(s, p)[r] \subseteq Reported /\ IsFiniteSet(Reports(s, p)[r])
<1>1. \A x \in Recognizer, n \in Confidence, v \in Validation : Report(x, n, v) \in Reported
  <2>1. \A x \in Recognizer : <<x>> \in Seq(Recognizer)
    OBVIOUS
  <2> QED
    BY <2>1 DEF Report, Reported
<1>2. \A R : R = {} \/ (\E x \in Reported : R = {x}) => R \subseteq Reported /\ IsFiniteSet(R)
  <2>1. \A x \in Reported : {x} \subseteq Reported /\ IsFiniteSet({x})
    BY FS_Singleton, Zenon
  <2>2. {} \subseteq Reported /\ IsFiniteSet({})
    BY FS_EmptySet
  <2> QED
    BY <2>1, <2>2, Zenon
<1>3. Secrets(s) = {} \/ \E x \in Reported : Secrets(s) = {x}
  <2>1. Secrets(s) = {} \/ Secrets(s) = {Report("structured-secrets", 995, "VALID")}
    BY DEF Secrets
  <2>2. "structured-secrets" \in Recognizer /\ 995 \in Confidence /\ "VALID" \in Validation
    BY DEF Validation, Recognizer, Confidence
  <2>3. Report("structured-secrets", 995, "VALID") \in Reported
    BY <1>1, <2>2
  <2> QED
    BY <2>1, <2>3, SMTT(30)
<1>4. Identifiers(s, p) = {} \/ \E x \in Reported : Identifiers(s, p) = {x}
  <2>1. \/ Identifiers(s, p) = {}
        \/ Identifiers(s, p) = {Report("structured-identifiers", 995, "VALID")}
        \/ Identifiers(s, p) = {Report("structured-identifiers", 940, "UNVALIDATED")}
        \/ Identifiers(s, p) = {Report("structured-identifiers", 580, "AMBIGUOUS")}
    BY SMTT(60) DEF Identifiers
  <2>2. /\ Report("structured-identifiers", 995, "VALID") \in Reported
        /\ Report("structured-identifiers", 940, "UNVALIDATED") \in Reported
        /\ Report("structured-identifiers", 580, "AMBIGUOUS") \in Reported
    BY <1>1 DEF Validation, Recognizer, Confidence
  <2> QED
    BY <2>1, <2>2, SMTT(30)
<1>5. Network(s) = {} \/ \E x \in Reported : Network(s) = {x}
  <2>1. Network(s) = {} \/ Network(s) = {Report("network-address", 995, "VALID")}
    BY DEF Network
  <2>2. "network-address" \in Recognizer /\ 995 \in Confidence /\ "VALID" \in Validation
    BY DEF Validation, Recognizer, Confidence
  <2>3. Report("network-address", 995, "VALID") \in Reported
    BY <1>1, <2>2
  <2> QED
    BY <2>1, <2>3, SMTT(30)
<1>6. Legacy(s, p) = {} \/ \E x \in Reported : Legacy(s, p) = {x}
  <2>1. \/ Legacy(s, p) = {} \/ Legacy(s, p) = {Report("legacy-regex", 970, "VALID")}
        \/ Legacy(s, p) = {Report("legacy-regex", 990, "VALID")}
        \/ Legacy(s, p) = {Report("legacy-regex", 520, "INVALID")}
        \/ Legacy(s, p) = {Report("legacy-regex", 580, "INVALID")}
        \/ Legacy(s, p) = {Report("legacy-regex", 820, "UNVALIDATED")}
    BY SMTT(60) DEF Legacy
  <2>2. /\ Report("legacy-regex", 970, "VALID") \in Reported
        /\ Report("legacy-regex", 990, "VALID") \in Reported
        /\ Report("legacy-regex", 520, "INVALID") \in Reported
        /\ Report("legacy-regex", 580, "INVALID") \in Reported
        /\ Report("legacy-regex", 820, "UNVALIDATED") \in Reported
    BY <1>1 DEF Validation, Recognizer, Confidence
  <2> QED
    BY <2>1, <2>2, SMTT(30)
<1>7. \/ r = 1 /\ Reports(s, p)[r] = Secrets(s)
      \/ r = 2 /\ Reports(s, p)[r] = Identifiers(s, p)
      \/ r = 3 /\ Reports(s, p)[r] = Network(s)
      \/ r = 4 /\ Reports(s, p)[r] = Legacy(s, p)
  BY DEF Reports
<1> QED
  BY <1>2, <1>3, <1>4, <1>5, <1>6, <1>7

\* What is found of a shape is a finding in the text, of the shape's type and value,
\* and its span covers the characters the shape stands on.
LEMMA FoundOfType ==
    ASSUME NEW written \in Texts, NEW s \in written.shapes, NEW p \in Profile, NEW r \in 1 .. 4
    PROVE  /\ FoundOf(s, r, written, p) \subseteq FindingIn(written)
           /\ IsFiniteSet(FoundOf(s, r, written, p))
           /\ \A c \in FoundOf(s, r, written, p) :
                 /\ c.type = s.type
                 /\ c.span = OriginalSpan(Provenance(written.source), s.start, s.end)
<1> DEFINE span == OriginalSpan(Provenance(written.source), s.start, s.end)
           P == {x \in Reports(s, p)[r] : x.confidence >= MinConfidence(p)}
           made(x) == [type |-> s.type, class |-> DataClass(s.type), value |-> s.value,
                       span |-> span, recognizers |-> x.recognizers,
                       confidence |-> x.confidence, validation |-> x.validation]
           F == FoundOf(s, r, written, p)
<1>1. /\ written.source \in Seq(Character) /\ s.type \in Recognized /\ s.start \in Nat
      /\ s.end \in s.start + 1 .. Len(Provenance(written.source))
  BY TextsAreWritten
<1>2. span \in Spot(Len(written.source))
  <2>1. Len(written.source) \in Nat
    BY <1>1
  <2> QED
    BY <1>1, <2>1, ProvenanceType, OriginalSpanCovers
<1> HIDE DEF span
<1>3. DataClass(s.type) \in Class
  BY <1>1 DEF DataClass, Class, Recognized
<1>4. P \subseteq Reported /\ IsFiniteSet(P)
  <2>1. Reports(s, p)[r] \subseteq Reported /\ IsFiniteSet(Reports(s, p)[r])
    BY ReportsType
  <2>2. P \in SUBSET Reports(s, p)[r]
    OBVIOUS
  <2> HIDE DEF P
  <2> QED
    BY <2>1, <2>2, FS_Subset
<1>5. F = {made(x) : x \in P}
  BY DEF FoundOf, Findings, span
<1> HIDE DEF P, F
<1>6. \A x \in P : made(x) \in FindingIn(written)
  <2>1. s.value \in {t.value : t \in written.shapes}
    OBVIOUS
  <2>2. \A x \in P : /\ x.recognizers \in Seq(Recognizer) /\ x.confidence \in Confidence
                     /\ x.validation \in Validation
    <3> SUFFICES ASSUME NEW x \in P
                 PROVE  /\ x.recognizers \in Seq(Recognizer) /\ x.confidence \in Confidence
                        /\ x.validation \in Validation
      OBVIOUS
    <3>1. x \in Reported
      BY <1>4
    <3> QED
      BY <3>1 DEF Reported
  <2> QED
    BY <1>1, <1>2, <1>3, <2>1, <2>2 DEF FindingIn, Finding
<1>7. IsFiniteSet(F)
  <2> DEFINE h == [x \in P |-> made(x)]
  <2>1. h \in Surjection(P, F)
    BY <1>5 DEF Surjection
  <2> HIDE DEF h
  <2> QED
    BY <1>4, <2>1, FS_Surjection
<1>8. \A c \in F : c.type = s.type /\ c.span = span
  BY <1>5
<1> QED
  BY <1>5, <1>6, <1>7, <1>8 DEF F, span

\* Candidates are what the recognizers find of the shapes, and all of it.
LEMMA CandidatesAre ==
    ASSUME NEW written \in Texts, NEW p \in Profile
    PROVE  /\ Candidates(written, p) \in Seq(FindingIn(written))
           /\ \A c : c \in ToSet(Candidates(written, p)) <=>
                    \E s \in written.shapes : \E r \in 1 .. 4 : c \in FoundOf(s, r, written, p)
<1> DEFINE by(r) == FoundBy(r, written, p)
           list(r) == SetToSeq(by(r))
           T == FindingIn(written)
<1>1. ASSUME NEW r \in 1 .. 4
      PROVE  /\ by(r) \subseteq T /\ IsFiniteSet(by(r))
             /\ \A c : c \in by(r) <=> \E s \in written.shapes : c \in FoundOf(s, r, written, p)
  <2> DEFINE C == {FoundOf(s, r, written, p) : s \in written.shapes}
             h == [s \in written.shapes |-> FoundOf(s, r, written, p)]
  <2>1. by(r) = UNION C
    BY DEF FoundBy, FoundOf
  <2>2. IsFiniteSet(written.shapes)
    BY TextsAreWritten
  <2>3. h \in Surjection(written.shapes, C)
    BY DEF Surjection
  <2> HIDE DEF h
  <2>4. IsFiniteSet(C)
    <3> HIDE DEF C
    <3> QED
      BY <2>2, <2>3, FS_Surjection
  <2>5. \A F \in C : IsFiniteSet(F) /\ F \subseteq T
    BY FoundOfType
  <2>6. \A c : c \in UNION C <=> \E s \in written.shapes : c \in FoundOf(s, r, written, p)
    OBVIOUS
  <2> HIDE DEF C, T
  <2>7. IsFiniteSet(UNION C)
    BY <2>4, <2>5, FS_UNION
  <2> QED
    BY <2>1, <2>5, <2>6, <2>7
<1> HIDE DEF T
<1>2. ASSUME NEW r \in 1 .. 4 PROVE list(r) \in Seq(T) /\ ToSet(list(r)) = by(r)
  <2>1. by(r) \subseteq T /\ IsFiniteSet(by(r))
    BY <1>1
  <2> HIDE DEF by
  <2>2. list(r) \in Seq(by(r)) /\ ToSet(list(r)) = by(r)
    BY <2>1, ListedAll
  <2> HIDE DEF list
  <2> QED
    BY <2>1, <2>2
<1>3. Candidates(written, p) = list(1) \o list(2) \o list(3) \o list(4)
  BY DEF Candidates
<1> HIDE DEF list, by
<1>4. /\ list(1) \o list(2) \o list(3) \o list(4) \in Seq(T)
      /\ ToSet(list(1) \o list(2) \o list(3) \o list(4)) =
            ToSet(list(1)) \cup ToSet(list(2)) \cup ToSet(list(3)) \cup ToSet(list(4))
  <2>1. \A a, b \in Seq(T) : a \o b \in Seq(T) /\ ToSet(a \o b) = ToSet(a) \cup ToSet(b)
    BY JoinedSets
  <2>2. list(1) \in Seq(T) /\ list(2) \in Seq(T) /\ list(3) \in Seq(T) /\ list(4) \in Seq(T)
    BY <1>2
  <2>3. /\ list(1) \o list(2) \in Seq(T)
        /\ ToSet(list(1) \o list(2)) = ToSet(list(1)) \cup ToSet(list(2))
    BY <2>1, <2>2
  <2>4. /\ (list(1) \o list(2)) \o list(3) \in Seq(T)
        /\ ToSet((list(1) \o list(2)) \o list(3)) =
              ToSet(list(1) \o list(2)) \cup ToSet(list(3))
    BY <2>1, <2>2, <2>3
  <2>5. /\ ((list(1) \o list(2)) \o list(3)) \o list(4) \in Seq(T)
        /\ ToSet(((list(1) \o list(2)) \o list(3)) \o list(4)) =
              ToSet((list(1) \o list(2)) \o list(3)) \cup ToSet(list(4))
    BY <2>1, <2>2, <2>4
  <2> QED
    BY ZenonT(30), <2>3, <2>4, <2>5
<1>5. \A c : c \in ToSet(Candidates(written, p)) <=> \E r \in 1 .. 4 : c \in by(r)
  <2>1. ToSet(Candidates(written, p)) = by(1) \cup by(2) \cup by(3) \cup by(4)
    BY <1>2, <1>3, <1>4
  <2>2. \A r : r \in 1 .. 4 <=> r \in {1, 2, 3, 4}
    OBVIOUS
  <2> QED
    BY <2>1, <2>2
<1> QED
  BY <1>1, <1>3, <1>4, <1>5 DEF T

----------------------------------------------------------------------------
(* Merging. *)

\* The greater and the smaller of two numbers.
LEMMA OfTwo ==
    ASSUME NEW a \in Int, NEW b \in Int
    PROVE  /\ Max({a, b}) = IF a >= b THEN a ELSE b
           /\ Min({a, b}) = IF a <= b THEN a ELSE b
BY DEF Max, Min

\* Two confidences make one.
LEMMA MoreConfident ==
    ASSUME NEW x \in Confidence, NEW y \in Confidence
    PROVE  Confirmed(x, y) \in Confidence
<1> x \in 0 .. 1000 /\ y \in 0 .. 1000
  BY DEF Confidence
<1>1. PICK m \in {x, y} : m = Max({x, y})
  <2>1. \E m \in {x, y} : \A k \in {x, y} : m >= k
    BY SMTT(30)
  <2> QED
    BY <2>1, SMTT(30) DEF Max
<1> DEFINE z == m + 20
<1>2. z \in Nat
  BY SMTT(60)
<1> HIDE DEF z
<1>3. Min({1000, z}) \in {1000, z} /\ \A k \in {1000, z} : Min({1000, z}) <= k
  <2>1. \E i \in {1000, z} : \A k \in {1000, z} : i <= k
    BY <1>2
  <2> QED
    BY <2>1, SMTT(30) DEF Min
<1>4. Min({1000, z}) \in 0 .. 1000
  BY <1>2, <1>3, SMTT(60)
<1> QED
  BY <1>1, <1>4 DEF z, Confirmed, Confidence

\* A finding whose confidence and recognizers change is one still.
LEMMA Changed ==
    ASSUME NEW T, NEW C, NEW V, NEW S, NEW R, NEW N, NEW W,
           NEW c \in [type : T, class : C, value : V, span : S, recognizers : R, confidence : N,
                      validation : W],
           NEW n \in N, NEW r \in R
    PROVE  /\ [c EXCEPT !.confidence = n, !.recognizers = r] \in
                 [type : T, class : C, value : V, span : S, recognizers : R, confidence : N,
                  validation : W]
           /\ [c EXCEPT !.confidence = n, !.recognizers = r].type = c.type
           /\ [c EXCEPT !.confidence = n, !.recognizers = r].span = c.span
OBVIOUS

\* Lists of findings.
ListsOf(V, L) == Seq(Finding(V, L))

\* What agrees is the same finding still.
LEMMA AgreedType ==
    ASSUME NEW V, NEW L, NEW a \in Finding(V, L), NEW b \in Finding(V, L)
    PROVE  /\ Agreed(a, b) \in Finding(V, L)
           /\ SameFinding(a, b) => SameFinding(Agreed(a, b), a)
<1> DEFINE c == IF a.confidence >= b.confidence THEN a ELSE b
           n == Confirmed(a.confidence, b.confidence)
           r == IF a.recognizers = b.recognizers THEN a.recognizers
                ELSE a.recognizers \o b.recognizers
<1>1. n \in Confidence
  <2>1. a.confidence \in Confidence /\ b.confidence \in Confidence
    BY DEF Finding
  <2> QED
    BY <2>1, MoreConfident
<1>2. r \in Seq(Recognizer)
  <2>1. a.recognizers \in Seq(Recognizer) /\ b.recognizers \in Seq(Recognizer)
    BY DEF Finding
  <2> QED
    BY <2>1
<1>3. Agreed(a, b) = [c EXCEPT !.confidence = n, !.recognizers = r]
  BY DEF Agreed
<1>4. c \in Finding(V, L) /\ (c = a \/ c = b)
  OBVIOUS
<1> HIDE DEF c, n, r
<1>5. /\ Agreed(a, b) \in Finding(V, L)
      /\ Agreed(a, b).type = c.type /\ Agreed(a, b).span = c.span
  <2>1. c \in [type : Recognized, class : Class, value : V, span : Spot(L),
               recognizers : Seq(Recognizer), confidence : Confidence, validation : Validation]
    BY <1>4 DEF Finding
  <2>2. /\ [c EXCEPT !.confidence = n, !.recognizers = r] \in
              [type : Recognized, class : Class, value : V, span : Spot(L),
               recognizers : Seq(Recognizer), confidence : Confidence, validation : Validation]
        /\ [c EXCEPT !.confidence = n, !.recognizers = r].type = c.type
        /\ [c EXCEPT !.confidence = n, !.recognizers = r].span = c.span
    BY <1>1, <1>2, <2>1, Changed, Zenon
  <2> QED
    BY <1>3, <2>2 DEF Finding
<1> QED
  BY <1>4, <1>5 DEF SameFinding

\* What a merged list has after c: all of before and c, and nothing else.
Joins(new, old, c) ==
    /\ \A m \in DOMAIN old : \E k \in DOMAIN new : SameFinding(new[k], old[m])
    /\ \E k \in DOMAIN new : SameFinding(new[k], c)
    /\ \A k \in DOMAIN new :
          SameFinding(new[k], c) \/ \E m \in DOMAIN old : SameFinding(new[k], old[m])

\* Merging loses no place of a finding and makes none up.
LEMMA MergeJoins ==
    ASSUME NEW V, NEW L, NEW merged \in ListsOf(V, L), NEW c \in Finding(V, L)
    PROVE  Merge(merged, c) \in ListsOf(V, L) /\ Joins(Merge(merged, c), merged, c)
<1> DEFINE F == Finding(V, L)
           N == Len(merged)
           new == Merge(merged, c)
<1>1. merged \in Seq(F) /\ N \in Nat /\ DOMAIN merged = 1 .. N /\ \A m \in 1 .. N : merged[m] \in F
  BY DEF ListsOf
<1>2. \A a, b \in F : Agreed(a, b) \in F /\ (SameFinding(a, b) => SameFinding(Agreed(a, b), a))
  BY AgreedType
<1>3. c \in F
  OBVIOUS
<1>4. \A x, y, z : /\ SameFinding(x, x) /\ (SameFinding(x, y) => SameFinding(y, x))
                   /\ (SameFinding(x, y) /\ SameFinding(y, z) => SameFinding(x, z))
  BY DEF SameFinding
<1> HIDE DEF F, N, new
<1>5. CASE \E n \in DOMAIN merged : SameFinding(merged[n], c)
  <2>1. new = [n \in 1 .. N |-> IF SameFinding(merged[n], c) THEN Agreed(merged[n], c) ELSE merged[n]]
    BY <1>1, <1>5 DEF Merge, new
  <2>2. \A n \in 1 .. N : new[n] \in F /\ SameFinding(new[n], merged[n])
    BY <1>1, <1>2, <1>3, <1>4, <2>1
  <2>3. new \in Seq(F) /\ DOMAIN new = 1 .. N
    BY <1>1, <2>1, <2>2
  <2>4. PICK n \in 1 .. N : SameFinding(merged[n], c)
    BY <1>1, <1>5
  <2>5. SameFinding(new[n], c)
    BY <1>4, <2>2, <2>4
  <2> QED
    BY <1>1, <2>2, <2>3, <2>5 DEF Joins, ListsOf, F, new
<1>6. CASE ~ \E n \in DOMAIN merged : SameFinding(merged[n], c)
  <2>1. new = Append(merged, c)
    BY <1>6 DEF Merge, new
  <2>2. /\ new \in Seq(F) /\ DOMAIN new = 1 .. N + 1 /\ new[N + 1] = c
        /\ \A n \in 1 .. N : new[n] = merged[n]
    BY <1>1, <1>3, <2>1 DEF N
  <2>3. /\ \A n \in 1 .. N : n \in 1 .. N + 1
        /\ N + 1 \in 1 .. N + 1
        /\ \A n \in 1 .. N + 1 : n = N + 1 \/ n \in 1 .. N
    BY <1>1
  <2>4. Joins(new, merged, c)
    BY <1>1, <1>4, <2>2, <2>3 DEF Joins
  <2> QED
    BY <2>2, <2>4 DEF ListsOf, F, new
<1> QED
  BY <1>5, <1>6

\* The recursion over the candidates has a solution.
LEMMA MergedExists ==
    ASSUME NEW V, NEW L, NEW candidates \in ListsOf(V, L)
    PROVE  /\ MergedUpTo(candidates) \in [0 .. Len(candidates) -> ListsOf(V, L)]
           /\ MergedUpTo(candidates)[0] = <<>>
           /\ \A n \in 1 .. Len(candidates) :
                 MergedUpTo(candidates)[n] = Merge(MergedUpTo(candidates)[n - 1], candidates[n])
<1> DEFINE N == Len(candidates)
           step == [n \in 1 .. N |-> [v \in ListsOf(V, L) |-> Merge(v, candidates[n])]]
           Solves(f) == f = [n \in 0 .. N |-> IF n = 0 THEN <<>> ELSE Merge(f[n - 1], candidates[n])]
           g == CHOOSE f : Solves(f)
<1>1. N \in Nat /\ <<>> \in ListsOf(V, L)
  BY DEF ListsOf
<1>2. /\ step \in [1 .. N -> [ListsOf(V, L) -> ListsOf(V, L)]]
      /\ \A n \in 1 .. N : \A v \in ListsOf(V, L) : step[n][v] = Merge(v, candidates[n])
  <2>1. \A n \in 1 .. N : \A v \in ListsOf(V, L) : Merge(v, candidates[n]) \in ListsOf(V, L)
    <3>1. \A n \in 1 .. N : candidates[n] \in Finding(V, L)
      BY DEF ListsOf
    <3> HIDE DEF N
    <3> QED
      BY <3>1, MergeJoins
  <2> QED
    BY <2>1
<1>3. MergedUpTo(candidates) = g
  BY DEF MergedUpTo
<1> HIDE DEF step, N
<1>4. PICK f : Follows(f, ListsOf(V, L), <<>>, N, step)
  BY <1>1, <1>2, Recursion
<1>5. Solves(f)
  <2>1. \A n \in 0 .. N : n # 0 => n \in 1 .. N /\ n - 1 \in 0 .. N
    BY <1>1
  <2>2. \A n \in 0 .. N : f[n] = IF n = 0 THEN <<>> ELSE Merge(f[n - 1], candidates[n])
    BY <1>2, <1>4, <2>1 DEF Follows
  <2> QED
    BY <1>4, <2>2 DEF Follows
<1>6. Solves(g)
  BY <1>5
<1> HIDE DEF g
<1>7. g = [n \in 0 .. N |-> g[n]] /\ g[0] = <<>>
  BY <1>1, <1>6
<1>8. \A n \in 1 .. N : n \in 0 .. N /\ g[n] = Merge(g[n - 1], candidates[n])
  <2>1. \A n \in 1 .. N : n \in 0 .. N /\ n # 0
    BY <1>1
  <2> QED
    BY <1>6, <2>1
<1>9. Follows(g, ListsOf(V, L), <<>>, N, step)
  <2>1. \A n \in 1 .. N : g[n - 1] \in ListsOf(V, L) => g[n] = step[n][g[n - 1]]
    BY <1>2, <1>8
  <2> QED
    BY <1>1, <1>2, <1>7, <2>1, Unrolled
<1> QED
  BY <1>1, <1>3, <1>8, <1>9 DEF Follows, N

\* Of the first n candidates each is in the list, and nothing else is.
Gathers(list, candidates, n) ==
    /\ \A k \in 1 .. n : \E m \in DOMAIN list : SameFinding(list[m], candidates[k])
    /\ \A m \in DOMAIN list : \E k \in 1 .. n : SameFinding(list[m], candidates[k])

\* MergeExact (_merge_exact) keeps each candidate, as its type and its place.
LEMMA MergeGathers ==
    ASSUME NEW V, NEW L, NEW candidates \in ListsOf(V, L)
    PROVE  /\ MergeExact(candidates) \in ListsOf(V, L)
           /\ Gathers(MergeExact(candidates), candidates, Len(candidates))
<1> DEFINE N == Len(candidates)
           g == MergedUpTo(candidates)
           S == {n \in Nat : n <= N => Gathers(g[n], candidates, n)}
<1>1. N \in Nat /\ \A n \in 1 .. N : candidates[n] \in Finding(V, L)
  BY DEF ListsOf
<1>2. /\ g \in [0 .. N -> ListsOf(V, L)] /\ g[0] = <<>>
      /\ \A n \in 1 .. N : g[n] = Merge(g[n - 1], candidates[n])
  BY MergedExists
<1> HIDE DEF g, N
<1>3. 0 \in S
  BY <1>2 DEF Gathers
<1>4. ASSUME NEW n \in Nat, n \in S PROVE n + 1 \in S
  <2> SUFFICES ASSUME n + 1 <= N PROVE Gathers(g[n + 1], candidates, n + 1)
    OBVIOUS
  <2> DEFINE old == g[n]
             new == g[n + 1]
             c == candidates[n + 1]
  <2>1. n + 1 \in 1 .. N /\ n \in 0 .. N /\ (n + 1) - 1 = n
    BY <1>1
  <2>2. Gathers(old, candidates, n)
    BY <1>4, <2>1
  <2>3. new = Merge(old, c) /\ old \in ListsOf(V, L) /\ c \in Finding(V, L)
    BY <1>1, <1>2, <2>1
  <2>4. Joins(new, old, c)
    BY <2>3, MergeJoins
  <2>5. \A x, y, z : SameFinding(x, y) /\ SameFinding(y, z) => SameFinding(x, z)
    BY DEF SameFinding
  <2>6. \A k \in 1 .. n + 1 : k = n + 1 \/ k \in 1 .. n
    OBVIOUS
  <2>7. n + 1 \in 1 .. n + 1 /\ \A k \in 1 .. n : k \in 1 .. n + 1
    OBVIOUS
  <2>8. \A k \in 1 .. n : k # n + 1
    OBVIOUS
  <2> HIDE DEF old, new
  <2>9. ASSUME NEW k \in 1 .. n + 1
        PROVE  \E m \in DOMAIN new : SameFinding(new[m], candidates[k])
    <3>1. CASE k = n + 1
      BY <2>4, <3>1 DEF Joins
    <3>2. CASE k \in 1 .. n
      <4>1. PICK m \in DOMAIN old : SameFinding(old[m], candidates[k])
        BY <2>2, <3>2 DEF Gathers
      <4>2. PICK j \in DOMAIN new : SameFinding(new[j], old[m])
        BY <2>4 DEF Joins
      <4> QED
        BY <2>5, <4>1, <4>2
    <3> QED
      BY <2>6, <3>1, <3>2
  <2>10. ASSUME NEW m \in DOMAIN new
         PROVE  \E k \in 1 .. n + 1 : SameFinding(new[m], candidates[k])
    <3>1. CASE SameFinding(new[m], c)
      BY <2>7, <3>1
    <3>2. CASE \E j \in DOMAIN old : SameFinding(new[m], old[j])
      <4>1. PICK j \in DOMAIN old : SameFinding(new[m], old[j])
        BY <3>2
      <4>2. PICK k \in 1 .. n : SameFinding(old[j], candidates[k])
        BY <2>2 DEF Gathers
      <4> QED
        BY <2>5, <2>7, <4>1, <4>2
    <3> QED
      BY <2>4, <3>1, <3>2 DEF Joins
  <2> QED
    BY <2>9, <2>10 DEF Gathers, new
<1> HIDE DEF S
<1>5. \A n \in Nat : n \in S => n + 1 \in S
  BY <1>4
<1>6. Nat \subseteq S
  BY <1>3, <1>5, NaturalsByInduction
<1>7. Gathers(g[N], candidates, N) /\ N \in 0 .. N
  BY <1>1, <1>6 DEF S
<1> QED
  BY <1>2, <1>7 DEF MergeExact, g, N

----------------------------------------------------------------------------
(* Selecting. *)

\* How two findings rank, by priority, confidence, length and place.
Higher(p, c, l, f, q, d, m, g) ==
    \/ p > q
    \/ p = q /\ c > d
    \/ p = q /\ c = d /\ l > m
    \/ p = q /\ c = d /\ l = m /\ f < g

\* Which is the order of their keys.
LEMMA HigherIsStrict ==
    ASSUME NEW p \in Int, NEW c \in Int, NEW l \in Int, NEW f \in Int,
           NEW q \in Int, NEW d \in Int, NEW m \in Int, NEW g \in Int
    PROVE  Higher(p, c, l, f, q, d, m, g) => ~ Higher(q, d, m, g, p, c, l, f)
BY DEF Higher

\* And one of two is above any third or below it.
LEMMA HigherSplits ==
    ASSUME NEW p \in Int, NEW c \in Int, NEW l \in Int, NEW f \in Int,
           NEW q \in Int, NEW d \in Int, NEW m \in Int, NEW g \in Int,
           NEW r \in Int, NEW e \in Int, NEW n \in Int, NEW h \in Int,
           Higher(p, c, l, f, q, d, m, g)
    PROVE  Higher(p, c, l, f, r, e, n, h) \/ Higher(r, e, n, h, q, d, m, g)
BY DEF Higher

\* The priority of each type is a number.
LEMMA PriorityType ==
    \A t \in Recognized : Priority(t) \in Nat
BY DEF Priority, Recognized

\* What a finding has to be ranked by.
LEMMA KeysOf ==
    ASSUME NEW V, NEW L, NEW a \in Finding(V, L)
    PROVE  /\ Priority(a.type) \in Int /\ a.confidence \in Int /\ Length(a.span) \in Int
           /\ a.span.from \in Nat /\ a.span.to \in Nat /\ a.span.from < a.span.to
<1>1. a.type \in Recognized /\ a.confidence \in 0 .. 1000 /\ a.span \in Spot(L)
  BY DEF Finding, Confidence
<1>2. a.span.from \in Nat /\ a.span.to \in Nat /\ a.span.from < a.span.to
  BY <1>1 DEF Spot
<1>3. Priority(a.type) \in Int
  <2>1. Priority(a.type) \in Nat
    BY <1>1, PriorityType, Zenon
  <2> QED
    BY <2>1
<1>4. a.confidence \in Int
  BY <1>1, SMTT(60)
<1>5. Length(a.span) \in Int
  BY <1>2 DEF Length
<1> QED
  BY <1>2, <1>3, <1>4, <1>5, Zenon

\* BestFirst (sorted() by the key of _resolve_overlaps) has all the candidates, and
\* none after one of a lower priority.
LEMMA BestComeFirst ==
    ASSUME NEW V, NEW L, NEW list \in ListsOf(V, L)
    PROVE  /\ BestFirst(list) \in ListsOf(V, L) /\ Len(BestFirst(list)) = Len(list)
           /\ \A n \in 1 .. Len(list) : \E i \in 1 .. Len(list) : BestFirst(list)[n] = list[i]
           /\ \A i \in 1 .. Len(list) : \E n \in 1 .. Len(list) : BestFirst(list)[n] = list[i]
           /\ \A m, n \in 1 .. Len(list) :
                 m < n => Priority(BestFirst(list)[n].type) <= Priority(BestFirst(list)[m].type)
<1> DEFINE N == Len(list)
           ahead == {p \in (DOMAIN list) \X DOMAIN list : RanksBefore(list[p[1]], list[p[2]])}
           s == BestFirst(list)
           P(i) == Priority(list[i].type)
           C(i) == list[i].confidence
           W(i) == Length(list[i].span)
           F(i) == list[i].span.from
<1>1. /\ N \in Nat /\ DOMAIN list = 1 .. N /\ list \in Seq(Finding(V, L))
      /\ \A i \in 1 .. N : list[i] \in Finding(V, L)
  BY DEF ListsOf
<1>2. \A i \in 1 .. N : P(i) \in Int /\ C(i) \in Int /\ W(i) \in Int /\ F(i) \in Int
  BY <1>1, KeysOf
<1>3. \A i, j \in 1 .. N :
         <<i, j>> \in ahead <=> Higher(P(i), C(i), W(i), F(i), P(j), C(j), W(j), F(j))
  <2>1. \A i, j \in 1 .. N : <<i, j>> \in ahead <=> RanksBefore(list[i], list[j])
    BY <1>1
  <2> HIDE DEF ahead, N
  <2> QED
    BY <2>1, ZenonT(60) DEF RanksBefore, Higher, P, C, W, F
<1> HIDE DEF ahead, P, C, W, F
<1>4. Ahead(ahead, N)
  <2> HIDE DEF N
  <2>1. \A i, j \in 1 .. N : <<i, j>> \in ahead => <<j, i>> \notin ahead
    <3> SUFFICES ASSUME NEW i \in 1 .. N, NEW j \in 1 .. N
                 PROVE  Higher(P(i), C(i), W(i), F(i), P(j), C(j), W(j), F(j)) =>
                           ~ Higher(P(j), C(j), W(j), F(j), P(i), C(i), W(i), F(i))
      BY <1>3
    <3>1. /\ P(i) \in Int /\ C(i) \in Int /\ W(i) \in Int /\ F(i) \in Int
          /\ P(j) \in Int /\ C(j) \in Int /\ W(j) \in Int /\ F(j) \in Int
      BY <1>2
    <3> QED
      BY <3>1, HigherIsStrict
  <2>2. \A i, j, k \in 1 .. N :
           <<i, k>> \in ahead => <<i, j>> \in ahead \/ <<j, k>> \in ahead
    <3> SUFFICES ASSUME NEW i \in 1 .. N, NEW j \in 1 .. N, NEW k \in 1 .. N
                 PROVE  Higher(P(i), C(i), W(i), F(i), P(k), C(k), W(k), F(k)) =>
                           \/ Higher(P(i), C(i), W(i), F(i), P(j), C(j), W(j), F(j))
                           \/ Higher(P(j), C(j), W(j), F(j), P(k), C(k), W(k), F(k))
      BY <1>3
    <3>1. /\ P(i) \in Int /\ C(i) \in Int /\ W(i) \in Int /\ F(i) \in Int
          /\ P(j) \in Int /\ C(j) \in Int /\ W(j) \in Int /\ F(j) \in Int
          /\ P(k) \in Int /\ C(k) \in Int /\ W(k) \in Int /\ F(k) \in Int
      BY <1>2
    <3> QED
      BY <3>1, HigherSplits
  <2> QED
    BY <2>1, <2>2 DEF Ahead
<1>5. PICK at : InPlace(s, list, ahead, at)
  BY <1>1, <1>4, ArrangedSorts DEF BestFirst, ahead, s
<1>6. /\ at \in [1 .. N -> 1 .. N] /\ s = [n \in 1 .. N |-> list[at[n]]]
      /\ \A i \in 1 .. N : \E n \in 1 .. N : at[n] = i
      /\ \A m, n \in 1 .. N : m < n => <<at[n], at[m]>> \notin ahead
  BY <1>5 DEF InPlace
<1> HIDE DEF s, N
<1>7. \A n \in 1 .. N : at[n] \in 1 .. N /\ s[n] = list[at[n]]
  BY <1>6
<1>8. s \in Seq(Finding(V, L)) /\ Len(s) = N
  BY <1>1, <1>6, <1>7
<1>9. \A n \in 1 .. N : \E i \in 1 .. N : s[n] = list[i]
  BY <1>7
<1>10. \A i \in 1 .. N : \E n \in 1 .. N : s[n] = list[i]
  BY <1>6, <1>7
<1>11. ASSUME NEW m \in 1 .. N, NEW n \in 1 .. N, m < n
       PROVE  Priority(s[n].type) <= Priority(s[m].type)
  <2>1. PICK i \in 1 .. N, j \in 1 .. N : i = at[m] /\ j = at[n]
    BY <1>7
  <2>2. ~ Higher(P(j), C(j), W(j), F(j), P(i), C(i), W(i), F(i))
    BY <1>3, <1>6, <1>11, <2>1
  <2>3. ~ (P(j) > P(i)) /\ P(i) \in Int /\ P(j) \in Int
    BY <1>2, <2>2 DEF Higher
  <2> QED
    BY <1>7, <2>1, <2>3 DEF P
<1> QED
  BY <1>8, <1>9, <1>10, <1>11 DEF s, N, ListsOf

\* The recursion over the ranked findings has a solution.
LEMMA SelectedExists ==
    ASSUME NEW V, NEW L, NEW ranked \in ListsOf(V, L)
    PROVE  /\ SelectedUpTo(ranked) \in [0 .. Len(ranked) -> ListsOf(V, L)]
           /\ SelectedUpTo(ranked)[0] = <<>>
           /\ \A n \in 1 .. Len(ranked) :
                 SelectedUpTo(ranked)[n] = Select(SelectedUpTo(ranked)[n - 1], ranked[n])
<1> DEFINE N == Len(ranked)
           step == [n \in 1 .. N |-> [v \in ListsOf(V, L) |-> Select(v, ranked[n])]]
           Solves(f) == f = [n \in 0 .. N |-> IF n = 0 THEN <<>> ELSE Select(f[n - 1], ranked[n])]
           g == CHOOSE f : Solves(f)
<1>1. N \in Nat /\ <<>> \in ListsOf(V, L)
  BY DEF ListsOf
<1>2. /\ step \in [1 .. N -> [ListsOf(V, L) -> ListsOf(V, L)]]
      /\ \A n \in 1 .. N : \A v \in ListsOf(V, L) : step[n][v] = Select(v, ranked[n])
  <2>1. \A n \in 1 .. N : \A v \in ListsOf(V, L) : Select(v, ranked[n]) \in ListsOf(V, L)
    <3>1. \A n \in 1 .. N : ranked[n] \in Finding(V, L)
      BY DEF ListsOf
    <3> HIDE DEF N
    <3> QED
      BY <3>1 DEF Select, ListsOf
  <2> QED
    BY <2>1
<1>3. SelectedUpTo(ranked) = g
  BY DEF SelectedUpTo
<1> HIDE DEF step, N
<1>4. PICK f : Follows(f, ListsOf(V, L), <<>>, N, step)
  BY <1>1, <1>2, Recursion
<1>5. Solves(f)
  <2>1. \A n \in 0 .. N : n # 0 => n \in 1 .. N /\ n - 1 \in 0 .. N
    BY <1>1
  <2>2. \A n \in 0 .. N : f[n] = IF n = 0 THEN <<>> ELSE Select(f[n - 1], ranked[n])
    BY <1>2, <1>4, <2>1 DEF Follows
  <2> QED
    BY <1>4, <2>2 DEF Follows
<1>6. Solves(g)
  BY <1>5
<1> HIDE DEF g
<1>7. g = [n \in 0 .. N |-> g[n]] /\ g[0] = <<>>
  BY <1>1, <1>6
<1>8. \A n \in 1 .. N : n \in 0 .. N /\ g[n] = Select(g[n - 1], ranked[n])
  <2>1. \A n \in 1 .. N : n \in 0 .. N /\ n # 0
    BY <1>1
  <2> QED
    BY <1>6, <2>1
<1>9. Follows(g, ListsOf(V, L), <<>>, N, step)
  <2>1. \A n \in 1 .. N : g[n - 1] \in ListsOf(V, L) => g[n] = step[n][g[n - 1]]
    BY <1>2, <1>8
  <2> QED
    BY <1>1, <1>2, <1>7, <2>1, Unrolled
<1> QED
  BY <1>1, <1>3, <1>8, <1>9 DEF Follows, N

\* What is selected of the first n: disjoint findings among them, and one as
\* important or more in the place of each.
Selected(list, ranked, n) ==
    /\ \A k, m \in DOMAIN list : k # m => ~ Overlaps(list[k], list[m])
    /\ \A m \in DOMAIN list : \E k \in 1 .. n : list[m] = ranked[k]
    /\ \A k \in 1 .. n : \E m \in DOMAIN list :
          /\ Overlaps(ranked[k], list[m])
          /\ Priority(list[m].type) >= Priority(ranked[k].type)

\* The next one is selected as well, or its place is taken.
LEMMA SelectKeeps ==
    ASSUME NEW V, NEW L, NEW ranked \in ListsOf(V, L),
           \A m, n \in 1 .. Len(ranked) :
              m < n => Priority(ranked[n].type) <= Priority(ranked[m].type),
           NEW n \in Nat, n + 1 <= Len(ranked),
           NEW old \in ListsOf(V, L), Selected(old, ranked, n)
    PROVE  Selected(Select(old, ranked[n + 1]), ranked, n + 1)
<1> DEFINE c == ranked[n + 1]
           new == Select(old, c)
           K == Len(old)
           N == Len(ranked)
<1>1. /\ K \in Nat /\ DOMAIN old = 1 .. K /\ \A m \in 1 .. K : old[m] \in Finding(V, L)
      /\ N \in Nat /\ \A k \in 1 .. N : ranked[k] \in Finding(V, L)
  BY DEF ListsOf
<1>2. /\ n + 1 \in 1 .. N /\ \A k \in 1 .. n : k \in 1 .. N /\ k \in 1 .. n + 1 /\ k < n + 1
      /\ n + 1 \in 1 .. n + 1
      /\ \A k \in 1 .. n + 1 : k = n + 1 \/ k \in 1 .. n
  BY <1>1
<1>3. \A a \in Finding(V, L) : Priority(a.type) \in Int /\ Overlaps(a, a)
  <2> SUFFICES ASSUME NEW a \in Finding(V, L) PROVE Priority(a.type) \in Int /\ Overlaps(a, a)
    OBVIOUS
  <2> QED
    BY KeysOf DEF Overlaps
<1>4. \A a, b : Overlaps(a, b) <=> Overlaps(b, a)
  BY DEF Overlaps
<1>5. \A k \in 1 .. n : Priority(c.type) <= Priority(ranked[k].type)
  BY <1>2
<1>6. c \in Finding(V, L)
  BY <1>1, <1>2
<1>7. CASE \E m \in DOMAIN old : Overlaps(c, old[m])
  <2>1. new = old
    BY <1>7 DEF Select
  <2>2. PICK m \in DOMAIN old : Overlaps(c, old[m])
    BY <1>7
  <2>3. PICK k \in 1 .. n : old[m] = ranked[k]
    BY <2>2 DEF Selected
  <2>4. Priority(old[m].type) >= Priority(c.type)
    BY <1>1, <1>2, <1>3, <1>5, <1>6, <2>3
  <2> HIDE DEF c, new
  <2>5. ASSUME NEW j \in 1 .. n + 1
        PROVE  \E i \in DOMAIN old : /\ Overlaps(ranked[j], old[i])
                                     /\ Priority(old[i].type) >= Priority(ranked[j].type)
    <3>1. CASE j = n + 1
      BY <2>2, <2>4, <3>1 DEF c
    <3>2. CASE j \in 1 .. n
      BY <3>2 DEF Selected
    <3> QED
      BY <1>2, <3>1, <3>2
  <2>6. \A i \in DOMAIN old : \E j \in 1 .. n + 1 : old[i] = ranked[j]
    BY <1>2 DEF Selected
  <2>7. \A i, j \in DOMAIN old : i # j => ~ Overlaps(old[i], old[j])
    BY DEF Selected
  <2> QED
    BY <2>1, <2>5, <2>6, <2>7 DEF Selected, new, c
<1>8. CASE ~ \E m \in DOMAIN old : Overlaps(c, old[m])
  <2>1. new = Append(old, c)
    BY <1>8 DEF Select
  <2> HIDE DEF c, new
  <2>2. /\ DOMAIN new = 1 .. K + 1 /\ new[K + 1] = c
        /\ \A i \in 1 .. K : new[i] = old[i] /\ i \in 1 .. K + 1
        /\ \A i \in 1 .. K + 1 : i = K + 1 \/ i \in 1 .. K
        /\ K + 1 \in 1 .. K + 1
    BY <1>1, <1>6, <2>1 DEF ListsOf
  <2>3. ASSUME NEW i \in 1 .. K + 1, NEW j \in 1 .. K + 1, i # j
        PROVE  ~ Overlaps(new[i], new[j])
    <3>1. i \in 1 .. K /\ j \in 1 .. K => ~ Overlaps(old[i], old[j])
      BY <1>1, <2>3 DEF Selected
    <3>2. i \in 1 .. K => ~ Overlaps(c, old[i])
      BY <1>1, <1>8
    <3>3. j \in 1 .. K => ~ Overlaps(c, old[j])
      BY <1>1, <1>8
    <3> QED
      BY <1>4, <2>2, <2>3, <3>1, <3>2, <3>3
  <2>4. ASSUME NEW i \in 1 .. K + 1
        PROVE  \E j \in 1 .. n + 1 : new[i] = ranked[j]
    <3>1. CASE i = K + 1
      BY <1>2, <2>2, <3>1 DEF c
    <3>2. CASE i \in 1 .. K
      <4>1. PICK j \in 1 .. n : old[i] = ranked[j]
        BY <1>1, <3>2 DEF Selected
      <4> QED
        BY <1>2, <2>2, <3>2, <4>1
    <3> QED
      BY <2>2, <3>1, <3>2
  <2>5. ASSUME NEW j \in 1 .. n + 1
        PROVE  \E i \in 1 .. K + 1 : /\ Overlaps(ranked[j], new[i])
                                     /\ Priority(new[i].type) >= Priority(ranked[j].type)
    <3>1. CASE j = n + 1
      <4>1. Overlaps(c, c) /\ Priority(c.type) >= Priority(c.type)
        BY <1>3, <1>6
      <4> QED
        BY <2>2, <3>1, <4>1 DEF c
    <3>2. CASE j \in 1 .. n
      <4>1. PICK i \in 1 .. K : /\ Overlaps(ranked[j], old[i])
                                /\ Priority(old[i].type) >= Priority(ranked[j].type)
        BY <1>1, <3>2 DEF Selected
      <4> QED
        BY <2>2, <4>1
    <3> QED
      BY <1>2, <3>1, <3>2
  <2> QED
    BY <2>2, <2>3, <2>4, <2>5 DEF Selected, new, c
<1> QED
  BY <1>7, <1>8

\* What is selected in the end.
LEMMA AllSelected ==
    ASSUME NEW V, NEW L, NEW ranked \in ListsOf(V, L),
           \A m, n \in 1 .. Len(ranked) :
              m < n => Priority(ranked[n].type) <= Priority(ranked[m].type)
    PROVE  /\ SelectedUpTo(ranked)[Len(ranked)] \in ListsOf(V, L)
           /\ Selected(SelectedUpTo(ranked)[Len(ranked)], ranked, Len(ranked))
<1> DEFINE N == Len(ranked)
           g == SelectedUpTo(ranked)
           S == {n \in Nat : n <= N => Selected(g[n], ranked, n)}
<1>1. N \in Nat
  BY DEF ListsOf
<1>2. /\ g \in [0 .. N -> ListsOf(V, L)] /\ g[0] = <<>>
      /\ \A n \in 1 .. N : g[n] = Select(g[n - 1], ranked[n])
  BY SelectedExists
<1> HIDE DEF g
<1>3. 0 \in S
  BY <1>2 DEF Selected
<1>4. ASSUME NEW n \in Nat, n \in S PROVE n + 1 \in S
  <2> SUFFICES ASSUME n + 1 <= N PROVE Selected(g[n + 1], ranked, n + 1)
    OBVIOUS
  <2>1. n + 1 \in 1 .. N /\ n \in 0 .. N /\ (n + 1) - 1 = n /\ n <= N
    BY <1>1
  <2>2. g[n] \in ListsOf(V, L) /\ Selected(g[n], ranked, n)
    BY <1>2, <1>4, <2>1
  <2>3. Selected(Select(g[n], ranked[n + 1]), ranked, n + 1)
    BY <2>2, SelectKeeps
  <2>4. g[n + 1] = Select(g[n], ranked[n + 1])
    BY <1>2, <2>1
  <2> QED
    BY <2>3, <2>4
<1> HIDE DEF S
<1>5. \A n \in Nat : n \in S => n + 1 \in S
  BY <1>4
<1>6. Nat \subseteq S
  BY <1>3, <1>5, NaturalsByInduction
<1>7. Selected(g[N], ranked, N) /\ N \in 0 .. N
  BY <1>1, <1>6 DEF S
<1> QED
  BY <1>2, <1>7 DEF g

\* The findings in the end: disjoint and in the order of the text, each of them a
\* candidate, and one as important or more in the place of each candidate.
Resolved(list, candidates) ==
    /\ \A m, n \in DOMAIN list : m < n => list[m].span.to <= list[n].span.from
    /\ \A m \in DOMAIN list : \E k \in DOMAIN candidates : list[m] = candidates[k]
    /\ \A k \in DOMAIN candidates : \E m \in DOMAIN list :
          /\ Overlaps(candidates[k], list[m])
          /\ Priority(list[m].type) >= Priority(candidates[k].type)

\* Sorted by where they begin, disjoint findings are in order.
LEMMA InTextOrderSorts ==
    ASSUME NEW V, NEW L, NEW list \in ListsOf(V, L),
           \A k, m \in DOMAIN list : k # m => ~ Overlaps(list[k], list[m])
    PROVE  /\ InTextOrder(list) \in ListsOf(V, L)
           /\ \A m, n \in DOMAIN InTextOrder(list) :
                 m < n => InTextOrder(list)[m].span.to <= InTextOrder(list)[n].span.from
           /\ \A m \in DOMAIN InTextOrder(list) : \E k \in DOMAIN list :
                 InTextOrder(list)[m] = list[k]
           /\ \A k \in DOMAIN list : \E m \in DOMAIN InTextOrder(list) :
                 InTextOrder(list)[m] = list[k]
<1> DEFINE N == Len(list)
           ahead == {p \in (DOMAIN list) \X DOMAIN list : list[p[1]].span.from < list[p[2]].span.from}
           s == InTextOrder(list)
           F(i) == list[i].span.from
           T(i) == list[i].span.to
<1>1. /\ N \in Nat /\ DOMAIN list = 1 .. N /\ list \in Seq(Finding(V, L))
      /\ \A i \in 1 .. N : list[i] \in Finding(V, L)
  BY DEF ListsOf
<1>2. \A i \in 1 .. N : F(i) \in Nat /\ T(i) \in Nat /\ F(i) < T(i)
  BY <1>1, KeysOf
<1>3. \A i, j \in 1 .. N : <<i, j>> \in ahead <=> F(i) < F(j)
  BY <1>1
<1>4. \A i, j \in 1 .. N : i # j => ~ (F(i) < T(j) /\ F(j) < T(i))
  BY <1>1 DEF Overlaps
<1> HIDE DEF ahead, F, T
<1>5. Ahead(ahead, N)
  <2> HIDE DEF N
  <2> QED
    BY <1>2, <1>3 DEF Ahead
<1>6. PICK at : InPlace(s, list, ahead, at)
  BY <1>1, <1>5, ArrangedSorts DEF InTextOrder, ahead, s
<1>7. /\ at \in [1 .. N -> 1 .. N] /\ s = [n \in 1 .. N |-> list[at[n]]]
      /\ \A i \in 1 .. N : \E n \in 1 .. N : at[n] = i
      /\ \A m, n \in 1 .. N : at[m] = at[n] => m = n
      /\ \A m, n \in 1 .. N : m < n => <<at[n], at[m]>> \notin ahead
  BY <1>6 DEF InPlace
<1> HIDE DEF s, N
<1>8. \A n \in 1 .. N : at[n] \in 1 .. N /\ s[n] = list[at[n]]
  BY <1>7
<1>9. s \in Seq(Finding(V, L)) /\ DOMAIN s = 1 .. N
  BY <1>1, <1>7, <1>8
<1>10. ASSUME NEW m \in 1 .. N, NEW n \in 1 .. N, m < n
       PROVE  s[m].span.to <= s[n].span.from
  <2>1. PICK i \in 1 .. N, j \in 1 .. N : i = at[m] /\ j = at[n]
    BY <1>8
  <2>2. i # j
    BY <1>7, <1>10, <2>1
  <2>3. ~ (F(j) < F(i))
    BY <1>3, <1>7, <1>10, <2>1
  <2>4. T(i) <= F(j)
    BY <1>2, <1>4, <2>2, <2>3
  <2> QED
    BY <1>8, <2>1, <2>4 DEF F, T
<1>11. \A m \in 1 .. N : \E k \in 1 .. N : s[m] = list[k]
  BY <1>8
<1>12. \A k \in 1 .. N : \E m \in 1 .. N : s[m] = list[k]
  BY <1>7, <1>8
<1> QED
  BY <1>1, <1>9, <1>10, <1>11, <1>12 DEF s, ListsOf

\* ResolveOverlaps (_resolve_overlaps) resolves them.
LEMMA OverlapsResolve ==
    ASSUME NEW V, NEW L, NEW candidates \in ListsOf(V, L)
    PROVE  /\ ResolveOverlaps(candidates) \in ListsOf(V, L)
           /\ Resolved(ResolveOverlaps(candidates), candidates)
<1> DEFINE N == Len(candidates)
           ranked == BestFirst(candidates)
           chosen == SelectedUpTo(ranked)[Len(ranked)]
           s == InTextOrder(chosen)
<1>1. /\ ranked \in ListsOf(V, L) /\ Len(ranked) = N
      /\ \A n \in 1 .. N : \E i \in 1 .. N : ranked[n] = candidates[i]
      /\ \A i \in 1 .. N : \E n \in 1 .. N : ranked[n] = candidates[i]
      /\ \A m, n \in 1 .. N : m < n => Priority(ranked[n].type) <= Priority(ranked[m].type)
  BY BestComeFirst
<1>2. DOMAIN candidates = 1 .. N
  BY DEF ListsOf
<1>3. s = ResolveOverlaps(candidates)
  BY DEF ResolveOverlaps
<1> HIDE DEF ranked, N
<1>4. chosen \in ListsOf(V, L) /\ Selected(chosen, ranked, N)
  BY <1>1, AllSelected
<1> HIDE DEF chosen
<1>5. \A k, m \in DOMAIN chosen : k # m => ~ Overlaps(chosen[k], chosen[m])
  BY <1>4 DEF Selected
<1>6. /\ s \in ListsOf(V, L)
      /\ \A m, n \in DOMAIN s : m < n => s[m].span.to <= s[n].span.from
      /\ \A m \in DOMAIN s : \E k \in DOMAIN chosen : s[m] = chosen[k]
      /\ \A k \in DOMAIN chosen : \E m \in DOMAIN s : s[m] = chosen[k]
  BY <1>4, <1>5, InTextOrderSorts
<1> HIDE DEF s
<1>7. ASSUME NEW m \in DOMAIN s
      PROVE  \E k \in 1 .. N : s[m] = candidates[k]
  <2>1. PICK k \in DOMAIN chosen : s[m] = chosen[k]
    BY <1>6
  <2>2. PICK n \in 1 .. N : chosen[k] = ranked[n]
    BY <1>4 DEF Selected
  <2>3. PICK i \in 1 .. N : ranked[n] = candidates[i]
    BY <1>1
  <2> QED
    BY <2>1, <2>2, <2>3
<1>8. ASSUME NEW k \in 1 .. N
      PROVE  \E m \in DOMAIN s : /\ Overlaps(candidates[k], s[m])
                                 /\ Priority(s[m].type) >= Priority(candidates[k].type)
  <2>1. PICK n \in 1 .. N : ranked[n] = candidates[k]
    BY <1>1
  <2>2. PICK i \in DOMAIN chosen : /\ Overlaps(ranked[n], chosen[i])
                                   /\ Priority(chosen[i].type) >= Priority(ranked[n].type)
    BY <1>4 DEF Selected
  <2>3. PICK m \in DOMAIN s : s[m] = chosen[i]
    BY <1>6
  <2> QED
    BY <2>1, <2>2, <2>3
<1> QED
  BY <1>2, <1>3, <1>6, <1>7, <1>8 DEF Resolved

----------------------------------------------------------------------------
(* Spans. *)

\* The recursion over the widths has a solution.
LEMMA WidthsExist ==
    ASSUME NEW source \in Seq(Character)
    PROVE  /\ WidthUpTo(source) \in [0 .. Len(source) -> Nat]
           /\ WidthUpTo(source)[0] = 0
           /\ \A n \in 1 .. Len(source) :
                 WidthUpTo(source)[n] = WidthUpTo(source)[n - 1] + Width(source, n)
<1> DEFINE N == Len(source)
           step == [n \in 1 .. N |-> [v \in Nat |-> v + Width(source, n)]]
           Solves(f) == f = [n \in 0 .. N |-> IF n = 0 THEN 0 ELSE f[n - 1] + Width(source, n)]
           g == CHOOSE f : Solves(f)
<1>1. N \in Nat
  OBVIOUS
<1>2. /\ step \in [1 .. N -> [Nat -> Nat]]
      /\ \A n \in 1 .. N : \A v \in Nat : step[n][v] = v + Width(source, n)
  <2>1. \A n \in 1 .. N : \A v \in Nat : v + Width(source, n) \in Nat
    BY DEF Width
  <2> QED
    BY <2>1
<1>3. WidthUpTo(source) = g
  BY DEF WidthUpTo
<1> HIDE DEF step, N
<1>4. PICK f : Follows(f, Nat, 0, N, step)
  BY <1>1, <1>2, Recursion
<1>5. Solves(f)
  <2>1. \A n \in 0 .. N : n # 0 => n \in 1 .. N /\ n - 1 \in 0 .. N
    BY <1>1
  <2>2. \A n \in 0 .. N : f[n] = IF n = 0 THEN 0 ELSE f[n - 1] + Width(source, n)
    BY <1>2, <1>4, <2>1 DEF Follows
  <2> QED
    BY <1>4, <2>2 DEF Follows
<1>6. Solves(g)
  BY <1>5
<1> HIDE DEF g
<1>7. g = [n \in 0 .. N |-> g[n]] /\ g[0] = 0
  BY <1>1, <1>6
<1>8. \A n \in 1 .. N : n \in 0 .. N /\ g[n] = g[n - 1] + Width(source, n)
  <2>1. \A n \in 1 .. N : n \in 0 .. N /\ n # 0
    BY <1>1
  <2> QED
    BY <1>6, <2>1
<1>9. Follows(g, Nat, 0, N, step)
  <2>1. \A n \in 1 .. N : g[n - 1] \in Nat => g[n] = step[n][g[n - 1]]
    BY <1>2, <1>8
  <2> QED
    BY <1>1, <1>2, <1>7, <2>1, Unrolled
<1> QED
  BY <1>1, <1>3, <1>8, <1>9 DEF Follows, N

\* Where two lists have their elements together.
LEMMA JoinedPlaces ==
    ASSUME NEW T, NEW s \in Seq(T), NEW t \in Seq(T)
    PROVE  /\ Len(s \o t) = Len(s) + Len(t)
           /\ \A i \in 1 .. Len(s) : (s \o t)[i] = s[i]
           /\ \A i \in 1 .. Len(t) : (s \o t)[Len(s) + i] = t[i]
OBVIOUS

\* What the characters up to n add is where their widths say.
Laid(source, n) ==
    /\ Len(ProvenanceUpTo(source)[n]) = WidthUpTo(source)[n]
    /\ \A j \in 1 .. n : \A k \in 1 .. Width(source, j) :
          /\ WidthUpTo(source)[j - 1] + k \in 1 .. WidthUpTo(source)[n]
          /\ ProvenanceUpTo(source)[n][WidthUpTo(source)[j - 1] + k] =
                Span(j - 1, ClusterEnd(source, j))

\* Each canonical character has the span of its cluster.
LEMMA AllLaid ==
    ASSUME NEW source \in Seq(Character)
    PROVE  \A n \in 0 .. Len(source) : Laid(source, n)
<1> DEFINE N == Len(source)
           p == ProvenanceUpTo(source)
           w == WidthUpTo(source)
           S == {n \in Nat : n <= N => Laid(source, n)}
<1>1. N \in Nat
  OBVIOUS
<1>2. /\ p \in [0 .. N -> Spots(source)] /\ p[0] = <<>>
      /\ \A n \in 1 .. N : p[n] = p[n - 1] \o Added(source, n)
  BY ProvenanceExists
<1>3. /\ w \in [0 .. N -> Nat] /\ w[0] = 0
      /\ \A n \in 1 .. N : w[n] = w[n - 1] + Width(source, n)
  BY WidthsExist
<1>4. \A n \in 1 .. N :
         /\ Added(source, n) \in Spots(source) /\ Len(Added(source, n)) = Width(source, n)
         /\ \A k \in 1 .. Width(source, n) :
               Added(source, n)[k] = Span(n - 1, ClusterEnd(source, n))
  BY AddedSpans DEF Spots, Width
<1>5. \A n : Laid(source, n) <=>
         /\ Len(p[n]) = w[n]
         /\ \A j \in 1 .. n : \A k \in 1 .. Width(source, j) :
               /\ w[j - 1] + k \in 1 .. w[n]
               /\ p[n][w[j - 1] + k] = Span(j - 1, ClusterEnd(source, j))
  BY DEF Laid
<1> HIDE DEF p, w, N
<1>6. 0 \in S
  BY <1>2, <1>3, <1>5
<1>7. ASSUME NEW n \in Nat, n \in S PROVE n + 1 \in S
  <2> SUFFICES ASSUME n + 1 <= N PROVE Laid(source, n + 1)
    OBVIOUS
  <2> DEFINE old == p[n]
             new == p[n + 1]
             add == Added(source, n + 1)
             a == w[n]
             b == Width(source, n + 1)
  <2>1. n + 1 \in 1 .. N /\ n \in 0 .. N /\ (n + 1) - 1 = n /\ n <= N
    BY <1>1
  <2>2. Laid(source, n)
    BY <1>7, <2>1
  <2>3. /\ old \in Seq(Spot(Len(source))) /\ add \in Seq(Spot(Len(source))) /\ new = old \o add
        /\ Len(old) = a /\ Len(add) = b /\ a \in Nat /\ b \in Nat
    <3>1. old \in Spots(source) /\ add \in Spots(source) /\ new = old \o add
      BY <1>2, <1>4, <2>1
    <3>2. Len(old) = a /\ Len(add) = b /\ a \in Nat
      BY <1>3, <1>4, <1>5, <2>1, <2>2
    <3> QED
      BY <3>1, <3>2 DEF Spots, Width
  <2>4. w[n + 1] = a + b
    BY <1>3, <2>1
  <2>5. /\ Len(new) = a + b
        /\ \A i \in 1 .. a : new[i] = old[i]
        /\ \A i \in 1 .. b : new[a + i] = add[i]
    <3> HIDE DEF old, new, add, a, b
    <3>1. /\ Len(old \o add) = Len(old) + Len(add)
          /\ \A i \in 1 .. Len(old) : (old \o add)[i] = old[i]
          /\ \A i \in 1 .. Len(add) : (old \o add)[Len(old) + i] = add[i]
      <4>1. \A s, t \in Seq(Spot(Len(source))) :
               /\ Len(s \o t) = Len(s) + Len(t)
               /\ \A i \in 1 .. Len(s) : (s \o t)[i] = s[i]
               /\ \A i \in 1 .. Len(t) : (s \o t)[Len(s) + i] = t[i]
        BY JoinedPlaces
      <4>2. old \in Seq(Spot(Len(source))) /\ add \in Seq(Spot(Len(source)))
        BY <2>3
      <4> QED
        BY <4>1, <4>2, Zenon
    <3> QED
      BY <2>3, <3>1
  <2>6. \A k \in 1 .. b : add[k] = Span(n, ClusterEnd(source, n + 1))
    BY <1>4, <2>1
  <2> HIDE DEF new, add
  <2>7. ASSUME NEW j \in 1 .. n + 1, NEW k \in 1 .. Width(source, j)
        PROVE  /\ w[j - 1] + k \in 1 .. a + b
               /\ new[w[j - 1] + k] = Span(j - 1, ClusterEnd(source, j))
    <3>1. CASE j = n + 1
      <4>1. w[j - 1] = a /\ k \in 1 .. b /\ j - 1 = n
        BY <2>1, <3>1
      <4> HIDE DEF a, b
      <4>2. a + k \in 1 .. a + b
        BY <2>3, <4>1
      <4> QED
        BY <2>5, <2>6, <3>1, <4>1, <4>2
    <3>2. CASE j \in 1 .. n
      <4>1. /\ w[j - 1] + k \in 1 .. a
            /\ old[w[j - 1] + k] = Span(j - 1, ClusterEnd(source, j))
        BY <1>5, <2>2, <3>2
      <4> HIDE DEF a, b, old
      <4>2. \A i \in 1 .. a : i \in 1 .. a + b
        BY <2>3
      <4> QED
        BY <2>5, <4>1, <4>2
    <3> QED
      BY <3>1, <3>2
  <2> QED
    BY <1>5, <2>4, <2>5, <2>7 DEF new
<1> HIDE DEF S
<1>8. \A n \in Nat : n \in S => n + 1 \in S
  BY <1>7
<1>9. Nat \subseteq S
  BY <1>6, <1>8, NaturalsByInduction
<1> QED
  BY <1>1, <1>9 DEF S, N

\* The span of a match holds every character that the match stands on.
LEMMA SpansCover ==
    ASSUME NEW source \in Seq(Character), NEW shape, shape.start \in Nat,
           shape.end \in shape.start + 1 .. Len(Provenance(source)),
           NEW i \in 1 .. Len(source), StandsOn(shape, source, i)
    PROVE  LET span == OriginalSpan(Provenance(source), shape.start, shape.end)
           IN  span.from < i /\ i <= span.to
<1> DEFINE N == Len(source)
           w == WidthUpTo(source)
           span == OriginalSpan(Provenance(source), shape.start, shape.end)
<1>1. PICK j \in 1 .. i :
         /\ Width(source, j) > 0 /\ w[j - 1] < shape.end /\ w[j] > shape.start
         /\ \A k \in j + 1 .. i : source[k] = "mark"
  BY DEF StandsOn
<1>2. N \in Nat /\ j \in 1 .. N /\ j - 1 \in 0 .. N /\ i \in j .. N
  OBVIOUS
<1>3. ClusterEnd(source, j) \in Nat /\ i <= ClusterEnd(source, j)
  <2>1. /\ ClusterEnd(source, j) \in j .. N
        /\ \A m \in j .. N : (\A k \in j + 1 .. m : source[k] = "mark") => m <= ClusterEnd(source, j)
    BY <1>2, ClusterEnds
  <2>2. ClusterEnd(source, j) \in Nat
    BY <1>2, <2>1
  <2> QED
    BY <1>1, <1>2, <2>1, <2>2
<1>4. /\ w[j - 1] \in Nat /\ w[j] = w[j - 1] + Width(source, j) /\ Width(source, j) \in Nat
  <2>1. Width(source, j) \in Nat
    BY DEF Width
  <2> QED
    BY <1>2, <2>1, WidthsExist
<1>5. Laid(source, N) /\ Provenance(source) = ProvenanceUpTo(source)[N]
  BY <1>2, AllLaid DEF Provenance
<1> HIDE DEF w
<1>6. PICK q \in Nat : /\ q \in shape.start + 1 .. shape.end
                       /\ q - w[j - 1] \in 1 .. Width(source, j)
  <2>1. PICK a \in Nat, e \in Nat, v \in Nat, d \in Nat :
           a = shape.start /\ e = shape.end /\ v = w[j - 1] /\ d = Width(source, j)
    <3>1. Len(Provenance(source)) \in Nat
      BY ProvenanceType
    <3>2. shape.start \in Nat /\ shape.end \in Nat
      BY <3>1
    <3> QED
      BY <1>4, <3>2
  <2>2. a < e /\ d > 0 /\ v < e /\ v + d > a
    BY <1>1, <1>4, <2>1, SMTT(30)
  <2>3. \E x \in Nat : x \in a + 1 .. e /\ x - v \in 1 .. d
    <3>1. CASE a >= v
      <4>1. a + 1 \in Nat /\ a + 1 \in a + 1 .. e /\ (a + 1) - v \in 1 .. d
        BY <2>2, <3>1
      <4> QED
        BY <4>1
    <3>2. CASE ~ (a >= v)
      <4>1. v + 1 \in Nat /\ v + 1 \in a + 1 .. e /\ (v + 1) - v \in 1 .. d
        BY <2>2, <3>2
      <4> QED
        BY <4>1
    <3> QED
      BY <3>1, <3>2
  <2> QED
    BY <2>1, <2>3
<1>7. Provenance(source)[q] = Span(j - 1, ClusterEnd(source, j))
  <2>1. PICK k \in 1 .. Width(source, j) : q = w[j - 1] + k
    <3>1. q = w[j - 1] + (q - w[j - 1])
      BY <1>4, <1>6
    <3> QED
      BY <1>6, <3>1
  <2> QED
    BY <1>2, <1>5, <2>1 DEF Laid, w
<1>8. /\ span.from <= Provenance(source)[q].from /\ Provenance(source)[q].to <= span.to
      /\ span \in Spot(N)
  <2>1. Provenance(source) \in Seq(Spot(N))
    BY ProvenanceType
  <2> HIDE DEF N
  <2> QED
    BY <1>2, <1>6, <2>1, OriginalSpanCovers
<1>9. span.from \in Nat /\ span.to \in Nat
  BY <1>8 DEF Spot
<1> HIDE DEF span
<1>10. span.from <= j - 1 /\ ClusterEnd(source, j) <= span.to
  BY <1>7, <1>8 DEF Span
<1> QED
  BY <1>2, <1>3, <1>9, <1>10, SMTT(60) DEF span

----------------------------------------------------------------------------
(* Risk. *)

\* The smaller of two numbers is at most either.
LEMMA CappedIs ==
    ASSUME NEW n \in Int, NEW limit \in Int
    PROVE  Capped(n, limit) = IF n <= limit THEN n ELSE limit
BY OfTwo DEF Capped

\* Rounding does not go beyond the next whole number.
LEMMA RoundType ==
    ASSUME NEW n \in Int, 0 <= n, n <= 90000
    PROVE  Round(n) \in 0 .. 90
<1> DEFINE q == n \div 1000
           r == n % 1000
<1>1. q \in Int /\ r \in Int /\ 0 <= r /\ r < 1000 /\ n = 1000 * q + r
  BY SMT
<1>2. Round(n) = IF r > 500 \/ (r = 500 /\ q % 2 = 1) THEN q + 1 ELSE q
  BY SMT DEF Round
<1> HIDE DEF q, r
<1>3. 0 <= q /\ q <= 90 /\ (q = 90 => r = 0)
  BY <1>1, SMT
<1> QED
  BY <1>1, <1>2, <1>3, SMT

\* What a class weighs at the most.
LEMMA Times ==
    ASSUME NEW b \in {5, 30, 35, 45, 55, 70, 75, 90}, NEW m \in Int, 0 <= m, m <= 1000
    PROVE  b * m \in Int /\ 0 <= b * m /\ b * m <= 90000
BY SMT

\* What a class weighs, as sure as it may be.
LEMMA WeightedType ==
    ASSUME NEW V, NEW L, NEW f \in Finding(V, L)
    PROVE  Weighted(f) \in 0 .. 90
<1> DEFINE b == BaseWeight[f.class]
           m == Max({250, f.confidence})
<1>1. f.class \in Class /\ f.confidence \in Int /\ 0 <= f.confidence /\ f.confidence <= 1000
  <2>1. f.class \in Class /\ f.confidence \in Confidence
    BY DEF Finding
  <2>2. \A c \in Confidence : c \in Int /\ 0 <= c /\ c <= 1000
    BY SMT DEF Confidence
  <2> QED
    BY <2>1, <2>2
<1>2. b \in {5, 30, 35, 45, 55, 70, 75, 90}
  BY <1>1, SMT DEF BaseWeight, Class
<1>3. m \in Int /\ 0 <= m /\ m <= 1000
  <2>1. \E k \in {250, f.confidence} : \A i \in {250, f.confidence} : k >= i
    BY <1>1, SMT
  <2>2. m \in {250, f.confidence}
    BY <2>1, Zenon DEF Max
  <2> QED
    BY <1>1, <2>2, SMT
<1>4. Weighted(f) = Round(b * m)
  BY DEF Weighted
<1> HIDE DEF b, m
<1>5. b * m \in Int /\ 0 <= b * m /\ b * m <= 90000
  BY <1>2, <1>3, Times, SMT
<1> QED
  BY <1>4, <1>5, RoundType, SMT

\* No finding weighs more than 95, and a wrong one not more than 15.
LEMMA WeightType ==
    ASSUME NEW V, NEW L, NEW f \in Finding(V, L)
    PROVE  /\ Weight(f) \in 0 .. 95
           /\ f.validation = "INVALID" => Weight(f) <= 15
<1>1. PICK w \in 0 .. 90 : w = Weighted(f)
  BY WeightedType
<1>2. Capped(w, 15) \in 0 .. 15
  BY CappedIs
<1>3. f.validation \in Validation
  BY DEF Finding
<1> QED
  BY <1>1, <1>2, <1>3 DEF Weight, Validation

\* More findings weigh no less.
LEMMA StrongestGrows ==
    ASSUME NEW V, NEW L, NEW B \in SUBSET Finding(V, L), NEW A \in SUBSET B, A # {}
    PROVE  /\ Strongest(A) \in 0 .. 95 /\ Strongest(B) \in 0 .. 95
           /\ Strongest(A) <= Strongest(B)
           /\ \E f \in B : Strongest(B) = Weight(f)
<1> DEFINE W(S) == {Weight(f) : f \in S}
<1>1. \A f \in B : Weight(f) \in 0 .. 95
  BY WeightType
<1>2. W(A) # {} /\ W(A) \in SUBSET W(B) /\ W(B) \in SUBSET (0 .. 95)
  BY <1>1
<1>3. \A m \in W(B) : \E f \in B : m = Weight(f)
  OBVIOUS
<1>4. Strongest(A) = Max(W(A)) /\ Strongest(B) = Max(W(B))
  BY DEF Strongest
<1> HIDE DEF W
<1>5. W(A) \in SUBSET (0 .. 95) /\ W(B) # {}
  BY <1>2
<1>6. Max(W(A)) \in W(A) /\ \A n \in W(A) : n <= Max(W(A))
  BY <1>2, <1>5, GreatestExists
<1>7. Max(W(B)) \in W(B) /\ \A n \in W(B) : n <= Max(W(B))
  BY <1>2, <1>5, GreatestExists
<1> QED
  BY <1>2, <1>3, <1>4, <1>5, <1>6, <1>7

\* The parts of Combined.
Effective(S) == {f \in S : f.validation # "INVALID"}
Classes(S) == {f.class : f \in Effective(S)}
QuasiTypes(S) == {f.type : f \in {f \in Effective(S) : f.class = "QUASI_IDENTIFIER"}}
Quasi(n) == IF n >= 3 THEN 25 ELSE IF n = 2 THEN 12 ELSE 0

LEMMA CombinedParts ==
    ASSUME NEW S
    PROVE  Combined(S) =
              Quasi(Cardinality(QuasiTypes(S))) +
              Together(Classes(S), "DIRECT_PII", "QUASI_IDENTIFIER", 12) +
              Together(Classes(S), "LOCATION", "QUASI_IDENTIFIER", 10) +
              Together(Classes(S), "FINANCIAL", "DIRECT_PII", 10)
BY DEF Combined, Quasi, QuasiTypes, Classes, Effective

\* The types of finitely many findings are finitely many.
LEMMA QuasiTypesFinite ==
    ASSUME NEW S, IsFiniteSet(S)
    PROVE  IsFiniteSet(QuasiTypes(S)) /\ Cardinality(QuasiTypes(S)) \in Nat
<1> DEFINE Q == {f \in Effective(S) : f.class = "QUASI_IDENTIFIER"}
           h == [f \in Q |-> f.type]
<1>1. Q \in SUBSET S
  BY DEF Effective
<1>2. h \in Surjection(Q, QuasiTypes(S))
  BY DEF Surjection, QuasiTypes
<1> HIDE DEF Q, h
<1>3. IsFiniteSet(Q)
  BY <1>1, FS_Subset
<1>4. IsFiniteSet(QuasiTypes(S))
  BY <1>2, <1>3, FS_Surjection
<1> QED
  BY <1>4, FS_CardinalityType

\* More findings combine to no less.
LEMMA CombinedGrows ==
    ASSUME NEW B, IsFiniteSet(B), NEW A \in SUBSET B
    PROVE  Combined(A) \in Nat /\ Combined(B) \in Nat /\ Combined(A) <= Combined(B)
<1>1. IsFiniteSet(A)
  BY FS_Subset
<1>2. /\ Cardinality(QuasiTypes(A)) \in Nat /\ Cardinality(QuasiTypes(B)) \in Nat
      /\ Cardinality(QuasiTypes(A)) <= Cardinality(QuasiTypes(B))
  <2>1. QuasiTypes(A) \in SUBSET QuasiTypes(B)
    BY DEF QuasiTypes, Effective
  <2> QED
    BY <1>1, <2>1, QuasiTypesFinite, FS_Subset
<1>3. \A m, n \in Nat : m <= n => Quasi(m) \in Nat /\ Quasi(n) \in Nat /\ Quasi(m) <= Quasi(n)
  BY DEF Quasi
<1>4. PICK m \in Nat, n \in Nat : /\ m = Quasi(Cardinality(QuasiTypes(A)))
                                  /\ n = Quasi(Cardinality(QuasiTypes(B))) /\ m <= n
  BY <1>2, <1>3
<1>5. Classes(A) \subseteq Classes(B)
  BY DEF Classes, Effective
<1>6. \A a, b : \A p \in Nat : /\ Together(Classes(A), a, b, p) \in Nat
                               /\ Together(Classes(B), a, b, p) \in Nat
                               /\ Together(Classes(A), a, b, p) <= Together(Classes(B), a, b, p)
  BY <1>5 DEF Together
<1>7. PICK u \in Nat, v \in Nat :
         /\ u = Together(Classes(A), "DIRECT_PII", "QUASI_IDENTIFIER", 12)
         /\ v = Together(Classes(B), "DIRECT_PII", "QUASI_IDENTIFIER", 12) /\ u <= v
  BY <1>6
<1>8. PICK w \in Nat, x \in Nat :
         /\ w = Together(Classes(A), "LOCATION", "QUASI_IDENTIFIER", 10)
         /\ x = Together(Classes(B), "LOCATION", "QUASI_IDENTIFIER", 10) /\ w <= x
  BY <1>6
<1>9. PICK y \in Nat, z \in Nat :
         /\ y = Together(Classes(A), "FINANCIAL", "DIRECT_PII", 10)
         /\ z = Together(Classes(B), "FINANCIAL", "DIRECT_PII", 10) /\ y <= z
  BY <1>6
<1>10. Combined(A) = m + u + w + y /\ Combined(B) = n + v + x + z
  BY <1>4, <1>7, <1>8, <1>9, CombinedParts
<1> QED
  BY <1>4, <1>7, <1>8, <1>9, <1>10

\* What findings add by their number, at most 10.
More(S) == Capped(2 * (Cardinality(S) - 1), 10)

\* The score of some findings, and how it comes about.
LEMMA Score ==
    ASSUME NEW V, NEW L, NEW S \in SUBSET Finding(V, L), IsFiniteSet(S), S # {}
    PROVE  /\ Strongest(S) \in 0 .. 95 /\ Combined(S) \in Nat /\ More(S) \in 0 .. 10
           /\ Assess(S).score = Capped(Strongest(S) + Combined(S) + More(S), 100)
           /\ Assess(S).score \in 0 .. 100
           /\ Assess(S).bucket = Bucket(Assess(S).score)
<1>1. Strongest(S) \in 0 .. 95 /\ Combined(S) \in Nat
  BY StrongestGrows, CombinedGrows
<1>2. Cardinality(S) \in Nat /\ Cardinality(S) >= 1
  BY FS_CardinalityType, FS_EmptySet
<1>3. More(S) \in 0 .. 10
  <2>1. 2 * (Cardinality(S) - 1) \in Nat
    BY <1>2
  <2> QED
    BY <2>1, CappedIs DEF More
<1>4. Assess(S) = Assessment(Capped(Strongest(S) + Combined(S) + More(S), 100))
  BY DEF Assess, More
<1>5. Capped(Strongest(S) + Combined(S) + More(S), 100) \in 0 .. 100
  <2>1. Strongest(S) + Combined(S) + More(S) \in Nat
    BY <1>1, <1>3, SMTT(60)
  <2> QED
    BY <2>1, CappedIs
<1> QED
  BY <1>1, <1>3, <1>4, <1>5 DEF Assessment

\* Assess (PrivacyRiskEngine.assess) never gives more findings a lower score.
LEMMA AssessGrows ==
    ASSUME NEW V, NEW L, NEW B \in SUBSET Finding(V, L), IsFiniteSet(B), NEW A \in SUBSET B
    PROVE  /\ Assess(B).score \in 0 .. 100
           /\ Assess(A).score <= Assess(B).score
<1>1. Assess({}).score = 0
  BY DEF Assess, Assessment
<1>2. CASE A = {}
  <2>1. CASE B = {}
    BY <1>1, <1>2, <2>1
  <2>2. CASE B # {}
    BY <1>1, <1>2, <2>2, Score
  <2> QED
    BY <2>1, <2>2
<1>3. CASE A # {}
  <2>1. B # {} /\ IsFiniteSet(A) /\ A \in SUBSET Finding(V, L)
    BY <1>3, FS_Subset, SMTT(60)
  <2>2. PICK a \in 0 .. 95, b \in 0 .. 95 : a = Strongest(A) /\ b = Strongest(B) /\ a <= b
    BY <1>3, StrongestGrows, SMTT(60)
  <2>3. PICK c \in Nat, d \in Nat : c = Combined(A) /\ d = Combined(B) /\ c <= d
    BY CombinedGrows
  <2>4. PICK e \in 0 .. 10, f \in 0 .. 10 : e = More(A) /\ f = More(B) /\ e <= f
    <3>1. /\ Cardinality(A) \in Nat /\ Cardinality(B) \in Nat
          /\ Cardinality(A) <= Cardinality(B)
      BY <2>1, FS_Subset, FS_CardinalityType
    <3>2. PICK i \in Int, j \in Int :
             i = 2 * (Cardinality(A) - 1) /\ j = 2 * (Cardinality(B) - 1) /\ i <= j
      BY <3>1
    <3>3. Capped(i, 10) <= Capped(j, 10)
      BY <3>2, CappedIs
    <3>4. More(A) \in 0 .. 10 /\ More(B) \in 0 .. 10
      BY <1>3, <2>1, Score
    <3> QED
      BY <3>2, <3>3, <3>4 DEF More
  <2>5. a + c + e \in Nat /\ b + d + f \in Nat /\ a + c + e <= b + d + f
    BY <2>2, <2>3, <2>4
  <2>6. Capped(a + c + e, 100) <= Capped(b + d + f, 100)
    BY <2>5, CappedIs
  <2>7. Assess(A).score = Capped(a + c + e, 100)
    BY <1>3, <2>1, <2>2, <2>3, <2>4, Score
  <2>8. Assess(B).score = Capped(b + d + f, 100) /\ Assess(B).score \in 0 .. 100
    BY <2>1, <2>2, <2>3, <2>4, Score
  <2> QED
    BY <2>6, <2>7, <2>8
<1> QED
  BY <1>2, <1>3

\* Findings whose checksum fails make no high risk.
LEMMA InvalidIsLow ==
    ASSUME NEW V, NEW L, NEW S \in SUBSET Finding(V, L), IsFiniteSet(S),
           \A f \in S : f.validation = "INVALID"
    PROVE  Assess(S).bucket \in {"LOW", "MEDIUM"} /\ Assess(S).score <= 25
<1>1. CASE S = {}
  BY <1>1 DEF Assess, Assessment, Bucket
<1>2. CASE S # {}
  <2>1. Combined(S) = 0
    <3>1. Effective(S) = {}
      BY DEF Effective
    <3>2. Classes(S) = {} /\ QuasiTypes(S) = {}
      BY <3>1 DEF Classes, QuasiTypes
    <3>3. Cardinality(QuasiTypes(S)) = 0
      BY <3>2, FS_EmptySet
    <3> QED
      BY <3>2, <3>3, CombinedParts DEF Quasi, Together
  <2>2. Strongest(S) \in 0 .. 15
    <3>1. PICK f \in S : Strongest(S) = Weight(f)
      BY <1>2, StrongestGrows
    <3> QED
      BY <3>1, WeightType
  <2>3. PICK a \in 0 .. 15, e \in 0 .. 10 : a = Strongest(S) /\ e = More(S)
    BY <1>2, <2>2, Score
  <2>4. Capped(a + 0 + e, 100) \in 0 .. 25
    BY CappedIs
  <2>5. Assess(S).score \in 0 .. 25 /\ Assess(S).bucket = Bucket(Assess(S).score)
    BY <1>2, <2>1, <2>3, <2>4, Score, SMTT(60)
  <2> QED
    BY <2>5 DEF Bucket
<1> QED
  BY <1>1, <1>2

----------------------------------------------------------------------------
(* A text and what is found in it. *)

\* What the detectors find: findings of the text, in its order and disjoint, one
\* at least as important for each candidate, and each one a candidate's.
LEMMA Detected ==
    ASSUME NEW written \in Texts, NEW p \in Profile
    PROVE  /\ Detect(written, p) \in Seq(FindingIn(written))
           /\ \A m, n \in DOMAIN Detect(written, p) :
                 m < n => Detect(written, p)[m].span.to <= Detect(written, p)[n].span.from
           /\ \A c \in ToSet(Candidates(written, p)) : \E n \in DOMAIN Detect(written, p) :
                 /\ Overlaps(c, Detect(written, p)[n])
                 /\ Priority(Detect(written, p)[n].type) >= Priority(c.type)
           /\ \A n \in DOMAIN Detect(written, p) : \E c \in ToSet(Candidates(written, p)) :
                 SameFinding(Detect(written, p)[n], c)
<1> DEFINE V == {s.value : s \in written.shapes}
           L == Len(written.source)
           told == Candidates(written, p)
           merged == MergeExact(told)
           kept == ResolveOverlaps(merged)
<1>1. kept = Detect(written, p) /\ Finding(V, L) = FindingIn(written)
  BY DEF Detect, FindingIn
<1>2. told \in Seq(FindingIn(written))
  BY CandidatesAre
<1> HIDE DEF V, L, told
<1>3. told \in ListsOf(V, L)
  BY <1>1, <1>2 DEF ListsOf
<1>4. merged \in ListsOf(V, L) /\ Gathers(merged, told, Len(told))
  BY <1>3, MergeGathers
<1> HIDE DEF merged
<1>5. kept \in ListsOf(V, L) /\ Resolved(kept, merged)
  BY <1>4, OverlapsResolve
<1> HIDE DEF kept
<1>6. DOMAIN told = 1 .. Len(told) /\ ToSet(told) = {told[k] : k \in DOMAIN told}
  BY <1>2 DEF ToSet
<1>7. ASSUME NEW c \in ToSet(told)
      PROVE  \E n \in DOMAIN kept : Overlaps(c, kept[n]) /\ Priority(kept[n].type) >= Priority(c.type)
  <2>1. PICK k \in 1 .. Len(told) : c = told[k]
    BY <1>6
  <2>2. PICK m \in DOMAIN merged : SameFinding(merged[m], c)
    BY <1>4, <2>1 DEF Gathers
  <2>3. PICK n \in DOMAIN kept : /\ Overlaps(merged[m], kept[n])
                                 /\ Priority(kept[n].type) >= Priority(merged[m].type)
    BY <1>5 DEF Resolved
  <2>4. merged[m].type = c.type /\ merged[m].span = c.span
    BY <2>2 DEF SameFinding
  <2> QED
    BY <2>3, <2>4 DEF Overlaps
<1>8. ASSUME NEW n \in DOMAIN kept
      PROVE  \E c \in ToSet(told) : SameFinding(kept[n], c)
  <2>1. PICK m \in DOMAIN merged : kept[n] = merged[m]
    BY <1>5 DEF Resolved
  <2>2. PICK k \in 1 .. Len(told) : SameFinding(merged[m], told[k])
    BY <1>4 DEF Gathers
  <2> QED
    BY <1>6, <2>1, <2>2
<1>9. /\ kept \in Seq(FindingIn(written))
      /\ \A m, n \in DOMAIN kept : m < n => kept[m].span.to <= kept[n].span.from
  BY <1>1, <1>5 DEF ListsOf, Resolved
<1> QED
  BY <1>1, <1>7, <1>8, <1>9 DEF told

\* The profiles with less in them.
Laxer(p) == [fast |-> {}, balanced |-> {"fast"}, strict |-> {"fast", "balanced"}][p]

\* The three pairs.
LEMMA LaxerPairs ==
    \A q \in Profile : \A p \in Laxer(q) :
        \/ p = "fast" /\ q = "balanced"
        \/ p = "fast" /\ q = "strict"
        \/ p = "balanced" /\ q = "strict"
BY DEF Laxer, Profile

\* A stricter profile drops no report.
LEMMA StricterReports ==
    ASSUME NEW s, NEW q \in Profile, NEW p \in Laxer(q), NEW r \in 1 .. 4
    PROVE  Reports(s, p)[r] \subseteq Reports(s, q)[r]
<1>1. p # "strict"
  BY LaxerPairs
<1>2. Identifiers(s, p) \subseteq Identifiers(s, q)
  <2>1. CASE s.type \in {"INN", "IBAN"} /\ s.valid
    BY <2>1 DEF Identifiers
  <2>2. CASE s.type = "PASSPORT" /\ s.labelled
    BY <2>2 DEF Identifiers
  <2>3. CASE /\ ~ (s.type \in {"INN", "IBAN"} /\ s.valid)
             /\ ~ (s.type = "PASSPORT" /\ s.labelled)
    <3>1. Identifiers(s, p) = {}
      BY <1>1, <2>3 DEF Identifiers
    <3> QED
      BY <3>1
  <2> QED
    BY <2>1, <2>2, <2>3
<1>3. Legacy(s, p) \subseteq Legacy(s, q)
  <2>1. CASE s.type \in {"EMAIL", "URL"} \/ (s.type = "IP_ADDRESS" /\ ~ s.labelled)
    BY <2>1 DEF Legacy
  <2>2. CASE s.type \in {"CARD_NUMBER", "INN"} /\ s.valid
    BY <2>2 DEF Legacy
  <2>3. CASE s.type \in {"API_KEY", "PERSON", "DOMAIN"}
    BY <2>3 DEF Legacy
  <2>4. CASE /\ ~ (s.type \in {"EMAIL", "URL"} \/ (s.type = "IP_ADDRESS" /\ ~ s.labelled))
             /\ ~ (s.type \in {"CARD_NUMBER", "INN"} /\ s.valid)
             /\ s.type \notin {"API_KEY", "PERSON", "DOMAIN"}
    <3>1. Legacy(s, p) = {}
      BY <1>1, <2>4 DEF Legacy
    <3> QED
      BY <3>1
  <2> QED
    BY <2>1, <2>2, <2>3, <2>4
<1>4. /\ Reports(s, p)[1] = Secrets(s) /\ Reports(s, q)[1] = Secrets(s)
      /\ Reports(s, p)[2] = Identifiers(s, p) /\ Reports(s, q)[2] = Identifiers(s, q)
      /\ Reports(s, p)[3] = Network(s) /\ Reports(s, q)[3] = Network(s)
      /\ Reports(s, p)[4] = Legacy(s, p) /\ Reports(s, q)[4] = Legacy(s, q)
  BY DEF Reports
<1>5. r = 1 \/ r = 2 \/ r = 3 \/ r = 4
  OBVIOUS
<1> QED
  BY <1>2, <1>3, <1>4, <1>5

\* and finds all that a laxer one finds of a shape.
LEMMA StricterFindsMore ==
    ASSUME NEW written \in Texts, NEW s \in written.shapes, NEW r \in 1 .. 4,
           NEW q \in Profile, NEW p \in Laxer(q)
    PROVE  FoundOf(s, r, written, p) \subseteq FoundOf(s, r, written, q)
<1>1. p \in Profile
  BY LaxerPairs DEF Profile
<1>2. /\ MinConfidence("fast") = 850 /\ MinConfidence("balanced") = 650
      /\ MinConfidence("strict") = 450
  BY SMT DEF MinConfidence
<1>3. MinConfidence(q) \in Int /\ MinConfidence(p) \in Int /\ MinConfidence(q) <= MinConfidence(p)
  BY <1>2, LaxerPairs, SMT
<1>4. \A report \in Reports(s, p)[r] : report \in Reports(s, q)[r] /\ report.confidence \in Int
  <2>1. \A c \in Confidence : c \in Int
    BY SMT DEF Confidence
  <2> QED
    BY <1>1, <2>1, ReportsType, StricterReports DEF Reported
<1> DEFINE A == {report \in Reports(s, p)[r] : report.confidence >= MinConfidence(p)}
           B == {report \in Reports(s, q)[r] : report.confidence >= MinConfidence(q)}
<1>5. A \subseteq B
  BY <1>3, <1>4, SMT
<1> DEFINE made(report) ==
              [type |-> s.type, class |-> DataClass(s.type), value |-> s.value,
               span |-> OriginalSpan(Provenance(written.source), s.start, s.end),
               recognizers |-> report.recognizers, confidence |-> report.confidence,
               validation |-> report.validation]
<1>6. /\ FoundOf(s, r, written, p) = {made(report) : report \in A}
      /\ FoundOf(s, r, written, q) = {made(report) : report \in B}
  BY DEF FoundOf, Findings
<1> HIDE DEF A, B, made
<1> QED
  BY <1>5, <1>6

\* The text on its way.
Detecting == stage \notin {"starting", "ready", "refused"}
Assessing == stage \in {"assessed", "masked", "blocked"}

TextInv ==
    /\ text \in Texts /\ profile \in Profile
    /\ stage \in {"starting", "ready", "detected", "assessed", "masked", "blocked", "refused"}
    /\ clock \in 0 .. LastMoment
    /\ findings = IF Detecting THEN Detect(text, profile) ELSE <<>>
    /\ risk = IF Assessing THEN Assess(ToSet(findings)) ELSE NoRisk
    /\ Len(decisions) <= Len(findings)
    /\ stage \in {"masked", "blocked"} => Len(decisions) = Len(findings)

\* What TextInv says of the findings.
LEMMA FindingsType ==
    ASSUME TextInv
    PROVE  /\ findings \in Seq(FindingIn(text)) /\ IsFiniteSet(ToSet(findings))
           /\ ToSet(findings) \in SUBSET FindingIn(text)
<1>1. findings \in Seq(FindingIn(text))
  <2>1. Detect(text, profile) \in Seq(FindingIn(text))
    BY Detected DEF TextInv
  <2> QED
    BY <2>1 DEF TextInv
<1>2. ToSet(findings) \in SUBSET FindingIn(text)
  BY <1>1 DEF ToSet
<1>3. IsFiniteSet(ToSet(findings))
  <2> DEFINE h == [n \in 1 .. Len(findings) |-> findings[n]]
  <2>1. h \in Surjection(1 .. Len(findings), ToSet(findings))
    BY <1>1 DEF Surjection, ToSet
  <2>2. IsFiniteSet(1 .. Len(findings))
    BY <1>1, FS_Interval
  <2> HIDE DEF h
  <2> QED
    BY <2>1, <2>2, FS_Surjection
<1> QED
  BY <1>1, <1>2, <1>3

\* The invariant of a text on its way: findings and risk are what the detectors
\* and the engine make of the text, and no finding is decided twice.
LEMMA TextInductive == RuntimeSpec => []TextInv
<1> USE DEF given
<1>1. RuntimeInit => TextInv
  BY LastMomentAssumption DEF RuntimeInit, TextInv, Detecting, Assessing
<1>2. ASSUME TextInv, RuntimeInv, [RuntimeNext]_runtimeVars
      PROVE  TextInv'
  <2>1. CASE Start
    BY <1>2, <2>1 DEF Start, TextInv, Detecting, Assessing
  <2>2. CASE DetectIn
    <3>1. decisions = <<>> /\ decisions' = <<>>
      BY <1>2, <2>2 DEF DetectIn, RuntimeInv
    <3>2. findings' = Detect(text, profile) /\ Len(findings') \in Nat
      BY <1>2, <2>2, Detected DEF DetectIn, TextInv
    <3>3. /\ stage = "ready" /\ stage' = "detected"
          /\ UNCHANGED <<text, profile, clock, risk>>
      BY <2>2 DEF DetectIn
    <3>4. Len(decisions') <= Len(findings')
      BY <3>1, <3>2
    <3> QED
      BY <1>2, <3>2, <3>3, <3>4 DEF TextInv, Detecting, Assessing
  <2>3. CASE AssessAll
    BY <1>2, <2>3 DEF AssessAll, TextInv, Detecting, Assessing
  <2>4. CASE DecideNext
    <3>1. /\ stage = "assessed" /\ Len(decisions) < Len(findings)
          /\ UNCHANGED <<stage, text, profile, clock, findings, risk>>
          /\ \E d : decisions' = Append(decisions, d)
      BY <2>4 DEF DecideNext, Undecided
    <3>2. Len(decisions) \in Nat /\ Len(decisions') = Len(decisions) + 1
      BY <1>2, <3>1 DEF RuntimeInv
    <3>3. Len(findings) \in Nat
      BY <1>2, FindingsType
    <3> QED
      BY <1>2, <3>1, <3>2, <3>3 DEF TextInv, Detecting, Assessing
  <2>5. CASE Tick
    <3>1. clock' \in 0 .. LastMoment
      BY <1>2, <2>5, LastMomentAssumption DEF Tick, TextInv
    <3>2. UNCHANGED <<stage, text, profile, findings, risk, decisions>>
      BY <2>5 DEF Tick
    <3> QED
      BY <1>2, <3>1, <3>2 DEF TextInv, Detecting, Assessing
  <2>6. CASE Mask
    <3>1. /\ stage = "assessed" /\ stage' \in {"masked", "blocked"}
          /\ ~ (Len(decisions) < Len(findings))
          /\ UNCHANGED <<text, profile, clock, findings, risk, decisions>>
      BY <2>6 DEF Mask, Undecided
    <3>2. Len(decisions) \in Nat /\ Len(findings) \in Nat
      BY <1>2, FindingsType DEF RuntimeInv
    <3>3. Len(decisions) = Len(findings)
      BY <1>2, <3>1, <3>2 DEF TextInv
    <3> QED
      BY <1>2, <3>1, <3>3 DEF TextInv, Detecting, Assessing
  <2>7. CASE UNCHANGED runtimeVars
    BY <1>2, <2>7 DEF runtimeVars, TextInv, Detecting, Assessing
  <2> QED
    BY <1>2, <2>1, <2>2, <2>3, <2>4, <2>5, <2>6, <2>7 DEF RuntimeNext
<1> QED
  BY <1>1, <1>2, RuntimeInductive, PTL DEF RuntimeSpec

\* A text's findings are disjoint and in its order, each candidate has one as
\* important in its place,
LEMMA OverlapsResolved == TextInv => OverlapsAreResolved
<1> SUFFICES ASSUME TextInv, Found
             PROVE  /\ \A m, n \in DOMAIN findings :
                          m < n => findings[m].span.to <= findings[n].span.from
                    /\ \A c \in ToSet(Candidates(text, profile)) : \E n \in DOMAIN findings :
                          /\ Overlaps(c, findings[n])
                          /\ Priority(findings[n].type) >= Priority(c.type)
  BY DEF OverlapsAreResolved
<1>1. findings = Detect(text, profile) /\ text \in Texts /\ profile \in Profile
  BY DEF TextInv, Detecting, Found
<1> QED
  BY <1>1, Detected

\* each candidate covers the characters its shape stands on,
LEMMA MatchesCovered == TextInv => SpansCoverTheirMatch
<1> SUFFICES ASSUME TextInv, NEW s \in text.shapes, NEW r \in 1 .. 4,
                    NEW c \in FoundOf(s, r, text, profile)
             PROVE  /\ c \in ToSet(Candidates(text, profile))
                    /\ \A i \in DOMAIN text.source :
                          StandsOn(s, text.source, i) => c.span.from < i /\ i <= c.span.to
  BY DEF SpansCoverTheirMatch, FoundOf
<1>1. text \in Texts /\ profile \in Profile
  BY DEF TextInv
<1>2. c \in ToSet(Candidates(text, profile))
  BY <1>1, CandidatesAre
<1>3. c.span = OriginalSpan(Provenance(text.source), s.start, s.end)
  BY <1>1, FoundOfType
<1>4. /\ text.source \in Seq(Character) /\ s.start \in Nat
      /\ s.end \in s.start + 1 .. Len(Provenance(text.source))
  BY <1>1, TextsAreWritten
<1>5. ASSUME NEW i \in DOMAIN text.source, StandsOn(s, text.source, i)
      PROVE  c.span.from < i /\ i <= c.span.to
  <2>1. i \in 1 .. Len(text.source)
    BY <1>4
  <2> QED
    BY <1>3, <1>4, <1>5, <2>1, SpansCover
<1> QED
  BY <1>2, <1>5

\* and what a laxer profile keeps is a candidate here.
LEMMA NothingForgotten == TextInv => StricterForgetsNothing
<1> SUFFICES ASSUME TextInv, Found, NEW p \in Laxer(profile),
                    NEW f \in ToSet(Detect(text, p))
             PROVE  \E n \in DOMAIN findings :
                       Overlaps(f, findings[n]) /\ Priority(findings[n].type) >= Priority(f.type)
  BY DEF StricterForgetsNothing, Laxer
<1>1. /\ findings = Detect(text, profile) /\ text \in Texts /\ profile \in Profile
      /\ p \in Profile
  BY LaxerPairs DEF TextInv, Detecting, Found, Profile
<1>2. PICK n \in DOMAIN Detect(text, p) : f = Detect(text, p)[n]
  BY DEF ToSet
<1>3. PICK c \in ToSet(Candidates(text, p)) : SameFinding(f, c)
  BY <1>1, <1>2, Detected
<1>4. PICK s \in text.shapes, r \in 1 .. 4 : c \in FoundOf(s, r, text, p)
  BY <1>1, CandidatesAre
<1>5. c \in ToSet(Candidates(text, profile))
  <2>1. c \in FoundOf(s, r, text, profile)
    BY <1>1, <1>4, StricterFindsMore
  <2> QED
    BY <1>1, <2>1, CandidatesAre
<1>6. PICK m \in DOMAIN findings : /\ Overlaps(c, findings[m])
                                   /\ Priority(findings[m].type) >= Priority(c.type)
  BY <1>1, <1>5, Detected
<1>7. f.type = c.type /\ f.span = c.span
  BY <1>3 DEF SameFinding
<1> QED
  BY <1>6, <1>7 DEF Overlaps

\* Whatever a text is and however many recognizers report what in it: what the
\* ensemble keeps is disjoint, nothing is dropped without something as important
\* in its place, a span covers all of the original that its match stands on, and
\* a stricter profile finds no less.
THEOREM FindingsCover == RuntimeSpec => []FindingsCoverTheText
<1>1. TextInv => FindingsCoverTheText
  BY OverlapsResolved, MatchesCovered, NothingForgotten DEF FindingsCoverTheText
<1> QED
  BY <1>1, TextInductive, PTL

\* The score of any findings of any text: without one of them it is no higher,
\* and findings with failed checksums never make it a high one.
THEOREM RiskFollows == RuntimeSpec => []RiskFollowsFindings
<1>1. TextInv => RiskGrowsWithFindings
  <2> SUFFICES ASSUME TextInv, stage = "assessed", NEW n \in DOMAIN findings
               PROVE  Assess(ToSet(RemoveAt(findings, n))).score <= risk.score
    BY DEF RiskGrowsWithFindings
  <2>1. risk = Assess(ToSet(findings))
    BY DEF TextInv, Assessing
  <2>2. ToSet(RemoveAt(findings, n)) \in SUBSET ToSet(findings)
    <3>1. findings \in Seq(FindingIn(text)) /\ n \in 1 .. Len(findings)
      BY FindingsType
    <3>2. PICK N \in Nat : N = Len(findings) /\ DOMAIN findings = 1 .. N
      BY <3>1
    <3>3. SubSeq(findings, 1, n - 1) \in Seq(ToSet(findings))
      BY <3>1 DEF ToSet
    <3>4. SubSeq(findings, n + 1, Len(findings)) \in Seq(ToSet(findings))
      BY <3>1 DEF ToSet
    <3>5. RemoveAt(findings, n) \in Seq(ToSet(findings))
      BY <3>3, <3>4, JoinedSets DEF RemoveAt
    <3> QED
      BY <3>5 DEF ToSet
  <2>3. IsFiniteSet(ToSet(findings)) /\ ToSet(findings) \in SUBSET FindingIn(text)
    BY FindingsType
  <2> QED
    BY <2>1, <2>2, <2>3, AssessGrows DEF FindingIn
<1>2. TextInv => InvalidIsNoHighRisk
  <2> SUFFICES ASSUME TextInv, \A n \in DOMAIN findings : findings[n].validation = "INVALID"
               PROVE  risk.bucket \in {"LOW", "MEDIUM"} /\ risk.score <= 25
    BY DEF InvalidIsNoHighRisk
  <2>1. CASE Assessing
    <3>1. risk = Assess(ToSet(findings))
      BY <2>1 DEF TextInv
    <3>2. \A f \in ToSet(findings) : f.validation = "INVALID"
      BY DEF ToSet
    <3>3. IsFiniteSet(ToSet(findings)) /\ ToSet(findings) \in SUBSET FindingIn(text)
      BY FindingsType
    <3> QED
      BY <3>1, <3>2, <3>3, InvalidIsLow DEF FindingIn
  <2>2. CASE ~ Assessing
    BY <2>2 DEF TextInv, NoRisk, Assessment, Bucket
  <2> QED
    BY <2>1, <2>2
<1>3. TextInv => RiskFollowsFindings
  BY <1>1, <1>2 DEF RiskFollowsFindings
<1> QED
  BY <1>3, TextInductive, PTL

\* Every text has its scores and places within bounds, and a decision is one of
\* the actions there are.
LEMMA RuntimeTyped == RuntimeSpec => []RuntimeTypeOK
<1>1. TextInv /\ RuntimeInv => RuntimeTypeOK
  <2> SUFFICES ASSUME TextInv, RuntimeInv
               PROVE  RuntimeTypeOK
    OBVIOUS
  <2>1. risk.score \in 0 .. 100
    <3>1. CASE Assessing
      <4>1. /\ risk = Assess(ToSet(findings)) /\ IsFiniteSet(ToSet(findings))
            /\ ToSet(findings) \in SUBSET FindingIn(text)
        BY <3>1, FindingsType DEF TextInv
      <4> QED
        BY <4>1, AssessGrows DEF FindingIn
    <3>2. CASE ~ Assessing
      BY <3>2 DEF TextInv, NoRisk, Assessment
    <3> QED
      BY <3>1, <3>2
  <2>2. ASSUME NEW n \in DOMAIN findings
        PROVE  /\ 0 <= findings[n].span.from /\ findings[n].span.from < findings[n].span.to
               /\ findings[n].span.to <= Len(text.source)
    <3>1. findings[n] \in FindingIn(text) /\ Len(text.source) \in Nat
      BY FindingsType, TextsAreWritten DEF TextInv
    <3>2. PICK spot : spot = findings[n].span /\ spot \in Spot(Len(text.source))
      BY <3>1 DEF FindingIn, Finding
    <3>3. 0 <= spot.from /\ spot.from < spot.to /\ spot.to <= Len(text.source)
      BY <3>2 DEF Spot
    <3> QED
      BY <3>2, <3>3
  <2>3. ASSUME NEW n \in DOMAIN decisions PROVE decisions[n].action \in PrivacyAction
    <3> DEFINE D == [action : PrivacyAction, by : {"rule", "assertion", "default"}]
    <3>1. decisions \in Seq(D)
      BY DEF RuntimeInv
    <3>2. \A d \in D : d.action \in PrivacyAction
      OBVIOUS
    <3> HIDE DEF D
    <3>3. decisions[n] \in D
      BY <3>1
    <3> QED
      BY <3>2, <3>3
  <2> QED
    BY <2>1, <2>2, <2>3 DEF RuntimeTypeOK, TextInv, RuntimeInv
<1> QED
  BY <1>1, TextInductive, RuntimeInductive, PTL

----------------------------------------------------------------------------
(* What is put in place. *)

\* How many of some numbers come up to one of them.
Nth(S, i) == Cardinality({j \in S : j <= i})

\* Numbers 1 .. N count themselves.
LEMMA CountedUp ==
    ASSUME NEW n \in Nat
    PROVE  IsFiniteSet(1 .. n) /\ Cardinality(1 .. n) = n
BY FS_Interval

\* Without a stretch of them the numbers behind it come earlier by its length.
Shortened(S, f, t) ==
    /\ Cardinality(S) \in Nat /\ Cardinality(S) >= t
    /\ Cardinality(S \ (f + 2 .. t)) = Cardinality(S) - (t - f - 1)
    /\ \A i \in 1 .. t : Nth(S, i) = i
    /\ \A i \in 1 .. f + 1 : Nth(S \ (f + 2 .. t), i) = i
    /\ \A i \in S : i > t =>
          /\ Nth(S, i) \in t + 1 .. Cardinality(S)
          /\ Nth(S \ (f + 2 .. t), i) = Nth(S, i) - (t - f - 1)

\* And so they do.
LEMMA CountedWithout ==
    ASSUME NEW L \in Nat, NEW S \in SUBSET (1 .. L), NEW f \in Nat, NEW t \in Nat,
           f < t, t <= L, 1 .. t \subseteq S
    PROVE  Shortened(S, f, t)
<1> DEFINE G == f + 2 .. t
<1>1. IsFiniteSet(S) /\ IsFiniteSet(G) /\ Cardinality(G) = t - f - 1
  <2>1. IsFiniteSet(1 .. L)
    BY CountedUp
  <2>2. IsFiniteSet(S)
    BY <2>1, FS_Subset
  <2>3. IsFiniteSet(G) /\ Cardinality(G) = IF f + 2 > t THEN 0 ELSE t - (f + 2) + 1
    BY FS_Interval
  <2>4. f + 2 > t => t - f - 1 = 0
    OBVIOUS
  <2> QED
    BY <2>2, <2>3, <2>4
<1>2. ASSUME NEW A \in SUBSET S, G \subseteq A
      PROVE  /\ IsFiniteSet(A) /\ Cardinality(A) \in Nat /\ Cardinality(A) <= Cardinality(S)
             /\ Cardinality(A \ G) = Cardinality(A) - (t - f - 1)
  <2>1. IsFiniteSet(A) /\ Cardinality(A) <= Cardinality(S)
    BY <1>1, FS_Subset
  <2>2. A \cap G = G
    BY <1>2
  <2>3. Cardinality(A \ G) = Cardinality(A) - Cardinality(A \cap G)
    BY <2>1, FS_Difference
  <2> QED
    BY <1>1, <2>1, <2>2, <2>3, FS_CardinalityType
<1>3. G \subseteq S /\ G \subseteq 1 .. t
  OBVIOUS
<1>4. Cardinality(S) \in Nat /\ Cardinality(S \ G) = Cardinality(S) - (t - f - 1)
  BY <1>2, <1>3
<1>5. ASSUME NEW i \in 1 .. t PROVE Nth(S, i) = i
  <2>1. ASSUME NEW j PROVE j \in {k \in S : k <= i} <=> j \in 1 .. i
    <3>1. j \in 1 .. i => j \in 1 .. t
      OBVIOUS
    <3>2. j \in S => j \in 1 .. L
      OBVIOUS
    <3> QED
      BY <3>1, <3>2
  <2>2. {k \in S : k <= i} = 1 .. i
    BY <2>1
  <2>3. i \in Nat
    OBVIOUS
  <2>4. Cardinality(1 .. i) = i
    BY <2>3, CountedUp
  <2> QED
    BY <2>2, <2>4 DEF Nth
<1>6. ASSUME NEW i \in 1 .. f + 1 PROVE Nth(S \ G, i) = i
  <2>1. ASSUME NEW j PROVE j \in {k \in S \ G : k <= i} <=> j \in 1 .. i
    <3>1. j \in 1 .. i => j \in 1 .. t /\ j \notin G
      OBVIOUS
    <3>2. j \in S => j \in 1 .. L
      OBVIOUS
    <3> QED
      BY <3>1, <3>2
  <2>2. {k \in S \ G : k <= i} = 1 .. i
    BY <2>1
  <2>3. i \in Nat
    OBVIOUS
  <2>4. Cardinality(1 .. i) = i
    BY <2>3, CountedUp
  <2> QED
    BY <2>2, <2>4 DEF Nth
<1>9. Cardinality(S) >= t
  <2>1. Cardinality(1 .. t) <= Cardinality(S) /\ Cardinality(1 .. t) = t
    BY <1>1, FS_Subset, CountedUp
  <2> QED
    BY <1>4, <2>1
<1>10. ASSUME NEW i \in S, i > t
       PROVE  /\ Nth(S, i) \in t + 1 .. Cardinality(S)
              /\ Nth(S \ G, i) = Nth(S, i) - (t - f - 1)
  <2> DEFINE A == {j \in S : j <= i}
  <2>1. A \in SUBSET S /\ G \subseteq A /\ 1 .. t \subseteq A \ {i} /\ i \in A
    BY <1>3, <1>10
  <2>2. {j \in S \ G : j <= i} = A \ G
    OBVIOUS
  <2> HIDE DEF A
  <2>3. /\ IsFiniteSet(A) /\ Cardinality(A) \in Nat /\ Cardinality(A) <= Cardinality(S)
        /\ Cardinality(A \ G) = Cardinality(A) - (t - f - 1)
    BY <1>2, <2>1
  <2>4. Cardinality(A \ {i}) = Cardinality(A) - 1 /\ IsFiniteSet(A \ {i})
    BY <2>1, <2>3, FS_RemoveElement
  <2>5. Cardinality(1 .. t) <= Cardinality(A \ {i}) /\ Cardinality(1 .. t) = t
    BY <2>1, <2>4, FS_Subset, CountedUp
  <2>6. Nth(S, i) = Cardinality(A) /\ Nth(S \ G, i) = Cardinality(A \ G)
    BY <2>2 DEF A, Nth
  <2> QED
    BY <1>4, <2>3, <2>4, <2>5, <2>6
<1> QED
  BY <1>4, <1>5, <1>6, <1>9, <1>10 DEF Shortened

\* A replacement takes the place of what it replaces, and what is behind moves up.
IsPut(new, result, f, t, item) ==
    /\ Len(new) = Len(result) - (t - f - 1)
    /\ \A j \in 1 .. f : new[j] = result[j]
    /\ new[f + 1] = item
    /\ \A j \in t + 1 .. Len(result) : new[j - (t - f - 1)] = result[j]

\* And so Put puts it.
LEMMA PutPlaces ==
    ASSUME NEW T, NEW result \in Seq(T), NEW r, NEW f \in Nat, NEW t \in Nat, NEW item \in T,
           f < t, t <= Len(result), r.span.from = f, r.span.to = t, r.item = item
    PROVE  Put(result, r) \in Seq(T) /\ IsPut(Put(result, r), result, f, t, item)
<1> DEFINE N == Len(result)
           a == SubSeq(result, 1, f)
           b == <<item>>
           c == SubSeq(result, t + 1, N)
<1>0. \A u, v \in Seq(T) : /\ u \o v \in Seq(T) /\ Len(u \o v) = Len(u) + Len(v)
                           /\ \A i \in 1 .. Len(u) : (u \o v)[i] = u[i]
                           /\ \A i \in 1 .. Len(v) : (u \o v)[Len(u) + i] = v[i]
  BY JoinedPlaces, JoinedSets
<1>1. N \in Nat /\ f <= N /\ t <= N
  OBVIOUS
<1>2. a \in Seq(T) /\ Len(a) = f /\ \A j \in 1 .. f : a[j] = result[j]
  BY <1>1
<1>3. b \in Seq(T) /\ Len(b) = 1 /\ b[1] = item
  OBVIOUS
<1>4. c \in Seq(T) /\ Len(c) = N - t /\ \A j \in 1 .. N - t : c[j] = result[t + j]
  BY <1>1
<1>5. Put(result, r) = (a \o b) \o c
  BY DEF Put
<1> HIDE DEF a, b, c, N
<1>6. /\ a \o b \in Seq(T) /\ Len(a \o b) = f + 1
      /\ \A j \in 1 .. f : (a \o b)[j] = result[j]
      /\ (a \o b)[f + 1] = item
  <2>1. /\ Len(a \o b) = Len(a) + Len(b)
        /\ \A i \in 1 .. Len(a) : (a \o b)[i] = a[i]
        /\ \A i \in 1 .. Len(b) : (a \o b)[Len(a) + i] = b[i]
    BY <1>0, <1>2, <1>3, Zenon
  <2>2. a \o b \in Seq(T)
    BY <1>0, <1>2, <1>3, Zenon
  <2>3. 1 \in 1 .. Len(b)
    BY <1>3
  <2> QED
    BY <1>2, <1>3, <2>1, <2>2, <2>3
<1> DEFINE d == a \o b
<1>7. /\ d \in Seq(T) /\ Len(d) = f + 1 /\ d[f + 1] = item
      /\ \A j \in 1 .. f : d[j] = result[j]
  BY <1>6
<1> HIDE DEF d
<1>8. /\ Len(d \o c) = Len(d) + Len(c) /\ d \o c \in Seq(T)
      /\ \A i \in 1 .. Len(d) : (d \o c)[i] = d[i]
      /\ \A i \in 1 .. Len(c) : (d \o c)[Len(d) + i] = c[i]
  BY <1>0, <1>4, <1>7, Zenon
<1> DEFINE e == d \o c
<1>9. /\ Len(e) = Len(d) + Len(c) /\ e \in Seq(T)
      /\ \A i \in 1 .. Len(d) : e[i] = d[i]
      /\ \A i \in 1 .. Len(c) : e[Len(d) + i] = c[i]
  BY <1>8
<1>10. e = Put(result, r)
  BY <1>5 DEF d
<1> HIDE DEF e
<1>11. Len(e) = N - (t - f - 1)
  BY <1>1, <1>4, <1>7, <1>9
<1>12. (\A j \in 1 .. f : e[j] = result[j]) /\ e[f + 1] = item
  <2>1. f + 1 \in 1 .. Len(d) /\ \A j \in 1 .. f : j \in 1 .. Len(d)
    BY <1>7
  <2> QED
    BY <1>7, <1>9, <2>1
<1>13. ASSUME NEW j \in t + 1 .. N
       PROVE  e[j - (t - f - 1)] = result[j]
  <2>1. PICK i \in 1 .. N - t : j = t + i
    <3>1. j - t \in 1 .. N - t /\ j = t + (j - t)
      BY <1>1
    <3> QED
      BY <3>1
  <2>2. i \in 1 .. Len(c) /\ c[i] = result[t + i] /\ j - (t - f - 1) = Len(d) + i
    BY <1>1, <1>4, <1>7, <2>1
  <2> QED
    BY <1>9, <2>1, <2>2
<1> QED
  BY <1>9, <1>10, <1>11, <1>12, <1>13 DEF N, IsPut

\* A replacement is for a character, and which characters keep a place when all
\* from one replacement on are done.
Inside(r, i) == r.span.from < i /\ i <= r.span.to

Stays(list, a, L) ==
    {i \in 1 .. L : \A k \in a .. Len(list) : Inside(list[k], i) => i = list[k].span.from + 1}

Disjoint(list) ==
    \A k, m \in DOMAIN list : k < m => list[k].span.to <= list[m].span.from

\* All from one replacement on are done.
PutSoFar(result, original, list, a) ==
    LET S == Stays(list, a, Len(original))
    IN  /\ Len(result) = Cardinality(S)
        /\ \A i \in S : (\A k \in a .. Len(list) : ~ Inside(list[k], i)) =>
              result[Nth(S, i)] = original[i]
        /\ \A k \in a .. Len(list) :
              /\ list[k].span.from + 1 \in S
              /\ result[Nth(S, list[k].span.from + 1)] = list[k].item

\* Replacements in a text of L characters.
Replacing(T, L) == [span : Spot(L), item : T]

\* What one looks like.
LEMMA ReplacingParts ==
    ASSUME NEW T, NEW L \in Nat, NEW r \in Replacing(T, L)
    PROVE  /\ r.span.from \in Nat /\ r.span.to \in Nat /\ r.span.from < r.span.to
           /\ r.span.to <= L /\ r.item \in T
BY DEF Replacing, Spot

\* One more.
LEMMA PutOneMore ==
    ASSUME NEW T, NEW original \in Seq(T), NEW list \in Seq(Replacing(T, Len(original))),
           Disjoint(list), NEW b \in 1 .. Len(list), NEW result \in Seq(T),
           PutSoFar(result, original, list, b + 1)
    PROVE  /\ Put(result, list[b]) \in Seq(T)
           /\ PutSoFar(Put(result, list[b]), original, list, b)
<1> DEFINE L == Len(original)
           N == Len(list)
           r == list[b]
           f == r.span.from
           t == r.span.to
           S == Stays(list, b + 1, L)
           R == Stays(list, b, L)
<1>1. L \in Nat /\ N \in Nat /\ b \in 1 .. N /\ DOMAIN list = 1 .. N
  OBVIOUS
<1>2. \A k \in 1 .. N : /\ list[k].span.from \in Nat /\ list[k].span.to \in Nat
                        /\ list[k].span.from < list[k].span.to
                        /\ list[k].span.to <= L /\ list[k].item \in T
  <2>1. \A k \in 1 .. N : list[k] \in Replacing(T, L)
    OBVIOUS
  <2> QED
    BY <1>1, <2>1, ReplacingParts
<1>3. f \in Nat /\ t \in Nat /\ f < t /\ t <= L /\ r.item \in T
  BY <1>1, <1>2
<1>4. \A k, m \in 1 .. N : k < m => list[k].span.to <= list[m].span.from
  BY <1>1 DEF Disjoint
<1>5. \A k \in b + 1 .. N : k \in 1 .. N /\ t <= list[k].span.from
  BY <1>1, <1>4
<1>6. \A i : i \in S <=> /\ i \in 1 .. L
                         /\ \A k \in b + 1 .. N : Inside(list[k], i) => i = list[k].span.from + 1
  BY DEF Stays
<1>7. \A i : i \in R <=> /\ i \in 1 .. L
                         /\ \A k \in b .. N : Inside(list[k], i) => i = list[k].span.from + 1
  BY DEF Stays
<1>8. /\ Len(result) = Cardinality(S)
      /\ \A i \in S : (\A k \in b + 1 .. N : ~ Inside(list[k], i)) =>
            result[Nth(S, i)] = original[i]
      /\ \A k \in b + 1 .. N : /\ list[k].span.from + 1 \in S
                               /\ result[Nth(S, list[k].span.from + 1)] = list[k].item
  BY DEF PutSoFar
<1>9. \A k \in b .. N : k = b \/ k \in b + 1 .. N
  BY <1>1
<1>10. \A k \in b + 1 .. N : k \in b .. N
  BY <1>1
<1> HIDE DEF L, N, S, R
<1>11. 1 .. t \subseteq S
  <2> SUFFICES ASSUME NEW i \in 1 .. t PROVE i \in S
    OBVIOUS
  <2>1. i \in 1 .. L
    BY <1>1, <1>3
  <2>2. ASSUME NEW k \in b + 1 .. N PROVE ~ Inside(list[k], i)
    BY <1>2, <1>3, <1>5, SMTT(30) DEF Inside
  <2> QED
    BY <1>6, <2>1, <2>2
<1>12. \A i \in Int : Inside(r, i) <=> f < i /\ i <= t
  BY DEF Inside
<1>13. R = S \ (f + 2 .. t)
  <2>1. ASSUME NEW i PROVE i \in R <=> i \in S \ (f + 2 .. t)
    <3>1. ASSUME i \in 1 .. L
          PROVE  (Inside(r, i) => i = f + 1) <=> i \notin f + 2 .. t
      <4>1. i \in Int
        BY <1>1, <3>1
      <4>2. Inside(r, i) <=> f < i /\ i <= t
        BY <1>12, <4>1
      <4>3. f \in Nat /\ t \in Nat
        BY <1>3
      <4> HIDE DEF f, t
      <4> QED
        BY <4>1, <4>2, <4>3
    <3>2. i \in R <=> i \in S /\ (Inside(r, i) => i = f + 1)
      <4>1. b \in b .. N
        BY <1>1
      <4> QED
        BY <1>6, <1>7, <1>9, <1>10, <4>1
    <3>3. i \in S => i \in 1 .. L
      BY <1>6
    <3> QED
      BY <3>1, <3>2, <3>3
  <2> QED
    BY <2>1
<1>14. S \in SUBSET (1 .. L)
  BY <1>6
<1>15. /\ Cardinality(S) \in Nat /\ Cardinality(S) >= t
       /\ Cardinality(R) = Cardinality(S) - (t - f - 1)
       /\ \A i \in 1 .. t : Nth(S, i) = i
       /\ \A i \in 1 .. f + 1 : Nth(R, i) = i
       /\ \A i \in S : i > t => /\ Nth(S, i) \in t + 1 .. Cardinality(S)
                                /\ Nth(R, i) = Nth(S, i) - (t - f - 1)
  <2> HIDE DEF f, t
  <2>1. Shortened(S, f, t)
    BY <1>1, <1>3, <1>11, <1>14, CountedWithout
  <2> QED
    BY <1>13, <2>1 DEF Shortened
<1> DEFINE new == Put(result, r)
<1>16. /\ new \in Seq(T) /\ Len(new) = Len(result) - (t - f - 1)
       /\ \A j \in 1 .. f : new[j] = result[j]
       /\ new[f + 1] = r.item
       /\ \A j \in t + 1 .. Len(result) : new[j - (t - f - 1)] = result[j]
  <2>1. t <= Len(result)
    BY <1>3, <1>8, <1>15
  <2>2. r.span.from = f /\ r.span.to = t
    OBVIOUS
  <2> HIDE DEF r, f, t
  <2>3. new \in Seq(T) /\ IsPut(new, result, f, t, r.item)
    BY <1>3, <2>1, <2>2, PutPlaces
  <2> QED
    BY <2>3 DEF IsPut
<1> HIDE DEF new, f, t
<1>17. \A i \in S : i > t => i \in R /\ new[Nth(R, i)] = result[Nth(S, i)]
  <2> SUFFICES ASSUME NEW i \in S, i > t
               PROVE  i \in R /\ new[Nth(R, i)] = result[Nth(S, i)]
    OBVIOUS
  <2>1. i \in 1 .. L /\ i \notin f + 2 .. t
    BY <1>3, <1>14
  <2> QED
    BY <1>8, <1>13, <1>15, <1>16, <2>1
<1>18. ASSUME NEW i \in R, \A k \in b .. N : ~ Inside(list[k], i)
       PROVE  new[Nth(R, i)] = original[i]
  <2>1. i \in S /\ i \in 1 .. L /\ ~ Inside(r, i)
    BY <1>1, <1>7, <1>13, <1>18
  <2>2. result[Nth(S, i)] = original[i]
    BY <1>8, <1>10, <1>18, <2>1
  <2>3. CASE i > t
    BY <1>17, <2>1, <2>2, <2>3
  <2>4. CASE ~ (i > t)
    <3>1. i \in 1 .. f /\ i \in 1 .. t /\ i \in 1 .. f + 1
      BY <1>1, <1>3, <1>12, <2>1, <2>4
    <3> QED
      BY <1>15, <1>16, <2>2, <3>1
  <2> QED
    BY <2>3, <2>4
<1>19. ASSUME NEW k \in b .. N
       PROVE  /\ list[k].span.from + 1 \in R
              /\ new[Nth(R, list[k].span.from + 1)] = list[k].item
  <2>1. CASE k = b
    <3>1. f + 1 \in 1 .. t /\ f + 1 \in 1 .. f + 1 /\ f + 1 \notin f + 2 .. t
      BY <1>3
    <3>2. f + 1 \in R /\ Nth(R, f + 1) = f + 1
      BY <1>11, <1>13, <1>15, <3>1
    <3> QED
      BY <1>16, <2>1, <3>2 DEF f
  <2>2. CASE k \in b + 1 .. N
    <3>1. PICK i : i = list[k].span.from + 1 /\ i \in S /\ i > t
      BY <1>2, <1>3, <1>5, <1>8, <2>2, SMTT(60)
    <3> QED
      BY <1>8, <1>17, <2>2, <3>1
  <2> QED
    BY <1>9, <2>1, <2>2
<1>20. Len(new) = Cardinality(R)
  BY <1>8, <1>15, <1>16
<1> QED
  BY <1>16, <1>18, <1>19, <1>20 DEF PutSoFar, new, R, L, N

\* A part written over by one item leaves room for it.
LEMMA RoomIsLeft ==
    ASSUME NEW a \in Nat, NEW b \in Nat, NEW c \in Nat, a < b, b <= c
    PROVE  c - (b - a - 1) \in Nat /\ a < c - (b - a - 1)
OBVIOUS

\* The recursion over the replacements, from the last one, has a solution.
LEMMA AppliedExists ==
    ASSUME NEW T, NEW original \in Seq(T), NEW list \in Seq(Replacing(T, Len(original))),
           Disjoint(list)
    PROVE  /\ AppliedUpTo(original, list)[0] = original
           /\ \A n \in 1 .. Len(list) :
                 AppliedUpTo(original, list)[n] =
                    Put(AppliedUpTo(original, list)[n - 1], list[Len(list) + 1 - n])
<1> DEFINE N == Len(list)
           L == Len(original)
           to(n) == list[n].span.to
           next(n, v) == IF to(N + 1 - n) <= Len(v) THEN Put(v, list[N + 1 - n]) ELSE v
           step == [n \in 1 .. N |-> [v \in Seq(T) |-> next(n, v)]]
           Solves(f) ==
              f = [n \in 0 .. N |-> IF n = 0 THEN original ELSE Put(f[n - 1], list[N + 1 - n])]
           g == CHOOSE f : Solves(f)
<1>1. N \in Nat /\ L \in Nat /\ DOMAIN list = 1 .. N
  OBVIOUS
<1>2. \A k \in 1 .. N : /\ list[k].span.from \in Nat /\ list[k].span.to \in Nat
                        /\ list[k].span.from < list[k].span.to
                        /\ list[k].span.to <= L /\ list[k].item \in T
  <2>1. \A k \in 1 .. N : list[k] \in Replacing(T, L)
    OBVIOUS
  <2> QED
    BY <1>1, <2>1, ReplacingParts
<1>3. \A k, m \in 1 .. N : k < m => list[k].span.to <= list[m].span.from
  BY <1>1 DEF Disjoint
<1>4. \A n \in 1 .. N : N + 1 - n \in 1 .. N
  BY <1>1
<1>5. AppliedUpTo(original, list) = g
  BY DEF AppliedUpTo
<1> HIDE DEF N, L
<1>6. ASSUME NEW k \in 1 .. N, NEW v \in Seq(T), list[k].span.to <= Len(v)
      PROVE  /\ Put(v, list[k]) \in Seq(T)
             /\ Len(Put(v, list[k])) \in Nat /\ list[k].span.from < Len(Put(v, list[k]))
  <2>0. PICK r : r = list[k]
    OBVIOUS
  <2>1. PICK f \in Nat, t \in Nat, item \in T :
           (f = r.span.from /\ t = r.span.to /\ item = r.item) /\ f < t
    BY <1>2, <2>0
  <2>2. Put(v, r) \in Seq(T) /\ IsPut(Put(v, r), v, f, t, item)
    BY <1>6, <2>0, <2>1, PutPlaces
  <2>3. PICK n \in Nat : n = Len(v) /\ t <= n
    BY <1>6, <2>0, <2>1
  <2>4. PICK m : m = Len(Put(v, r)) /\ m = n - (t - f - 1)
    BY <2>2, <2>3 DEF IsPut
  <2>5. m \in Nat /\ f < m
    <3>1. n - (t - f - 1) \in Nat /\ f < n - (t - f - 1)
      BY <2>1, <2>3, RoomIsLeft, Zenon
    <3> QED
      BY <2>4, <3>1, Zenon
  <2> QED
    BY <2>0, <2>1, <2>2, <2>4, <2>5
<1>7. /\ step \in [1 .. N -> [Seq(T) -> Seq(T)]]
      /\ \A n \in 1 .. N : \A v \in Seq(T) : step[n][v] = next(n, v)
  <2>1. \A n \in 1 .. N : \A v \in Seq(T) : next(n, v) \in Seq(T)
    BY <1>4, <1>6
  <2> QED
    BY <2>1
<1> HIDE DEF step
<1>8. PICK f : Follows(f, Seq(T), original, N, step)
  BY <1>1, <1>7, Recursion
<1>9. /\ f \in [0 .. N -> Seq(T)] /\ f[0] = original
      /\ \A n \in 1 .. N : f[n - 1] \in Seq(T) /\ f[n] = next(n, f[n - 1])
  <2>1. \A n \in 1 .. N : n - 1 \in 0 .. N
    BY <1>1
  <2>2. /\ f \in [0 .. N -> Seq(T)] /\ f[0] = original
        /\ \A n \in 1 .. N : f[n] = step[n][f[n - 1]]
    BY <1>8 DEF Follows
  <2> QED
    BY <1>7, <2>1, <2>2
<1> DEFINE Long == {n \in Nat : n <= N => \A k \in 1 .. N - n : to(k) <= Len(f[n])}
<1>10. 0 \in Long
  BY <1>1, <1>2, <1>9 DEF L
<1>11. ASSUME NEW n \in Nat, n \in Long PROVE n + 1 \in Long
  <2> SUFFICES ASSUME n + 1 <= N, NEW k \in 1 .. N - (n + 1)
               PROVE  to(k) <= Len(f[n + 1])
    OBVIOUS
  <2>1. PICK m \in 1 .. N : m = N - n
    BY <1>1
  <2>2. k \in 1 .. N /\ k < m /\ m \in 1 .. N - n
    BY <1>1, <2>1
  <2>3. to(m) <= Len(f[n])
    BY <1>1, <1>11, <2>2
  <2>4. n + 1 \in 1 .. N /\ N + 1 - (n + 1) = m /\ (n + 1) - 1 = n
    BY <1>1, <2>1
  <2>5. f[n] \in Seq(T) /\ f[n + 1] = next(n + 1, f[n])
    BY <1>9, <2>4
  <2>6. f[n + 1] = Put(f[n], list[m])
    BY <2>3, <2>4, <2>5
  <2>7. Len(f[n + 1]) \in Nat /\ list[m].span.from < Len(f[n + 1])
    BY <1>6, <2>3, <2>5, <2>6
  <2>8. to(k) <= list[m].span.from
    BY <1>3, <2>2
  <2> QED
    BY <1>2, <2>2, <2>7, <2>8, SMTT(60)
<1>12. ASSUME NEW n \in 1 .. N PROVE f[n] = Put(f[n - 1], list[N + 1 - n])
  <2>1. \A m \in Nat : m \in Long
    <3> HIDE DEF Long
    <3> QED
      BY <1>10, <1>11, NaturalsByInduction
  <2>2. n - 1 \in Nat /\ n - 1 <= N /\ N + 1 - n \in 1 .. N - (n - 1)
    BY <1>1
  <2>3. to(N + 1 - n) <= Len(f[n - 1])
    BY <2>1, <2>2
  <2> QED
    BY <1>9, <2>3
<1>13. Solves(f)
  <2>1. \A n \in 0 .. N : n # 0 => n \in 1 .. N
    BY <1>1
  <2>2. \A n \in 0 .. N :
           f[n] = IF n = 0 THEN original ELSE Put(f[n - 1], list[N + 1 - n])
    BY <1>9, <1>12, <2>1
  <2> QED
    BY <1>9, <2>2
<1>14. Solves(g)
  BY <1>13
<1> HIDE DEF g
<1>15. g[0] = original
  BY <1>1, <1>14
<1>16. \A n \in 1 .. N : g[n] = Put(g[n - 1], list[N + 1 - n])
  <2>1. \A n \in 1 .. N : n \in 0 .. N /\ n # 0
    BY <1>1
  <2> QED
    BY <1>14, <2>1
<1> QED
  BY <1>5, <1>15, <1>16 DEF N

\* All replacements of a text put in place: what none of them is for stays, in its
\* order, and each is where what it replaces was.
LEMMA AppliedAll ==
    ASSUME NEW T, NEW original \in Seq(T), NEW list \in Seq(Replacing(T, Len(original))),
           Disjoint(list)
    PROVE  PutSoFar(AppliedUpTo(original, list)[Len(list)], original, list, 1)
<1> DEFINE N == Len(list)
           L == Len(original)
           A == AppliedUpTo(original, list)
           Good(n) == A[n] \in Seq(T) /\ PutSoFar(A[n], original, list, N + 1 - n)
           S == {n \in Nat : n <= N => Good(n)}
<1>1. N \in Nat /\ L \in Nat
  OBVIOUS
<1>2. A[0] = original /\ \A n \in 1 .. N : A[n] = Put(A[n - 1], list[N + 1 - n])
  BY AppliedExists
<1> HIDE DEF A
<1>3. 0 \in S
  <2>1. Stays(list, N + 1, L) = 1 .. L
    BY <1>1 DEF Stays
  <2>2. Cardinality(1 .. L) = L
    BY <1>1, CountedUp
  <2>3. ASSUME NEW i \in 1 .. L PROVE Nth(1 .. L, i) = i
    <3>1. {j \in 1 .. L : j <= i} = 1 .. i
      <4>1. \A j : j \in {m \in 1 .. L : m <= i} <=> j \in 1 .. i
        BY <1>1
      <4> QED
        BY <4>1
    <3>2. Cardinality(1 .. i) = i
      BY CountedUp
    <3> QED
      BY <3>1, <3>2 DEF Nth
  <2>4. N + 1 .. N = {}
    BY <1>1
  <2>5. PutSoFar(original, original, list, N + 1)
    BY <1>1, <2>1, <2>2, <2>3, <2>4 DEF PutSoFar
  <2> QED
    BY <1>1, <1>2, <2>5
<1>4. ASSUME NEW n \in Nat, n \in S PROVE n + 1 \in S
  <2>1. ASSUME n + 1 <= N PROVE Good(n + 1)
    <3>0. N - n \in 1 .. N
      <4> HIDE DEF S, N, Good
      <4> QED
        BY <1>1, <2>1
    <3>1. PICK b \in 1 .. N : b = N - n
      BY <3>0
    <3>2. /\ n <= N /\ N + 1 - n = b + 1 /\ N + 1 - (n + 1) = b
          /\ n + 1 \in 1 .. N /\ (n + 1) - 1 = n
      BY <1>1, <2>1, <3>1
    <3>3. A[n] \in Seq(T) /\ PutSoFar(A[n], original, list, b + 1)
      BY <1>4, <3>2
    <3>4. A[n + 1] = Put(A[n], list[b])
      BY <1>2, <3>2
    <3> QED
      BY <3>2, <3>3, <3>4, PutOneMore
  <2>2. n + 1 \in Nat
    OBVIOUS
  <2> HIDE DEF Good
  <2> QED
    BY <2>1, <2>2
<1>5. \A n \in Nat : n \in S
  <2> HIDE DEF S
  <2> QED
    BY <1>3, <1>4, NaturalsByInduction
<1>6. N + 1 - N = 1 /\ N <= N
  BY <1>1
<1>7. PutSoFar(A[N], original, list, N + 1 - N)
  BY <1>1, <1>5, <1>6
<1> QED
  BY <1>6, <1>7 DEF A, N

\* The findings of a text, how their values are spelled, and the replacements that
\* may be made for them.
Words == {Spelled(findings[n]) : n \in DOMAIN findings}
Items == {Fresh(findings[n], decisions[n].action) : n \in DOMAIN findings}
Vaults == UNION {[D -> Items] : D \in SUBSET Words}
Made == [vault : Vaults, list : Seq(Replacing(Items, Len(text.source)))]

\* What is in such a vault.
LEMMA VaultParts ==
    \A v : v \in Vaults <=> v \in [DOMAIN v -> Items] /\ DOMAIN v \in SUBSET Words
BY DEF Vaults

\* What one more finding adds: nothing if it is allowed, or else a replacement at its
\* place, the one that its value has in the vault now; those it had are not changed.
Adds(new, old, n) ==
    IF n \notin Hidden THEN new = old
    ELSE \E item \in Items :
            /\ new.list = Append(old.list, [span |-> findings[n].span, item |-> item])
            /\ DOMAIN new.vault = (DOMAIN old.vault) \cup {Spelled(findings[n])}
            /\ new.vault[Spelled(findings[n])] = item
            /\ \A v \in DOMAIN old.vault : new.vault[v] = old.vault[v]

\* So Replace does.
LEMMA ReplaceAdds ==
    ASSUME TextInv, NEW n \in 1 .. Len(findings), NEW made \in Made
    PROVE  Replace(made, n) \in Made /\ Adds(Replace(made, n), made, n)
<1>1. /\ n \in DOMAIN findings /\ findings[n].span \in Spot(Len(text.source))
  <2>1. findings \in Seq(FindingIn(text))
    BY FindingsType
  <2>2. findings[n] \in FindingIn(text)
    BY <2>1
  <2> QED
    BY <2>1, <2>2 DEF FindingIn, Finding
<1> DEFINE value == Spelled(findings[n])
           vault == made.vault
           item == IF value \in DOMAIN vault THEN vault[value]
                   ELSE Fresh(findings[n], decisions[n].action)
           kept == [v \in (DOMAIN vault) \cup {value} |-> IF v = value THEN item ELSE vault[v]]
           entry == [span |-> findings[n].span, item |-> item]
           new == [vault |-> kept, list |-> Append(made.list, entry)]
<1>2. value \in Words /\ Fresh(findings[n], decisions[n].action) \in Items
  BY <1>1 DEF Words, Items
<1>3. vault \in Vaults /\ made.list \in Seq(Replacing(Items, Len(text.source)))
  BY DEF Made
<1>4. vault \in [DOMAIN vault -> Items] /\ DOMAIN vault \in SUBSET Words
  BY <1>3, VaultParts
<1>5. Replace(made, n) = IF n \notin Hidden THEN made ELSE new
  BY <1>1 DEF Replace, Hidden
<1> HIDE DEF value, vault
<1>6. item \in Items
  BY <1>2, <1>4 DEF value
<1>7. value \in DOMAIN vault => item = vault[value]
  OBVIOUS
<1> HIDE DEF item
<1>8. kept \in Vaults
  <2>1. kept \in [DOMAIN kept -> Items] /\ DOMAIN kept \in SUBSET Words
    BY <1>2, <1>4, <1>6
  <2> HIDE DEF kept
  <2> QED
    BY <2>1, VaultParts
<1>9. entry \in Replacing(Items, Len(text.source))
  BY <1>1, <1>6 DEF Replacing
<1>10. /\ DOMAIN kept = (DOMAIN vault) \cup {value} /\ kept[value] = item
       /\ \A v \in DOMAIN vault : kept[v] = vault[v]
  BY <1>7
<1> HIDE DEF kept
<1>11. /\ new \in Made /\ new.vault = kept
       /\ new.list = Append(made.list, [span |-> findings[n].span, item |-> item])
  <2> HIDE DEF entry
  <2>1. Append(made.list, entry) \in Seq(Replacing(Items, Len(text.source)))
    BY <1>3, <1>9
  <2>2. new \in Made /\ new.vault = kept /\ new.list = Append(made.list, entry)
    BY <1>8, <2>1 DEF Made
  <2> QED
    BY <2>2 DEF entry
<1> HIDE DEF new
<1>12. Adds(Replace(made, n), made, n)
  <2>1. CASE n \notin Hidden
    BY <1>5, <2>1 DEF Adds
  <2>2. CASE n \in Hidden
    <3>1. Replace(made, n) = new
      BY <1>5, <2>2
    <3> QED
      BY <1>6, <1>10, <1>11, <2>2, <3>1 DEF Adds, value, vault
  <2> QED
    BY <2>1, <2>2
<1> QED
  BY <1>5, <1>11, <1>12

\* The recursion over the findings has a solution.
LEMMA ReplacedExists ==
    ASSUME TextInv
    PROVE  /\ ReplacedUpTo \in [0 .. Len(findings) -> Made]
           /\ ReplacedUpTo[0] = [vault |-> <<>>, list |-> <<>>]
           /\ \A n \in 1 .. Len(findings) :
                 ReplacedUpTo[n] = Replace(ReplacedUpTo[n - 1], n)
<1> DEFINE N == Len(findings)
           step == [n \in 1 .. N |-> [v \in Made |-> Replace(v, n)]]
           Solves(f) == f = [n \in 0 .. N |-> IF n = 0 THEN [vault |-> <<>>, list |-> <<>>] ELSE Replace(f[n - 1], n)]
           g == CHOOSE f : Solves(f)
<1>1. N \in Nat /\ [vault |-> <<>>, list |-> <<>>] \in Made
  <2>1. N \in Nat
    BY FindingsType
  <2>2. <<>> \in Vaults
    <3>1. DOMAIN <<>> = {} /\ <<>> \in [{} -> Items]
      OBVIOUS
    <3> QED
      BY <3>1, VaultParts
  <2> QED
    BY <2>1, <2>2 DEF Made
<1>2. /\ step \in [1 .. N -> [Made -> Made]]
      /\ \A n \in 1 .. N : \A v \in Made : step[n][v] = Replace(v, n)
  <2>1. \A n \in 1 .. N : \A v \in Made : Replace(v, n) \in Made
    BY ReplaceAdds
  <2> QED
    BY <2>1
<1>3. ReplacedUpTo = g
  BY DEF ReplacedUpTo
<1> HIDE DEF step, N
<1>4. PICK f : Follows(f, Made, [vault |-> <<>>, list |-> <<>>], N, step)
  BY <1>1, <1>2, Recursion
<1>5. Solves(f)
  <2>1. \A n \in 0 .. N : n # 0 => n \in 1 .. N /\ n - 1 \in 0 .. N
    BY <1>1
  <2>2. \A n \in 0 .. N : f[n] = IF n = 0 THEN [vault |-> <<>>, list |-> <<>>] ELSE Replace(f[n - 1], n)
    BY <1>2, <1>4, <2>1 DEF Follows
  <2> QED
    BY <1>4, <2>2 DEF Follows
<1>6. Solves(g)
  BY <1>5
<1> HIDE DEF g
<1>7. g = [n \in 0 .. N |-> g[n]] /\ g[0] = [vault |-> <<>>, list |-> <<>>]
  BY <1>1, <1>6
<1>8. \A n \in 1 .. N : n \in 0 .. N /\ g[n] = Replace(g[n - 1], n)
  <2>1. \A n \in 1 .. N : n \in 0 .. N /\ n # 0
    BY <1>1
  <2> QED
    BY <1>6, <2>1
<1>9. Follows(g, Made, [vault |-> <<>>, list |-> <<>>], N, step)
  <2>1. \A n \in 1 .. N : g[n - 1] \in Made => g[n] = step[n][g[n - 1]]
    BY <1>2, <1>8
  <2> QED
    BY <1>1, <1>2, <1>7, <2>1, Unrolled
<1> QED
  BY <1>1, <1>3, <1>8, <1>9 DEF Follows, N

\* The replacements so far are in the order of the text, of one of the findings that
\* are hidden each, all of these have one, and it is the one of their value.
Serves(r, n, vault) ==
    /\ n \in Hidden /\ r.span = findings[n].span
    /\ Spelled(findings[n]) \in DOMAIN vault /\ r.item = vault[Spelled(findings[n])]

Replaced(made, n) ==
    /\ Disjoint(made.list)
    /\ \A k \in DOMAIN made.list : \E m \in 1 .. n : Serves(made.list[k], m, made.vault)
    /\ \A m \in 1 .. n : m \in Hidden => \E k \in DOMAIN made.list : Serves(made.list[k], m, made.vault)

\* One more finding.
LEMMA ReplacedOneMore ==
    ASSUME TextInv, stage = "assessed", NEW n \in Nat, n + 1 <= Len(findings),
           NEW old \in Made, NEW new \in Made, Adds(new, old, n + 1), Replaced(old, n)
    PROVE  Replaced(new, n + 1)
<1>1. CASE n + 1 \notin Hidden
  <2>1. new = old /\ \A m \in 1 .. n + 1 : m \in Hidden => m \in 1 .. n
    BY <1>1 DEF Adds
  <2>2. \A m \in 1 .. n : m \in 1 .. n + 1
    OBVIOUS
  <2> QED
    BY <2>1, <2>2 DEF Replaced
<1>2. CASE n + 1 \in Hidden
  <2> DEFINE f == findings[n + 1]
             value == Spelled(f)
             R == Replacing(Items, Len(text.source))
  <2>1. PICK item \in Items :
            /\ new.list = Append(old.list, [span |-> f.span, item |-> item])
            /\ DOMAIN new.vault = (DOMAIN old.vault) \cup {value}
            /\ new.vault[value] = item
            /\ \A v \in DOMAIN old.vault : new.vault[v] = old.vault[v]
    BY <1>2 DEF Adds
  <2> HIDE DEF value
  <2>2. old.list \in Seq(R) /\ new.list \in Seq(R)
    BY DEF Made
  <2>3. PICK N \in Nat : N = Len(old.list) /\ DOMAIN old.list = 1 .. N
    BY <2>2
  <2>4. PICK r : r = [span |-> f.span, item |-> item]
    OBVIOUS
  <2>5. /\ DOMAIN new.list = 1 .. N + 1 /\ new.list[N + 1] = r
        /\ \A k \in 1 .. N : new.list[k] = old.list[k]
    <3>1. new.list = Append(old.list, r)
      BY <2>1, <2>4
    <3> QED
      BY <2>2, <2>3, <3>1
  <2>6. Serves(r, n + 1, new.vault)
    BY <1>2, <2>1, <2>4 DEF Serves, value
  <2>7. ASSUME NEW k, NEW m, Serves(k, m, old.vault) PROVE Serves(k, m, new.vault)
    BY <2>1, <2>7 DEF Serves
  <2>8. ASSUME NEW k \in 1 .. N PROVE old.list[k].span.to <= f.span.from
    <3>1. PICK m \in 1 .. n : Serves(old.list[k], m, old.vault)
      BY <2>3 DEF Replaced
    <3>2. old.list[k].span = findings[m].span
      BY <3>1 DEF Serves
    <3>3. findings = Detect(text, profile) /\ text \in Texts /\ profile \in Profile
      BY DEF TextInv, Detecting
    <3>4. \A i, j \in DOMAIN findings : i < j => findings[i].span.to <= findings[j].span.from
      BY <3>3, Detected
    <3>5. DOMAIN findings = 1 .. Len(findings) /\ Len(findings) \in Nat
      BY FindingsType
    <3>6. m \in DOMAIN findings /\ n + 1 \in DOMAIN findings /\ m < n + 1
      BY <3>5
    <3> QED
      BY <3>2, <3>4, <3>6
  <2>9. Disjoint(new.list)
    <3> SUFFICES ASSUME NEW k \in 1 .. N + 1, NEW m \in 1 .. N + 1, k < m
                 PROVE  new.list[k].span.to <= new.list[m].span.from
      BY <2>5 DEF Disjoint
    <3>1. k \in 1 .. N
      OBVIOUS
    <3>2. CASE m \in 1 .. N
      BY <2>3, <2>5, <3>1, <3>2 DEF Replaced, Disjoint
    <3>3. CASE m = N + 1
      BY <2>4, <2>5, <2>8, <3>1, <3>3, SMTT(60)
    <3> QED
      BY <3>2, <3>3
  <2>10. ASSUME NEW k \in 1 .. N + 1
         PROVE  \E m \in 1 .. n + 1 : Serves(new.list[k], m, new.vault)
    <3>1. CASE k \in 1 .. N
      <4>1. PICK m \in 1 .. n : Serves(old.list[k], m, old.vault)
        BY <2>3, <3>1 DEF Replaced
      <4> QED
        BY <2>5, <2>7, <3>1, <4>1, SMTT(60)
    <3>2. CASE k = N + 1
      BY <2>5, <2>6, <3>2
    <3> QED
      BY <3>1, <3>2
  <2>11. ASSUME NEW m \in 1 .. n + 1, m \in Hidden
         PROVE  \E k \in 1 .. N + 1 : Serves(new.list[k], m, new.vault)
    <3>1. CASE m \in 1 .. n
      <4>1. PICK k \in 1 .. N : Serves(old.list[k], m, old.vault)
        BY <2>3, <2>11, <3>1 DEF Replaced
      <4> QED
        BY <2>5, <2>7, <4>1
    <3>2. CASE m = n + 1
      BY <2>5, <2>6, <3>2
    <3> QED
      BY <3>1, <3>2
  <2> QED
    BY <2>5, <2>9, <2>10, <2>11 DEF Replaced
<1> QED
  BY <1>1, <1>2

\* All of them.
LEMMA AllReplaced ==
    ASSUME TextInv, stage = "assessed"
    PROVE  ReplacedUpTo[Len(findings)] \in Made /\ Replaced(ReplacedUpTo[Len(findings)], Len(findings))
<1> DEFINE N == Len(findings)
           g == ReplacedUpTo
           S == {n \in Nat : n <= N => Replaced(g[n], n)}
<1>1. N \in Nat
  BY FindingsType
<1>2. /\ g \in [0 .. N -> Made] /\ g[0] = [vault |-> <<>>, list |-> <<>>]
      /\ \A n \in 1 .. N : g[n] = Replace(g[n - 1], n)
  BY ReplacedExists
<1> HIDE DEF g, N
<1>3. 0 \in S
  BY <1>2 DEF Replaced, Disjoint
<1>4. ASSUME NEW n \in Nat, n \in S PROVE n + 1 \in S
  <2>1. ASSUME n + 1 <= N PROVE Replaced(g[n + 1], n + 1)
    <3>1. n + 1 \in 1 .. N /\ n \in 0 .. N /\ n + 1 \in 0 .. N /\ (n + 1) - 1 = n /\ n <= N
      BY <1>1, <2>1
    <3>2. g[n + 1] = Replace(g[n], n + 1) /\ g[n] \in Made /\ g[n + 1] \in Made
      BY <1>2, <3>1
    <3>3. Adds(g[n + 1], g[n], n + 1)
      BY <3>1, <3>2, ReplaceAdds DEF N
    <3>4. Replaced(g[n], n)
      BY <1>4, <3>1
    <3> QED
      BY <2>1, <3>2, <3>3, <3>4, ReplacedOneMore DEF N
  <2> QED
    BY <2>1
<1>5. \A n \in Nat : n \in S
  <2> HIDE DEF S
  <2> QED
    BY <1>3, <1>4, NaturalsByInduction
<1>6. Replaced(g[N], N) /\ g[N] \in Made
  BY <1>1, <1>2, <1>5
<1> QED
  BY <1>6 DEF g, N

\* What MaskedAsDecided says of the output.
AsDecided(out) ==
    /\ Len(out) = Cardinality(Remaining)
    /\ \A i \in Remaining : IF HiddenAt(i) = {} THEN out[NewPlace(i)] = <<"original", i>>
                            ELSE out[NewPlace(i)][1] # "original"
    /\ \A m, n \in Hidden :
          Spelled(findings[m]) = Spelled(findings[n]) =>
             out[NewPlace(findings[m].span.from + 1)] = out[NewPlace(findings[n].span.from + 1)]

\* No replacement looks like a character of the text.
LEMMA ItemsAreNew ==
    \A item \in Items : item[1] # "original"
BY DEF Items, Fresh

\* All replacements together make what the decisions ask for.
LEMMA AppliedAsDecided ==
    ASSUME TextInv, stage = "assessed"
    PROVE  AsDecided(Applied(Replacements))
<1> DEFINE L == Len(text.source)
           T == Items \cup {<<"original", i>> : i \in 1 .. L}
           made == ReplacedUpTo[Len(findings)]
           list == made.list
           vault == made.vault
           N == Len(list)
           M == Len(findings)
           out == Applied(Replacements)
           S == Stays(list, 1, L)
<1>1. text.source \in Seq(Character) /\ L \in Nat /\ DOMAIN text.source = 1 .. L
  BY TextsAreWritten DEF TextInv
<1>2. made \in Made /\ Replaced(made, M)
  BY AllReplaced
<1>3. Replacements = list
  BY DEF Replacements
<1> HIDE DEF made, L, M
<1>4. list \in Seq(Replacing(Items, L)) /\ N \in Nat /\ DOMAIN list = 1 .. N
  BY <1>2 DEF Made, L
<1> HIDE DEF list, vault, N
<1>5. /\ Disjoint(list)
      /\ \A k \in 1 .. N : \E m \in 1 .. M : Serves(list[k], m, vault)
      /\ \A m \in 1 .. M : m \in Hidden => \E k \in 1 .. N : Serves(list[k], m, vault)
  <2>1. /\ Disjoint(list)
        /\ \A k \in DOMAIN list : \E m \in 1 .. M : Serves(list[k], m, vault)
        /\ \A m \in 1 .. M : m \in Hidden => \E k \in DOMAIN list : Serves(list[k], m, vault)
    BY <1>2, Zenon DEF Replaced, list, vault
  <2> QED
    BY <1>4, <2>1
<1>6. \A k \in 1 .. N : list[k] \in Replacing(Items, L) /\ list[k].item \in Items
  <2>1. \A k \in 1 .. N : list[k] \in Replacing(Items, L)
    BY <1>4
  <2> QED
    BY <1>1, <2>1, ReplacingParts
<1>7. M \in Nat /\ DOMAIN findings = 1 .. M /\ Hidden \subseteq 1 .. M
  BY FindingsType DEF M, Hidden
<1> HIDE DEF T
<1>8. Untouched \in Seq(T) /\ Len(Untouched) = L /\ \A i \in 1 .. L : Untouched[i] = <<"original", i>>
  <2>1. \A i \in 1 .. L : <<"original", i>> \in T
    BY DEF T
  <2>2. Untouched = [i \in 1 .. L |-> <<"original", i>>]
    BY <1>1 DEF Untouched
  <2> QED
    BY <1>1, <2>1, <2>2
<1>9. list \in Seq(Replacing(T, Len(Untouched)))
  <2>1. Replacing(Items, L) \subseteq Replacing(T, Len(Untouched))
    BY <1>8 DEF Replacing, T
  <2> HIDE DEF S, out
  <2> QED
    BY <1>4, <2>1
<1>10. PutSoFar(out, Untouched, list, 1)
  <2>1. PutSoFar(AppliedUpTo(Untouched, list)[Len(list)], Untouched, list, 1)
    BY <1>5, <1>8, <1>9, AppliedAll
  <2> QED
    BY <1>3, <2>1 DEF Applied
<1> HIDE DEF out
<1>11. /\ Len(out) = Cardinality(S)
       /\ \A i \in S : (\A k \in 1 .. N : ~ Inside(list[k], i)) => out[Nth(S, i)] = <<"original", i>>
       /\ \A k \in 1 .. N : out[Nth(S, list[k].span.from + 1)] = list[k].item
  <2>1. \A i \in S : i \in 1 .. L
    BY DEF Stays
  <2> QED
    BY <1>8, <1>10, <2>1 DEF PutSoFar, N
<1>12. ASSUME NEW i
       PROVE  /\ \A n \in HiddenAt(i) : \E k \in 1 .. N :
                    /\ Inside(list[k], i) /\ list[k].span = findings[n].span
                    /\ list[k].item = vault[Spelled(findings[n])]
              /\ \A k \in 1 .. N : Inside(list[k], i) =>
                    \E n \in HiddenAt(i) : list[k].span = findings[n].span
  <2>1. ASSUME NEW n \in HiddenAt(i)
        PROVE  \E k \in 1 .. N : /\ Inside(list[k], i) /\ list[k].span = findings[n].span
                                 /\ list[k].item = vault[Spelled(findings[n])]
    <3>1. n \in Hidden /\ findings[n].span.from < i /\ i <= findings[n].span.to
      BY DEF HiddenAt
    <3>2. PICK k \in 1 .. N : Serves(list[k], n, vault)
      BY <1>5, <1>7, <3>1
    <3> QED
      BY <3>1, <3>2 DEF Serves, Inside
  <2>2. ASSUME NEW k \in 1 .. N, Inside(list[k], i)
        PROVE  \E n \in HiddenAt(i) : list[k].span = findings[n].span
    <3>1. PICK n \in 1 .. M : Serves(list[k], n, vault)
      BY <1>5
    <3> QED
      BY <2>2, <3>1 DEF Serves, Inside, HiddenAt
  <2> QED
    BY <2>1, <2>2
<1>13. S = Remaining
  <2>1. ASSUME NEW i PROVE i \in S <=> i \in Remaining
    <3>1. i \in S <=> /\ i \in 1 .. L
                      /\ \A k \in 1 .. N : Inside(list[k], i) => i = list[k].span.from + 1
      BY DEF Stays, N
    <3>2. i \in Remaining <=> i \in 1 .. L /\ \A n \in HiddenAt(i) : i = findings[n].span.from + 1
      BY <1>1 DEF Remaining
    <3> QED
      BY <1>12, <3>1, <3>2
  <2> QED
    BY <2>1
<1> HIDE DEF S
<1>14. \A i : NewPlace(i) = Nth(S, i)
  BY <1>13 DEF NewPlace, Nth
<1>15. ASSUME NEW i \in Remaining
       PROVE  IF HiddenAt(i) = {} THEN out[NewPlace(i)] = <<"original", i>>
              ELSE out[NewPlace(i)][1] # "original"
  <2>1. CASE HiddenAt(i) = {}
    <3>1. \A k \in 1 .. N : ~ Inside(list[k], i)
      BY <1>12, <2>1
    <3> QED
      BY <1>11, <1>13, <1>14, <2>1, <3>1
  <2>2. CASE HiddenAt(i) # {}
    <3>1. PICK n \in HiddenAt(i) : TRUE
      BY <2>2
    <3>2. PICK k \in 1 .. N : list[k].span = findings[n].span
      BY <1>12
    <3>3. i = list[k].span.from + 1
      BY <3>2 DEF Remaining
    <3>4. out[NewPlace(i)] = list[k].item /\ list[k].item \in Items
      BY <1>6, <1>11, <1>14, <3>3
    <3> QED
      BY <2>2, <3>4, ItemsAreNew
  <2> QED
    BY <2>1, <2>2
<1>16. ASSUME NEW n \in Hidden
       PROVE  out[NewPlace(findings[n].span.from + 1)] = vault[Spelled(findings[n])]
  <2>1. PICK k \in 1 .. N : Serves(list[k], n, vault)
    BY <1>5, <1>7
  <2>2. list[k].span = findings[n].span /\ list[k].item = vault[Spelled(findings[n])]
    BY <2>1 DEF Serves
  <2>3. NewPlace(list[k].span.from + 1) = Nth(S, list[k].span.from + 1)
    BY <1>14
  <2> QED
    BY <1>11, <2>2, <2>3
<1>17. Len(out) = Cardinality(Remaining)
  BY <1>11, <1>13
<1>18. \A m, n \in Hidden :
          Spelled(findings[m]) = Spelled(findings[n]) =>
             out[NewPlace(findings[m].span.from + 1)] = out[NewPlace(findings[n].span.from + 1)]
  BY <1>16
<1> QED
  BY <1>15, <1>17, <1>18 DEF AsDecided, out

\* A masked text is made once, of decisions and findings that no longer change.
LEMMA MaskedInductive == RuntimeSpec => []MaskedAsDecided
<1> USE DEF given
<1>1. RuntimeInit => MaskedAsDecided
  BY DEF RuntimeInit, MaskedAsDecided
<1>2. ASSUME TextInv, MaskedAsDecided, [RuntimeNext]_runtimeVars
      PROVE  MaskedAsDecided'
  <2>1. ASSUME UNCHANGED <<text, findings, decisions>>
        PROVE  /\ Hidden' = Hidden /\ Remaining' = Remaining
               /\ \A i : HiddenAt(i)' = HiddenAt(i) /\ NewPlace(i)' = NewPlace(i)
               /\ \A f : Spelled(f)' = Spelled(f)
    <3>1. Hidden' = Hidden
      BY <2>1 DEF Hidden
    <3>2. \A i : HiddenAt(i)' = HiddenAt(i)
      BY <2>1, <3>1 DEF HiddenAt
    <3>3. Remaining' = Remaining
      BY <2>1, <3>2 DEF Remaining
    <3>4. \A i : NewPlace(i)' = NewPlace(i)
      BY <3>3 DEF NewPlace
    <3>5. \A f : Spelled(f)' = Spelled(f)
      BY <2>1 DEF Spelled
    <3> QED
      BY <3>1, <3>2, <3>3, <3>4, <3>5
  <2>2. CASE Mask
    <3>1. CASE stage' = "blocked"
      BY <3>1 DEF MaskedAsDecided
    <3>2. CASE stage' = "masked"
      <4>1. /\ stage = "assessed" /\ output' = Applied(Replacements)
            /\ UNCHANGED <<text, findings, decisions>>
        BY <2>2, <3>2 DEF Mask
      <4>2. AsDecided(output')
        BY <1>2, <4>1, AppliedAsDecided
      <4> QED
        BY <2>1, <4>1, <4>2 DEF AsDecided, MaskedAsDecided
    <3> QED
      BY <2>2, <3>1, <3>2 DEF Mask
  <2>3. CASE UNCHANGED runtimeVars
    <3>1. UNCHANGED <<stage, text, findings, decisions, output>>
      BY <2>3 DEF runtimeVars
    <3> QED
      BY <1>2, <2>1, <3>1 DEF MaskedAsDecided
  <2>4. CASE Start \/ DetectIn \/ AssessAll \/ DecideNext \/ Tick
    <3>1. stage' # "masked"
      BY <2>4 DEF Start, DetectIn, AssessAll, DecideNext, Tick, Undecided
    <3> QED
      BY <3>1 DEF MaskedAsDecided
  <2> QED
    BY <1>2, <2>2, <2>3, <2>4 DEF RuntimeNext
<1> QED
  BY <1>1, <1>2, TextInductive, PTL DEF RuntimeSpec

\* Whatever the policy: a text with a finding that was not decided, or that was
\* refused, is never masked; and a masked text is the original with exactly the
\* findings that are not allowed replaced, equal ones alike, and the rest of it in
\* its order.
THEOREM DecisionsCarriedOut == RuntimeSpec => []DecisionsAreCarriedOut
<1>1. RuntimeInv /\ TextInv => RefusedIsNotMasked /\ EveryFindingIsDecided
  BY DEF RuntimeInv, TextInv, EveryFindingIsDecided
<1>2. RuntimeSpec => [](DefaultsProhibit /\ RefusedIsNotMasked)
  BY ProhibitedStaysIn
<1>3. RuntimeInv /\ TextInv /\ (DefaultsProhibit /\ RefusedIsNotMasked) /\ MaskedAsDecided
         => DecisionsAreCarriedOut
  BY <1>1 DEF DecisionsAreCarriedOut, UndecidedIsBlocked
<1> QED
  BY <1>2, <1>3, RuntimeInductive, TextInductive, MaskedInductive, PTL
===============================================================================
