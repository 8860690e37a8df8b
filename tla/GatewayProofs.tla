---------------------------- MODULE GatewayProofs -----------------------------
(***************************************************************************)
(* Proofs about the way in: what the edge of the application lets through  *)
(* (HttpEdge), the windows of the rate limiter (RateLimiter): its table is *)
(* bounded, no identity gets twice its limit through in the length of one  *)
(* window, and who waits as long as it was told waits long enough and not  *)
(* a second too long; and the history that a request brings along          *)
(* (HistoryTrim): what a commit keeps of it is what the cut by count and   *)
(* the cut by size leave, and both cut fairly, however long it is.  The    *)
(* last part is about uploads (MediaFiles): what is delivered shows        *)
(* nothing it should not, whatever was uploaded, and what was opened on    *)
(* the way is closed again.                                                *)
(***************************************************************************)
EXTENDS HttpEdge, RateLimiter, HistoryTrim, MediaFiles, Induction, FiniteSetTheorems,
        SequenceTheorems

----------------------------------------------------------------------------
(* Bodies. *)

\* How much of a body has come with each chunk.
Upto(chunks) ==
    CHOOSE f : f = [n \in 0 .. Len(chunks) |-> IF n = 0 THEN 0 ELSE f[n - 1] + chunks[n]]

\* The recursion of Upto has a solution, which ends at the length of the body.
LEMMA UptoExists ==
    ASSUME NEW c \in Seq(Nat)
    PROVE  /\ Upto(c) \in [0 .. Len(c) -> Nat]
           /\ Upto(c)[0] = 0
           /\ \A n \in 1 .. Len(c) : Upto(c)[n] = Upto(c)[n - 1] + c[n]
           /\ BodyLength(c) = Upto(c)[Len(c)]
<1> DEFINE N == Len(c)
           Sum(f) == f = [n \in 0 .. N |-> IF n = 0 THEN 0 ELSE f[n - 1] + c[n]]
           step == [n \in 1 .. N |-> [v \in Nat |-> v + c[n]]]
<1>1. N \in Nat /\ \A n \in 1 .. N : c[n] \in Nat
  OBVIOUS
<1>2. step \in [1 .. N -> [Nat -> Nat]]
  BY <1>1
<1>3. PICK f : Follows(f, Nat, 0, N, step)
  <2> HIDE DEF step, N
  <2> QED
    BY <1>1, <1>2, Recursion
<1>4. Sum(f)
  <2>1. \A n \in 1 .. N : f[n - 1] \in Nat
    <3>1. \A n \in 1 .. N : n - 1 \in 0 .. N
      BY <1>1
    <3> HIDE DEF step, N
    <3> QED
      BY <1>3, <3>1 DEF Follows
  <2>2. ASSUME NEW n \in 1 .. N PROVE f[n] = f[n - 1] + c[n]
    <3>1. \A v \in Nat : step[n][v] = v + c[n]
      OBVIOUS
    <3> HIDE DEF step, N
    <3> QED
      BY <1>3, <2>1, <3>1 DEF Follows
  <2>3. \A n \in 0 .. N : n # 0 => n \in 1 .. N
    BY <1>1
  <2> HIDE DEF N, step
  <2> QED
    BY <1>3, <2>2, <2>3 DEF Follows
<1>5. Sum(Upto(c))
  BY <1>4 DEF Upto
<1>6. BodyLength(c) = Upto(c)[N]
  BY DEF BodyLength, Upto
<1> DEFINE g == Upto(c)
<1>7. /\ \A n \in 0 .. N : g[n] = IF n = 0 THEN 0 ELSE g[n - 1] + c[n]
      /\ g = [n \in 0 .. N |-> g[n]]
  BY <1>5
<1> HIDE DEF g
<1>8. g[0] = 0 /\ \A n \in 1 .. N : g[n] = g[n - 1] + c[n]
  BY <1>1, <1>7
<1>9. \A n \in 0 .. N : g[n] \in Nat
  <2> DEFINE S == {n \in Nat : n <= N => g[n] \in Nat}
  <2>1. 0 \in S
    BY <1>8
  <2>2. ASSUME NEW n \in Nat, n \in S PROVE n + 1 \in S
    <3> SUFFICES ASSUME n + 1 <= N PROVE g[n + 1] \in Nat
      OBVIOUS
    <3>1. g[n] \in Nat /\ n + 1 \in 1 .. N /\ (n + 1) - 1 = n
      BY <1>1, <2>2
    <3>2. g[n + 1] = g[(n + 1) - 1] + c[n + 1] /\ c[n + 1] \in Nat
      BY <1>1, <1>8, <3>1
    <3> QED
      BY <3>1, <3>2
  <2> HIDE DEF S
  <2>3. Nat \subseteq S
    BY <2>1, <2>2, NaturalsByInduction
  <2> QED
    BY <1>1, <2>3 DEF S
<1> QED
  BY <1>6, <1>7, <1>8, <1>9 DEF g

\* The length of a body is a number.
LEMMA BodyLengthIsANumber ==
    ASSUME NEW c \in Seq(Nat)
    PROVE  BodyLength(c) \in Nat /\ Len(c) \in Nat
<1> DEFINE g == Upto(c)
           N == Len(c)
<1>1. g \in [0 .. N -> Nat] /\ N \in 0 .. N /\ N \in Nat /\ BodyLength(c) = g[N]
  BY UptoExists
<1> HIDE DEF g
<1> QED
  BY <1>1

\* No part of a body is longer than all of it.
LEMMA UptoGrows ==
    ASSUME NEW c \in Seq(Nat), NEW k \in 0 .. Len(c)
    PROVE  Upto(c)[k] <= BodyLength(c)
<1> DEFINE N == Len(c)
           g == Upto(c)
           S == {n \in Nat : k <= n /\ n <= N => g[k] <= g[n]}
<1>1. /\ N \in Nat /\ g \in [0 .. N -> Nat] /\ BodyLength(c) = g[N]
      /\ \A n \in 1 .. N : g[n] = g[n - 1] + c[n] /\ c[n] \in Nat
  BY UptoExists
<1> HIDE DEF g, N
<1>2. 0 \in S
  BY <1>1 DEF N
<1>3. ASSUME NEW n \in Nat, n \in S PROVE n + 1 \in S
  <2> SUFFICES ASSUME k <= n + 1, n + 1 <= N PROVE g[k] <= g[n + 1]
    OBVIOUS
  <2>1. k \in Nat /\ g[k] \in Nat
    <3>1. k \in 0 .. N
      BY DEF N
    <3> QED
      BY <1>1, <3>1
  <2>2. CASE k = n + 1
    BY <2>1, <2>2
  <2>3. CASE k <= n
    <3>1. g[k] <= g[n] /\ n + 1 \in 1 .. N /\ g[n] \in Nat /\ (n + 1) - 1 = n
      BY <1>1, <1>3, <2>3
    <3>2. g[n + 1] = g[(n + 1) - 1] + c[n + 1] /\ c[n + 1] \in Nat
      BY <1>1, <3>1
    <3> QED
      BY <2>1, <3>1, <3>2, SMTT(60)
  <2> QED
    BY <2>1, <2>2, <2>3
<1> HIDE DEF S
<1>4. Nat \subseteq S
  BY <1>2, <1>3, NaturalsByInduction
<1> QED
  BY <1>1, <1>4, SMTT(60) DEF S, N, g

----------------------------------------------------------------------------
(* The edge. *)

Entry == [request : Requests, bytes : Nat, status : Nat]
Everyone == {Principal(r) : r \in Requests}

EdgeTypeOK ==
    /\ gate \in {"idle", "authentication", "host", "length", "route"}
    /\ gate # "idle" => request \in Requests
    /\ bytes \in Nat
    /\ chunk \in Nat
    /\ results \in Seq(Entry)
    /\ spent \in [DOMAIN spent -> Nat]

\* What is known of a request by the gates that it has passed.
PassedSoFar ==
    /\ gate = "authentication" => Protected(request)
    /\ gate \in {"authentication", "host", "length"} => bytes = 0 /\ chunk = 0
    /\ gate \in {"host", "length", "route"} /\ Protected(request) =>
          keys = {} \/ TokenAllowed(request)
    /\ gate \in {"length", "route"} => request.host = "trusted"
    /\ gate = "route" =>
          /\ chunk <= Len(request.chunks)
          /\ bytes = Upto(request.chunks)[chunk]
          /\ Protected(request) => bytes <= BodyLimit(request)

\* A request of this identity is counted and not answered yet.
Passing(who) ==
    /\ gate \in {"host", "length", "route"}
    /\ Protected(request)
    /\ Principal(request) = who

Counted(who) == {m \in Mine(who, Len(results)) : results[m].status \notin {401, 429}}
Paid(who) == IF who \in DOMAIN spent THEN spent[who] ELSE 0

Account ==
    /\ DOMAIN spent \subseteq Owners
    /\ \A who \in DOMAIN spent : spent[who] <= RequestsPerWindow
    /\ \A who \in Everyone \cup DOMAIN spent :
          Paid(who) = Cardinality(Counted(who)) + (IF Passing(who) THEN 1 ELSE 0)

Admissible(n) ==
    LET r == results[n].request
    IN  results[n].status = 200 =>
          /\ r.host = "trusted"
          /\ Protected(r) => /\ keys = {} \/ TokenAllowed(r)
                             /\ results[n].bytes <= BodyLimit(r)

\* The request keeps the rules that do not depend on others.
Proper(r) ==
    /\ r.host = "trusted" /\ r.declared # "malformed"
    /\ BodyLength(r.chunks) <= BodyLimit(r)
    /\ keys = {} \/ TokenAllowed(r)

Rightful(n) ==
    LET r == results[n].request
    IN  Proper(r) /\ Cardinality(Mine(Principal(r), n)) <= RequestsPerWindow
        => results[n].status = 200 \/ ~ Protected(r)

EdgeInv ==
    /\ EdgeTypeOK
    /\ PassedSoFar
    /\ Account
    /\ \A n \in DOMAIN results : Admissible(n) /\ Rightful(n)

\* The limits are numbers, and the window lets somebody in.
LEMMA EdgeLimits ==
    /\ MaxBody \in Nat /\ MaxMediaBody \in Nat
    /\ RequestsPerWindow \in Nat /\ RequestsPerWindow >= 1
  BY EdgeAssumption

\* The answers that one identity has had are finitely many.
LEMMA MineIsFinite ==
    ASSUME NEW who, NEW n \in Nat
    PROVE  /\ Mine(who, n) \subseteq 1 .. n
           /\ \A S \in SUBSET Mine(who, n) : IsFiniteSet(S) /\ Cardinality(S) \in Nat
<1>1. IsFiniteSet(1 .. n) /\ Mine(who, n) \subseteq 1 .. n
  BY FS_Interval DEF Mine
<1> QED
  BY <1>1, FS_Subset, FS_CardinalityType

\* The next answer is one more.
LEMMA OneMoreOfMine ==
    ASSUME NEW who, NEW n \in Nat
    PROVE  /\ Cardinality(Mine(who, n)) \in Nat
           /\ Cardinality(Mine(who, n) \cup {n + 1}) = Cardinality(Mine(who, n)) + 1
<1>1. IsFiniteSet(Mine(who, n)) /\ Cardinality(Mine(who, n)) \in Nat
  BY MineIsFinite
<1>2. n + 1 \notin Mine(who, n)
  BY MineIsFinite
<1>3. Cardinality(Mine(who, n) \cup {n + 1}) = Cardinality(Mine(who, n)) + 1
  BY <1>1, <1>2, FS_AddElement
<1> QED
  BY <1>1, <1>3

\* Who has been counted is a finite set.
LEMMA CountedIsFinite ==
    ASSUME EdgeTypeOK, NEW who
    PROVE  /\ IsFiniteSet(Counted(who)) /\ Cardinality(Counted(who)) \in Nat
           /\ Cardinality(Mine(who, Len(results))) \in Nat
           /\ Cardinality(Counted(who)) <= Cardinality(Mine(who, Len(results)))
<1> PICK n \in Nat : n = Len(results)
  BY DEF EdgeTypeOK
<1>1. Counted(who) \in SUBSET Mine(who, n) /\ Mine(who, n) \in SUBSET Mine(who, n)
  BY DEF Counted
<1>2. /\ IsFiniteSet(Counted(who)) /\ Cardinality(Counted(who)) \in Nat
      /\ IsFiniteSet(Mine(who, n)) /\ Cardinality(Mine(who, n)) \in Nat
  BY <1>1, MineIsFinite
<1>3. Cardinality(Counted(who)) <= Cardinality(Mine(who, n))
  BY <1>1, <1>2, FS_Subset
<1> QED
  BY <1>2, <1>3

\* What one more answer, the one after the n-th, does to the list of them.
Answered(n, status) ==
    /\ n = Len(results)
    /\ results' \in Seq(Entry)
    /\ Len(results') = n + 1
    /\ \A m \in 1 .. n : results'[m] = results[m]
    /\ results'[n + 1] = [request |-> request, bytes |-> bytes', status |-> status]
    /\ \A who : \A m \in 1 .. n : Mine(who, m)' = Mine(who, m)
    /\ \A who : Mine(who, n + 1)' =
           Mine(who, n) \cup (IF Protected(request) /\ Principal(request) = who
                              THEN {n + 1} ELSE {})

\* Closing a request appends one answer and disturbs no earlier one.
LEMMA OneMore ==
    ASSUME EdgeTypeOK, gate # "idle", NEW status \in Nat, Close(status),
           keys' = keys, bytes' \in Nat
    PROVE  \E n \in Nat : Answered(n, status)
<1> PICK n \in Nat : n = Len(results)
  BY DEF EdgeTypeOK
<1> DEFINE e == [request |-> request, bytes |-> bytes', status |-> status]
<1>1. /\ results' = Append(results, e) /\ e \in Entry
      /\ request \in Requests
  BY DEF EdgeTypeOK, Close, Entry
<1>2. /\ results' \in Seq(Entry) /\ Len(results') = n + 1
      /\ \A m \in 1 .. n : results'[m] = results[m]
      /\ results'[n + 1] = e
  BY <1>1 DEF EdgeTypeOK
<1>3. ASSUME NEW who, NEW m \in 1 .. n
      PROVE  Mine(who, m)' = Mine(who, m)
  <2>1. \A k \in 1 .. m : results'[k] = results[k]
    BY <1>1, <1>2
  <2> QED
    BY <2>1 DEF Mine, Principal
<1>4. ASSUME NEW who
      PROVE  Mine(who, n + 1)' =
                 Mine(who, n) \cup (IF Protected(request) /\ Principal(request) = who
                                    THEN {n + 1} ELSE {})
  <2>1. 1 .. n + 1 = (1 .. n) \cup {n + 1}
    BY <1>1
  <2>2. results'[n + 1].request = request
    BY <1>2
  <2> QED
    BY <1>2, <2>1, <2>2 DEF Mine, Principal
<1> QED
  BY <1>1, <1>2, <1>3, <1>4 DEF Answered

\* Who counted before the answer and who after it.
LEMMA CountedAfter ==
    ASSUME EdgeTypeOK, gate # "idle", NEW status \in Nat, Close(status),
           keys' = keys, bytes' \in Nat, NEW who
    PROVE  Cardinality(Counted(who))' =
               Cardinality(Counted(who)) +
               (IF /\ Protected(request) /\ Principal(request) = who
                   /\ status \notin {401, 429}
                THEN 1 ELSE 0)
<1> DEFINE counts == /\ Protected(request) /\ Principal(request) = who
                     /\ status \notin {401, 429}
<1>1. PICK n \in Nat : Answered(n, status)
  BY OneMore
<1>2. Mine(who, n) \subseteq 1 .. n
  BY MineIsFinite
<1>3. IsFiniteSet(Counted(who)) /\ Cardinality(Counted(who)) \in Nat
  BY <1>1, MineIsFinite DEF Counted, Answered
<1>4. n + 1 \notin 1 .. n
  BY <1>1
<1>5. Counted(who)' = Counted(who) \cup (IF counts THEN {n + 1} ELSE {})
  <2>1. Counted(who)' = {m \in Mine(who, n + 1)' : results'[m].status \notin {401, 429}}
    BY <1>1 DEF Counted, Answered
  <2>2. Counted(who) = {m \in Mine(who, n) : results[m].status \notin {401, 429}}
    BY <1>1 DEF Counted, Answered
  <2> QED
    <3>1. \A m \in Mine(who, n) : m \in 1 .. n /\ results'[m].status = results[m].status
      BY <1>1, <1>2 DEF Answered
    <3>2. results'[n + 1].status = status
      BY <1>1 DEF Answered
    <3>3. Mine(who, n + 1)' =
              Mine(who, n) \cup (IF Protected(request) /\ Principal(request) = who
                                 THEN {n + 1} ELSE {})
      BY <1>1 DEF Answered
    <3>4. CASE Protected(request) /\ Principal(request) = who
      <4>1. Mine(who, n + 1)' = Mine(who, n) \cup {n + 1}
        BY <3>3, <3>4
      <4>2. Counted(who)' = Counted(who) \cup {m \in {n + 1} : status \notin {401, 429}}
        BY <2>1, <2>2, <3>1, <3>2, <4>1
      <4> QED
        BY <3>4, <4>2
    <3>5. CASE ~ (Protected(request) /\ Principal(request) = who)
      <4>1. Mine(who, n + 1)' = Mine(who, n)
        BY <3>3, <3>5
      <4> QED
        BY <2>1, <2>2, <3>1, <3>5, <4>1
    <3> QED
      BY <3>4, <3>5
<1>6. CASE counts
  <2>1. n + 1 \notin Counted(who)
    BY <1>1, <1>2, <1>4 DEF Counted, Answered
  <2>2. Cardinality(Counted(who) \cup {n + 1}) = Cardinality(Counted(who)) + 1
    BY <1>3, <2>1, FS_AddElement
  <2> QED
    BY <1>5, <1>6, <2>2
<1>7. CASE ~ counts
  <2>1. Counted(who)' = Counted(who)
    BY <1>5, <1>7
  <2> QED
    BY <1>3, <1>7, <2>1
<1> QED
  BY <1>6, <1>7

\* Every way to answer a request: what is left to show is that the answer fits
\* the request, and that it was counted if and only if it was let in.
LEMMA CloseKeeps ==
    ASSUME EdgeInv, gate # "idle", NEW status \in Nat, Close(status),
           UNCHANGED <<keys, spent>>, bytes' \in Nat, chunk' \in Nat,
           Protected(request) =>
               (status \notin {401, 429} <=> gate \in {"host", "length", "route"}),
           status = 200 =>
               /\ request.host = "trusted"
               /\ Protected(request) => /\ keys = {} \/ TokenAllowed(request)
                                        /\ bytes' <= BodyLimit(request),
           /\ Proper(request) /\ Protected(request)
           /\ Cardinality(Mine(Principal(request), Len(results))) < RequestsPerWindow
           => status = 200
    PROVE  EdgeInv'
<1>1. PICK n \in Nat : Answered(n, status)
  BY OneMore DEF EdgeInv
<1>2. gate' = "idle" /\ request \in Requests
  BY DEF Close, EdgeInv, EdgeTypeOK
<1>3. EdgeTypeOK'
  BY <1>1, <1>2 DEF EdgeInv, EdgeTypeOK, Answered
<1>4. PassedSoFar'
  BY <1>2 DEF PassedSoFar
<1>5. Account'
  <2>1. ASSUME NEW who \in Everyone \cup DOMAIN spent
        PROVE  Paid(who)' = Cardinality(Counted(who))' + (IF Passing(who)' THEN 1 ELSE 0)
    <3>1. Paid(who)' = Cardinality(Counted(who)) + (IF Passing(who) THEN 1 ELSE 0)
      BY <2>1 DEF EdgeInv, Account, Paid
    <3>2. Passing(who)' = FALSE
      BY <1>2 DEF Passing
    <3>3. Cardinality(Counted(who))' =
              Cardinality(Counted(who)) +
              (IF /\ Protected(request) /\ Principal(request) = who
                  /\ status \notin {401, 429}
               THEN 1 ELSE 0)
      BY CountedAfter DEF EdgeInv
    <3>4. Passing(who) <=> /\ Protected(request) /\ Principal(request) = who
                           /\ status \notin {401, 429}
      BY DEF Passing
    <3>5. Cardinality(Counted(who)) \in Nat
      BY <1>1, MineIsFinite DEF Counted, Answered
    <3> QED
      BY <3>1, <3>2, <3>3, <3>4, <3>5
  <2>2. Everyone' = Everyone /\ Owners' = Owners
    BY DEF Everyone, Principal, Owners
  <2> QED
    BY <2>1, <2>2 DEF EdgeInv, Account
<1>6. ASSUME NEW m \in DOMAIN results'
      PROVE  Admissible(m)' /\ Rightful(m)'
  <2>1. DOMAIN results' = 1 .. n + 1 /\ DOMAIN results = 1 .. n
    BY <1>1 DEF EdgeInv, EdgeTypeOK, Answered
  <2>2. CASE m \in 1 .. n
    <3>1. results'[m] = results[m] /\ Admissible(m) /\ Rightful(m)
      BY <1>1, <2>1, <2>2 DEF EdgeInv, Answered
    <3>3. Admissible(m)'
      BY <3>1 DEF Admissible, TokenAllowed
    <3>4. \A who : Mine(who, m)' = Mine(who, m)
      BY <1>1, <2>2 DEF Answered
    <3>5. Rightful(m)'
      BY <3>1, <3>4 DEF Rightful, Proper, Principal, TokenAllowed
    <3> QED
      BY <3>3, <3>5
  <2>3. CASE m = n + 1
    <3>1. results'[m] = [request |-> request, bytes |-> bytes', status |-> status]
      BY <1>1, <2>3 DEF Answered
    <3>2. Admissible(m)'
      BY <3>1 DEF Admissible, TokenAllowed
    <3>3. PICK who : who = Principal(request)
      OBVIOUS
    <3>4. ASSUME Protected(request), Proper(request),
                 Cardinality(Mine(who, n + 1)') <= RequestsPerWindow
          PROVE  status = 200
      <4>1. Mine(who, n + 1)' = Mine(who, n) \cup {n + 1}
        BY <1>1, <3>3, <3>4 DEF Answered
      <4>2. /\ Cardinality(Mine(who, n + 1)') = Cardinality(Mine(who, n)) + 1
            /\ Cardinality(Mine(who, n)) \in Nat
        BY <4>1, OneMoreOfMine, SMTT(60)
      <4>3. Cardinality(Mine(who, n)) < RequestsPerWindow
        BY <3>4, <4>2, EdgeLimits
      <4>4. Mine(who, n) = Mine(Principal(request), Len(results))
        BY <1>1, <3>3 DEF Answered
      <4> QED
        BY <3>4, <4>3, <4>4
    <3>5. Rightful(m)'
      <4>1. /\ results'[m].request = request /\ results'[m].status = status
            /\ Principal(results[m].request)' = who
            /\ Proper(results[m].request)' = Proper(request)
        <5>1. results'[m].request = request /\ results'[m].status = status
          BY <3>1
        <5> QED
          BY <3>3, <5>1 DEF Principal, Proper, TokenAllowed
      <4>2. Cardinality(Mine(Principal(results[m].request), m))' =
                Cardinality(Mine(who, n + 1)')
        BY <2>3, <4>1 DEF Mine
      <4> QED
        BY <3>4, <4>1, <4>2 DEF Rightful
    <3> QED
      BY <3>2, <3>5
  <2> QED
    BY <1>1, <2>1, <2>2, <2>3
<1> QED
  BY <1>3, <1>4, <1>5, <1>6 DEF EdgeInv

\* A request that goes on without being counted.
LEMMA GoOnKeepsAccount ==
    ASSUME EdgeInv, UNCHANGED <<keys, spent, results>>,
           \A who : Passing(who)' <=> Passing(who)
    PROVE  /\ Account'
           /\ \A n \in DOMAIN results' : Admissible(n)' /\ Rightful(n)'
<1>1. \A who : /\ Counted(who)' = Counted(who) /\ Paid(who)' = Paid(who)
  BY DEF Counted, Paid, Mine, Principal
<1>2. Everyone' = Everyone /\ Owners' = Owners
  BY DEF Everyone, Principal, Owners
<1>3. Account'
  BY <1>1, <1>2 DEF EdgeInv, Account
<1>4. \A n \in DOMAIN results' : Admissible(n)' /\ Rightful(n)'
  BY SMTT(60) DEF EdgeInv, Admissible, Rightful, Proper, TokenAllowed, Mine, Principal
<1> QED
  BY <1>3, <1>4

\* A request begins, or is answered without any check when nothing protects it.
LEMMA ArriveKeeps ==
    ASSUME EdgeInv, Arrive
    PROVE  EdgeInv'
<1>1. EdgeTypeOK'
  BY DEF EdgeInv, EdgeTypeOK, Arrive
<1>2. PassedSoFar'
  <2>1. bytes' = 0 /\ chunk' = 0
    BY DEF Arrive
  <2>2. gate' = (IF Protected(request') THEN "authentication" ELSE "host")
    BY DEF Arrive
  <2> QED
    BY <2>1, <2>2 DEF PassedSoFar, Protected
<1>3. \A who : Passing(who)' <=> Passing(who)
  BY DEF Arrive, Passing, Protected
<1>4. UNCHANGED <<keys, spent, results>>
  BY DEF Arrive
<1> QED
  BY <1>1, <1>2, <1>3, <1>4, GoOnKeepsAccount DEF EdgeInv

\* The one that is counted.
LEMMA CountKeeps ==
    ASSUME EdgeInv, gate = "authentication", keys = {} \/ TokenAllowed(request),
           GoOn("host"), UNCHANGED <<keys, bytes, chunk>>,
           NEW who, who = Principal(request),
           Paid(who) < RequestsPerWindow,
           spent' = [w \in DOMAIN spent \cup {who} |->
                        IF w = who THEN Paid(who) + 1 ELSE spent[w]]
    PROVE  EdgeInv'
<1>1. /\ request \in Requests /\ Protected(request) /\ gate' = "host"
      /\ request' = request /\ results' = results
  BY DEF EdgeInv, EdgeTypeOK, PassedSoFar, GoOn
<1>2. Paid(who) \in Nat
  BY DEF EdgeInv, EdgeTypeOK, Paid
<1>3. EdgeTypeOK'
  <2>1. spent' \in [DOMAIN spent' -> Nat]
    BY <1>2 DEF EdgeInv, EdgeTypeOK
  <2> QED
    BY <1>1, <2>1 DEF EdgeInv, EdgeTypeOK
<1>4. PassedSoFar'
  BY <1>1 DEF EdgeInv, PassedSoFar, Protected, TokenAllowed
<1>5. who \in Owners
  BY <1>1 DEF Principal, Owners, TokenAllowed
<1>6. DOMAIN spent' = DOMAIN spent \cup {who}
  OBVIOUS
<1>7. Owners' = Owners /\ Everyone' = Everyone
  BY DEF Everyone, Principal, Owners
<1>8. \A w \in DOMAIN spent' : spent'[w] <= RequestsPerWindow
  BY <1>2, <1>6, EdgeLimits DEF EdgeInv, Account
<1>9. ASSUME NEW w \in Everyone \cup DOMAIN spent'
      PROVE  Paid(w)' = Cardinality(Counted(w))' + (IF Passing(w)' THEN 1 ELSE 0)
  <2>1. w \in Everyone \cup DOMAIN spent
    BY <1>1, <1>6, <1>9 DEF Everyone
  <2>2. Counted(w)' = Counted(w)
    BY <1>1 DEF Counted, Mine, Principal
  <2>3. ~ Passing(w) /\ (Passing(w)' <=> w = who)
    BY <1>1 DEF Passing, Protected, Principal
  <2>4. Paid(w) = Cardinality(Counted(w))
    <3>1. Paid(w) = Cardinality(Counted(w)) + 0
      BY <2>1, <2>3 DEF EdgeInv, Account
    <3>2. Cardinality(Counted(w)) \in Nat
      BY CountedIsFinite DEF EdgeInv
    <3> QED
      BY <3>1, <3>2
  <2>5. Paid(w)' = IF w = who THEN Paid(w) + 1 ELSE Paid(w)
    BY <1>6 DEF Paid
  <2>6. Paid(w) \in Nat
    BY DEF EdgeInv, EdgeTypeOK, Paid
  <2> QED
    BY <2>2, <2>3, <2>4, <2>5, <2>6
<1>10. Account'
  BY <1>5, <1>6, <1>7, <1>8, <1>9 DEF EdgeInv, Account
<1>11. \A n \in DOMAIN results' : Admissible(n)' /\ Rightful(n)'
  BY ZenonT(60), <1>1 DEF EdgeInv, Admissible, Rightful, Proper, TokenAllowed, Mine, Principal
<1> QED
  BY <1>3, <1>4, <1>10, <1>11 DEF EdgeInv

\* The key and the window: the request pays, or is answered 401 or 429.
LEMMA AuthenticateKeeps ==
    ASSUME EdgeInv, Authenticate
    PROVE  EdgeInv'
<1> PICK who : who = Principal(request)
  OBVIOUS
<1> DEFINE allowed == keys = {} \/ TokenAllowed(request)
<1>1. /\ gate = "authentication" /\ UNCHANGED <<keys, bytes, chunk>>
      /\ request \in Requests /\ Protected(request)
      /\ bytes' \in Nat /\ chunk' \in Nat /\ Paid(who) \in Nat
  BY DEF Authenticate, EdgeInv, EdgeTypeOK, PassedSoFar, Paid
<1>2. \/ ~ allowed /\ Close(401) /\ UNCHANGED spent
      \/ allowed /\ Paid(who) >= RequestsPerWindow /\ Close(429) /\ UNCHANGED spent
      \/ /\ allowed /\ Paid(who) < RequestsPerWindow /\ GoOn("host")
         /\ spent' = [w \in DOMAIN spent \cup {who} |->
                        IF w = who THEN Paid(who) + 1 ELSE spent[w]]
  BY DEF Authenticate, Paid
<1>3. CASE ~ allowed /\ Close(401) /\ UNCHANGED spent
  <2>1. ~ Proper(request)
    BY <1>3 DEF Proper
  <2> QED
    BY <1>1, <1>3, <2>1, CloseKeeps
<1>4. CASE allowed /\ Paid(who) >= RequestsPerWindow /\ Close(429) /\ UNCHANGED spent
  <2>1. Paid(who) = Cardinality(Counted(who))
    <3>1. ~ Passing(who) /\ who \in Everyone
      BY <1>1 DEF Passing, Everyone
    <3>2. Cardinality(Counted(who)) \in Nat
      BY CountedIsFinite DEF EdgeInv
    <3> QED
      BY <3>1, <3>2 DEF EdgeInv, Account
  <2>2. /\ Cardinality(Counted(who)) <= Cardinality(Mine(who, Len(results)))
        /\ Cardinality(Mine(who, Len(results))) \in Nat
    BY CountedIsFinite DEF EdgeInv
  <2>3. ~ (Cardinality(Mine(Principal(request), Len(results))) < RequestsPerWindow)
    BY <1>1, <1>4, <2>1, <2>2, EdgeLimits
  <2> QED
    BY <1>1, <1>4, <2>3, CloseKeeps
<1>5. CASE /\ allowed /\ Paid(who) < RequestsPerWindow /\ GoOn("host")
           /\ spent' = [w \in DOMAIN spent \cup {who} |->
                          IF w = who THEN Paid(who) + 1 ELSE spent[w]]
  BY <1>1, <1>5, CountKeeps
<1> QED
  BY <1>2, <1>3, <1>4, <1>5

\* The host is trusted, or the request is answered 400.
LEMMA CheckHostKeeps ==
    ASSUME EdgeInv, CheckHost
    PROVE  EdgeInv'
<1>1. /\ gate = "host" /\ UNCHANGED <<keys, bytes, chunk, spent>>
      /\ request \in Requests /\ bytes' \in Nat /\ chunk' \in Nat
  BY DEF CheckHost, EdgeInv, EdgeTypeOK
<1>2. CASE request.host = "trusted"
  <2>1. gate' = "length" /\ UNCHANGED <<request, results>>
    BY <1>2 DEF CheckHost, GoOn
  <2>2. \A who : Passing(who)' <=> Passing(who)
    BY <1>1, <2>1 DEF Passing, Protected, Principal
  <2>3. EdgeTypeOK'
    BY <1>1, <2>1 DEF EdgeInv, EdgeTypeOK
  <2>4. PassedSoFar'
    BY <1>1, <1>2, <2>1 DEF EdgeInv, PassedSoFar, Protected, TokenAllowed
  <2> QED
    BY <1>1, <2>1, <2>2, <2>3, <2>4, GoOnKeepsAccount DEF EdgeInv
<1>3. CASE request.host # "trusted"
  <2>1. Close(400) /\ ~ Proper(request)
    BY <1>3 DEF CheckHost, Proper
  <2> QED
    BY <1>1, <2>1, CloseKeeps
<1> QED
  BY <1>2, <1>3

\* The declared length is accepted, or the request is answered 400 or 413.
LEMMA CheckLengthKeeps ==
    ASSUME EdgeInv, CheckLength
    PROVE  EdgeInv'
<1> DEFINE malformed == Protected(request) /\ request.declared = "malformed"
           tooLong == /\ Protected(request) /\ request.declared = "honest"
                      /\ BodyLength(request.chunks) > BodyLimit(request)
<1>1. /\ gate = "length" /\ UNCHANGED <<keys, bytes, chunk, spent>>
      /\ request \in Requests /\ bytes' \in Nat /\ chunk' \in Nat
      /\ request.chunks \in Seq(Nat)
  <2>1. gate = "length" /\ UNCHANGED <<keys, bytes, chunk, spent>>
    BY DEF CheckLength
  <2>2. request \in Requests /\ bytes' \in Nat /\ chunk' \in Nat
    BY <2>1 DEF EdgeInv, EdgeTypeOK
  <2>3. request.chunks \in Seq(Nat)
    BY <2>2, EdgeAssumption
  <2> QED
    BY <2>1, <2>2, <2>3
<1>2. BodyLength(request.chunks) \in Nat /\ BodyLimit(request) \in Nat
  BY <1>1, BodyLengthIsANumber, EdgeLimits DEF BodyLimit
<1>3. \/ malformed /\ Close(400)
      \/ tooLong /\ Close(413)
      \/ GoOn("route")
  BY DEF CheckLength
<1>4. CASE malformed /\ Close(400)
  <2>1. ~ Proper(request)
    BY <1>4 DEF Proper
  <2> QED
    BY <1>1, <1>4, <2>1, CloseKeeps
<1>5. CASE tooLong /\ Close(413)
  <2>1. ~ Proper(request)
    BY <1>2, <1>5 DEF Proper
  <2> QED
    BY <1>1, <1>5, <2>1, CloseKeeps
<1>6. CASE GoOn("route")
  <2>1. gate' = "route" /\ UNCHANGED <<request, results>>
    BY <1>6 DEF GoOn
  <2>2. \A who : Passing(who)' <=> Passing(who)
    BY <1>1, <2>1 DEF Passing, Protected, Principal
  <2>3. EdgeTypeOK'
    BY <1>1, <2>1 DEF EdgeInv, EdgeTypeOK
  <2>4. PassedSoFar'
    <3>1. /\ bytes = 0 /\ chunk = 0 /\ request.host = "trusted"
          /\ Protected(request) => keys = {} \/ TokenAllowed(request)
      BY <1>1 DEF EdgeInv, PassedSoFar
    <3>2. Upto(request.chunks)[0] = 0 /\ 0 <= Len(request.chunks)
      BY <1>1, UptoExists
    <3> QED
      BY <1>1, <1>2, <2>1, <3>1, <3>2 DEF PassedSoFar, Protected, TokenAllowed, BodyLimit
  <2> QED
    BY <1>1, <2>1, <2>2, <2>3, <2>4, GoOnKeepsAccount DEF EdgeInv
<1> QED
  BY <1>3, <1>4, <1>5, <1>6

\* A chunk that is too much belongs to a body that is too long.
LEMMA ReadBodyKeeps ==
    ASSUME EdgeInv, ReadBody
    PROVE  EdgeInv'
<1> PICK c : c = request.chunks
  OBVIOUS
<1> DEFINE size == c[chunk + 1]
<1>1. /\ gate = "route" /\ UNCHANGED <<keys, spent>>
      /\ request \in Requests /\ c \in Seq(Nat)
      /\ chunk \in Nat /\ bytes \in Nat /\ chunk < Len(c)
      /\ chunk' = chunk + 1 /\ bytes' = bytes + size
      /\ bytes = Upto(c)[chunk]
  <2>1. gate = "route" /\ UNCHANGED <<keys, spent>>
    BY DEF ReadBody
  <2>2. chunk < Len(c) /\ chunk' = chunk + 1 /\ bytes' = bytes + size
    BY DEF ReadBody
  <2>3. request \in Requests /\ chunk \in Nat /\ bytes \in Nat /\ bytes = Upto(c)[chunk]
    BY <2>1 DEF EdgeInv, EdgeTypeOK, PassedSoFar
  <2>4. c \in Seq(Nat)
    BY <2>3, EdgeAssumption
  <2> QED
    BY <2>1, <2>2, <2>3, <2>4
<1>2. chunk + 1 \in 1 .. Len(c) /\ (chunk + 1) - 1 = chunk /\ size \in Nat
  BY <1>1, SMTT(60)
<1>3. bytes + size = Upto(c)[chunk + 1] /\ bytes' \in Nat /\ chunk' \in Nat
  <2>1. \A n \in 1 .. Len(c) : Upto(c)[n] = Upto(c)[n - 1] + c[n]
    BY <1>1, UptoExists
  <2>2. Upto(c)[chunk + 1] = Upto(c)[(chunk + 1) - 1] + c[chunk + 1]
    BY <1>2, <2>1
  <2> QED
    BY <1>1, <1>2, <2>2, SMTT(60)
<1>4. CASE Protected(request) /\ TooMuch(bytes, size)
  <2>1. PICK status \in {413, 400} : Close(status)
    BY <1>4 DEF ReadBody
  <2>2. Upto(c)[chunk + 1] <= BodyLength(c) /\ BodyLength(c) \in Nat
    <3>1. chunk + 1 \in 0 .. Len(c)
      BY <1>1, <1>2
    <3> QED
      BY <1>1, <3>1, UptoGrows, BodyLengthIsANumber, SMTT(60)
  <2>3. BodyLimit(request) \in Nat
    BY EdgeLimits DEF BodyLimit
  <2>4. ~ Proper(request)
    BY <1>1, <1>2, <1>3, <1>4, <2>2, <2>3 DEF Proper, TooMuch
  <2> QED
    BY <1>1, <1>3, <2>1, <2>4, CloseKeeps, SMTT(60)
<1>5. CASE ~ (Protected(request) /\ TooMuch(bytes, size))
  <2>1. gate' = "route" /\ UNCHANGED <<request, results>>
    BY <1>5 DEF ReadBody, GoOn
  <2>2. \A who : Passing(who)' <=> Passing(who)
    BY <1>1, <2>1 DEF Passing, Protected, Principal
  <2>3. EdgeTypeOK'
    BY <1>1, <1>3, <2>1 DEF EdgeInv, EdgeTypeOK
  <2>4. PassedSoFar'
    <3>1. /\ request.host = "trusted"
          /\ Protected(request) => keys = {} \/ TokenAllowed(request)
      BY <1>1 DEF EdgeInv, PassedSoFar
    <3>2. chunk' <= Len(c) /\ bytes' = Upto(c)[chunk']
      BY <1>1, <1>2, <1>3
    <3>3. Protected(request) => bytes' <= BodyLimit(request)
      <4>1. BodyLimit(request) \in Nat
        BY EdgeLimits DEF BodyLimit
      <4> QED
        BY <1>1, <1>3, <1>5, <4>1 DEF TooMuch
    <3> QED
      BY <1>1, <2>1, <3>1, <3>2, <3>3 DEF PassedSoFar, Protected, TokenAllowed, BodyLimit
  <2> QED
    BY <1>1, <2>1, <2>2, <2>3, <2>4, GoOnKeepsAccount DEF EdgeInv
<1> QED
  BY <1>4, <1>5

\* The route takes chunk after chunk, answers, or stops at the limit.
LEMMA HandleKeeps ==
    ASSUME EdgeInv, Handle
    PROVE  EdgeInv'
<1>1. /\ gate = "route" /\ UNCHANGED <<keys, bytes, chunk, spent>> /\ Close(200)
      /\ request.host = "trusted"
      /\ Protected(request) => keys = {} \/ TokenAllowed(request)
      /\ Protected(request) => bytes' <= BodyLimit(request)
      /\ bytes' \in Nat /\ chunk' \in Nat
  BY DEF Handle, EdgeInv, EdgeTypeOK, PassedSoFar
<1> QED
  BY <1>1, CloseKeeps

\* The invariant holds before the first request ...
LEMMA EdgeInvInit ==
    ASSUME EdgeInit
    PROVE  EdgeInv
<1>1. gate = "idle" /\ bytes = 0 /\ chunk = 0 /\ spent = <<>> /\ results = <<>>
  BY DEF EdgeInit
<1>2. EdgeTypeOK
  BY <1>1 DEF EdgeTypeOK
<1>3. PassedSoFar
  BY <1>1 DEF PassedSoFar
<1>4. Account
  <2>1. ASSUME NEW who PROVE Paid(who) = 0 /\ Cardinality(Counted(who)) = 0 /\ ~ Passing(who)
    <3>1. Mine(who, 0) \subseteq 1 .. 0 /\ 1 .. 0 = {}
      BY MineIsFinite
    <3>2. Counted(who) = {}
      BY <1>1, <3>1 DEF Counted
    <3> QED
      BY <1>1, <3>2, FS_EmptySet DEF Paid, Passing
  <2> QED
    BY <1>1, <2>1 DEF Account
<1> QED
  BY <1>1, <1>2, <1>3, <1>4 DEF EdgeInv

\* ... and every step keeps it.
LEMMA EdgeInvStep ==
    ASSUME EdgeInv, [EdgeNext]_edgeVars
    PROVE  EdgeInv'
<1>1. CASE EdgeNext
  BY <1>1, ArriveKeeps, AuthenticateKeeps, CheckHostKeeps, CheckLengthKeeps,
     ReadBodyKeeps, HandleKeeps DEF EdgeNext
<1>2. CASE UNCHANGED edgeVars
  <2>1. UNCHANGED <<keys, gate, request, bytes, chunk, spent, results>>
    BY <1>2 DEF edgeVars
  <2>2. \A who : Passing(who)' <=> Passing(who)
    BY <2>1 DEF Passing, Protected, Principal
  <2>3. EdgeTypeOK'
    BY <2>1 DEF EdgeInv, EdgeTypeOK
  <2>4. PassedSoFar'
    BY <2>1 DEF EdgeInv, PassedSoFar, Protected, TokenAllowed, BodyLimit
  <2> QED
    BY <2>1, <2>2, <2>3, <2>4, GoOnKeepsAccount DEF EdgeInv
<1> QED
  BY <1>1, <1>2

\* What holds at every gate: the account of each identity is what was counted for
\* it, with the request under way, and each answer fits its request.
THEOREM EdgeInductive == EdgeSpec => []EdgeInv
<1>1. EdgeInit => EdgeInv
  BY EdgeInvInit
<1>2. EdgeInv /\ [EdgeNext]_edgeVars => EdgeInv'
  BY EdgeInvStep
<1> QED
  BY <1>1, <1>2, PTL DEF EdgeSpec

\* No identity gets more answers of a handler than its window has requests.
LEMMA WithinTheRate ==
    ASSUME EdgeInv, NEW n \in DOMAIN results, Protected(results[n].request)
    PROVE  Cardinality({m \in Mine(Principal(results[n].request), n) : results[m].status = 200})
              <= RequestsPerWindow
<1> PICK k \in Nat : k = Len(results)
  BY DEF EdgeInv, EdgeTypeOK
<1> PICK who : who = Principal(results[n].request)
  OBVIOUS
<1> DEFINE S == {m \in Mine(who, n) : results[m].status = 200}
<1>1. n \in 1 .. k /\ results[n].request \in Requests
  <2>1. results \in Seq(Entry)
    BY DEF EdgeInv, EdgeTypeOK
  <2>2. n \in 1 .. k /\ results[n] \in Entry
    BY <2>1
  <2> QED
    BY <2>2 DEF Entry
<1>2. Cardinality(Counted(who)) \in Nat /\ IsFiniteSet(Counted(who))
  BY CountedIsFinite DEF EdgeInv
<1>3. Cardinality(S) <= Cardinality(Counted(who)) /\ Cardinality(S) \in Nat
  <2>1. S \subseteq Counted(who)
    <3>1. Mine(who, n) \subseteq Mine(who, k)
      BY <1>1 DEF Mine
    <3> QED
      BY <3>1 DEF Counted
  <2> HIDE DEF S
  <2> QED
    BY <1>2, <2>1, FS_Subset, FS_CardinalityType
<1>4. Cardinality(Counted(who)) <= Paid(who) /\ Paid(who) \in Nat
  <2>1. who \in Everyone
    BY <1>1 DEF Everyone
  <2> QED
    BY <1>2, <2>1 DEF EdgeInv, EdgeTypeOK, Account, Paid
<1>5. Paid(who) <= RequestsPerWindow
  BY EdgeLimits DEF EdgeInv, Account, Paid
<1>6. Cardinality(S) <= RequestsPerWindow
  BY <1>2, <1>3, <1>4, <1>5, EdgeLimits
<1> QED
  BY <1>6

\* Only what is admissible reaches a protected handler, what keeps every rule does
\* reach it, and each identity is charged for its own requests, for every set of
\* keys and requests and every limit.
THEOREM RightfulPass == EdgeSpec => []OnlyTheRightfulPass
<1>1. ASSUME EdgeInv PROVE OnlyTheRightfulPass
  <2>1. AdmittedIsAdmissible
    BY <1>1, WithinTheRate DEF AdmittedIsAdmissible, EdgeInv, Admissible
  <2>2. RightfulRequestsPass
    BY <1>1 DEF RightfulRequestsPass, EdgeInv, Rightful, Proper
  <2>3. OnlyOwnersPay
    <3>1. DOMAIN spent \subseteq Owners
      BY <1>1 DEF EdgeInv, Account
    <3>2. ASSUME NEW who \in DOMAIN spent, gate \in {"idle", "authentication"}
          PROVE  spent[who] = Cardinality(Counted(who))
      <4>1. ~ Passing(who)
        BY <3>2 DEF Passing
      <4>2. Cardinality(Counted(who)) \in Nat
        BY <1>1, CountedIsFinite DEF EdgeInv
      <4>3. Paid(who) = Cardinality(Counted(who)) + 0
        BY <1>1, <4>1 DEF EdgeInv, Account
      <4> QED
        BY <4>2, <4>3 DEF Paid
    <3> QED
      BY <3>1, <3>2 DEF OnlyOwnersPay, Counted
  <2> QED
    BY <2>1, <2>2, <2>3 DEF OnlyTheRightfulPass
<1> QED
  BY <1>1, EdgeInductive, PTL

-----------------------------------------------------------------------------
(* The rate limiter. *)

\* What one identity has got through, and the window it has.
\* Its accepted requests are in order of time.
InOrder(i) ==
    /\ \A k \in 1 .. Len(passed[i]) : passed[i][k] <= now
    /\ \A j, k \in 1 .. Len(passed[i]) : j <= k => passed[i][j] <= passed[i][k]

\* The requests that a window counts are the last ones; the first of them opened
\* it, a full window after everything that is MaxRequests or more before it.
WindowFits(i) ==
    LET first == Len(passed[i]) - count[i] + 1
    IN  /\ count[i] \in 1 .. MaxRequests
        /\ first >= 1
        /\ passed[i][first] = started[i]
        /\ \A j \in 1 .. first - MaxRequests : passed[i][j] + Window <= started[i]

\* Without a window, the next request may open one under the same condition.
NextFits(i) ==
    \A j \in 1 .. Len(passed[i]) + 1 - MaxRequests : passed[i][j] + Window <= now

PacedFor(i) ==
    \A k \in 1 .. Len(passed[i]) :
        k + 2 * MaxRequests - 1 <= Len(passed[i]) =>
            passed[i][k] + Window <= passed[i][k + 2 * MaxRequests - 1]

Fits(i) ==
    /\ InOrder(i)
    /\ i \in live => WindowFits(i)
    /\ i \notin live => NextFits(i)
    /\ PacedFor(i)

IInv ==
    /\ TypeOK
    /\ IsFiniteSet(live)
    /\ Cardinality(live) <= MaxIdentities
    /\ \A i \in Identity : Fits(i)

\* A window has a length ...
LEMMA WindowNat == Window \in Nat \ {0}
  BY RateLimiterAssumption DEF Window

\* ... and room for at least one request of one identity.
LEMMA Limits ==
    /\ MaxRequests \in Nat /\ MaxRequests >= 1
    /\ MaxIdentities \in Nat /\ MaxIdentities >= 1
  BY RateLimiterAssumption

\* What is left of the table after its clean-up is no larger than it was.
LEMMA UnexpiredSmall ==
    ASSUME IInv
    PROVE  /\ Unexpired \subseteq live
           /\ IsFiniteSet(Unexpired)
           /\ Cardinality(Unexpired) <= Cardinality(live)
           /\ Cardinality(Unexpired) \in Nat
<1>1. Unexpired \subseteq live /\ IsFiniteSet(live)
  BY DEF Unexpired, IInv
<1> QED
  BY <1>1, FS_Subset, FS_CardinalityType

\* A window that expires leaves room for the next one.
LEMMA ExpiredFits ==
    ASSUME IInv, NEW i \in Identity, i \notin Unexpired
    PROVE  NextFits(i)
<1>1. CASE i \notin live
  BY <1>1 DEF IInv, Fits
<1>2. CASE i \in live
  <2> DEFINE first == Len(passed[i]) - count[i] + 1
  <2>1. WindowFits(i) /\ InOrder(i)
    BY <1>2 DEF IInv, Fits
  <2>2. started[i] + Window <= now
    BY <1>2, WindowNat DEF Unexpired, IInv, TypeOK
  <2>3. /\ first \in 1 .. Len(passed[i])
        /\ first >= Len(passed[i]) + 1 - MaxRequests
        /\ passed[i][first] = started[i]
    BY <2>1, RateLimiterAssumption, SMTT(60) DEF WindowFits, IInv, TypeOK
  <2> SUFFICES ASSUME NEW j \in 1 .. Len(passed[i]) + 1 - MaxRequests
               PROVE  passed[i][j] + Window <= now
    BY DEF NextFits
  <2>4. j \in 1 .. Len(passed[i]) /\ j <= first
    BY SMTT(30), <2>3, RateLimiterAssumption DEF IInv, TypeOK
  <2>5. passed[i][j] <= started[i]
    BY <2>1, <2>3, <2>4 DEF InOrder
  <2>6. passed[i][j] \in Nat /\ started[i] \in Nat /\ now \in Nat
    BY <2>4, SMTT(60) DEF IInv, TypeOK
  <2> QED
    BY <2>2, <2>5, <2>6, WindowNat, SMTT(60)
<1> QED
  BY <1>1, <1>2

\* One more accepted request, now.
LEMMA AppendFits ==
    ASSUME IInv, NEW i \in Identity,
           passed' = [passed EXCEPT ![i] = Append(@, now)], now' = now,
           Len(passed[i]) + 2 - 2 * MaxRequests >= 1 =>
               passed[i][Len(passed[i]) + 2 - 2 * MaxRequests] + Window <= now
    PROVE  /\ passed'[i] \in Seq(Nat)
           /\ Len(passed'[i]) = Len(passed[i]) + 1
           /\ \A k \in 1 .. Len(passed[i]) : passed'[i][k] = passed[i][k]
           /\ passed'[i][Len(passed[i]) + 1] = now
           /\ InOrder(i)'
           /\ PacedFor(i)'
<1> DEFINE n == Len(passed[i])
           s == Append(passed[i], now)
<1>1. passed[i] \in Seq(Nat) /\ n \in Nat /\ now \in Nat
  BY DEF IInv, TypeOK
<1>2. passed'[i] = s
  BY DEF IInv, TypeOK
<1>3. /\ s \in Seq(Nat)
      /\ Len(s) = n + 1
      /\ \A k \in 1 .. n : s[k] = passed[i][k]
      /\ s[n + 1] = now
  BY <1>1
<1> HIDE DEF s, n
<1>4. InOrder(i)'
  BY SMTT(30), <1>1, <1>2, <1>3 DEF InOrder, IInv, Fits, n
<1>5. PacedFor(i)'
  <2> SUFFICES ASSUME NEW k \in 1 .. n + 1, k + 2 * MaxRequests - 1 <= n + 1
               PROVE  s[k] + Window <= s[k + 2 * MaxRequests - 1]
    BY <1>2, <1>3 DEF PacedFor, Window
  <2> DEFINE l == k + 2 * MaxRequests - 1
  <2>1. l \in 1 .. n + 1 /\ k < l
    BY <1>1, Limits
  <2>2. k \in 1 .. n /\ s[k] = passed[i][k]
    BY <1>1, <1>3, <2>1, SMTT(60)
  <2>3. CASE l <= n
    <3>1. s[l] = passed[i][l]
      BY <1>3, <2>1, <2>3, SMTT(60)
    <3> QED
      BY <2>2, <2>3, <3>1 DEF IInv, Fits, PacedFor, n
  <2>4. CASE l = n + 1
    <3>1. k = n + 2 - 2 * MaxRequests
      BY <1>1, <2>4, Limits
    <3>2. s[l] = now
      BY <1>3, <2>4
    <3> QED
      BY <2>2, <3>1, <3>2 DEF n
  <2> QED
    BY <1>1, <2>1, <2>3, <2>4, Limits
<1> QED
  BY <1>2, <1>3, <1>4, <1>5 DEF n

\* An identity that gets no request through in a step of another one, or in one
\* that rejects it.
LEMMA OthersFit ==
    ASSUME IInv, NEW i \in Identity, passed'[i] = passed[i],
           started'[i] = started[i], count'[i] = count[i],
           now' = now, i \in live' <=> i \in Unexpired
    PROVE  Fits(i)'
<1>1. InOrder(i)' /\ PacedFor(i)'
  BY DEF InOrder, PacedFor, IInv, Fits, Window
<1>2. i \in live' => WindowFits(i)'
  BY DEF WindowFits, IInv, Fits, Unexpired, Window
<1>3. i \notin live' => NextFits(i)'
  BY ExpiredFits DEF NextFits, Window
<1> QED
  BY <1>1, <1>2, <1>3 DEF Fits

----------------------------------------------------------------------------
(* Every action preserves the invariant. *)

\* A request opens a window.
LEMMA OpenKeeps ==
    ASSUME IInv, NEW i \in Identity, Open(i)
    PROVE  IInv'
<1> DEFINE n == Len(passed[i])
<1>1. NextFits(i)
  BY ExpiredFits DEF Open
<1>2. passed[i] \in Seq(Nat) /\ n \in Nat
  BY DEF IInv, TypeOK
<1>3. n + 2 - 2 * MaxRequests >= 1 =>
          passed[i][n + 2 - 2 * MaxRequests] + Window <= now
  <2> DEFINE j == n + 2 - 2 * MaxRequests
  <2> SUFFICES ASSUME j >= 1 PROVE passed[i][j] + Window <= now
    OBVIOUS
  <2>1. j \in 1 .. n + 1 - MaxRequests
    <3> HIDE DEF n
    <3> QED
      BY <1>2, Limits
  <2> QED
    BY <1>1, <2>1 DEF NextFits
<1>4. /\ passed' = [passed EXCEPT ![i] = Append(@, now)] /\ now' = now
      /\ started' = [started EXCEPT ![i] = now] /\ count' = [count EXCEPT ![i] = 1]
      /\ live' = Unexpired \cup {i}
  BY DEF Open, Pass
<1>5. /\ passed'[i] \in Seq(Nat)
      /\ Len(passed'[i]) = n + 1
      /\ \A k \in 1 .. n : passed'[i][k] = passed[i][k]
      /\ passed'[i][n + 1] = now
      /\ InOrder(i)'
      /\ PacedFor(i)'
  BY <1>3, <1>4, AppendFits
<1>6. started'[i] = now /\ count'[i] = 1
  BY <1>4 DEF IInv, TypeOK
<1>7. WindowFits(i)'
  <2>1. Len(passed'[i]) - count'[i] + 1 = n + 1
    BY <1>2, <1>5, <1>6
  <2>2. ASSUME NEW j \in 1 .. n + 1 - MaxRequests
        PROVE  passed'[i][j] + Window <= now
    <3>1. j \in 1 .. n
      <4> HIDE DEF n
      <4> QED
        BY <1>2, Limits
    <3> QED
      BY <1>1, <1>5, <3>1 DEF NextFits
  <2> QED
    BY <1>2, <1>5, <1>6, <2>1, <2>2, Limits DEF WindowFits, Window
<1>8. Fits(i)'
  BY <1>4, <1>5, <1>7 DEF Fits
<1>9. \A j \in Identity \ {i} : Fits(j)'
  BY <1>4, OthersFit DEF IInv, TypeOK
<1>10. IsFiniteSet(live') /\ Cardinality(live') <= MaxIdentities
  <2>1. i \notin Unexpired /\ Cardinality(Unexpired) < MaxIdentities
    BY DEF Open, HasRoom
  <2>2. Cardinality(Unexpired \cup {i}) = Cardinality(Unexpired) + 1
    BY <2>1, UnexpiredSmall, FS_AddElement
  <2>3. IsFiniteSet(Unexpired \cup {i})
    BY UnexpiredSmall, FS_AddElement
  <2> QED
    BY <1>4, <2>1, <2>2, <2>3, UnexpiredSmall, Limits
<1>11. TypeOK'
  BY <1>4, <1>5, UnexpiredSmall, SMTT(60) DEF IInv, TypeOK, Open, Pass, Answers
<1> QED
  BY <1>8, <1>9, <1>10, <1>11 DEF IInv

\* A request is counted in an open window.
LEMMA CountInKeeps ==
    ASSUME IInv, NEW i \in Identity, CountIn(i)
    PROVE  IInv'
<1> DEFINE n == Len(passed[i])
           c == count[i]
           first == n - c + 1
<1>1. /\ WindowFits(i) /\ InOrder(i) /\ i \in live /\ c < MaxRequests
      /\ i \in Unexpired
  BY UnexpiredSmall DEF CountIn, IInv, Fits
<1>2. /\ passed[i] \in Seq(Nat) /\ n \in Nat /\ c \in Nat /\ now \in Nat
      /\ started[i] \in Nat
  BY DEF IInv, TypeOK
<1>3. /\ first \in 1 .. n
      /\ passed[i][first] = started[i]
      /\ started[i] <= now
  <2>1. first >= 1 /\ c >= 1 /\ passed[i][first] = started[i]
    BY <1>1 DEF WindowFits
  <2>2. first \in 1 .. n
    <3> HIDE DEF n, c
    <3> QED
      BY <1>2, <2>1
  <2> QED
    BY <1>1, <2>1, <2>2 DEF InOrder
<1>4. n + 2 - 2 * MaxRequests >= 1 =>
          passed[i][n + 2 - 2 * MaxRequests] + Window <= now
  <2> DEFINE j == n + 2 - 2 * MaxRequests
  <2> SUFFICES ASSUME j >= 1 PROVE passed[i][j] + Window <= now
    OBVIOUS
  <2>1. j \in 1 .. first - MaxRequests /\ j \in 1 .. n
    <3> HIDE DEF n, c
    <3> QED
      BY <1>1, <1>2, Limits
  <2>2. passed[i][j] + Window <= started[i] /\ passed[i][j] \in Nat
    BY <1>1, <1>2, <2>1, SMTT(60) DEF WindowFits
  <2>3. started[i] <= now /\ started[i] \in Nat /\ now \in Nat /\ Window \in Nat
    BY <1>2, <1>3, WindowNat
  <2> QED
    BY ONLY <2>2, <2>3
<1>5. /\ passed' = [passed EXCEPT ![i] = Append(@, now)] /\ now' = now
      /\ started' = started /\ count' = [count EXCEPT ![i] = @ + 1]
      /\ live' = Unexpired
  BY DEF CountIn, Pass
<1>6. /\ passed'[i] \in Seq(Nat)
      /\ Len(passed'[i]) = n + 1
      /\ \A k \in 1 .. n : passed'[i][k] = passed[i][k]
      /\ InOrder(i)'
      /\ PacedFor(i)'
  BY <1>4, <1>5, AppendFits
<1>7. WindowFits(i)'
  <2>1. count'[i] = c + 1
    BY <1>5 DEF IInv, TypeOK
  <2>2. Len(passed'[i]) - count'[i] + 1 = first
    BY <1>2, <1>6, <2>1, SMTT(60)
  <2>3. ASSUME NEW j \in 1 .. first - MaxRequests
        PROVE  passed'[i][j] + Window <= started[i]
    <3>1. j \in 1 .. n
      <4> HIDE DEF n, c
      <4> QED
        BY <1>2, <1>3, Limits
    <3> QED
      BY <1>1, <1>6, <3>1 DEF WindowFits
  <2>4. count'[i] \in 1 .. MaxRequests
    <3>1. c \in 1 .. MaxRequests
      BY <1>1 DEF WindowFits
    <3> HIDE DEF c
    <3> QED
      BY <1>1, <2>1, <3>1, Limits
  <2>5. passed'[i][first] = started'[i] /\ first >= 1
    BY <1>3, <1>5, <1>6
  <2>6. started' = started
    BY <1>5
  <2> HIDE DEF first
  <2> QED
    BY <2>2, <2>3, <2>4, <2>5, <2>6 DEF WindowFits, Window
<1>8. Fits(i)'
  BY <1>1, <1>5, <1>6, <1>7 DEF Fits
<1>9. \A j \in Identity \ {i} : Fits(j)'
  BY <1>5, OthersFit DEF IInv, TypeOK
<1>10. IsFiniteSet(live') /\ Cardinality(live') <= MaxIdentities
  BY <1>5, UnexpiredSmall, FS_CardinalityType, Limits DEF IInv
<1>11. TypeOK'
  BY <1>5, <1>6, UnexpiredSmall, SMTT(60) DEF IInv, TypeOK, CountIn, Pass, Answers
<1> QED
  BY <1>8, <1>9, <1>10, <1>11 DEF IInv

\* A refused request changes no window.
LEMMA RejectKeeps ==
    ASSUME IInv, NEW i \in Identity, NoRoom(i) \/ TooMany(i)
    PROVE  IInv'
<1>1. /\ live' = Unexpired /\ UNCHANGED <<now, started, count, passed>>
  BY DEF NoRoom, TooMany, Reject
<1>2. \A j \in Identity : Fits(j)'
  BY <1>1, OthersFit
<1>3. IsFiniteSet(live') /\ Cardinality(live') <= MaxIdentities
  BY <1>1, UnexpiredSmall, FS_CardinalityType, RateLimiterAssumption DEF IInv
<1>4. told' \in [Identity -> Answers]
  <2>1. ASSUME NEW t \in Int PROVE Seconds(t) \in Int
    BY RateLimiterAssumption DEF Seconds
  <2>2. ASSUME NEW s \in Nat, NEW own \in BOOLEAN, Reject(i, s, own)
        PROVE  told' \in [Identity -> Answers]
    BY <2>2 DEF Reject, IInv, TypeOK, Answers
  <2>3. CASE NoRoom(i)
    BY <2>2, <2>3, RateLimiterAssumption DEF NoRoom
  <2>4. CASE TooMany(i)
    <3> DEFINE seconds == Seconds(Window - (now - started[i]))
    <3>1. seconds \in Int
      BY <2>1, WindowNat DEF IInv, TypeOK
    <3> HIDE DEF seconds
    <3>2. Wait(i) \in Nat
      BY <3>1 DEF Wait, seconds
    <3> QED
      BY <2>2, <2>4, <3>2 DEF TooMany
  <2> QED
    BY <2>3, <2>4
<1>5. TypeOK'
  BY <1>1, <1>4, UnexpiredSmall DEF IInv, TypeOK
<1> QED
  BY <1>2, <1>3, <1>5 DEF IInv

\* Time passes, and windows expire by it.
LEMMA TickKeeps ==
    ASSUME IInv, Tick
    PROVE  IInv'
<1>1. now' = now + 1 /\ UNCHANGED <<live, started, count, passed, told>> /\ now \in Nat
  BY DEF Tick, IInv, TypeOK
<1>2. TypeOK'
  BY <1>1 DEF IInv, TypeOK
<1>3. ASSUME NEW i \in Identity
      PROVE  Fits(i)'
  <2>1. passed[i] \in Seq(Nat) /\ Fits(i) /\ Len(passed[i]) \in Nat
    BY DEF IInv, TypeOK
  <2>2. InOrder(i)'
    BY <1>1, <2>1 DEF InOrder, Fits
  <2>3. PacedFor(i)'
    BY <1>1, <2>1 DEF PacedFor, Fits, Window
  <2>4. i \in live' => WindowFits(i)'
    BY <1>1, <2>1 DEF WindowFits, Fits, Window
  <2>5. i \notin live' => NextFits(i)'
    <3> SUFFICES ASSUME i \notin live,
                        NEW j \in 1 .. Len(passed[i]) + 1 - MaxRequests
                 PROVE  passed[i][j] + Window <= now + 1
      BY <1>1 DEF NextFits, Window
    <3>1. passed[i][j] + Window <= now
      BY <2>1 DEF Fits, NextFits
    <3>2. j \in 1 .. Len(passed[i])
      BY <2>1, RateLimiterAssumption
    <3> QED
      BY <1>1, <2>1, <3>1, <3>2, WindowNat, SMTT(60)
  <2> QED
    BY <2>2, <2>3, <2>4, <2>5 DEF Fits
<1> QED
  BY <1>1, <1>2, <1>3 DEF IInv

\* The table is empty initially.
LEMMA InitKeeps == Init => IInv
<1> SUFFICES ASSUME Init PROVE IInv
  OBVIOUS
<1>1. TypeOK
  BY DEF Init, TypeOK, Answers
<1>2. IsFiniteSet(live) /\ Cardinality(live) <= MaxIdentities
  BY FS_EmptySet, RateLimiterAssumption DEF Init
<1>3. ASSUME NEW i \in Identity PROVE Fits(i)
  BY <1>3, RateLimiterAssumption DEF Init, Fits, InOrder, NextFits, PacedFor
<1> QED
  BY <1>1, <1>2, <1>3 DEF IInv

----------------------------------------------------------------------------
\* The invariant holds for any limits and any number of identities.
THEOREM LimiterInductive == Spec => []IInv
<1>1. IInv /\ [Next]_vars => IInv'
  <2> SUFFICES ASSUME IInv, [Next]_vars PROVE IInv'
    OBVIOUS
  <2>1. CASE Tick
    BY <2>1, TickKeeps
  <2>2. ASSUME NEW i \in Identity, Ask(i) PROVE IInv'
    BY <2>2, OpenKeeps, CountInKeeps, RejectKeeps DEF Ask
  <2>3. CASE UNCHANGED vars
    BY <2>3 DEF vars, IInv, TypeOK, Fits, InOrder, WindowFits, NextFits, PacedFor
  <2> QED
    BY <2>1, <2>2, <2>3 DEF Next
<1> QED
  BY <1>1, InitKeeps, PTL DEF Spec

\* No identity gets 2 * MaxRequests requests through in the length of a window.
THEOREM LimiterPaced == Spec => []Paced
<1>1. IInv => Paced
  BY DEF IInv, Fits, PacedFor, Paced
<1> QED
  BY <1>1, LimiterInductive, PTL

\* The table holds at most MaxIdentities windows, none over its limit.
THEOREM LimiterBounded == Spec => []TableBounded
<1>1. IInv => TableBounded
  BY DEF IInv, Fits, WindowFits, TypeOK, TableBounded
<1> QED
  BY <1>1, LimiterInductive, PTL
----------------------------------------------------------------------------
(* What Retry-After promises. *)

\* What an identity was told last still fits the window it has: the answer for
\* its own requests reaches over the end of the window by less than a second,
\* and after the answer for a full table it has no window.
ToldFits(i) ==
    /\ told[i].own =>
          /\ told[i].wait \in Nat \ {0}
          /\ started[i] + Window <= told[i].at + told[i].wait * TicksPerSecond
          /\ told[i].at + (told[i].wait - 1) * TicksPerSecond < started[i] + Window
    /\ ~ told[i].own /\ told[i].wait # None => i \notin live

ToldInv == \A i \in Identity : ToldFits(i)

\* Rounding up.
LEMMA SecondsCover ==
    ASSUME NEW ticks \in Nat \ {0}
    PROVE  /\ Seconds(ticks) \in Nat \ {0}
           /\ ticks <= Seconds(ticks) * TicksPerSecond
           /\ (Seconds(ticks) - 1) * TicksPerSecond < ticks
<1> DEFINE a == ticks + TicksPerSecond - 1
           q == a \div TicksPerSecond
<1>1. TicksPerSecond \in Nat \ {0} /\ a \in Nat
  BY RateLimiterAssumption
<1>2. /\ q \in Nat
      /\ q * TicksPerSecond <= a
      /\ a < q * TicksPerSecond + TicksPerSecond
  <2> HIDE DEF a
  <2> QED
    BY <1>1, SMT
<1>3. Seconds(ticks) = q
  BY DEF Seconds
<1> HIDE DEF q
<1>4. q * TicksPerSecond \in Nat /\ (q - 1) * TicksPerSecond = q * TicksPerSecond - TicksPerSecond
  BY <1>1, <1>2
<1>5. q # 0
  BY <1>1, <1>2
<1> QED
  BY <1>1, <1>2, <1>3, <1>4, <1>5

\* The answer to an identity whose window is full.
LEMMA TooManyTold ==
    ASSUME IInv, NEW i \in Identity, TooMany(i)
    PROVE  /\ told'[i].own
           /\ ToldFits(i)'
<1> DEFINE left == Window - (now - started[i])
<1>1. /\ now \in Nat /\ started[i] \in Nat /\ Window \in Nat
      /\ started[i] + Window > now
  BY WindowNat DEF IInv, TypeOK, TooMany, Unexpired
<1>2. left \in Nat \ {0} /\ now + left = started[i] + Window
  BY <1>1
<1> DEFINE w == Seconds(left)
<1>3. /\ w \in Nat \ {0}
      /\ left <= w * TicksPerSecond
      /\ (w - 1) * TicksPerSecond < left
  BY <1>2, SecondsCover
<1>4. Wait(i) = w
  <2>1. Wait(i) = IF w > 1 THEN w ELSE 1
    BY DEF Wait
  <2> HIDE DEF w
  <2> QED
    BY <1>3, <2>1
<1>5. /\ told' = [told EXCEPT ![i] = [at |-> now, wait |-> w, own |-> TRUE]]
      /\ started' = started
  BY <1>4 DEF TooMany, Reject
<1>6. told'[i] = [at |-> now, wait |-> w, own |-> TRUE]
  BY <1>5 DEF IInv, TypeOK
<1>7. w * TicksPerSecond \in Nat /\ (w - 1) * TicksPerSecond \in Nat
  BY <1>3, RateLimiterAssumption
<1> HIDE DEF w
<1>8. /\ started[i] + Window <= now + w * TicksPerSecond
      /\ now + (w - 1) * TicksPerSecond < started[i] + Window
  <2> HIDE DEF left
  <2> QED
    BY <1>1, <1>2, <1>3, <1>7
<1> QED
  BY <1>3, <1>5, <1>6, <1>8 DEF ToldFits, Window

\* An identity that is not the one that asks.
LEMMA OthersTold ==
    ASSUME IInv, NEW i \in Identity, ToldFits(i), told'[i] = told[i],
           started'[i] = started[i], i \in live' => i \in live
    PROVE  ToldFits(i)'
  BY DEF ToldFits, Window

\* Who is told to wait keeps a window that ends when it was told.
LEMMA ToldStep ==
    ASSUME IInv, ToldInv, [Next]_vars
    PROVE  ToldInv'
<1>1. CASE Tick \/ UNCHANGED vars
  BY <1>1, OthersTold DEF Tick, vars, ToldInv
<1>2. ASSUME NEW i \in Identity, Ask(i)
      PROVE  ToldInv'
  <2>1. \A j \in Identity \ {i} :
            /\ told'[j] = told[j] /\ started'[j] = started[j]
            /\ j \in live' => j \in live
    BY <1>2, UnexpiredSmall
       DEF Ask, Open, NoRoom, CountIn, TooMany, Pass, Reject, IInv, TypeOK
  <2>2. ToldFits(i)'
    <3>1. CASE Open(i) \/ CountIn(i)
      <4>1. told'[i] = [at |-> now, wait |-> None, own |-> FALSE]
        BY <3>1 DEF Open, CountIn, Pass, IInv, TypeOK
      <4> QED
        BY <4>1 DEF ToldFits
    <3>2. CASE NoRoom(i)
      <4>1. /\ told'[i] = [at |-> now, wait |-> WindowSeconds, own |-> FALSE]
            /\ i \notin live'
        BY <3>2 DEF NoRoom, Reject, IInv, TypeOK
      <4> QED
        BY <4>1 DEF ToldFits
    <3> QED
      BY <1>2, <3>1, <3>2, TooManyTold DEF Ask
  <2> QED
    BY <2>1, <2>2, OthersTold DEF ToldInv
<1> QED
  BY <1>1, <1>2 DEF Next

\* Who asks again when its time is up is not turned away for its own requests,
\* and nobody is told to wait past the last second of its window.
THEOREM LimiterWaits == Spec => WaitsAreExact
<1>1. Init => ToldInv
  BY DEF Init, ToldInv, ToldFits
<1>2. IInv /\ ToldInv /\ [Next]_vars => ToldInv'
  BY ToldStep
<1>3. ToldInv => WaitIsNotPadded
  BY DEF ToldInv, ToldFits, WaitIsNotPadded
<1> DEFINE Enough ==
    \A i \in Identity :
        /\ told[i].wait # None
        /\ told'[i] # told[i]
        /\ now >= told[i].at + told[i].wait * TicksPerSecond
        => ~ told'[i].own
<1>4. IInv /\ ToldInv /\ [Next]_vars => [Enough]_vars
  <2> SUFFICES ASSUME IInv, ToldInv, Next, NEW i \in Identity,
                      told[i].wait # None, told'[i] # told[i],
                      now >= told[i].at + told[i].wait * TicksPerSecond,
                      told'[i].own
               PROVE  FALSE
    BY DEF vars
  <2>1. Ask(i)
    BY DEF Next, Tick, Ask, Open, NoRoom, CountIn, TooMany, Pass, Reject, IInv, TypeOK
  <2>2. TooMany(i)
    BY <2>1 DEF Ask, Open, NoRoom, CountIn, Pass, Reject, IInv, TypeOK
  <2>3. i \in live /\ started[i] + Window > now
    BY <2>2 DEF TooMany, Unexpired
  <2>4. ToldFits(i)
    BY DEF ToldInv
  <2>5. told[i].own
    BY <2>3, <2>4 DEF ToldFits, IInv, TypeOK, Answers
  <2>6. started[i] + Window <= told[i].at + told[i].wait * TicksPerSecond
    BY <2>4, <2>5 DEF ToldFits
  <2>7. told[i].at \in Nat /\ told[i].wait \in Nat /\ started[i] \in Nat /\ now \in Nat
    BY <2>4, <2>5 DEF ToldFits, IInv, TypeOK, Answers
  <2>8. told[i].wait * TicksPerSecond \in Nat
    BY <2>7, RateLimiterAssumption
  <2> QED
    BY <2>3, <2>6, <2>7, <2>8, WindowNat
<1> QED
  BY <1>1, <1>2, <1>3, <1>4, LimiterInductive, PTL
     DEF Spec, WaitsAreExact, WaitingSuffices

----------------------------------------------------------------------------
(* The messages of a history. *)

\* A message has a size.
LEMMA MessageHasSize ==
    ASSUME NEW ms \in Seq(Message)
    PROVE  /\ Len(ms) \in Nat
           /\ \A n \in 1 .. Len(ms) : ms[n] \in Message /\ ms[n].chars \in Nat
<1>1. Len(ms) \in Nat /\ \A n \in 1 .. Len(ms) : ms[n] \in Message
  OBVIOUS
<1>2. \A m \in Message : m.chars \in Nat
  BY TrimAssumption DEF Message
<1> QED
  BY <1>1, <1>2

\* The recursion of CharsUpTo has a solution.
LEMMA CharsExist ==
    ASSUME NEW ms \in Seq(Message)
    PROVE  /\ CharsUpTo(ms) \in [0 .. Len(ms) -> Nat]
           /\ CharsUpTo(ms)[0] = 0
           /\ \A n \in 1 .. Len(ms) :
                 CharsUpTo(ms)[n] = CharsUpTo(ms)[n - 1] + ms[n].chars
<1> DEFINE N == Len(ms)
           step == [n \in 1 .. N |-> [v \in Nat |-> v + ms[n].chars]]
           Solves(f) == f = [n \in 0 .. N |-> IF n = 0 THEN 0 ELSE f[n - 1] + ms[n].chars]
           g == CHOOSE f : Solves(f)
<1>1. N \in Nat /\ 0 \in Nat /\ \A n \in 1 .. N : ms[n].chars \in Nat
  BY MessageHasSize
<1>2. /\ step \in [1 .. N -> [Nat -> Nat]]
      /\ \A n \in 1 .. N : \A v \in Nat : step[n][v] = v + ms[n].chars
  <2>1. \A n \in 1 .. N : \A v \in Nat : v + ms[n].chars \in Nat
    BY <1>1
  <2> QED
    BY <2>1
<1>3. CharsUpTo(ms) = g
  BY DEF CharsUpTo
<1> HIDE DEF step, N
<1>4. PICK f : Follows(f, Nat, 0, N, step)
  BY <1>1, <1>2, Recursion
<1>5. Solves(f)
  <2>1. \A n \in 0 .. N : n # 0 => n \in 1 .. N /\ n - 1 \in 0 .. N
    BY <1>1
  <2>2. \A n \in 0 .. N : f[n] = IF n = 0 THEN 0 ELSE f[n - 1] + ms[n].chars
    BY <1>2, <1>4, <2>1 DEF Follows
  <2> QED
    BY <1>4, <2>2 DEF Follows
<1>6. Solves(g)
  BY <1>5
<1> HIDE DEF g
<1>7. g = [n \in 0 .. N |-> g[n]] /\ g[0] = 0
  BY <1>1, <1>6
<1>8. \A n \in 1 .. N : n \in 0 .. N /\ g[n] = g[n - 1] + ms[n].chars
  <2>1. \A n \in 1 .. N : n \in 0 .. N /\ n # 0
    BY <1>1
  <2> QED
    BY <1>6, <2>1
<1>9. Follows(g, Nat, 0, N, step)
  <2>1. \A n \in 1 .. N : g[n - 1] \in Nat => g[n] = step[n][g[n - 1]]
    BY <1>2, <1>8
  <2> QED
    BY <1>1, <1>2, <1>7, <2>1, Unrolled
<1> QED
  BY <1>1, <1>3, <1>8, <1>9 DEF Follows, N

\* The recursion of OfRoleUpTo has a solution.
LEMMA RolesExist ==
    ASSUME NEW ms \in Seq(Message), NEW role
    PROVE  /\ OfRoleUpTo(ms, role) \in [0 .. Len(ms) -> Seq(Message)]
           /\ OfRoleUpTo(ms, role)[0] = <<>>
           /\ \A n \in 1 .. Len(ms) :
                 OfRoleUpTo(ms, role)[n] = AppendIf(OfRoleUpTo(ms, role)[n - 1], ms[n], role)
<1> DEFINE N == Len(ms)
           step == [n \in 1 .. N |-> [v \in Seq(Message) |-> AppendIf(v, ms[n], role)]]
           Solves(f) == f = [n \in 0 .. N |-> IF n = 0 THEN <<>> ELSE AppendIf(f[n - 1], ms[n], role)]
           g == CHOOSE f : Solves(f)
<1>1. N \in Nat /\ <<>> \in Seq(Message) /\ \A n \in 1 .. N : ms[n] \in Message
  BY MessageHasSize
<1>2. /\ step \in [1 .. N -> [Seq(Message) -> Seq(Message)]]
      /\ \A n \in 1 .. N : \A v \in Seq(Message) : step[n][v] = AppendIf(v, ms[n], role)
  <2>1. \A n \in 1 .. N : \A v \in Seq(Message) : AppendIf(v, ms[n], role) \in Seq(Message)
    BY <1>1, AppendProperties DEF AppendIf
  <2> QED
    BY <2>1
<1>3. OfRoleUpTo(ms, role) = g
  BY DEF OfRoleUpTo
<1> HIDE DEF step, N
<1>4. PICK f : Follows(f, Seq(Message), <<>>, N, step)
  BY <1>1, <1>2, Recursion
<1>5. Solves(f)
  <2>1. \A n \in 0 .. N : n # 0 => n \in 1 .. N /\ n - 1 \in 0 .. N
    BY <1>1
  <2>2. \A n \in 0 .. N : f[n] = IF n = 0 THEN <<>> ELSE AppendIf(f[n - 1], ms[n], role)
    BY <1>2, <1>4, <2>1 DEF Follows
  <2> QED
    BY <1>4, <2>2 DEF Follows
<1>6. Solves(g)
  BY <1>5
<1> HIDE DEF g
<1>7. g = [n \in 0 .. N |-> g[n]] /\ g[0] = <<>>
  BY <1>1, <1>6
<1>8. \A n \in 1 .. N : n \in 0 .. N /\ g[n] = AppendIf(g[n - 1], ms[n], role)
  <2>1. \A n \in 1 .. N : n \in 0 .. N /\ n # 0
    BY <1>1
  <2> QED
    BY <1>6, <2>1
<1>9. Follows(g, Seq(Message), <<>>, N, step)
  <2>1. \A n \in 1 .. N : g[n - 1] \in Seq(Message) => g[n] = step[n][g[n - 1]]
    BY <1>2, <1>8
  <2> QED
    BY <1>1, <1>2, <1>7, <2>1, Unrolled
<1> QED
  BY <1>1, <1>3, <1>8, <1>9 DEF Follows, N

\* One message more counts with its size.
LEMMA CharsAppend ==
    ASSUME NEW ms \in Seq(Message), NEW m \in Message
    PROVE  /\ Chars(ms) \in Nat
           /\ Chars(Append(ms, m)) = Chars(ms) + m.chars
<1> DEFINE more == Append(ms, m)
           N == Len(ms)
           g == CharsUpTo(ms)
           h == CharsUpTo(more)
           S == {n \in Nat : n <= N => h[n] = g[n]}
<1>1. /\ N \in Nat /\ more \in Seq(Message) /\ Len(more) = N + 1 /\ more[N + 1] = m
      /\ \A n \in 1 .. N : more[n] = ms[n]
  BY AppendProperties
<1> HIDE DEF more, N
<1>2. /\ g[0] = 0 /\ g[N] \in Nat
      /\ \A n \in 1 .. N : g[n] = g[n - 1] + ms[n].chars
  <2>1. 0 \in 0 .. N /\ N \in 0 .. N
    BY <1>1
  <2>2. /\ g \in [0 .. N -> Nat] /\ g[0] = 0
        /\ \A n \in 1 .. N : g[n] = g[n - 1] + ms[n].chars
    BY CharsExist DEF N
  <2> QED
    BY <2>1, <2>2
<1>3. h[0] = 0 /\ \A n \in 1 .. N + 1 : h[n] = h[n - 1] + more[n].chars
  BY <1>1, CharsExist
<1> HIDE DEF g, h
<1>4. 0 \in S
  BY <1>2, <1>3
<1>5. ASSUME NEW n \in Nat, n \in S PROVE n + 1 \in S
  <2> SUFFICES ASSUME n + 1 <= N PROVE h[n + 1] = g[n + 1]
    OBVIOUS
  <2>1. /\ h[n] = g[n] /\ n + 1 \in 1 .. N /\ n + 1 \in 1 .. N + 1 /\ (n + 1) - 1 = n
    BY <1>1, <1>5, SMTT(60)
  <2> QED
    BY <1>1, <1>2, <1>3, <2>1
<1> HIDE DEF S
<1>6. Nat \subseteq S
  BY <1>4, <1>5, NaturalsByInduction
<1>7. h[N] = g[N]
  BY <1>1, <1>6 DEF S
<1>8. h[N + 1] = g[N] + m.chars
  <2>1. N + 1 \in 1 .. N + 1 /\ (N + 1) - 1 = N
    BY <1>1
  <2> QED
    BY <1>1, <1>3, <1>7, <2>1
<1> QED
  BY <1>1, <1>2, <1>8 DEF Chars, g, h, N, more

\* One message more is among those of its role.
LEMMA RolesAppend ==
    ASSUME NEW ms \in Seq(Message), NEW m \in Message, NEW role
    PROVE  /\ OfRole(ms, role) \in Seq(Message)
           /\ OfRole(Append(ms, m), role) = AppendIf(OfRole(ms, role), m, role)
<1> DEFINE more == Append(ms, m)
           N == Len(ms)
           g == OfRoleUpTo(ms, role)
           h == OfRoleUpTo(more, role)
           S == {n \in Nat : n <= N => h[n] = g[n]}
<1>1. /\ N \in Nat /\ more \in Seq(Message) /\ Len(more) = N + 1 /\ more[N + 1] = m
      /\ \A n \in 1 .. N : more[n] = ms[n]
  BY AppendProperties
<1> HIDE DEF more, N
<1>2. /\ g[0] = <<>> /\ g[N] \in Seq(Message)
      /\ \A n \in 1 .. N : g[n] = AppendIf(g[n - 1], ms[n], role)
  <2>1. 0 \in 0 .. N /\ N \in 0 .. N
    BY <1>1
  <2>2. /\ g \in [0 .. N -> Seq(Message)] /\ g[0] = <<>>
        /\ \A n \in 1 .. N : g[n] = AppendIf(g[n - 1], ms[n], role)
    BY RolesExist DEF N
  <2> QED
    BY <2>1, <2>2
<1>3. h[0] = <<>> /\ \A n \in 1 .. N + 1 : h[n] = AppendIf(h[n - 1], more[n], role)
  BY <1>1, RolesExist
<1> HIDE DEF g, h
<1>4. 0 \in S
  BY <1>2, <1>3
<1>5. ASSUME NEW n \in Nat, n \in S PROVE n + 1 \in S
  <2> SUFFICES ASSUME n + 1 <= N PROVE h[n + 1] = g[n + 1]
    OBVIOUS
  <2>1. /\ h[n] = g[n] /\ n + 1 \in 1 .. N /\ n + 1 \in 1 .. N + 1 /\ (n + 1) - 1 = n
    BY <1>1, <1>5
  <2> QED
    BY <1>1, <1>2, <1>3, <2>1
<1> HIDE DEF S
<1>6. Nat \subseteq S
  BY <1>4, <1>5, NaturalsByInduction
<1>7. h[N] = g[N]
  BY <1>1, <1>6 DEF S
<1>8. h[N + 1] = AppendIf(g[N], m, role)
  <2>1. N + 1 \in 1 .. N + 1 /\ (N + 1) - 1 = N
    BY <1>1
  <2> QED
    BY <1>1, <1>3, <1>7, <2>1
<1> QED
  BY <1>1, <1>2, <1>8 DEF OfRole, g, h, N, more

\* No messages.
LEMMA EmptyHistory ==
    /\ Chars(<<>>) = 0
    /\ \A role : OfRole(<<>>, role) = <<>>
<1>1. <<>> \in Seq(Message) /\ Len(<<>>) = 0
  OBVIOUS
<1>2. CharsUpTo(<<>>)[0] = 0
  BY <1>1, CharsExist
<1>3. \A role : OfRoleUpTo(<<>>, role)[0] = <<>>
  BY <1>1, RolesExist
<1> QED
  BY <1>1, <1>2, <1>3 DEF Chars, OfRole

\* Size and messages of a role are what they should be.
LEMMA HistoryTypes ==
    ASSUME NEW ms \in Seq(Message)
    PROVE  /\ Chars(ms) \in Nat
           /\ \A role : OfRole(ms, role) \in Seq(Message)
<1>1. Len(ms) \in 0 .. Len(ms)
  OBVIOUS
<1>2. CharsUpTo(ms) \in [0 .. Len(ms) -> Nat]
  BY CharsExist
<1>3. \A role : OfRoleUpTo(ms, role) \in [0 .. Len(ms) -> Seq(Message)]
  BY RolesExist
<1> QED
  BY <1>1, <1>2, <1>3 DEF Chars, OfRole

\* Putting a message after what follows another history.
LEMMA AppendToConcat ==
    ASSUME NEW V, NEW s \in Seq(V), NEW t \in Seq(V), NEW x \in V
    PROVE  /\ s \o t \in Seq(V) /\ Append(t, x) \in Seq(V)
           /\ s \o Append(t, x) = Append(s \o t, x)
<1>1. /\ <<x>> \in Seq(V) /\ Append(t, x) = t \o <<x>>
      /\ s \o t \in Seq(V) /\ Append(s \o t, x) = (s \o t) \o <<x>>
  BY AppendIsConcat, ConcatProperties
<1> QED
  BY <1>1, ConcatAssociative, AppendProperties

\* Sizes add up.
LEMMA CharsConcat ==
    ASSUME NEW s \in Seq(Message), NEW t \in Seq(Message)
    PROVE  Chars(s \o t) = Chars(s) + Chars(t)
<1> DEFINE S == {u \in Seq(Message) : Chars(s \o u) = Chars(s) + Chars(u)}
<1>1. <<>> \in S
  <2>1. s \o <<>> = s
    BY ConcatEmptySeq
  <2> QED
    BY <2>1, EmptyHistory, HistoryTypes
<1>2. ASSUME NEW u \in Seq(Message), NEW m \in Message, u \in S
      PROVE  Append(u, m) \in S
  <2>1. /\ Append(u, m) \in Seq(Message) /\ s \o u \in Seq(Message)
        /\ s \o Append(u, m) = Append(s \o u, m)
    BY AppendToConcat, SMTT(60)
  <2>2. Chars(Append(u, m)) = Chars(u) + m.chars /\ Chars(u) \in Nat
    BY CharsAppend
  <2>3. Chars(s \o Append(u, m)) = Chars(s \o u) + m.chars
    BY <2>1, CharsAppend
  <2>4. Chars(s \o u) = Chars(s) + Chars(u) /\ Chars(s) \in Nat
    BY <1>2, HistoryTypes
  <2>5. m.chars \in Nat
    BY TrimAssumption DEF Message
  <2> DEFINE size(v) == Chars(v)
  <2>6. size(s \o Append(u, m)) = size(s) + size(Append(u, m))
    <3> HIDE DEF S
    <3> QED
      BY <2>2, <2>3, <2>4, <2>5
  <2> QED
    BY <2>1, <2>6
<1> HIDE DEF S
<1>3. Seq(Message) \subseteq S
  BY <1>1, <1>2, SequencesByInduction
<1> QED
  BY <1>3 DEF S

\* The messages of a role are those of the one part and those of the other.
LEMMA RolesConcat ==
    ASSUME NEW s \in Seq(Message), NEW t \in Seq(Message), NEW role
    PROVE  OfRole(s \o t, role) = OfRole(s, role) \o OfRole(t, role)
<1> DEFINE S == {u \in Seq(Message) : OfRole(s \o u, role) = OfRole(s, role) \o OfRole(u, role)}
<1>1. <<>> \in S
  <2>1. s \o <<>> = s
    BY ConcatEmptySeq
  <2>2. OfRole(s, role) \in Seq(Message)
    BY HistoryTypes
  <2>3. OfRole(s, role) \o <<>> = OfRole(s, role)
    BY <2>2, ConcatEmptySeq
  <2>4. OfRole(<<>>, role) = <<>> /\ <<>> \in Seq(Message)
    BY EmptyHistory
  <2> QED
    BY <2>1, <2>3, <2>4
<1>2. ASSUME NEW u \in Seq(Message), NEW m \in Message, u \in S
      PROVE  Append(u, m) \in S
  <2>1. /\ Append(u, m) \in Seq(Message) /\ s \o u \in Seq(Message)
        /\ s \o Append(u, m) = Append(s \o u, m)
    BY AppendToConcat
  <2> DEFINE a == OfRole(s, role)
             b == OfRole(u, role)
  <2>2. /\ OfRole(Append(u, m), role) = AppendIf(b, m, role)
        /\ OfRole(s \o Append(u, m), role) = AppendIf(a \o b, m, role)
    <3>1. OfRole(s \o u, role) = a \o b
      BY <1>2
    <3>2. OfRole(Append(s \o u, m), role) = AppendIf(OfRole(s \o u, role), m, role)
      BY <2>1, RolesAppend
    <3>3. OfRole(Append(u, m), role) = AppendIf(b, m, role)
      BY RolesAppend
    <3> QED
      BY <2>1, <3>1, <3>2, <3>3
  <2>3. a \in Seq(Message) /\ b \in Seq(Message)
    BY HistoryTypes
  <2> HIDE DEF a, b
  <2>4. a \o Append(b, m) = Append(a \o b, m)
    BY <2>3, AppendToConcat, SMTT(60)
  <2>5. AppendIf(a \o b, m, role) = a \o AppendIf(b, m, role)
    BY <2>4 DEF AppendIf
  <2> QED
    BY <2>1, <2>2, <2>5 DEF a, b
<1> HIDE DEF S
<1>3. Seq(Message) \subseteq S
  BY <1>1, <1>2, SequencesByInduction
<1> QED
  BY <1>3 DEF S

\* Messages of one role only are all of that role, and none of another.
LEMMA PureRole ==
    ASSUME NEW ms \in Seq(Message), NEW role, \A i \in 1 .. Len(ms) : ms[i].role = role,
           NEW other, other # role
    PROVE  OfRole(ms, role) = ms /\ OfRole(ms, other) = <<>>
<1> DEFINE S == {u \in Seq(Message) : (\A i \in 1 .. Len(u) : u[i].role = role) =>
                                          OfRole(u, role) = u /\ OfRole(u, other) = <<>>}
<1>1. <<>> \in S
  BY EmptyHistory
<1>2. ASSUME NEW u \in Seq(Message), NEW m \in Message, u \in S
      PROVE  Append(u, m) \in S
  <2>1. /\ Append(u, m) \in Seq(Message) /\ Len(Append(u, m)) = Len(u) + 1 /\ Len(u) \in Nat
        /\ \A i \in 1 .. Len(u) : Append(u, m)[i] = u[i]
        /\ Append(u, m)[Len(u) + 1] = m
    BY AppendProperties
  <2> SUFFICES ASSUME \A i \in 1 .. Len(Append(u, m)) : Append(u, m)[i].role = role
               PROVE  /\ OfRole(Append(u, m), role) = Append(u, m)
                      /\ OfRole(Append(u, m), other) = <<>>
    BY <2>1
  <2>2. m.role = role /\ \A i \in 1 .. Len(u) : u[i].role = role
    <3>1. Len(u) + 1 \in 1 .. Len(Append(u, m)) /\ 1 .. Len(u) \subseteq 1 .. Len(Append(u, m))
      BY <2>1
    <3> QED
      BY <2>1, <3>1
  <2>3. OfRole(u, role) = u /\ OfRole(u, other) = <<>>
    BY <1>2, <2>2
  <2>4. /\ OfRole(Append(u, m), role) = AppendIf(u, m, role)
        /\ OfRole(Append(u, m), other) = AppendIf(<<>>, m, other)
    BY <2>3, RolesAppend
  <2> QED
    BY <2>2, <2>4 DEF AppendIf
<1> HIDE DEF S
<1>3. Seq(Message) \subseteq S
  BY <1>1, <1>2, SequencesByInduction
<1> QED
  BY <1>3 DEF S

\* What is found for a role has it.
LEMMA RolesArePure ==
    ASSUME NEW ms \in Seq(Message), NEW role
    PROVE  \A i \in 1 .. Len(OfRole(ms, role)) : OfRole(ms, role)[i].role = role
<1> DEFINE S == {u \in Seq(Message) :
                    \A i \in 1 .. Len(OfRole(u, role)) : OfRole(u, role)[i].role = role}
<1>1. <<>> \in S
  BY EmptyHistory
<1>2. ASSUME NEW u \in Seq(Message), NEW m \in Message, u \in S
      PROVE  Append(u, m) \in S
  <2> DEFINE a == OfRole(u, role)
             b == OfRole(Append(u, m), role)
  <2>1. a \in Seq(Message) /\ b = AppendIf(a, m, role) /\ Append(u, m) \in Seq(Message)
    BY HistoryTypes, RolesAppend, AppendProperties
  <2>2. \A i \in 1 .. Len(a) : a[i].role = role
    BY <1>2
  <2> SUFFICES \A i \in 1 .. Len(b) : b[i].role = role
    BY <2>1
  <2> HIDE DEF a, b
  <2>3. CASE m.role = role
    <3>1. /\ Len(b) = Len(a) + 1 /\ Len(a) \in Nat /\ b[Len(a) + 1] = m
          /\ \A i \in 1 .. Len(a) : b[i] = a[i]
      BY <2>1, <2>3, AppendProperties DEF AppendIf
    <3> SUFFICES ASSUME NEW i \in 1 .. Len(b) PROVE b[i].role = role
      OBVIOUS
    <3>2. i \in 1 .. Len(a) \/ i = Len(a) + 1
      BY <3>1
    <3> QED
      BY <2>2, <2>3, <3>1, <3>2
  <2>4. CASE m.role # role
    BY <2>1, <2>2, <2>4 DEF AppendIf
  <2> QED
    BY <2>3, <2>4
<1> HIDE DEF S
<1>3. Seq(Message) \subseteq S
  BY <1>1, <1>2, SequencesByInduction
<1> QED
  BY <1>3 DEF S

----------------------------------------------------------------------------
(* Cutting by count. *)

\* The last messages are what follows the older ones.
LEMMA LastFollow ==
    ASSUME NEW V, NEW s \in Seq(V), NEW n \in Nat
    PROVE  /\ LastUpTo(s, n) \in Seq(V)
           /\ Len(LastUpTo(s, n)) <= n
           /\ \E older \in Seq(V) : s = older \o LastUpTo(s, n)
<1>1. Len(s) \in Nat /\ \A i \in 1 .. Len(s) : s[i] \in V
  OBVIOUS
<1> DEFINE k == IF Len(s) < n THEN 0 ELSE Len(s) - n
           older == SubSeq(s, 1, k)
           last == SubSeq(s, k + 1, Len(s))
<1>2. k \in Nat /\ k <= Len(s) /\ Len(s) - k <= n
  BY <1>1
<1>3. LastUpTo(s, n) = last
  BY <1>1 DEF LastUpTo
<1> HIDE DEF k
<1>4. older \in Seq(V) /\ last \in Seq(V) /\ Len(last) = Len(s) - k
  BY <1>1, <1>2, SubSeqProperties
<1>5. older \o last = s
  <2>1. 1 \in 1 .. Len(s) + 1 /\ k \in 1 - 1 .. Len(s) /\ Len(s) \in k .. Len(s)
    BY <1>1, <1>2
  <2>2. older \o last = SubSeq(s, 1, Len(s))
    BY <2>1, ConcatAdjacentSubSeq
  <2> QED
    BY <2>2, SubSeqFull
<1> HIDE DEF older, last
<1> QED
  BY <1>2, <1>3, <1>4, <1>5

\* What follows something is the last of the whole.
LEMMA FollowingIsLast ==
    ASSUME NEW V, NEW s \in Seq(V), NEW t \in Seq(V)
    PROVE  LastUpTo(s \o t, Len(t)) = t
<1> DEFINE w == s \o t
           p == Len(s)
           last == SubSeq(w, p + 1, Len(w))
<1>1. /\ w \in Seq(V) /\ p \in Nat /\ Len(t) \in Nat /\ Len(w) = p + Len(t)
      /\ \A i \in 1 .. p + Len(t) : w[i] = IF i <= p THEN s[i] ELSE t[i - p]
      /\ \A i \in 1 .. Len(w) : w[i] \in V
  BY ConcatProperties
<1> HIDE DEF w, p
<1>2. LastUpTo(w, Len(t)) = last
  <2>1. ~ (Len(w) < Len(t)) /\ Len(w) - Len(t) + 1 = p + 1
    BY <1>1
  <2> QED
    BY <2>1 DEF LastUpTo
<1>3. /\ last \in Seq(V) /\ Len(last) = Len(t)
      /\ \A i \in 1 .. Len(t) : last[i] = w[p + i]
  <2>1. \A i \in p + 1 .. Len(w) : w[i] \in V
    BY <1>1
  <2>2. /\ last \in Seq(V) /\ Len(last) = (IF p + 1 <= Len(w) THEN Len(w) - (p + 1) + 1 ELSE 0)
        /\ \A i \in 1 .. Len(w) - (p + 1) + 1 : last[i] = w[(p + 1) + i - 1]
    BY <1>1, <2>1, SubSeqProperties
  <2> QED
    BY <1>1, <2>2
<1>4. \A i \in 1 .. Len(t) : last[i] = t[i]
  <2> SUFFICES ASSUME NEW i \in 1 .. Len(t) PROVE last[i] = t[i]
    OBVIOUS
  <2>1. p + i \in 1 .. p + Len(t) /\ ~ (p + i <= p) /\ (p + i) - p = i
    BY <1>1
  <2> QED
    BY <1>1, <1>3, <2>1
<1> HIDE DEF last
<1>5. last = t
  BY <1>3, <1>4
<1> QED
  BY <1>2, <1>5 DEF w

\* The first messages.
LEMMA FirstOnes ==
    ASSUME NEW V, NEW s \in Seq(V), NEW n \in Nat
    PROVE  /\ FirstUpTo(s, n) \in Seq(V) /\ Len(FirstUpTo(s, n)) <= n
           /\ Len(FirstUpTo(s, n)) <= Len(s)
           /\ \A i \in 1 .. Len(FirstUpTo(s, n)) : FirstUpTo(s, n)[i] = s[i]
<1> DEFINE k == IF Len(s) < n THEN Len(s) ELSE n
<1>1. /\ Len(s) \in Nat /\ k \in Nat /\ k <= n /\ k <= Len(s)
      /\ \A i \in 1 .. Len(s) : s[i] \in V
  OBVIOUS
<1>2. FirstUpTo(s, n) = SubSeq(s, 1, k)
  BY DEF FirstUpTo
<1> HIDE DEF k
<1>3. /\ SubSeq(s, 1, k) \in Seq(V) /\ Len(SubSeq(s, 1, k)) = k
      /\ \A i \in 1 .. k : SubSeq(s, 1, k)[i] = s[i]
  <2>1. /\ SubSeq(s, 1, k) \in Seq(V)
        /\ Len(SubSeq(s, 1, k)) = (IF 1 <= k THEN k - 1 + 1 ELSE 0)
        /\ \A i \in 1 .. k - 1 + 1 : SubSeq(s, 1, k)[i] = s[1 + i - 1]
    BY <1>1, SubSeqProperties
  <2> QED
    BY <1>1, <2>1
<1> QED
  BY <1>1, <1>2, <1>3

\* The cut by count leaves enough room and takes the oldest of the dialogue.
LEMMA CountIsCut ==
    ASSUME NEW ms \in Seq(Message)
    PROVE  /\ CutCount(ms) \in Seq(Message)
           /\ Len(CutCount(ms)) <= MaxMessages
           /\ \E older \in Seq(Message) : Dialogue(ms) = older \o Dialogue(CutCount(ms))
<1>1. CASE Len(ms) <= MaxMessages
  <2>1. CutCount(ms) = ms
    BY <1>1, TrimAssumption DEF CutCount
  <2>2. Dialogue(ms) \in Seq(Message) /\ <<>> \in Seq(Message)
    BY HistoryTypes DEF Dialogue
  <2>3. Dialogue(ms) = <<>> \o Dialogue(ms)
    BY <2>2, ConcatEmptySeq
  <2> QED
    BY <1>1, <2>1, <2>2, <2>3
<1>2. CASE Len(ms) > MaxMessages
  <2> DEFINE sys == Systems(ms)
             dia == Dialogue(ms)
             k == MaxMessages - 2
             a == FirstUpTo(sys, 2)
             b == LastUpTo(dia, k)
  <2>1. k \in Nat /\ 2 \in Nat /\ (IF k > 2 THEN k ELSE 2) = k
    BY TrimAssumption
  <2>2. CutCount(ms) = a \o b
    BY <1>2, <2>1 DEF CutCount
  <2>3. sys \in Seq(Message) /\ dia \in Seq(Message)
    BY HistoryTypes DEF Systems, Dialogue
  <2>4. /\ \A i \in 1 .. Len(sys) : sys[i].role = "system"
        /\ \A i \in 1 .. Len(dia) : dia[i].role = "dialogue"
    BY RolesArePure DEF Systems, Dialogue
  <2> HIDE DEF sys, dia, k
  <2>5. /\ a \in Seq(Message) /\ Len(a) <= 2 /\ Len(a) <= Len(sys)
        /\ \A i \in 1 .. Len(a) : a[i] = sys[i]
    BY <2>1, <2>3, FirstOnes
  <2>6. /\ b \in Seq(Message) /\ Len(b) <= k
        /\ \E older \in Seq(Message) : dia = older \o b
    BY <2>1, <2>3, LastFollow
  <2> HIDE DEF a, b
  <2>7. \A i \in 1 .. Len(a) : a[i].role = "system"
    <3>1. Len(a) \in Nat /\ Len(sys) \in Nat
      BY <2>3, <2>5
    <3>2. \A i \in 1 .. Len(a) : i \in 1 .. Len(sys)
      BY <2>5, <3>1
    <3> QED
      BY <2>4, <2>5, <3>2
  <2>8. \A i \in 1 .. Len(b) : b[i].role = "dialogue"
    <3>1. PICK older \in Seq(Message) : dia = older \o b
      BY <2>6
    <3>2. /\ Len(older) \in Nat /\ Len(b) \in Nat /\ Len(dia) = Len(older) + Len(b)
          /\ \A i \in 1 .. Len(older) + Len(b) :
                dia[i] = IF i <= Len(older) THEN older[i] ELSE b[i - Len(older)]
      BY <2>6, <3>1, ConcatProperties
    <3> SUFFICES ASSUME NEW i \in 1 .. Len(b) PROVE b[i].role = "dialogue"
      OBVIOUS
    <3>3. /\ Len(older) + i \in 1 .. Len(dia) /\ Len(older) + i \in 1 .. Len(older) + Len(b)
          /\ ~ (Len(older) + i <= Len(older)) /\ (Len(older) + i) - Len(older) = i
      BY <3>2
    <3> QED
      BY <2>4, <3>2, <3>3
  <2>9. OfRole(a, "dialogue") = <<>> /\ OfRole(b, "dialogue") = b
    <3>1. "dialogue" # "system"
      OBVIOUS
    <3>2. OfRole(a, "dialogue") = <<>>
      BY <2>5, <2>7, <3>1, PureRole, ZenonT(60)
    <3>3. OfRole(b, "dialogue") = b
      BY <2>6, <2>8, <3>1, PureRole
    <3> QED
      BY <3>2, <3>3
  <2>10. Dialogue(a \o b) = b
    <3>1. OfRole(a \o b, "dialogue") = OfRole(a, "dialogue") \o OfRole(b, "dialogue")
      BY <2>5, <2>6, RolesConcat, ZenonT(60)
    <3> QED
      BY <2>6, <2>9, <3>1, ConcatEmptySeq DEF Dialogue
  <2>11. a \o b \in Seq(Message) /\ Len(a \o b) = Len(a) + Len(b)
    BY <2>5, <2>6, ConcatProperties
  <2>12. Len(a) \in Nat /\ Len(b) \in Nat
    BY <2>5, <2>6
  <2>13. k + 2 = MaxMessages
    BY TrimAssumption DEF k
  <2>14. Len(a \o b) <= MaxMessages
    BY <2>1, <2>5, <2>6, <2>11, <2>12, <2>13
  <2>15. dia = Dialogue(ms)
    BY DEF dia
  <2> QED
    BY <2>2, <2>6, <2>10, <2>11, <2>14, <2>15
<1>3. Len(ms) <= MaxMessages \/ Len(ms) > MaxMessages
  BY TrimAssumption
<1> QED
  BY <1>1, <1>2, <1>3

----------------------------------------------------------------------------
(* Cutting by size. *)

\* The message that is popped is the first that is not a system message.
LEMMA FirstRemovable ==
    ASSUME NEW ms \in Seq(Message)
    PROVE  /\ Removable(ms) = 0 => \A i \in 1 .. Len(ms) : ms[i].role = "system"
           /\ Removable(ms) # 0 =>
                 /\ Removable(ms) \in 1 .. Len(ms)
                 /\ ms[Removable(ms)].role = "dialogue"
                 /\ \A i \in 1 .. Removable(ms) - 1 : ms[i].role = "system"
<1> DEFINE I == {i \in 1 .. Len(ms) : ~ IsSystem(ms[i])}
           least == CHOOSE x \in I : \A y \in I : x =< y
<1>1. Removable(ms) = IF I # {} THEN least ELSE 0
  BY DEF Removable, SelectInSeq, Min
<1>2. Len(ms) \in Nat /\ \A i \in 1 .. Len(ms) : ms[i].role \in {"system", "dialogue"}
  BY MessageHasSize DEF Message
<1>3. CASE I = {}
  BY <1>1, <1>2, <1>3 DEF IsSystem
<1>4. CASE I # {}
  <2>1. I \in SUBSET Nat
    BY <1>2
  <2>2. \E m \in I : \A n \in I : m <= n
    <3> HIDE DEF I
    <3> QED
      BY <1>4, <2>1, LeastOfNumbers
  <2>3. least \in I /\ \A y \in I : least <= y
    <3> HIDE DEF I
    <3> QED
      BY <2>2
  <2> HIDE DEF least
  <2>4. Removable(ms) = least
    BY <1>1, <1>4
  <2>5. \A i \in 1 .. least - 1 : i \in 1 .. Len(ms) /\ ~ (least <= i)
    BY <1>2, <2>3
  <2>6. least \in 1 .. Len(ms) /\ least # 0 /\ ms[least].role = "dialogue"
    BY <1>2, <2>3 DEF IsSystem
  <2>7. \A i \in 1 .. least - 1 : ms[i].role = "system"
    BY <2>3, <2>5 DEF IsSystem
  <2> QED
    BY <2>4, <2>6, <2>7
<1> QED
  BY <1>3, <1>4

\* before and after are what precedes and what follows a place.
Around(s, r, before, after) ==
    /\ Len(before) = r - 1
    /\ \A i \in 1 .. r - 1 : before[i] = s[i]
    /\ s = Append(before, s[r]) \o after
    /\ RemoveAt(s, r) = before \o after

\* A sequence is what precedes a place, the place and what follows it.
LEMMA AroundAPlace ==
    ASSUME NEW V, NEW s \in Seq(V), NEW r \in 1 .. Len(s)
    PROVE  \E before, after \in Seq(V) : Around(s, r, before, after)
<1> DEFINE before == SubSeq(s, 1, r - 1)
           after == SubSeq(s, r + 1, Len(s))
<1>1. /\ Len(s) \in Nat /\ r \in Nat /\ r - 1 \in Nat
      /\ \A i \in 1 .. Len(s) : s[i] \in V
  OBVIOUS
<1>2. /\ before \in Seq(V) /\ Len(before) = r - 1
      /\ \A i \in 1 .. r - 1 : before[i] = s[i]
  <2>1. /\ before \in Seq(V) /\ Len(before) = (IF 1 <= r - 1 THEN (r - 1) - 1 + 1 ELSE 0)
        /\ \A i \in 1 .. (r - 1) - 1 + 1 : before[i] = s[1 + i - 1]
    BY <1>1, SubSeqProperties
  <2> QED
    BY <1>1, <2>1
<1>3. after \in Seq(V)
  BY <1>1, SubSeqProperties
<1>4. Append(before, s[r]) = SubSeq(s, 1, r)
  <2>1. 1 \in 1 .. Len(s) /\ r \in 1 .. Len(s)
    BY <1>1
  <2>2. SubSeq(s, 1, r) = SubSeq(s, 1, r - 1) \o <<s[r]>>
    BY <2>1, SubSeqRecursiveSecond
  <2>3. s[r] \in V
    BY <1>1
  <2>4. Append(before, s[r]) = before \o <<s[r]>>
    <3> HIDE DEF before
    <3> QED
      BY <1>2, <2>3, AppendIsConcat
  <2> QED
    BY <2>2, <2>4
<1>5. SubSeq(s, 1, r) \o after = s
  <2>1. 1 \in 1 .. Len(s) + 1 /\ r \in 1 - 1 .. Len(s) /\ Len(s) \in r .. Len(s)
    BY <1>1
  <2>2. SubSeq(s, 1, r) \o SubSeq(s, r + 1, Len(s)) = SubSeq(s, 1, Len(s))
    BY <2>1, ConcatAdjacentSubSeq
  <2> QED
    BY <2>2, SubSeqFull
<1>6. RemoveAt(s, r) = before \o after
  BY DEF RemoveAt
<1> HIDE DEF before, after
<1>7. Around(s, r, before, after)
  BY <1>2, <1>4, <1>5, <1>6 DEF Around
<1> QED
  BY <1>2, <1>3, <1>7

\* Popping a message of the dialogue takes the first of it, and its size.
LEMMA PoppedFromDialogue ==
    ASSUME NEW ms \in Seq(Message), Removable(ms) # 0
    PROVE  /\ Popped(ms) \in Seq(Message)
           /\ Len(ms) = Len(Popped(ms)) + 1
           /\ Systems(Popped(ms)) = Systems(ms)
           /\ \E m \in Message :
                 /\ Dialogue(ms) = <<m>> \o Dialogue(Popped(ms))
                 /\ Chars(ms) = Chars(Popped(ms)) + m.chars
<1> DEFINE r == Removable(ms)
           m == ms[r]
<1>1. /\ r \in 1 .. Len(ms) /\ m.role = "dialogue"
      /\ \A i \in 1 .. r - 1 : ms[i].role = "system"
  BY FirstRemovable
<1>2. m \in Message /\ m.chars \in Nat
  BY <1>1, MessageHasSize
<1>3. Popped(ms) = RemoveAt(ms, r)
  BY DEF Popped
<1> HIDE DEF r
<1>3a. PICK before, after \in Seq(Message) : Around(ms, r, before, after)
  BY <1>1, AroundAPlace
<1>4. /\ before \in Seq(Message) /\ after \in Seq(Message)
      /\ Len(before) = r - 1
      /\ \A i \in 1 .. r - 1 : before[i] = ms[i]
      /\ ms = Append(before, m) \o after
      /\ RemoveAt(ms, r) = before \o after
  BY <1>3a DEF Around
<1> HIDE DEF m
<1> DEFINE upto == Append(before, m)
<1>5. /\ upto \in Seq(Message) /\ Len(upto) = Len(before) + 1
      /\ before \o after \in Seq(Message) /\ Len(before \o after) = Len(before) + Len(after)
      /\ Len(upto \o after) = Len(upto) + Len(after)
  BY <1>2, <1>4, AppendProperties, ConcatProperties
<1>6. /\ OfRole(before, "dialogue") = <<>>
  <2>1. \A i \in 1 .. Len(before) : before[i].role = "system"
    BY <1>1, <1>4
  <2>2. "dialogue" # "system"
    OBVIOUS
  <2>3. before \in Seq(Message)
    BY <1>4
  <2> QED
    BY <2>1, <2>2, <2>3, PureRole, ZenonT(60)
<1>7. Chars(upto) = Chars(before) + m.chars /\ Chars(before) \in Nat
  BY <1>2, <1>4, CharsAppend
<1>8. /\ OfRole(upto, "dialogue") = <<m>>
      /\ OfRole(upto, "system") = OfRole(before, "system")
  <2>1. /\ OfRole(upto, "dialogue") = AppendIf(<<>>, m, "dialogue")
        /\ OfRole(upto, "system") = AppendIf(OfRole(before, "system"), m, "system")
    BY <1>2, <1>4, <1>6, RolesAppend
  <2>2. "dialogue" # "system" /\ m.role = "dialogue"
    BY <1>1 DEF m
  <2> QED
    BY <2>1, <2>2 DEF AppendIf
<1> HIDE DEF upto
<1>9. /\ Chars(upto \o after) = Chars(upto) + Chars(after) /\ Chars(after) \in Nat
      /\ Chars(before \o after) = Chars(before) + Chars(after)
  <2>1. after \in Seq(Message) /\ before \in Seq(Message) /\ upto \in Seq(Message)
    BY <1>4, <1>5
  <2>2. Chars(after) \in Nat
    BY <2>1, HistoryTypes
  <2>3. Chars(upto \o after) = Chars(upto) + Chars(after)
    BY <2>1, CharsConcat
  <2>4. Chars(before \o after) = Chars(before) + Chars(after)
    BY <2>1, CharsConcat
  <2> QED
    BY <2>2, <2>3, <2>4
<1>10. ASSUME NEW role
       PROVE  /\ OfRole(upto \o after, role) = OfRole(upto, role) \o OfRole(after, role)
              /\ OfRole(before \o after, role) = OfRole(before, role) \o OfRole(after, role)
  <2>1. after \in Seq(Message) /\ before \in Seq(Message) /\ upto \in Seq(Message)
    BY <1>4, <1>5
  <2>2. OfRole(upto \o after, role) = OfRole(upto, role) \o OfRole(after, role)
    BY <2>1, RolesConcat, SMTT(60)
  <2>3. OfRole(before \o after, role) = OfRole(before, role) \o OfRole(after, role)
    BY <2>1, RolesConcat, SMTT(60)
  <2> QED
    BY <2>2, <2>3
<1>11. OfRole(before \o after, "dialogue") = OfRole(after, "dialogue")
  <2>1. OfRole(after, "dialogue") \in Seq(Message)
    BY <1>4, HistoryTypes
  <2> QED
    BY <1>6, <1>10, <2>1, ConcatEmptySeq
<1>12. ms = upto \o after /\ Popped(ms) = before \o after
  BY <1>3, <1>4 DEF upto
<1>13. Chars(upto \o after) = Chars(before \o after) + m.chars
  BY <1>2, <1>7, <1>9
<1>14. Len(before) \in Nat /\ Len(after) \in Nat
  BY <1>4
<1>15. Len(upto \o after) = Len(before \o after) + 1
  BY <1>5, <1>14
<1>16. OfRole(upto \o after, "dialogue") = <<m>> \o OfRole(before \o after, "dialogue")
  BY <1>8, <1>10, <1>11
<1>17. OfRole(before \o after, "system") = OfRole(upto \o after, "system")
  BY <1>8, <1>10
<1> QED
  BY <1>2, <1>5, <1>12, <1>13, <1>15, <1>16, <1>17 DEF Systems, Dialogue

\* Without a dialogue, a system message is popped.
LEMMA PoppedFromSystems ==
    ASSUME NEW ms \in Seq(Message), ms # <<>>, Removable(ms) = 0
    PROVE  /\ Popped(ms) \in Seq(Message)
           /\ Len(ms) = Len(Popped(ms)) + 1
           /\ Dialogue(ms) = <<>> /\ Dialogue(Popped(ms)) = <<>>
<1>1. Len(ms) \in Nat /\ 1 \in 1 .. Len(ms)
  OBVIOUS
<1>2. \A i \in 1 .. Len(ms) : ms[i].role = "system"
  BY FirstRemovable
<1>3. Popped(ms) = RemoveAt(ms, 1)
  BY DEF Popped
<1>3a. PICK before, after \in Seq(Message) : Around(ms, 1, before, after)
  BY <1>1, AroundAPlace
<1>4. /\ before \in Seq(Message) /\ after \in Seq(Message)
      /\ Len(before) = 1 - 1
      /\ ms = Append(before, ms[1]) \o after
      /\ RemoveAt(ms, 1) = before \o after
  BY <1>3a DEF Around
<1> DEFINE first == Append(before, ms[1])
<1>5. first \in Seq(Message) /\ Len(first) = 1
  <2>1. ms[1] \in Message
    BY <1>1
  <2> QED
    BY <1>4, <2>1, AppendProperties
<1>6. ms = first \o after
  BY <1>4
<1> HIDE DEF first
<1>7. /\ Len(ms) = 1 + Len(after) /\ Len(after) \in Nat
      /\ \A i \in 1 .. 1 + Len(after) :
            ms[i] = IF i <= 1 THEN first[i] ELSE after[i - 1]
  <2>1. /\ Len(first \o after) = Len(first) + Len(after)
        /\ \A i \in 1 .. Len(first) + Len(after) : (first \o after)[i] =
               IF i <= Len(first) THEN first[i] ELSE after[i - Len(first)]
    BY <1>4, <1>5, ConcatProperties
  <2> HIDE DEF first
  <2> QED
    BY <1>4, <1>5, <1>6, <2>1
<1>8. \A i \in 1 .. Len(after) : after[i].role = "system"
  <2> SUFFICES ASSUME NEW i \in 1 .. Len(after) PROVE after[i].role = "system"
    OBVIOUS
  <2>1. i + 1 \in 1 .. 1 + Len(after) /\ ~ (i + 1 <= 1) /\ (i + 1) - 1 = i
    BY <1>7
  <2>2. ms[i + 1] = after[i]
    BY <1>7, <2>1
  <2> QED
    BY <1>2, <1>7, <2>1, <2>2
<1>9. Popped(ms) = after
  <2>1. before = <<>>
    BY <1>4
  <2>2. <<>> \o after = after
    BY <1>4, ConcatEmptySeq
  <2> QED
    BY <1>3, <1>4, <2>1, <2>2
<1>10. "dialogue" # "system"
  OBVIOUS
<1>11. OfRole(ms, "dialogue") = <<>> /\ OfRole(after, "dialogue") = <<>>
  <2>1. OfRole(ms, "dialogue") = <<>>
    BY <1>2, <1>10, PureRole, ZenonT(60)
  <2>2. after \in Seq(Message)
    BY <1>4
  <2>3. OfRole(after, "dialogue") = <<>>
    BY <1>8, <1>10, <2>2, PureRole, ZenonT(60)
  <2> QED
    BY <2>1, <2>3
<1> QED
  BY <1>4, <1>7, <1>9, <1>11 DEF Dialogue

\* How the loop stands after n rounds: it has dropped the beginning of the dialogue,
\* system messages only when no dialogue is left, and no message that had a place.
CutSoFar(ms, cut, n) ==
    /\ cut \in Seq(Message)
    /\ Len(cut) <= Len(ms)
    /\ TooLarge(cut) => Len(cut) + n = Len(ms)
    /\ Dialogue(cut) # <<>> => Systems(cut) = Systems(ms)
    /\ \E gone \in Seq(Message) :
          /\ Dialogue(ms) = gone \o Dialogue(cut)
          /\ gone # <<>> /\ Dialogue(cut) # <<>> =>
                Chars(cut) + gone[Len(gone)].chars > MaxChars

\* A round goes on from there.
LEMMA RoundCuts ==
    ASSUME NEW ms \in Seq(Message), NEW cut, NEW n \in Nat, CutSoFar(ms, cut, n)
    PROVE  CutSoFar(ms, Round(cut), n + 1)
<1>1. /\ cut \in Seq(Message) /\ Len(cut) <= Len(ms) /\ Len(cut) \in Nat /\ Len(ms) \in Nat
      /\ TooLarge(cut) => Len(cut) + n = Len(ms)
      /\ Dialogue(cut) # <<>> => Systems(cut) = Systems(ms)
  BY DEF CutSoFar
<1>2. PICK gone \in Seq(Message) :
          /\ Dialogue(ms) = gone \o Dialogue(cut)
          /\ gone # <<>> /\ Dialogue(cut) # <<>> =>
                Chars(cut) + gone[Len(gone)].chars > MaxChars
  BY DEF CutSoFar
<1>3. CASE ~ TooLarge(cut)
  <2>1. Round(cut) = cut
    BY <1>3 DEF Round
  <2> QED
    BY <1>1, <1>2, <1>3, <2>1 DEF CutSoFar
<1>4. CASE TooLarge(cut)
  <2> DEFINE rest == Popped(cut)
  <2>1. Round(cut) = rest
    BY <1>4 DEF Round
  <2>2. Len(cut) > 1 /\ Chars(cut) > MaxChars /\ cut # <<>>
    BY <1>1, <1>4 DEF TooLarge
  <2>3. CASE Removable(cut) = 0
    <3>1. /\ rest \in Seq(Message) /\ Len(cut) = Len(rest) + 1
          /\ Dialogue(cut) = <<>> /\ Dialogue(rest) = <<>>
      BY <1>1, <2>2, <2>3, PoppedFromSystems
    <3> HIDE DEF rest
    <3>2. Len(rest) \in Nat /\ Len(rest) + (n + 1) = Len(ms) /\ Len(rest) <= Len(ms)
      BY <1>1, <1>4, <3>1
    <3>3. Dialogue(ms) = gone \o Dialogue(rest)
      BY <1>2, <3>1
    <3> QED
      BY <2>1, <3>1, <3>2, <3>3 DEF CutSoFar
  <2>4. CASE Removable(cut) # 0
    <3>1. /\ rest \in Seq(Message) /\ Len(cut) = Len(rest) + 1 /\ Systems(rest) = Systems(cut)
          /\ \E m \in Message :
                 /\ Dialogue(cut) = <<m>> \o Dialogue(rest)
                 /\ Chars(cut) = Chars(rest) + m.chars
      BY <1>1, <2>4, PoppedFromDialogue
    <3>2. PICK m \in Message :
                 /\ Dialogue(cut) = <<m>> \o Dialogue(rest)
                 /\ Chars(cut) = Chars(rest) + m.chars
      BY <3>1
    <3> HIDE DEF rest
    <3> DEFINE more == Append(gone, m)
               left == Dialogue(rest)
    <3>3. Len(rest) \in Nat /\ Len(rest) + (n + 1) = Len(ms) /\ Len(rest) <= Len(ms)
      BY <1>1, <1>4, <3>1
    <3>4. left \in Seq(Message)
      BY <3>1, HistoryTypes DEF Dialogue
    <3> HIDE DEF left
    <3>5. /\ more \in Seq(Message) /\ more[Len(more)] = m /\ <<m>> \in Seq(Message)
          /\ more = gone \o <<m>>
      BY AppendProperties, AppendIsConcat
    <3>6. gone \o (<<m>> \o left) = (gone \o <<m>>) \o left
      BY <3>4, <3>5, ConcatAssociative, SMTT(60)
    <3> HIDE DEF more
    <3>7. Dialogue(ms) = more \o left
      BY <1>2, <3>2, <3>5, <3>6 DEF left
    <3>8. <<m>> \o left # <<>>
      <4>1. Len(<<m>> \o left) = 1 + Len(left) /\ Len(left) \in Nat
        BY <3>4, <3>5, ConcatProperties
      <4> QED
        BY <4>1
    <3>9. Systems(rest) = Systems(ms)
      BY <1>1, <3>1, <3>2, <3>8 DEF left
    <3>10. Chars(rest) + more[Len(more)].chars > MaxChars
      BY <2>2, <3>2, <3>5
    <3> QED
      BY <2>1, <3>1, <3>3, <3>5, <3>7, <3>9, <3>10 DEF CutSoFar, left
  <2> QED
    BY <2>3, <2>4
<1> QED
  BY <1>3, <1>4

\* A round takes a message or leaves the history as it is.
LEMMA RoundTypes ==
    ASSUME NEW ms \in Seq(Message)
    PROVE  Round(ms) \in Seq(Message)
<1>1. CASE TooLarge(ms)
  <2>1. ms # <<>>
    BY <1>1 DEF TooLarge
  <2>2. Popped(ms) \in Seq(Message)
    BY <2>1, PoppedFromDialogue, PoppedFromSystems
  <2> QED
    BY <1>1, <2>2 DEF Round
<1>2. CASE ~ TooLarge(ms)
  BY <1>2 DEF Round
<1> QED
  BY <1>1, <1>2

\* The recursion of Rounds has a solution.
LEMMA RoundsExist ==
    ASSUME NEW ms \in Seq(Message)
    PROVE  /\ Rounds(ms) \in [0 .. Len(ms) -> Seq(Message)]
           /\ Rounds(ms)[0] = ms
           /\ \A n \in 1 .. Len(ms) :
                 Rounds(ms)[n] = Round(Rounds(ms)[n - 1])
<1> DEFINE N == Len(ms)
           step == [n \in 1 .. N |-> [v \in Seq(Message) |-> Round(v)]]
           Solves(f) == f = [n \in 0 .. N |-> IF n = 0 THEN ms ELSE Round(f[n - 1])]
           g == CHOOSE f : Solves(f)
<1>1. N \in Nat /\ ms \in Seq(Message)
  OBVIOUS
<1>2. /\ step \in [1 .. N -> [Seq(Message) -> Seq(Message)]]
      /\ \A n \in 1 .. N : \A v \in Seq(Message) : step[n][v] = Round(v)
  <2>1. \A n \in 1 .. N : \A v \in Seq(Message) : Round(v) \in Seq(Message)
    BY RoundTypes
  <2> QED
    BY <2>1
<1>3. Rounds(ms) = g
  BY DEF Rounds
<1> HIDE DEF step, N
<1>4. PICK f : Follows(f, Seq(Message), ms, N, step)
  BY <1>1, <1>2, Recursion
<1>5. Solves(f)
  <2>1. \A n \in 0 .. N : n # 0 => n \in 1 .. N /\ n - 1 \in 0 .. N
    BY <1>1
  <2>2. \A n \in 0 .. N : f[n] = IF n = 0 THEN ms ELSE Round(f[n - 1])
    <3>1. /\ \A n \in 0 .. N : f[n] \in Seq(Message)
          /\ f[0] = ms /\ \A n \in 1 .. N : f[n] = step[n][f[n - 1]]
      BY <1>4 DEF Follows
    <3>2. \A n \in 0 .. N : n # 0 => f[n] = Round(f[n - 1])
      BY <1>2, <2>1, <3>1
    <3> QED
      BY <3>1, <3>2
  <2> QED
    BY <1>4, <2>2 DEF Follows
<1>6. Solves(g)
  BY <1>5
<1> HIDE DEF g
<1>7. g = [n \in 0 .. N |-> g[n]] /\ g[0] = ms
  BY <1>1, <1>6
<1>8. \A n \in 1 .. N : n \in 0 .. N /\ g[n] = Round(g[n - 1])
  <2>1. \A n \in 1 .. N : n \in 0 .. N /\ n # 0
    BY <1>1
  <2> QED
    BY <1>6, <2>1
<1>9. Follows(g, Seq(Message), ms, N, step)
  <2>1. \A n \in 1 .. N : g[n - 1] \in Seq(Message) => g[n] = step[n][g[n - 1]]
    BY <1>2, <1>8
  <2> QED
    BY <1>1, <1>2, <1>7, <2>1, Unrolled
<1> QED
  BY <1>1, <1>3, <1>8, <1>9 DEF Follows, N


\* The cut by size ends when every message has had its round.
LEMMA SizeIsCut ==
    ASSUME NEW ms \in Seq(Message)
    PROVE  CutSoFar(ms, CutSize(ms), Len(ms))
<1> DEFINE N == Len(ms)
           g == Rounds(ms)
           S == {n \in Nat : n <= N => CutSoFar(ms, g[n], n)}
<1>1. N \in Nat /\ g[0] = ms /\ \A n \in 1 .. N : g[n] = Round(g[n - 1])
  BY RoundsExist
<1> HIDE DEF g, N
<1>2. CutSoFar(ms, ms, 0)
  <2>1. Dialogue(ms) \in Seq(Message) /\ <<>> \in Seq(Message)
    BY HistoryTypes DEF Dialogue
  <2>2. Dialogue(ms) = <<>> \o Dialogue(ms)
    BY <2>1, ConcatEmptySeq
  <2>3. Len(ms) \in Nat
    OBVIOUS
  <2>4. Len(ms) <= Len(ms) /\ Len(ms) + 0 = Len(ms)
    BY <2>3
  <2>5. \E gone \in Seq(Message) :
          /\ Dialogue(ms) = gone \o Dialogue(ms)
          /\ gone # <<>> /\ Dialogue(ms) # <<>> =>
                Chars(ms) + gone[Len(gone)].chars > MaxChars
    <3> WITNESS <<>> \in Seq(Message)
    <3> QED
      BY <2>2
  <2> QED
    BY <2>4, <2>5 DEF CutSoFar
<1>3. 0 \in S
  BY <1>1, <1>2
<1>4. ASSUME NEW n \in Nat, n \in S PROVE n + 1 \in S
  <2> SUFFICES ASSUME n + 1 <= N PROVE CutSoFar(ms, g[n + 1], n + 1)
    OBVIOUS
  <2>1. CutSoFar(ms, g[n], n)
    BY <1>1, <1>4
  <2>2. n + 1 \in 1 .. N /\ (n + 1) - 1 = n
    BY <1>1
  <2>3. g[n + 1] = Round(g[n])
    BY <1>1, <2>2
  <2> QED
    BY <2>1, <2>3, RoundCuts
<1> HIDE DEF S
<1>5. Nat \subseteq S
  BY <1>3, <1>4, NaturalsByInduction
<1> QED
  BY <1>1, <1>5 DEF S, CutSize, g, N

----------------------------------------------------------------------------
(* The history of a conversation. *)

\* What is kept is what the cuts leave of what was given.
HistoryInv == TrimTypeOK /\ kept = Trim(given)

\* What the cuts leave is a history.
LEMMA TrimTypes ==
    ASSUME NEW ms \in Seq(Message)
    PROVE  Trim(ms) \in Seq(Message)
BY CountIsCut, SizeIsCut DEF Trim, CutSoFar

\* A conversation starts without a history.
LEMMA HistoryStarts == TrimInit => HistoryInv
<1> SUFFICES ASSUME TrimInit PROVE HistoryInv
  OBVIOUS
<1>1. given = <<>> /\ kept = <<>> /\ <<>> \in Seq(Message) /\ Len(<<>>) = 0
  BY DEF TrimInit
<1>2. CutCount(<<>>) = <<>>
  BY <1>1, TrimAssumption DEF CutCount
<1>3. CutSize(<<>>) = <<>>
  <2>1. Rounds(<<>>)[0] = <<>>
    BY <1>1, RoundsExist
  <2> QED
    BY <1>1, <2>1 DEF CutSize
<1> QED
  BY <1>1, <1>2, <1>3 DEF HistoryInv, TrimTypeOK, Trim

\* A commit stores what the cuts leave.
LEMMA CommitKeeps == HistoryInv /\ [TrimNext]_trimVars => HistoryInv'
<1> SUFFICES ASSUME HistoryInv, [TrimNext]_trimVars PROVE HistoryInv'
  OBVIOUS
<1>1. CASE TrimNext
  <2>1. PICK n \in 1 .. MaxTurn : \E added \in [1 .. n -> Message] :
            /\ given' = kept \o added
            /\ kept' = Trim(kept \o added)
    BY <1>1 DEF TrimNext, Commit
  <2>2. PICK added \in [1 .. n -> Message] :
            /\ given' = kept \o added
            /\ kept' = Trim(kept \o added)
    BY <2>1
  <2>3. added \in Seq(Message)
    OBVIOUS
  <2>4. given' \in Seq(Message)
    BY <2>2, <2>3, ConcatProperties DEF HistoryInv, TrimTypeOK
  <2> QED
    BY <2>2, <2>4, TrimTypes DEF HistoryInv, TrimTypeOK
<1>2. CASE UNCHANGED trimVars
  BY <1>2 DEF trimVars, HistoryInv, TrimTypeOK
<1> QED
  BY <1>1, <1>2

\* What the cuts leave is what a fair cut leaves.
LEMMA CutsAreFair == HistoryInv => HistoryIsCutFairly
<1> SUFFICES ASSUME HistoryInv PROVE HistoryIsCutFairly
  OBVIOUS
<1> DEFINE cut == CutCount(given)
           all == Dialogue(given)
           mid == Dialogue(cut)
           end == Dialogue(kept)
<1>1. given \in Seq(Message) /\ kept \in Seq(Message) /\ kept = CutSize(cut)
  BY DEF HistoryInv, TrimTypeOK, Trim
<1>2. /\ cut \in Seq(Message) /\ Len(cut) <= MaxMessages
      /\ \E older \in Seq(Message) : all = older \o mid
  BY <1>1, CountIsCut
<1> HIDE DEF cut
<1>3. CutSoFar(cut, kept, Len(cut))
  BY <1>1, <1>2, SizeIsCut
<1>4. /\ Len(kept) <= Len(cut) /\ (TooLarge(kept) => Len(kept) + Len(cut) = Len(cut))
      /\ end # <<>> => Systems(kept) = Systems(cut)
      /\ \E gone \in Seq(Message) :
          /\ mid = gone \o end
          /\ gone # <<>> /\ end # <<>> =>
                Chars(kept) + gone[Len(gone)].chars > MaxChars
  BY <1>3 DEF CutSoFar
<1>5. PICK older \in Seq(Message) : all = older \o mid
  BY <1>2
<1>6. PICK gone \in Seq(Message) :
          /\ mid = gone \o end
          /\ gone # <<>> /\ end # <<>> =>
                Chars(kept) + gone[Len(gone)].chars > MaxChars
  BY <1>4
<1>7. /\ end \in Seq(Message) /\ Len(kept) \in Nat /\ Len(cut) \in Nat /\ Len(gone) \in Nat
      /\ Chars(kept) \in Nat /\ MaxChars \in Nat
  BY <1>1, <1>2, HistoryTypes, TrimAssumption, SMTT(60) DEF Dialogue
<1>8. KeptFits
  <2>1. ~ TooLarge(kept)
    BY <1>4, <1>7 DEF TooLarge
  <2>2. Len(kept) <= 1 \/ Chars(kept) <= MaxChars
    BY <1>7, <2>1 DEF TooLarge
  <2>3. Len(kept) = 0 => Chars(kept) = 0
    <3>1. Len(kept) = 0 => kept = <<>>
      BY <1>1
    <3> QED
      BY <3>1, EmptyHistory
  <2>4. Len(kept) <= MaxMessages
    BY <1>2, <1>4, <1>7, TrimAssumption
  <2>5. Chars(kept) <= MaxChars \/ Len(kept) = 1
    <3>1. CASE Len(kept) = 0
      <4>1. Chars(kept) = 0
        BY <2>3, <3>1
      <4>2. 0 <= MaxChars
        BY TrimAssumption
      <4> QED
        BY <4>1, <4>2
    <3>2. CASE Len(kept) # 0
      <4>1. Len(kept) \in Nat
        BY <1>7
      <4>2. \A n \in Nat : n # 0 /\ n <= 1 => n = 1
        OBVIOUS
      <4>3. Len(kept) <= 1 => Len(kept) = 1
        BY <3>2, <4>1, <4>2, Zenon
      <4> QED
        BY <2>2, <4>3
    <3> QED
      BY <3>1, <3>2
  <2> QED
    BY <2>4, <2>5 DEF KeptFits
<1>9. NewestDialogueSurvives
  <2> HIDE DEF all, mid, end
  <2>1. older \o (gone \o end) = (older \o gone) \o end
    BY <1>7, ConcatAssociative, SMTT(60)
  <2>2. older \o gone \in Seq(Message)
    BY ConcatProperties
  <2>3. LastUpTo((older \o gone) \o end, Len(end)) = end
    BY <1>7, <2>2, FollowingIsLast
  <2>4. all = (older \o gone) \o end
    BY <1>5, <1>6, <2>1
  <2>5. LastUpTo(all, Len(end)) = end
    BY <2>3, <2>4
  <2> QED
    BY <2>5 DEF NewestDialogueSurvives, all, end
<1>10. SystemPromptsOutliveDialogue
  BY <1>4 DEF SystemPromptsOutliveDialogue, cut
<1>11. NothingDroppedNeedlessly
  <2>1. Len(given) <= MaxMessages => cut = given
    <3>1. Len(given) \in Nat
      BY <1>1
    <3> QED
      BY <3>1, TrimAssumption DEF cut, CutCount
  <2> DEFINE dropped == Len(mid) - Len(end)
  <2>2. ASSUME dropped > 0, end # <<>>
        PROVE  Chars(kept) + mid[dropped].chars > MaxChars
    <3> HIDE DEF mid, end
    <3>1. /\ Len(mid) = Len(gone) + Len(end) /\ Len(end) \in Nat
          /\ \A i \in 1 .. Len(gone) + Len(end) :
                mid[i] = IF i <= Len(gone) THEN gone[i] ELSE end[i - Len(gone)]
      BY <1>6, <1>7, ConcatProperties
    <3>2. dropped = Len(gone) /\ Len(gone) > 0
      BY <1>7, <2>2, <3>1
    <3>3. Len(gone) \in 1 .. Len(gone) + Len(end) /\ Len(gone) <= Len(gone)
      BY <1>7, <3>1, <3>2
    <3>4. mid[Len(gone)] = gone[Len(gone)]
      BY <3>1, <3>3
    <3>5. gone # <<>>
      BY <3>2
    <3> QED
      BY <1>6, <2>2, <3>2, <3>4, <3>5
  <2> QED
    BY <2>1, <2>2 DEF NothingDroppedNeedlessly, cut
<1> QED
  BY <1>8, <1>9, <1>10, <1>11 DEF HistoryIsCutFairly

\* What a conversation keeps is what the two cuts leave of what its turn brought.
THEOREM HistoryInductive == TrimSpec => []HistoryInv
<1>1. TrimInit => HistoryInv
  BY HistoryStarts
<1>2. HistoryInv /\ [TrimNext]_trimVars => HistoryInv'
  BY CommitKeeps
<1> QED
  BY <1>1, <1>2, PTL DEF TrimSpec

\* A history is cut from its oldest end, system messages last, to just the limits.
THEOREM FairCuts == TrimSpec => []HistoryIsCutFairly
<1>1. HistoryInv => HistoryIsCutFairly
  BY CutsAreFair
<1> QED
  BY <1>1, HistoryInductive, PTL

------------------------------------------------------------
(* Uploads: texts put together and cut back. *)

\* The recursion of JoinedUpTo has a solution.
LEMMA JoinedExists ==
    ASSUME NEW segments \in Seq(Words)
    PROVE  /\ JoinedUpTo(segments) \in [0 .. Len(segments) -> Words]
           /\ JoinedUpTo(segments)[0] = <<>>
           /\ \A n \in 1 .. Len(segments) :
                 JoinedUpTo(segments)[n] = JoinedUpTo(segments)[n - 1] \o segments[n]
<1> DEFINE N == Len(segments)
           Joins(f) == f = [n \in 0 .. N |-> IF n = 0 THEN <<>> ELSE f[n - 1] \o segments[n]]
           step == [n \in 1 .. N |-> [v \in Words |-> v \o segments[n]]]
<1>1. N \in Nat /\ \A n \in 1 .. N : segments[n] \in Words
  OBVIOUS
<1>2. step \in [1 .. N -> [Words -> Words]]
  <2>1. \A n \in 1 .. N : \A v \in Words : v \o segments[n] \in Words
    BY <1>1, ConcatProperties DEF Words
  <2> QED
    BY <2>1
<1>3. PICK f : Follows(f, Words, <<>>, N, step)
  <2>1. <<>> \in Words
    BY DEF Words
  <2> HIDE DEF step, N
  <2> QED
    BY <1>1, <1>2, <2>1, Recursion
<1>4. Joins(f)
  <2>1. \A n \in 1 .. N : f[n - 1] \in Words
    <3>1. \A n \in 1 .. N : n - 1 \in 0 .. N
      BY <1>1
    <3> HIDE DEF step, N
    <3> QED
      BY <1>3, <3>1 DEF Follows
  <2>2. ASSUME NEW n \in 1 .. N PROVE f[n] = f[n - 1] \o segments[n]
    <3>1. \A v \in Words : step[n][v] = v \o segments[n]
      OBVIOUS
    <3> HIDE DEF step, N
    <3> QED
      BY <1>3, <2>1, <3>1 DEF Follows
  <2>3. \A n \in 0 .. N : n # 0 => n \in 1 .. N
    BY <1>1, SMTT(60)
  <2> HIDE DEF N, step
  <2> QED
    BY <1>3, <2>2, <2>3 DEF Follows
<1> DEFINE g == CHOOSE h : Joins(h)
<1>5. Joins(g)
  BY <1>4
<1>6. JoinedUpTo(segments) = g
  BY SMTT(60) DEF JoinedUpTo
<1>7. /\ \A n \in 0 .. N : g[n] = IF n = 0 THEN <<>> ELSE g[n - 1] \o segments[n]
      /\ g = [n \in 0 .. N |-> g[n]]
  BY <1>5
<1> HIDE DEF g
<1>8. g[0] = <<>> /\ \A n \in 1 .. N : g[n] = g[n - 1] \o segments[n]
  BY <1>1, <1>7
<1>9. \A n \in 0 .. N : g[n] \in Words
  <2> DEFINE S == {n \in Nat : n <= N => g[n] \in Words}
  <2>1. 0 \in S
    <3>1. <<>> \in Words
      BY DEF Words
    <3> QED
      BY <1>8, <3>1
  <2>2. ASSUME NEW n \in Nat, n \in S PROVE n + 1 \in S
    <3> SUFFICES ASSUME n + 1 <= N PROVE g[n + 1] \in Words
      OBVIOUS
    <3>1. g[n] \in Words /\ n + 1 \in 1 .. N /\ (n + 1) - 1 = n
      BY <1>1, <2>2
    <3>2. g[n + 1] = g[(n + 1) - 1] \o segments[n + 1] /\ segments[n + 1] \in Words
      BY <1>1, <1>8, <3>1
    <3> QED
      BY <3>1, <3>2, ConcatProperties DEF Words
  <2> HIDE DEF S
  <2>3. Nat \subseteq S
    BY <2>1, <2>2, NaturalsByInduction
  <2> QED
    BY <1>1, <2>3 DEF S
<1> QED
  BY <1>6, <1>7, <1>8, <1>9

\* Where a node begins and ends in the text of all nodes, and what it adds.
LEMMA JoinedStep ==
    ASSUME NEW segments \in Seq(Words), NEW n \in 1 .. Len(segments)
    PROVE  /\ n - 1 \in 0 .. Len(segments) /\ n \in 0 .. Len(segments)
           /\ JoinedUpTo(segments)[n - 1] \in Words
           /\ JoinedUpTo(segments)[n] \in Words
           /\ segments[n] \in Words
           /\ JoinedUpTo(segments)[n] = JoinedUpTo(segments)[n - 1] \o segments[n]
           /\ Len(JoinedUpTo(segments)[n]) =
                 Len(JoinedUpTo(segments)[n - 1]) + Len(segments[n])
<1> DEFINE g == JoinedUpTo(segments)
<1>1. n - 1 \in 0 .. Len(segments) /\ n \in 0 .. Len(segments) /\ segments[n] \in Words
  OBVIOUS
<1>2. g[n - 1] \in Words /\ g[n] \in Words /\ g[n] = g[n - 1] \o segments[n]
  BY <1>1, JoinedExists
<1> HIDE DEF g
<1>3. Len(g[n]) = Len(g[n - 1]) + Len(segments[n])
  BY <1>1, <1>2, ConcatProperties DEF Words
<1> QED
  BY <1>1, <1>2, <1>3 DEF g

\* One text begins another.
Begins(first, text) ==
    Len(first) <= Len(text) /\ \A j \in 1 .. Len(first) : text[j] = first[j]

\* What two texts make, put together.
LEMMA PutTogether ==
    ASSUME NEW x \in Words, NEW y \in Words
    PROVE  /\ Begins(x, x \o y)
           /\ \A k \in 1 .. Len(y) : /\ Len(x) + k \in 1 .. Len(x \o y)
                                     /\ (x \o y)[Len(x) + k] = y[k]
           /\ \A first \in Words : Begins(first, x) => Begins(first, x \o y)
<1>1. /\ Len(x \o y) = Len(x) + Len(y)
      /\ \A i \in 1 .. Len(x) + Len(y) :
            (x \o y)[i] = IF i <= Len(x) THEN x[i] ELSE y[i - Len(x)]
  BY ConcatProperties DEF Words
<1> PICK z : z = x \o y
  OBVIOUS
<1>2. Len(x) \in Nat /\ Len(y) \in Nat /\ \A first \in Words : Len(first) \in Nat
  BY DEF Words
<1>3. Begins(x, z)
  BY <1>1, <1>2 DEF Begins
<1>4. ASSUME NEW k \in 1 .. Len(y)
      PROVE  Len(x) + k \in 1 .. Len(z) /\ z[Len(x) + k] = y[k]
  <2>1. /\ Len(x) + k \in 1 .. Len(x) + Len(y) /\ ~ (Len(x) + k <= Len(x))
        /\ (Len(x) + k) - Len(x) = k
    BY <1>2
  <2> QED
    BY <1>1, <2>1
<1>5. ASSUME NEW first \in Words, Begins(first, x) PROVE Begins(first, z)
  <2>1. Len(first) <= Len(z)
    BY <1>1, <1>2, <1>5 DEF Begins
  <2>2. ASSUME NEW j \in 1 .. Len(first) PROVE z[j] = first[j]
    <3>1. j \in 1 .. Len(x) + Len(y) /\ j <= Len(x)
      BY <1>2, <1>5 DEF Begins
    <3> QED
      BY <1>1, <1>5, <3>1 DEF Begins
  <2> QED
    BY <2>1, <2>2 DEF Begins
<1> QED
  BY <1>3, <1>4, <1>5

\* What has been joined so far is a first part of all of it.
LEMMA JoinedGrows ==
    ASSUME NEW segments \in Seq(Words), NEW k \in 0 .. Len(segments)
    PROVE  \A n \in k .. Len(segments) :
              Begins(JoinedUpTo(segments)[k], JoinedUpTo(segments)[n])
<1> DEFINE N == Len(segments)
           g == JoinedUpTo(segments)
           S == {n \in Nat : k <= n /\ n <= N => Begins(g[k], g[n])}
<1>1. N \in Nat /\ k \in Nat /\ k <= N
  OBVIOUS
<1>2. \A n \in 0 .. N : g[n] \in Words
  BY JoinedExists
<1>3. \A n \in 1 .. N : segments[n] \in Words /\ g[n] = g[n - 1] \o segments[n]
  BY JoinedStep
<1> HIDE DEF g, N
<1>4. g[k] \in Words /\ Begins(g[k], g[k])
  BY <1>1, <1>2 DEF Begins, Words
<1>5. 0 \in S
  <2>1. k <= 0 => k = 0
    BY <1>1
  <2> QED
    BY <1>4, <2>1
<1>6. ASSUME NEW n \in Nat, n \in S PROVE n + 1 \in S
  <2> SUFFICES ASSUME k <= n + 1, n + 1 <= N PROVE Begins(g[k], g[n + 1])
    OBVIOUS
  <2>1. CASE k = n + 1
    BY <1>4, <2>1
  <2>2. CASE k <= n
    <3>1. Begins(g[k], g[n]) /\ n + 1 \in 1 .. N /\ n \in 0 .. N /\ (n + 1) - 1 = n
      BY <1>1, <1>6, <2>2
    <3>2. g[n + 1] = g[(n + 1) - 1] \o segments[n + 1] /\ segments[n + 1] \in Words
      BY <1>3, <3>1
    <3>3. g[n] \in Words /\ g[n + 1] = g[n] \o segments[n + 1]
      BY <1>2, <3>1, <3>2
    <3>4. Begins(g[k], g[n] \o segments[n + 1])
      BY <1>4, <3>1, <3>2, <3>3, PutTogether
    <3> QED
      BY <3>3, <3>4
  <2> QED
    BY <1>1, <2>1, <2>2
<1> HIDE DEF S
<1>7. Nat \subseteq S
  BY <1>5, <1>6, NaturalsByInduction
<1> QED
  BY <1>1, <1>7 DEF S, N, g

\* Each atom of a node, in the text of all nodes.
LEMMA JoinedAt ==
    ASSUME NEW segments \in Seq(Words), NEW i \in 1 .. Len(segments),
           NEW k \in 1 .. Len(segments[i])
    PROVE  /\ Len(JoinedUpTo(segments)[i - 1]) + k \in 1 .. Len(Together(segments))
           /\ Together(segments)[Len(JoinedUpTo(segments)[i - 1]) + k] = segments[i][k]
<1> DEFINE g == JoinedUpTo(segments)
           N == Len(segments)
<1>1. /\ g[i - 1] \in Words /\ g[i] \in Words /\ segments[i] \in Words
      /\ g[i] = g[i - 1] \o segments[i]
  BY JoinedStep
<1>2. Begins(g[i], g[N])
  <2>1. i \in 0 .. N /\ N \in i .. N
    OBVIOUS
  <2> QED
    BY <2>1, JoinedGrows
<1>3. g[N] \in Words
  <2>1. N \in 0 .. N
    OBVIOUS
  <2> QED
    BY <2>1, JoinedExists
<1>4. Together(segments) = g[N]
  BY DEF Together
<1> HIDE DEF g, N
<1>5. PICK x, y, z, w : x = g[i - 1] /\ y = segments[i] /\ z = g[i] /\ w = g[N]
  OBVIOUS
<1>6. x \in Words /\ y \in Words /\ z = x \o y /\ w \in Words /\ Begins(z, w) /\ k \in 1 .. Len(y)
  BY <1>1, <1>2, <1>3, <1>5
<1>7. Len(x) + k \in 1 .. Len(z) /\ z[Len(x) + k] = y[k] /\ z \in Words
  <2>1. Len(x) + k \in 1 .. Len(x \o y) /\ (x \o y)[Len(x) + k] = y[k]
    BY <1>6, PutTogether
  <2> QED
    BY <1>1, <1>5, <1>6, <2>1
<1>8. Len(x) + k \in 1 .. Len(w) /\ w[Len(x) + k] = y[k]
  <2>1. Len(z) \in Nat /\ Len(w) \in Nat /\ Len(x) \in Nat
    BY <1>6, <1>7, SMTT(60) DEF Words
  <2>2. PICK j \in Nat : j = Len(x) + k
    BY <1>7, <2>1
  <2>3. j \in 1 .. Len(w) /\ w[j] = z[j]
    BY SMTT(30), <1>6, <1>7, <2>1, <2>2 DEF Begins
  <2> QED
    BY <1>7, <2>2, <2>3
<1> QED
  BY <1>4, <1>5, <1>8 DEF g

\* The atoms of a piece of a text.
LEMMA Piece ==
    ASSUME NEW text \in Words, NEW a \in Nat, NEW l \in Nat, a + l <= Len(text)
    PROVE  /\ SubSeq(text, a + 1, a + l) \in Words
           /\ Len(SubSeq(text, a + 1, a + l)) = l
           /\ \A k \in 1 .. l : SubSeq(text, a + 1, a + l)[k] = text[a + k]
<1>1. Len(text) \in Nat /\ \A j \in 1 .. Len(text) : text[j] \in STRING
  BY DEF Words
<1>2. \A j \in a + 1 .. a + l : text[j] \in STRING
  <2>1. \A j \in a + 1 .. a + l : j \in 1 .. Len(text)
    BY <1>1
  <2> QED
    BY <1>1, <2>1
<1>3. /\ SubSeq(text, a + 1, a + l) \in Seq(STRING)
      /\ Len(SubSeq(text, a + 1, a + l)) = IF a + 1 <= a + l THEN (a + l) - (a + 1) + 1 ELSE 0
      /\ \A k \in 1 .. (a + l) - (a + 1) + 1 :
            SubSeq(text, a + 1, a + l)[k] = text[(a + 1) + k - 1]
  BY <1>2, SubSeqProperties
<1>4. /\ (a + l) - (a + 1) + 1 = l
      /\ (IF a + 1 <= a + l THEN l ELSE 0) = l
      /\ \A k \in 1 .. l : (a + 1) + k - 1 = a + k
  OBVIOUS
<1> QED
  BY <1>3, <1>4 DEF Words

\* A text cut back and put together again is that text, node by node.
LEMMA CutTogether ==
    ASSUME NEW segments \in Seq(Words), NEW text \in Words,
           Len(text) = Len(Together(segments))
    PROVE  /\ CutBack(text, segments) \in Seq(Words)
           /\ Len(CutBack(text, segments)) = Len(segments)
           /\ \A i \in 1 .. Len(segments) :
                 /\ Len(CutBack(text, segments)[i]) = Len(segments[i])
                 /\ \A k \in 1 .. Len(segments[i]) :
                       CutBack(text, segments)[i][k] =
                           text[Len(JoinedUpTo(segments)[i - 1]) + k]
           /\ Together(CutBack(text, segments)) = text
<1> DEFINE N == Len(segments)
           g == JoinedUpTo(segments)
           cut == CutBack(text, segments)
           h == JoinedUpTo(cut)
<1>1. N \in Nat /\ DOMAIN segments = 1 .. N
  OBVIOUS
<1> DEFINE ends(n) == Len(g[n])
           size(n) == Len(segments[n])
<1>2. /\ g[0] = <<>> /\ \A n \in 0 .. N : g[n] \in Words /\ ends(n) \in Nat
      /\ \A n \in 1 .. N : /\ segments[n] \in Words /\ size(n) \in Nat
                           /\ ends(n) = ends(n - 1) + size(n)
  <2>1. /\ g[0] = <<>> /\ \A n \in 0 .. N : g[n] \in Words
        /\ \A n \in 1 .. N : /\ segments[n] \in Words
                             /\ Len(g[n]) = Len(g[n - 1]) + Len(segments[n])
    BY JoinedExists, JoinedStep
  <2>2. \A x \in Words : Len(x) \in Nat
    BY DEF Words
  <2> HIDE DEF g, N
  <2> QED
    BY <2>1, <2>2
<1>3. Len(text) = ends(N) /\ Len(text) \in Nat
  BY DEF Together, Words
<1>4. \A n \in 0 .. N : ends(n) <= ends(N)
  <2> TAKE n \in 0 .. N
  <2>1. N \in n .. N
    OBVIOUS
  <2> QED
    BY <2>1, JoinedGrows DEF Begins
<1>5. cut = [i \in 1 .. N |-> SubSeq(text, ends(i - 1) + 1, ends(i - 1) + size(i))]
  BY <1>1 DEF CutBack
<1> HIDE DEF cut, g, N, ends, size
<1>6. ASSUME NEW i \in 1 .. N
      PROVE  /\ cut[i] \in Words
             /\ Len(cut[i]) = size(i)
             /\ \A k \in 1 .. size(i) : cut[i][k] = text[ends(i - 1) + k]
             /\ cut[i] = SubSeq(text, ends(i - 1) + 1, ends(i))
  <2>1. i - 1 \in 0 .. N /\ i \in 0 .. N
    BY <1>1
  <2>2. PICK a \in Nat, l \in Nat : a = ends(i - 1) /\ l = size(i)
    BY <1>2, <2>1
  <2>3. ends(i) = a + l /\ a + l <= Len(text)
    BY <1>2, <1>3, <1>4, <2>1, <2>2
  <2>4. cut[i] = SubSeq(text, a + 1, a + l)
    BY <1>5, <2>2
  <2>5. cut[i] \in Words /\ Len(cut[i]) = l /\ \A k \in 1 .. l : cut[i][k] = text[a + k]
    <3>1. /\ SubSeq(text, a + 1, a + l) \in Words
          /\ Len(SubSeq(text, a + 1, a + l)) = l
          /\ \A k \in 1 .. l : SubSeq(text, a + 1, a + l)[k] = text[a + k]
      BY <2>3, Piece
    <3> QED
      BY <2>4, <3>1
  <2> QED
    BY <2>2, <2>3, <2>4, <2>5
<1>7. cut \in Seq(Words) /\ Len(cut) = N
  <2>1. cut \in [1 .. N -> Words]
    BY <1>5, <1>6
  <2> QED
    BY <1>1, <2>1
<1>8. /\ h[0] = <<>>
      /\ \A n \in 1 .. N : h[n] = h[n - 1] \o cut[n]
  BY <1>7, JoinedExists
<1> HIDE DEF h
<1> DEFINE S == {n \in Nat : n <= N => h[n] = SubSeq(text, 1, ends(n))}
<1>9. 0 \in S
  <2>1. SubSeq(text, 1, 0) = <<>>
    BY SubSeqEmpty
  <2>2. ends(0) = 0
    BY <1>2 DEF ends
  <2> QED
    BY <1>8, <2>1, <2>2
<1>10. ASSUME NEW n \in Nat, n \in S PROVE n + 1 \in S
  <2> SUFFICES ASSUME n + 1 <= N PROVE h[n + 1] = SubSeq(text, 1, ends(n + 1))
    OBVIOUS
  <2>1. n + 1 \in 1 .. N /\ n \in 0 .. N /\ n + 1 \in 0 .. N /\ (n + 1) - 1 = n
        /\ h[n] = SubSeq(text, 1, ends(n))
    BY <1>1, <1>10
  <2>2. h[n + 1] = h[(n + 1) - 1] \o cut[n + 1]
    BY <1>8, <2>1
  <2>3. cut[n + 1] = SubSeq(text, ends((n + 1) - 1) + 1, ends(n + 1))
    BY <1>6, <2>1
  <2>4. PICK a, b : a = ends(n) /\ b = ends(n + 1)
    OBVIOUS
  <2>5. a \in Nat /\ b \in Nat /\ a <= b /\ b <= Len(text)
    <3>1. ends(n + 1) = ends((n + 1) - 1) + size(n + 1) /\ size(n + 1) \in Nat
      BY <1>2, <2>1
    <3> QED
      BY <1>2, <1>3, <1>4, <2>1, <2>4, <3>1
  <2>6. 1 \in 1 .. Len(text) + 1 /\ a \in 1 - 1 .. Len(text) /\ b \in a .. Len(text)
    BY <1>3, <2>5
  <2>7. SubSeq(text, 1, a) \o SubSeq(text, a + 1, b) = SubSeq(text, 1, b)
    BY <2>6, ConcatAdjacentSubSeq DEF Words
  <2> QED
    BY <2>1, <2>2, <2>3, <2>4, <2>7
<1> HIDE DEF S
<1>11. Nat \subseteq S
  BY <1>9, <1>10, NaturalsByInduction
<1>12. h[N] = text
  <2>1. h[N] = SubSeq(text, 1, Len(text))
    BY <1>1, <1>3, <1>11 DEF S
  <2> QED
    BY <2>1, SubSeqFull DEF Words
<1>13. Together(cut) = text
  BY <1>7, <1>12 DEF Together, h
<1> QED
  BY <1>6, <1>7, <1>13 DEF cut, g, N, ends, size

----------------------------------------------------------------------------
(* What is redacted. *)

\* The redaction covers words with the mark and moves none.
LEMMA RedactKeeps ==
    ASSUME NEW text \in Words
    PROVE  /\ Redact(text) \in Words
           /\ Len(Redact(text)) = Len(text)
           /\ \A n \in 1 .. Len(text) : Redact(text)[n] \in {text[n], Mark}
<1>1. Len(text) \in Nat /\ DOMAIN text = 1 .. Len(text) /\ \A n \in 1 .. Len(text) : text[n] \in STRING
  <2>1. Len(text) \in Nat /\ DOMAIN text = 1 .. Len(text)
    BY LenProperties DEF Words
  <2>2. \A n \in 1 .. Len(text) : text[n] \in STRING
    BY ElementOfSeq DEF Words
  <2> QED
    BY <2>1, <2>2
<1>2. Mark \in STRING
  BY ValuesAreWords
<1>3. Redact(text) \in [1 .. Len(text) -> STRING]
  BY <1>1, <1>2 DEF Redact
<1>4. \A n \in 1 .. Len(text) : Redact(text)[n] \in {text[n], Mark}
  BY <1>1 DEF Redact
<1> HIDE DEF Words
<1>5. Redact(text) \in Words /\ Len(Redact(text)) = Len(text)
  BY <1>1, <1>3 DEF Words
<1> QED
  BY <1>4, <1>5

\* A value that is left in a redacted text was there before, untouched: then it was
\* one the policy blocks, and the text was refused.
LEMMA RedactLeavesNothing ==
    ASSUME NEW text \in Words, ~ Refuses(text)
    PROVE  ~ HasSensitiveText(Redact(text))
<1> DEFINE new == Redact(text)
           N == Len(text)
<1>1. /\ new \in Words /\ Len(new) = N /\ N \in Nat
      /\ DOMAIN new = 1 .. N /\ DOMAIN text = 1 .. N
      /\ \A n \in 1 .. N : new[n] \in {text[n], Mark}
  BY RedactKeeps DEF Words
<1>2. \A n \in 1 .. N : (\E span \in Findings(text, Masked) : n \in span[1] .. span[2])
                        => new[n] = Mark
  BY <1>1 DEF Redact
<1> HIDE DEF new, N
<1>3. SUFFICES ASSUME NEW a \in 1 .. N, NEW b \in 1 .. N,
                      SubSeq(new, a, b) \in Masked \cup Refusable
               PROVE  FALSE
  <2>1. HasSensitiveText(new) => \E span \in Findings(new, Masked \cup Refusable) : TRUE
    BY DEF HasSensitiveText
  <2> QED
    BY <1>1, <1>3, <2>1 DEF Findings, new
<1> DEFINE v == SubSeq(new, a, b)
           old == SubSeq(text, a, b)
<1>4. v # <<>> /\ \A n \in DOMAIN v : v[n] # Mark
  BY <1>3, ValuesAreWords
<1>5. a \in Int /\ b \in Int /\ a <= b
  <2>1. b < a => v = <<>>
    BY <1>3, SubSeqEmpty
  <2> QED
    BY <1>1, <1>3, <1>4, <2>1
<1>6. /\ \A j \in a .. b : new[j] \in STRING /\ text[j] \in STRING
  <2>1. \A j \in a .. b : j \in 1 .. N
    BY <1>1, <1>3, <1>5
  <2> QED
    BY <1>1, <2>1 DEF Words, N
<1>7. /\ v \in Seq(STRING) /\ old \in Seq(STRING)
      /\ Len(v) = b - a + 1 /\ Len(old) = b - a + 1
      /\ \A k \in 1 .. b - a + 1 : v[k] = new[a + k - 1] /\ old[k] = text[a + k - 1]
  BY <1>5, <1>6, SubSeqProperties
<1> HIDE DEF v, old
<1>8. ASSUME NEW k \in 1 .. b - a + 1
      PROVE  a + k - 1 \in 1 .. N /\ v[k] # Mark /\ v[k] = old[k]
  <2>1. a + k - 1 \in 1 .. N
    BY <1>1, <1>3, <1>5
  <2>2. v[k] # Mark
    BY <1>4, <1>7
  <2> QED
    BY <1>1, <1>7, <2>1, <2>2
<1>9. v = old
  BY <1>7, <1>8, SeqEqual
<1>10. <<a, b>> \in Findings(text, Masked) \/ <<a, b>> \in Findings(text, Refusable)
  BY <1>1, <1>3, <1>9 DEF Findings, v, old
<1>11. CASE <<a, b>> \in Findings(text, Masked)
  <2>1. a \in <<a, b>>[1] .. <<a, b>>[2]
    BY <1>5
  <2>2. new[a] = Mark
    BY <1>2, <1>11, <2>1
  <2>3. 1 \in 1 .. b - a + 1 /\ a + 1 - 1 = a
    BY <1>5
  <2>4. v[1] = new[a] /\ v[1] # Mark
    BY <1>7, <1>8, <2>3
  <2> QED
    BY <2>2, <2>4
<1>12. CASE <<a, b>> \in Findings(text, Refusable)
  BY <1>12 DEF Refuses
<1> QED
  BY <1>10, <1>11, <1>12

\* A short text that is no value has none in it.
LEMMA NothingInIt ==
    /\ ~ HasSensitiveText(<<>>)
    /\ ~ HasSensitiveText(Removed)
<1>1. Findings(<<>>, Masked \cup Refusable) = {}
  BY DEF Findings
<1>2. ASSUME NEW span \in Findings(Removed, Masked \cup Refusable) PROVE FALSE
  <2>1. span = <<1, 1>> /\ SubSeq(Removed, 1, 1) \in Masked \cup Refusable
    <3>1. DOMAIN Removed = {1}
      BY DEF Removed
    <3> QED
      BY <3>1 DEF Findings
  <2>2. SubSeq(Removed, 1, 1) = Removed
    <3>1. Removed \in Seq({"urn"})
      BY DEF Removed
    <3>2. Len(Removed) = 1
      BY DEF Removed
    <3> QED
      BY <3>1, <3>2, SubSeqFull
  <2> QED
    BY <2>1, <2>2, ValuesAreWords
<1> QED
  BY <1>1, <1>2 DEF HasSensitiveText

\* Nodes redacted together keep their lengths, show no value even where nodes meet,
\* and only marks are new in them.
LEMMA TogetherIsRedacted ==
    ASSUME NEW segments \in Seq(Words), ~ Refuses(Together(segments))
    PROVE  /\ RedactTogether(segments) \in Seq(Words)
           /\ ~ HasSensitiveText(Together(RedactTogether(segments)))
           /\ DOMAIN RedactTogether(segments) = DOMAIN segments
           /\ \A i \in DOMAIN segments :
                 /\ Len(RedactTogether(segments)[i]) = Len(segments[i])
                 /\ \A k \in DOMAIN RedactTogether(segments)[i] :
                       RedactTogether(segments)[i][k] \in {segments[i][k], Mark}
<1> DEFINE whole == Together(segments)
           new == Redact(whole)
           cut == CutBack(new, segments)
<1>1. whole \in Words
  <2>1. Len(segments) \in 0 .. Len(segments)
    OBVIOUS
  <2> QED
    BY <2>1, JoinedExists DEF Together
<1>2. /\ new \in Words /\ Len(new) = Len(whole)
      /\ \A n \in 1 .. Len(whole) : new[n] \in {whole[n], Mark}
  BY <1>1, RedactKeeps
<1>3. ~ HasSensitiveText(new)
  BY <1>1, RedactLeavesNothing
<1>4. RedactTogether(segments) = cut
  BY DEF RedactTogether
<1> HIDE DEF new
<1>5. /\ cut \in Seq(Words) /\ Len(cut) = Len(segments)
      /\ \A i \in 1 .. Len(segments) :
            /\ Len(cut[i]) = Len(segments[i])
            /\ \A k \in 1 .. Len(segments[i]) :
                  cut[i][k] = new[Len(JoinedUpTo(segments)[i - 1]) + k]
      /\ Together(cut) = new
  BY <1>2, CutTogether
<1> HIDE DEF cut, whole
<1>6. DOMAIN cut = 1 .. Len(segments) /\ DOMAIN segments = 1 .. Len(segments)
  BY <1>5
<1>7. ASSUME NEW i \in 1 .. Len(segments), NEW k \in DOMAIN cut[i]
      PROVE  cut[i][k] \in {segments[i][k], Mark}
  <2>1. k \in 1 .. Len(segments[i])
    <3>1. cut[i] \in Words /\ Len(cut[i]) = Len(segments[i])
      BY <1>5, <1>6
    <3> QED
      BY <3>1, <1>7 DEF Words
  <2>2. cut[i][k] = new[Len(JoinedUpTo(segments)[i - 1]) + k]
    BY <1>5, <2>1
  <2>3. /\ Len(JoinedUpTo(segments)[i - 1]) + k \in 1 .. Len(whole)
        /\ whole[Len(JoinedUpTo(segments)[i - 1]) + k] = segments[i][k]
    BY <2>1, JoinedAt DEF whole
  <2> QED
    BY <1>2, <2>2, <2>3
<1> QED
  BY <1>3, <1>4, <1>5, <1>6, <1>7

----------------------------------------------------------------------------
(* Files. *)

\* What a sanitized part is, of the part it was.
Treated(handed, part) ==
    \/ handed.kind = "metadata" /\ part = ScrubMetadata(handed)
    \/ handed.kind = "rels" /\ ~ RelationsRemain(handed) /\ part = ScrubRelationships(handed)
    \/ IsStoryPart(handed) /\ ~ StoryRefuses(handed) /\ part = RedactStoryPart(handed)
    \/ handed.kind = "generic" /\ ~ GenericRefuses(handed) /\ part = RedactGenericXml(handed)
    \/ handed.kind = "types" /\ part = handed

\* A picture that was let through.
Covered(handed, picture) ==
    LeftOver(handed, Black(handed)) = {} /\ picture = Finished(handed)

MediaTypeOK ==
    /\ upload \in Uploads
    /\ stage \in {"upload", "archive", "part", "image", "pdf", "page", "picture", "answered"}
    /\ rendered \in Nat
    /\ stage \in {"archive", "part"} => IsDocument
    /\ stage \in {"image", "pdf", "page", "picture"} => ~ IsDocument
    /\ stage = "upload" => done = <<>>

\* What is open at each stage, and nothing after the answer.
OpenAsNeeded ==
    /\ stage \in {"upload", "archive", "part", "image", "pdf"} => opened = {"file"}
    /\ stage = "page" => opened \subseteq {"file", "document", "finished"}
    /\ stage = "picture" => opened \subseteq {"file", "document", "finished", "page", "picture"}
    /\ stage = "answered" => opened = {}

\* What is done is done as it should be.
PartsAreTreated ==
    /\ done \in Seq({done[n] : n \in DOMAIN done})
    /\ Len(done) <= Len(upload.file.parts)
    /\ \A n \in DOMAIN done : Treated(upload.file.parts[n], done[n])

PagesAreCovered ==
    /\ done \in Seq({done[n] : n \in DOMAIN done})
    /\ Len(done) <= Len(upload.file.pages)
    /\ \A n \in DOMAIN done : Covered(upload.file.pages[n], done[n])

MediaInv ==
    /\ MediaTypeOK
    /\ OpenAsNeeded
    /\ rendered <= MaxTotalPixels
    /\ stage \in {"page", "picture"} => Len(upload.file.pages) <= MaxPages
    /\ UnpackedWithinBudget
    /\ stage \in {"archive", "image", "pdf"} => done = <<>>
    /\ stage = "part" => PartsAreTreated
    /\ stage \in {"page", "picture"} => PagesAreCovered
    /\ stage = "picture" => Len(done) < Len(upload.file.pages)
    /\ Delivered =>
          /\ stage = "answered"
          /\ IsDocument => /\ PartsAreTreated /\ Verified(done)
                           /\ Len(done) = Len(upload.file.parts)
          /\ ~ IsDocument => /\ PagesAreCovered
                             /\ Len(done) = Len(upload.file.pages)

\* What an upload with the type of a document contains ...
LEMMA FileOfDocument ==
    ASSUME MediaTypeOK, IsDocument
    PROVE  /\ upload.file.parts \in Seq(DocumentPart)
           /\ upload.magic \in {"zip", "none"}
  BY UploadsAreFiles DEF MediaTypeOK, IsDocument

\* ... and what the others contain.
LEMMA FileOfPages ==
    ASSUME MediaTypeOK, ~ IsDocument
    PROVE  upload.file.pages \in Seq(Page) /\ upload.magic \in {"pdf", "image"}
  BY UploadsAreFiles DEF MediaTypeOK, IsDocument

\* An answer without a file: nothing is left open and nothing is delivered.
LEMMA RefusalKeeps ==
    ASSUME MediaInv, stage # "answered", UNCHANGED upload,
           stage' = "answered", answer' # 200, opened' = {},
           rendered' \in Nat, rendered' <= MaxTotalPixels
    PROVE  MediaInv'
<1>1. ~ Delivered'
  BY DEF Delivered
<1>2. MediaTypeOK' /\ OpenAsNeeded'
  BY DEF MediaInv, MediaTypeOK, OpenAsNeeded
<1> QED
  BY <1>1, <1>2 DEF MediaInv, UnpackedWithinBudget

\* Nothing is delivered before the answer.
LEMMA NotDelivered ==
    ASSUME MediaInv, stage # "answered"
    PROVE  ~ Delivered
  BY DEF MediaInv

\* The upload is taken up or refused by its type, size and first bytes.
LEMMA DispatchKeeps ==
    ASSUME MediaInv, Dispatch
    PROVE  MediaInv'
<1>1. /\ stage = "upload" /\ UNCHANGED <<upload, installed, done, rendered>>
      /\ opened = {"file"} /\ done = <<>> /\ rendered \in Nat /\ rendered <= MaxTotalPixels
  BY DEF Dispatch, MediaInv, MediaTypeOK, OpenAsNeeded
<1>2. \/ \E status \in {400, 413, 415, 503} : Refuse(status)
      \/ IsDocx /\ Continue("archive")
      \/ upload.magic \in {"pdf", "image"} /\ Continue(upload.magic)
  BY DEF Dispatch
<1>3. CASE \E status \in {400, 413, 415, 503} : Refuse(status)
  <2>1. stage' = "answered" /\ answer' # 200 /\ opened' = {}
    BY <1>1, <1>3 DEF Refuse, Reply
  <2> QED
    BY <1>1, <2>1, RefusalKeeps
<1>4. CASE IsDocx /\ Continue("archive")
  <2>1. stage' = "archive" /\ answer' = answer /\ opened' = opened
    BY <1>4 DEF Continue
  <2>2. IsDocument'
    BY <1>1, <1>4, FileOfPages DEF IsDocx, IsDocument, MediaInv
  <2>3. ~ Delivered'
    BY <1>1, <2>1, NotDelivered DEF Delivered
  <2>4. MediaTypeOK' /\ OpenAsNeeded'
    BY <1>1, <2>1, <2>2 DEF MediaInv, MediaTypeOK, OpenAsNeeded
  <2> QED
    BY <1>1, <2>1, <2>3, <2>4 DEF MediaInv, UnpackedWithinBudget
<1>5. CASE upload.magic \in {"pdf", "image"} /\ Continue(upload.magic)
  <2>1. stage' \in {"pdf", "image"} /\ answer' = answer /\ opened' = opened
    BY <1>5 DEF Continue
  <2>2. ~ IsDocument'
    BY <1>1, <1>5, FileOfDocument DEF IsDocument, MediaInv
  <2>3. ~ Delivered'
    BY <1>1, <2>1, NotDelivered DEF Delivered
  <2>4. MediaTypeOK' /\ OpenAsNeeded'
    BY <1>1, <2>1, <2>2 DEF MediaInv, MediaTypeOK, OpenAsNeeded
  <2> QED
    BY <1>1, <2>1, <2>3, <2>4 DEF MediaInv, UnpackedWithinBudget
<1> QED
  BY <1>2, <1>3, <1>4, <1>5

\* An archive is refused or gone on with, never answered with success.
LEMMA ArchiveStatusIsNoSuccess ==
    ASSUME NEW file
    PROVE  ArchiveStatus(file) \in {0, 400, 415}
<1>1. \A flaw : FlawStatus(flaw) \in {0, 400, 415}
  BY DEF FlawStatus
<1> QED
  BY <1>1, SMTT(40) DEF ArchiveStatus

\* The recursion of SizeUpTo has a solution.
LEMMA SizesExist ==
    ASSUME NEW parts \in Seq(DocumentPart)
    PROVE  SizeUpTo(parts) \in [0 .. Len(parts) -> Nat] /\ SizeUpTo(parts)[0] = 0
<1> DEFINE N == Len(parts)
           step == [n \in 1 .. N |-> [v \in Nat |-> v + parts[n].size]]
           Solves(f) == f = [n \in 0 .. N |-> IF n = 0 THEN 0 ELSE f[n - 1] + parts[n].size]
           g == CHOOSE f : Solves(f)
<1>1. N \in Nat /\ 0 \in Nat /\ \A n \in 1 .. N : parts[n].size \in Nat
  <2>1. \A n \in 1 .. N : parts[n] \in DocumentPart
    OBVIOUS
  <2> QED
    BY <2>1, SMTT(60) DEF DocumentPart
<1>2. /\ step \in [1 .. N -> [Nat -> Nat]]
      /\ \A n \in 1 .. N : \A v \in Nat : step[n][v] = v + parts[n].size
  <2>1. \A n \in 1 .. N : \A v \in Nat : v + parts[n].size \in Nat
    BY <1>1
  <2> QED
    BY <2>1
<1>3. SizeUpTo(parts) = g
  BY DEF SizeUpTo
<1> HIDE DEF step, N
<1>4. PICK f : Follows(f, Nat, 0, N, step)
  BY <1>1, <1>2, Recursion
<1>5. Solves(f)
  <2>1. \A n \in 0 .. N : n # 0 => n \in 1 .. N /\ n - 1 \in 0 .. N
    BY <1>1
  <2>2. \A n \in 0 .. N : f[n] = IF n = 0 THEN 0 ELSE f[n - 1] + parts[n].size
    BY <1>2, <1>4, <2>1 DEF Follows
  <2> QED
    BY <1>4, <2>2 DEF Follows
<1>6. Solves(g)
  BY <1>5
<1> HIDE DEF g
<1>7. g = [n \in 0 .. N |-> g[n]] /\ g[0] = 0
  BY <1>1, <1>6
<1>8. \A n \in 1 .. N : n \in 0 .. N /\ g[n] = g[n - 1] + parts[n].size
  <2>1. \A n \in 1 .. N : n \in 0 .. N /\ n # 0
    BY <1>1
  <2> QED
    BY <1>6, <2>1
<1>9. Follows(g, Nat, 0, N, step)
  <2>1. \A n \in 1 .. N : g[n - 1] \in Nat => g[n] = step[n][g[n - 1]]
    BY <1>2, <1>8
  <2> QED
    BY <1>1, <1>2, <1>7, <2>1, Unrolled
<1> QED
  BY <1>1, <1>3, <1>7, <1>9 DEF Follows, N

\* A package that is gone on with is within its limits.
LEMMA PackageFits ==
    ASSUME NEW file, file.parts \in Seq(DocumentPart), ArchiveStatus(file) = 0
    PROVE  /\ Len(file.parts) <= MaxEntries
           /\ SizeUpTo(file.parts)[Len(file.parts)] <= MaxUncompressed
<1> DEFINE parts == file.parts
           N == Len(parts)
           bad == {n \in DOMAIN parts :
                      parts[n].flaw # "none" \/ SizeUpTo(parts)[n] > MaxUncompressed}
           first == CHOOSE n \in bad : \A m \in bad : n <= m
           names == {parts[n].name : n \in DOMAIN parts}
           missing == ~ {"types", "document"} \subseteq {parts[n].kind : n \in DOMAIN parts}
<1>1. N \in Nat /\ DOMAIN parts = 1 .. N /\ MaxEntries \in Nat /\ MaxUncompressed \in Nat
  BY MediaLimits
<1>2. ArchiveStatus(file) =
          CASE ~ file.readable -> 400
            [] file.readable /\ (N > MaxEntries \/ Cardinality(names) < N) -> 400
            [] OTHER -> IF bad # {} THEN FlawStatus(parts[first].flaw)
                        ELSE IF missing THEN 400 ELSE 0
  BY DEF ArchiveStatus
<1>3. \A flaw : FlawStatus(flaw) # 0
  BY DEF FlawStatus
<1> HIDE DEF N, bad, first, names, missing
<1>4. ~ (N > MaxEntries) /\ bad = {}
  BY <1>2, <1>3
<1>5. SizeUpTo(parts)[N] \in Nat /\ SizeUpTo(parts)[0] = 0
  <2>1. N \in 0 .. N
    BY <1>1
  <2> QED
    BY <2>1, SizesExist DEF N
<1>6. SizeUpTo(parts)[N] <= MaxUncompressed
  <2>1. CASE N = 0
    BY <1>1, <1>5, <2>1
  <2>2. CASE N # 0
    <3>1. N \in DOMAIN parts
      BY <1>1, <2>2
    <3>2. ~ (SizeUpTo(parts)[N] > MaxUncompressed)
      BY <1>4, <3>1 DEF bad
    <3> QED
      BY <1>1, <1>5, <3>2
  <2> QED
    BY <2>1, <2>2
<1> QED
  BY <1>1, <1>4, <1>6 DEF N

\* The archive is opened, or refused and closed.
LEMMA OpenArchiveKeeps ==
    ASSUME MediaInv, OpenArchive
    PROVE  MediaInv'
<1>1. /\ stage = "archive" /\ UNCHANGED <<upload, installed, done, rendered>>
      /\ opened = {"file"} /\ done = <<>> /\ IsDocument
      /\ rendered \in Nat /\ rendered <= MaxTotalPixels
  BY DEF OpenArchive, MediaInv, MediaTypeOK, OpenAsNeeded
<1>2. CASE ArchiveStatus(upload.file) # 0
  <2>1. Refuse(ArchiveStatus(upload.file))
    BY <1>2 DEF OpenArchive
  <2>2. stage' = "answered" /\ answer' # 200 /\ opened' = {}
    BY <1>1, <1>2, <2>1, ArchiveStatusIsNoSuccess DEF Refuse, Reply
  <2> QED
    BY <1>1, <2>2, RefusalKeeps
<1>3. CASE ArchiveStatus(upload.file) = 0
  <2>1. stage' = "part" /\ answer' = answer /\ opened' = opened
    BY <1>3 DEF OpenArchive, Continue
  <2>2. ~ Delivered' /\ IsDocument'
    BY <1>1, <2>1, NotDelivered DEF Delivered, IsDocument
  <2>3. MediaTypeOK' /\ OpenAsNeeded'
    BY <1>1, <2>1, <2>2 DEF MediaInv, MediaTypeOK, OpenAsNeeded
  <2>4. PartsAreTreated'
    <3>1. upload.file.parts \in Seq(DocumentPart)
      BY <1>1, FileOfDocument DEF MediaInv
    <3> QED
      BY <1>1, <3>1 DEF PartsAreTreated
  <2>5. UnpackedWithinBudget'
    <3>1. upload.file.parts \in Seq(DocumentPart)
      BY <1>1, FileOfDocument DEF MediaInv
    <3> QED
      BY <1>1, <1>3, <3>1, PackageFits DEF UnpackedWithinBudget
  <2> QED
    BY <1>1, <2>1, <2>2, <2>3, <2>4, <2>5 DEF MediaInv
<1> QED
  BY <1>2, <1>3

\* One thing more in a list of things of whatever kind.
LEMMA OneMoreDone ==
    ASSUME NEW d, d \in Seq({d[n] : n \in DOMAIN d}), NEW e, NEW more, more = Append(d, e)
    PROVE  /\ more \in Seq({more[n] : n \in DOMAIN more})
           /\ Len(d) \in Nat /\ Len(more) = Len(d) + 1
           /\ DOMAIN d = 1 .. Len(d) /\ DOMAIN more = 1 .. Len(d) + 1
           /\ \A n \in 1 .. Len(d) : more[n] = d[n]
           /\ more[Len(d) + 1] = e
<1> DEFINE T == {d[n] : n \in DOMAIN d} \cup {e}
<1>1. d \in Seq(T) /\ e \in T
  <2>1. {d[n] : n \in DOMAIN d} \subseteq T
    OBVIOUS
  <2> HIDE DEF T
  <2> QED
    BY <2>1, SeqMonotonic DEF T
<1> HIDE DEF T
<1>2. PICK N \in Nat : N = Len(d)
  BY <1>1
<1>3. /\ more \in Seq(T) /\ Len(more) = N + 1
      /\ \A n \in 1 .. N : more[n] = d[n]
      /\ more[N + 1] = e
  BY <1>1, <1>2
<1>4. DOMAIN more = 1 .. N + 1 /\ DOMAIN d = 1 .. N
  BY <1>1, <1>2, <1>3
<1>5. more \in Seq({more[n] : n \in DOMAIN more})
  <2> DEFINE X == {more[n] : n \in DOMAIN more}
  <2>1. more \in [1 .. N + 1 -> T]
    BY <1>3, LenProperties
  <2>2. \A n \in 1 .. N + 1 : more[n] \in X
    BY <1>4
  <2> HIDE DEF X
  <2>3. more \in [1 .. N + 1 -> X]
    BY <2>1, <2>2
  <2> QED
    BY <1>2, <2>3
<1> QED
  BY <1>2, <1>3, <1>4, <1>5

\* One part of the package is treated, or the package fails and is closed.
LEMMA SanitizePartKeeps ==
    ASSUME MediaInv, SanitizePart
    PROVE  MediaInv'
<1>1. /\ stage = "part" /\ UNCHANGED <<upload, installed, rendered>>
      /\ Len(done) < Len(upload.file.parts)
      /\ opened = {"file"} /\ IsDocument /\ PartsAreTreated
      /\ rendered \in Nat /\ rendered <= MaxTotalPixels
  BY DEF SanitizePart, MediaInv, MediaTypeOK, OpenAsNeeded
<1>2. PICK N \in Nat : N = Len(done)
  BY <1>1 DEF PartsAreTreated
<1>3. PICK handed : handed = upload.file.parts[N + 1]
  OBVIOUS
<1>4. handed \in DocumentPart /\ upload.file.parts \in Seq(DocumentPart)
  BY <1>1, <1>2, <1>3, FileOfDocument DEF MediaInv
<1>5. \/ Refuse(400)
      \/ \E part : Treated(handed, part) /\ Keep(part)
  <2>1. handed = NextPart
    BY <1>2, <1>3 DEF NextPart
  <2>2. handed.kind \in {"document", "header", "generic", "metadata", "rels", "types"}
    BY <1>4 DEF DocumentPart
  <2>3. CASE handed.kind = "metadata"
    <3>1. Keep(ScrubMetadata(handed)) /\ Treated(handed, ScrubMetadata(handed))
      BY <2>1, <2>3 DEF SanitizePart, Treated, IsStoryPart
    <3> QED
      BY <3>1
  <2>4. CASE handed.kind = "rels"
    <3>1. Refuse(400) \/ (~ RelationsRemain(handed) /\ Keep(ScrubRelationships(handed)))
      BY <2>1, <2>4 DEF SanitizePart, IsStoryPart
    <3>2. ~ RelationsRemain(handed) => Treated(handed, ScrubRelationships(handed))
      BY <2>4 DEF Treated
    <3> QED
      BY <3>1, <3>2
  <2>5. CASE IsStoryPart(handed)
    <3>1. Refuse(400) \/ (~ StoryRefuses(handed) /\ Keep(RedactStoryPart(handed)))
      BY <2>1, <2>5 DEF SanitizePart, IsStoryPart
    <3>2. ~ StoryRefuses(handed) => Treated(handed, RedactStoryPart(handed))
      BY <2>5 DEF Treated
    <3> QED
      BY <3>1, <3>2
  <2>6. CASE handed.kind = "generic"
    <3>1. Refuse(400) \/ (~ GenericRefuses(handed) /\ Keep(RedactGenericXml(handed)))
      BY <2>1, <2>6 DEF SanitizePart, IsStoryPart
    <3>2. ~ GenericRefuses(handed) => Treated(handed, RedactGenericXml(handed))
      BY <2>6 DEF Treated
    <3> QED
      BY <3>1, <3>2
  <2>7. CASE handed.kind = "types"
    <3>1. Keep(handed) /\ Treated(handed, handed)
      BY <2>1, <2>7 DEF SanitizePart, Treated, IsStoryPart
    <3> QED
      BY <3>1
  <2> QED
    BY <2>2, <2>3, <2>4, <2>5, <2>6, <2>7 DEF IsStoryPart
<1>6. CASE Refuse(400)
  <2>1. stage' = "answered" /\ answer' # 200 /\ opened' = {}
    BY <1>1, <1>6 DEF Refuse, Reply
  <2> QED
    BY <1>1, <2>1, RefusalKeeps
<1>7. CASE \E part : Treated(handed, part) /\ Keep(part)
  <2>1. PICK part : Treated(handed, part) /\ Keep(part)
    BY <1>7
  <2>2. stage' = "part" /\ answer' = answer /\ opened' = opened /\ done' = Append(done, part)
    BY <2>1 DEF Keep, Continue
  <2>3. ~ Delivered' /\ IsDocument'
    BY <1>1, <2>2, NotDelivered DEF Delivered, IsDocument
  <2>4. MediaTypeOK' /\ OpenAsNeeded'
    BY <1>1, <2>2, <2>3 DEF MediaInv, MediaTypeOK, OpenAsNeeded
  <2>5. PartsAreTreated'
    <3>1. /\ done' \in Seq({done'[n] : n \in DOMAIN done'})
          /\ Len(done') = N + 1
          /\ DOMAIN done = 1 .. N /\ DOMAIN done' = 1 .. N + 1
          /\ \A n \in 1 .. N : done'[n] = done[n]
          /\ done'[N + 1] = part
      BY <1>1, <1>2, <2>2, OneMoreDone, SMTT(60) DEF PartsAreTreated
    <3>2. Len(done') <= Len(upload'.file.parts)
      <4>1. PICK M \in Nat : M = Len(upload.file.parts)
        BY <1>4
      <4> QED
        BY <1>1, <1>2, <3>1, <4>1
    <3>3. ASSUME NEW n \in DOMAIN done' PROVE Treated(upload'.file.parts[n], done'[n])
      <4>1. CASE n \in 1 .. N
        BY <1>1, <3>1, <4>1 DEF PartsAreTreated
      <4>2. CASE n = N + 1
        BY <1>1, <1>3, <2>1, <3>1, <4>2
      <4> QED
        BY <1>2, <3>1, <3>3, <4>1, <4>2
    <3> QED
      BY <3>1, <3>2, <3>3 DEF PartsAreTreated
  <2>6. UnpackedWithinBudget'
    BY <1>1 DEF MediaInv, UnpackedWithinBudget
  <2> QED
    BY <1>1, <2>2, <2>3, <2>4, <2>5, <2>6 DEF MediaInv
<1> QED
  BY <1>5, <1>6, <1>7

\* A document that is complete.
LEMMA VerifyDocumentKeeps ==
    ASSUME MediaInv, VerifyDocument
    PROVE  MediaInv'
<1>1. /\ stage = "part" /\ UNCHANGED <<upload, installed, done, rendered>>
      /\ Len(done) = Len(upload.file.parts)
      /\ opened = {"file"} /\ IsDocument /\ PartsAreTreated
      /\ rendered \in Nat /\ rendered <= MaxTotalPixels
  BY DEF VerifyDocument, MediaInv, MediaTypeOK, OpenAsNeeded
<1>2. stage' = "answered" /\ opened' = {} /\ (answer' = 200 => Verified(done))
  BY <1>1 DEF VerifyDocument, Deliver, Refuse, Reply
<1>3. MediaTypeOK' /\ OpenAsNeeded'
  BY <1>1, <1>2 DEF MediaInv, MediaTypeOK, OpenAsNeeded
<1>4. IsDocument' /\ PartsAreTreated' /\ Len(done') = Len(upload'.file.parts)
  BY <1>1 DEF IsDocument, PartsAreTreated
<1>5. Delivered' => Verified(done')
  BY <1>1, <1>2 DEF Delivered
<1> QED
  BY <1>1, <1>2, <1>3, <1>4, <1>5 DEF MediaInv, UnpackedWithinBudget

\* A picture is covered, or fails and is closed.
LEMMA SanitizeImageKeeps ==
    ASSUME MediaInv, SanitizeImage
    PROVE  MediaInv'
<1>1. /\ stage = "image" /\ UNCHANGED <<upload, installed, rendered>>
      /\ opened = {"file"} /\ ~ IsDocument /\ done = <<>>
      /\ rendered \in Nat /\ rendered <= MaxTotalPixels
  BY DEF SanitizeImage, MediaInv, MediaTypeOK, OpenAsNeeded
<1>2. PICK picture : picture = upload.file.pages[1]
  OBVIOUS
<1>3. \/ \E status \in {400, 413, 415, 422} : Refuse(status) /\ UNCHANGED done
      \/ /\ Len(upload.file.pages) = 1 /\ ~ PictureFails(picture)
         /\ Deliver /\ done' = <<Finished(picture)>>
  BY <1>2 DEF SanitizeImage
<1>4. CASE \E status \in {400, 413, 415, 422} : Refuse(status) /\ UNCHANGED done
  <2>1. stage' = "answered" /\ answer' # 200 /\ opened' = {}
    BY <1>1, <1>4 DEF Refuse, Reply
  <2> QED
    BY <1>1, <2>1, RefusalKeeps
<1>5. CASE /\ Len(upload.file.pages) = 1 /\ ~ PictureFails(picture)
           /\ Deliver /\ done' = <<Finished(picture)>>
  <2>1. stage' = "answered" /\ opened' = {}
    BY <1>1, <1>5 DEF Deliver, Reply
  <2>2. MediaTypeOK' /\ OpenAsNeeded' /\ ~ IsDocument'
    BY <1>1, <2>1 DEF MediaInv, MediaTypeOK, OpenAsNeeded, IsDocument
  <2>3. PICK finished : finished = Finished(picture)
    OBVIOUS
  <2>4. done' = <<finished>> /\ DOMAIN done' = {1} /\ Len(done') = 1 /\ done'[1] = finished
    BY <1>5, <2>3
  <2>5. Covered(upload.file.pages[1], finished)
    BY <1>2, <1>5, <2>3 DEF Covered, PictureFails
  <2>6. PagesAreCovered' /\ Len(done') = Len(upload'.file.pages)
    <3>1. done' \in Seq({done'[n] : n \in DOMAIN done'})
      BY <2>4
    <3> QED
      BY <1>1, <1>5, <2>4, <2>5, <3>1 DEF PagesAreCovered
  <2> QED
    BY <1>1, <2>1, <2>2, <2>6 DEF MediaInv, UnpackedWithinBudget
<1> QED
  BY <1>3, <1>4, <1>5

\* A page fails, whatever is open.
LEMMA PdfFailsKeeps ==
    ASSUME MediaInv, stage \in {"pdf", "page", "picture"}, UNCHANGED <<upload, rendered>>,
           NEW status \in {413, 422}, PdfFails(status)
    PROVE  MediaInv'
<1>1. opened \subseteq {"file", "document", "finished", "page", "picture"}
  BY DEF MediaInv, OpenAsNeeded
<1>2. stage' = "answered" /\ answer' # 200 /\ opened' = {}
  BY <1>1 DEF PdfFails, Reply
<1> QED
  BY <1>2, RefusalKeeps DEF MediaInv, MediaTypeOK

\* The PDF is opened, or refused.
LEMMA OpenPdfKeeps ==
    ASSUME MediaInv, OpenPdf
    PROVE  MediaInv'
<1>1. /\ stage = "pdf" /\ UNCHANGED <<upload, installed, done, rendered>>
      /\ opened = {"file"} /\ ~ IsDocument /\ done = <<>>
      /\ rendered \in Nat /\ rendered <= MaxTotalPixels
  BY DEF OpenPdf, MediaInv, MediaTypeOK, OpenAsNeeded
<1>2. \/ \E status \in {413, 422} : PdfFails(status)
      \/ /\ Len(upload.file.pages) \in 1 .. MaxPages
         /\ stage' = "page" /\ opened' = opened \cup {"document"} /\ UNCHANGED answer
  BY DEF OpenPdf
<1>3. CASE \E status \in {413, 422} : PdfFails(status)
  BY <1>1, <1>3, PdfFailsKeeps
<1>4. CASE /\ Len(upload.file.pages) \in 1 .. MaxPages
           /\ stage' = "page" /\ opened' = opened \cup {"document"} /\ UNCHANGED answer
  <2>1. ~ Delivered' /\ ~ IsDocument'
    BY <1>1, <1>4, NotDelivered DEF Delivered, IsDocument
  <2>2. MediaTypeOK' /\ OpenAsNeeded'
    BY <1>1, <1>4, <2>1 DEF MediaInv, MediaTypeOK, OpenAsNeeded
  <2>3. Len(upload'.file.pages) <= MaxPages /\ Len(upload.file.pages) \in Nat
    BY <1>1, <1>4, MediaLimits
  <2>4. PagesAreCovered'
    BY <1>1, <2>3 DEF PagesAreCovered
  <2> QED
    BY <1>1, <1>4, <2>1, <2>2, <2>3, <2>4 DEF MediaInv, UnpackedWithinBudget
<1> QED
  BY <1>2, <1>3, <1>4

\* A page is rendered within the pixels left, or everything is closed.
LEMMA RenderPageKeeps ==
    ASSUME MediaInv, RenderPage
    PROVE  MediaInv'
<1>1. /\ stage = "page" /\ UNCHANGED <<upload, installed, done>>
      /\ opened \subseteq {"file", "document", "finished"} /\ ~ IsDocument
      /\ PagesAreCovered /\ Len(done) < Len(upload.file.pages)
      /\ Len(upload.file.pages) <= MaxPages
      /\ rendered \in Nat /\ rendered <= MaxTotalPixels
  BY DEF RenderPage, MediaInv, MediaTypeOK, OpenAsNeeded
<1>2. PICK page : page = NextPage
  OBVIOUS
<1>3. page.pixels \in Nat
  <2>1. PICK N \in Nat : N = Len(done)
    BY <1>1 DEF PagesAreCovered
  <2>2. upload.file.pages \in Seq(Page) /\ page = upload.file.pages[N + 1]
    BY <1>1, <1>2, <2>1, FileOfPages DEF MediaInv, NextPage
  <2>3. page \in Page
    BY <1>1, <2>1, <2>2
  <2> QED
    BY <2>3 DEF Page
<1>4. \/ \E status \in {413, 422} : PdfFails(status) /\ UNCHANGED rendered
      \/ /\ ~ OverBudget(page.pixels) /\ rendered' = rendered + page.pixels
         /\ stage' = "picture" /\ opened' = opened \cup {"page", "picture"}
         /\ UNCHANGED answer
  BY <1>2 DEF RenderPage
<1>5. CASE \E status \in {413, 422} : PdfFails(status) /\ UNCHANGED rendered
  BY <1>1, <1>5, PdfFailsKeeps
<1>6. CASE /\ ~ OverBudget(page.pixels) /\ rendered' = rendered + page.pixels
           /\ stage' = "picture" /\ opened' = opened \cup {"page", "picture"}
           /\ UNCHANGED answer
  <2>1. ~ Delivered' /\ ~ IsDocument'
    BY <1>1, <1>6, NotDelivered DEF Delivered, IsDocument
  <2>2. rendered' \in Nat /\ rendered' <= MaxTotalPixels
    <3>1. rendered' \in Nat
      BY <1>1, <1>3, <1>6
    <3> QED
      BY <1>6, <3>1, MediaLimits DEF OverBudget
  <2>3. MediaTypeOK' /\ OpenAsNeeded'
    BY <1>1, <1>6, <2>1, <2>2 DEF MediaInv, MediaTypeOK, OpenAsNeeded
  <2>4. PagesAreCovered'
    BY <1>1 DEF PagesAreCovered
  <2> QED
    BY <1>1, <1>6, <2>1, <2>2, <2>3, <2>4 DEF MediaInv, UnpackedWithinBudget
<1> QED
  BY <1>4, <1>5, <1>6

\* A page is covered and kept, or everything is closed.
LEMMA SanitizePageKeeps ==
    ASSUME MediaInv, SanitizePage
    PROVE  MediaInv'
<1>1. /\ stage = "picture" /\ UNCHANGED <<upload, installed, rendered>>
      /\ opened \subseteq {"file", "document", "finished", "page", "picture"} /\ ~ IsDocument
      /\ PagesAreCovered /\ Len(done) < Len(upload.file.pages)
      /\ Len(upload.file.pages) <= MaxPages
      /\ rendered \in Nat /\ rendered <= MaxTotalPixels
  BY DEF SanitizePage, MediaInv, MediaTypeOK, OpenAsNeeded
<1>2. PICK N \in Nat : N = Len(done)
  BY <1>1 DEF PagesAreCovered
<1>3. PICK handed : handed = upload.file.pages[N + 1]
  OBVIOUS
<1>4. handed = NextPage
  BY <1>2, <1>3 DEF NextPage
<1>5. CASE PolicyRefuses(handed) \/ PictureFails(handed)
  BY <1>1, <1>4, <1>5, PdfFailsKeeps DEF SanitizePage
<1>6. CASE ~ (PolicyRefuses(handed) \/ PictureFails(handed))
  <2>1. PICK page : page = Finished(handed)
    OBVIOUS
  <2>2. /\ done' = Append(done, page) /\ stage' = "page" /\ UNCHANGED answer
        /\ opened' = (opened \ {"page", "picture"}) \cup {"finished"}
    BY <1>4, <1>6, <2>1 DEF SanitizePage
  <2>3. ~ Delivered' /\ ~ IsDocument'
    BY <1>1, <2>2, NotDelivered DEF Delivered, IsDocument
  <2>4. MediaTypeOK' /\ OpenAsNeeded'
    BY <1>1, <2>2, <2>3 DEF MediaInv, MediaTypeOK, OpenAsNeeded
  <2>5. Covered(handed, page)
    BY <1>6, <2>1 DEF Covered, PictureFails
  <2>6. PagesAreCovered'
    <3>1. /\ done' \in Seq({done'[n] : n \in DOMAIN done'})
          /\ Len(done') = N + 1
          /\ DOMAIN done = 1 .. N /\ DOMAIN done' = 1 .. N + 1
          /\ \A n \in 1 .. N : done'[n] = done[n]
          /\ done'[N + 1] = page
      BY <1>1, <1>2, <2>2, OneMoreDone, SMTT(60) DEF PagesAreCovered
    <3>2. Len(done') <= Len(upload'.file.pages)
      <4>1. PICK M \in Nat : M = Len(upload.file.pages)
        BY <1>1, FileOfPages DEF MediaInv
      <4> QED
        BY <1>1, <1>2, <3>1, <4>1
    <3>3. ASSUME NEW n \in DOMAIN done' PROVE Covered(upload'.file.pages[n], done'[n])
      <4>1. CASE n \in 1 .. N
        BY <1>1, <3>1, <4>1 DEF PagesAreCovered
      <4>2. CASE n = N + 1
        BY <1>1, <1>3, <2>5, <3>1, <4>2
      <4> QED
        BY <1>2, <3>1, <3>3, <4>1, <4>2
    <3> QED
      BY <3>1, <3>2, <3>3 DEF PagesAreCovered
  <2> QED
    BY <1>1, <2>2, <2>3, <2>4, <2>6 DEF MediaInv, UnpackedWithinBudget
<1> QED
  BY <1>5, <1>6

\* The pages are written and closed, and delivered or not.
LEMMA SavePdfKeeps ==
    ASSUME MediaInv, SavePdf
    PROVE  MediaInv'
<1>1. /\ stage = "page" /\ UNCHANGED <<upload, installed, done, rendered>>
      /\ opened \subseteq {"file", "document", "finished"} /\ ~ IsDocument
      /\ PagesAreCovered /\ Len(done) = Len(upload.file.pages)
      /\ rendered \in Nat /\ rendered <= MaxTotalPixels
  BY DEF SavePdf, MediaInv, MediaTypeOK, OpenAsNeeded
<1>2. stage' = "answered" /\ opened' = {}
  BY <1>1 DEF SavePdf, Reply
<1>3. MediaTypeOK' /\ OpenAsNeeded' /\ ~ IsDocument'
  BY <1>1, <1>2 DEF MediaInv, MediaTypeOK, OpenAsNeeded, IsDocument
<1>4. PagesAreCovered' /\ Len(done') = Len(upload'.file.pages)
  BY <1>1 DEF PagesAreCovered
<1> QED
  BY <1>1, <1>2, <1>3, <1>4 DEF MediaInv, UnpackedWithinBudget

----------------------------------------------------------------------------
(* What a delivered document shows. *)

\* A part as files have them.
WellFormed(part) ==
    /\ part \in DocumentPart
    /\ ~ IsStoryPart(part) => part.paragraphs = <<>>
    /\ part.kind # "rels" => part.relations = <<>>

\* What _verify looks at in a part.
VerifiedPart(part) ==
    IsStoryPart(part) \/ part.kind = "generic" =>
        /\ \A i \in DOMAIN part.loose :
              part.loose[i].key = "element" => ~ HasSensitiveText(part.loose[i].text)
        /\ \A i \in DOMAIN part.attributes : ~ HasSensitiveText(part.attributes[i].text)

ShowsNothing(part) ==
    /\ \A i \in DOMAIN part.paragraphs : ~ HasSensitiveText(Together(part.paragraphs[i]))
    /\ part.kind = "generic" => ~ HasSensitiveText(Together(Texts(part.loose)))
    /\ Examined(part) =>
          /\ \A i \in DOMAIN part.loose :
                part.loose[i].key = "element" => ~ HasSensitiveText(part.loose[i].text)
          /\ \A i \in DOMAIN part.attributes : ~ HasSensitiveText(part.attributes[i].text)
    /\ \A i \in DOMAIN part.relations : ~ HasSensitiveTarget(part.relations[i].text)

\* The same nodes, but for marks.
SameNodes(new, old) ==
    /\ DOMAIN new = DOMAIN old
    /\ \A i \in DOMAIN new :
          /\ Len(new[i]) = Len(old[i])
          /\ \A k \in DOMAIN new[i] : new[i][k] \in {old[i][k], Mark}

KeepsItsWords(handed, part) ==
    /\ \A i \in DOMAIN part.paragraphs : SameNodes(part.paragraphs[i], handed.paragraphs[i])
    /\ part.kind = "generic" => SameNodes(Texts(part.loose), Texts(handed.loose))

NotBlocked(handed) ==
    /\ \A i \in DOMAIN handed.paragraphs : ~ Refuses(Together(handed.paragraphs[i]))
    /\ handed.kind = "generic" => ~ Refuses(Together(Texts(handed.loose)))

\* The texts of a part are sequences of words.
LEMMA PartTypes ==
    ASSUME NEW part \in DocumentPart
    PROVE  /\ part.attributes \in Seq(Labelled) /\ part.loose \in Seq(Labelled)
           /\ part.paragraphs \in Seq(Seq(Words))
           /\ part.relations \in Seq([external : BOOLEAN, text : Words])
           /\ Texts(part.loose) \in Seq(Words)
<1>1. /\ part.attributes \in Seq(Labelled) /\ part.loose \in Seq(Labelled)
      /\ part.paragraphs \in Seq(Seq(Words))
      /\ part.relations \in Seq([external : BOOLEAN, text : Words])
  BY DEF DocumentPart
<1>2. ASSUME NEW slots \in Seq(Labelled) PROVE Texts(slots) \in Seq(Words)
  <2>1. PICK N \in Nat : N = Len(slots)
    OBVIOUS
  <2>2. DOMAIN slots = 1 .. N /\ \A i \in 1 .. N : slots[i] \in Labelled
    BY <2>1
  <2>3. \A i \in 1 .. N : slots[i].text \in Words
    BY <2>2 DEF Labelled
  <2>4. Texts(slots) \in [1 .. N -> Words]
    BY <2>2, <2>3 DEF Texts
  <2> QED
    BY <2>1, <2>4
<1> QED
  BY <1>1, <1>2

\* Metadata is emptied.
LEMMA MetadataShowsNothing ==
    ASSUME NEW handed, WellFormed(handed), handed.kind = "metadata",
           NEW part, part = ScrubMetadata(handed)
    PROVE  ShowsNothing(part) /\ KeepsItsWords(handed, part) /\ NotBlocked(handed)
<1>1. handed \in DocumentPart
  BY DEF WellFormed
<1>2. handed.paragraphs = <<>> /\ handed.relations = <<>>
  BY DEF WellFormed, IsStoryPart
<1>3. handed.attributes \in Seq(Labelled) /\ handed.loose \in Seq(Labelled)
  BY <1>1, PartTypes
<1>4. /\ part.kind = "metadata" /\ part.paragraphs = <<>> /\ part.relations = <<>>
      /\ part.attributes = [i \in DOMAIN handed.attributes |->
                               [handed.attributes[i] EXCEPT !.text = <<>>]]
      /\ part.loose = [i \in DOMAIN handed.loose |->
            IF handed.loose[i].key = "element" THEN [handed.loose[i] EXCEPT !.text = <<>>]
            ELSE handed.loose[i]]
  BY <1>1, <1>2 DEF ScrubMetadata, DocumentPart
<1>5. \A i \in DOMAIN part.attributes : part.attributes[i].text = <<>>
  <2> SUFFICES ASSUME NEW i \in DOMAIN handed.attributes
               PROVE  [handed.attributes[i] EXCEPT !.text = <<>>].text = <<>>
    BY <1>4
  <2>1. handed.attributes[i] \in Labelled
    BY <1>3
  <2> QED
    BY <2>1 DEF Labelled
<1>6. \A i \in DOMAIN part.loose : part.loose[i].key = "element" => part.loose[i].text = <<>>
  <2> SUFFICES ASSUME NEW i \in DOMAIN handed.loose, part.loose[i].key = "element"
               PROVE  part.loose[i].text = <<>>
    BY <1>4
  <2>1. handed.loose[i] \in Labelled
    BY <1>3
  <2>2. part.loose[i] = IF handed.loose[i].key = "element" THEN [handed.loose[i] EXCEPT !.text = <<>>]
                        ELSE handed.loose[i]
    BY <1>4
  <2> QED
    BY <2>1, <2>2 DEF Labelled
<1>7. ShowsNothing(part)
  BY <1>4, <1>5, <1>6, NothingInIt DEF ShowsNothing
<1>8. KeepsItsWords(handed, part)
  BY <1>4 DEF KeepsItsWords
<1>9. NotBlocked(handed)
  BY <1>2 DEF NotBlocked
<1> QED
  BY <1>7, <1>8, <1>9

\* Relations lose their external targets.
LEMMA RelationsShowNothing ==
    ASSUME NEW handed, WellFormed(handed), handed.kind = "rels", ~ RelationsRemain(handed),
           NEW part, part = ScrubRelationships(handed)
    PROVE  ShowsNothing(part) /\ KeepsItsWords(handed, part) /\ NotBlocked(handed)
<1>1. handed \in DocumentPart
  BY DEF WellFormed
<1>2. handed.paragraphs = <<>>
  BY DEF WellFormed, IsStoryPart
<1>3. handed.relations \in Seq([external : BOOLEAN, text : Words])
  BY <1>1, PartTypes
<1>4. /\ part.kind = "rels" /\ part.paragraphs = <<>>
      /\ part.relations = [i \in DOMAIN handed.relations |->
            IF handed.relations[i].external THEN [handed.relations[i] EXCEPT !.text = Removed]
            ELSE handed.relations[i]]
  BY <1>1, <1>2 DEF ScrubRelationships, DocumentPart
<1>5. \A i \in DOMAIN part.relations : ~ HasSensitiveTarget(part.relations[i].text)
  <2> SUFFICES ASSUME NEW i \in DOMAIN handed.relations
               PROVE  ~ HasSensitiveTarget(part.relations[i].text)
    BY <1>4
  <2>1. handed.relations[i] \in [external : BOOLEAN, text : Words]
    <3> DEFINE R == [external : BOOLEAN, text : Words]
    <3>1. handed.relations \in Seq(R)
      BY <1>3
    <3> HIDE DEF R
    <3>2. handed.relations[i] \in R
      BY <3>1
    <3> QED
      BY <3>2 DEF R
  <2>2. part.relations[i] =
            IF handed.relations[i].external THEN [handed.relations[i] EXCEPT !.text = Removed]
            ELSE handed.relations[i]
    BY <1>4
  <2>3. \/ part.relations[i].text = Removed
        \/ ~ handed.relations[i].external /\ part.relations[i].text = handed.relations[i].text
    BY <2>1, <2>2
  <2>4. ~ handed.relations[i].external => ~ HasSensitiveTarget(handed.relations[i].text)
    BY DEF RelationsRemain
  <2>5. ~ HasSensitiveTarget(Removed)
    <3>1. Findings(Removed, Masked \cup Refusable) = {}
      BY NothingInIt DEF HasSensitiveText
    <3> QED
      BY <3>1 DEF HasSensitiveTarget, Findings
  <2> QED
    BY <2>3, <2>4, <2>5
<1>6. ShowsNothing(part)
  <2>1. part.kind = "rels" /\ part.paragraphs = <<>>
    BY <1>4
  <2> QED
    BY <1>5, <2>1 DEF ShowsNothing, Examined
<1>7. KeepsItsWords(handed, part)
  BY <1>4 DEF KeepsItsWords
<1>8. NotBlocked(handed)
  BY <1>2 DEF NotBlocked
<1> QED
  BY <1>6, <1>7, <1>8

\* A paragraph is redacted as a whole and cut back to its runs.
LEMMA StoryShowsNothing ==
    ASSUME NEW handed, WellFormed(handed), IsStoryPart(handed), ~ StoryRefuses(handed),
           NEW part, part = RedactStoryPart(handed), VerifiedPart(part)
    PROVE  ShowsNothing(part) /\ KeepsItsWords(handed, part) /\ NotBlocked(handed)
<1>1. handed \in DocumentPart
  BY DEF WellFormed
<1>2. handed.relations = <<>> /\ handed.kind # "generic"
  BY DEF WellFormed, IsStoryPart
<1>3. handed.paragraphs \in Seq(Seq(Words))
  BY <1>1, PartTypes
<1>4. /\ part.kind = handed.kind /\ part.relations = <<>> /\ part.loose = handed.loose
      /\ part.paragraphs = [i \in DOMAIN handed.paragraphs |-> RedactTogether(handed.paragraphs[i])]
  BY <1>1, <1>2 DEF RedactStoryPart, DocumentPart
<1>5. ASSUME NEW i \in DOMAIN handed.paragraphs
      PROVE  /\ ~ Refuses(Together(handed.paragraphs[i]))
             /\ ~ HasSensitiveText(Together(part.paragraphs[i]))
             /\ SameNodes(part.paragraphs[i], handed.paragraphs[i])
  <2>1. handed.paragraphs[i] \in Seq(Words) /\ part.paragraphs[i] = RedactTogether(handed.paragraphs[i])
    BY <1>3, <1>4
  <2>2. ~ Refuses(Together(handed.paragraphs[i]))
    BY DEF StoryRefuses
  <2> QED
    BY <2>1, <2>2, TogetherIsRedacted DEF SameNodes
<1>6. DOMAIN part.paragraphs = DOMAIN handed.paragraphs
  BY <1>4
<1>7. ShowsNothing(part)
  <2>1. IsStoryPart(part) /\ part.kind # "generic"
    BY <1>2, <1>4 DEF IsStoryPart
  <2>2. /\ \A i \in DOMAIN part.loose :
              part.loose[i].key = "element" => ~ HasSensitiveText(part.loose[i].text)
        /\ \A i \in DOMAIN part.attributes : ~ HasSensitiveText(part.attributes[i].text)
    BY <2>1 DEF VerifiedPart
  <2>3. \A i \in DOMAIN part.paragraphs : ~ HasSensitiveText(Together(part.paragraphs[i]))
    BY <1>5, <1>6
  <2>4. \A i \in DOMAIN part.relations : ~ HasSensitiveTarget(part.relations[i].text)
    BY <1>4
  <2> QED
    BY <2>1, <2>2, <2>3, <2>4 DEF ShowsNothing
<1>8. KeepsItsWords(handed, part)
  BY <1>2, <1>4, <1>5, <1>6 DEF KeepsItsWords
<1>9. NotBlocked(handed)
  BY <1>2, <1>5 DEF NotBlocked
<1> QED
  BY <1>7, <1>8, <1>9

\* Other XML is redacted text by text.
LEMMA GenericShowsNothing ==
    ASSUME NEW handed, WellFormed(handed), handed.kind = "generic", ~ GenericRefuses(handed),
           NEW part, part = RedactGenericXml(handed), VerifiedPart(part)
    PROVE  ShowsNothing(part) /\ KeepsItsWords(handed, part) /\ NotBlocked(handed)
<1>1. handed \in DocumentPart
  BY DEF WellFormed
<1>2. handed.relations = <<>> /\ handed.paragraphs = <<>>
  BY DEF WellFormed, IsStoryPart
<1>3. handed.loose \in Seq(Labelled) /\ Texts(handed.loose) \in Seq(Words)
  BY <1>1, PartTypes
<1> DEFINE texts == RedactTogether(Texts(handed.loose))
<1>4. /\ part.kind = "generic" /\ part.relations = <<>> /\ part.paragraphs = <<>>
      /\ part.loose = WithTexts(handed.loose, texts)
  BY <1>1, <1>2 DEF RedactGenericXml, DocumentPart
<1>5. ~ Refuses(Together(Texts(handed.loose)))
  BY DEF GenericRefuses
<1>6. /\ ~ HasSensitiveText(Together(texts)) /\ DOMAIN texts = DOMAIN Texts(handed.loose)
      /\ SameNodes(texts, Texts(handed.loose))
  BY <1>3, <1>5, TogetherIsRedacted DEF SameNodes
<1>7. texts \in Seq(Words)
  BY <1>3, <1>5, TogetherIsRedacted
<1> HIDE DEF texts
<1>8. Texts(part.loose) = texts
  <2>1. DOMAIN texts = DOMAIN handed.loose
    BY <1>6 DEF Texts
  <2>2. \A i \in DOMAIN handed.loose : [handed.loose[i] EXCEPT !.text = texts[i]].text = texts[i]
    <3> SUFFICES ASSUME NEW i \in DOMAIN handed.loose
                 PROVE  [handed.loose[i] EXCEPT !.text = texts[i]].text = texts[i]
      OBVIOUS
    <3>1. handed.loose[i] \in Labelled
      BY <1>3
    <3> QED
      BY <3>1 DEF Labelled
  <2>3. /\ DOMAIN part.loose = DOMAIN handed.loose
        /\ \A i \in DOMAIN handed.loose : part.loose[i] = [handed.loose[i] EXCEPT !.text = texts[i]]
    BY <1>4 DEF WithTexts
  <2>4. Texts(part.loose) = [i \in DOMAIN texts |-> texts[i]]
    BY <2>1, <2>2, <2>3 DEF Texts
  <2> QED
    BY <1>7, <2>4
<1>9. ShowsNothing(part)
  BY <1>4, <1>6, <1>8 DEF ShowsNothing, VerifiedPart
<1>10. KeepsItsWords(handed, part)
  BY <1>4, <1>6, <1>8 DEF KeepsItsWords
<1>11. NotBlocked(handed)
  BY <1>2, <1>5 DEF NotBlocked
<1> QED
  BY <1>9, <1>10, <1>11

\* In the list of content types there is nothing that is examined.
LEMMA TypesShowNothing ==
    ASSUME NEW handed, WellFormed(handed), handed.kind = "types"
    PROVE  ShowsNothing(handed) /\ KeepsItsWords(handed, handed) /\ NotBlocked(handed)
<1>1. handed.paragraphs = <<>> /\ handed.relations = <<>>
  BY DEF WellFormed, IsStoryPart
<1> QED
  BY <1>1 DEF ShowsNothing, Examined, KeepsItsWords, NotBlocked

\* Each of the four treatments leaves a part that shows nothing.
LEMMA TreatedShowsNothing ==
    ASSUME NEW handed, WellFormed(handed), NEW part, Treated(handed, part), VerifiedPart(part)
    PROVE  ShowsNothing(part) /\ KeepsItsWords(handed, part) /\ NotBlocked(handed)
  BY MetadataShowsNothing, RelationsShowNothing, StoryShowsNothing, GenericShowsNothing,
     TypesShowNothing DEF Treated

\* Every step keeps the invariant.
LEMMA MediaInvStep ==
    ASSUME MediaInv, [MediaNext]_mediaVars
    PROVE  MediaInv'
<1>1. CASE MediaNext
  BY <1>1, DispatchKeeps, OpenArchiveKeeps, SanitizePartKeeps, VerifyDocumentKeeps,
     SanitizeImageKeeps, OpenPdfKeeps, RenderPageKeeps, SanitizePageKeeps, SavePdfKeeps
     DEF MediaNext
<1>2. CASE UNCHANGED mediaVars
  BY <1>2 DEF mediaVars, MediaInv, MediaTypeOK, OpenAsNeeded, PartsAreTreated, PagesAreCovered,
              Delivered, IsDocument, UnpackedWithinBudget
<1> QED
  BY <1>1, <1>2

\* What holds at every stage of an upload: what is open, that what is done was done
\* as its kind needs, and that only what is complete is delivered.
THEOREM MediaInductive == MediaSpec => []MediaInv
<1>1. MediaInit => MediaInv
  BY MediaLimits DEF MediaInit, MediaInv, MediaTypeOK, OpenAsNeeded, Delivered,
                     UnpackedWithinBudget
<1>2. MediaInv /\ [MediaNext]_mediaVars => MediaInv'
  BY MediaInvStep
<1> QED
  BY <1>1, <1>2, PTL DEF MediaSpec

\* Pages, pixels, entries, bytes and open handles stay bounded, for every set of files
\* and every limit.
THEOREM MediaBounded == MediaSpec => []WorkIsBounded
<1>1. MediaInv => WorkIsBounded
  BY DEF MediaInv, OpenAsNeeded, WorkIsBounded, RenderedWithinBudget, NothingStaysOpen
<1> QED
  BY <1>1, MediaInductive, PTL

\* A delivered document shows nothing where it is examined, and has lost no other word.
LEMMA DocumentIsClean ==
    ASSUME MediaInv, Delivered, IsDocument, NEW n \in DOMAIN done
    PROVE  /\ ShowsNothing(done[n]) /\ KeepsItsWords(upload.file.parts[n], done[n])
           /\ DOMAIN done = DOMAIN upload.file.parts /\ Len(done) = Len(upload.file.parts)
           /\ NotBlocked(upload.file.parts[n])
<1>1. /\ PartsAreTreated /\ Verified(done) /\ Len(done) = Len(upload.file.parts)
      /\ upload \in Uploads
  BY DEF MediaInv, MediaTypeOK
<1>2. upload.file.parts \in Seq(DocumentPart) /\ upload.magic \in {"zip", "none"}
  BY FileOfDocument DEF MediaInv
<1>3. DOMAIN done = DOMAIN upload.file.parts
  BY <1>1, <1>2 DEF PartsAreTreated
<1>4. WellFormed(upload.file.parts[n])
  BY <1>1, <1>2, <1>3, UploadsAreFiles DEF WellFormed
<1>5. Treated(upload.file.parts[n], done[n]) /\ VerifiedPart(done[n])
  BY <1>1 DEF PartsAreTreated, Verified, VerifiedPart
<1> QED
  BY <1>1, <1>3, <1>4, <1>5, TreatedShowsNothing

\* A delivered picture or page has its faces and sensitive texts covered.
LEMMA PictureIsClean ==
    ASSUME MediaInv, Delivered, ~ IsDocument, NEW n \in DOMAIN done,
           NEW thing \in done[n].things, thing.seen <= 2,
           IsFace(thing) \/ HasSensitiveText(thing.text)
    PROVE  ~ Visible(thing, done[n].black)
<1>1. PagesAreCovered /\ Len(done) = Len(upload.file.pages)
  BY DEF MediaInv
<1>2. upload.file.pages \in Seq(Page)
  BY FileOfPages DEF MediaInv
<1>3. PICK handed : handed = upload.file.pages[n]
  OBVIOUS
<1>4. handed \in Page
  BY <1>1, <1>2, <1>3 DEF PagesAreCovered
<1>5. LeftOver(handed, Black(handed)) = {} /\ done[n] = Finished(handed)
  BY <1>1, <1>3 DEF PagesAreCovered, Covered
<1>6. done[n].things = handed.things /\ done[n].black = Black(handed)
  BY <1>4, <1>5 DEF Finished, Page
<1> QED
  BY <1>5, <1>6 DEF LeftOver, Reported

\* A delivered file shows no value where the sanitizer looks, and no face, is
\* otherwise the file that was sent, and was not one that the policy blocks, for
\* every set of files.
THEOREM MediaShowsNothing == MediaSpec => []DeliveredShowsNothing
<1>1. ASSUME MediaInv PROVE DeliveredShowsNothing
  <2>1. DocumentShowsNothing
    BY <1>1, DocumentIsClean DEF DocumentShowsNothing, ShowsNothing
  <2>2. EveryWordKeepsItsPlace
    <3> SUFFICES ASSUME Delivered, IsDocument
                 PROVE  /\ Len(done) = Len(upload.file.parts)
                        /\ \A n \in DOMAIN done : KeepsItsWords(upload.file.parts[n], done[n])
      BY DEF EveryWordKeepsItsPlace, KeepsItsWords, SameNodes
    <3>1. Len(done) = Len(upload.file.parts)
      BY <1>1 DEF MediaInv
    <3> QED
      BY <1>1, <3>1, DocumentIsClean, SMTT(60)
  <2>3. PicturesShowNothing
    <3>1. Delivered /\ ~ IsDocument => Len(done) = Len(upload.file.pages)
      BY <1>1 DEF MediaInv
    <3> QED
      BY <1>1, <3>1, PictureIsClean DEF PicturesShowNothing
  <2>4. BlockedIsNotMasked
    <3> SUFFICES ASSUME Delivered, IsDocument, NEW n \in DOMAIN upload.file.parts
                 PROVE  NotBlocked(upload.file.parts[n])
      BY DEF BlockedIsNotMasked, NotBlocked, Refuses
    <3>1. DOMAIN done = DOMAIN upload.file.parts
      BY <1>1, FileOfDocument DEF MediaInv, PartsAreTreated
    <3> QED
      BY <1>1, <3>1, DocumentIsClean
  <2> QED
    BY <2>1, <2>2, <2>3, <2>4 DEF DeliveredShowsNothing
<1> QED
  BY <1>1, MediaInductive, PTL
==============================================================================
