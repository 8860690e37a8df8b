---------------------------- MODULE AnswerProofs ----------------------------
(***************************************************************************)
(* Proofs about an answer on its way: read from the provider (Transport),  *)
(* where a body arrives whole or not at all and a call ends in one of the  *)
(* known ways; and streamed to the client (StreamGuard), where no value    *)
(* that was split over events comes together unseen.                       *)
(***************************************************************************)
EXTENDS Transport, StreamGuard, Induction, SequenceTheorems, FiniteSetTheorems

----------------------------------------------------------------------------
(* Texts put together. *)

\* The recursion of JoinUpTo has a solution.
LEMMA JoinExists ==
    ASSUME NEW V, NEW pieces \in Seq(Seq(V))
    PROVE  /\ JoinUpTo(pieces) \in [0 .. Len(pieces) -> Seq(V)]
           /\ JoinUpTo(pieces)[0] = <<>>
           /\ \A n \in 1 .. Len(pieces) :
                 JoinUpTo(pieces)[n] = JoinUpTo(pieces)[n - 1] \o pieces[n]
<1> DEFINE N == Len(pieces)
           step == [n \in 1 .. N |-> [v \in Seq(V) |-> v \o pieces[n]]]
           Joins(f) == f = [n \in 0 .. N |-> IF n = 0 THEN <<>> ELSE f[n - 1] \o pieces[n]]
           g == CHOOSE f : Joins(f)
<1>1. N \in Nat /\ <<>> \in Seq(V) /\ \A n \in 1 .. N : pieces[n] \in Seq(V)
  OBVIOUS
<1>2. /\ step \in [1 .. N -> [Seq(V) -> Seq(V)]]
      /\ \A n \in 1 .. N : \A v \in Seq(V) : step[n][v] = v \o pieces[n]
  <2>1. \A n \in 1 .. N : \A v \in Seq(V) : v \o pieces[n] \in Seq(V)
    BY <1>1, ConcatProperties
  <2> QED
    BY <2>1
<1>3. JoinUpTo(pieces) = g
  BY DEF JoinUpTo
<1> HIDE DEF step, N
<1>4. PICK f : Follows(f, Seq(V), <<>>, N, step)
  BY <1>1, <1>2, Recursion
<1>5. Joins(f)
  <2>1. \A n \in 0 .. N : n # 0 => n \in 1 .. N /\ n - 1 \in 0 .. N
    BY <1>1
  <2>2. \A n \in 0 .. N : f[n] = IF n = 0 THEN <<>> ELSE f[n - 1] \o pieces[n]
    BY <1>2, <1>4, <2>1 DEF Follows
  <2> QED
    BY <1>4, <2>2 DEF Follows
<1>6. Joins(g)
  BY <1>5
<1> HIDE DEF g
<1>7. g = [n \in 0 .. N |-> g[n]] /\ g[0] = <<>>
  BY <1>1, <1>6
<1>8. \A n \in 1 .. N : n \in 0 .. N /\ g[n] = g[n - 1] \o pieces[n]
  <2>1. \A n \in 1 .. N : n \in 0 .. N /\ n # 0
    BY <1>1
  <2> QED
    BY <1>6, <2>1
<1>9. Follows(g, Seq(V), <<>>, N, step)
  <2>1. \A n \in 1 .. N : g[n - 1] \in Seq(V) => g[n] = step[n][g[n - 1]]
    BY <1>2, <1>8
  <2> QED
    BY <1>1, <1>2, <1>7, <2>1, Unrolled
<1> QED
  BY <1>1, <1>3, <1>8, <1>9 DEF Follows, N

\* One piece more is at the end of the text.
LEMMA JoinAppend ==
    ASSUME NEW V, NEW pieces \in Seq(Seq(V)), NEW piece \in Seq(V)
    PROVE  /\ Join(pieces) \in Seq(V)
           /\ Join(Append(pieces, piece)) = Join(pieces) \o piece
<1> DEFINE more == Append(pieces, piece)
           N == Len(pieces)
           g == JoinUpTo(pieces)
           h == JoinUpTo(more)
           S == {n \in Nat : n <= N => h[n] = g[n]}
<1>1. /\ N \in Nat /\ more \in Seq(Seq(V)) /\ Len(more) = N + 1 /\ more[N + 1] = piece
      /\ \A n \in 1 .. N : more[n] = pieces[n]
  BY AppendProperties
<1> HIDE DEF more, N
<1>2. /\ g[0] = <<>> /\ g[N] \in Seq(V)
      /\ \A n \in 1 .. N : g[n] = g[n - 1] \o pieces[n]
  <2>1. 0 \in 0 .. N /\ N \in 0 .. N
    BY <1>1
  <2>2. /\ g \in [0 .. N -> Seq(V)] /\ g[0] = <<>>
        /\ \A n \in 1 .. N : g[n] = g[n - 1] \o pieces[n]
    BY JoinExists DEF N
  <2> QED
    BY <2>1, <2>2
<1>3. h[0] = <<>> /\ \A n \in 1 .. N + 1 : h[n] = h[n - 1] \o more[n]
  BY <1>1, JoinExists
<1> HIDE DEF g, h
<1>4. 0 \in S
  BY <1>2, <1>3
<1>5. ASSUME NEW n \in Nat, n \in S PROVE n + 1 \in S
  <2> SUFFICES ASSUME n + 1 <= N PROVE h[n + 1] = g[n + 1]
    OBVIOUS
  <2>1. /\ h[n] = g[n] /\ n + 1 \in 1 .. N /\ n + 1 \in 1 .. N + 1 /\ (n + 1) - 1 = n
    BY <1>1, <1>5
  <2> QED
    BY <1>1, <1>2, <1>3, <2>1
<1> HIDE DEF S
<1>6. Nat \subseteq S
  BY <1>4, <1>5, NaturalsByInduction
<1>7. h[N] = g[N]
  BY <1>1, <1>6 DEF S
<1>8. h[N + 1] = g[N] \o piece
  <2>1. N + 1 \in 1 .. N + 1 /\ (N + 1) - 1 = N
    BY <1>1
  <2> QED
    BY <1>1, <1>3, <1>7, <2>1
<1> QED
  BY <1>1, <1>2, <1>8 DEF Join, g, h, N, more

----------------------------------------------------------------------------
(* Reading a script. *)

\* What texts are made of.
Word == UNION {UNION {ToSet(part.value) : part \in ToSet(s.sent)} : s \in Scripts}

\* Parts have a size and a text.
LEMMA PartsOfScripts ==
    ASSUME NEW s \in Scripts
    PROVE  /\ s.sent \in Seq(ToSet(s.sent)) /\ Len(s.sent) \in Nat
           /\ \A n \in 1 .. Len(s.sent) :
                 s.sent[n].size \in Nat /\ s.sent[n].value \in Seq(Word)
<1>1. s.sent \in Seq(ToSet(s.sent)) /\ Len(s.sent) \in Nat
  BY ScriptsAreSent
<1>2. \A n \in 1 .. Len(s.sent) : s.sent[n] \in ToSet(s.sent)
  BY <1>1
<1>3. ASSUME NEW part \in ToSet(s.sent)
      PROVE  part.size \in Nat /\ part.value \in Seq(Word)
  <2>1. part.size \in Nat /\ part.value \in Seq(ToSet(part.value))
    BY ScriptsAreSent
  <2>2. ToSet(part.value) \subseteq Word
    BY DEF Word
  <2> QED
    BY <2>1, <2>2
<1> QED
  BY <1>1, <1>2, <1>3

\* The recursion of BytesUpTo has a solution.
LEMMA BytesExist ==
    ASSUME NEW s \in Scripts
    PROVE  /\ BytesUpTo(s.sent) \in [0 .. Len(s.sent) -> Nat]
           /\ BytesUpTo(s.sent)[0] = 0
           /\ \A n \in 1 .. Len(s.sent) :
                 BytesUpTo(s.sent)[n] = BytesUpTo(s.sent)[n - 1] + s.sent[n].size
<1> DEFINE N == Len(s.sent)
           step == [n \in 1 .. N |-> [v \in Nat |-> v + s.sent[n].size]]
           Solves(f) == f = [n \in 0 .. N |-> IF n = 0 THEN 0 ELSE f[n - 1] + s.sent[n].size]
           g == CHOOSE f : Solves(f)
<1>1. N \in Nat /\ 0 \in Nat /\ \A n \in 1 .. N : s.sent[n].size \in Nat
  BY PartsOfScripts
<1>2. /\ step \in [1 .. N -> [Nat -> Nat]]
      /\ \A n \in 1 .. N : \A v \in Nat : step[n][v] = v + s.sent[n].size
  <2>1. \A n \in 1 .. N : \A v \in Nat : v + s.sent[n].size \in Nat
    BY <1>1
  <2> QED
    BY <2>1
<1>3. BytesUpTo(s.sent) = g
  BY DEF BytesUpTo
<1> HIDE DEF step, N
<1>4. PICK f : Follows(f, Nat, 0, N, step)
  BY <1>1, <1>2, Recursion
<1>5. Solves(f)
  <2>1. \A n \in 0 .. N : n # 0 => n \in 1 .. N /\ n - 1 \in 0 .. N
    BY <1>1
  <2>2. \A n \in 0 .. N : f[n] = IF n = 0 THEN 0 ELSE f[n - 1] + s.sent[n].size
    BY <1>2, <1>4, <2>1 DEF Follows
  <2> QED
    BY <1>4, <2>2 DEF Follows
<1>6. Solves(g)
  BY <1>5
<1> HIDE DEF g
<1>7. g = [n \in 0 .. N |-> g[n]] /\ g[0] = 0
  BY <1>1, <1>6
<1>8. \A n \in 1 .. N : n \in 0 .. N /\ g[n] = g[n - 1] + s.sent[n].size
  <2>1. \A n \in 1 .. N : n \in 0 .. N /\ n # 0
    BY <1>1
  <2> QED
    BY <1>6, <2>1
<1>9. Follows(g, Nat, 0, N, step)
  <2>1. \A n \in 1 .. N : g[n - 1] \in Nat => g[n] = step[n][g[n - 1]]
    BY <1>2, <1>8
  <2> QED
    BY <1>1, <1>2, <1>7, <2>1, Unrolled
<1> QED
  BY <1>1, <1>3, <1>8, <1>9 DEF Follows, N

\* Frames of some words.
FramesOver(V) == [closed : Seq(Seq(V)), open : Seq(V)]

\* A line more.
LEMMA LineKeepsFrames ==
    ASSUME NEW V, NEW frames \in FramesOver(V), NEW line, line.value \in Seq(V)
    PROVE  FramesAfter(frames, line) \in FramesOver(V)
<1>1. frames.closed \in Seq(Seq(V)) /\ frames.open \in Seq(V)
  BY DEF FramesOver
<1>2. frames.open \o line.value \in Seq(V) /\ Append(frames.closed, frames.open) \in Seq(Seq(V))
  BY <1>1, AppendProperties, ConcatProperties
<1>3. [frames EXCEPT !.open = @ \o line.value] \in FramesOver(V)
  BY <1>1, <1>2 DEF FramesOver
<1>4. [closed |-> Append(frames.closed, frames.open), open |-> <<>>] \in FramesOver(V)
  BY <1>1, <1>2 DEF FramesOver
<1> QED
  BY <1>3, <1>4 DEF FramesAfter

\* The recursion of FramesUpTo has a solution.
LEMMA FramesExist ==
    ASSUME NEW s \in Scripts
    PROVE  /\ FramesUpTo(s.sent) \in [0 .. Len(s.sent) -> FramesOver(Word)]
           /\ FramesUpTo(s.sent)[0] = NoFrames
           /\ \A n \in 1 .. Len(s.sent) :
                 FramesUpTo(s.sent)[n] = FramesAfter(FramesUpTo(s.sent)[n - 1], s.sent[n])
<1> DEFINE N == Len(s.sent)
           step == [n \in 1 .. N |-> [v \in FramesOver(Word) |-> FramesAfter(v, s.sent[n])]]
           Solves(f) == f = [n \in 0 .. N |-> IF n = 0 THEN NoFrames ELSE FramesAfter(f[n - 1], s.sent[n])]
           g == CHOOSE f : Solves(f)
<1>1. /\ N \in Nat /\ NoFrames \in FramesOver(Word)
      /\ \A n \in 1 .. N : s.sent[n].value \in Seq(Word)
  BY PartsOfScripts DEF NoFrames, FramesOver
<1>2. /\ step \in [1 .. N -> [FramesOver(Word) -> FramesOver(Word)]]
      /\ \A n \in 1 .. N : \A v \in FramesOver(Word) : step[n][v] = FramesAfter(v, s.sent[n])
  <2>1. \A n \in 1 .. N : \A v \in FramesOver(Word) : FramesAfter(v, s.sent[n]) \in FramesOver(Word)
    BY <1>1, LineKeepsFrames
  <2> QED
    BY <2>1
<1>3. FramesUpTo(s.sent) = g
  BY DEF FramesUpTo
<1> HIDE DEF step, N
<1>4. PICK f : Follows(f, FramesOver(Word), NoFrames, N, step)
  BY <1>1, <1>2, Recursion
<1>5. Solves(f)
  <2>1. \A n \in 0 .. N : n # 0 => n \in 1 .. N /\ n - 1 \in 0 .. N
    BY <1>1
  <2>2. \A n \in 0 .. N : f[n] = IF n = 0 THEN NoFrames ELSE FramesAfter(f[n - 1], s.sent[n])
    BY <1>2, <1>4, <2>1 DEF Follows
  <2> QED
    BY <1>4, <2>2 DEF Follows
<1>6. Solves(g)
  BY <1>5
<1> HIDE DEF g
<1>7. g = [n \in 0 .. N |-> g[n]] /\ g[0] = NoFrames
  BY <1>1, <1>6
<1>8. \A n \in 1 .. N : n \in 0 .. N /\ g[n] = FramesAfter(g[n - 1], s.sent[n])
  <2>1. \A n \in 1 .. N : n \in 0 .. N /\ n # 0
    BY <1>1
  <2> QED
    BY <1>6, <2>1
<1>9. Follows(g, FramesOver(Word), NoFrames, N, step)
  <2>1. \A n \in 1 .. N : g[n - 1] \in FramesOver(Word) => g[n] = step[n][g[n - 1]]
    BY <1>2, <1>8
  <2> QED
    BY <1>1, <1>2, <1>7, <2>1, Unrolled
<1> QED
  BY <1>1, <1>3, <1>8, <1>9 DEF Follows, N

\* What a prefix is, place by place.
LEMMA PrefixByPlace ==
    ASSUME NEW V, NEW s \in Seq(V), NEW t \in Seq(V)
    PROVE  IsPrefix(s, t) <=> Len(s) <= Len(t) /\ \A i \in 1 .. Len(s) : s[i] = t[i]
<1>1. Len(s) \in Nat /\ Len(t) \in Nat
  OBVIOUS
<1>2. ASSUME Len(s) <= Len(t)
      PROVE  /\ SubSeq(t, 1, Len(s)) \in Seq(V) /\ Len(SubSeq(t, 1, Len(s))) = Len(s)
             /\ \A i \in 1 .. Len(s) : SubSeq(t, 1, Len(s))[i] = t[i]
  BY <1>1, <1>2, SubSeqProperties
<1>3. SubSeq(s, 1, Len(s)) = s
  BY <1>1, SubSeqFull
<1> QED
  BY <1>1, <1>2, <1>3, SeqEqual DEF IsPrefix

\* The frames that are closed stay what they are.
LEMMA FramesGrow ==
    ASSUME NEW s \in Scripts, NEW m \in 0 .. Len(s.sent), NEW n \in m .. Len(s.sent)
    PROVE  IsPrefix(FramesUpTo(s.sent)[m].closed, FramesUpTo(s.sent)[n].closed)
<1> DEFINE N == Len(s.sent)
           f == FramesUpTo(s.sent)
           Begin(a, b) == Len(a) <= Len(b) /\ \A i \in 1 .. Len(a) : a[i] = b[i]
           S == {k \in Nat : m + k <= N => Begin(f[m].closed, f[m + k].closed)}
<1>1. N \in Nat /\ m \in Nat /\ n \in Nat /\ m <= n /\ n <= N
  BY PartsOfScripts
<1>2. /\ \A k \in 0 .. N : f[k] \in FramesOver(Word)
      /\ \A k \in 1 .. N : f[k] = FramesAfter(f[k - 1], s.sent[k])
  BY FramesExist
<1> HIDE DEF N, f
<1>3. \A k \in 0 .. N : f[k].closed \in Seq(Seq(Word))
  BY <1>2 DEF FramesOver
<1>4. ASSUME NEW k \in 0 .. N - 1
      PROVE  Begin(f[k].closed, f[k + 1].closed)
  <2>1. k + 1 \in 1 .. N /\ (k + 1) - 1 = k /\ k \in 0 .. N
    BY <1>1
  <2>2. f[k + 1] = FramesAfter(f[k], s.sent[k + 1]) /\ f[k] \in FramesOver(Word)
    BY <1>2, <2>1
  <2>3. f[k + 1].closed = f[k].closed \/ f[k + 1].closed = Append(f[k].closed, f[k].open)
    BY <2>2, SMTT(60) DEF FramesAfter, FramesOver
  <2>4. f[k].closed \in Seq(Seq(Word)) /\ f[k].open \in Seq(Word)
    BY <2>2 DEF FramesOver
  <2> QED
    BY <2>3, <2>4, AppendProperties, SMTT(60)
<1>5. 0 \in S
  <2>1. m + 0 = m
    BY <1>1
  <2>2. Len(f[m].closed) \in Nat
    BY <1>3
  <2> QED
    BY <2>1, <2>2
<1>6. ASSUME NEW k \in Nat, k \in S PROVE k + 1 \in S
  <2> SUFFICES ASSUME m + (k + 1) <= N
               PROVE  Begin(f[m].closed, f[m + (k + 1)].closed)
    OBVIOUS
  <2>1. m + (k + 1) = (m + k) + 1 /\ m + k \in 0 .. N - 1 /\ m + k <= N
    BY <1>1
  <2>2. Begin(f[m].closed, f[m + k].closed)
    BY <1>6, <2>1
  <2>3. Begin(f[m + k].closed, f[(m + k) + 1].closed)
    BY <1>4, <2>1
  <2>4. /\ Len(f[m].closed) \in Nat /\ Len(f[m + k].closed) \in Nat
        /\ Len(f[(m + k) + 1].closed) \in Nat
    BY <1>1, <1>3, <2>1, SMTT(60)
  <2>5. \A a, b, c : /\ Len(a) \in Nat /\ Len(b) \in Nat /\ Len(c) \in Nat
                     /\ Begin(a, b) /\ Begin(b, c) => Begin(a, c)
    OBVIOUS
  <2> HIDE DEF Begin
  <2>6. Begin(f[m].closed, f[(m + k) + 1].closed)
    BY <2>2, <2>3, <2>4, <2>5
  <2> QED
    BY <2>1, <2>6
<1> HIDE DEF S
<1>7. Nat \subseteq S
  BY <1>5, <1>6, NaturalsByInduction
<1>8. Begin(f[m].closed, f[n].closed)
  <2>1. n - m \in Nat /\ m + (n - m) = n
    BY <1>1
  <2> QED
    BY <1>1, <1>7, <2>1 DEF S
<1>9. f[m].closed \in Seq(Seq(Word)) /\ f[n].closed \in Seq(Seq(Word))
  BY <1>1, <1>3
<1>10. IsPrefix(f[m].closed, f[n].closed)
  BY <1>8, <1>9, PrefixByPlace, ZenonT(60)
<1> QED
  BY <1>10 DEF f

----------------------------------------------------------------------------
(* The invariant. *)

Outcomes == {"calling", "reading", Crashed} \cup Errors \cup Ended
Going == outcome \in {"calling", "reading"}
FramesNow == FramesUpTo(script.sent)[at]

CallTypeOK ==
    /\ client \in {"openai", "gemini"} /\ mode \in {"complete", "stream"} /\ script \in Scripts
    /\ at \in 0 .. Len(script.sent) /\ received = BytesUpTo(script.sent)[at]
    /\ data_lines \in Seq(Seq(Word)) /\ handed \in Seq(Seq(Word))
    /\ outcome \in Outcomes

\* What is read so far fits, and is handed out or waits for the rest of its event;
\* the last event may have been handed out when the body ended.
FitsSoFar == Going => at \in WithinLimit
FramesSoFar ==
    mode = "stream" /\ Going =>
        \/ handed = FramesNow.closed /\ Join(data_lines) = FramesNow.open
        \/ handed = Frames /\ data_lines = <<>> /\ at = Len(script.sent)
BodySoFar ==
    mode = "complete" /\ Going =>
        handed = <<>> /\ data_lines = [i \in 1 .. at |-> script.sent[i].value]

CallInv ==
    /\ CallTypeOK /\ FitsSoFar /\ FramesSoFar /\ BodySoFar
    /\ BodiesArriveWhole /\ EndingsAreKnown

\* The frames that are closed begin all frames, of these lines and of the script.
LEMMA FramesBegin ==
    ASSUME script \in Scripts, NEW n \in 0 .. Len(script.sent)
    PROVE  /\ FramesUpTo(script.sent)[n] \in FramesOver(Word)
           /\ FramesOf(n) \in Seq(Seq(Word)) /\ Frames \in Seq(Seq(Word))
           /\ IsPrefix(FramesUpTo(script.sent)[n].closed, FramesOf(n))
           /\ IsPrefix(FramesUpTo(script.sent)[n].closed, Frames)
<1> DEFINE N == Len(script.sent)
           f == FramesUpTo(script.sent)
<1>1. N \in Nat /\ n \in 0 .. N /\ N \in 0 .. N /\ N \in n .. N
  BY PartsOfScripts
<1>2. \A m \in 0 .. N : f[m] \in FramesOver(Word)
  BY FramesExist
<1>3. IsPrefix(f[n].closed, f[N].closed)
  BY <1>1, FramesGrow
<1>4. ASSUME NEW m \in 0 .. N
      PROVE  /\ FramesOf(m) \in Seq(Seq(Word)) /\ f[m].closed \in Seq(Seq(Word))
             /\ IsPrefix(f[m].closed, FramesOf(m))
  <2>1. FramesOf(m) = IF f[m].open = <<>> THEN f[m].closed ELSE Append(f[m].closed, f[m].open)
    BY DEF FramesOf
  <2>2. f[m].closed \in Seq(Seq(Word)) /\ f[m].open \in Seq(Word)
    BY <1>2 DEF FramesOver
  <2> HIDE DEF f
  <2>3. FramesOf(m) \in Seq(Seq(Word))
    BY <2>1, <2>2, AppendProperties
  <2>4. /\ Len(f[m].closed) <= Len(FramesOf(m))
        /\ \A i \in 1 .. Len(f[m].closed) : f[m].closed[i] = FramesOf(m)[i]
    BY <2>1, <2>2, AppendProperties
  <2> QED
    BY <2>2, <2>3, <2>4, PrefixByPlace, ZenonT(60)
<1>5. /\ Frames = FramesOf(N) /\ Frames \in Seq(Seq(Word))
      /\ f[N].closed \in Seq(Seq(Word)) /\ IsPrefix(f[N].closed, Frames)
  BY <1>1, <1>4 DEF Frames
<1>6. f[n].closed \in Seq(Seq(Word))
  BY <1>1, <1>4
<1> HIDE DEF f, N
<1>7. IsPrefix(f[n].closed, Frames)
  <2>0. /\ f[n].closed \in Seq(Seq(Word)) /\ f[N].closed \in Seq(Seq(Word))
        /\ IsPrefix(f[n].closed, f[N].closed)
    BY <1>3, <1>5, <1>6
  <2>1. /\ Len(f[n].closed) <= Len(f[N].closed)
        /\ \A i \in 1 .. Len(f[n].closed) : f[n].closed[i] = f[N].closed[i]
    BY <2>0, PrefixByPlace, SMTT(60)
  <2>2. /\ Len(f[N].closed) <= Len(Frames)
        /\ \A i \in 1 .. Len(f[N].closed) : f[N].closed[i] = Frames[i]
    BY <1>5, PrefixByPlace, SMTT(60)
  <2>3. /\ Len(f[n].closed) <= Len(Frames)
        /\ \A i \in 1 .. Len(f[n].closed) : f[n].closed[i] = Frames[i]
    <3>1. Len(f[n].closed) \in Nat /\ Len(f[N].closed) \in Nat /\ Len(Frames) \in Nat
      BY <1>5, <1>6
    <3> QED
      BY <2>1, <2>2, <3>1, SMTT(60)
  <2> QED
    BY <1>5, <1>6, <2>3, PrefixByPlace, ZenonT(60)
<1> QED
  BY <1>1, <1>2, <1>4, <1>5, <1>7 DEF f, N

\* A call begins with nothing.
LEMMA CallStarts == CallInit => CallInv
<1> SUFFICES ASSUME CallInit PROVE CallInv
  OBVIOUS
<1>1. /\ script \in Scripts /\ at = 0 /\ received = 0 /\ data_lines = <<>> /\ handed = <<>>
      /\ outcome = "calling" /\ client \in {"openai", "gemini"}
      /\ mode \in {"complete", "stream"}
  BY DEF CallInit, Untouched
<1>2. 0 \in 0 .. Len(script.sent) /\ Len(script.sent) \in Nat
  BY <1>1, PartsOfScripts
<1>3. BytesUpTo(script.sent)[0] = 0 /\ FramesUpTo(script.sent)[0] = NoFrames
  BY <1>1, BytesExist, FramesExist
<1>4. CallTypeOK
  BY <1>1, <1>2, <1>3 DEF CallTypeOK, Outcomes
<1>5. 0 \in WithinLimit
  BY <1>2, <1>3, BytesAreBounded DEF WithinLimit
<1>6. Join(<<>>) = <<>>
  <2>1. <<>> \in Seq(Seq(Word)) /\ Len(<<>>) = 0
    OBVIOUS
  <2> QED
    BY <2>1, JoinExists DEF Join
<1>7. /\ handed = FramesNow.closed /\ Join(data_lines) = FramesNow.open
  BY <1>1, <1>3, <1>6 DEF FramesNow, NoFrames
<1>8. BodySoFar
  BY <1>1 DEF BodySoFar
<1>9. IsPrefix(handed, FramesOf(0)) /\ IsPrefix(handed, Frames)
  BY <1>1, <1>2, <1>3, <1>7, FramesBegin DEF FramesNow
<1>10. BodiesArriveWhole
  <2>1. NothingBeyondTheLimit
    BY <1>1, <1>5, <1>9 DEF NothingBeyondTheLimit, Ended
  <2>2. EventsAreTheFrames
    BY <1>1, <1>9 DEF EventsAreTheFrames, ToSet
  <2>3. SuccessIsComplete
    BY <1>1 DEF SuccessIsComplete
  <2> QED
    BY <2>1, <2>2, <2>3 DEF BodiesArriveWhole
<1>11. EndingsAreKnown
  BY <1>1 DEF EndingsAreKnown
<1> QED
  BY <1>1, <1>4, <1>5, <1>7, <1>8, <1>10, <1>11 DEF CallInv, FitsSoFar, FramesSoFar

\* A call that fails has handed out no more than before.
LEMMA FailingKeeps ==
    ASSUME CallInv, outcome' \in Errors, UNCHANGED <<client, mode, script, handed>>,
           at' \in 0 .. Len(script.sent), received' = BytesUpTo(script.sent)[at'],
           data_lines' \in Seq(Seq(Word))
    PROVE  CallInv'
<1>1. CallTypeOK /\ BodiesArriveWhole
  BY DEF CallInv
<1>2. CallTypeOK'
  BY <1>1 DEF CallTypeOK, Outcomes
<1>3. outcome' \notin {"calling", "reading"} \cup Ended
  BY DEF Errors, Ended
<1>4. (FitsSoFar /\ FramesSoFar /\ BodySoFar)'
  BY <1>3 DEF FitsSoFar, FramesSoFar, BodySoFar, Going
<1>5. NothingBeyondTheLimit'
  <2>1. PICK n \in WithinLimit :
          /\ mode = "stream" => IsPrefix(handed, FramesOf(n))
          /\ mode = "complete" => handed \in {<<>>, <<PiecesOf(n)>>}
    BY <1>1 DEF BodiesArriveWhole, NothingBeyondTheLimit
  <2>2. WithinLimit' = WithinLimit /\ FramesOf(n)' = FramesOf(n) /\ PiecesOf(n)' = PiecesOf(n)
    BY DEF WithinLimit, FramesOf, PiecesOf
  <2> QED
    BY <1>3, <2>1, <2>2 DEF NothingBeyondTheLimit
<1>6. EventsAreTheFrames'
  BY <1>1 DEF BodiesArriveWhole, EventsAreTheFrames, Frames, FramesOf
<1>7. SuccessIsComplete'
  BY <1>3 DEF SuccessIsComplete, Ended
<1>8. EndingsAreKnown'
  BY DEF EndingsAreKnown
<1> QED
  BY <1>2, <1>4, <1>5, <1>6, <1>7, <1>8 DEF CallInv, BodiesArriveWhole

\* A call that goes on as it was, now reading.
LEMMA RespondKeeps ==
    ASSUME CallInv, Respond
    PROVE  CallInv'
<1>1. /\ UNCHANGED <<client, mode, script, at, received, data_lines, handed>>
      /\ outcome = "calling" /\ outcome' \in Errors \cup {"reading"}
  BY DEF Respond, Errors
<1>2. CallTypeOK
  BY DEF CallInv
<1>3. CASE outcome' \in Errors
  BY <1>1, <1>2, <1>3, FailingKeeps DEF CallTypeOK
<1>4. CASE outcome' = "reading"
  <2>1. CallTypeOK'
    BY <1>1, <1>2, <1>4 DEF CallTypeOK, Outcomes
  <2>2. (FitsSoFar /\ FramesSoFar /\ BodySoFar)'
    BY <1>1, <1>4 DEF CallInv, FitsSoFar, FramesSoFar, BodySoFar, Going, WithinLimit, FramesNow,
                       Frames, FramesOf
  <2>3. BodiesArriveWhole'
    <3>1. NothingBeyondTheLimit'
      BY <1>1, <1>4 DEF CallInv, BodiesArriveWhole, NothingBeyondTheLimit, Ended, WithinLimit,
                         FramesOf, PiecesOf
    <3>2. EventsAreTheFrames'
      BY <1>1 DEF CallInv, BodiesArriveWhole, EventsAreTheFrames, Frames, FramesOf
    <3>3. SuccessIsComplete'
      BY <1>4 DEF SuccessIsComplete
    <3> QED
      BY <3>1, <3>2, <3>3 DEF BodiesArriveWhole
  <2>4. EndingsAreKnown'
    BY <1>4 DEF EndingsAreKnown
  <2> QED
    BY <2>1, <2>2, <2>3, <2>4 DEF CallInv
<1> QED
  BY <1>1, <1>3, <1>4

LEMMA CallFailsKeeps ==
    ASSUME CallInv, CallFails
    PROVE  CallInv'
<1>1. /\ UNCHANGED <<client, mode, script, at, received, data_lines, handed>>
      /\ outcome' \in Errors
  BY DEF CallFails, Errors
<1> QED
  BY <1>1, FailingKeeps DEF CallInv, CallTypeOK

\* The prefixes of what begins a sequence begin it, too.
LEMMA ItselfIsPrefix ==
    ASSUME NEW V, NEW s \in Seq(V)
    PROVE  IsPrefix(s, s)
BY PrefixByPlace

\* An event handed out is the next frame, and the mark is not handed out.
LEMMA HandOutKeeps ==
    ASSUME CallInv, mode = "stream", outcome = "reading", NEW pieces \in Seq(Word),
           UNCHANGED <<client, mode, script>>, HandOut(pieces),
           at' \in WithinLimit,
           pieces # <<>> => /\ IsPrefix(Append(handed, pieces), FramesOf(at'))
                            /\ IsPrefix(Append(handed, pieces), Frames)
    PROVE  /\ outcome' \in {"reading", "done", "upstream_invalid_stream", Crashed}
           /\ handed' \in Seq(Seq(Word))
           /\ outcome' = "reading" => pieces # <<>> /\ handed' = Append(handed, pieces)
           /\ BodiesArriveWhole' /\ EndingsAreKnown'
<1>1. CallTypeOK /\ BodiesArriveWhole /\ script \in Scripts /\ handed \in Seq(Seq(Word))
  BY DEF CallInv, CallTypeOK
<1>2. /\ WithinLimit' = WithinLimit /\ Frames' = Frames
      /\ \A n : FramesOf(n)' = FramesOf(n)
  BY DEF WithinLimit, Frames, FramesOf
<1>3. Append(handed, pieces) \in Seq(Seq(Word)) /\ Frames \in Seq(Seq(Word))
  <2>1. 0 \in 0 .. Len(script.sent)
    BY <1>1, PartsOfScripts
  <2> QED
    BY <1>1, <2>1, FramesBegin, AppendProperties
<1>4. ASSUME UNCHANGED handed, outcome' # "end of stream", outcome' # "result",
             outcome' = "done" => Frames[Len(handed) + 1] = <<"[DONE]">>,
             outcome' \in Ended => at' \in WithinLimit
      PROVE  BodiesArriveWhole'
  <2>1. NothingBeyondTheLimit'
    <3>1. PICK n \in WithinLimit : IsPrefix(handed, FramesOf(n))
      BY <1>1 DEF BodiesArriveWhole, NothingBeyondTheLimit
    <3> QED
      BY <1>2, <1>4, <3>1 DEF NothingBeyondTheLimit
  <2>2. EventsAreTheFrames'
    BY <1>1, <1>2, <1>4 DEF BodiesArriveWhole, EventsAreTheFrames
  <2>3. SuccessIsComplete'
    BY <1>2, <1>4 DEF SuccessIsComplete
  <2> QED
    BY <2>1, <2>2, <2>3 DEF BodiesArriveWhole
<1> DEFINE Mark == client = "openai" /\ pieces = <<"[DONE]">>
           Breaks == BreaksOn(pieces, MisshapenEvents)
<1>5. ASSUME pieces # <<>> PROVE Frames[Len(handed) + 1] = pieces
  <2> DEFINE more == Append(handed, pieces)
  <2>1. /\ Len(more) = Len(handed) + 1 /\ Len(handed) \in Nat
        /\ more[Len(handed) + 1] = pieces
    BY <1>1, AppendProperties
  <2>2. more \in Seq(Seq(Word)) /\ Frames \in Seq(Seq(Word)) /\ IsPrefix(more, Frames)
    BY <1>3, <1>5
  <2> HIDE DEF more
  <2>3. \A i \in 1 .. Len(more) : more[i] = Frames[i]
    BY <2>2, PrefixByPlace, SMTT(60)
  <2>4. Len(handed) + 1 \in 1 .. Len(more)
    BY <2>1
  <2> QED
    BY <2>1, <2>3, <2>4
<1>6. CASE Mark
  <2>1. outcome' = "done" /\ UNCHANGED handed
    BY <1>6 DEF HandOut
  <2>2. pieces # <<>>
    BY <1>6
  <2>3. Frames[Len(handed) + 1] = pieces
    BY <1>5, <2>2
  <2> QED
    BY <1>1, <1>4, <1>6, <2>1, <2>2, <2>3 DEF EndingsAreKnown, Ended
<1>7. CASE ~ Mark /\ Breaks
  <2>1. outcome' = Crashed /\ UNCHANGED handed
    BY <1>7 DEF HandOut, BreaksOn
  <2>2. pieces # <<>>
    BY <1>7, ScriptsAreSent, ShapesAreOfObjects DEF BreaksOn
  <2>3. Frames'[Len(handed') + 1] = pieces
    BY <1>2, <1>5, <2>1, <2>2
  <2>4. EndingsAreKnown'
    <3>1. BreaksOn(Frames[Len(handed) + 1], MisshapenEvents)'
      BY <1>7, <2>3 DEF BreaksOn
    <3> QED
      BY <2>1, <3>1 DEF EndingsAreKnown
  <2>5. BodiesArriveWhole'
    BY <1>4, <2>1 DEF Crashed, Ended
  <2> QED
    BY <1>1, <2>1, <2>4, <2>5 DEF Crashed
<1>8. CASE ~ Mark /\ ~ Breaks /\ IsObject(pieces)
  <2>1. handed' = Append(handed, pieces) /\ outcome' = "reading"
    BY <1>8 DEF HandOut, BreaksOn
  <2>2. pieces # <<>>
    BY <1>8, ScriptsAreSent DEF IsObject
  <2>3. NothingBeyondTheLimit'
    BY <1>2, <2>1, <2>2 DEF NothingBeyondTheLimit, Ended
  <2>4. EventsAreTheFrames'
    <3>1. IsPrefix(handed', Frames')
      BY <1>2, <2>1, <2>2
    <3>2. ASSUME client = "openai" PROVE <<"[DONE]">> \notin ToSet(handed')
      <4>1. <<"[DONE]">> \notin ToSet(handed)
        BY <1>1, <3>2 DEF BodiesArriveWhole, EventsAreTheFrames
      <4>2. \A i \in DOMAIN handed' : handed'[i] = pieces \/ handed'[i] \in ToSet(handed)
        BY <1>1, <2>1, AppendProperties DEF ToSet
      <4> QED
        BY <1>8, <3>2, <4>1, <4>2 DEF ToSet
    <3> QED
      BY <3>1, <3>2 DEF EventsAreTheFrames
  <2>5. SuccessIsComplete'
    BY <2>1 DEF SuccessIsComplete
  <2> QED
    BY <1>3, <2>1, <2>2, <2>3, <2>4, <2>5 DEF BodiesArriveWhole, EndingsAreKnown
<1>9. CASE ~ Mark /\ ~ Breaks /\ ~ IsObject(pieces)
  <2>1. outcome' = "upstream_invalid_stream" /\ UNCHANGED handed
    BY <1>9 DEF HandOut, BreaksOn
  <2> QED
    BY <1>1, <1>4, <2>1 DEF EndingsAreKnown, Ended, Errors
<1> QED
  BY <1>6, <1>7, <1>8, <1>9

\* One part more: what the sums, frames and limits are then.
LEMMA OneMore ==
    ASSUME CallInv, at < Len(script.sent), at' = at + 1,
           received' = received + Upcoming.size
    PROVE  /\ at + 1 \in 1 .. Len(script.sent) /\ at + 1 \in 0 .. Len(script.sent) /\ at \in Nat
           /\ received' = BytesUpTo(script.sent)[at']
           /\ ~ Exceeds(received, Upcoming.size) => at + 1 \in WithinLimit
           /\ FramesUpTo(script.sent)[at + 1] = FramesAfter(FramesNow, Upcoming)
           /\ FramesNow \in FramesOver(Word)
           /\ Upcoming.value \in Seq(Word)
<1>1. /\ script \in Scripts /\ at \in 0 .. Len(script.sent) /\ Len(script.sent) \in Nat
      /\ received = BytesUpTo(script.sent)[at]
  BY PartsOfScripts DEF CallInv, CallTypeOK
<1>2. at + 1 \in 1 .. Len(script.sent) /\ at + 1 \in 0 .. Len(script.sent) /\ (at + 1) - 1 = at
  BY <1>1
<1>3. /\ Upcoming.size \in Nat /\ Upcoming.value \in Seq(Word)
  BY <1>1, <1>2, PartsOfScripts DEF Upcoming
<1>4. BytesUpTo(script.sent)[at + 1] = received + Upcoming.size /\ received \in Nat
  BY <1>1, <1>2, BytesExist DEF Upcoming
<1>5. /\ FramesUpTo(script.sent)[at + 1] = FramesAfter(FramesNow, Upcoming)
      /\ FramesNow \in FramesOver(Word)
  BY <1>1, <1>2, FramesExist DEF Upcoming, FramesNow
<1>6. ~ Exceeds(received, Upcoming.size) => at + 1 \in WithinLimit
  BY <1>2, <1>3, <1>4, BytesAreBounded DEF Exceeds, WithinLimit
<1> QED
  BY <1>1, <1>2, <1>3, <1>4, <1>5, <1>6

\* What goes on reading has shown nothing new.
LEMMA GoingOnKeeps ==
    ASSUME CallInv, outcome = "reading", UNCHANGED <<client, mode, script, handed, outcome>>
    PROVE  BodiesArriveWhole' /\ EndingsAreKnown'
<1>1. BodiesArriveWhole
  BY DEF CallInv
<1>2. NothingBeyondTheLimit'
  <2>1. PICK n \in WithinLimit :
          /\ mode = "stream" => IsPrefix(handed, FramesOf(n))
          /\ mode = "complete" => handed \in {<<>>, <<PiecesOf(n)>>}
    BY <1>1 DEF BodiesArriveWhole, NothingBeyondTheLimit
  <2>2. WithinLimit' = WithinLimit /\ FramesOf(n)' = FramesOf(n) /\ PiecesOf(n)' = PiecesOf(n)
    BY DEF WithinLimit, FramesOf, PiecesOf
  <2> QED
    BY <2>1, <2>2 DEF NothingBeyondTheLimit, Ended
<1>3. EventsAreTheFrames'
  BY <1>1 DEF BodiesArriveWhole, EventsAreTheFrames, Frames, FramesOf
<1>4. SuccessIsComplete'
  BY DEF SuccessIsComplete
<1> QED
  BY <1>2, <1>3, <1>4 DEF BodiesArriveWhole, EndingsAreKnown

\* A chunk is added to the others, or is too much.
LEMMA ReadChunkKeeps ==
    ASSUME CallInv, ReadChunk
    PROVE  CallInv'
<1>1. /\ outcome = "reading" /\ mode = "complete" /\ at < Len(script.sent) /\ at' = at + 1
      /\ received' = received + Upcoming.size
      /\ UNCHANGED <<client, mode, script, handed>>
  BY DEF ReadChunk
<1>2. CallTypeOK /\ BodySoFar
  BY DEF CallInv
<1>3. /\ at + 1 \in 0 .. Len(script.sent) /\ at \in Nat
      /\ received' = BytesUpTo(script.sent)[at'] /\ Upcoming.value \in Seq(Word)
      /\ ~ Exceeds(received, Upcoming.size) => at + 1 \in WithinLimit
  BY <1>1, OneMore
<1>4. CASE Exceeds(received, Upcoming.size)
  <2>1. outcome' \in Errors /\ UNCHANGED data_lines
    BY <1>4 DEF ReadChunk, Errors
  <2> QED
    BY <1>1, <1>2, <1>3, <2>1, FailingKeeps DEF CallTypeOK
<1>5. CASE ~ Exceeds(received, Upcoming.size)
  <2>1. data_lines' = Append(data_lines, Upcoming.value) /\ UNCHANGED outcome
    BY <1>5 DEF ReadChunk
  <2>2. CallTypeOK'
    <3>1. data_lines' \in Seq(Seq(Word))
      BY <1>2, <1>3, <2>1, AppendProperties DEF CallTypeOK
    <3> QED
      BY <1>1, <1>2, <1>3, <2>1, <3>1 DEF CallTypeOK
  <2>3. FitsSoFar' /\ FramesSoFar'
    BY <1>1, <1>3, <1>5 DEF FitsSoFar, FramesSoFar, WithinLimit
  <2>4. BodySoFar'
    <3>1. handed = <<>> /\ data_lines = [i \in 1 .. at |-> script.sent[i].value]
      BY <1>1, <1>2 DEF BodySoFar, Going
    <3>2. data_lines' = [i \in 1 .. at + 1 |-> script.sent[i].value]
      <4>1. Len(data_lines) = at
        BY <1>3, <3>1
      <4>2. /\ data_lines' \in Seq(Seq(Word)) /\ Len(data_lines') = at + 1
            /\ \A i \in 1 .. at : data_lines'[i] = script.sent[i].value
            /\ data_lines'[at + 1] = script.sent[at + 1].value
        BY <1>2, <1>3, <2>1, <3>1, <4>1, AppendProperties DEF CallTypeOK, Upcoming
      <4>3. data_lines' = [i \in 1 .. at + 1 |-> data_lines'[i]]
        BY <4>2
      <4>4. \A i \in 1 .. at + 1 : data_lines'[i] = script.sent[i].value
        BY <1>3, <4>2, SMTT(60)
      <4> QED
        BY <4>3, <4>4
    <3> QED
      BY <1>1, <3>1, <3>2 DEF BodySoFar
  <2> QED
    BY <1>1, <2>1, <2>2, <2>3, <2>4, GoingOnKeeps DEF CallInv
<1> QED
  BY <1>4, <1>5

\* A whole body is answered with, or refused.
LEMMA AnswerKeeps ==
    ASSUME CallInv, Answer
    PROVE  CallInv'
<1>1. /\ outcome = "reading" /\ mode = "complete" /\ at = Len(script.sent)
      /\ UNCHANGED <<client, mode, script, at, received, data_lines>>
      /\ outcome' \in {"upstream_invalid_response", Crashed, "result"}
      /\ handed' = IF outcome' = "result" THEN <<Join(data_lines)>> ELSE handed
  BY DEF Answer
<1>2. CallTypeOK /\ BodySoFar /\ at \in WithinLimit /\ BodiesArriveWhole /\ handed = <<>>
  BY <1>1 DEF CallInv, FitsSoFar, BodySoFar, Going
<1>3. Join(data_lines) = PiecesOf(at) /\ Join(data_lines) \in Seq(Word)
  <2>1. Join(data_lines) \in Seq(Word)
    <3>1. <<>> \in Seq(Word)
      OBVIOUS
    <3> QED
      BY <1>2, <3>1, JoinAppend DEF CallTypeOK
  <2>2. data_lines = [i \in 1 .. at |-> script.sent[i].value]
    BY <1>1, <1>2 DEF BodySoFar, Going
  <2> QED
    BY <2>1, <2>2 DEF PiecesOf
<1>4. CallTypeOK'
  <2>1. handed' \in Seq(Seq(Word))
    BY <1>1, <1>2, <1>3
  <2> QED
    BY <1>1, <1>2, <2>1 DEF CallTypeOK, Outcomes, Errors, Ended
<1>5. (FitsSoFar /\ FramesSoFar /\ BodySoFar)'
  BY <1>1 DEF FitsSoFar, FramesSoFar, BodySoFar, Going, Crashed
<1>6. /\ WithinLimit' = WithinLimit /\ PiecesOf(at)' = PiecesOf(at)
      /\ PiecesOf(Len(script.sent))' = PiecesOf(at)
  BY <1>1 DEF WithinLimit, PiecesOf
<1>7. BodiesArriveWhole'
  <2>1. NothingBeyondTheLimit'
    <3>1. handed' \in {<<>>, <<PiecesOf(at)>>}
      BY <1>1, <1>2, <1>3
    <3> QED
      BY <1>1, <1>2, <1>6, <3>1 DEF NothingBeyondTheLimit
  <2>2. EventsAreTheFrames'
    BY <1>1 DEF EventsAreTheFrames
  <2>3. SuccessIsComplete'
    BY <1>1, <1>3, <1>6 DEF SuccessIsComplete, Crashed
  <2> QED
    BY <2>1, <2>2, <2>3 DEF BodiesArriveWhole
<1>8. EndingsAreKnown'
  <2> DEFINE body == Join(data_lines)
             broken == IF script.status < 400 THEN Arrays \cup Misshapen ELSE {}
  <2>1. CASE outcome' = Crashed
    <3>1. \/ body \in Bottomless
          \/ /\ client = "gemini" /\ script.status < 400
             /\ body \in Objects \cup Arrays /\ (body \notin Objects \/ body \in Misshapen)
      BY <2>1 DEF Answer, Crashed, IsJson, IsObject
    <3>2. BreaksOn(body, broken)
      BY <3>1 DEF BreaksOn
    <3>3. body = PiecesOf(Len(script.sent))'
      BY <1>3, <1>6
    <3> HIDE DEF body
    <3>4. BreaksOn(PiecesOf(Len(script.sent)), broken)'
      BY <1>1, <3>2, <3>3 DEF BreaksOn
    <3> QED
      BY <1>1, <2>1, <3>4 DEF EndingsAreKnown
  <2>2. CASE outcome' # Crashed
    BY <1>1, <2>2 DEF EndingsAreKnown, Errors, Ended
  <2> QED
    BY <2>1, <2>2
<1> QED
  BY <1>4, <1>5, <1>7, <1>8 DEF CallInv

\* While lines are read, what waits is the open frame, and what was handed out the
\* closed ones.
LEMMA LinesSoFar ==
    ASSUME CallInv, mode = "stream", outcome = "reading", at < Len(script.sent)
    PROVE  /\ handed = FramesNow.closed /\ Join(data_lines) = FramesNow.open
           /\ Join(data_lines) \in Seq(Word)
<1>1. /\ script \in Scripts /\ at \in 0 .. Len(script.sent) /\ Len(script.sent) \in Nat
      /\ data_lines \in Seq(Seq(Word))
  BY PartsOfScripts DEF CallInv, CallTypeOK
<1>2. handed = FramesNow.closed /\ Join(data_lines) = FramesNow.open
  BY <1>1 DEF CallInv, FramesSoFar, Going
<1>3. FramesNow \in FramesOver(Word)
  BY <1>1, FramesBegin DEF FramesNow
<1> QED
  BY <1>2, <1>3 DEF FramesOver

\* Nothing put together is nothing.
LEMMA JoinNothing == Join(<<>>) = <<>>
<1>1. <<>> \in Seq(Seq(Word)) /\ Len(<<>>) = 0
  OBVIOUS
<1> QED
  BY <1>1, JoinExists DEF Join

\* A line is read: it ends an event, adds to one, or says nothing of interest.
LEMMA ReadLineKeeps ==
    ASSUME CallInv, ReadLine
    PROVE  CallInv'
<1> DEFINE line == Upcoming
           next == FramesUpTo(script.sent)[at + 1]
<1>1. /\ outcome = "reading" /\ mode = "stream" /\ at < Len(script.sent) /\ at' = at + 1
      /\ received' = received + line.size
      /\ UNCHANGED <<client, mode, script>>
  BY DEF ReadLine
<1>2. CallTypeOK
  BY DEF CallInv
<1>3. /\ at + 1 \in 0 .. Len(script.sent) /\ at \in Nat
      /\ received' = BytesUpTo(script.sent)[at'] /\ line.value \in Seq(Word)
      /\ ~ Exceeds(received, line.size) => at + 1 \in WithinLimit
      /\ next = FramesAfter(FramesNow, line) /\ FramesNow \in FramesOver(Word)
  BY <1>1, OneMore
<1>4. /\ handed = FramesNow.closed /\ Join(data_lines) = FramesNow.open
      /\ Join(data_lines) \in Seq(Word) /\ data_lines \in Seq(Seq(Word))
      /\ handed \in Seq(Seq(Word)) /\ script \in Scripts
  BY <1>1, <1>2, LinesSoFar DEF CallTypeOK
<1>5. WithinLimit' = WithinLimit /\ FramesNow' = next
  BY <1>1 DEF WithinLimit, FramesNow
<1> HIDE DEF line, next
<1>6. ASSUME outcome' \in Errors, UNCHANGED handed, data_lines' \in Seq(Seq(Word))
      PROVE  CallInv'
  BY <1>1, <1>3, <1>6, FailingKeeps
<1>7. ASSUME UNCHANGED <<handed, outcome>>, data_lines' \in Seq(Seq(Word)), at + 1 \in WithinLimit,
             handed = next.closed, Join(data_lines') = next.open
      PROVE  CallInv'
  <2>1. CallTypeOK'
    BY <1>1, <1>2, <1>3, <1>7 DEF CallTypeOK
  <2>2. (FitsSoFar /\ FramesSoFar /\ BodySoFar)'
    <3>1. Join(data_lines)' = Join(data_lines')
      OBVIOUS
    <3> QED
      BY <1>1, <1>5, <1>7, <3>1 DEF FitsSoFar, FramesSoFar, BodySoFar
  <2> QED
    BY <1>1, <1>7, <2>1, <2>2, GoingOnKeeps DEF CallInv
<1>8. CASE Exceeds(received, line.size)
  <2>1. outcome' = "upstream_response_too_large" /\ UNCHANGED <<data_lines, handed>>
    BY <1>8 DEF ReadLine, line
  <2> QED
    BY <1>4, <1>6, <2>1 DEF Errors
<1>9. CASE ~ Exceeds(received, line.size) /\ line.field = "blank" /\ data_lines # <<>>
  <2> DEFINE pieces == Join(data_lines)
  <2>1. HandOut(pieces) /\ data_lines' = <<>>
    BY <1>9 DEF ReadLine, line, ClearPending
  <2>2. next = IF pieces = <<>> THEN FramesNow
               ELSE [closed |-> Append(handed, pieces), open |-> <<>>]
    BY <1>3, <1>4, <1>9 DEF FramesAfter
  <2>3. ASSUME pieces # <<>>
        PROVE  /\ IsPrefix(Append(handed, pieces), FramesOf(at + 1))
               /\ IsPrefix(Append(handed, pieces), Frames)
    <3>1. next.closed = Append(handed, pieces)
      BY <2>2, <2>3
    <3> QED
      BY <1>3, <1>4, <3>1, FramesBegin DEF next
  <2>4. /\ outcome' \in {"reading", "done", "upstream_invalid_stream", Crashed}
        /\ handed' \in Seq(Seq(Word))
        /\ outcome' = "reading" => pieces # <<>> /\ handed' = Append(handed, pieces)
        /\ BodiesArriveWhole' /\ EndingsAreKnown'
    <3> HIDE DEF pieces
    <3>1. pieces \in Seq(Word)
      BY <1>4 DEF pieces
    <3> QED
      BY <1>1, <1>3, <1>9, <2>1, <2>3, <3>1, HandOutKeeps
  <2>5. CallTypeOK'
    <3>1. data_lines' \in Seq(Seq(Word))
      BY <2>1
    <3> QED
      BY <1>1, <1>2, <1>3, <2>4, <3>1 DEF CallTypeOK, Outcomes, Errors, Ended
  <2>6. FramesSoFar'
    <3>1. Join(data_lines)' = <<>>
      BY <2>1, JoinNothing
    <3>2. outcome' = "reading" => handed' = next.closed /\ next.open = <<>>
      BY <2>2, <2>4
    <3> QED
      BY <1>5, <2>4, <3>1, <3>2 DEF FramesSoFar, Going, Crashed
  <2>7. FitsSoFar' /\ BodySoFar'
    BY <1>1, <1>3, <1>5, <1>9 DEF FitsSoFar, BodySoFar
  <2> QED
    BY <2>4, <2>5, <2>6, <2>7 DEF CallInv
<1>10. CASE ~ Exceeds(received, line.size) /\ line.field = "data"
  <2>1. data_lines' = Append(data_lines, line.value) /\ UNCHANGED <<outcome, handed>>
    BY <1>10 DEF ReadLine, line
  <2>2. data_lines' \in Seq(Seq(Word)) /\ Join(data_lines') = Join(data_lines) \o line.value
    <3>1. Append(data_lines, line.value) \in Seq(Seq(Word))
      BY <1>3, <1>4, AppendProperties
    <3>2. Join(Append(data_lines, line.value)) = Join(data_lines) \o line.value
      BY <1>3, <1>4, JoinAppend
    <3> QED
      BY <2>1, <3>1, <3>2
  <2>3. handed = next.closed /\ Join(data_lines') = next.open
    BY <1>3, <1>4, <1>10, <2>2 DEF FramesAfter, FramesOver
  <2> QED
    BY <1>3, <1>7, <1>10, <2>1, <2>2, <2>3
<1>11. CASE ~ Exceeds(received, line.size) /\ line.field \in {"none", "unknown"}
  <2>1. outcome' = "upstream_invalid_stream" /\ UNCHANGED <<data_lines, handed>>
    BY <1>11 DEF ReadLine, line
  <2> QED
    BY <1>4, <1>6, <2>1 DEF Errors
<1>12. CASE /\ ~ Exceeds(received, line.size)
            /\ line.field \notin {"data", "none", "unknown"}
            /\ ~ (line.field = "blank" /\ data_lines # <<>>)
  <2>1. UNCHANGED <<outcome, data_lines, handed>>
    BY <1>12 DEF ReadLine, line
  <2>2. handed = next.closed /\ Join(data_lines') = next.open
    <3>1. line.field = "blank" => FramesNow.open = <<>>
      BY <1>4, <1>12, JoinNothing
    <3>2. next = FramesNow
      BY <1>3, <1>12, <3>1 DEF FramesAfter
    <3> QED
      BY <1>4, <2>1, <3>2
  <2> QED
    BY <1>3, <1>4, <1>7, <1>12, <2>1, <2>2
<1> QED
  BY <1>8, <1>9, <1>10, <1>11, <1>12

\* The body ends: an open event is handed out, too.
LEMMA EndOfLinesKeeps ==
    ASSUME CallInv, EndOfLines
    PROVE  CallInv'
<1> DEFINE pieces == Join(data_lines)
<1>1. /\ outcome = "reading" /\ mode = "stream" /\ at = Len(script.sent)
      /\ UNCHANGED <<client, mode, script, at, received>>
  BY DEF EndOfLines
<1>2. /\ CallTypeOK /\ at \in WithinLimit /\ data_lines \in Seq(Seq(Word))
      /\ script \in Scripts /\ at \in 0 .. Len(script.sent) /\ handed \in Seq(Seq(Word))
  BY <1>1 DEF CallInv, FitsSoFar, Going, CallTypeOK
<1>3. /\ FramesNow \in FramesOver(Word) /\ Frames = FramesOf(at) /\ Frames \in Seq(Seq(Word))
      /\ Frames = IF FramesNow.open = <<>> THEN FramesNow.closed
                  ELSE Append(FramesNow.closed, FramesNow.open)
  BY <1>1, <1>2, FramesBegin DEF FramesNow, Frames, FramesOf
<1>4. WithinLimit' = WithinLimit /\ Frames' = Frames /\ FramesOf(at)' = FramesOf(at)
  BY <1>1 DEF WithinLimit, Frames, FramesOf
<1>5. CASE data_lines # <<>>
  <2>1. HandOut(pieces) /\ data_lines' = <<>>
    BY <1>5 DEF EndOfLines
  <2>2. handed = FramesNow.closed /\ pieces = FramesNow.open
    BY <1>1, <1>5 DEF CallInv, FramesSoFar, Going
  <2>3. pieces # <<>> => Frames = Append(handed, pieces)
    BY <1>3, <2>2
  <2>4. pieces \in Seq(Word)
    BY <1>3, <2>2 DEF FramesOver
  <2>5. /\ outcome' \in {"reading", "done", "upstream_invalid_stream", Crashed}
        /\ handed' \in Seq(Seq(Word))
        /\ outcome' = "reading" => pieces # <<>> /\ handed' = Append(handed, pieces)
        /\ BodiesArriveWhole' /\ EndingsAreKnown'
    <3> HIDE DEF pieces
    <3>1. pieces # <<>> => /\ IsPrefix(Append(handed, pieces), FramesOf(at'))
                           /\ IsPrefix(Append(handed, pieces), Frames)
      <4>1. IsPrefix(Frames, Frames)
        BY <1>3, ItselfIsPrefix
      <4> QED
        BY <1>1, <1>3, <2>3, <4>1
    <3> QED
      BY <1>1, <1>2, <2>1, <2>4, <3>1, HandOutKeeps
  <2>6. CallTypeOK'
    <3>1. data_lines' \in Seq(Seq(Word))
      BY <2>1
    <3> QED
      BY <1>1, <1>2, <2>5, <3>1 DEF CallTypeOK, Outcomes, Errors, Ended
  <2>7. (FitsSoFar /\ FramesSoFar /\ BodySoFar)'
    <3>1. outcome' = "reading" => handed' = Frames'
      BY <1>4, <2>3, <2>5
    <3> QED
      BY <1>1, <1>2, <1>4, <2>1, <2>5, <3>1 DEF FitsSoFar, FramesSoFar, BodySoFar, Going, Crashed
  <2> QED
    BY <2>5, <2>6, <2>7 DEF CallInv
<1>6. CASE data_lines = <<>>
  <2>1. outcome' = "end of stream" /\ UNCHANGED <<data_lines, handed>>
    BY <1>6 DEF EndOfLines
  <2>2. handed = Frames
    BY <1>1, <1>3, <1>6, JoinNothing DEF CallInv, FramesSoFar, Going
  <2>3. CallTypeOK'
    BY <1>1, <1>2, <2>1 DEF CallTypeOK, Outcomes, Ended
  <2>4. (FitsSoFar /\ FramesSoFar /\ BodySoFar)'
    BY <2>1 DEF FitsSoFar, FramesSoFar, BodySoFar, Going
  <2>5. NothingBeyondTheLimit'
    <3>1. IsPrefix(handed, FramesOf(at))
      BY <1>3, <2>2, ItselfIsPrefix
    <3> QED
      BY <1>1, <1>2, <1>4, <2>1, <3>1 DEF NothingBeyondTheLimit
  <2>6. EventsAreTheFrames'
    BY <1>1, <1>4, <2>1 DEF CallInv, BodiesArriveWhole, EventsAreTheFrames
  <2>7. SuccessIsComplete'
    BY <1>4, <2>1, <2>2 DEF SuccessIsComplete
  <2>8. EndingsAreKnown'
    BY <2>1 DEF EndingsAreKnown, Ended
  <2> QED
    BY <2>3, <2>4, <2>5, <2>6, <2>7, <2>8 DEF CallInv, BodiesArriveWhole
<1> QED
  BY <1>5, <1>6

\* A step that changes nothing.
LEMMA RestingKeeps ==
    ASSUME CallInv, UNCHANGED callVars
    PROVE  CallInv'
<1>1. UNCHANGED <<client, mode, script, at, received, data_lines, handed, outcome>>
  BY DEF callVars
<1>2. (CallTypeOK /\ FitsSoFar /\ FramesSoFar /\ BodySoFar)'
  BY <1>1 DEF CallInv, CallTypeOK, FitsSoFar, FramesSoFar, BodySoFar, Going, FramesNow,
               WithinLimit, Frames, FramesOf
<1>3. NothingBeyondTheLimit'
  BY <1>1 DEF CallInv, BodiesArriveWhole, NothingBeyondTheLimit, WithinLimit, FramesOf, PiecesOf
<1>4. EventsAreTheFrames'
  BY <1>1, SMTT(60) DEF CallInv, BodiesArriveWhole, EventsAreTheFrames, Frames, FramesOf
<1>5. SuccessIsComplete'
  BY <1>1 DEF CallInv, BodiesArriveWhole, SuccessIsComplete, Frames, FramesOf, PiecesOf
<1>6. EndingsAreKnown'
  BY <1>1 DEF CallInv, EndingsAreKnown, PiecesOf, BreaksOn, Frames, FramesOf
<1> QED
  BY <1>2, <1>3, <1>4, <1>5, <1>6 DEF CallInv, BodiesArriveWhole

\* The invariant of a call: bytes, frames and pieces are those of what was read.
THEOREM CallInductive == CallSpec => []CallInv
<1>1. ASSUME CallInv, [CallNext]_callVars PROVE CallInv'
  BY <1>1, RespondKeeps, CallFailsKeeps, ReadChunkKeeps, AnswerKeeps, ReadLineKeeps,
     EndOfLinesKeeps, RestingKeeps DEF CallNext
<1> QED
  BY <1>1, CallStarts, PTL DEF CallSpec

\* Whatever a provider sends, cut into chunks and lines as it may be: the caller
\* gets the body or its events whole, in order and once, nothing that lies beyond
\* the limit, and a success only when all of it was read.
THEOREM WholeBodies == CallSpec => []BodiesArriveWhole
<1>1. CallInv => BodiesArriveWhole
  BY DEF CallInv
<1> QED
  BY <1>1, CallInductive, PTL

\* A call ends with an answer or an error that is mapped to an answer, but for the
\* answers and events that the client cannot take apart, which it raises on.
THEOREM KnownEndings == CallSpec => []EndingsAreKnown
<1>1. CallInv => EndingsAreKnown
  BY DEF CallInv
<1> QED
  BY <1>1, CallInductive, PTL

----------------------------------------------------------------------------
(* What an inspection makes of a text. *)

\* No two halves of a value stand side by side.
NoWhole(text) == \A n \in DOMAIN text : ~ Whole(text, n)

\* What can be shown is a record with a value and a half.
LEMMA ShownFields ==
    /\ \A p \in Shown : p \in [of : Value, half : 0 .. 2]
    /\ Piece \subseteq Shown
    /\ \A p \in Shown : [p EXCEPT !.half = 2].half = 2
    /\ Original \in Shown /\ Original.half = 0 /\ Redacted \in Shown /\ Redacted.half = 0
BY DEF Shown, Piece, Original, Redacted, Value

\* Without its end, a text has the same pieces and no whole value either.
LEMMA FrontStaysApart ==
    ASSUME NEW text \in Seq(Shown)
    PROVE  /\ Front(text) \in Seq(Shown)
           /\ Len(Front(text)) = IF text = <<>> THEN 0 ELSE Len(text) - 1
           /\ NoWhole(text) => NoWhole(Front(text))
<1> DEFINE front == Front(text)
<1>1. Len(text) \in Nat /\ (text = <<>> <=> Len(text) = 0) /\ \A i \in 1 .. Len(text) : text[i] \in Shown
  OBVIOUS
<1>2. /\ front \in Seq(Shown)
      /\ Len(front) = (IF 1 <= Len(text) - 1 THEN Len(text) - 1 - 1 + 1 ELSE 0)
      /\ \A i \in 1 .. Len(text) - 1 - 1 + 1 : front[i] = text[1 + i - 1]
  BY <1>1, SubSeqProperties DEF Front
<1> HIDE DEF front
<1>3. /\ Len(front) \in Nat /\ Len(front) = IF text = <<>> THEN 0 ELSE Len(text) - 1
      /\ \A i \in 1 .. Len(front) : front[i] = text[i]
  BY <1>1, <1>2
<1>4. ASSUME NoWhole(text) PROVE NoWhole(front)
  <2> SUFFICES ASSUME NEW n \in DOMAIN front, Whole(front, n) PROVE FALSE
    BY DEF NoWhole
  <2>1. n \in 1 .. Len(front) - 1 /\ front[n].half = 1 /\ front[n + 1] = [front[n] EXCEPT !.half = 2]
    BY DEF Whole
  <2>2. n \in 1 .. Len(front) /\ n + 1 \in 1 .. Len(front) /\ n \in 1 .. Len(text) - 1 /\ n \in DOMAIN text
    BY <1>1, <1>3, <2>1
  <2>3. Whole(text, n)
    BY <1>3, <2>1, <2>2 DEF Whole
  <2> QED
    BY <1>4, <2>2, <2>3 DEF NoWhole
<1> QED
  BY <1>2, <1>3, <1>4 DEF front

\* A piece more makes a whole value only with the piece before it.
LEMMA AppendStaysApart ==
    ASSUME NEW text \in Seq(Shown), NoWhole(text), NEW p \in Shown,
           text # <<>> => ~ (text[Len(text)].half = 1 /\ p = [text[Len(text)] EXCEPT !.half = 2])
    PROVE  /\ Append(text, p) \in Seq(Shown)
           /\ NoWhole(Append(text, p))
<1> DEFINE more == Append(text, p)
<1>1. /\ more \in Seq(Shown) /\ Len(more) = Len(text) + 1 /\ more[Len(text) + 1] = p
      /\ \A i \in 1 .. Len(text) : more[i] = text[i]
      /\ Len(text) \in Nat
  BY AppendProperties
<1> HIDE DEF more
<1>2. ASSUME NEW n \in DOMAIN more, Whole(more, n) PROVE FALSE
  <2>1. n \in 1 .. Len(more) - 1 /\ more[n].half = 1 /\ more[n + 1] = [more[n] EXCEPT !.half = 2]
    BY <1>2 DEF Whole
  <2>2. n \in 1 .. Len(text) /\ more[n] = text[n] /\ n \in DOMAIN text
    BY <1>1, <2>1
  <2>3. CASE n = Len(text)
    <3>1. text # <<>>
      BY <2>2
    <3> QED
      BY <1>1, <2>1, <2>2, <2>3, <3>1
  <2>4. CASE n # Len(text)
    <3>1. n + 1 \in 1 .. Len(text) /\ n \in 1 .. Len(text) - 1
      BY <1>1, <2>2, <2>4
    <3>2. Whole(text, n)
      BY <1>1, <2>1, <2>2, <3>1 DEF Whole
    <3> QED
      BY <2>2, <3>2 DEF NoWhole
  <2> QED
    BY <2>3, <2>4
<1> QED
  BY <1>1, <1>2 DEF NoWhole, more

\* Taking a piece in gives a text again.
LEMMA TakeTypes ==
    ASSUME NEW text \in Seq(Piece), NEW restores, NEW n \in 1 .. Len(text), NEW seen \in Seq(Shown)
    PROVE  Take(seen, text, n, restores) \in Seq(Shown)
<1>1. text[n] \in Shown
  <2>1. text[n] \in Piece
    OBVIOUS
  <2> QED
    BY <2>1, ShownFields
<1>2. Standing(text[n].of, restores) \in Shown
  BY ShownFields DEF Standing
<1>3. Front(seen) \in Seq(Shown)
  BY FrontStaysApart
<1> QED
  BY <1>1, <1>2, <1>3, AppendProperties DEF Take

\* The recursion of InspectUpTo has a solution.
LEMMA InspectionExists ==
    ASSUME NEW text \in Seq(Piece), NEW restores
    PROVE  /\ InspectUpTo(text, restores) \in [0 .. Len(text) -> Seq(Shown)]
           /\ InspectUpTo(text, restores)[0] = <<>>
           /\ \A n \in 1 .. Len(text) :
                 InspectUpTo(text, restores)[n] = Take(InspectUpTo(text, restores)[n - 1], text, n, restores)
<1> DEFINE N == Len(text)
           step == [n \in 1 .. N |-> [v \in Seq(Shown) |-> Take(v, text, n, restores)]]
           Solves(f) == f = [n \in 0 .. N |-> IF n = 0 THEN <<>> ELSE Take(f[n - 1], text, n, restores)]
           g == CHOOSE f : Solves(f)
<1>1. N \in Nat /\ <<>> \in Seq(Shown)
  OBVIOUS
<1>2. /\ step \in [1 .. N -> [Seq(Shown) -> Seq(Shown)]]
      /\ \A n \in 1 .. N : \A v \in Seq(Shown) : step[n][v] = Take(v, text, n, restores)
  <2>1. \A n \in 1 .. N : \A v \in Seq(Shown) : Take(v, text, n, restores) \in Seq(Shown)
    BY TakeTypes
  <2> QED
    BY <2>1
<1>3. InspectUpTo(text, restores) = g
  BY DEF InspectUpTo
<1> HIDE DEF step, N
<1>4. PICK f : Follows(f, Seq(Shown), <<>>, N, step)
  BY <1>1, <1>2, Recursion
<1>5. Solves(f)
  <2>1. \A n \in 0 .. N : n # 0 => n \in 1 .. N /\ n - 1 \in 0 .. N
    BY <1>1
  <2>2. \A n \in 0 .. N : f[n] = IF n = 0 THEN <<>> ELSE Take(f[n - 1], text, n, restores)
    BY <1>2, <1>4, <2>1 DEF Follows
  <2> QED
    BY <1>4, <2>2 DEF Follows
<1>6. Solves(g)
  BY <1>5
<1> HIDE DEF g
<1>7. g = [n \in 0 .. N |-> g[n]] /\ g[0] = <<>>
  BY <1>1, <1>6
<1>8. \A n \in 1 .. N : n \in 0 .. N /\ g[n] = Take(g[n - 1], text, n, restores)
  <2>1. \A n \in 1 .. N : n \in 0 .. N /\ n # 0
    BY <1>1
  <2> QED
    BY <1>6, <2>1
<1>9. Follows(g, Seq(Shown), <<>>, N, step)
  <2>1. \A n \in 1 .. N : g[n - 1] \in Seq(Shown) => g[n] = step[n][g[n - 1]]
    BY <1>2, <1>8
  <2> QED
    BY <1>1, <1>2, <1>7, <2>1, Unrolled
<1> QED
  BY <1>1, <1>3, <1>8, <1>9 DEF Follows, N


\* What has been taken in of a text is free of whole values, and ends with a first half
\* only when the text does.
TakenApart(seen, text, n) ==
    /\ seen \in Seq(Shown)
    /\ NoWhole(seen)
    /\ n = 0 => seen = <<>>
    /\ seen # <<>> /\ seen[Len(seen)].half = 1 => seen[Len(seen)] = text[n]

\* The next piece keeps it so.
LEMMA TakeStaysApart ==
    ASSUME NEW text \in Seq(Piece), NEW restores, NEW n \in Nat, n + 1 <= Len(text),
           NEW seen, TakenApart(seen, text, n)
    PROVE  TakenApart(Take(seen, text, n + 1, restores), text, n + 1)
<1> DEFINE p == text[n + 1]
           x == Standing(p.of, restores)
           taken == Take(seen, text, n + 1, restores)
<1>1. Len(text) \in Nat /\ n + 1 \in 1 .. Len(text) /\ (n + 1) - 1 = n /\ n + 1 # 0
  OBVIOUS
<1>2. p \in Shown /\ seen \in Seq(Shown)
  <2>1. p \in Piece
    BY <1>1
  <2> QED
    BY <2>1, ShownFields DEF TakenApart
<1>3. CASE Whole(text, n)
  <2>1. taken = Append(Front(seen), x)
    BY <1>1, <1>3 DEF Take
  <2>2. x \in Shown /\ x.half = 0
    BY ShownFields DEF Standing
  <2>3. Front(seen) \in Seq(Shown) /\ NoWhole(Front(seen))
    BY <1>2, FrontStaysApart DEF TakenApart
  <2> DEFINE front == Front(seen)
  <2> HIDE DEF x, front
  <2>4. ASSUME front # <<>>
        PROVE  ~ (x = [front[Len(front)] EXCEPT !.half = 2])
    <3> DEFINE e == front[Len(front)]
    <3>1. e \in Shown
      BY <2>3, <2>4 DEF front
    <3> SUFFICES ASSUME x = [e EXCEPT !.half = 2] PROVE FALSE
      OBVIOUS
    <3> HIDE DEF e
    <3>2. [e EXCEPT !.half = 2].half = 2
      BY <3>1, ShownFields
    <3> QED
      BY <2>2, <3>2
  <2>5. Append(front, x) \in Seq(Shown) /\ NoWhole(Append(front, x))
    BY <2>2, <2>3, <2>4, AppendStaysApart DEF front
  <2>6. Append(front, x)[Len(Append(front, x))] = x
    BY <2>2, <2>3, AppendProperties DEF front
  <2>7. taken = Append(front, x)
    BY <2>1 DEF x, front
  <2> HIDE DEF taken
  <2>8. taken \in Seq(Shown) /\ NoWhole(taken) /\ taken[Len(taken)] = x
    BY <2>5, <2>6, <2>7
  <2>9. taken[Len(taken)].half # 1
    BY <2>2, <2>8
  <2> QED
    BY <1>1, <2>8, <2>9 DEF TakenApart, taken
<1>4. CASE ~ Whole(text, n)
  <2>1. taken = Append(seen, p)
    BY <1>1, <1>4 DEF Take
  <2>2. ASSUME seen # <<>>, seen[Len(seen)].half = 1, p = [seen[Len(seen)] EXCEPT !.half = 2]
        PROVE  FALSE
    <3>1. seen[Len(seen)] = text[n] /\ n # 0
      BY <2>2 DEF TakenApart
    <3>2. n \in 1 .. Len(text) - 1
      BY <1>1, <3>1
    <3> QED
      BY <1>4, <2>2, <3>1, <3>2 DEF Whole
  <2>3. NoWhole(seen)
    BY DEF TakenApart
  <2> HIDE DEF p
  <2>4. Append(seen, p) \in Seq(Shown) /\ NoWhole(Append(seen, p))
    BY <1>2, <2>2, <2>3, AppendStaysApart
  <2>5. Append(seen, p)[Len(Append(seen, p))] = p
    BY <1>2, AppendProperties
  <2> HIDE DEF taken
  <2> QED
    BY <1>1, <2>1, <2>4, <2>5 DEF TakenApart, taken, p
<1> QED
  BY <1>3, <1>4

\* An inspected text is a text without whole values.
LEMMA InspectedIsApart ==
    ASSUME NEW text \in Seq(Piece), NEW restores
    PROVE  Inspect(text, restores) \in Seq(Shown) /\ NoWhole(Inspect(text, restores))
<1> DEFINE N == Len(text)
           g == InspectUpTo(text, restores)
           S == {n \in Nat : n <= N => TakenApart(g[n], text, n)}
<1>1. N \in Nat /\ g[0] = <<>> /\ \A n \in 1 .. N : g[n] = Take(g[n - 1], text, n, restores)
  BY InspectionExists
<1> HIDE DEF g, N
<1>2. TakenApart(<<>>, text, 0)
  BY DEF TakenApart, NoWhole
<1>3. 0 \in S
  BY <1>1, <1>2
<1>4. ASSUME NEW n \in Nat, n \in S PROVE n + 1 \in S
  <2> SUFFICES ASSUME n + 1 <= N PROVE TakenApart(g[n + 1], text, n + 1)
    OBVIOUS
  <2>1. TakenApart(g[n], text, n)
    BY <1>1, <1>4
  <2>2. n + 1 \in 1 .. N /\ (n + 1) - 1 = n
    BY <1>1
  <2>3. g[n + 1] = Take(g[n], text, n + 1, restores)
    BY <1>1, <2>2
  <2> QED
    BY <2>1, <2>3, TakeStaysApart DEF N
<1> HIDE DEF S
<1>5. Nat \subseteq S
  BY <1>3, <1>4, NaturalsByInduction
<1> QED
  BY <1>1, <1>5 DEF S, Inspect, g, N, TakenApart

\* Nothing stays nothing.
LEMMA NothingInspected == \A restores : Inspect(<<>>, restores) = <<>>
<1> SUFFICES ASSUME NEW restores PROVE Inspect(<<>>, restores) = <<>>
  OBVIOUS
<1>1. <<>> \in Seq(Piece) /\ Len(<<>>) = 0
  OBVIOUS
<1>2. InspectUpTo(<<>>, restores)[0] = <<>>
  BY <1>1, InspectionExists
<1> QED
  BY <1>1, <1>2 DEF Inspect

----------------------------------------------------------------------------
(* The events of a stream and the buffers. *)

\* An event is a list of choices; each names a slot, by its place and by its index.
LEMMA EventIsList ==
    ASSUME NEW event \in Events
    PROVE  /\ Len(event) \in Nat /\ DOMAIN event = 1 .. Len(event)
           /\ \A n \in 1 .. Len(event) :
                 /\ event[n].text \in Seq(Piece)
                 /\ Path(event, n) \in Slot /\ Declared(event, n) \in Slot
<1>1. 0 \in Indexes /\ Cardinality(Indexes) \in Nat /\ \A n \in 1 .. Cardinality(Indexes) : n - 1 \in Indexes
  <2>1. Cardinality(Indexes) \in Nat
    BY GuardAssumption, FS_CardinalityType
  <2>2. Cardinality(Indexes) # 0
    BY <2>1, GuardAssumption
  <2> QED
    BY <2>1, <2>2, GuardAssumption
<1>2. /\ Len(event) \in Nat /\ DOMAIN event = 1 .. Len(event)
      /\ \A n \in 1 .. Len(event) : event[n] \in Choice /\ n - 1 \in Indexes
  <2>1. CASE OneByOne
    <3>1. PICK c \in Choice : event = <<c>>
      BY <2>1 DEF Events
    <3> QED
      BY <1>1, <3>1
  <2>2. CASE ~ OneByOne
    <3>1. event \in [1 .. Cardinality(Indexes) -> Choice]
      BY <2>2 DEF Events
    <3>2. Len(event) = Cardinality(Indexes)
      BY <1>1, <3>1
    <3> QED
      BY <1>1, <3>1, <3>2
  <2> QED
    BY <2>1, <2>2
<1>3. \A c \in Choice : c.index \in Indexes /\ c.field \in Fields /\ c.text \in Seq(Piece)
  <2>1. \A c \in Choice : /\ c.index \in Indexes /\ c.field \in Fields
                          /\ c.text \in {<<>>} \cup {<<p>> : p \in Piece}
    BY DEF Choice
  <2>2. {<<>>} \cup {<<p>> : p \in Piece} \subseteq Seq(Piece)
    <3>1. <<>> \in Seq(Piece) /\ \A p \in Piece : <<p>> \in Seq(Piece)
      OBVIOUS
    <3> QED
      BY <3>1
  <2> QED
    BY <2>1, <2>2
<1> QED
  BY <1>2, <1>3 DEF Path, Declared, Slot

\* A provider that puts several choices into a stream sends each event with all of them.
ListsAreWhole == OneByOne => Indexes = {0}

\* The place of a choice is its index then.
LEMMA PlaceIsIndex ==
    ASSUME ListsAreWhole, NEW event \in Events
    PROVE  \A n \in 1 .. Len(event) : Declared(event, n) = Path(event, n)
<1> SUFFICES ASSUME NEW n \in 1 .. Len(event) PROVE event[n].index = n - 1
  BY DEF Declared, Path
<1>1. CASE OneByOne
  <2>1. PICK c \in Choice : event = <<c>>
    BY <1>1 DEF Events
  <2>2. n = 1 /\ event[n] = c /\ c.index \in Indexes
    BY <2>1 DEF Choice
  <2>3. Indexes = {0}
    BY <1>1 DEF ListsAreWhole
  <2> QED
    BY <2>2, <2>3
<1>2. CASE ~ OneByOne
  <2>1. n \in DOMAIN event
    BY EventIsList
  <2> QED
    BY <1>2, <2>1 DEF Events
<1> QED
  BY <1>1, <1>2

\* An event has at most one text for a slot.
LEMMA TextByPlace ==
    ASSUME NEW event \in Events, NEW s \in Slot
    PROVE  /\ TextOf(event, Path, s) \in Seq(Piece)
           /\ (\A n \in 1 .. Len(event) : Path(event, n) # s) => TextOf(event, Path, s) = <<>>
           /\ \A n \in 1 .. Len(event) : Path(event, n) = s => TextOf(event, Path, s) = event[n].text
<1> DEFINE n0 == CHOOSE n \in DOMAIN event : Path(event, n) = s
<1>1. TextOf(event, Path, s) = IF \E n \in DOMAIN event : Path(event, n) = s
                               THEN event[n0].text ELSE <<>>
  BY DEF TextOf
<1>2. (\E n \in DOMAIN event : Path(event, n) = s) => n0 \in DOMAIN event /\ Path(event, n0) = s
  OBVIOUS
<1> HIDE DEF n0
<1>3. DOMAIN event = 1 .. Len(event) /\ \A n \in 1 .. Len(event) : event[n].text \in Seq(Piece)
  BY EventIsList
<1>4. ASSUME NEW n \in 1 .. Len(event), Path(event, n) = s
      PROVE  n0 = n
  BY <1>2, <1>3, <1>4, SMTT(60) DEF Path
<1>5. <<>> \in Seq(Piece)
  OBVIOUS
<1> QED
  BY <1>1, <1>2, <1>3, <1>4, <1>5

\* So it has when choices are told apart by their indexes.
LEMMA TextByIndex ==
    ASSUME NEW event \in Events, NEW s \in Slot
    PROVE  /\ TextOf(event, Declared, s) \in Seq(Piece)
           /\ ListsAreWhole => TextOf(event, Declared, s) = TextOf(event, Path, s)
<1> DEFINE n0 == CHOOSE n \in DOMAIN event : Declared(event, n) = s
<1>1. TextOf(event, Declared, s) = IF \E n \in DOMAIN event : Declared(event, n) = s
                                   THEN event[n0].text ELSE <<>>
  BY DEF TextOf
<1>2. (\E n \in DOMAIN event : Declared(event, n) = s) => n0 \in DOMAIN event /\ Declared(event, n0) = s
  OBVIOUS
<1> HIDE DEF n0
<1>3. DOMAIN event = 1 .. Len(event) /\ \A n \in 1 .. Len(event) : event[n].text \in Seq(Piece)
  BY EventIsList
<1>4. <<>> \in Seq(Piece)
  OBVIOUS
<1>5. ASSUME ListsAreWhole
      PROVE  TextOf(event, Declared, s) = TextOf(event, Path, s)
  <2>1. \A n \in 1 .. Len(event) : Declared(event, n) = Path(event, n)
    BY <1>5, PlaceIsIndex
  <2>2. CASE \E n \in DOMAIN event : Declared(event, n) = s
    <3>1. n0 \in 1 .. Len(event) /\ Path(event, n0) = s
      BY <1>2, <1>3, <2>1, <2>2
    <3> QED
      BY <1>1, <2>2, <3>1, TextByPlace
  <2>3. CASE ~ \E n \in DOMAIN event : Declared(event, n) = s
    <3>1. \A n \in 1 .. Len(event) : Path(event, n) # s
      BY <1>3, <2>1, <2>3
    <3> QED
      BY <1>1, <2>3, <3>1, TextByPlace
  <2> QED
    BY <2>2, <2>3
<1> QED
  BY <1>1, <1>2, <1>3, <1>4, <1>5

\* The recursion of EnterUpTo has a solution.
LEMMA EnterExists ==
    ASSUME NEW event \in Events, paths \in Seq(Slot)
    PROVE  /\ EnterUpTo(event) \in [0 .. Len(event) -> Seq(Slot)]
           /\ EnterUpTo(event)[0] = paths
           /\ \A n \in 1 .. Len(event) :
                 EnterUpTo(event)[n] = Enter(EnterUpTo(event)[n - 1], Path(event, n))
<1> DEFINE N == Len(event)
           step == [n \in 1 .. N |-> [v \in Seq(Slot) |-> Enter(v, Path(event, n))]]
           Solves(f) == f = [n \in 0 .. N |-> IF n = 0 THEN paths ELSE Enter(f[n - 1], Path(event, n))]
           g == CHOOSE f : Solves(f)
<1>1. N \in Nat /\ paths \in Seq(Slot) /\ \A n \in 1 .. N : Path(event, n) \in Slot
  BY EventIsList
<1>2. /\ step \in [1 .. N -> [Seq(Slot) -> Seq(Slot)]]
      /\ \A n \in 1 .. N : \A v \in Seq(Slot) : step[n][v] = Enter(v, Path(event, n))
  <2>1. \A n \in 1 .. N : \A v \in Seq(Slot) : Enter(v, Path(event, n)) \in Seq(Slot)
    BY <1>1, AppendProperties DEF Enter
  <2> QED
    BY <2>1
<1>3. EnterUpTo(event) = g
  BY DEF EnterUpTo
<1> HIDE DEF step, N
<1>4. PICK f : Follows(f, Seq(Slot), paths, N, step)
  BY <1>1, <1>2, Recursion
<1>5. Solves(f)
  <2>1. \A n \in 0 .. N : n # 0 => n \in 1 .. N /\ n - 1 \in 0 .. N
    BY <1>1
  <2>2. \A n \in 0 .. N : f[n] = IF n = 0 THEN paths ELSE Enter(f[n - 1], Path(event, n))
    BY <1>2, <1>4, <2>1 DEF Follows
  <2> QED
    BY <1>4, <2>2 DEF Follows
<1>6. Solves(g)
  BY <1>5
<1> HIDE DEF g
<1>7. g = [n \in 0 .. N |-> g[n]] /\ g[0] = paths
  BY <1>1, <1>6
<1>8. \A n \in 1 .. N : n \in 0 .. N /\ g[n] = Enter(g[n - 1], Path(event, n))
  <2>1. \A n \in 1 .. N : n \in 0 .. N /\ n # 0
    BY <1>1
  <2> QED
    BY <1>6, <2>1
<1>9. Follows(g, Seq(Slot), paths, N, step)
  <2>1. \A n \in 1 .. N : g[n - 1] \in Seq(Slot) => g[n] = step[n][g[n - 1]]
    BY <1>2, <1>8
  <2> QED
    BY <1>1, <1>2, <1>7, <2>1, Unrolled
<1> QED
  BY <1>1, <1>3, <1>8, <1>9 DEF Follows, N


\* An order of paths names each of them once.
OneEach(order) == \A i, j \in 1 .. Len(order) : order[i] = order[j] => i = j

\* A path enters an order at its end, or is in it.
LEMMA EnterKeeps ==
    ASSUME NEW order \in Seq(Slot), OneEach(order), NEW s \in Slot
    PROVE  /\ Enter(order, s) \in Seq(Slot)
           /\ OneEach(Enter(order, s))
           /\ ToSet(Enter(order, s)) = ToSet(order) \cup {s}
<1>1. CASE s \in ToSet(order)
  BY <1>1 DEF Enter
<1>2. CASE s \notin ToSet(order)
  <2> DEFINE more == Append(order, s)
  <2>1. Enter(order, s) = more
    BY <1>2 DEF Enter
  <2>2. /\ more \in Seq(Slot) /\ Len(more) = Len(order) + 1 /\ more[Len(order) + 1] = s
        /\ \A i \in 1 .. Len(order) : more[i] = order[i]
        /\ Len(order) \in Nat /\ DOMAIN more = 1 .. Len(order) + 1 /\ DOMAIN order = 1 .. Len(order)
    BY AppendProperties
  <2> HIDE DEF more
  <2>3. \A i \in 1 .. Len(order) + 1 : i \in 1 .. Len(order) \/ i = Len(order) + 1
    BY <2>2
  <2>4. ToSet(more) = ToSet(order) \cup {s}
    <3>1. \A i \in 1 .. Len(order) : i \in 1 .. Len(order) + 1
      BY <2>2
    <3>2. Len(order) + 1 \in 1 .. Len(order) + 1
      BY <2>2
    <3> QED
      BY <2>2, <2>3, <3>1, <3>2 DEF ToSet
  <2>5. \A i \in 1 .. Len(order) : order[i] # s
    BY <1>2, <2>2 DEF ToSet
  <2>6. OneEach(more)
    BY <2>2, <2>3, <2>5 DEF OneEach
  <2> QED
    BY <2>1, <2>2, <2>4, <2>6
<1> QED
  BY <1>1, <1>2

\* The paths of an event enter the order.
LEMMA PathsEnter ==
    ASSUME NEW event \in Events, paths \in Seq(Slot), OneEach(paths)
    PROVE  LET order == EnterUpTo(event)[Len(event)]
           IN  /\ order \in Seq(Slot) /\ OneEach(order)
               /\ ToSet(order) = ToSet(paths) \cup {Path(event, n) : n \in DOMAIN event}
<1> DEFINE N == Len(event)
           g == EnterUpTo(event)
           Good(order, n) == /\ order \in Seq(Slot) /\ OneEach(order)
                             /\ ToSet(order) = ToSet(paths) \cup {Path(event, m) : m \in 1 .. n}
           S == {n \in Nat : n <= N => Good(g[n], n)}
<1>1. N \in Nat /\ DOMAIN event = 1 .. N /\ \A n \in 1 .. N : Path(event, n) \in Slot
  BY EventIsList
<1>2. g[0] = paths /\ \A n \in 1 .. N : g[n] = Enter(g[n - 1], Path(event, n))
  BY EnterExists
<1> HIDE DEF g, N
<1>3. Good(paths, 0)
  OBVIOUS
<1>4. ASSUME NEW n \in Nat, n + 1 <= N, NEW order, Good(order, n)
      PROVE  Good(Enter(order, Path(event, n + 1)), n + 1)
  <2> DEFINE s == Path(event, n + 1)
  <2>1. n + 1 \in 1 .. N /\ s \in Slot
    BY <1>1, <1>4
  <2>2. {Path(event, m) : m \in 1 .. n + 1} = {Path(event, m) : m \in 1 .. n} \cup {s}
    <3>1. \A m : m \in 1 .. n + 1 <=> m \in 1 .. n \/ m = n + 1
      OBVIOUS
    <3> QED
      BY <3>1
  <2> HIDE DEF s
  <2>3. /\ Enter(order, s) \in Seq(Slot) /\ OneEach(Enter(order, s))
        /\ ToSet(Enter(order, s)) = ToSet(order) \cup {s}
    BY <1>4, <2>1, EnterKeeps
  <2> QED
    BY <1>4, <2>2, <2>3 DEF s
<1> HIDE DEF Good
<1>5. 0 \in S
  BY <1>2, <1>3
<1>6. ASSUME NEW n \in Nat, n \in S PROVE n + 1 \in S
  <2> SUFFICES ASSUME n + 1 <= N PROVE Good(g[n + 1], n + 1)
    OBVIOUS
  <2>1. Good(g[n], n)
    BY <1>1, <1>6
  <2>2. n + 1 \in 1 .. N /\ (n + 1) - 1 = n
    BY <1>1
  <2>3. g[n + 1] = Enter(g[n], Path(event, n + 1))
    BY <1>2, <2>2
  <2> QED
    BY <1>4, <2>1, <2>3
<1> HIDE DEF S
<1>7. Nat \subseteq S
  BY <1>5, <1>6, NaturalsByInduction
<1>8. Good(g[N], N)
  BY <1>1, <1>7 DEF S
<1> QED
  BY <1>1, <1>8 DEF Good, g, N

----------------------------------------------------------------------------
(* The final events. *)

FinalEvent == [slot : Slot, text : Seq(Shown)]

\* The recursion of FinalUpTo has a solution.
LEMMA FinalExists ==
    ASSUME paths \in Seq(Slot), \A n \in 1 .. Len(paths) : Final(paths[n]) \in FinalEvent
    PROVE  /\ FinalUpTo \in [0 .. Len(paths) -> Seq(FinalEvent)]
           /\ FinalUpTo[0] = <<>>
           /\ \A n \in 1 .. Len(paths) :
                 FinalUpTo[n] = AddFinal(FinalUpTo[n - 1], paths[n])
<1> DEFINE N == Len(paths)
           step == [n \in 1 .. N |-> [v \in Seq(FinalEvent) |-> AddFinal(v, paths[n])]]
           Solves(f) == f = [n \in 0 .. N |-> IF n = 0 THEN <<>> ELSE AddFinal(f[n - 1], paths[n])]
           g == CHOOSE f : Solves(f)
<1>1. /\ N \in Nat /\ <<>> \in Seq(FinalEvent)
      /\ \A n \in 1 .. N : Final(paths[n]) \in FinalEvent
  OBVIOUS
<1>2. /\ step \in [1 .. N -> [Seq(FinalEvent) -> Seq(FinalEvent)]]
      /\ \A n \in 1 .. N : \A v \in Seq(FinalEvent) : step[n][v] = AddFinal(v, paths[n])
  <2>1. \A n \in 1 .. N : \A v \in Seq(FinalEvent) : AddFinal(v, paths[n]) \in Seq(FinalEvent)
    BY <1>1, AppendProperties DEF AddFinal
  <2> QED
    BY <2>1
<1>3. FinalUpTo = g
  BY DEF FinalUpTo
<1> HIDE DEF step, N
<1>4. PICK f : Follows(f, Seq(FinalEvent), <<>>, N, step)
  BY <1>1, <1>2, Recursion
<1>5. Solves(f)
  <2>1. \A n \in 0 .. N : n # 0 => n \in 1 .. N /\ n - 1 \in 0 .. N
    BY <1>1
  <2>2. \A n \in 0 .. N : f[n] = IF n = 0 THEN <<>> ELSE AddFinal(f[n - 1], paths[n])
    BY <1>2, <1>4, <2>1 DEF Follows
  <2> QED
    BY <1>4, <2>2 DEF Follows
<1>6. Solves(g)
  BY <1>5
<1> HIDE DEF g
<1>7. g = [n \in 0 .. N |-> g[n]] /\ g[0] = <<>>
  BY <1>1, <1>6
<1>8. \A n \in 1 .. N : n \in 0 .. N /\ g[n] = AddFinal(g[n - 1], paths[n])
  <2>1. \A n \in 1 .. N : n \in 0 .. N /\ n # 0
    BY <1>1
  <2> QED
    BY <1>6, <2>1
<1>9. Follows(g, Seq(FinalEvent), <<>>, N, step)
  <2>1. \A n \in 1 .. N : g[n - 1] \in Seq(FinalEvent) => g[n] = step[n][g[n - 1]]
    BY <1>2, <1>8
  <2> QED
    BY <1>1, <1>2, <1>7, <2>1, Unrolled
<1> QED
  BY <1>1, <1>3, <1>8, <1>9 DEF Follows, N


\* One event for each buffer with text.
Listed(events, n) ==
    /\ events \in Seq(FinalEvent)
    /\ \A i, j \in 1 .. Len(events) : events[i].slot = events[j].slot => i = j
    /\ \A i \in 1 .. Len(events) :
          events[i].text # <<>> /\ \E m \in 1 .. n : events[i] = Final(paths[m])
    /\ \A m \in 1 .. n : Final(paths[m]).text # <<>> =>
          \E i \in 1 .. Len(events) : events[i] = Final(paths[m])

\* The next buffer's event is added to them.
LEMMA AddFinalKeeps ==
    ASSUME OneEach(paths), NEW n \in Nat, n + 1 <= Len(paths), paths \in Seq(Slot),
           Final(paths[n + 1]) \in FinalEvent,
           NEW events, Listed(events, n)
    PROVE  Listed(AddFinal(events, paths[n + 1]), n + 1)
<1> DEFINE e == Final(paths[n + 1])
           more == Append(events, e)
<1>1. /\ events \in Seq(FinalEvent) /\ Len(events) \in Nat
      /\ \A i, j \in 1 .. Len(events) : events[i].slot = events[j].slot => i = j
      /\ \A i \in 1 .. Len(events) :
            events[i].text # <<>> /\ \E m \in 1 .. n : events[i] = Final(paths[m])
      /\ \A m \in 1 .. n : Final(paths[m]).text # <<>> =>
            \E i \in 1 .. Len(events) : events[i] = Final(paths[m])
  BY DEF Listed
<1>2. \A m \in 1 .. n + 1 : m \in 1 .. n \/ m = n + 1
  OBVIOUS
<1>3. \A m \in 1 .. n : m \in 1 .. n + 1
  OBVIOUS
<1>4. CASE e.text = <<>>
  <2>1. AddFinal(events, paths[n + 1]) = events
    BY <1>4 DEF AddFinal
  <2> QED
    BY <1>1, <1>2, <1>3, <1>4, <2>1 DEF Listed
<1>5. CASE e.text # <<>>
  <2>1. AddFinal(events, paths[n + 1]) = more
    BY <1>5 DEF AddFinal
  <2>2. e \in FinalEvent /\ e.slot = paths[n + 1]
    BY DEF Final
  <2>3. \A m \in 1 .. n : paths[m] # paths[n + 1] /\ Final(paths[m]).slot = paths[m]
    <3> SUFFICES ASSUME NEW m \in 1 .. n PROVE paths[m] # paths[n + 1]
      BY DEF Final
    <3>1. m \in 1 .. Len(paths) /\ n + 1 \in 1 .. Len(paths) /\ m # n + 1
      OBVIOUS
    <3> QED
      BY <3>1 DEF OneEach
  <2>4. \A i \in 1 .. Len(events) : events[i].slot # e.slot
    BY <1>1, <2>2, <2>3
  <2> HIDE DEF e
  <2>5. /\ more \in Seq(FinalEvent) /\ Len(more) = Len(events) + 1 /\ more[Len(events) + 1] = e
        /\ \A i \in 1 .. Len(events) : more[i] = events[i]
    BY <1>1, <2>2, AppendProperties
  <2> HIDE DEF more
  <2>6. \A i \in 1 .. Len(more) : i \in 1 .. Len(events) \/ i = Len(events) + 1
    BY <1>1, <2>5
  <2>7. Len(events) + 1 \in 1 .. Len(more) /\ \A i \in 1 .. Len(events) : i \in 1 .. Len(more)
    BY <1>1, <2>5
  <2>8. \A i, j \in 1 .. Len(more) : more[i].slot = more[j].slot => i = j
    BY <1>1, <2>4, <2>5, <2>6
  <2>9. n + 1 \in 1 .. n + 1 /\ e = Final(paths[n + 1])
    BY DEF e
  <2>10. \A i \in 1 .. Len(more) :
            more[i].text # <<>> /\ \E m \in 1 .. n + 1 : more[i] = Final(paths[m])
    <3> SUFFICES ASSUME NEW i \in 1 .. Len(more)
                 PROVE  more[i].text # <<>> /\ \E m \in 1 .. n + 1 : more[i] = Final(paths[m])
      OBVIOUS
    <3>1. CASE i \in 1 .. Len(events)
      <4>1. events[i].text # <<>> /\ \E m \in 1 .. n : events[i] = Final(paths[m])
        BY <1>1, <3>1
      <4> QED
        BY <1>3, <2>5, <3>1, <4>1
    <3>2. CASE i = Len(events) + 1
      BY <1>5, <2>5, <2>9, <3>2
    <3> QED
      BY <2>6, <3>1, <3>2
  <2>11. \A m \in 1 .. n + 1 : Final(paths[m]).text # <<>> =>
            \E i \in 1 .. Len(more) : more[i] = Final(paths[m])
    <3> SUFFICES ASSUME NEW m \in 1 .. n + 1, Final(paths[m]).text # <<>>
                 PROVE  \E i \in 1 .. Len(more) : more[i] = Final(paths[m])
      OBVIOUS
    <3>1. CASE m \in 1 .. n
      <4>1. PICK i \in 1 .. Len(events) : events[i] = Final(paths[m])
        BY <1>1, <3>1
      <4> QED
        BY <2>5, <2>7, <4>1
    <3>2. CASE m = n + 1
      BY <2>5, <2>7, <2>9, <3>2
    <3> QED
      BY <1>2, <3>1, <3>2
  <2> QED
    BY <2>1, <2>5, <2>8, <2>10, <2>11, ZenonT(60) DEF Listed
<1> QED
  BY <1>4, <1>5

\* The final events are those of the buffers with text.
LEMMA FinalIsListed ==
    ASSUME paths \in Seq(Slot), OneEach(paths),
           \A n \in 1 .. Len(paths) : buffers[paths[n]] \in Seq(Piece)
    PROVE  /\ \A n \in 1 .. Len(paths) : NoWhole(Final(paths[n]).text)
           /\ Listed(FinalUpTo[Len(paths)], Len(paths))
<1> DEFINE N == Len(paths)
           g == FinalUpTo
           S == {n \in Nat : n <= N => Listed(g[n], n)}
<1>1. N \in Nat /\ \A n \in 1 .. N : paths[n] \in Slot
  OBVIOUS
<1>2. \A n \in 1 .. N : Final(paths[n]) \in FinalEvent /\ NoWhole(Final(paths[n]).text)
  BY <1>1, InspectedIsApart DEF Final, FinalEvent, ProcessAuthorizedText
<1>3. g[0] = <<>> /\ \A n \in 1 .. N : g[n] = AddFinal(g[n - 1], paths[n])
  BY <1>2, FinalExists
<1> HIDE DEF g
<1>4. Listed(<<>>, 0)
  BY DEF Listed
<1>5. 0 \in S
  BY <1>3, <1>4
<1>6. ASSUME NEW n \in Nat, n \in S PROVE n + 1 \in S
  <2> SUFFICES ASSUME n + 1 <= N PROVE Listed(g[n + 1], n + 1)
    OBVIOUS
  <2>1. Listed(g[n], n)
    BY <1>1, <1>6
  <2>2. n + 1 \in 1 .. N /\ (n + 1) - 1 = n
    BY <1>1
  <2>3. g[n + 1] = AddFinal(g[n], paths[n + 1])
    BY <1>3, <2>2
  <2>4. Final(paths[n + 1]) \in FinalEvent
    BY <1>2, <2>2
  <2> QED
    BY <2>1, <2>3, <2>4, AddFinalKeeps
<1> HIDE DEF S
<1>7. Nat \subseteq S
  BY <1>5, <1>6, NaturalsByInduction
<1> QED
  BY <1>1, <1>2, <1>7 DEF S, g

----------------------------------------------------------------------------
(* The stream. *)

\* The buffers and the order of their paths.
BuffersInv ==
    /\ DOMAIN buffers \subseteq Slot
    /\ \A s \in DOMAIN buffers : buffers[s] \in Seq(Piece)
    /\ paths \in Seq(Slot) /\ OneEach(paths)
    /\ ToSet(paths) = DOMAIN buffers

\* What is still to be sent has a slot of its own, where nothing has been sent.
PendingInv ==
    /\ pending \in Seq(FinalEvent)
    /\ \A i, j \in 1 .. Len(pending) : pending[i].slot = pending[j].slot => i = j
    /\ \A i \in 1 .. Len(pending) :
          NoWhole(pending[i].text) /\ displayed[pending[i].slot] = <<>>

\* Before its end a stream has shown nothing, and never a whole value.
StreamInv ==
    /\ said \in [Slot -> Seq(Piece)]
    /\ displayed \in [Slot -> Seq(Shown)]
    /\ \A s \in Slot : NoWhole(displayed[s])
    /\ BuffersInv
    /\ PendingInv
    /\ phase \in {"open", "broken", "finishing", "done"}
    /\ phase \in {"open", "broken"} => displayed = Silence /\ pending = <<>>
    /\ phase = "done" => pending = <<>>

\* What a slot is due: the inspected text, sent or still to be sent.
Due(s) ==
    /\ \A i \in 1 .. Len(pending) :
          pending[i].slot = s => pending[i].text = ProcessAuthorizedText(said[s])
    /\ (\A i \in 1 .. Len(pending) : pending[i].slot # s) =>
          displayed[s] = ProcessAuthorizedText(said[s])

\* What the provider said is buffered, and then due.
SaidInv ==
    /\ phase = "open" => \A s \in Slot : said[s] = Buffered(s)
    /\ phase \in {"finishing", "done"} =>
          /\ \A s \in Slot : Due(s)
          /\ "content" \in Fields => history = said[<<0, "content">>]

\* There is a first choice.
LEMMA FirstChoice ==
    ASSUME "content" \in Fields
    PROVE  <<0, "content">> \in Slot
<1>1. Cardinality(Indexes) \in Nat /\ Cardinality(Indexes) # 0
  <2>1. Cardinality(Indexes) \in Nat
    BY GuardAssumption, FS_CardinalityType
  <2> QED
    BY <2>1, GuardAssumption
<1> QED
  BY <1>1, GuardAssumption DEF Slot

\* An empty order of paths.
LEMMA NoPaths ==
    /\ <<>> \in Seq(Slot) /\ OneEach(<<>>) /\ ToSet(<<>>) = {} /\ DOMAIN <<>> = {}
    /\ <<>> \in Seq(FinalEvent) /\ Len(<<>>) = 0
BY DEF OneEach, ToSet

\* A stream starts in silence.
LEMMA StreamStarts == GuardInit => StreamInv /\ SaidInv
<1> SUFFICES ASSUME GuardInit PROVE StreamInv /\ SaidInv
  OBVIOUS
<1>1. /\ said = Silence /\ buffers = <<>> /\ paths = <<>> /\ pending = <<>>
      /\ displayed = Silence /\ phase = "open"
  BY DEF GuardInit
<1>2. /\ Silence \in [Slot -> Seq(Piece)] /\ Silence \in [Slot -> Seq(Shown)]
      /\ \A s \in Slot : Silence[s] = <<>>
  BY DEF Silence
<1>3. NoWhole(<<>>)
  BY DEF NoWhole
<1>4. BuffersInv
  BY <1>1, NoPaths DEF BuffersInv
<1>5. PendingInv
  BY <1>1, NoPaths DEF PendingInv
<1>6. StreamInv
  BY <1>1, <1>2, <1>3, <1>4, <1>5 DEF StreamInv
<1>7. SaidInv
  <2>1. \A s \in Slot : Buffered(s) = <<>>
    BY <1>1, NoPaths DEF Buffered
  <2> QED
    BY <1>1, <1>2, <2>1 DEF SaidInv
<1> QED
  BY <1>6, <1>7

\* What is buffered for a slot is a text.
LEMMA BufferedTypes ==
    ASSUME BuffersInv
    PROVE  \A s \in Slot : Buffered(s) \in Seq(Piece)
BY DEF BuffersInv, Buffered

\* An event goes to the buffers.
LEMMA PushKeeps ==
    ASSUME StreamInv, NEW event \in Events, Push(event)
    PROVE  StreamInv' /\ (ListsAreWhole /\ SaidInv => SaidInv')
<1> DEFINE named == {Path(event, n) : n \in DOMAIN event}
<1>1. /\ phase = "open" /\ phase' = "open" /\ pending' = pending /\ displayed' = displayed
      /\ said' = [s \in Slot |-> said[s] \o TextOf(event, Declared, s)]
      /\ buffers' = [s \in DOMAIN buffers \cup named |-> Buffered(s) \o TextOf(event, Path, s)]
      /\ paths' = EnterUpTo(event)[Len(event)]
  BY DEF Push, PassedOn
<1>2. /\ BuffersInv /\ PendingInv /\ said \in [Slot -> Seq(Piece)]
      /\ displayed \in [Slot -> Seq(Shown)] /\ \A s \in Slot : NoWhole(displayed[s])
      /\ displayed = Silence /\ pending = <<>>
  BY <1>1 DEF StreamInv
<1>3. named \subseteq Slot /\ DOMAIN event = 1 .. Len(event)
  BY EventIsList
<1>4. /\ paths' \in Seq(Slot) /\ OneEach(paths')
      /\ ToSet(paths') = ToSet(paths) \cup named
  BY <1>1, <1>2, PathsEnter DEF BuffersInv
<1>5. \A s \in Slot : TextOf(event, Path, s) \in Seq(Piece) /\ TextOf(event, Declared, s) \in Seq(Piece)
  BY TextByPlace, TextByIndex
<1>6. \A s \in Slot : Buffered(s) \in Seq(Piece)
  BY <1>2, BufferedTypes
<1>7. \A s \in Slot : (\A n \in DOMAIN event : Path(event, n) # s) => TextOf(event, Path, s) = <<>>
  BY <1>3, TextByPlace
<1>8. ASSUME ListsAreWhole
      PROVE  \A s \in Slot : TextOf(event, Declared, s) = TextOf(event, Path, s)
  BY <1>8, TextByIndex
<1> DEFINE here(s) == TextOf(event, Path, s)
           there(s) == TextOf(event, Declared, s)
<1>9. \A s \in Slot : s \notin named => here(s) = <<>>
  BY <1>7
<1>10. DOMAIN buffers \subseteq Slot /\ ToSet(paths) = DOMAIN buffers
  BY <1>2 DEF BuffersInv
<1>11. /\ \A s \in Slot : here(s) \in Seq(Piece) /\ there(s) \in Seq(Piece)
       /\ said' = [s \in Slot |-> said[s] \o there(s)]
       /\ buffers' = [s \in DOMAIN buffers \cup named |-> Buffered(s) \o here(s)]
       /\ ListsAreWhole => \A s \in Slot : there(s) = here(s)
  BY <1>1, <1>5, <1>8
<1> HIDE DEF named, here, there
<1>12. said' \in [Slot -> Seq(Piece)]
  <2>1. \A s \in Slot : said[s] \in Seq(Piece)
    BY <1>2
  <2>2. \A s \in Slot : said[s] \o there(s) \in Seq(Piece)
    BY <1>11, <2>1, ConcatProperties
  <2> QED
    BY <1>11, <2>2
<1>13. BuffersInv'
  <2>1. \A s \in Slot : Buffered(s) \o here(s) \in Seq(Piece)
    BY <1>6, <1>11, ConcatProperties
  <2>2. DOMAIN buffers' = DOMAIN buffers \cup named
    BY <1>11
  <2>3. \A s \in DOMAIN buffers' : s \in Slot /\ buffers'[s] = Buffered(s) \o here(s)
    BY <1>3, <1>10, <1>11
  <2>4. DOMAIN buffers' \subseteq Slot /\ \A s \in DOMAIN buffers' : buffers'[s] \in Seq(Piece)
    BY <2>1, <2>3
  <2> QED
    BY <1>4, <1>10, <2>2, <2>4 DEF BuffersInv
<1>14. PendingInv'
  BY <1>1, <1>2 DEF PendingInv
<1>15. StreamInv'
  BY <1>1, <1>2, <1>12, <1>13, <1>14 DEF StreamInv, Silence
<1>16. ASSUME ListsAreWhole, SaidInv
       PROVE  \A s \in Slot : said'[s] = Buffered(s)'
  <2> SUFFICES ASSUME NEW s \in Slot PROVE said'[s] = Buffered(s)'
    OBVIOUS
  <2>1. said[s] = Buffered(s) /\ there(s) = here(s) /\ said'[s] = said[s] \o there(s)
    BY <1>1, <1>11, <1>16 DEF SaidInv
  <2>2. CASE s \in DOMAIN buffers \cup named
    BY <1>11, <2>1, <2>2 DEF Buffered
  <2>3. CASE s \notin DOMAIN buffers \cup named
    <3>1. Buffered(s) = <<>> /\ here(s) = <<>> /\ Buffered(s)' = <<>>
      BY <1>9, <1>11, <2>3 DEF Buffered
    <3>2. <<>> \o <<>> = <<>>
      OBVIOUS
    <3> QED
      BY <2>1, <3>1, <3>2
  <2> QED
    BY <2>2, <2>3
<1> QED
  BY <1>1, <1>15, <1>16 DEF SaidInv

\* The end of the provider's answer: what is buffered is inspected.
LEMMA FinishKeeps ==
    ASSUME StreamInv, Finish
    PROVE  StreamInv' /\ (SaidInv => SaidInv')
<1> DEFINE final == FinalUpTo[Len(paths)]
<1>1. /\ phase = "open" /\ phase' = "finishing" /\ said' = said /\ displayed' = displayed
      /\ pending' = final /\ buffers' = <<>> /\ paths' = <<>>
      /\ history' = Buffered(<<0, "content">>)
  BY DEF Finish
<1>2. /\ BuffersInv /\ said \in [Slot -> Seq(Piece)]
      /\ displayed \in [Slot -> Seq(Shown)] /\ \A s \in Slot : NoWhole(displayed[s])
      /\ displayed = Silence
  BY <1>1 DEF StreamInv
<1>3. /\ paths \in Seq(Slot) /\ OneEach(paths) /\ Len(paths) \in Nat
      /\ \A n \in 1 .. Len(paths) : paths[n] \in Slot /\ buffers[paths[n]] \in Seq(Piece)
      /\ \A s \in DOMAIN buffers : \E n \in 1 .. Len(paths) : paths[n] = s
  <2>1. paths \in Seq(Slot) /\ OneEach(paths) /\ DOMAIN paths = 1 .. Len(paths)
    BY <1>2 DEF BuffersInv
  <2>2. \A n \in 1 .. Len(paths) : paths[n] \in DOMAIN buffers
    BY <1>2, <2>1 DEF BuffersInv, ToSet
  <2>3. \A s \in DOMAIN buffers : \E n \in 1 .. Len(paths) : paths[n] = s
    BY <1>2, <2>1 DEF BuffersInv, ToSet
  <2> QED
    BY <1>2, <2>1, <2>2, <2>3 DEF BuffersInv
<1>4. /\ \A n \in 1 .. Len(paths) : NoWhole(Final(paths[n]).text)
      /\ Listed(final, Len(paths))
  BY <1>3, FinalIsListed
<1> HIDE DEF final
<1>5. /\ final \in Seq(FinalEvent)
      /\ \A i, j \in 1 .. Len(final) : final[i].slot = final[j].slot => i = j
      /\ \A i \in 1 .. Len(final) :
            \E m \in 1 .. Len(paths) : final[i] = Final(paths[m])
      /\ \A m \in 1 .. Len(paths) : Final(paths[m]).text # <<>> =>
            \E i \in 1 .. Len(final) : final[i] = Final(paths[m])
  BY <1>4 DEF Listed
<1>6. \A m \in 1 .. Len(paths) : /\ Final(paths[m]).slot = paths[m]
                                 /\ Final(paths[m]).text = ProcessAuthorizedText(buffers[paths[m]])
  BY DEF Final
<1>7. \A s \in Slot : displayed[s] = <<>>
  BY <1>2 DEF Silence
<1>8. PendingInv'
  <2>1. \A i \in 1 .. Len(final) : NoWhole(final[i].text) /\ displayed[final[i].slot] = <<>>
    BY <1>3, <1>4, <1>5, <1>6, <1>7
  <2> QED
    BY <1>1, <1>5, <2>1 DEF PendingInv
<1>9. BuffersInv'
  BY <1>1, NoPaths DEF BuffersInv
<1>10. StreamInv'
  BY <1>1, <1>2, <1>8, <1>9 DEF StreamInv
<1>11. ASSUME SaidInv PROVE SaidInv'
  <2>1. \A s \in Slot : said[s] = Buffered(s)
    BY <1>1, <1>11 DEF SaidInv
  <2>2. ASSUME NEW s \in Slot PROVE Due(s)'
    <3>1. ASSUME NEW i \in 1 .. Len(final), final[i].slot = s
          PROVE  final[i].text = ProcessAuthorizedText(said[s])
      <4>1. PICK m \in 1 .. Len(paths) : final[i] = Final(paths[m])
        BY <1>5
      <4>2. paths[m] = s /\ final[i].text = ProcessAuthorizedText(buffers[s])
        BY <1>6, <3>1, <4>1
      <4>3. s \in DOMAIN buffers
        BY <1>2, <4>2 DEF BuffersInv, ToSet
      <4> QED
        BY <2>1, <4>2, <4>3 DEF Buffered
    <3>2. ASSUME \A i \in 1 .. Len(final) : final[i].slot # s
          PROVE  ProcessAuthorizedText(said[s]) = <<>>
      <4>1. CASE s \in DOMAIN buffers
        <5>1. PICK m \in 1 .. Len(paths) : paths[m] = s
          BY <1>3, <4>1
        <5>2. Final(paths[m]).text = <<>>
          BY <1>5, <1>6, <3>2, <5>1, ZenonT(60)
        <5>3. said[s] = buffers[s]
          BY <2>1, <4>1 DEF Buffered
        <5> QED
          BY <1>6, <5>1, <5>2, <5>3
      <4>2. CASE s \notin DOMAIN buffers
        BY <2>1, <4>2, NothingInspected DEF Buffered, ProcessAuthorizedText
      <4> QED
        BY <4>1, <4>2
    <3> QED
      BY <1>1, <1>7, <3>1, <3>2 DEF Due
  <2>3. "content" \in Fields => history' = said[<<0, "content">>]
    BY <1>1, <2>1, FirstChoice
  <2> QED
    BY <1>1, <2>2, <2>3 DEF SaidInv
<1> QED
  BY <1>10, <1>11

\* A final event is sent to a slot where nothing has been sent.
LEMMA SendKeeps ==
    ASSUME StreamInv, Send
    PROVE  StreamInv' /\ (SaidInv => SaidInv')
<1> DEFINE e == Head(pending)
           rest == Tail(pending)
<1>1. /\ phase = "finishing" /\ phase' = "finishing" /\ pending # <<>> /\ said' = said
      /\ displayed' = [displayed EXCEPT ![e.slot] = @ \o e.text] /\ pending' = rest
      /\ buffers' = buffers /\ paths' = paths /\ history' = history
  BY DEF Send
<1>2. /\ BuffersInv /\ PendingInv /\ said \in [Slot -> Seq(Piece)]
      /\ displayed \in [Slot -> Seq(Shown)] /\ \A s \in Slot : NoWhole(displayed[s])
  BY DEF StreamInv
<1>3. /\ pending \in Seq(FinalEvent) /\ Len(pending) \in Nat /\ 1 \in 1 .. Len(pending)
      /\ e = pending[1] /\ rest \in Seq(FinalEvent) /\ Len(rest) = Len(pending) - 1
      /\ \A i \in 1 .. Len(rest) : rest[i] = pending[i + 1] /\ i + 1 \in 1 .. Len(pending)
  <2>1. pending \in Seq(FinalEvent)
    BY <1>2 DEF PendingInv
  <2>2. Len(pending) \in Nat /\ 1 \in 1 .. Len(pending)
    BY <1>1, <2>1
  <2>3. rest \in Seq(FinalEvent) /\ Len(rest) = Len(pending) - 1
    BY <1>1, <2>1, HeadTailProperties
  <2>4. \A i \in 1 .. Len(rest) : rest[i] = pending[i + 1]
    BY <1>1, <2>1
  <2>5. \A i \in 1 .. Len(rest) : i + 1 \in 1 .. Len(pending)
    BY <2>2, <2>3
  <2> QED
    BY <1>1, <2>1, <2>2, <2>3, <2>4, <2>5
<1>4. /\ e.slot \in Slot /\ e.text \in Seq(Shown) /\ NoWhole(e.text) /\ displayed[e.slot] = <<>>
  <2>1. e \in FinalEvent
    BY <1>3
  <2>2. NoWhole(e.text) /\ displayed[e.slot] = <<>>
    BY <1>2, <1>3 DEF PendingInv
  <2> QED
    BY <2>1, <2>2 DEF FinalEvent
<1> HIDE DEF e, rest
<1>5. displayed' = [displayed EXCEPT ![e.slot] = e.text]
  <2>1. displayed[e.slot] \o e.text = e.text
    BY <1>4, ConcatEmptySeq
  <2> QED
    BY <1>1, <1>2, <1>4, <2>1
<1>6. /\ displayed' \in [Slot -> Seq(Shown)] /\ displayed'[e.slot] = e.text
      /\ \A s \in Slot : s # e.slot => displayed'[s] = displayed[s]
  BY <1>2, <1>4, <1>5
<1>7. \A s \in Slot : NoWhole(displayed'[s])
  BY <1>2, <1>4, <1>6
<1>8. \A i \in 1 .. Len(rest) : /\ rest[i] \in FinalEvent /\ rest[i].slot \in Slot
                                /\ rest[i].slot # e.slot
                                /\ NoWhole(rest[i].text) /\ displayed[rest[i].slot] = <<>>
  <2> SUFFICES ASSUME NEW i \in 1 .. Len(rest)
               PROVE  /\ rest[i] \in FinalEvent /\ rest[i].slot \in Slot
                      /\ rest[i].slot # e.slot
                      /\ NoWhole(rest[i].text) /\ displayed[rest[i].slot] = <<>>
    OBVIOUS
  <2>1. rest[i] = pending[i + 1] /\ i + 1 \in 1 .. Len(pending) /\ i + 1 # 1
    BY <1>3
  <2>2. rest[i].slot # e.slot
    BY <1>2, <1>3, <2>1 DEF PendingInv
  <2>3. NoWhole(rest[i].text) /\ displayed[rest[i].slot] = <<>>
    BY <1>2, <2>1 DEF PendingInv
  <2>4. rest[i] \in FinalEvent
    BY <1>3
  <2> QED
    BY <2>2, <2>3, <2>4 DEF FinalEvent
<1>9. PendingInv'
  <2>1. \A i, j \in 1 .. Len(rest) : rest[i].slot = rest[j].slot => i = j
    <3> SUFFICES ASSUME NEW i \in 1 .. Len(rest), NEW j \in 1 .. Len(rest), rest[i].slot = rest[j].slot
                 PROVE  i = j
      OBVIOUS
    <3>1. /\ i + 1 \in 1 .. Len(pending) /\ j + 1 \in 1 .. Len(pending)
          /\ pending[i + 1].slot = pending[j + 1].slot
      BY <1>3
    <3>2. i + 1 = j + 1
      BY <1>2, <3>1 DEF PendingInv
    <3> QED
      BY <1>3, <3>2
  <2>2. \A i \in 1 .. Len(rest) : displayed'[rest[i].slot] = <<>>
    BY <1>6, <1>8
  <2> QED
    BY <1>1, <1>3, <1>8, <2>1, <2>2 DEF PendingInv
<1>10. BuffersInv'
  BY <1>1, <1>2 DEF BuffersInv
<1>11. StreamInv'
  BY <1>1, <1>2, <1>6, <1>7, <1>9, <1>10 DEF StreamInv
<1>12. ASSUME SaidInv PROVE SaidInv'
  <2>1. /\ \A s \in Slot : Due(s)
        /\ "content" \in Fields => history = said[<<0, "content">>]
    BY <1>1, <1>12 DEF SaidInv
  <2>2. ASSUME NEW s \in Slot PROVE Due(s)'
    <3>1. /\ \A i \in 1 .. Len(pending) :
                pending[i].slot = s => pending[i].text = ProcessAuthorizedText(said[s])
          /\ (\A i \in 1 .. Len(pending) : pending[i].slot # s) =>
                displayed[s] = ProcessAuthorizedText(said[s])
      BY <2>1 DEF Due
    <3>2. \A i \in 1 .. Len(rest) :
                rest[i].slot = s => rest[i].text = ProcessAuthorizedText(said[s])
      BY <1>3, <3>1, SMTT(60)
    <3>3. ASSUME \A i \in 1 .. Len(rest) : rest[i].slot # s
          PROVE  displayed'[s] = ProcessAuthorizedText(said[s])
      <4>1. CASE s = e.slot
        BY <1>3, <1>6, <3>1, <4>1
      <4>2. CASE s # e.slot
        <5>1. ASSUME NEW i \in 1 .. Len(pending) PROVE pending[i].slot # s
          <6>1. CASE i = 1
            BY <1>3, <4>2, <6>1
          <6>2. CASE i # 1
            <7>1. i - 1 \in 1 .. Len(rest) /\ (i - 1) + 1 = i
              BY <1>3, <6>2
            <7> QED
              BY <1>3, <3>3, <7>1
          <6> QED
            BY <6>1, <6>2
        <5> QED
          BY <1>6, <3>1, <4>2, <5>1
      <4> QED
        BY <4>1, <4>2
    <3> QED
      BY <1>1, <3>2, <3>3 DEF Due
  <2> QED
    BY <1>1, <2>1, <2>2 DEF SaidInv
<1> QED
  BY <1>11, <1>12

\* The rest of the steps leave what has been said and shown.
LEMMA OthersKeep ==
    ASSUME StreamInv, Done \/ Break \/ UNCHANGED guardVars
    PROVE  StreamInv' /\ (SaidInv => SaidInv')
<1>1. /\ said' = said /\ displayed' = displayed /\ buffers' = buffers /\ paths' = paths
      /\ pending' = pending /\ history' = history
      /\ \/ phase' = phase
         \/ phase = "finishing" /\ phase' = "done" /\ pending = <<>>
         \/ phase = "open" /\ phase' = "broken"
  BY DEF Done, Break, guardVars
<1>2. BuffersInv' = BuffersInv /\ PendingInv' = PendingInv
  BY <1>1 DEF BuffersInv, PendingInv
<1>3. \A s \in Slot : Due(s)' = Due(s) /\ Buffered(s)' = Buffered(s)
  BY <1>1 DEF Due, Buffered
<1>4. StreamInv'
  BY <1>1, <1>2 DEF StreamInv
<1>5. SaidInv => SaidInv'
  BY <1>1, <1>3 DEF SaidInv
<1> QED
  BY <1>4, <1>5

\* Every step keeps what holds of a stream.
LEMMA StreamKeeps ==
    ASSUME StreamInv, [GuardNext]_guardVars
    PROVE  StreamInv' /\ (ListsAreWhole /\ SaidInv => SaidInv')
<1>1. CASE \E event \in Events : Push(event)
  BY <1>1, PushKeeps
<1>2. CASE Finish
  BY <1>2, FinishKeeps
<1>3. CASE Send
  BY <1>3, SendKeeps
<1>4. CASE Done \/ Break \/ UNCHANGED guardVars
  BY <1>4, OthersKeep
<1> QED
  BY <1>1, <1>2, <1>3, <1>4 DEF GuardNext

\* A stream shows nothing before its end, and never a whole value.
THEOREM StreamInductive == GuardSpec => []StreamInv
<1>1. GuardInit => StreamInv
  BY StreamStarts
<1>2. StreamInv /\ [GuardNext]_guardVars => StreamInv'
  BY StreamKeeps
<1> QED
  BY <1>1, <1>2, PTL DEF GuardSpec

\* However the provider lists its choices, a value split over events never comes
\* together at the client, and nothing reaches the client before the end.
THEOREM SplitsStayApart == GuardSpec => []SplitValuesStayApart /\ []NothingBeforeTheEnd
<1>1. StreamInv => SplitValuesStayApart
  BY DEF StreamInv, SplitValuesStayApart, NoWhole
<1>2. StreamInv => NothingBeforeTheEnd
  BY DEF StreamInv, NothingBeforeTheEnd
<1> QED
  BY <1>1, <1>2, StreamInductive, PTL

\* A stream whose events list every choice, and which carries no refusal, shows and
\* leaves in the history what one response would have.
THEOREM GuardedStreams ==
    ASSUME ListsAreWhole, "refusal" \notin Fields
    PROVE  GuardSpec => []StreamIsGuarded
<1>1. GuardInit => StreamInv /\ SaidInv
  BY StreamStarts
<1>2. StreamInv /\ SaidInv /\ [GuardNext]_guardVars => (StreamInv /\ SaidInv)'
  BY StreamKeeps
<1>3. StreamInv /\ SaidInv => StreamIsGuarded
  <2> SUFFICES ASSUME StreamInv, SaidInv PROVE StreamIsGuarded
    OBVIOUS
  <2>1. SplitValuesStayApart
    BY DEF StreamInv, SplitValuesStayApart, NoWhole
  <2>2. NothingBeforeTheEnd
    BY DEF StreamInv, NothingBeforeTheEnd
  <2>3. SameAsNotStreamed
    <3> SUFFICES ASSUME phase = "done", NEW s \in Slot
                 PROVE  displayed[s] = Process(said[s], s[2])
      BY DEF SameAsNotStreamed
    <3>1. pending = <<>>
      BY DEF StreamInv
    <3>2. Due(s)
      BY DEF SaidInv
    <3>3. \A i \in 1 .. Len(pending) : pending[i].slot # s
      BY <3>1, NoPaths
    <3>4. displayed[s] = Inspect(said[s], TRUE)
      BY <3>2, <3>3 DEF Due, ProcessAuthorizedText
    <3>5. (s[2] \in {"content", "arguments"}) = TRUE
      <4>1. s[2] \in Fields
        BY DEF Slot
      <4> QED
        BY <4>1, GuardAssumption
    <3> QED
      BY <3>5, <3>4 DEF Process
  <2>4. FirstChoiceIsRemembered
    BY DEF SaidInv, FirstChoiceIsRemembered
  <2> QED
    BY <2>1, <2>2, <2>3, <2>4 DEF StreamIsGuarded
<1> QED
  BY <1>1, <1>2, <1>3, PTL DEF GuardSpec
=============================================================================
