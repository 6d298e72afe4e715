----------------------------- MODULE WireProofs -----------------------------
(***************************************************************************)
(* What the socket does to the frames of the client, for all accounts and  *)
(* any way in which the threads interleave and send and the server's reads *)
(* cut the bytes up: what a thread has still to write, the stream and the  *)
(* input buffer of the server, put together, are always whole frames, and  *)
(* onMessage cuts them into the lines that were sent.                      *)
(***************************************************************************)
EXTENDS Client, SequenceTheorems, FiniteSetTheorems, TLAPS

Symbols == Frames \cup {NL}

\* What sendJsonFrame has still to write.
Unsent == IF sendMutex = None THEN <<>> ELSE left[sendMutex]

\* All symbols of the frames the server has not yet cut off.
Bytes == (inBuffer \o stream) \o Unsent

\* b consists of whole frames, of two symbols each.
IsLines(b) ==
    /\ b \in Seq(Symbols)
    /\ \E n \in Nat :
         /\ Len(b) = 2 * n
         /\ \A k \in 1..n : b[2 * k - 1] \in Frames /\ b[2 * k] = NL

FramesOf(b) == [k \in 1..(Len(b) \div 2) |-> b[2 * k - 1]]

\* The frames on the way, as OnTheWay has them, but each without its line.
Way == FramesOf(Bytes)

WireTypes ==
    /\ call \in [Threads -> Frames \cup {None}]
    /\ sendMutex \in Threads \cup {None}
    /\ left \in [Threads -> Seq(Symbols)]
    /\ stream \in Seq(Symbols) /\ inBuffer \in Seq(Symbols)
    /\ link \in {"open", "cut"}

\* Only the holder of the mutex has something left to write: the end of the
\* frame it came with.
SenderInv ==
    /\ \A t \in Threads : t # sendMutex => left[t] = <<>>
    /\ sendMutex # None =>
          /\ call[sendMutex] # None
          /\ left[sendMutex] \in {<<call[sendMutex], NL>>, <<NL>>, <<>>}

LinesInv == IF link = "open" THEN IsLines(Bytes) ELSE stream = <<>> /\ inBuffer = <<>>

WireInv == WireTypes /\ SenderInv /\ LinesInv

\* All that a step can do to the socket.
WireCalls ==
    /\ \E t \in Threads, f \in Frames : call[t] = None /\ Calls(t, f)
    /\ UNCHANGED <<sendMutex, left, stream, inBuffer, link>>

-----------------------------------------------------------------------------
(* Symbols and lines *)

\* The newline and None are told apart from every frame and every thread.
LEMMA NewlineIsNoFrame == NL \notin Frames /\ None \notin Threads /\ None \notin Frames
BY ClientAssumption DEF NL, Frames

\* What a sequence of n lines is made of.
HasLines(b, n) == /\ b \in Seq(Symbols) /\ Len(b) = 2 * n
                  /\ \A k \in 1..n : b[2 * k - 1] \in Frames /\ b[2 * k] = NL

\* A sequence of n lines has n frames.
LEMMA LinesCounted ==
    ASSUME NEW b, NEW n \in Nat, HasLines(b, n)
    PROVE  /\ IsLines(b)
           /\ FramesOf(b) \in Seq(Frames) /\ Len(FramesOf(b)) = n
           /\ \A k \in 1..n : FramesOf(b)[k] = b[2 * k - 1]
<1>1. IsLines(b)
  BY DEF HasLines, IsLines
<1>2. Len(b) \div 2 = n
  BY DEF HasLines
<1>3. FramesOf(b) = [k \in 1..n |-> b[2 * k - 1]]
  BY <1>2 DEF FramesOf
<1>4. \A k \in 1..n : b[2 * k - 1] \in Frames
  BY DEF HasLines
<1>. QED
  BY <1>1, <1>3, <1>4

\* A sequence of lines has some number of lines.
LEMMA LinesHave == \A b : IsLines(b) => \E n \in Nat : HasLines(b, n)
BY DEF IsLines, HasLines

\* A whole frame is added at the end.
LEMMA LinesAppended ==
    ASSUME NEW b, IsLines(b), NEW f \in Frames, NEW d, d = b \o <<f, NL>>
    PROVE  IsLines(d) /\ FramesOf(d) = Append(FramesOf(b), f)
<1>1. PICK n \in Nat : HasLines(b, n)
  BY LinesHave
<1>. b \in Seq(Symbols) /\ <<f, NL>> \in Seq(Symbols) /\ Len(b) = 2 * n
  BY <1>1 DEF HasLines, Symbols
<1>2. /\ d \in Seq(Symbols) /\ Len(d) = 2 * n + 2
      /\ \A i \in 1..(2 * n) : d[i] = b[i]
      /\ d[2 * n + 1] = f /\ d[2 * n + 2] = NL
  <2>. DEFINE e == <<f, NL>>
  <2>1. Len(e) = 2 /\ e[1] = f /\ e[2] = NL /\ e \in Seq(Symbols)
    OBVIOUS
  <2>. d = b \o e
    OBVIOUS
  <2>. HIDE DEF e
  <2>2. /\ d \in Seq(Symbols) /\ Len(d) = 2 * n + 2
        /\ \A i \in 1..(2 * n + 2) : d[i] = IF i <= 2 * n THEN b[i] ELSE e[i - 2 * n]
    BY <2>1, ConcatProperties
  <2>. DEFINE p == 2 * n + 1
              q == 2 * n + 2
  <2>. /\ p \in 1..(2 * n + 2) /\ q \in 1..(2 * n + 2)
       /\ ~(p <= 2 * n) /\ ~(q <= 2 * n) /\ p - 2 * n = 1 /\ q - 2 * n = 2
    OBVIOUS
  <2>3. d[p] = e[1] /\ d[q] = e[2]
    <3>. HIDE DEF p, q
    <3>. QED
      BY <2>2
  <2>4. \A i \in 1..(2 * n) : d[i] = b[i]
    BY <2>2
  <2>. QED
    BY <2>1, <2>2, <2>3, <2>4
<1>3. ASSUME NEW k \in 1..(n + 1)
      PROVE  /\ d[2 * k - 1] \in Frames /\ d[2 * k] = NL
             /\ d[2 * k - 1] = IF k = n + 1 THEN f ELSE b[2 * k - 1]
  <2>1. CASE k = n + 1
    <3>1. 2 * k - 1 = 2 * n + 1 /\ 2 * k = 2 * n + 2
      BY <2>1
    <3>. QED
      BY <1>2, <2>1, <3>1
  <2>2. CASE k \in 1..n
    <3>1. 2 * k - 1 \in 1..(2 * n) /\ 2 * k \in 1..(2 * n) /\ k # n + 1
      BY <2>2
    <3>2. d[2 * k - 1] = b[2 * k - 1] /\ d[2 * k] = b[2 * k]
      BY <1>2, <3>1
    <3>. QED
      BY <1>1, <2>2, <3>1, <3>2 DEF HasLines
  <2>. QED
    BY <2>1, <2>2
<1>4. HasLines(d, n + 1)
  <2>1. Len(d) = 2 * (n + 1)
    BY <1>2
  <2>. QED
    BY <1>2, <1>3, <2>1 DEF HasLines
<1>5. /\ FramesOf(b) \in Seq(Frames) /\ Len(FramesOf(b)) = n
      /\ \A k \in 1..n : FramesOf(b)[k] = b[2 * k - 1]
  BY <1>1, LinesCounted
<1>. n + 1 \in Nat
  OBVIOUS
<1>6. /\ IsLines(d) /\ FramesOf(d) \in Seq(Frames) /\ Len(FramesOf(d)) = n + 1
      /\ \A k \in 1..(n + 1) : FramesOf(d)[k] = d[2 * k - 1]
  BY <1>4, LinesCounted, Zenon
<1>7. \A k \in 1..(n + 1) : FramesOf(d)[k] = Append(FramesOf(b), f)[k]
  <2>. TAKE k \in 1..(n + 1)
  <2>1. Append(FramesOf(b), f)[k] = IF k = n + 1 THEN f ELSE FramesOf(b)[k]
    BY <1>5
  <2>2. k # n + 1 => k \in 1..n
    OBVIOUS
  <2>3. FramesOf(d)[k] = IF k = n + 1 THEN f ELSE b[2 * k - 1]
    BY <1>3, <1>6
  <2>. QED
    BY <1>5, <2>1, <2>2, <2>3
<1>8. Append(FramesOf(b), f) \in Seq(Frames) /\ Len(Append(FramesOf(b), f)) = n + 1
  BY <1>5
<1>. QED
  BY <1>6, <1>7, <1>8, SeqEqual

\* The first line is cut off.
LEMMA LinesTaken ==
    ASSUME NEW b, IsLines(b), b # <<>>, NEW d, d = SubSeq(b, 3, Len(b))
    PROVE  /\ Len(b) >= 2 /\ b[1] \in Frames /\ b[2] = NL
           /\ IsLines(d)
           /\ FramesOf(b) # <<>> /\ Head(FramesOf(b)) = b[1]
           /\ FramesOf(d) = Tail(FramesOf(b))
<1>1. PICK n \in Nat : HasLines(b, n)
  BY LinesHave
<1>. b \in Seq(Symbols) /\ Len(b) = 2 * n
  BY <1>1 DEF HasLines
<1>2. n >= 1
  <2>1. Len(b) # 0
    BY EmptySeq
  <2>2. n # 0
    BY <2>1
  <2>. QED
    BY <2>2
<1>3. b[1] \in Frames /\ b[2] = NL
  <2>1. \A k \in 1..n : k = 1 => 2 * k - 1 = 1 /\ 2 * k = 2
    OBVIOUS
  <2>2. 1 \in 1..n
    BY <1>2
  <2>. QED
    BY <1>1, <2>1, <2>2 DEF HasLines
<1>4. /\ d \in Seq(Symbols) /\ Len(d) = 2 * n - 2
      /\ \A i \in 1..(2 * n - 2) : d[i] = b[i + 2]
  BY <1>2
<1>5. ASSUME NEW k \in 1..(n - 1)
      PROVE  /\ k + 1 \in 1..n
             /\ d[2 * k - 1] = b[2 * (k + 1) - 1] /\ d[2 * k] = b[2 * (k + 1)]
  <2>1. 2 * k - 1 \in 1..(2 * n - 2) /\ 2 * k \in 1..(2 * n - 2) /\ k + 1 \in 1..n
    BY <1>2
  <2>2. 2 * k - 1 + 2 = 2 * (k + 1) - 1 /\ 2 * k + 2 = 2 * (k + 1)
    OBVIOUS
  <2>. QED
    BY <1>4, <2>1, <2>2
<1>6. HasLines(d, n - 1)
  <2>1. \A k \in 1..(n - 1) : d[2 * k - 1] \in Frames /\ d[2 * k] = NL
    BY <1>1, <1>5 DEF HasLines
  <2>. QED
    BY <1>4, <2>1 DEF HasLines
<1>7. /\ FramesOf(b) \in Seq(Frames) /\ Len(FramesOf(b)) = n
      /\ \A k \in 1..n : FramesOf(b)[k] = b[2 * k - 1]
  BY <1>1, LinesCounted
<1>8. n - 1 \in Nat
  BY <1>2
<1>9. /\ IsLines(d) /\ FramesOf(d) \in Seq(Frames) /\ Len(FramesOf(d)) = n - 1
      /\ \A k \in 1..(n - 1) : FramesOf(d)[k] = d[2 * k - 1]
  BY <1>6, <1>8, LinesCounted
<1>10. /\ Tail(FramesOf(b)) \in Seq(Frames) /\ Len(Tail(FramesOf(b))) = n - 1
       /\ \A k \in 1..(n - 1) : Tail(FramesOf(b))[k] = FramesOf(b)[k + 1]
  BY <1>2, <1>7
<1>11. \A k \in 1..(n - 1) : FramesOf(d)[k] = Tail(FramesOf(b))[k]
  BY <1>5, <1>7, <1>9, <1>10
<1>12. FramesOf(d) = Tail(FramesOf(b))
  BY <1>9, <1>10, <1>11, SeqEqual
<1>13. Head(FramesOf(b)) = b[1] /\ FramesOf(b) # <<>>
  <2>1. FramesOf(b)[1] = b[1]
    <3>1. \A k \in 1..n : k = 1 => 2 * k - 1 = 1
      OBVIOUS
    <3>. QED
      BY <1>2, <1>7, <3>1
  <2>. QED
    BY <1>2, <1>7, <2>1
<1>. QED
  BY <1>2, <1>3, <1>9, <1>12, <1>13

\* A set of naturals that is not empty has a least element.
LEMMA LeastNumber ==
    ASSUME NEW S \in SUBSET Nat, S # {}
    PROVE  \E m \in S : \A k \in S : m <= k
<1>. DEFINE T == {1..k : k \in S}
            R == StrictSubsetOrdering(Nat)
            F == FiniteSubsetsOf(Nat)
<1>1. \A k \in S : IsFiniteSet(1..k) /\ 1..k \in SUBSET Nat
  BY FS_Interval
<1>2. T \subseteq F /\ T # {}
  BY <1>1 DEF FiniteSubsetsOf
<1>3. IsWellFoundedOn(R, F)
  BY FS_StrictSubsetOrderingWellFounded
<1>4. PICK x \in T : \A y \in T : <<y, x>> \notin R
  <2>. HIDE DEF T, R, F
  <2>. QED
    BY <1>2, <1>3, WFMin
<1>5. PICK m \in S : x = 1..m
  OBVIOUS
<1>6. ASSUME NEW k \in S, k < m PROVE FALSE
  <2>1. 1..k \subseteq x /\ 1..k # x
    <3>1. m \in 1..m /\ m \notin 1..k
      BY <1>6
    <3>. QED
      BY <1>5, <1>6, <3>1
  <2>2. <<1..k, x>> \in R
    BY <1>1, <1>5, <2>1 DEF StrictSubsetOrdering
  <2>. QED
    BY <1>4, <2>2
<1>. QED
  BY <1>6

CutBy(b, g, i) ==
    IF i = 0 THEN [lines |-> <<>>, rest |-> <<>>]
    ELSE IF b[i] = NL
         THEN [lines |-> Append(g[i - 1].lines, g[i - 1].rest), rest |-> <<>>]
         ELSE [g[i - 1] EXCEPT !.rest = Append(@, b[i])]

Cuts(b, g) == g = [i \in 0..Len(b) |-> CutBy(b, g, i)]

\* LinesOf is what the cut function has at the last symbol.
LEMMA LinesOfCut == \A b : LinesOf(b) = (CHOOSE g : Cuts(b, g))[Len(b)].lines
BY DEF LinesOf, Cuts, CutBy

\* The lines and the rest of the first i symbols of a sequence of lines.
FirstLines(b, q) == [k \in 1..q |-> <<b[2 * k - 1]>>]

CutAt(b, i) ==
    [lines |-> FirstLines(b, i \div 2),
     rest |-> IF i % 2 = 0 THEN <<>> ELSE <<b[i]>>]

\* Every positive number is the second or the first half of a pair.
LEMMA Halves ==
    ASSUME NEW i \in Nat, i # 0
    PROVE  \E k \in Nat :
             /\ k >= 1
             /\ \/ i = 2 * k /\ i \div 2 = k /\ i % 2 = 0
                               /\ (i - 1) \div 2 = k - 1 /\ (i - 1) % 2 = 1
                \/ i = 2 * k - 1 /\ i \div 2 = k - 1 /\ i % 2 = 1
                                 /\ (i - 1) \div 2 = k - 1 /\ (i - 1) % 2 = 0
<1>. DEFINE q == i \div 2
<1>1. q \in Nat
  OBVIOUS
<1>2. CASE i % 2 = 0
  <2>1. i = 2 * q
    BY <1>2
  <2>2. i - 1 = 2 * (q - 1) + 1 /\ q >= 1
    BY <1>1, <2>1
  <2>3. (i - 1) \div 2 = q - 1 /\ (i - 1) % 2 = 1
    BY <1>1, <2>1
  <2>. QED
    BY <1>1, <1>2, <2>1, <2>2, <2>3
<1>3. CASE i % 2 = 1
  <2>1. i = 2 * q + 1
    BY <1>3
  <2>2. (i - 1) \div 2 = q /\ (i - 1) % 2 = 0
    BY <1>1, <2>1
  <2>. DEFINE k == q + 1
  <2>3. k \in Nat /\ k >= 1 /\ k - 1 = q /\ i = 2 * k - 1
    BY <1>1, <2>1
  <2>4. i \div 2 = k - 1 /\ (i - 1) \div 2 = k - 1
    BY <2>2, <2>3
  <2>. HIDE DEF k, q
  <2>. QED
    BY <1>3, <2>2, <2>3, <2>4
<1>. QED
  BY <1>2, <1>3

\* What is cut off after i symbols depends on i being even or odd.
LEMMA CutIs ==
    ASSUME NEW b, NEW i, NEW q, i \div 2 = q
    PROVE  /\ i % 2 = 0 => CutAt(b, i) = [lines |-> FirstLines(b, q), rest |-> <<>>]
           /\ i % 2 = 1 => CutAt(b, i) = [lines |-> FirstLines(b, q), rest |-> <<b[i]>>]
BY DEF CutAt

\* One symbol more is cut the way CutAt has it.
LEMMA CutStep ==
    ASSUME NEW b, NEW n \in Nat, HasLines(b, n), NEW i \in 1..(2 * n),
           NEW g, g[i - 1] = CutAt(b, i - 1)
    PROVE  CutBy(b, g, i) = CutAt(b, i)
<1>1. PICK k \in Nat :
             /\ k >= 1
             /\ \/ i = 2 * k /\ i \div 2 = k /\ i % 2 = 0
                               /\ (i - 1) \div 2 = k - 1 /\ (i - 1) % 2 = 1
                \/ i = 2 * k - 1 /\ i \div 2 = k - 1 /\ i % 2 = 1
                                 /\ (i - 1) \div 2 = k - 1 /\ (i - 1) % 2 = 0
  BY Halves
<1>. DEFINE before == FirstLines(b, k - 1)
<1>2. k \in 1..n
  BY <1>1
<1>3. b[2 * k - 1] \in Frames /\ b[2 * k] = NL
  BY <1>2 DEF HasLines
<1>4. CASE i = 2 * k /\ i \div 2 = k /\ i % 2 = 0
             /\ (i - 1) \div 2 = k - 1 /\ (i - 1) % 2 = 1
  <2>1. g[i - 1] = [lines |-> before, rest |-> <<b[2 * k - 1]>>]
    <3>1. CutAt(b, i - 1) = [lines |-> before, rest |-> <<b[i - 1]>>]
      BY <1>4, CutIs
    <3>2. i - 1 = 2 * k - 1
      BY <1>4
    <3>. QED
      BY <3>1, <3>2
  <2>2. CutBy(b, g, i) = [lines |-> Append(before, <<b[2 * k - 1]>>), rest |-> <<>>]
    <3>. HIDE DEF before
    <3>1. b[i] = NL /\ i # 0
      BY <1>3, <1>4
    <3>2. CutBy(b, g, i) = [lines |-> Append(g[i - 1].lines, g[i - 1].rest), rest |-> <<>>]
      BY <3>1 DEF CutBy
    <3>. QED
      BY <2>1, <3>2
  <2>3. Append(before, <<b[2 * k - 1]>>) = FirstLines(b, k)
    <3>. DEFINE after == FirstLines(b, k)
    <3>1. \A j \in 1..k : <<b[2 * j - 1]>> \in Seq(Frames)
      <4>1. \A j \in 1..k : j \in 1..n
        BY <1>2
      <4>. QED
        BY <4>1 DEF HasLines
    <3>2. before \in Seq(Seq(Frames)) /\ Len(before) = k - 1
      BY <1>1, <3>1 DEF FirstLines
    <3>3. after \in Seq(Seq(Frames)) /\ Len(after) = k
      BY <1>1, <3>1 DEF FirstLines
    <3>4. /\ Append(before, <<b[2 * k - 1]>>) \in Seq(Seq(Frames))
          /\ Len(Append(before, <<b[2 * k - 1]>>)) = k
      BY <1>1, <3>1, <3>2
    <3>5. ASSUME NEW j \in 1..k PROVE Append(before, <<b[2 * k - 1]>>)[j] = after[j]
      <4>1. Append(before, <<b[2 * k - 1]>>)[j]
              = IF j = k THEN <<b[2 * k - 1]>> ELSE before[j]
        <5>. HIDE DEF before, after
        <5>. QED
          BY <3>2
      <4>2. j # k => before[j] = after[j]
        <5>1. j # k => j \in 1..(k - 1)
          OBVIOUS
        <5>. QED
          BY <5>1 DEF FirstLines
      <4>3. after[j] = <<b[2 * j - 1]>>
        BY DEF FirstLines
      <4>. QED
        BY <4>1, <4>2, <4>3
    <3>. QED
      BY <3>3, <3>4, <3>5, SeqEqual
  <2>4. CutAt(b, i) = [lines |-> FirstLines(b, k), rest |-> <<>>]
    BY <1>4, CutIs
  <2>. QED
    BY <2>2, <2>3, <2>4
<1>5. CASE i = 2 * k - 1 /\ i \div 2 = k - 1 /\ i % 2 = 1
             /\ (i - 1) \div 2 = k - 1 /\ (i - 1) % 2 = 0
  <2>1. g[i - 1] = [lines |-> before, rest |-> <<>>]
    BY <1>5, CutIs
  <2>2. b[i] \in Frames /\ b[i] # NL
    BY <1>3, <1>5, NewlineIsNoFrame
  <2>3. CutBy(b, g, i) = [lines |-> before, rest |-> <<b[i]>>]
    <3>. HIDE DEF before
    <3>1. i # 0
      OBVIOUS
    <3>2. CutBy(b, g, i) = [g[i - 1] EXCEPT !.rest = Append(@, b[i])]
      BY <2>2, <3>1 DEF CutBy
    <3>3. Append(<<>>, b[i]) = <<b[i]>>
      OBVIOUS
    <3>. QED
      BY <2>1, <3>2, <3>3
  <2>4. CutAt(b, i) = [lines |-> before, rest |-> <<b[i]>>]
    BY <1>5, CutIs
  <2>. QED
    BY <2>3, <2>4
<1>. QED
  BY <1>1, <1>4, <1>5

\* Of whole frames, the lines are the frames: LinesOf, which is recursive, and
\* FramesOf, which is not, say the same of a stream in which no frame is torn.
LEMMA LinesAreFrames ==
    ASSUME NEW b, IsLines(b)
    PROVE  LinesOf(b) = [k \in DOMAIN FramesOf(b) |-> <<FramesOf(b)[k]>>]
<1>1. PICK n \in Nat : HasLines(b, n)
  BY LinesHave
<1>. DEFINE G == [i \in 0..Len(b) |-> CutAt(b, i)]
            g == CHOOSE h : Cuts(b, h)
<1>2. Len(b) = 2 * n
  BY <1>1 DEF HasLines
<1>3. CutAt(b, 0) = [lines |-> <<>>, rest |-> <<>>]
  <2>1. 0 \div 2 = 0 /\ 0 % 2 = 0
    OBVIOUS
  <2>2. FirstLines(b, 0) = <<>>
    BY DEF FirstLines
  <2>. QED
    BY <2>1, <2>2, CutIs
<1>4. Cuts(b, G)
  <2>1. ASSUME NEW i \in 0..Len(b) PROVE G[i] = CutBy(b, G, i)
    <3>1. CASE i = 0
      BY <1>3, <3>1 DEF CutBy
    <3>2. CASE i \in 1..(2 * n)
      <4>1. i - 1 \in 0..Len(b)
        BY <1>2, <3>2
      <4>2. G[i - 1] = CutAt(b, i - 1) /\ G[i] = CutAt(b, i)
        BY <4>1
      <4>. HIDE DEF G
      <4>. QED
        BY <1>1, <3>2, <4>2, CutStep
    <3>. QED
      BY <1>2, <3>1, <3>2
  <2>. QED
    BY <2>1 DEF Cuts
<1>5. Cuts(b, g)
  <2>. HIDE DEF G
  <2>. QED
    BY <1>4
<1>6. g = [i \in 0..Len(b) |-> CutBy(b, g, i)]
  <2>. HIDE DEF g
  <2>. QED
    BY <1>5 DEF Cuts
<1>. HIDE DEF g
<1>7. \A i \in 0..Len(b) : g[i] = CutAt(b, i)
  <2>. DEFINE Bad == {i \in 0..Len(b) : g[i] # CutAt(b, i)}
  <2>. SUFFICES ASSUME Bad # {} PROVE FALSE
    OBVIOUS
  <2>1. Bad \in SUBSET Nat
    BY <1>2
  <2>2. PICK m \in Bad : \A k \in Bad : m <= k
    <3>. HIDE DEF Bad
    <3>. QED
      BY <2>1, LeastNumber
  <2>3. m # 0
    <3>1. g[0] = CutBy(b, g, 0)
      BY <1>2, <1>6
    <3>. QED
      BY <1>3, <3>1 DEF CutBy
  <2>4. m \in 1..(2 * n) /\ m - 1 \in 0..Len(b) /\ m - 1 \notin Bad
    BY <1>2, <2>2, <2>3
  <2>5. g[m - 1] = CutAt(b, m - 1)
    BY <2>4
  <2>6. CutBy(b, g, m) = CutAt(b, m)
    BY <1>1, <2>4, <2>5, CutStep
  <2>7. g[m] = CutBy(b, g, m)
    BY <1>2, <1>6, <2>4
  <2>. QED
    BY <2>2, <2>6, <2>7
<1>8. LinesOf(b) = CutAt(b, Len(b)).lines
  <2>1. LinesOf(b) = g[Len(b)].lines
    BY LinesOfCut DEF g
  <2>2. Len(b) \in 0..Len(b)
    BY <1>2
  <2>. QED
    BY <1>7, <2>1, <2>2
<1>9. CutAt(b, Len(b)).lines = [k \in 1..n |-> <<b[2 * k - 1]>>]
  <2>1. Len(b) \div 2 = n
    BY <1>2
  <2>. QED
    BY <2>1 DEF CutAt, FirstLines
<1>10. /\ DOMAIN FramesOf(b) = 1..n
       /\ \A k \in 1..n : FramesOf(b)[k] = b[2 * k - 1]
  BY <1>1, LinesCounted
<1>. QED
  BY <1>8, <1>9, <1>10
-----------------------------------------------------------------------------
(* What each step does to the frames on the way *)

\* What concatenation does to the length and the elements.
LEMMA SymbolsConcat ==
    \A s, t \in Seq(Symbols) :
        /\ s \o t \in Seq(Symbols) /\ Len(s \o t) = Len(s) + Len(t)
        /\ \A i \in 1..(Len(s) + Len(t)) :
             (s \o t)[i] = IF i <= Len(s) THEN s[i] ELSE t[i - Len(s)]
<1>. TAKE s, t \in Seq(Symbols)
<1>. QED
  BY ConcatProperties

\* Concatenation stays among the sequences of symbols.
LEMMA SymbolsJoin == \A s, t \in Seq(Symbols) : s \o t \in Seq(Symbols)
BY SymbolsConcat, Zenon

\* Concatenation is associative.
LEMMA SymbolsAssociate ==
    ASSUME NEW s \in Seq(Symbols), NEW t \in Seq(Symbols), NEW u \in Seq(Symbols)
    PROVE  (s \o t) \o u = s \o (t \o u)
BY ConcatAssociative

\* Concatenation as an operator of its own, which the provers need not
\* look into.
Join(s, t) == s \o t

\* The same of Join.
LEMMA JoinAssociates ==
    \A s, t, u \in Seq(Symbols) :
        Join(s, t) \in Seq(Symbols) /\ Join(Join(s, t), u) = Join(s, Join(t, u))
<1>. TAKE s, t, u \in Seq(Symbols)
<1>. QED
  BY SymbolsJoin, SymbolsAssociate DEF Join

\* A sequence is cut in two after any of its symbols.
LEMMA JoinParts ==
    \A c \in Seq(Symbols) : \A k \in 1..Len(c) :
        \E d, e \in Seq(Symbols) :
           d = SubSeq(c, 1, k) /\ e = SubSeq(c, k + 1, Len(c)) /\ Join(d, e) = c
<1>. TAKE c \in Seq(Symbols)
<1>. TAKE k \in 1..Len(c)
<1>1. SubSeq(c, 1, k) \in Seq(Symbols) /\ SubSeq(c, k + 1, Len(c)) \in Seq(Symbols)
  OBVIOUS
<1>2. SubSeq(c, 1, k) \o SubSeq(c, k + 1, Len(c)) = SubSeq(c, 1, Len(c))
  BY ConcatAdjacentSubSeq
<1>3. SubSeq(c, 1, k) \o SubSeq(c, k + 1, Len(c)) = c
  BY <1>2, SubSeqFull
<1>. QED
  BY <1>1, <1>3, Zenon DEF Join

\* The three parts of the bytes are sequences, whoever holds the mutex.
LEMMA BytesTyped ==
    ASSUME WireTypes
    PROVE  /\ Unsent \in Seq(Symbols) /\ Bytes \in Seq(Symbols)
           /\ inBuffer \o stream \in Seq(Symbols)
BY SymbolsJoin DEF WireTypes, Unsent, Bytes

\* A thread that is in no call comes to sendJsonFrame, or nothing happens.
LEMMA CallsKeep ==
    ASSUME WireInv, UNCHANGED <<sendMutex, left, stream, inBuffer, link>>,
           \/ UNCHANGED call
           \/ \E t \in Threads, f \in Frames : call[t] = None /\ Calls(t, f)
    PROVE  WireInv' /\ Bytes' = Bytes
<1>1. call' \in [Threads -> Frames \cup {None}]
  BY DEF WireInv, WireTypes, Calls
<1>2. sendMutex # None => call'[sendMutex] = call[sendMutex]
  BY DEF WireInv, WireTypes, SenderInv, Calls
<1>3. Bytes' = Bytes
  BY DEF Bytes, Unsent
<1>. QED
  BY <1>1, <1>2, <1>3 DEF WireInv, WireTypes, SenderInv, LinesInv

\* The frame of a thread is on the way from the moment it has the mutex.
LEMMA LockAdds ==
    ASSUME WireInv, NEW t \in Threads, Lock(t)
    PROVE  /\ WireInv'
           /\ call[t] \in Frames
           /\ link = "open" => Way' = Append(Way, call[t])
<1>. DEFINE e == <<call[t], NL>>
<1>1. sendMutex = None /\ t # None /\ call[t] \in Frames
  BY NewlineIsNoFrame DEF Lock, MutexFree, WireInv, WireTypes
<1>2. e \in Seq(Symbols)
  BY <1>1 DEF Symbols
<1>3. /\ sendMutex' = t /\ left'[t] = e
      /\ \A u \in Threads : u # t => left'[u] = <<>>
      /\ left' \in [Threads -> Seq(Symbols)]
  <2>. HIDE DEF e
  <2>1. left' = [left EXCEPT ![t] = e] /\ sendMutex' = t
    BY DEF Lock, e
  <2>. QED
    BY <1>1, <1>2, <2>1, NewlineIsNoFrame DEF WireInv, WireTypes, SenderInv
<1>4. WireTypes' /\ SenderInv'
  BY <1>1, <1>3 DEF Lock, WireInv, WireTypes, SenderInv
<1>5. CASE link = "open"
  <2>1. Bytes = inBuffer \o stream
    BY <1>1, BytesTyped, ConcatEmptySeq DEF Bytes, Unsent, WireInv
  <2>2. Bytes' = Bytes \o e
    <3>. HIDE DEF e
    <3>. QED
      BY <1>1, <1>3, <2>1 DEF Bytes, Unsent, Lock
  <2>3. IsLines(Bytes)
    BY <1>5 DEF WireInv, LinesInv
  <2>4. IsLines(Bytes') /\ FramesOf(Bytes') = Append(FramesOf(Bytes), call[t])
    BY <1>1, <2>2, <2>3, LinesAppended
  <2>5. LinesInv'
    BY <1>5, <2>4 DEF LinesInv, Lock
  <2>. QED
    BY <1>1, <1>4, <2>4, <2>5 DEF WireInv, Way
<1>6. CASE link = "cut"
  BY <1>1, <1>4, <1>6 DEF WireInv, LinesInv, Lock
<1>. QED
  BY <1>5, <1>6 DEF WireInv, WireTypes

\* A part of what a thread has left goes to the stream.
LEMMA PartMoves ==
    \A a, b, d, e \in Seq(Symbols) :
        Join(Join(a, Join(b, d)), e) = Join(Join(a, b), Join(d, e))
BY JoinAssociates

\* A send moves a part of a frame from its thread to the stream, or
\* loses it on a broken connection.
LEMMA SendKeeps ==
    ASSUME WireInv, NEW t \in Threads, SendPart(t)
    PROVE  /\ WireInv' /\ sendMutex = t
           /\ link = "open" => Bytes' = Bytes
<1>1. PICK k \in 1..Len(left[t]) :
         /\ left' = [left EXCEPT ![t] = SubSeq(@, k + 1, Len(@))]
         /\ stream' = IF link = "open"
                      THEN stream \o SubSeq(left[t], 1, k)
                      ELSE stream
  BY DEF SendPart
<1>. DEFINE c == left[t]
            d == SubSeq(c, 1, k)
            e == SubSeq(c, k + 1, Len(c))
<1>2. sendMutex = t /\ t # None /\ Unsent = c
  <2>1. c # <<>>
    BY <1>1
  <2>. QED
    BY <2>1, NewlineIsNoFrame DEF WireInv, SenderInv, Unsent
<1>3. /\ inBuffer \in Seq(Symbols) /\ stream \in Seq(Symbols) /\ c \in Seq(Symbols)
      /\ left \in [Threads -> Seq(Symbols)]
  BY DEF WireInv, WireTypes
<1>4. d \in Seq(Symbols) /\ e \in Seq(Symbols)
      /\ (inBuffer \o (stream \o d)) \o e = (inBuffer \o stream) \o c
  <2>1. k \in 1..Len(c)
    BY <1>1
  <2>. HIDE DEF c
  <2>2. PICK x \in Seq(Symbols), y \in Seq(Symbols) :
           x = SubSeq(c, 1, k) /\ y = SubSeq(c, k + 1, Len(c)) /\ Join(x, y) = c
    BY <1>3, <2>1, JoinParts
  <2>3. Join(Join(inBuffer, Join(stream, x)), y) = Join(Join(inBuffer, stream), Join(x, y))
    BY <1>3, PartMoves
  <2>. HIDE DEF d, e
  <2>4. d = x /\ e = y
    BY <2>2 DEF d, e
  <2>5. Join(Join(inBuffer, Join(stream, d)), e) = Join(Join(inBuffer, stream), c)
    BY <2>2, <2>3, <2>4, Zenon
  <2>. QED
    BY <2>2, <2>4, <2>5, Zenon DEF Join
<1>5. left' = [left EXCEPT ![t] = e]
  BY <1>1
<1>6. e \in {<<NL>>, <<>>}
  <2>1. c \in {<<call[t], NL>>, <<NL>>}
    BY <1>1, <1>2 DEF WireInv, SenderInv
  <2>2. CASE c = <<call[t], NL>>
    <3>1. k = 1 \/ k = 2
      <4>1. Len(c) = 2
        BY <2>2
      <4>2. k \in 1..Len(c)
        BY <1>1
      <4>. HIDE DEF c
      <4>3. k \in 1..2
        BY <4>1, <4>2, Zenon
      <4>. QED
        BY <4>3
    <3>2. CASE k = 1
      <4>1. /\ SubSeq(c, 2, 2) \in Seq(Symbols) /\ Len(SubSeq(c, 2, 2)) = 1
            /\ SubSeq(c, 2, 2)[1] = NL
        BY <1>3, <2>2
      <4>2. SubSeq(c, 2, 2) = <<NL>>
        <5>. DEFINE s == SubSeq(c, 2, 2)
        <5>1. s \in Seq(Symbols) /\ Len(s) = 1 /\ s[1] = NL /\ NL \in Symbols
          BY <4>1 DEF Symbols
        <5>2. <<NL>> \in Seq(Symbols) /\ Len(<<NL>>) = 1 /\ <<NL>>[1] = NL
          BY <5>1
        <5>3. \A i \in 1..1 : i = 1
          OBVIOUS
        <5>. HIDE DEF s
        <5>4. s = <<NL>>
          BY <5>1, <5>2, <5>3, SeqEqual
        <5>. QED
          BY <5>4 DEF s
      <4>3. e = SubSeq(c, 2, 2)
        <5>1. Len(c) = 2
          BY <2>2
        <5>. HIDE DEF c
        <5>. QED
          BY <3>2, <5>1
      <4>. QED
        BY <4>2, <4>3
    <3>3. CASE k = 2
      BY <2>2, <3>3
    <3>. QED
      BY <3>1, <3>2, <3>3
  <2>3. CASE c = <<NL>>
    BY <1>1, <2>3
  <2>. QED
    BY <2>1, <2>2, <2>3
<1>7. /\ left' \in [Threads -> Seq(Symbols)] /\ left'[t] = e
      /\ \A u \in Threads : u # t => left'[u] = left[u]
  <2>. HIDE DEF e
  <2>. QED
    BY <1>3, <1>4, <1>5
<1>8. stream' \in Seq(Symbols)
  <2>. HIDE DEF d
  <2>. QED
    BY <1>1, <1>3, <1>4, SymbolsJoin DEF d
<1>. HIDE DEF d, e
<1>9. WireTypes' /\ SenderInv'
  BY <1>2, <1>6, <1>7, <1>8 DEF SendPart, WireInv, WireTypes, SenderInv
<1>10. CASE link = "open"
  <2>1. Unsent' = e
    BY <1>2, <1>7 DEF Unsent, SendPart
  <2>2. stream' = stream \o d /\ inBuffer' = inBuffer /\ link' = "open"
    BY <1>1, <1>10 DEF d, SendPart
  <2>3. Bytes' = Bytes
    BY <1>2, <1>4, <2>1, <2>2 DEF Bytes
  <2>4. LinesInv'
    BY <1>10, <2>2, <2>3 DEF WireInv, LinesInv
  <2>. QED
    BY <1>2, <1>9, <2>3, <2>4 DEF WireInv
<1>11. CASE link = "cut"
  BY <1>1, <1>2, <1>9, <1>11 DEF WireInv, LinesInv, SendPart
<1>. QED
  BY <1>10, <1>11 DEF WireInv, WireTypes

\* sendJsonFrame returns only after its frame is written.
LEMMA ReturnKeeps ==
    ASSUME WireInv, NEW t \in Threads, Return(t)
    PROVE  WireInv' /\ Bytes' = Bytes
<1>1. t # None /\ Unsent = <<>> /\ Unsent' = <<>>
  BY NewlineIsNoFrame DEF Return, Unsent
<1>2. Bytes' = Bytes
  BY <1>1 DEF Bytes, Return
<1>3. WireTypes' /\ SenderInv'
  BY NewlineIsNoFrame DEF Return, WireInv, WireTypes, SenderInv
<1>. QED
  BY <1>2, <1>3 DEF WireInv, LinesInv, Return

\* The server reads a part of the stream into its input buffer.
LEMMA ReceiveKeeps ==
    ASSUME WireInv, Receive
    PROVE  WireInv' /\ Bytes' = Bytes
<1>1. PICK k \in 1..Len(stream) :
         /\ inBuffer' = inBuffer \o SubSeq(stream, 1, k)
         /\ stream' = SubSeq(stream, k + 1, Len(stream))
  BY DEF Receive
<1>. DEFINE d == SubSeq(stream, 1, k)
            e == SubSeq(stream, k + 1, Len(stream))
<1>2. inBuffer \in Seq(Symbols) /\ stream \in Seq(Symbols)
  BY DEF WireInv, WireTypes
<1>3. d \in Seq(Symbols) /\ e \in Seq(Symbols) /\ d \o e = stream
  <2>1. d \o e = SubSeq(stream, 1, Len(stream))
    BY <1>2, ConcatAdjacentSubSeq
  <2>. QED
    BY <1>2, <2>1, SubSeqFull
<1>. HIDE DEF d, e
<1>4. inBuffer' = inBuffer \o d /\ stream' = e
  BY <1>1 DEF d, e
<1>5. inBuffer' \in Seq(Symbols) /\ inBuffer' \o stream' = inBuffer \o stream
  <2>1. /\ Join(inBuffer, d) \in Seq(Symbols)
        /\ Join(Join(inBuffer, d), e) = Join(inBuffer, Join(d, e))
    BY <1>2, <1>3, JoinAssociates
  <2>2. /\ inBuffer \o d \in Seq(Symbols)
        /\ (inBuffer \o d) \o e = inBuffer \o (d \o e)
    BY <2>1, Zenon DEF Join
  <2>. QED
    BY <1>3, <1>4, <2>2, Zenon
<1>6. Bytes' = Bytes
  BY <1>5 DEF Bytes, Unsent, Receive
<1>7. WireTypes' /\ SenderInv'
  BY <1>3, <1>4, <1>5 DEF Receive, WireInv, WireTypes, SenderInv
<1>8. link = "open"
  BY <1>1 DEF WireInv, WireTypes, LinesInv
<1>. QED
  BY <1>6, <1>7, <1>8 DEF WireInv, LinesInv, Receive

\* What onMessage cuts off is the first frame on the way, and whole.
LEMMA LineTaken ==
    ASSUME WireInv, TakeLine
    PROVE  /\ WireInv' /\ link = "open"
           /\ Way # <<>> /\ Line = <<Head(Way)>> /\ Parses
           /\ Way' = Tail(Way)
<1>. DEFINE rest == stream \o Unsent
            d == SubSeq(inBuffer, 3, Len(inBuffer))
<1>1. /\ inBuffer \in Seq(Symbols) /\ stream \in Seq(Symbols) /\ Unsent \in Seq(Symbols)
      /\ rest \in Seq(Symbols)
      /\ Bytes = inBuffer \o rest
      /\ Eol(inBuffer) # {}
  <2>1. /\ inBuffer \in Seq(Symbols) /\ stream \in Seq(Symbols) /\ Unsent \in Seq(Symbols)
    BY BytesTyped DEF WireInv, WireTypes
  <2>2. rest \in Seq(Symbols)
    BY <2>1, SymbolsJoin
  <2>3. Bytes = inBuffer \o rest
    BY <2>1, SymbolsAssociate DEF Bytes
  <2>. QED
    BY <2>1, <2>2, <2>3 DEF TakeLine
<1>. HIDE DEF rest
<1>2. PICK i \in DOMAIN inBuffer : inBuffer[i] = NL
  BY <1>1 DEF Eol
<1>3. i \in 1..Len(inBuffer) /\ inBuffer # <<>>
  BY <1>1, <1>2
<1>4. link = "open" /\ IsLines(Bytes)
  BY <1>3 DEF WireInv, WireTypes, LinesInv
<1>5. /\ Len(Bytes) = Len(inBuffer) + Len(rest)
      /\ \A j \in 1..Len(inBuffer) : Bytes[j] = inBuffer[j]
      /\ Bytes # <<>>
  BY <1>1, <1>3, SymbolsConcat
<1>6. /\ Bytes[1] \in Frames /\ Bytes[2] = NL /\ Len(Bytes) >= 2
      /\ Way # <<>> /\ Head(Way) = Bytes[1]
      /\ IsLines(SubSeq(Bytes, 3, Len(Bytes)))
      /\ FramesOf(SubSeq(Bytes, 3, Len(Bytes))) = Tail(Way)
  BY <1>4, <1>5, LinesTaken DEF Way
<1>7. inBuffer[1] = Bytes[1] /\ inBuffer[2] = NL /\ Len(inBuffer) >= 2
  <2>1. 1 \in 1..Len(inBuffer) /\ inBuffer[1] = Bytes[1]
    BY <1>1, <1>3, <1>5
  <2>2. i # 1
    BY <1>2, <1>6, <2>1, NewlineIsNoFrame
  <2>3. 2 \in 1..Len(inBuffer)
    BY <1>1, <1>3, <2>2
  <2>. QED
    BY <1>1, <1>5, <1>6, <2>1, <2>3
<1>8. FirstEol(inBuffer) = 2
  <2>1. 2 \in Eol(inBuffer) /\ 1 \notin Eol(inBuffer) /\ Eol(inBuffer) \subseteq 1..Len(inBuffer)
    BY <1>1, <1>6, <1>7, NewlineIsNoFrame DEF Eol
  <2>2. \A j \in Eol(inBuffer) : 2 <= j
    BY <1>1, <2>1
  <2>3. \A j \in Eol(inBuffer) : (\A l \in Eol(inBuffer) : j <= l) => j = 2
    BY <1>1, <2>1, <2>2
  <2>. QED
    BY <2>1, <2>2, <2>3 DEF FirstEol
<1>9. Line = <<Head(Way)>> /\ Parses
  <2>1. Line = SubSeq(inBuffer, 1, 1)
    BY <1>8 DEF Line
  <2>2. Line = <<inBuffer[1]>>
    <3>1. SubSeq(inBuffer, 1, 1) = <<inBuffer[1]>> \o SubSeq(inBuffer, 2, 1)
      BY <1>1, <1>7, SubSeqRecursiveFirst
    <3>2. SubSeq(inBuffer, 2, 1) = <<>> /\ <<inBuffer[1]>> \o <<>> = <<inBuffer[1]>>
      OBVIOUS
    <3>. QED
      BY <2>1, <3>1, <3>2
  <2>. QED
    BY <1>6, <1>7, <2>2 DEF Parses
<1>10. inBuffer' = d
  BY <1>8 DEF TakeLine, AfterLine
<1>11. d \in Seq(Symbols) /\ d \o rest = SubSeq(Bytes, 3, Len(Bytes))
  <2>1. /\ d \in Seq(Symbols) /\ Len(d) = Len(inBuffer) - 2
        /\ \A j \in 1..(Len(inBuffer) - 2) : d[j] = inBuffer[j + 2]
    <3>1. \A j \in 3..Len(inBuffer) : inBuffer[j] \in Symbols
      BY <1>1
    <3>2. /\ d \in Seq(Symbols)
          /\ Len(d) = IF 3 <= Len(inBuffer) THEN Len(inBuffer) - 3 + 1 ELSE 0
          /\ \A j \in 1..(Len(inBuffer) - 3 + 1) : d[j] = inBuffer[3 + j - 1]
      BY <1>1, <3>1, SubSeqProperties
    <3>. HIDE DEF d
    <3>. DEFINE l == Len(inBuffer)
    <3>3. l \in Nat /\ l >= 2 /\ l - 3 + 1 = l - 2
      BY <1>1, <1>7
    <3>. HIDE DEF l
    <3>4. Len(d) = l - 2
      <4>1. Len(d) = IF 3 <= l THEN l - 3 + 1 ELSE 0
        BY <3>2 DEF l
      <4>. QED
        BY <3>3, <4>1
    <3>5. \A j \in 1..(l - 2) : 3 + j - 1 = j + 2
      BY <3>3
    <3>6. \A j \in 1..(l - 2) : d[j] = inBuffer[j + 2]
      <4>1. \A j \in 1..(l - 3 + 1) : d[j] = inBuffer[3 + j - 1]
        BY <3>2 DEF l
      <4>. QED
        BY <3>3, <3>5, <4>1
    <3>. QED
      BY <3>2, <3>4, <3>6 DEF l
  <2>. DEFINE x == d \o rest
              y == SubSeq(Bytes, 3, Len(Bytes))
  <2>. HIDE DEF d
  <2>2. /\ x \in Seq(Symbols) /\ Len(x) = Len(inBuffer) - 2 + Len(rest)
        /\ \A j \in 1..Len(x) : x[j] = IF j <= Len(inBuffer) - 2 THEN d[j]
                                       ELSE rest[j - (Len(inBuffer) - 2)]
    <3>1. /\ d \o rest \in Seq(Symbols) /\ Len(d \o rest) = Len(d) + Len(rest)
          /\ \A j \in 1..(Len(d) + Len(rest)) :
               (d \o rest)[j] = IF j <= Len(d) THEN d[j] ELSE rest[j - Len(d)]
      BY <1>1, <2>1, SymbolsConcat, Zenon
    <3>. QED
      BY <2>1, <3>1
  <2>3. Bytes \in Seq(Symbols)
    BY <1>1, SymbolsConcat
  <2>4. /\ y \in Seq(Symbols) /\ Len(y) = Len(inBuffer) - 2 + Len(rest)
        /\ \A j \in 1..Len(y) : y[j] = Bytes[j + 2]
    BY <1>1, <1>5, <1>6, <2>3
  <2>5. \A j \in 1..(Len(inBuffer) + Len(rest)) :
           Bytes[j] = IF j <= Len(inBuffer) THEN inBuffer[j] ELSE rest[j - Len(inBuffer)]
    BY <1>1, SymbolsConcat
  <2>. HIDE DEF x, y
  <2>6. ASSUME NEW j \in 1..Len(x) PROVE x[j] = y[j]
    <3>1. j + 2 \in 1..(Len(inBuffer) + Len(rest)) /\ j \in 1..Len(y)
      BY <1>1, <1>7, <2>2, <2>4
    <3>2. CASE j <= Len(inBuffer) - 2
      <4>1. j \in 1..(Len(inBuffer) - 2) /\ j + 2 <= Len(inBuffer)
        BY <1>1, <3>1, <3>2
      <4>. QED
        BY <2>1, <2>2, <2>4, <2>5, <3>1, <3>2, <4>1
    <3>3. CASE ~(j <= Len(inBuffer) - 2)
      <4>1. ~(j + 2 <= Len(inBuffer)) /\ j - (Len(inBuffer) - 2) = j + 2 - Len(inBuffer)
        BY <1>1, <3>1, <3>3
      <4>. QED
        BY <2>2, <2>4, <2>5, <3>1, <3>3, <4>1
    <3>. QED
      BY <3>2, <3>3
  <2>7. x = y
    BY <2>2, <2>4, <2>6, SeqEqual
  <2>. QED
    BY <2>1, <2>7 DEF x, y
<1>. HIDE DEF d
<1>12. Bytes' = SubSeq(Bytes, 3, Len(Bytes))
  <2>1. Bytes' = (d \o stream) \o Unsent
    BY <1>10 DEF Bytes, Unsent, TakeLine
  <2>2. Bytes' = d \o rest
    <3>1. stream \in Seq(Symbols) /\ Unsent \in Seq(Symbols) /\ d \in Seq(Symbols)
      BY <1>1, <1>11
    <3>2. (d \o stream) \o Unsent = d \o (stream \o Unsent)
      BY <3>1, SymbolsAssociate
    <3>. QED
      BY <2>1, <3>2 DEF rest
  <2>. QED
    BY <1>11, <2>2
<1>13. WireTypes' /\ SenderInv'
  BY <1>10, <1>11 DEF TakeLine, WireInv, WireTypes, SenderInv
<1>. QED
  BY <1>4, <1>6, <1>9, <1>12, <1>13 DEF WireInv, LinesInv, Way, TakeLine

\* A broken connection has nothing on the way.
LEMMA CutEmpties ==
    ASSUME WireInv, CutLink
    PROVE  WireInv'
BY EmptySeq DEF CutLink, WireInv, WireTypes, SenderInv, LinesInv

\* At the start nothing is on the way.
LEMMA WireStarts == WireInit => WireInv /\ Way = <<>>
<1>. SUFFICES ASSUME WireInit PROVE WireInv /\ Way = <<>>
  OBVIOUS
<1>1. Bytes = <<>>
  BY DEF Bytes, Unsent, WireInit
<1>2. HasLines(<<>>, 0)
  BY DEF HasLines
<1>3. IsLines(<<>>) /\ FramesOf(<<>>) = <<>>
  BY <1>2, LinesCounted
<1>. QED
  BY <1>1, <1>3 DEF WireInit, WireInv, WireTypes, SenderInv, LinesInv, Way

\* The frames on the way are the frames of Way, each in a line of its own.
LEMMA OnTheWayIsWay ==
    ASSUME WireInv
    PROVE  /\ link = "cut" => OnTheWay = <<>>
           /\ link = "open" => /\ OnTheWay = [k \in DOMAIN Way |-> <<Way[k]>>]
                               /\ Way \in Seq(Frames)
<1>1. inBuffer \o stream \in Seq(Symbols)
  BY BytesTyped DEF WireInv
<1>2. inBuffer \o stream \o Unsent = Bytes
  BY DEF Bytes
<1>3. link = "open" => OnTheWay = LinesOf(Bytes)
  BY <1>2 DEF OnTheWay, Unsent
<1>4. link = "open" => IsLines(Bytes)
  BY DEF WireInv, LinesInv
<1>5. IsLines(Bytes) => FramesOf(Bytes) \in Seq(Frames)
  BY LinesHave, LinesCounted
<1>. QED
  BY <1>3, <1>4, <1>5, LinesAreFrames DEF OnTheWay, Way
=============================================================================
