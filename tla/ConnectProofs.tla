--------------------------- MODULE ConnectProofs ----------------------------
(***************************************************************************)
(* Proofs about Connect, for any worlds, names, frame sizes and numbers of *)
(* published frames: wherever a stream breaks, either end reads the frames *)
(* the other end wrote; a node is the one the config means; and a suite    *)
(* fails where banc doctor does.                                           *)
(***************************************************************************)
EXTENDS Connect, SequenceTheorems, WellFoundedInduction, TLAPS

-----------------------------------------------------------------------------
(***************************************************************************)
(* Streams of frames, perhaps cut.                                         *)
(***************************************************************************)
\* A frame is a header and its body.
FrameSize == HeaderSize + BodySize

\* Where cell j of frame k + 1 is.
Cell(k, j) == k * FrameSize + j

\* The cells that frames of messages M are made of.
Cells(M) == {Frame(msg)[j] : msg \in M, j \in 1..FrameSize}

\* s is what a cut has left of the n frames that carry the messages m, of M.
Carries(s, M, n, m) ==
    /\ s \in Seq(Cells(M)) /\ n \in Nat /\ m \in [1..n -> M]
    /\ \A k \in Nat, j \in 1..FrameSize : Cell(k, j) \in DOMAIN s =>
          k < n /\ s[Cell(k, j)] = Frame(m[k + 1])[j]

\* It has all the n frames.
Full(s, n) == Len(s) = n * FrameSize

\* A function on 1..q is a sequence of length q.
LEMMA SeqOfFunction ==
    ASSUME NEW S, NEW q \in Nat, NEW f \in [1..q -> S]
    PROVE  f \in Seq(S) /\ Len(f) = q
<1>1. f \in Seq(S)
  BY SeqDef
<1>2. Len(f) = q
  OBVIOUS
<1> QED
  BY <1>1, <1>2

\* The cells of a frame are those of its header, and then those of its body.
LEMMA FrameFacts ==
    /\ HeaderSize \in Nat /\ HeaderSize > 0 /\ BodySize \in Nat /\ BodySize > 0 /\ BodySize <= MaxFrame
    /\ MaxFrame \in Nat /\ FrameSize \in Nat /\ FrameSize = HeaderSize + BodySize
    /\ \A msg :
          /\ Frame(msg) \in Seq({Frame(msg)[j] : j \in 1..FrameSize})
          /\ Len(Frame(msg)) = FrameSize
          /\ \A j \in 1..HeaderSize : Frame(msg)[j] = Header(BodySize)[j]
          /\ \A j \in 1..BodySize : Frame(msg)[HeaderSize + j] = Body(msg)[j]
<1>1. /\ HeaderSize \in Nat /\ HeaderSize > 0 /\ BodySize \in Nat /\ BodySize > 0 /\ BodySize <= MaxFrame
      /\ MaxFrame \in Nat /\ FrameSize \in Nat /\ FrameSize = HeaderSize + BodySize
  BY FrameAssumption DEF FrameSize
<1>2. ASSUME NEW msg
      PROVE  /\ Frame(msg) \in Seq({Frame(msg)[j] : j \in 1..FrameSize})
             /\ Len(Frame(msg)) = FrameSize
             /\ \A j \in 1..HeaderSize : Frame(msg)[j] = Header(BodySize)[j]
             /\ \A j \in 1..BodySize : Frame(msg)[HeaderSize + j] = Body(msg)[j]
  <2> DEFINE h == Header(BodySize)
             b == Body(msg)
             f == Frame(msg)
             S == {h[j] : j \in 1..HeaderSize} \union {b[j] : j \in 1..BodySize}
  <2>1. h \in Seq(S) /\ Len(h) = HeaderSize
    <3>1. h \in [1..HeaderSize -> S]
      BY DEF Header
    <3> QED
      BY <1>1, <3>1, SeqOfFunction
  <2>2. b \in Seq(S) /\ Len(b) = BodySize
    <3>1. b \in [1..BodySize -> S]
      BY DEF Body
    <3> QED
      BY <1>1, <3>1, SeqOfFunction
  <2>3. f = h \o b
    BY DEF Frame
  <2> HIDE DEF h, b, f, S
  <2>4. /\ f \in Seq(S) /\ Len(f) = Len(h) + Len(b)
        /\ \A i \in 1..(Len(h) + Len(b)) : f[i] = IF i <= Len(h) THEN h[i] ELSE b[i - Len(h)]
    BY <2>1, <2>2, <2>3, ConcatProperties
  <2>5. Len(f) = FrameSize /\ DOMAIN f = 1..FrameSize
    BY <1>1, <2>1, <2>2, <2>4, LenProperties
  <2>6. f \in Seq({f[j] : j \in 1..FrameSize})
    <3>1. f \in [1..FrameSize -> {f[j] : j \in 1..FrameSize}]
      BY <2>4, <2>5, LenProperties
    <3> QED
      BY <1>1, <3>1, SeqOfFunction
  <2>7. \A j \in 1..HeaderSize : f[j] = h[j]
    BY <1>1, <2>1, <2>2, <2>4
  <2>8. \A j \in 1..BodySize : f[HeaderSize + j] = b[j]
    BY <1>1, <2>1, <2>2, <2>4
  <2> QED
    BY <2>5, <2>6, <2>7, <2>8 DEF f, h, b
<1> QED
  BY <1>1, <1>2

\* Frames lie one behind the other.
LEMMA CellFacts ==
    /\ FrameSize \in Nat /\ FrameSize > 1
    /\ \A k, n \in Nat, j \in 1..FrameSize :
          /\ n * FrameSize \in Nat /\ (n + 1) * FrameSize = n * FrameSize + FrameSize
          /\ Cell(k, j) \in Nat /\ Cell(k, j) > 0
          /\ Cell(k + 1, j) = Cell(k, j) + FrameSize
          /\ Cell(0, j) = j
          /\ Cell(n, j) = n * FrameSize + j
          /\ k < n => Cell(k, j) <= n * FrameSize
          /\ k > n => Cell(k, j) > n * FrameSize + FrameSize
<1>1. FrameSize \in Nat /\ FrameSize > 1
  BY FrameFacts
<1>2. \A n \in Nat : n * FrameSize \in Nat /\ (n + 1) * FrameSize = n * FrameSize + FrameSize
  BY <1>1
<1>3. 0 * FrameSize = 0
  BY <1>1
<1>4. ASSUME NEW k \in Nat, NEW n \in Nat, k < n
      PROVE  k * FrameSize + FrameSize <= n * FrameSize
  <2>1. PICK d \in Nat : n = k + 1 + d
    <3>1. n - (k + 1) \in Nat /\ n = k + 1 + (n - (k + 1))
      BY <1>4
    <3> QED
      BY <3>1
  <2>2. n * FrameSize = (k + 1) * FrameSize + d * FrameSize
    BY <1>1, <2>1
  <2>3. d * FrameSize \in Nat
    BY <1>2
  <2> QED
    BY <1>2, <2>2, <2>3
<1>5. ASSUME NEW k \in Nat, NEW n \in Nat, NEW j \in 1..FrameSize
      PROVE  /\ n * FrameSize \in Nat /\ (n + 1) * FrameSize = n * FrameSize + FrameSize
             /\ Cell(k, j) \in Nat /\ Cell(k, j) > 0
             /\ Cell(k + 1, j) = Cell(k, j) + FrameSize
             /\ Cell(0, j) = j
             /\ Cell(n, j) = n * FrameSize + j
             /\ k < n => Cell(k, j) <= n * FrameSize
             /\ k > n => Cell(k, j) > n * FrameSize + FrameSize
  BY <1>1, <1>2, <1>3, <1>4 DEF Cell
<1> QED
  BY <1>1, <1>5

\* A header that has arrived is read as the length it carries.
LEMMA HeaderArrives ==
    ASSUME NEW S, NEW s \in Seq(S), NEW size,
           Len(s) >= HeaderSize, \A i \in 1..HeaderSize : s[i] = Header(size)[i]
    PROVE  HasLength(s) /\ Length(s) = size
<1>1. HeaderSize \in Nat /\ HeaderSize > 0 /\ Len(s) \in Nat
  BY FrameFacts, LenProperties
<1>2. s[1] = [cell |-> "header", size |-> size, part |-> 1]
  BY <1>1 DEF Header
<1>3. SubSeq(s, 1, HeaderSize) = Header(size)
  <2>1. SubSeq(s, 1, HeaderSize) = [i \in 1..HeaderSize |-> s[i]]
    BY <1>1
  <2> QED
    BY <2>1 DEF Header
<1> QED
  BY <1>2, <1>3 DEF HasLength, Length

\* What has arrived is the first of the frames carried, and the rest follow.
LEMMA HeadOfFrames ==
    ASSUME NEW s, NEW M, NEW n, NEW m, Carries(s, M, n, m), s # <<>>
    PROVE  /\ n > 0 /\ Head(s) = Header(BodySize)[1] /\ ~Oversized(s)
           /\ HasLength(s) => Length(s) = BodySize
           /\ Complete(s) <=> Len(s) >= FrameSize
<1>1. /\ s \in Seq(Cells(M)) /\ Len(s) \in Nat /\ DOMAIN s = 1..Len(s) /\ Len(s) > 0
      /\ Head(s) = s[1] /\ n \in Nat
  BY LenProperties, EmptySeq, HeadTailProperties DEF Carries
<1>2. \A j \in 1..HeaderSize : j \in 1..FrameSize /\ Cell(0, j) = j
  BY FrameFacts, CellFacts
<1>3. \A j \in 1..HeaderSize : j \in DOMAIN s => 0 < n /\ s[j] = Header(BodySize)[j]
  <2> SUFFICES ASSUME NEW j \in 1..HeaderSize, j \in DOMAIN s PROVE 0 < n /\ s[j] = Header(BodySize)[j]
    OBVIOUS
  <2>1. s[Cell(0, j)] = Frame(m[0 + 1])[j] /\ 0 < n
    BY <1>2 DEF Carries
  <2> QED
    BY <1>2, <2>1, FrameFacts
<1>4. 0 < n /\ s[1] = Header(BodySize)[1]
  BY <1>1, <1>3, FrameFacts
<1>5. HasLength(s) => Length(s) = BodySize
  <2>1. HasLength(s) => \A j \in 1..HeaderSize : s[j] = Header(BodySize)[j]
    BY <1>1, <1>3, FrameFacts DEF HasLength
  <2> QED
    BY <1>1, <2>1, HeaderArrives DEF HasLength
<1>6. Complete(s) <=> Len(s) >= FrameSize
  BY <1>1, <1>5, FrameFacts DEF Complete, Oversized, HasLength
<1> QED
  BY <1>1, <1>4, <1>5, <1>6, FrameFacts DEF Oversized

\* What a cut leaves is still what a cut leaves.
LEMMA CutFrames ==
    ASSUME NEW s, NEW M, NEW n, NEW m, Carries(s, M, n, m), NEW q \in 0..Len(s)
    PROVE  Carries(SubSeq(s, 1, q), M, n, m)
<1>1. s \in Seq(Cells(M)) /\ Len(s) \in Nat /\ DOMAIN s = 1..Len(s)
  BY LenProperties DEF Carries
<1> DEFINE t == SubSeq(s, 1, q)
<1>2. t \in Seq(Cells(M)) /\ DOMAIN t = 1..q /\ \A i \in 1..q : t[i] = s[i] /\ i \in DOMAIN s
  BY <1>1
<1> HIDE DEF t
<1>3. Carries(t, M, n, m)
  BY <1>2 DEF Carries
<1> QED
  BY <1>3 DEF t

\* Nothing is carried by nothing, and no message by nothing else.
LEMMA EmptyStream ==
    /\ \A M : \E m : Carries(<<>>, M, 0, m)
    /\ Full(<<>>, 0) /\ ~Complete(<<>>) /\ ~Oversized(<<>>)
    /\ \A s, M, m : Carries(s, M, 0, m) => s = <<>>
<1>1. ASSUME NEW M PROVE \E m : Carries(<<>>, M, 0, m)
  <2>1. [i \in 1..0 |-> M] \in [1..0 -> M]
    OBVIOUS
  <2>2. DOMAIN <<>> = {} /\ <<>> \in Seq(Cells(M))
    BY EmptySeq
  <2> QED
    BY <2>1, <2>2 DEF Carries
<1>2. Full(<<>>, 0)
  BY CellFacts, EmptySeq, FrameFacts DEF Full
<1>3. ~Complete(<<>>) /\ ~Oversized(<<>>)
  BY EmptySeq, FrameFacts DEF Complete, Oversized, HasLength
<1>4. ASSUME NEW s, NEW M, NEW m, Carries(s, M, 0, m) PROVE s = <<>>
  BY <1>4, HeadOfFrames
<1> QED
  BY <1>1, <1>2, <1>3, <1>4

\* A frame that is written follows the frames before it.
LEMMA WriteFrames ==
    ASSUME NEW s, NEW M, NEW n, NEW m, Carries(s, M, n, m), Full(s, n), NEW msg \in M
    PROVE  LET t == WriteFrame(s, msg)
           IN  Carries(t, M, n + 1, [i \in 1..(n + 1) |-> IF i <= n THEN m[i] ELSE msg]) /\ Full(t, n + 1)
<1> DEFINE t == WriteFrame(s, msg)
           frame == Frame(msg)
           full == n * FrameSize
           more == [i \in 1..(n + 1) |-> IF i <= n THEN m[i] ELSE msg]
<1>1. /\ s \in Seq(Cells(M)) /\ Len(s) = full /\ full \in Nat /\ DOMAIN s = 1..full
      /\ n \in Nat /\ m \in [1..n -> M] /\ FrameSize \in Nat
  BY LenProperties, FrameFacts DEF Carries, Full
<1>2. frame \in Seq(Cells(M)) /\ Len(frame) = FrameSize
  <2>1. {frame[j] : j \in 1..FrameSize} \subseteq Cells(M)
    BY DEF Cells
  <2>2. frame \in Seq({frame[j] : j \in 1..FrameSize}) /\ Len(frame) = FrameSize
    BY FrameFacts
  <2> HIDE DEF frame
  <2>3. frame \in [1..FrameSize -> {frame[j] : j \in 1..FrameSize}]
    BY <2>2, LenProperties
  <2>4. frame \in [1..FrameSize -> Cells(M)]
    BY <2>1, <2>3
  <2> QED
    BY <1>1, <2>2, <2>4, SeqOfFunction
<1>3. /\ t \in Seq(Cells(M)) /\ Len(t) = full + FrameSize
      /\ \A i \in 1..full : t[i] = s[i]
      /\ \A j \in 1..FrameSize : t[full + j] = frame[j]
  <2>1. t = s \o frame
    BY DEF WriteFrame
  <2> HIDE DEF t, frame, full
  <2>2. /\ t \in Seq(Cells(M)) /\ Len(t) = full + FrameSize
        /\ \A i \in 1..(full + FrameSize) : t[i] = IF i <= full THEN s[i] ELSE frame[i - full]
    BY <1>1, <1>2, <2>1, ConcatProperties
  <2>3. \A i \in 1..full : t[i] = s[i]
    BY <1>1, <2>2
  <2>4. \A j \in 1..FrameSize : t[full + j] = frame[j]
    BY <1>1, <2>2
  <2> QED
    BY <2>2, <2>3, <2>4
<1>4. more \in [1..(n + 1) -> M]
  BY <1>1
<1>5. DOMAIN t = 1..(full + FrameSize)
  BY <1>3, LenProperties
<1> HIDE DEF t
<1>6. ASSUME NEW k \in Nat, NEW j \in 1..FrameSize, Cell(k, j) \in DOMAIN t
      PROVE  k < n + 1 /\ t[Cell(k, j)] = Frame(more[k + 1])[j]
  <2> HIDE DEF full, more
  <2>1. k <= n
    BY <1>1, <1>5, <1>6, CellFacts DEF full
  <2>2. CASE k < n
    <3>1. Cell(k, j) \in DOMAIN s /\ t[Cell(k, j)] = s[Cell(k, j)]
      <4>1. Cell(k, j) \in Nat /\ Cell(k, j) > 0 /\ Cell(k, j) <= full
        BY <1>1, <2>2, CellFacts DEF full
      <4> QED
        BY <1>1, <1>3, <4>1
    <3>2. more[k + 1] = m[k + 1]
      BY <1>1, <2>2 DEF more
    <3> QED
      BY <1>1, <2>2, <3>1, <3>2 DEF Carries
  <2>3. CASE k = n
    <3>1. Cell(k, j) = full + j
      BY <1>1, <2>3, CellFacts DEF full
    <3>2. more[k + 1] = msg
      BY <1>1, <2>3 DEF more
    <3>3. t[Cell(k, j)] = frame[j]
      BY <1>3, <3>1
    <3>4. k < n + 1
      BY <1>1, <2>3
    <3> QED
      BY <3>2, <3>3, <3>4
  <2> QED
    BY <1>1, <2>1, <2>2, <2>3
<1>7. Full(t, n + 1)
  <2>1. (n + 1) * FrameSize = full + FrameSize
    <3>1. 1 \in 1..FrameSize
      BY FrameFacts
    <3> QED
      BY <1>1, <3>1, CellFacts
  <2> QED
    BY <1>3, <2>1 DEF Full
<1> HIDE DEF full, more
<1>8. Carries(t, M, n + 1, more)
  <2>1. n + 1 \in Nat
    BY <1>1
  <2>2. \A k \in Nat, j \in 1..FrameSize : Cell(k, j) \in DOMAIN t =>
           k < n + 1 /\ t[Cell(k, j)] = Frame(more[k + 1])[j]
    BY <1>6, Zenon
  <2> QED
    BY <1>3, <1>4, <2>1, <2>2, Zenon DEF Carries
<1> QED
  BY <1>7, <1>8 DEF t, more

\* A frame that is written to an empty stream is the first one.
LEMMA FirstFrame ==
    ASSUME NEW M, NEW msg \in M
    PROVE  \E m : Carries(WriteFrame(<<>>, msg), M, 1, m) /\ Full(WriteFrame(<<>>, msg), 1)
<1>1. PICK m : Carries(<<>>, M, 0, m) /\ Full(<<>>, 0)
  BY EmptyStream
<1> DEFINE m2 == [i \in 1..(0 + 1) |-> IF i <= 0 THEN m[i] ELSE msg]
<1>2. Carries(WriteFrame(<<>>, msg), M, 0 + 1, m2) /\ Full(WriteFrame(<<>>, msg), 0 + 1)
  BY <1>1, WriteFrames
<1> HIDE DEF m2
<1>3. 0 + 1 = 1
  OBVIOUS
<1> QED
  BY <1>2, <1>3

\* A complete frame is read as the message it carries, and leaves the others.
LEMMA ReadFrames ==
    ASSUME NEW s, NEW M, NEW n, NEW m, Carries(s, M, n, m), Complete(s)
    PROVE  /\ n > 0 /\ FrameOf(s) = m[1] /\ m[1] \in M
           /\ Carries(RestOf(s), M, n - 1, [i \in 1..(n - 1) |-> m[i + 1]])
           /\ Full(s, n) => Full(RestOf(s), n - 1)
<1> DEFINE t == RestOf(s)
           rest == [i \in 1..(n - 1) |-> m[i + 1]]
<1>1. /\ s \in Seq(Cells(M)) /\ Len(s) \in Nat /\ DOMAIN s = 1..Len(s)
      /\ n \in Nat /\ m \in [1..n -> M] /\ FrameSize \in Nat /\ FrameSize > 0
  BY LenProperties, FrameFacts DEF Carries
<1>2. n > 0 /\ Length(s) = BodySize /\ Len(s) >= FrameSize
  BY HeadOfFrames, EmptyStream DEF Complete
<1>3. m[1] \in M
  BY <1>1, <1>2
<1>4. \A j \in 1..FrameSize : s[j] = Frame(m[1])[j]
  <2> SUFFICES ASSUME NEW j \in 1..FrameSize PROVE s[j] = Frame(m[1])[j]
    OBVIOUS
  <2>1. Cell(0, j) = j /\ j \in DOMAIN s
    <3>1. j \in DOMAIN s /\ 0 \in Nat
      BY <1>1, <1>2
    <3> QED
      BY <3>1, CellFacts
  <2>2. s[Cell(0, j)] = Frame(m[0 + 1])[j]
    BY <2>1 DEF Carries
  <2> QED
    BY <2>1, <2>2
<1>5. FrameOf(s) = m[1]
  <2> DEFINE body == SubSeq(s, HeaderSize + 1, HeaderSize + BodySize)
  <2>1. body = [i \in 1..BodySize |-> s[HeaderSize + i]]
    BY <1>1, <1>2, FrameFacts
  <2>2. \A i \in 1..BodySize : s[HeaderSize + i] = Body(m[1])[i]
    <3>1. \A i \in 1..BodySize : HeaderSize + i \in 1..FrameSize
      BY FrameFacts
    <3> QED
      BY <1>4, <3>1, FrameFacts
  <2> HIDE DEF body
  <2>3. body = Body(m[1])
    BY <2>1, <2>2 DEF Body
  <2>4. body # <<>> /\ body[1].cell = "body" /\ body[1].msg = m[1]
    <3>1. DOMAIN body = 1..BodySize /\ 1 \in 1..BodySize
      BY <2>1, FrameFacts
    <3>2. body # <<>>
      <4>1. body \in [1..BodySize -> {body[j] : j \in 1..BodySize}]
        BY <2>1, <3>1
      <4>2. Len(body) = BodySize
        BY <4>1, SeqOfFunction, FrameFacts
      <4> QED
        BY <4>2, EmptySeq, FrameFacts
    <3>3. body[1] = [cell |-> "body", msg |-> m[1], part |-> 1]
      BY <2>3, <3>1 DEF Body
    <3> QED
      BY <3>2, <3>3
  <2> QED
    BY <1>2, <2>3, <2>4 DEF FrameOf, body
<1>6. /\ t \in Seq(Cells(M)) /\ Len(t) = Len(s) - FrameSize
      /\ DOMAIN t = 1..(Len(s) - FrameSize)
      /\ \A i \in DOMAIN t : i + FrameSize \in DOMAIN s /\ t[i] = s[i + FrameSize]
  <2>1. t = SubSeq(s, FrameSize + 1, Len(s))
    BY <1>2, FrameFacts DEF RestOf
  <2>2. Len(s) - FrameSize \in Nat /\ FrameSize \in Nat
    BY <1>1, <1>2
  <2>3. t = [i \in 1..(Len(s) - FrameSize) |-> s[i + FrameSize]]
    BY <1>1, <1>2, <2>1, <2>2
  <2>4. \A i \in 1..(Len(s) - FrameSize) : i + FrameSize \in DOMAIN s /\ s[i + FrameSize] \in Cells(M)
    BY <1>1, <1>2, <2>2, ElementOfSeq
  <2> HIDE DEF t
  <2>5. t \in [1..(Len(s) - FrameSize) -> Cells(M)]
    BY <2>3, <2>4
  <2> QED
    <3>1. t \in Seq(Cells(M)) /\ Len(t) = Len(s) - FrameSize
      BY <2>2, <2>5, SeqOfFunction
    <3> QED
      BY <2>3, <2>4, <3>1
<1> HIDE DEF t
<1>7. rest \in [1..(n - 1) -> M]
  BY <1>1
<1>8. ASSUME NEW k \in Nat, NEW j \in 1..FrameSize, Cell(k, j) \in DOMAIN t
      PROVE  k < n - 1 /\ t[Cell(k, j)] = Frame(rest[k + 1])[j]
  <2>1. Cell(k + 1, j) \in DOMAIN s /\ t[Cell(k, j)] = s[Cell(k + 1, j)] /\ k + 1 \in Nat
    BY <1>1, <1>6, <1>8, CellFacts
  <2>2. k + 1 < n /\ s[Cell(k + 1, j)] = Frame(m[(k + 1) + 1])[j]
    BY <2>1 DEF Carries
  <2>3. rest[k + 1] = m[(k + 1) + 1]
    BY <1>1, <2>2
  <2> QED
    BY <1>1, <2>1, <2>2, <2>3
<1>9. Full(s, n) => Full(t, n - 1)
  <2>1. n - 1 \in Nat /\ n = (n - 1) + 1
    BY <1>1, <1>2
  <2>2. n * FrameSize = (n - 1) * FrameSize + FrameSize /\ (n - 1) * FrameSize \in Nat /\ FrameSize \in Nat
    <3> DEFINE p == n - 1
    <3>1. p \in Nat /\ n = p + 1
      BY <2>1
    <3> HIDE DEF p
    <3>2. (p + 1) * FrameSize = p * FrameSize + FrameSize /\ p * FrameSize \in Nat /\ FrameSize \in Nat
      <4>1. 1 \in 1..FrameSize
        BY <1>1
      <4> QED
        BY <3>1, <4>1, CellFacts
    <3>3. n * FrameSize = p * FrameSize + FrameSize
      BY <3>1, <3>2
    <3> QED
      BY <3>2, <3>3 DEF p
  <2> QED
    BY <1>1, <1>6, <2>2 DEF Full
<1>10. Carries(t, M, n - 1, rest)
  BY <1>1, <1>2, <1>6, <1>7, <1>8 DEF Carries
<1> QED
  BY <1>2, <1>3, <1>5, <1>9, <1>10 DEF t

-----------------------------------------------------------------------------
(***************************************************************************)
(* The inductive invariant, in parts.                                      *)
(***************************************************************************)
\* Where the process is says what it connects to, and whether somebody listens.
Places ==
    /\ at \in {"acquire", "lock"} => role = "none"
    /\ at = "held" => role \in {"none", "Lease"}
    /\ at \in {"dial", "hello", "reply"} => role \in {"Lease", "Node"}
    /\ at = "asks" => role = "Lease"
    /\ at = "usb" => role = "Usb"
    /\ at \in {"identify", "node"} => role \in {"Node", "Usb"}
    /\ at = "identity" => role = "Node"
    /\ at \in {"acquire", "lock", "held", "usb", "dial"} => server = "off"
    /\ at = "hello" => server \in {"accept", "failed"}
    /\ at = "reply" => server # "off"
    /\ server # "off" => role \in {"Lease", "Node"}

\* What the process uses is what its config says, and fits it.
Configured ==
    /\ world \in Worlds
    /\ at \notin {"acquire", "over"} \/ role # "none" => Locate(world) = "found" /\ Loads(world)
    /\ at = "lock" => config.lease = None
    /\ role = "Lease" => config.lease # None
    /\ role \in {"Node", "Usb"} =>
          /\ \E i \in DOMAIN config.assistants : wanted = config.assistants[i]
          /\ role = "Node" <=> IsNetwork(wanted)
    /\ role = "Usb" /\ at \in {"identify", "node"} => MatchesUsb(device, wanted)
    /\ role = "Node" /\ at \in {"identify", "identity", "node"} => config.rig \in {None, Daemon.rig}
    /\ at = "node" =>
          /\ identity.protocol_version = PROTOCOL_VERSION
          /\ wanted.unique_id \in {None, identity.unique_id}
          /\ identity = IF role = "Node" THEN Daemon.identity ELSE device.identity

\* Client and server agree on the role, the token and the version, or not.
Met ==
    /\ server \in {"Node", "Lease"} => server = role /\ Daemon.token = Token /\ Daemon.version = NET_VERSION
    /\ server = "refused" \/ outcome = "denied" => Daemon.token # Token \/ Daemon.version # NET_VERSION
    /\ at \in {"asks", "identify", "identity", "node"} /\ role # "Usb" => server = role

\* The client sends its Hello, then one Identify.
Sends(msg, none) ==
    \E n, m : Carries(c2s, {msg}, n, m) /\ n <= 1 /\ (open => Full(c2s, n)) /\ (none => n = 0)

ToServer ==
    /\ server = "accept" => Sends(Hello(Token), at = "hello")
    /\ server = "Node" => Sends(Identify, at \in {"reply", "identify"})
    /\ server = "Lease" => c2s = <<>>

\* What a server sends that has met its client.
Answers == {HelloOk(Daemon.rig), Identity(Daemon.identity)} \union {Publish(n) : n \in Nat}

\* n messages m, their publishes counted by c, from what the client has got on;
\* none is beyond what is out.
Counted(n, m, c, got, out) ==
    /\ c \in [0..n -> 0..out] /\ c[0] = got
    /\ \A k \in 1..n : IF m[k].type = "publish"
                       THEN m[k] = Publish(c[k]) /\ c[k] = c[k - 1] + 1
                       ELSE c[k] = c[k - 1]

\* What is on its way to a client that was met: n messages m, perhaps cut.
ServerSends(n, m, c) ==
    /\ Carries(s2c, Answers, n, m)
    /\ at = "reply" => n > 0 /\ m[1] = HelloOk(Daemon.rig)
    /\ Counted(n, m, c, Len(received), published)
    /\ open => Full(s2c, n) /\ c[n] = published

\* What is on its way to the client, from each kind of server.
ToClient ==
    /\ server = "accept" => s2c = <<>> /\ published = 0
    /\ server = "refused" /\ at = "reply" => \E n, m : Carries(s2c, {Denied}, n, m)
    /\ server = "failed" /\ at \in {"hello", "reply"} =>
          Oversized(s2c) \/ \E n, m : Carries(s2c, {Garbage}, n, m)
    /\ server \in {"Node", "Lease"} => \E n, m, c : ServerSends(n, m, c)

\* Published frames are received one after the other, from the first one.
InSequence ==
    /\ received \in Seq(Nat) /\ received = [n \in DOMAIN received |-> n]
    /\ received # <<>> => server = "Node"

\* The inductive invariant.
ConnectInv == TypeOK /\ Places /\ Configured /\ Met /\ ToServer /\ ToClient /\ InSequence

\* The invariant holds at the start.
LEMMA ConnectInvInit == Init => ConnectInv
<1> SUFFICES ASSUME Init PROVE ConnectInv
  OBVIOUS
<1>0. /\ world \in Worlds /\ at = "acquire" /\ outcome = "none" /\ role = "none" /\ server = "off"
      /\ open \in BOOLEAN /\ published = 0 /\ received = <<>>
  BY Zenon DEF Init
<1>1. received \in Seq(Nat) /\ DOMAIN received = {} /\ Len(received) = 0
  BY <1>0, EmptySeq
<1>2. TypeOK
  BY <1>0, <1>1, PublishedAssumption DEF TypeOK
<1>3. Places /\ Configured /\ Met
  BY <1>0 DEF Places, Configured, Met
<1>4. ToServer /\ ToClient
  BY <1>0 DEF ToServer, ToClient
<1>5. received = [n \in DOMAIN received |-> n]
  BY <1>0, <1>1
<1> QED
  BY <1>0, <1>1, <1>2, <1>3, <1>4, <1>5 DEF ConnectInv, InSequence

\* The server decodes the Hello the client sent, and nothing follows it.
LEMMA HelloArrives ==
    ASSUME ConnectInv, server = "accept", Complete(c2s)
    PROVE  FrameOf(c2s) = Hello(Token) /\ RestOf(c2s) = <<>> /\ at # "hello"
<1>1. PICK n, m : Carries(c2s, {Hello(Token)}, n, m) /\ n <= 1 /\ (at = "hello" => n = 0)
  BY DEF ConnectInv, ToServer, Sends
<1>2. /\ n > 0 /\ FrameOf(c2s) = m[1] /\ m[1] \in {Hello(Token)}
      /\ \E r : Carries(RestOf(c2s), {Hello(Token)}, n - 1, r)
  BY <1>1, ReadFrames
<1>3. n = 1 /\ n - 1 = 0
  BY <1>1, <1>2 DEF Carries
<1> QED
  BY <1>1, <1>2, <1>3, EmptyStream

\* The node decodes the Identify the client sent, and nothing follows it.
LEMMA IdentifyArrives ==
    ASSUME ConnectInv, server = "Node", Complete(c2s)
    PROVE  FrameOf(c2s) = Identify /\ RestOf(c2s) = <<>> /\ at \notin {"reply", "identify"}
<1>1. PICK n, m : Carries(c2s, {Identify}, n, m) /\ n <= 1 /\ (at \in {"reply", "identify"} => n = 0)
  BY DEF ConnectInv, ToServer, Sends
<1>2. /\ n > 0 /\ FrameOf(c2s) = m[1] /\ m[1] \in {Identify}
      /\ \E r : Carries(RestOf(c2s), {Identify}, n - 1, r)
  BY <1>1, ReadFrames
<1>3. n = 1 /\ n - 1 = 0
  BY <1>1, <1>2 DEF Carries
<1> QED
  BY <1>1, <1>2, <1>3, EmptyStream

\* The client decodes the reply of a server, and is told no more than it says.
LEMMA ReplyArrives ==
    ASSUME ConnectInv, at = "reply", Complete(s2c)
    PROVE  LET reply == FrameOf(s2c)
           IN  /\ reply.type = "ok" => server \in {"Node", "Lease"} /\ reply = HelloOk(Daemon.rig)
               /\ reply.type = "denied" => server = "refused"
<1>1. server \in {"accept", "Node", "Lease", "refused", "failed"}
  BY DEF ConnectInv, TypeOK, Places
<1>2. CASE server = "accept"
  BY <1>2, EmptyStream DEF ConnectInv, ToClient
<1>3. CASE server = "refused"
  <2>1. PICK n, m : Carries(s2c, {Denied}, n, m)
    BY <1>3 DEF ConnectInv, ToClient
  <2>2. FrameOf(s2c) = Denied
    <3>1. FrameOf(s2c) = m[1] /\ m[1] \in {Denied}
      BY <2>1, ReadFrames
    <3> QED
      BY <3>1
  <2> QED
    BY <1>3, <2>2 DEF Denied
<1>4. CASE server = "failed"
  <2>1. PICK n, m : Carries(s2c, {Garbage}, n, m)
    BY <1>4 DEF ConnectInv, ToClient, Complete
  <2>2. FrameOf(s2c) = Garbage
    <3>1. FrameOf(s2c) = m[1] /\ m[1] \in {Garbage}
      BY <2>1, ReadFrames
    <3> QED
      BY <3>1
  <2> QED
    BY <2>2 DEF Garbage
<1>5. CASE server \in {"Node", "Lease"}
  <2>1. PICK n, m, c : ServerSends(n, m, c)
    BY <1>5 DEF ConnectInv, ToClient
  <2>2. FrameOf(s2c) = m[1]
    BY <2>1, ReadFrames DEF ServerSends
  <2> QED
    BY <1>5, <2>1, <2>2 DEF ServerSends, HelloOk
<1> QED
  BY <1>1, <1>2, <1>3, <1>4, <1>5

\* The client decodes what its node sent: its identity, or the next of the
\* frames it published.
LEMMA AnswerArrives ==
    ASSUME ConnectInv, at = "identity", Complete(s2c)
    PROVE  LET frame == FrameOf(s2c)
           IN  /\ server = "Node" /\ frame \in Answers
               /\ frame.type = "identity" => frame.identity = Daemon.identity
               /\ frame.type = "publish" => frame.number = Len(received) + 1 /\ Len(received) < published
<1>1. server = "Node"
  BY DEF ConnectInv, Places, Met
<1>2. PICK n, m, c : ServerSends(n, m, c)
  BY <1>1 DEF ConnectInv, ToClient
<1>3. n > 0 /\ n \in Nat /\ FrameOf(s2c) = m[1] /\ m[1] \in Answers
  <2>1. Carries(s2c, Answers, n, m)
    BY <1>2 DEF ServerSends
  <2>2. n \in Nat
    BY <2>1 DEF Carries
  <2> QED
    BY <2>1, <2>2, ReadFrames
<1>4. m[1].type = "identity" => m[1].identity = Daemon.identity
  BY <1>3 DEF Answers, HelloOk, Identity, Publish
<1>5. m[1].type = "publish" => m[1].number = Len(received) + 1 /\ Len(received) < published
  <2>1. /\ c \in [0..n -> 0..published] /\ c[0] = Len(received)
        /\ \A k \in 1..n : IF m[k].type = "publish"
                           THEN m[k] = Publish(c[k]) /\ c[k] = c[k - 1] + 1
                           ELSE c[k] = c[k - 1]
    BY <1>2 DEF ServerSends, Counted
  <2>2. 1 \in 1..n /\ 1 - 1 = 0 /\ 0 \in 0..n /\ 1 \in 0..n /\ published \in Nat
    <3>1. published \in 0..MaxPublished
      BY DEF ConnectInv, TypeOK
    <3> QED
      BY <1>3, <3>1, PublishedAssumption
  <2>3. m[1].type = "publish" => m[1] = Publish(c[1]) /\ c[1] = c[0] + 1
    BY <2>1, <2>2
  <2>4. c[0] \in 0..published /\ c[1] \in 0..published
    BY <2>1, <2>2
  <2> QED
    BY <2>1, <2>2, <2>3, <2>4 DEF Publish
<1> QED
  BY <1>1, <1>3, <1>4, <1>5
-----------------------------------------------------------------------------
(***************************************************************************)
(* Every step keeps it.                                                    *)
(***************************************************************************)
\* The usual order on Nat, as a set of pairs.
Less == {pair \in Nat \X Nat : pair[1] < pair[2]}

\* The first entry of a name is an entry of the config.
LEMMA AssistantIsListed ==
    ASSUME NEW w \in Worlds, w.config # None, NEW name, Assistant(w.config, name) # None
    PROVE  \E i \in DOMAIN w.config.assistants : Assistant(w.config, name) = w.config.assistants[i]
<1> DEFINE list == w.config.assistants
           hits == {i \in DOMAIN list : list[i].name = name}
<1>1. Len(list) \in Nat /\ DOMAIN list = 1..Len(list)
  BY WorldsAssumption
<1>2. hits # {}
  BY DEF Assistant
<1>3. PICK i \in hits : \A j \in hits : i <= j
  <2>1. hits \subseteq Nat
    BY <1>1
  <2> HIDE DEF hits
  <2>2. IsWellFoundedOn(Less, Nat)
    BY NatLessThanWellFounded DEF OpToRel, Less
  <2>3. PICK i \in hits : \A j \in hits : ~(<<j, i>> \in Less)
    BY <1>2, <2>1, <2>2, WFMin
  <2>4. \A j \in hits : ~(j < i)
    BY <2>1, <2>3 DEF Less
  <2> QED
    BY <2>1, <2>4
<1>4. (CHOOSE k \in hits : \A j \in hits : k <= j) \in hits
  BY <1>3
<1> QED
  BY <1>2, <1>4 DEF Assistant

\* Whom the process means is a matter of its config, role and node.
LEMMA SameDaemon ==
    ASSUME UNCHANGED <<world, role, wanted>>
    PROVE  Daemon' = Daemon /\ Token' = Token /\ config' = config /\ Addr' = Addr
BY DEF Daemon, Token, Addr, config

\* Variables keep their types, and the process its place.
LEMMA PlacesNext == ConnectInv /\ [Next]_vars => TypeOK' /\ Places'
<1> SUFFICES ASSUME ConnectInv, [Next]_vars PROVE TypeOK' /\ Places'
  OBVIOUS
<1> USE DEF Ends, Goes
<1>0. TypeOK /\ Places /\ Met /\ InSequence
  BY DEF ConnectInv
<1>1. CASE Acquire
  BY <1>0, <1>1 DEF Acquire, TypeOK, Places, stream
<1>2. CASE TakeLock
  BY <1>0, <1>2 DEF TakeLock, TypeOK, Places, stream
<1>3. CASE LeaseAnswered
  BY <1>0, <1>3 DEF LeaseAnswered, TypeOK, Places
<1>4. ASSUME NEW name \in Names, AskFor(name) PROVE TypeOK' /\ Places'
  BY <1>0, <1>4 DEF AskFor, TypeOK, Places, stream
<1>5. CASE OpenUsb
  <2>1. /\ at = "usb" /\ UNCHANGED <<world, role, wanted, identity, stream, received>>
        /\ (at' = "over" /\ outcome' = "no_device") \/ (at' = "identify" /\ outcome' = outcome)
    BY <1>5, Zenon DEF OpenUsb
  <2> QED
    BY <1>0, <2>1 DEF TypeOK, Places, stream
<1>6. CASE Dial
  <2>1. at = "dial" /\ server = "off" /\ role \in {"Lease", "Node"} /\ outcome = "none" /\ Len(received) = 0
    BY <1>0, <1>6, EmptySeq DEF Dial, TypeOK, Places, InSequence
  <2>2. CASE Connects(world, Addr)
    <3>1. at' = "hello" /\ open' = TRUE /\ server' = "accept" /\ published' = 0 /\ UNCHANGED <<outcome, role, wanted, received>>
      BY <1>6, <2>2 DEF Dial
    <3> QED
      BY <1>0, <2>1, <3>1, PublishedAssumption DEF TypeOK, Places
  <2>3. CASE ~Connects(world, Addr)
    BY <1>0, <1>6, <2>1, <2>3 DEF Dial, TypeOK, Places, stream
  <2> QED
    BY <2>2, <2>3
<1>7. CASE SendHello
  BY <1>0, <1>7 DEF SendHello, TypeOK, Places
<1>8. CASE ReadFails
  BY <1>0, <1>8 DEF ReadFails, TypeOK, Places, stream
<1>9. CASE ReadReply
  <2>1. /\ at = "reply" /\ UNCHANGED <<world, role, wanted, device, identity, open, server, published, received>>
        /\ \/ at' = (IF role = "Lease" THEN "asks" ELSE "identify") /\ outcome' = outcome
           \/ at' = "over" /\ outcome' \in {"wrong_rig", "denied", "broken"}
    BY <1>9, Zenon DEF ReadReply
  <2> QED
    BY <1>0, <2>1 DEF TypeOK, Places
<1>10. CASE SendIdentify
  BY <1>0, <1>10 DEF SendIdentify, TypeOK, Places
<1>11. CASE IdentifyUsb
  <2>1. /\ at = "identify" /\ role = "Usb" /\ UNCHANGED <<world, role, wanted, stream, received>>
        /\ (at' = "over" /\ outcome' \in {"protocol", "unique_id", "broken"}) \/ (at' = "node" /\ outcome' = outcome)
    BY <1>11 DEF IdentifyUsb, Checked
  <2> QED
    BY <1>0, <2>1 DEF TypeOK, Places, stream
<1>12. CASE Receive
  <2>1. at = "identity" /\ Complete(s2c) /\ UNCHANGED <<world, role, wanted, open, server, published>>
    BY <1>12 DEF Receive
  <2> DEFINE frame == FrameOf(s2c)
  <2>2. frame.type = "publish" => frame.number = Len(received) + 1 /\ Len(received) < published
    BY <2>1, AnswerArrives
  <2>3. \/ /\ (at' = "over" /\ outcome' \in {"protocol", "unique_id"}) \/ (at' = "node" /\ outcome' = outcome)
           /\ received' = received
        \/ /\ UNCHANGED <<at, outcome>>
           /\ received' = received \/ (frame.type = "publish" /\ received' = Append(received, frame.number))
    BY <1>12 DEF Receive, Checked
  <2> HIDE DEF frame
  <2>4. Len(received') <= published' /\ published' \in 0..MaxPublished
    <3>1. received \in Seq(Nat) /\ Len(received) \in Nat /\ Len(received) <= published /\ published \in 0..MaxPublished
      BY <1>0, LenProperties DEF InSequence, TypeOK
    <3>2. CASE received' = received
      BY <2>1, <3>1, <3>2
    <3>3. CASE frame.type = "publish" /\ received' = Append(received, frame.number)
      <4>1. frame.number \in Nat /\ Len(received') = Len(received) + 1
        BY <2>2, <3>1, <3>3, AppendProperties
      <4> QED
        BY <2>1, <2>2, <3>1, <3>3, <4>1, PublishedAssumption
    <3> QED
      BY <2>3, <3>2, <3>3
  <2> QED
    BY <1>0, <2>1, <2>3, <2>4 DEF TypeOK, Places
<1>13. CASE ServeHello
  <2>1. /\ server = "accept" /\ at # "hello" /\ UNCHANGED <<client, published>> /\ open' \in BOOLEAN
        /\ server' = role \/ server' = "refused"
    <3>1. /\ server = "accept" /\ Complete(c2s) /\ UNCHANGED <<client, published>>
          /\ server' = FrameOf(c2s).role \/ server' = "refused"
          /\ open' = open \/ open' = FALSE
      BY <1>13, Zenon DEF ServeHello
    <3>2. FrameOf(c2s).role = role /\ at # "hello"
      BY <3>1, HelloArrives DEF Hello
    <3> QED
      BY <1>0, <3>1, <3>2 DEF TypeOK
  <2> QED
    BY <1>0, <2>1 DEF client, TypeOK, Places
<1>14. CASE ServeNothing
  BY <1>0, <1>14 DEF ServeNothing, client, TypeOK, Places
<1>15. CASE StrangerTalks
  BY <1>0, <1>15 DEF StrangerTalks, client, TypeOK, Places
<1>16. CASE ServeIdentify
  BY <1>0, <1>16 DEF ServeIdentify, client, TypeOK, Places
<1>17. CASE NodePublishes
  <2>1. received \in Seq(Nat) /\ Len(received) \in Nat
    BY <1>0, LenProperties DEF InSequence
  <2> QED
    BY <1>0, <1>17, <2>1, PublishedAssumption DEF NodePublishes, client, TypeOK, Places
<1>18. CASE Break
  BY <1>0, <1>18 DEF Break, client, TypeOK, Places
<1>19. CASE UNCHANGED vars
  BY <1>0, <1>19 DEF vars, stream, TypeOK, Places
<1> QED
  BY <1>1, <1>2, <1>3, <1>4, <1>5, <1>6, <1>7, <1>8, <1>9, <1>10, <1>11, <1>12, <1>13, <1>14,
     <1>15, <1>16, <1>17, <1>18, <1>19 DEF Next

\* What is used stays what the config says.
LEMMA ConfiguredNext == ConnectInv /\ [Next]_vars => Configured'
<1> SUFFICES ASSUME ConnectInv, [Next]_vars PROVE Configured'
  OBVIOUS
<1> USE DEF Ends, Goes
<1>0. TypeOK /\ Places /\ Configured /\ Met
  BY DEF ConnectInv
<1>1. CASE Acquire
  BY <1>0, <1>1 DEF Acquire, TypeOK, Places, Configured, config
<1>2. CASE TakeLock
  BY <1>0, <1>2 DEF TakeLock, Places, Configured, config
<1>3. CASE LeaseAnswered
  BY <1>0, <1>3 DEF LeaseAnswered, Places, Configured, config
<1>4. ASSUME NEW name \in Names, AskFor(name) PROVE Configured'
  <2>1. /\ at = "held" /\ wanted' = Assistant(config, name) /\ world' = world
        /\ world \in Worlds /\ Locate(world) = "found" /\ Loads(world) /\ config # None
    BY <1>0, <1>4 DEF AskFor, Configured, Loads, config
  <2>2. CASE wanted' = None
    BY <1>0, <1>4, <2>1, <2>2 DEF AskFor, Places, Configured, config
  <2>3. CASE wanted' # None
    <3>1. \E i \in DOMAIN config.assistants : wanted' = config.assistants[i]
      BY <2>1, <2>3, AssistantIsListed DEF config
    <3>2. IF IsNetwork(wanted') THEN role' = "Node" /\ at' \in {"dial", "over"} ELSE role' = "Usb" /\ at' = "usb"
      BY <1>4, <2>3 DEF AskFor
    <3> QED
      BY <2>1, <3>1, <3>2 DEF Configured, config
  <2> QED
    BY <2>2, <2>3
<1>5. CASE OpenUsb
  <2>1. /\ at = "usb" /\ UNCHANGED <<world, role, wanted>>
        /\ (at' = "over") \/ (at' = "identify" /\ MatchesUsb(device', wanted))
    BY <1>5 DEF OpenUsb
  <2> QED
    BY <1>0, <2>1 DEF Places, Configured, config
<1>6. CASE Dial
  <2>1. at = "dial" /\ at' \in {"hello", "over"} /\ UNCHANGED <<world, role, wanted>>
    BY <1>6 DEF Dial
  <2> QED
    BY <1>0, <2>1 DEF Places, Configured, config
<1>7. CASE SendHello
  <2>1. at = "hello" /\ at' \in {"reply", "over"} /\ UNCHANGED <<world, role, wanted>>
    BY <1>7 DEF SendHello
  <2> QED
    BY <1>0, <2>1 DEF Places, Configured, config
<1>8. CASE ReadFails
  BY <1>0, <1>8 DEF ReadFails, Places, Configured, config
<1>9. CASE ReadReply
  <2> DEFINE reply == FrameOf(s2c)
  <2>1. /\ at = "reply" /\ Complete(s2c) /\ UNCHANGED <<world, role, wanted, device, identity>>
        /\ \/ at' = "over"
           \/ role = "Lease" /\ at' = "asks"
           \/ role # "Lease" /\ at' = "identify" /\ reply.type = "ok" /\ RigMatches(reply)
    BY <1>9 DEF ReadReply
  <2>2. reply.type = "ok" => reply = HelloOk(Daemon.rig)
    BY <2>1, ReplyArrives
  <2> HIDE DEF reply
  <2>3. role # "Lease" /\ at' = "identify" => config.rig \in {None, Daemon.rig}
    BY <2>1, <2>2 DEF RigMatches, HelloOk
  <2> QED
    BY <1>0, <2>1, <2>3, SameDaemon DEF Places, Configured
<1>10. CASE SendIdentify
  <2>1. at = "identify" /\ at' \in {"identity", "over"} /\ UNCHANGED <<world, role, wanted, device, identity>>
    BY <1>10 DEF SendIdentify
  <2> QED
    BY <1>0, <2>1, SameDaemon DEF Places, Configured
<1>11. CASE IdentifyUsb
  <2>1. /\ at = "identify" /\ role = "Usb" /\ UNCHANGED <<world, role, wanted, device>>
        /\ \/ at' = "over"
           \/ /\ at' = "node" /\ identity' = device.identity
              /\ identity'.protocol_version = PROTOCOL_VERSION
              /\ wanted.unique_id \in {None, identity'.unique_id}
    BY <1>11 DEF IdentifyUsb, Checked
  <2> QED
    BY <1>0, <2>1, SameDaemon DEF Places, Configured
<1>12. CASE Receive
  <2> DEFINE frame == FrameOf(s2c)
  <2>1. /\ at = "identity" /\ Complete(s2c) /\ UNCHANGED <<world, role, wanted, device>>
        /\ \/ at' = "over"
           \/ /\ at' = "node" /\ frame.type = "identity" /\ identity' = frame.identity
              /\ identity'.protocol_version = PROTOCOL_VERSION
              /\ wanted.unique_id \in {None, identity'.unique_id}
           \/ at' = at /\ identity' = identity
    BY <1>12 DEF Receive, Checked
  <2>2. frame.type = "identity" => frame.identity = Daemon.identity
    BY <2>1, AnswerArrives
  <2> HIDE DEF frame
  <2> QED
    BY <1>0, <2>1, <2>2, SameDaemon DEF Places, Configured
<1>13. CASE UNCHANGED client
  BY <1>0, <1>13, SameDaemon DEF client, Configured
<1>14. CASE UNCHANGED vars
  BY <1>0, <1>14, SameDaemon DEF vars, Configured
<1> QED
  BY <1>1, <1>2, <1>3, <1>4, <1>5, <1>6, <1>7, <1>8, <1>9, <1>10, <1>11, <1>12, <1>13, <1>14
  DEF Next, ServeHello, ServeNothing, StrangerTalks, ServeIdentify, NodePublishes, Break

\* Client and server go on agreeing.
LEMMA MetNext == ConnectInv /\ [Next]_vars => Met'
<1> SUFFICES ASSUME ConnectInv, [Next]_vars PROVE Met'
  OBVIOUS
<1> USE DEF Ends, Goes
<1>0. TypeOK /\ Places /\ Met
  BY DEF ConnectInv
<1>1. CASE server = "off" /\ server' = "off" /\ outcome' # "denied" /\ at' \notin {"asks", "identity"}
           /\ (role' = "Usb" \/ at' \notin {"identify", "node"})
  BY <1>1 DEF Met
<1>2. CASE server' = server /\ outcome' # "denied" /\ at' = "over" /\ UNCHANGED <<world, role, wanted>>
  BY <1>0, <1>2, SameDaemon DEF Met
<1>3. CASE Acquire \/ TakeLock
  BY <1>0, <1>1, <1>3 DEF Acquire, TakeLock, stream, TypeOK, Places
<1>4. CASE LeaseAnswered
  BY <1>0, <1>4 DEF LeaseAnswered, TypeOK, Met
<1>5. ASSUME NEW name \in Names, AskFor(name) PROVE Met'
  BY <1>0, <1>1, <1>5 DEF AskFor, stream, TypeOK, Places
<1>6. CASE OpenUsb
  <2>1. at = "usb" /\ at' \in {"over", "identify"} /\ outcome' \in {outcome, "no_device"} /\ role' = role /\ server' = server
    BY <1>6 DEF OpenUsb, stream
  <2> QED
    BY <1>0, <1>1, <2>1 DEF TypeOK, Places
<1>7. CASE Dial
  <2>1. at = "dial" /\ at' \in {"over", "hello"} /\ outcome' \in {outcome, "unreachable"} /\ server' \in {server, "accept"}
    BY <1>7 DEF Dial, stream
  <2> QED
    BY <1>0, <2>1 DEF TypeOK, Places, Met
<1>8. CASE SendHello
  <2>1. /\ at = "hello" /\ at' \in {"over", "reply"} /\ outcome' \in {outcome, "broken"}
        /\ server' = server /\ UNCHANGED <<world, role, wanted>>
    BY <1>8 DEF SendHello
  <2> QED
    BY <1>0, <2>1, SameDaemon DEF TypeOK, Places, Met
<1>9. CASE ReadFails
  BY <1>2, <1>9 DEF ReadFails, stream
<1>10. CASE ReadReply
  <2> DEFINE reply == FrameOf(s2c)
  <2>1. /\ at = "reply" /\ Complete(s2c) /\ UNCHANGED <<world, role, wanted, server>>
        /\ \/ at' \in {"asks", "identify"} /\ outcome' = outcome /\ reply.type = "ok"
           \/ at' = "over" /\ outcome' \in {"wrong_rig", "broken"}
           \/ at' = "over" /\ outcome' = "denied" /\ reply.type = "denied"
    BY <1>10 DEF ReadReply
  <2>2. /\ reply.type = "ok" => server \in {"Node", "Lease"}
        /\ reply.type = "denied" => server = "refused"
    BY <2>1, ReplyArrives
  <2> HIDE DEF reply
  <2>3. outcome = "none"
    BY <1>0, <2>1 DEF TypeOK
  <2> QED
    BY <1>0, <2>1, <2>2, <2>3, SameDaemon DEF Met
<1>11. CASE SendIdentify
  BY <1>0, <1>11, SameDaemon DEF SendIdentify, TypeOK, Met
<1>12. CASE IdentifyUsb
  <2>1. /\ at = "identify" /\ role = "Usb" /\ UNCHANGED <<role, server>>
        /\ at' \in {"over", "node"} /\ outcome' \in {outcome, "protocol", "unique_id", "broken"}
    BY <1>12 DEF IdentifyUsb, Checked, stream
  <2> QED
    BY <1>0, <1>1, <2>1 DEF TypeOK, Places
<1>13. CASE Receive
  <2>1. /\ at = "identity" /\ UNCHANGED <<world, role, wanted, server>>
        /\ at' \in {"over", "node", "identity"} /\ outcome' \in {outcome, "protocol", "unique_id"}
    BY <1>13 DEF Receive, Checked
  <2> QED
    BY <1>0, <2>1, SameDaemon DEF TypeOK, Met
<1>14. CASE ServeHello
  <2>1. server = "accept" /\ Complete(c2s) /\ UNCHANGED client
    BY <1>14 DEF ServeHello
  <2>2. FrameOf(c2s) = Hello(Token)
    BY <2>1, HelloArrives
  <2>3. IF Daemon.version = NET_VERSION /\ Daemon.token = Token THEN server' = role ELSE server' = "refused"
    <3>1. IF Welcome(FrameOf(c2s)) THEN server' = FrameOf(c2s).role ELSE server' = "refused"
      BY <1>14, Zenon DEF ServeHello
    <3>2. FrameOf(c2s).role = role /\ (Welcome(FrameOf(c2s)) <=> Daemon.version = NET_VERSION /\ Daemon.token = Token)
      BY <2>2 DEF Hello, Welcome
    <3> QED
      BY <3>1, <3>2
  <2>4. at \notin {"asks", "identify", "identity", "node"} \/ role = "Usb"
    BY <1>0, <2>1 DEF Places, Met
  <2>5. UNCHANGED <<world, at, outcome, role, wanted>>
    BY <2>1 DEF client
  <2> QED
    BY <1>0, <2>3, <2>4, <2>5, SameDaemon DEF TypeOK, Places, Met
<1>15. CASE ServeNothing \/ StrangerTalks
  <2>1. server = "accept" /\ server' = "failed" /\ UNCHANGED client
    BY <1>15 DEF ServeNothing, StrangerTalks
  <2> QED
    BY <1>0, <2>1, SameDaemon DEF client, TypeOK, Met
<1>16. CASE ServeIdentify
  <2>1. server = "Node" /\ Complete(c2s) /\ UNCHANGED client
    BY <1>16 DEF ServeIdentify
  <2>2. server' = server
    BY <1>16, <2>1, IdentifyArrives DEF ServeIdentify
  <2> QED
    BY <1>0, <2>1, <2>2, SameDaemon DEF client, Met
<1>17. CASE NodePublishes \/ Break
  <2>1. server' = server /\ UNCHANGED client
    BY <1>17 DEF NodePublishes, Break
  <2> QED
    BY <1>0, <2>1, SameDaemon DEF client, Met
<1>18. CASE UNCHANGED vars
  BY <1>0, <1>18, SameDaemon DEF vars, stream, Met
<1> QED
  BY <1>3, <1>4, <1>5, <1>6, <1>7, <1>8, <1>9, <1>10, <1>11, <1>12, <1>13, <1>14, <1>15, <1>16, <1>17, <1>18 DEF Next

\* A message more is counted from where the count was.
LEMMA CountMore ==
    ASSUME NEW n \in Nat, NEW m, NEW c, NEW got, NEW out \in Nat, Counted(n, m, c, got, out), c[n] = out,
           NEW msg, NEW more \in Nat,
           IF msg.type = "publish" THEN msg = Publish(more) /\ more = out + 1 ELSE more = out
    PROVE  LET c2 == [i \in 0..(n + 1) |-> IF i <= n THEN c[i] ELSE more]
           IN  Counted(n + 1, [i \in 1..(n + 1) |-> IF i <= n THEN m[i] ELSE msg], c2, got, more) /\ c2[n + 1] = more
<1> DEFINE m2 == [i \in 1..(n + 1) |-> IF i <= n THEN m[i] ELSE msg]
           c2 == [i \in 0..(n + 1) |-> IF i <= n THEN c[i] ELSE more]
<1>1. /\ c \in [0..n -> 0..out] /\ c[0] = got /\ more >= out
      /\ \A k \in 1..n : IF m[k].type = "publish" THEN m[k] = Publish(c[k]) /\ c[k] = c[k - 1] + 1 ELSE c[k] = c[k - 1]
  BY DEF Counted
<1>2. c2 \in [0..(n + 1) -> 0..more] /\ c2[0] = got /\ c2[n + 1] = more
  BY <1>1
<1>3. \A k \in 1..n : m2[k] = m[k] /\ c2[k] = c[k] /\ c2[k - 1] = c[k - 1]
  BY <1>1
<1>4. m2[n + 1] = msg /\ c2[(n + 1) - 1] = out
  BY <1>1
<1> HIDE DEF m2, c2
<1>5. ASSUME NEW k \in 1..(n + 1)
      PROVE  IF m2[k].type = "publish" THEN m2[k] = Publish(c2[k]) /\ c2[k] = c2[k - 1] + 1 ELSE c2[k] = c2[k - 1]
  <2>1. CASE k = n + 1
    BY <1>2, <1>4, <2>1
  <2>2. CASE k \in 1..n
    BY <1>1, <1>3, <2>2
  <2> QED
    BY <2>1, <2>2
<1>6. Counted(n + 1, m2, c2, got, more)
  BY <1>2, <1>5 DEF Counted
<1> QED
  BY <1>2, <1>6 DEF m2, c2

\* A message that is read is counted as got, if it is a publish.
LEMMA CountRest ==
    ASSUME NEW n \in Nat, n > 0, NEW m, NEW c, NEW got, NEW out \in Nat, Counted(n, m, c, got, out)
    PROVE  LET c2 == [i \in 0..(n - 1) |-> c[i + 1]]
           IN  /\ c[1] = IF m[1].type = "publish" THEN got + 1 ELSE got
               /\ Counted(n - 1, [i \in 1..(n - 1) |-> m[i + 1]], c2, c[1], out)
               /\ c2[n - 1] = c[n]
<1> DEFINE m2 == [i \in 1..(n - 1) |-> m[i + 1]]
           c2 == [i \in 0..(n - 1) |-> c[i + 1]]
<1>1. /\ c \in [0..n -> 0..out] /\ c[0] = got
      /\ \A k \in 1..n : IF m[k].type = "publish" THEN m[k] = Publish(c[k]) /\ c[k] = c[k - 1] + 1 ELSE c[k] = c[k - 1]
  BY DEF Counted
<1>2. c[1] = IF m[1].type = "publish" THEN got + 1 ELSE got
  <2>1. 1 \in 1..n /\ 1 - 1 = 0
    OBVIOUS
  <2> QED
    BY <1>1, <2>1
<1>3. c2 \in [0..(n - 1) -> 0..out] /\ c2[0] = c[1] /\ c2[n - 1] = c[n]
  BY <1>1
<1>4. ASSUME NEW k \in 1..(n - 1)
      PROVE  IF m2[k].type = "publish" THEN m2[k] = Publish(c2[k]) /\ c2[k] = c2[k - 1] + 1 ELSE c2[k] = c2[k - 1]
  <2>1. k + 1 \in 1..n /\ (k + 1) - 1 = k
    OBVIOUS
  <2>2. m2[k] = m[k + 1] /\ c2[k] = c[k + 1] /\ c2[k - 1] = c[k]
    OBVIOUS
  <2> HIDE DEF m2, c2
  <2> QED
    BY <1>1, <2>1, <2>2
<1> HIDE DEF m2, c2
<1>5. Counted(n - 1, m2, c2, c[1], out)
  BY <1>3, <1>4 DEF Counted
<1> QED
  BY <1>2, <1>3, <1>5 DEF m2, c2

\* What is in flight to the server stays a Hello, or an Identify.
LEMMA ToServerNext == ConnectInv /\ [Next]_vars => ToServer'
<1> SUFFICES ASSUME ConnectInv, [Next]_vars PROVE ToServer'
  OBVIOUS
<1> USE DEF Ends, Goes
<1>0. TypeOK /\ Places /\ Met /\ ToServer
  BY DEF ConnectInv
<1>1. CASE server' \in {"off", "failed", "refused"}
  BY <1>1 DEF ToServer
<1>2. CASE /\ UNCHANGED <<world, role, wanted, server, c2s>> /\ (open' => open)
           /\ at' = "hello" => at = "hello"
           /\ at' \in {"reply", "identify"} => at \in {"reply", "identify"}
  <2>1. Hello(Token)' = Hello(Token)
    BY <1>2, SameDaemon DEF Hello
  <2>2. server = "accept" => Sends(Hello(Token), at = "hello")'
    <3> SUFFICES ASSUME server = "accept" PROVE Sends(Hello(Token), at = "hello")'
      OBVIOUS
    <3>1. PICK n, m : /\ Carries(c2s, {Hello(Token)}, n, m) /\ n <= 1
                      /\ (open => Full(c2s, n)) /\ (at = "hello" => n = 0)
      BY <1>0 DEF ToServer, Sends
    <3>2. Carries(c2s', {Hello(Token)'}, n, m) /\ (open' => Full(c2s', n)) /\ (at' = "hello" => n = 0)
      BY <1>2, <2>1, <3>1
    <3> QED
      BY <3>1, <3>2 DEF Sends
  <2>3. server = "Node" => Sends(Identify, at \in {"reply", "identify"})'
    <3> SUFFICES ASSUME server = "Node" PROVE Sends(Identify, at \in {"reply", "identify"})'
      OBVIOUS
    <3>1. PICK n, m : /\ Carries(c2s, {Identify}, n, m) /\ n <= 1
                      /\ (open => Full(c2s, n)) /\ (at \in {"reply", "identify"} => n = 0)
      BY <1>0 DEF ToServer, Sends
    <3>2. Carries(c2s', {Identify}, n, m) /\ (open' => Full(c2s', n)) /\ (at' \in {"reply", "identify"} => n = 0)
      BY <1>2, <3>1
    <3> QED
      BY <3>1, <3>2 DEF Sends, Identify
  <2> QED
    BY <1>0, <1>2, <2>2, <2>3 DEF ToServer
<1>3. CASE Acquire \/ TakeLock \/ (\E name \in Names : AskFor(name)) \/ OpenUsb
  BY <1>0, <1>1, <1>3 DEF Acquire, TakeLock, AskFor, OpenUsb, stream, Places
<1>4. CASE LeaseAnswered \/ ServeNothing \/ StrangerTalks
  BY <1>1, <1>4 DEF LeaseAnswered, ServeNothing, StrangerTalks
<1>5. CASE IdentifyUsb
  BY <1>0, <1>1, <1>5 DEF IdentifyUsb, stream, TypeOK, Places
<1>6. CASE Dial
  <2>1. CASE UNCHANGED stream
    BY <1>0, <1>1, <1>6, <2>1 DEF Dial, stream, Places
  <2>2. CASE c2s' = <<>> /\ server' = "accept"
    <3>1. PICK m : Carries(<<>>, {Hello(Token)'}, 0, m)
      BY EmptyStream
    <3>2. Full(<<>>, 0) /\ 0 <= 1
      BY EmptyStream
    <3>3. Sends(Hello(Token), at = "hello")'
      BY <2>2, <3>1, <3>2 DEF Sends
    <3> QED
      BY <2>2, <3>3 DEF ToServer
  <2> QED
    BY <1>6, <2>1, <2>2 DEF Dial
<1>7. CASE SendHello
  <2>1. /\ at = "hello" /\ UNCHANGED <<world, role, wanted, server, open>>
        /\ \/ at' = "over" /\ c2s' = c2s
           \/ at' = "reply" /\ c2s' = WriteFrame(c2s, Hello(Token)) /\ open
    BY <1>7 DEF SendHello
  <2>2. CASE at' = "over" /\ c2s' = c2s
    BY <1>2, <2>1, <2>2
  <2>3. CASE server = "accept" /\ at' = "reply" /\ c2s' = WriteFrame(c2s, Hello(Token)) /\ open
    <3>1. PICK n, m : Carries(c2s, {Hello(Token)}, n, m) /\ n = 0 /\ Full(c2s, n)
      BY <1>0, <2>1, <2>3 DEF ToServer, Sends
    <3>2. \E m2 : Carries(c2s', {Hello(Token)}, 1, m2) /\ Full(c2s', 1)
      <4>1. c2s = <<>> /\ Hello(Token) \in {Hello(Token)}
        BY <3>1, EmptyStream
      <4> QED
        BY <2>3, <4>1, FirstFrame
    <3>3. Hello(Token)' = Hello(Token) /\ ~(at = "hello")'
      BY <2>1, <2>3, SameDaemon DEF Hello
    <3>4. Sends(Hello(Token), at = "hello")'
      <4>1. PICK m2 : Carries(c2s', {Hello(Token)}, 1, m2) /\ Full(c2s', 1)
        BY <3>2
      <4>2. Carries(c2s', {Hello(Token)'}, 1, m2) /\ 1 <= 1
        BY <3>3, <4>1
      <4> QED
        BY <3>3, <4>1, <4>2 DEF Sends
    <3> QED
      BY <2>1, <2>3, <3>4 DEF ToServer
  <2>4. CASE server = "failed"
    BY <1>1, <2>1, <2>4
  <2> QED
    BY <1>0, <2>1, <2>2, <2>3, <2>4 DEF Places
<1>8. CASE ReadFails
  BY <1>2, <1>8 DEF ReadFails, stream
<1>9. CASE ReadReply
  <2>1. /\ at = "reply" /\ at' \in {"asks", "identify", "over"}
        /\ UNCHANGED <<world, role, wanted, server, c2s, open>>
    BY <1>9 DEF ReadReply
  <2> QED
    BY <1>2, <2>1
<1>10. CASE SendIdentify
  <2>1. /\ at = "identify" /\ role = "Node" /\ UNCHANGED <<world, role, wanted, server, open>>
        /\ \/ at' = "over" /\ c2s' = c2s
           \/ at' = "identity" /\ c2s' = WriteFrame(c2s, Identify) /\ open
    BY <1>10 DEF SendIdentify
  <2>2. CASE at' = "over" /\ c2s' = c2s
    BY <1>2, <2>1, <2>2
  <2>3. CASE at' = "identity" /\ c2s' = WriteFrame(c2s, Identify) /\ open
    <3>1. server = "Node"
      BY <1>0, <2>1 DEF Met
    <3>2. PICK n, m : Carries(c2s, {Identify}, n, m) /\ n = 0 /\ Full(c2s, n)
      BY <1>0, <2>1, <2>3, <3>1 DEF ToServer, Sends
    <3>3. PICK m2 : Carries(c2s', {Identify}, 1, m2) /\ Full(c2s', 1)
      <4>1. c2s = <<>> /\ Identify \in {Identify}
        BY <3>2, EmptyStream
      <4> QED
        BY <2>3, <4>1, FirstFrame
    <3>4. Sends(Identify, at \in {"reply", "identify"})'
      <4>1. ~(at' \in {"reply", "identify"}) /\ 1 <= 1
        BY <2>3
      <4> QED
        BY <3>3, <4>1 DEF Sends, Identify
    <3> QED
      BY <2>1, <3>1, <3>4 DEF ToServer
  <2> QED
    BY <2>1, <2>2, <2>3
<1>11. CASE Receive
  <2>1. at = "identity" /\ at' \in {"identity", "node", "over"} /\ UNCHANGED <<world, role, wanted, server, c2s, open>>
    BY <1>11 DEF Receive, Checked
  <2> QED
    BY <1>2, <2>1
<1>12. CASE ServeHello \/ ServeIdentify
  <2>1. c2s' = <<>> /\ server' \in {"Node", "Lease", "refused"}
    <3>1. CASE ServeHello
      <4>1. server = "accept" /\ Complete(c2s) /\ c2s' = RestOf(c2s) /\ (server' = FrameOf(c2s).role \/ server' = "refused")
        BY <3>1, Zenon DEF ServeHello
      <4>2. FrameOf(c2s).role = role /\ RestOf(c2s) = <<>>
        BY <4>1, HelloArrives DEF Hello
      <4>3. role \in {"Lease", "Node"}
        BY <1>0, <4>1 DEF Places
      <4> QED
        BY <4>1, <4>2, <4>3
    <3>2. CASE ServeIdentify
      BY <3>2, IdentifyArrives DEF ServeIdentify
    <3> QED
      BY <1>12, <3>1, <3>2
  <2>2. PICK m : Carries(<<>>, {Identify}, 0, m)
    BY EmptyStream
  <2>3. Full(<<>>, 0) /\ 0 <= 1
    BY EmptyStream
  <2>4. Sends(Identify, at \in {"reply", "identify"})'
    BY <2>1, <2>2, <2>3 DEF Sends, Identify
  <2> QED
    BY <2>1, <2>4 DEF ToServer
<1>13. CASE NodePublishes
  BY <1>2, <1>13 DEF NodePublishes, client
<1>14. CASE Break
  <2>1. PICK q \in 0..Len(c2s) : c2s' = SubSeq(c2s, 1, q)
    BY <1>14 DEF Break
  <2>2. UNCHANGED <<world, role, wanted, at, server>> /\ ~open' /\ server \notin {"off", "failed"}
    BY <1>14 DEF Break, client
  <2>3. CASE server = "accept"
    <3>1. PICK n, m : Carries(c2s, {Hello(Token)}, n, m) /\ n <= 1 /\ (at = "hello" => n = 0)
      BY <1>0, <2>3 DEF ToServer, Sends
    <3>2. Hello(Token)' = Hello(Token)
      BY <2>2, SameDaemon DEF Hello
    <3>3. Carries(c2s', {Hello(Token)}, n, m)
      BY <2>1, <3>1, CutFrames
    <3>4. Sends(Hello(Token), at = "hello")'
      BY <2>2, <3>1, <3>2, <3>3 DEF Sends
    <3> QED
      BY <2>2, <2>3, <3>4 DEF ToServer
  <2>4. CASE server = "Node"
    <3>1. PICK n, m : Carries(c2s, {Identify}, n, m) /\ n <= 1 /\ (at \in {"reply", "identify"} => n = 0)
      BY <1>0, <2>4 DEF ToServer, Sends
    <3>2. Carries(c2s', {Identify}, n, m)
      BY <2>1, <3>1, CutFrames
    <3>3. Sends(Identify, at \in {"reply", "identify"})'
      BY <2>2, <3>1, <3>2 DEF Sends, Identify
    <3> QED
      BY <2>2, <2>4, <3>3 DEF ToServer
  <2>5. CASE server = "Lease"
    <3>1. c2s = <<>> /\ Len(c2s) = 0 /\ q = 0
      BY <1>0, <2>1, <2>5, EmptySeq DEF ToServer
    <3>2. c2s' = <<>>
      BY <2>1, <3>1
    <3> QED
      BY <2>2, <2>5, <3>2 DEF ToServer
  <2>6. CASE server = "refused"
    BY <1>1, <2>2, <2>6
  <2> QED
    BY <1>0, <2>2, <2>3, <2>4, <2>5, <2>6 DEF TypeOK
<1>15. CASE UNCHANGED vars
  BY <1>2, <1>15 DEF vars, stream
<1> QED
  BY <1>3, <1>4, <1>5, <1>6, <1>7, <1>8, <1>9, <1>10, <1>11, <1>12, <1>13, <1>14, <1>15 DEF Next

\* What the client receives goes on where it was, from a node.
LEMMA InSequenceNext == ConnectInv /\ [Next]_vars => InSequence'
<1> SUFFICES ASSUME ConnectInv, [Next]_vars PROVE InSequence'
  OBVIOUS
<1>0. TypeOK /\ Places /\ Met /\ InSequence
  BY DEF ConnectInv
<1>1. CASE received' = received /\ (server' = server \/ received = <<>>)
  BY <1>0, <1>1 DEF InSequence
<1>2. CASE Acquire \/ TakeLock \/ (\E name \in Names : AskFor(name)) \/ OpenUsb \/ SendHello \/ ReadFails
           \/ ReadReply \/ SendIdentify \/ IdentifyUsb \/ UNCHANGED vars
  BY <1>1, <1>2 DEF Acquire, TakeLock, AskFor, OpenUsb, SendHello, ReadFails, ReadReply, SendIdentify, IdentifyUsb,
                    vars, stream
<1>3. CASE Dial
  BY <1>0, <1>1, <1>3 DEF Dial, Places, InSequence
<1>4. CASE LeaseAnswered
  BY <1>0, <1>1, <1>4 DEF LeaseAnswered, Places, Met, InSequence
<1>5. CASE Receive
  <2> DEFINE frame == FrameOf(s2c)
  <2>1. at = "identity" /\ Complete(s2c) /\ server' = server
    BY <1>5 DEF Receive
  <2>2. server = "Node" /\ (frame.type = "publish" => frame.number = Len(received) + 1)
    BY <2>1, AnswerArrives
  <2>3. received' = received \/ (frame.type = "publish" /\ received' = Append(received, frame.number))
    BY <1>5 DEF Receive
  <2> HIDE DEF frame
  <2>4. CASE received' = Append(received, Len(received) + 1)
    <3>1. received \in Seq(Nat) /\ Len(received) \in Nat /\ DOMAIN received = 1..Len(received)
          /\ \A i \in 1..Len(received) : received[i] = i
      <4>1. received \in Seq(Nat) /\ Len(received) \in Nat /\ DOMAIN received = 1..Len(received)
            /\ received = [i \in DOMAIN received |-> i]
        BY <1>0, LenProperties DEF InSequence
      <4> QED
        BY <4>1
    <3>2. /\ received' \in Seq(Nat) /\ DOMAIN received' = 1..(Len(received) + 1)
          /\ \A i \in 1..Len(received) : received'[i] = received[i]
          /\ received'[Len(received) + 1] = Len(received) + 1
      BY <2>4, <3>1, AppendProperties, LenProperties
    <3>3. \A i \in DOMAIN received' : received'[i] = i
      BY <3>1, <3>2
    <3>4. received' = [i \in DOMAIN received' |-> received'[i]]
      BY <3>2
    <3> QED
      BY <2>1, <2>2, <3>2, <3>3, <3>4 DEF InSequence
  <2> QED
    BY <1>1, <2>1, <2>2, <2>3, <2>4
<1>6. CASE ServeHello \/ ServeNothing \/ StrangerTalks
  <2>1. server = "accept" /\ received' = received
    BY <1>6 DEF ServeHello, ServeNothing, StrangerTalks, client
  <2> QED
    BY <1>0, <1>1, <2>1 DEF InSequence
<1>7. CASE ServeIdentify
  BY <1>1, <1>7, IdentifyArrives DEF ServeIdentify, client
<1>8. CASE NodePublishes \/ Break
  BY <1>1, <1>8 DEF NodePublishes, Break, client
<1> QED
  BY <1>2, <1>3, <1>4, <1>5, <1>6, <1>7, <1>8 DEF Next

\* A node sends one message more.
LEMMA OneMore ==
    ASSUME published \in Nat, published' \in Nat, open, \E n, m, c : ServerSends(n, m, c),
           UNCHANGED <<world, role, wanted, received, at, open>>,
           NEW msg \in Answers, s2c' = WriteFrame(s2c, msg),
           IF msg.type = "publish" THEN msg = Publish(published') /\ published' = published + 1
                                   ELSE published' = published
    PROVE  \E n, m, c : ServerSends(n, m, c)'
<1>1. PICK n, m, c : ServerSends(n, m, c)
  OBVIOUS
<1>2. /\ Carries(s2c, Answers, n, m) /\ Full(s2c, n) /\ n \in Nat
      /\ Counted(n, m, c, Len(received), published) /\ c[n] = published
      /\ at = "reply" => n > 0 /\ m[1] = HelloOk(Daemon.rig)
  BY <1>1 DEF ServerSends, Carries
<1> DEFINE m2 == [i \in 1..(n + 1) |-> IF i <= n THEN m[i] ELSE msg]
           c2 == [i \in 0..(n + 1) |-> IF i <= n THEN c[i] ELSE published']
<1>3. Carries(WriteFrame(s2c, msg), Answers, n + 1, m2) /\ Full(WriteFrame(s2c, msg), n + 1)
  BY <1>2, WriteFrames
<1>4. Counted(n + 1, m2, c2, Len(received), published') /\ c2[n + 1] = published'
  BY <1>2, CountMore
<1>5. at = "reply" => n + 1 > 0 /\ m2[1] = HelloOk(Daemon.rig)
  BY <1>2
<1>6. Answers' = Answers /\ Daemon' = Daemon
  BY SameDaemon DEF Answers, HelloOk, Identity, Publish
<1> HIDE DEF m2, c2
<1>7. PICK mm, cc : /\ Carries(s2c', Answers', n + 1, mm) /\ Full(s2c', n + 1)
                    /\ Counted(n + 1, mm, cc, Len(received'), published') /\ cc[n + 1] = published'
                    /\ at' = "reply" => n + 1 > 0 /\ mm[1] = HelloOk(Daemon.rig)'
  <2>1. Carries(s2c', Answers', n + 1, m2) /\ Full(s2c', n + 1)
    BY <1>3, <1>6
  <2>2. Counted(n + 1, m2, c2, Len(received'), published') /\ c2[n + 1] = published'
    BY <1>4
  <2>3. at' = "reply" => n + 1 > 0 /\ m2[1] = HelloOk(Daemon.rig)'
    BY <1>5, <1>6 DEF HelloOk
  <2> QED
    BY <2>1, <2>2, <2>3
<1>8. ServerSends(n + 1, mm, cc)'
  BY <1>7 DEF ServerSends
<1> QED
  BY <1>8

\* The client reads the first message, and counts it if it is a publish.
LEMMA OneLess ==
    ASSUME published \in Nat, Complete(s2c), s2c' = RestOf(s2c), \E n, m, c : ServerSends(n, m, c),
           UNCHANGED <<world, role, wanted, published, open>>, at' # "reply",
           Len(received') = IF FrameOf(s2c).type = "publish" THEN Len(received) + 1 ELSE Len(received)
    PROVE  \E n, m, c : ServerSends(n, m, c)'
<1>1. PICK n, m, c : ServerSends(n, m, c)
  OBVIOUS
<1>2. /\ Carries(s2c, Answers, n, m) /\ n \in Nat
      /\ Counted(n, m, c, Len(received), published)
      /\ open => Full(s2c, n) /\ c[n] = published
  BY <1>1 DEF ServerSends, Carries
<1> DEFINE m2 == [i \in 1..(n - 1) |-> m[i + 1]]
           c2 == [i \in 0..(n - 1) |-> c[i + 1]]
<1>3. /\ n > 0 /\ FrameOf(s2c) = m[1] /\ Carries(RestOf(s2c), Answers, n - 1, m2)
      /\ Full(s2c, n) => Full(RestOf(s2c), n - 1)
  <2>1. Carries(s2c, Answers, n, m) /\ Complete(s2c)
    BY <1>2
  <2>2. /\ n > 0 /\ FrameOf(s2c) = m[1]
        /\ Carries(RestOf(s2c), Answers, n - 1, [i \in 1..(n - 1) |-> m[i + 1]])
        /\ Full(s2c, n) => Full(RestOf(s2c), n - 1)
    BY ONLY <2>1, ReadFrames
  <2> QED
    BY <2>2
<1>4. /\ c[1] = IF m[1].type = "publish" THEN Len(received) + 1 ELSE Len(received)
      /\ Counted(n - 1, m2, c2, c[1], published) /\ c2[n - 1] = c[n]
  BY <1>2, <1>3, CountRest
<1>5. Answers' = Answers
  BY SameDaemon DEF Answers, HelloOk, Identity, Publish
<1> HIDE DEF m2, c2
<1>6. c[1] = Len(received')
  BY <1>3, <1>4
<1>7. ServerSends(n - 1, m2, c2)'
  BY <1>2, <1>3, <1>4, <1>5, <1>6 DEF ServerSends
<1> QED
  BY <1>7

\* What is in flight to the client stays what its server, or a stranger, sends.
LEMMA ToClientNext == ConnectInv /\ [Next]_vars => ToClient'
<1> SUFFICES ASSUME ConnectInv, [Next]_vars PROVE ToClient'
  OBVIOUS
<1> USE DEF Ends, Goes
<1>0. TypeOK /\ Places /\ Met /\ ToClient /\ InSequence /\ published \in Nat
  BY PublishedAssumption DEF ConnectInv, TypeOK
<1>1. CASE server' = "off"
  BY <1>1 DEF ToClient
<1>2. CASE /\ UNCHANGED <<world, role, wanted, server, s2c, published, received>> /\ (open' => open)
           /\ at' = "hello" => at = "hello"
           /\ at' = "reply" => at \in {"hello", "reply"}
  <2>1. server \in {"Node", "Lease"} => \E n, m, c : ServerSends(n, m, c)'
    <3> SUFFICES ASSUME server \in {"Node", "Lease"} PROVE \E n, m, c : ServerSends(n, m, c)'
      OBVIOUS
    <3>1. PICK n, m, c : ServerSends(n, m, c)
      BY <1>0 DEF ToClient
    <3>2. at' = "reply" => at = "reply"
      BY <1>0, <1>2 DEF Places
    <3>3. Answers' = Answers /\ Daemon' = Daemon
      BY <1>2, SameDaemon DEF Answers, HelloOk, Identity, Publish
    <3>4. ServerSends(n, m, c)'
      BY <1>2, <3>1, <3>2, <3>3 DEF ServerSends, HelloOk
    <3> QED
      BY <3>4
  <2>2. at' = "reply" /\ server = "refused" => at = "reply"
    BY <1>0, <1>2 DEF Places
  <2>3. Denied' = Denied /\ Garbage' = Garbage /\ Oversized(s2c)' = Oversized(s2c)
    BY <1>2 DEF Denied, Garbage, Oversized, HasLength, Length
  <2> QED
    BY <1>0, <1>2, <2>1, <2>2, <2>3 DEF ToClient
<1>3. CASE Acquire \/ TakeLock \/ (\E name \in Names : AskFor(name)) \/ OpenUsb \/ LeaseAnswered
  BY <1>0, <1>1, <1>3 DEF Acquire, TakeLock, AskFor, OpenUsb, LeaseAnswered, stream, Places
<1>4. CASE Dial
  BY <1>0, <1>1, <1>4 DEF Dial, stream, Places, ToClient
<1>5. CASE SendHello \/ ReadFails \/ SendIdentify \/ IdentifyUsb \/ UNCHANGED vars
  BY <1>2, <1>5 DEF SendHello, ReadFails, SendIdentify, IdentifyUsb, Checked, stream, vars
<1>6. CASE ReadReply
  <2>1. /\ at = "reply" /\ Complete(s2c) /\ s2c' = RestOf(s2c) /\ at' \in {"asks", "identify", "over"}
        /\ UNCHANGED <<world, role, wanted, server, open, published, received>>
    BY <1>6 DEF ReadReply
  <2>2. server # "accept"
    BY <1>0, <2>1, EmptyStream DEF ToClient
  <2>3. server \in {"Node", "Lease"} => \E n, m, c : ServerSends(n, m, c)'
    <3> SUFFICES ASSUME server \in {"Node", "Lease"} PROVE \E n, m, c : ServerSends(n, m, c)'
      OBVIOUS
    <3>1. PICK n, m, c : ServerSends(n, m, c)
      BY <1>0 DEF ToClient
    <3>2. FrameOf(s2c) = HelloOk(Daemon.rig)
      BY <2>1, <3>1, ReadFrames DEF ServerSends
    <3>3. Len(received') = IF FrameOf(s2c).type = "publish" THEN Len(received) + 1 ELSE Len(received)
      BY <2>1, <3>2 DEF HelloOk
    <3> QED
      BY <1>0, <2>1, <3>1, <3>3, OneLess
  <2> QED
    BY <2>1, <2>2, <2>3 DEF ToClient
<1>7. CASE Receive
  <2> DEFINE frame == FrameOf(s2c)
  <2>1. /\ at = "identity" /\ Complete(s2c) /\ s2c' = RestOf(s2c) /\ at' \in {"identity", "node", "over"}
        /\ UNCHANGED <<world, role, wanted, server, open, published>>
        /\ IF frame.type = "publish" THEN received' = Append(received, frame.number) ELSE received' = received
    BY <1>7 DEF Receive, Checked
  <2>2. server = "Node" /\ (frame.type = "publish" => frame.number = Len(received) + 1)
    BY <2>1, AnswerArrives
  <2>3. Len(received') = IF frame.type = "publish" THEN Len(received) + 1 ELSE Len(received)
    <3>1. received \in Seq(Nat) /\ Len(received) \in Nat
      BY <1>0, LenProperties DEF InSequence
    <3>2. CASE frame.type = "publish"
      <4>1. frame.number \in Nat
        BY <2>2, <3>1, <3>2
      <4> QED
        BY <2>1, <3>1, <3>2, <4>1, AppendProperties
    <3>3. CASE frame.type # "publish"
      BY <2>1, <3>3
    <3> QED
      BY <3>2, <3>3
  <2>4. \E n, m, c : ServerSends(n, m, c)
    BY <1>0, <2>2 DEF ToClient
  <2>5. \E n, m, c : ServerSends(n, m, c)'
    BY <1>0, <2>1, <2>3, <2>4, OneLess
  <2> QED
    BY <2>1, <2>2, <2>5 DEF ToClient
<1>8. CASE ServeHello
  <2>1. /\ server = "accept" /\ Complete(c2s) /\ UNCHANGED <<world, role, wanted, at, received, published>>
        /\ \/ server' = FrameOf(c2s).role /\ s2c' = WriteFrame(s2c, HelloOk(Daemon.rig))
           \/ server' = "refused" /\ s2c' = WriteFrame(s2c, Denied)
    BY <1>8, Zenon DEF ServeHello, client
  <2>2. s2c = <<>> /\ published = 0 /\ received = <<>> /\ Len(received) = 0
    BY <1>0, <2>1, EmptySeq DEF ToClient, InSequence
  <2>3. FrameOf(c2s).role = role /\ role \in {"Lease", "Node"}
    BY <1>0, <2>1, HelloArrives DEF Hello, Places
  <2>4. CASE server' = FrameOf(c2s).role /\ s2c' = WriteFrame(s2c, HelloOk(Daemon.rig))
    <3>1. PICK m : Carries(s2c, Answers, 0, m) /\ Full(s2c, 0)
      BY <2>2, EmptyStream
    <3> DEFINE ok == HelloOk(Daemon.rig)
               m2 == [i \in 1..(0 + 1) |-> IF i <= 0 THEN m[i] ELSE ok]
               c2 == [i \in 0..1 |-> 0]
    <3>2. ok \in Answers
      BY DEF Answers
    <3>3. Carries(WriteFrame(s2c, ok), Answers, 0 + 1, m2) /\ Full(WriteFrame(s2c, ok), 0 + 1)
      BY <3>1, <3>2, WriteFrames
    <3>4. m2[1] = ok
      OBVIOUS
    <3>5. c2 \in [0..1 -> 0..0] /\ c2[0] = 0 /\ c2[1] = 0
      OBVIOUS
    <3>6. Answers' = Answers /\ Daemon' = Daemon
      BY <2>1, SameDaemon DEF Answers, HelloOk, Identity, Publish
    <3> HIDE DEF m2, c2
    <3>7. Counted(1, m2, c2, 0, 0)
      BY <3>4, <3>5 DEF Counted, HelloOk
    <3>8. PICK mm : /\ Carries(s2c', Answers', 1, mm) /\ Full(s2c', 1)
                    /\ mm[1] = HelloOk(Daemon.rig)'
                    /\ Counted(1, mm, c2, Len(received'), published') /\ c2[1] = published'
      <4>1. Carries(s2c', Answers', 1, m2) /\ Full(s2c', 1)
        BY <2>4, <3>3, <3>6
      <4>2. m2[1] = HelloOk(Daemon.rig)'
        BY <3>4, <3>6 DEF HelloOk
      <4>3. Counted(1, m2, c2, Len(received'), published') /\ c2[1] = published'
        BY <2>1, <2>2, <3>5, <3>7
      <4> QED
        BY <4>1, <4>2, <4>3
    <3>9. ServerSends(1, mm, c2)'
      BY <3>8 DEF ServerSends, c2
    <3> QED
      BY <2>3, <2>4, <3>9 DEF ToClient
  <2>5. CASE server' = "refused" /\ s2c' = WriteFrame(s2c, Denied)
    <3>1. Denied \in {Denied}
      OBVIOUS
    <3>2. PICK m : Carries(WriteFrame(<<>>, Denied), {Denied}, 1, m)
      BY <3>1, FirstFrame
    <3>3. Carries(s2c', {Denied}, 1, m)
      BY <2>2, <2>5, <3>2
    <3> QED
      BY <2>5, <3>3 DEF ToClient, Denied
  <2> QED
    BY <2>1, <2>4, <2>5
<1>9. CASE ServeNothing
  <2>1. server = "accept" /\ server' = "failed" /\ s2c' = s2c
    BY <1>9 DEF ServeNothing
  <2>2. PICK m : Carries(s2c, {Garbage}, 0, m)
    BY <1>0, <2>1, EmptyStream DEF ToClient
  <2>3. Carries(s2c', {Garbage}, 0, m)
    BY <2>1, <2>2
  <2> QED
    BY <2>1, <2>3 DEF ToClient, Garbage
<1>10. CASE StrangerTalks
  <2>1. server' = "failed" /\ s2c' \in {Header(MaxFrame + 1), WriteFrame(<<>>, Garbage), Header(BodySize)}
    BY <1>10 DEF StrangerTalks
  <2> DEFINE whole == WriteFrame(<<>>, Garbage)
  <2>2. Garbage \in {Garbage}
    OBVIOUS
  <2>3. PICK m : Carries(whole, {Garbage}, 1, m) /\ Full(whole, 1)
    BY <2>2, FirstFrame
  <2> HIDE DEF whole
  <2> DEFINE long == Header(MaxFrame + 1)
  <2>4. CASE s2c' = long
    <3>1. HasLength(long) /\ Length(long) = MaxFrame + 1
      <4>1. long \in Seq({long[i] : i \in 1..HeaderSize}) /\ Len(long) = HeaderSize
        <5>1. long \in [1..HeaderSize -> {long[i] : i \in 1..HeaderSize}] /\ HeaderSize \in Nat
          BY FrameFacts DEF Header
        <5> QED
          BY <5>1, SeqOfFunction
      <4> QED
        BY <4>1, HeaderArrives, FrameFacts
    <3> HIDE DEF long
    <3>2. Oversized(s2c')
      BY <2>4, <3>1, FrameFacts DEF Oversized
    <3> QED
      BY <2>1, <3>2 DEF ToClient, Oversized, HasLength, Length
  <2>5. CASE s2c' = whole
    <3>1. Carries(s2c', {Garbage}, 1, m)
      BY <2>3, <2>5
    <3> QED
      BY <2>1, <3>1 DEF ToClient, Garbage
  <2>6. CASE s2c' = Header(BodySize)
    <3>1. whole = Frame(Garbage)
      <4>1. Frame(Garbage) \in Seq({Frame(Garbage)[j] : j \in 1..FrameSize})
        BY FrameFacts
      <4> QED
        BY <4>1, ConcatEmptySeq DEF whole, WriteFrame
    <3>2. whole \in Seq(Cells({Garbage})) /\ Len(whole) = FrameSize /\ HeaderSize \in 0..Len(whole)
      BY <2>3, <3>1, FrameFacts DEF Carries
    <3>3. SubSeq(whole, 1, HeaderSize) = Header(BodySize)
      <4>1. SubSeq(whole, 1, HeaderSize) = [i \in 1..HeaderSize |-> whole[i]]
        BY <3>2, FrameFacts
      <4>2. \A i \in 1..HeaderSize : whole[i] = Header(BodySize)[i]
        BY <3>1, FrameFacts
      <4> QED
        BY <4>1, <4>2 DEF Header
    <3>4. Carries(s2c', {Garbage}, 1, m)
      BY <2>3, <2>6, <3>2, <3>3, CutFrames
    <3> QED
      BY <2>1, <3>4 DEF ToClient, Garbage
  <2> QED
    BY <2>1, <2>4, <2>5, <2>6 DEF whole
<1>11. CASE ServeIdentify
  <2>1. /\ server = "Node" /\ open /\ Complete(c2s)
        /\ UNCHANGED <<world, role, wanted, at, received, published, open>>
    BY <1>11 DEF ServeIdentify, client
  <2> DEFINE msg == Identity(Daemon.identity)
  <2>2. server' = server /\ s2c' = WriteFrame(s2c, msg)
    BY <1>11, <2>1, IdentifyArrives DEF ServeIdentify
  <2>3. msg \in Answers /\ msg.type = "identity"
    BY DEF Answers, Identity
  <2> HIDE DEF msg
  <2>4. \E n, m, c : ServerSends(n, m, c)
    BY <1>0, <2>1 DEF ToClient
  <2>5. \E n, m, c : ServerSends(n, m, c)'
    BY <1>0, <2>1, <2>2, <2>3, <2>4, OneMore
  <2> QED
    BY <2>1, <2>2, <2>5 DEF ToClient
<1>12. CASE NodePublishes
  <2>1. /\ server = "Node" /\ open /\ published' = published + 1
        /\ UNCHANGED <<world, role, wanted, at, received, open, server>>
        /\ s2c' = WriteFrame(s2c, Publish(published'))
    BY <1>12 DEF NodePublishes, client
  <2> DEFINE msg == Publish(published')
  <2>2. published' \in Nat /\ msg \in Answers /\ msg.type = "publish"
    BY <1>0, <2>1 DEF Answers, Publish
  <2>3. \E n, m, c : ServerSends(n, m, c)
    BY <1>0, <2>1 DEF ToClient
  <2>4. \E n, m, c : ServerSends(n, m, c)'
    BY <1>0, <2>1, <2>2, <2>3, OneMore
  <2> QED
    BY <2>1, <2>4 DEF ToClient
<1>13. CASE Break
  <2>1. PICK q \in 0..Len(s2c) : s2c' = SubSeq(s2c, 1, q)
    BY <1>13 DEF Break
  <2>2. UNCHANGED <<world, role, wanted, at, server, received, published>> /\ ~open' /\ server \notin {"off", "failed"}
    BY <1>13 DEF Break, client
  <2>3. CASE server = "accept"
    <3>1. s2c = <<>> /\ Len(s2c) = 0 /\ q = 0
      BY <1>0, <2>1, <2>3, EmptySeq DEF ToClient
    <3>2. s2c' = <<>>
      BY <2>1, <3>1
    <3> QED
      BY <1>0, <2>2, <2>3, <3>2 DEF ToClient
  <2>4. CASE server = "refused"
    <3> SUFFICES ASSUME at' = "reply" PROVE \E n, m : Carries(s2c', {Denied}, n, m)
      BY <2>2, <2>4 DEF ToClient, Denied
    <3>1. PICK n, m : Carries(s2c, {Denied}, n, m)
      BY <1>0, <2>2, <2>4 DEF ToClient
    <3> QED
      BY <2>1, <3>1, CutFrames
  <2>5. CASE server \in {"Node", "Lease"}
    <3>1. PICK n, m, c : ServerSends(n, m, c)
      BY <1>0, <2>5 DEF ToClient
    <3>2. Carries(s2c', Answers, n, m)
      BY <2>1, <3>1, CutFrames DEF ServerSends
    <3>3. Answers' = Answers /\ HelloOk(Daemon.rig)' = HelloOk(Daemon.rig)
      BY <2>2, SameDaemon DEF Answers, HelloOk, Identity, Publish
    <3>4. ServerSends(n, m, c)'
      BY <2>2, <3>1, <3>2, <3>3 DEF ServerSends
    <3> QED
      BY <2>2, <2>5, <3>4 DEF ToClient
  <2> QED
    BY <1>0, <2>2, <2>3, <2>4, <2>5 DEF TypeOK
<1> QED
  BY <1>3, <1>4, <1>5, <1>6, <1>7, <1>8, <1>9, <1>10, <1>11, <1>12, <1>13 DEF Next

\* The invariant holds in every state.
LEMMA ConnectInvariant == Spec => []ConnectInv
<1>1. Init => ConnectInv
  BY ConnectInvInit
<1>2. ConnectInv /\ [Next]_vars => ConnectInv'
  BY PlacesNext, ConfiguredNext, MetNext, ToServerNext, ToClientNext, InSequenceNext DEF ConnectInv
<1> QED
  BY <1>1, <1>2, PTL DEF Spec

-----------------------------------------------------------------------------
(***************************************************************************)
(* What it is for.                                                         *)
(***************************************************************************)
\* Every variable of a test process on its way to a node keeps its type.
THEOREM TypeCorrect == Spec => []TypeOK
<1>1. ConnectInv => TypeOK
  BY DEF ConnectInv
<1> QED
  BY <1>1, ConnectInvariant, PTL

\* A node that Rig::assistant returns is one the config means: whatever else
\* listens or is plugged in, and wherever the stream was cut before.
THEOREM NodesAreConfigured == Spec => []NodeIsConfigured
<1>1. ConnectInv => NodeIsConfigured
  <2> SUFFICES ASSUME ConnectInv, at = "node" PROVE NodeIsConfigured
    BY DEF NodeIsConfigured
  <2>0. TypeOK /\ Places /\ Configured /\ Met
    BY DEF ConnectInv
  <2>1. identity.protocol_version = PROTOCOL_VERSION /\ wanted.unique_id \in {None, identity.unique_id}
    BY <2>0 DEF Configured
  <2>2. role = "Node" => /\ identity = Daemon.identity /\ Daemon.token = Token
                         /\ config.rig \in {None, Daemon.rig}
    BY <2>0 DEF Configured, Met
  <2>3. ASSUME role = "Usb"
        PROVE  /\ identity = device.identity
               /\ wanted.serial # None \/ wanted.product # None
               /\ wanted.serial \in {None, device.serial} /\ wanted.product \in {None, device.product}
    <3>1. identity = device.identity /\ MatchesUsb(device, wanted)
      BY <2>0, <2>3 DEF Configured
    <3>2. PICK i \in DOMAIN config.assistants : wanted = config.assistants[i] /\ ~IsNetwork(wanted)
      BY <2>0, <2>3 DEF Configured
    <3>3. Reachable(config.assistants[i])
      BY <2>0, <2>3 DEF Configured, Loads, Validate, config
    <3>4. wanted.serial # None \/ wanted.product # None
      BY <3>2, <3>3 DEF Reachable
    <3> QED
      BY <3>1, <3>4 DEF MatchesUsb
  <2> QED
    BY <2>1, <2>2, <2>3 DEF NodeIsConfigured
<1> QED
  BY <1>1, ConnectInvariant, PTL

\* The handshake: who goes on has met a peer that agrees, and either end then
\* reads the frames of the other from the first one, in order.
THEOREM HandshakesAgree == Spec => []HandshakeAgrees
<1>1. ConnectInv => HandshakeAgrees
  <2> SUFFICES ASSUME ConnectInv PROVE HandshakeAgrees
    OBVIOUS
  <2>0. TypeOK /\ Places /\ Met /\ ToServer /\ ToClient /\ InSequence
    BY DEF ConnectInv
  <2>1. server \in {"Node", "Lease"} => server = role /\ Daemon.token = Token /\ Daemon.version = NET_VERSION
    BY <2>0 DEF Met
  <2>2. server \in {"Node", "Lease"} => (c2s # <<>> => Head(c2s) = Header(BodySize)[1])
    <3>1. CASE server = "Node"
      <4>1. PICK n, m : Carries(c2s, {Identify}, n, m)
        BY <2>0, <3>1 DEF ToServer, Sends
      <4> QED
        BY <4>1, HeadOfFrames
    <3>2. CASE server = "Lease"
      BY <2>0, <3>2 DEF ToServer
    <3> QED
      BY <3>1, <3>2
  <2>3. at \in {"asks", "identify", "identity", "node"} /\ role # "Usb" =>
           server = role /\ (s2c # <<>> => Head(s2c) = Header(BodySize)[1])
    <3> SUFFICES ASSUME at \in {"asks", "identify", "identity", "node"}, role # "Usb"
                 PROVE  server = role /\ (s2c # <<>> => Head(s2c) = Header(BodySize)[1])
      OBVIOUS
    <3>1. server = role /\ server \in {"Node", "Lease"}
      BY <2>0 DEF Met, Places
    <3>2. PICK n, m, c : ServerSends(n, m, c)
      BY <2>0, <3>1 DEF ToClient
    <3> QED
      BY <3>1, <3>2, HeadOfFrames DEF ServerSends
  <2>4. outcome = "denied" => Daemon.token # Token \/ Daemon.version # NET_VERSION
    BY <2>0 DEF Met
  <2>5. received = [n \in DOMAIN received |-> n]
    BY <2>0 DEF InSequence
  <2> QED
    BY <2>1, <2>2, <2>3, <2>4, <2>5 DEF HandshakeAgrees
<1> QED
  BY <1>1, ConnectInvariant, PTL

\* What banc doctor says of a config that loads.
LEMMA DoctorOfLoaded ==
    ASSUME NEW w, Locate(w) = "found", Loads(w)
    PROVE  /\ Doctor(w) # 2 /\ (~AllIsWell(w) => Doctor(w) = 1)
           /\ ~ArbiterAnswers(w) => Doctor(w) = 1 /\ RigStatus(w) = 1
BY DEF Doctor, RigStatus, LoadConfigExit, AllIsWell

\* A node or a lease that a suite cannot use is one banc doctor complains of.
LEMMA DoctorOfUnusable ==
    ASSUME NEW w, Locate(w) = "found", Loads(w)
    PROVE  /\ \A i \in DOMAIN w.config.assistants :
                 LET a == w.config.assistants[i]
                 IN  IsNetwork(a) /\ (~TokenReads(w, a.token_file) \/ ~TcpReach(w, a.addr)) => Doctor(w) = 1
           /\ w.config.lease # None /\ ~LeaseAnswers(w, w.config.lease) => Doctor(w) = 1 /\ RigStatus(w) = 1
           /\ w.config.lease = None /\ w.lock = "unopenable" => Doctor(w) = 1 /\ RigStatus(w) = 1
<1>1. ASSUME NEW i \in DOMAIN w.config.assistants, IsNetwork(w.config.assistants[i]),
             ~TokenReads(w, w.config.assistants[i].token_file) \/ ~TcpReach(w, w.config.assistants[i].addr)
      PROVE  Doctor(w) = 1
  <2>1. ~AssistantOK(w, w.config.assistants[i])
    BY <1>1 DEF AssistantOK
  <2>2. ~AllIsWell(w)
    BY <2>1 DEF AllIsWell
  <2> QED
    BY <2>2, DoctorOfLoaded
<1>2. w.config.lease # None /\ ~LeaseAnswers(w, w.config.lease) => Doctor(w) = 1 /\ RigStatus(w) = 1
  BY DoctorOfLoaded DEF ArbiterAnswers
<1>3. w.config.lease = None /\ w.lock = "unopenable" => Doctor(w) = 1 /\ RigStatus(w) = 1
  BY DoctorOfLoaded DEF ArbiterAnswers, FlockAnswers
<1> QED
  BY <1>1, <1>2, <1>3

\* A process that comes to an end does so in a way doctor foresees.
LEMMA DoctorForeseesNext == ConnectInv /\ DoctorForesees /\ [Next]_vars => DoctorForesees'
<1> SUFFICES ASSUME ConnectInv, DoctorForesees, [Next]_vars PROVE DoctorForesees'
  OBVIOUS
<1> USE DEF Ends, Goes
<1>0. TypeOK /\ Places /\ Configured /\ Met
  BY DEF ConnectInv
<1>1. CASE at' # "over"
  BY <1>1 DEF DoctorForesees
<1>2. CASE UNCHANGED <<world, at, outcome, role, wanted>>
  BY <1>2 DEF DoctorForesees, BeyondDoctor, Daemon, Addr, config
\* Ends of which doctor can say nothing, of a config that loads; and those it reports.
<1>3. CASE world' = world /\ Locate(world) = "found" /\ Loads(world) /\ outcome' # "skip" /\ BeyondDoctor'
  <2>1. Doctor(world) # 2 /\ RigStatus(world) # 2
    BY <1>3 DEF Doctor, RigStatus, LoadConfigExit
  <2> HIDE DEF BeyondDoctor
  <2> QED
    BY <1>3, <2>1 DEF DoctorForesees
<1>4. CASE world' = world /\ outcome' # "skip" /\ Doctor(world) = 1 /\ (role' = "Node" \/ RigStatus(world) = 1)
  <2>1. RigStatus(world) # 2
    BY <1>4 DEF Doctor, RigStatus
  <2> HIDE DEF BeyondDoctor
  <2> QED
    BY <1>4, <2>1 DEF DoctorForesees
<1>5. CASE Acquire
  <2>1. /\ at = "acquire" /\ UNCHANGED <<world, wanted>>
        /\ \/ Locate(world) = "none" /\ outcome' = "skip" /\ role' = role
           \/ Locate(world) = "error" /\ outcome' = "locate" /\ role' = role
           \/ Locate(world) = "found" /\ ~Loads(world) /\ outcome' = "config" /\ role' = role
           \/ /\ Locate(world) = "found" /\ Loads(world) /\ config.lease # None
              /\ ~TokenReads(world, config.lease.token_file) /\ outcome' = "token"
           \/ at' # "over"
    BY <1>5 DEF Acquire
  <2>2. role = "none"
    BY <1>0, <2>1 DEF Places
  <2>3. CASE Locate(world) = "none" /\ outcome' = "skip" /\ role' = role
    <3>1. Doctor(world) = 2 /\ RigStatus(world) = 2
      BY <2>3 DEF Doctor, RigStatus, LoadConfigExit
    <3> QED
      BY <2>1, <2>2, <2>3, <3>1 DEF DoctorForesees
  <2>4. CASE Locate(world) = "error" /\ outcome' = "locate" /\ role' = role
    <3>1. Doctor(world) = 1 /\ RigStatus(world) = 1
      BY <2>4 DEF Doctor, RigStatus, LoadConfigExit
    <3> QED
      BY <1>4, <2>1, <2>4, <3>1
  <2>5. CASE Locate(world) = "found" /\ ~Loads(world) /\ outcome' = "config" /\ role' = role
    <3>1. Doctor(world) = 1 /\ RigStatus(world) = 1
      BY <2>5 DEF Doctor, RigStatus, LoadConfigExit
    <3> QED
      BY <1>4, <2>1, <2>5, <3>1
  <2>6. CASE /\ Locate(world) = "found" /\ Loads(world) /\ config.lease # None
             /\ ~TokenReads(world, config.lease.token_file) /\ outcome' = "token"
    <3>1. ~LeaseAnswers(world, config.lease)
      BY <2>6 DEF LeaseAnswers
    <3>2. Doctor(world) = 1 /\ RigStatus(world) = 1
      BY <2>6, <3>1, DoctorOfUnusable DEF config
    <3> QED
      BY <1>4, <2>1, <2>6, <3>2
  <2> QED
    BY <1>1, <2>1, <2>3, <2>4, <2>5, <2>6
<1>6. CASE at # "acquire" /\ at # "over" /\ world' = world
  <2>1. Locate(world) = "found" /\ Loads(world) /\ world \in Worlds
    BY <1>0, <1>6 DEF Configured
  <2>2. outcome = "none"
    BY <1>0, <1>6 DEF TypeOK
  <2>3. role = "Lease" => config.lease # None
    BY <1>0 DEF Configured
  <2>4. ASSUME role' = role, outcome' = "broken" PROVE DoctorForesees'
    <3>1. CASE role = "Lease" /\ Daemon.stranger
      <4>1. ~LeaseAnswers(world, config.lease) /\ config.lease # None
        BY <2>3, <3>1 DEF LeaseAnswers, Daemon, Addr
      <4>2. Doctor(world) = 1 /\ RigStatus(world) = 1
        BY <2>1, <4>1, DoctorOfUnusable DEF config
      <4> QED
        BY <1>4, <1>6, <2>4, <4>2
    <3>2. CASE ~(role = "Lease" /\ Daemon.stranger)
      <4>1. role' = "Lease" => Daemon' = Daemon
        BY <1>6, <2>4 DEF Daemon, Addr, config
      <4>2. BeyondDoctor' /\ outcome' # "skip"
        BY <2>4, <3>2, <4>1 DEF BeyondDoctor
      <4> QED
        BY <1>3, <1>6, <2>1, <4>2
    <3> QED
      BY <3>1, <3>2
  <2>5. CASE TakeLock
    <3>1. \/ world.lock = "unopenable" /\ outcome' = "lock"
          \/ world.lock = "unmakeable" /\ outcome' = "lock"
          \/ at' # "over"
          \/ outcome' = "timeout"
      BY <2>5 DEF TakeLock
    <3>2. config.lease = None
      BY <1>0, <2>5 DEF TakeLock, Places, Configured
    <3>3. CASE world.lock = "unopenable" /\ outcome' = "lock"
      <4>1. Doctor(world) = 1 /\ RigStatus(world) = 1
        BY <2>1, <3>2, <3>3, DoctorOfUnusable DEF config
      <4> QED
        BY <1>4, <1>6, <3>3, <4>1
    <3>4. CASE (world.lock = "unmakeable" /\ outcome' = "lock") \/ outcome' = "timeout"
      <4>1. BeyondDoctor' /\ outcome' # "skip"
        BY <1>6, <3>4 DEF BeyondDoctor
      <4> QED
        BY <1>3, <1>6, <2>1, <4>1
    <3> QED
      BY <1>1, <3>1, <3>3, <3>4
  <2>6. ASSUME NEW name \in Names, AskFor(name) PROVE DoctorForesees'
    <3>1. \/ outcome' = "unknown"
          \/ at' # "over"
          \/ /\ outcome' = "token" /\ role' = "Node" /\ wanted' # None /\ wanted' = Assistant(config, name)
             /\ IsNetwork(wanted') /\ ~TokenReads(world, wanted'.token_file)
      BY <2>6 DEF AskFor
    <3>2. CASE outcome' = "unknown"
      <4>1. BeyondDoctor' /\ outcome' # "skip"
        BY <3>2 DEF BeyondDoctor
      <4> QED
        BY <1>3, <1>6, <2>1, <4>1
    <3>3. CASE /\ outcome' = "token" /\ role' = "Node" /\ wanted' # None /\ wanted' = Assistant(config, name)
               /\ IsNetwork(wanted') /\ ~TokenReads(world, wanted'.token_file)
      <4>1. PICK i \in DOMAIN config.assistants : wanted' = config.assistants[i]
        BY <2>1, <3>3, AssistantIsListed DEF config, Loads
      <4>2. Doctor(world) = 1
        BY <2>1, <3>3, <4>1, DoctorOfUnusable DEF config
      <4> QED
        BY <1>4, <1>6, <3>3, <4>2
    <3> QED
      BY <1>1, <3>1, <3>2, <3>3
  <2>7. CASE Dial
    <3>1. /\ at = "dial" /\ role' = role /\ wanted' = wanted /\ role \in {"Lease", "Node"}
          /\ at' # "over" \/ (outcome' = "unreachable" /\ ~Connects(world, Addr))
      BY <1>0, <2>7 DEF Dial, Places
    <3>2. CASE role = "Lease" /\ outcome' = "unreachable" /\ ~Connects(world, Addr)
      <4>1. ~LeaseAnswers(world, config.lease) /\ config.lease # None
        BY <1>0, <3>2 DEF LeaseAnswers, Addr, Configured
      <4>2. Doctor(world) = 1 /\ RigStatus(world) = 1
        BY <2>1, <4>1, DoctorOfUnusable DEF config
      <4> QED
        BY <1>4, <1>6, <3>2, <4>2
    <3>3. CASE role = "Node" /\ outcome' = "unreachable" /\ ~Connects(world, Addr)
      <4>1. PICK i \in DOMAIN config.assistants : wanted = config.assistants[i] /\ IsNetwork(wanted)
        BY <1>0, <3>3 DEF Configured
      <4>2. wanted.addr.url \/ ~TcpReach(world, wanted.addr)
        BY <3>3 DEF Connects, TcpReach, Addr
      <4>3. CASE wanted.addr.url
        <5>1. BeyondDoctor' /\ outcome' # "skip"
          BY <3>1, <3>3, <4>3 DEF BeyondDoctor
        <5> QED
          BY <1>3, <1>6, <2>1, <5>1
      <4>4. CASE ~TcpReach(world, wanted.addr)
        <5>1. Doctor(world) = 1
          BY <2>1, <4>1, <4>4, DoctorOfUnusable DEF config
        <5> QED
          BY <1>4, <1>6, <3>1, <3>3, <5>1
      <4> QED
        BY <4>2, <4>3, <4>4
    <3> QED
      BY <1>1, <3>1, <3>2, <3>3
  <2>8. CASE ReadReply
    <3> DEFINE reply == FrameOf(s2c)
    <3>1. /\ at = "reply" /\ Complete(s2c) /\ role' = role
          /\ \/ at' # "over"
             \/ outcome' = "broken"
             \/ outcome' = "wrong_rig"
             \/ outcome' = "denied" /\ reply.type = "denied"
      BY <2>8 DEF ReadReply
    <3>2. reply.type = "denied" => server = "refused"
      BY <3>1, ReplyArrives
    <3> HIDE DEF reply
    <3>3. CASE outcome' = "denied" /\ reply.type = "denied" /\ role = "Lease"
      <4>1. Daemon.token # Token \/ Daemon.version # NET_VERSION
        BY <1>0, <3>2, <3>3 DEF Met
      <4>2. ~LeaseAnswers(world, config.lease) /\ config.lease # None
        BY <2>3, <3>3, <4>1 DEF LeaseAnswers, Daemon, Token, Addr
      <4>3. Doctor(world) = 1 /\ RigStatus(world) = 1
        BY <2>1, <4>2, DoctorOfUnusable DEF config
      <4> QED
        BY <1>4, <1>6, <3>3, <4>3
    <3>4. CASE outcome' = "wrong_rig" \/ (outcome' = "denied" /\ role # "Lease")
      <4>1. role \in {"Lease", "Node"}
        BY <1>0, <3>1 DEF Places
      <4>2. BeyondDoctor' /\ outcome' # "skip"
        BY <3>1, <3>4, <4>1 DEF BeyondDoctor
      <4> QED
        BY <1>3, <1>6, <2>1, <4>2
    <3> QED
      BY <1>1, <2>4, <3>1, <3>3, <3>4
  <2>9. CASE LeaseAnswered \/ OpenUsb \/ SendHello \/ ReadFails \/ SendIdentify \/ IdentifyUsb \/ Receive
    <3>1. role' = role /\ (at' # "over" \/ outcome' \in {"timeout", "broken", "no_device", "protocol", "unique_id"})
      BY <2>2, <2>9
      DEF LeaseAnswered, OpenUsb, SendHello, ReadFails, SendIdentify, IdentifyUsb, Receive, Checked
    <3>2. CASE outcome' \in {"timeout", "no_device", "protocol", "unique_id"}
      <4>1. BeyondDoctor' /\ outcome' # "skip"
        BY <3>2 DEF BeyondDoctor
      <4> QED
        BY <1>3, <1>6, <2>1, <4>1
    <3> QED
      BY <1>1, <2>4, <3>1, <3>2
  <2>10. CASE UNCHANGED client \/ UNCHANGED vars
    BY <1>2, <2>10 DEF client, vars
  <2> QED
    BY <1>6, <2>5, <2>6, <2>7, <2>8, <2>9, <2>10
    DEF Next, Acquire, ServeHello, ServeNothing, StrangerTalks, ServeIdentify, NodePublishes, Break
<1>7. CASE at = "over" \/ UNCHANGED client \/ UNCHANGED vars
  <2>1. UNCHANGED <<world, at, outcome, role, wanted>>
    BY <1>7 DEF Next, client, vars, Acquire, TakeLock, LeaseAnswered, AskFor, OpenUsb, Dial, SendHello, ReadFails,
      ReadReply, SendIdentify, IdentifyUsb, Receive, ServeHello, ServeNothing, StrangerTalks, ServeIdentify,
      NodePublishes, Break
  <2> QED
    BY <1>2, <2>1
<1>8. world' = world
  BY DEF Next, client, vars, Acquire, TakeLock, LeaseAnswered, AskFor, OpenUsb, Dial, SendHello, ReadFails,
    ReadReply, SendIdentify, IdentifyUsb, Receive, ServeHello, ServeNothing, StrangerTalks, ServeIdentify,
    NodePublishes, Break
<1>9. at = "acquire" => Acquire \/ UNCHANGED client \/ UNCHANGED vars
  BY DEF Next, Acquire, TakeLock, LeaseAnswered, AskFor, OpenUsb, Dial, SendHello, ReadFails,
    ReadReply, SendIdentify, IdentifyUsb, Receive, ServeHello, ServeNothing, StrangerTalks, ServeIdentify,
    NodePublishes, Break
<1> QED
  BY <1>5, <1>6, <1>7, <1>8, <1>9

\* A process skips where banc doctor and banc rig status find no rig; and where
\* it ends in any other way doctor fails, but for the ends that BeyondDoctor lists:
\* what only a node's handshake and identity show, USB devices, names, waits,
\* streams that break, URLs, and a lock file that cannot be made.
THEOREM DoctorIsRight == Spec => []DoctorForesees
<1>1. Init => DoctorForesees
  BY DEF Init, DoctorForesees
<1>2. ConnectInv /\ DoctorForesees /\ [Next]_vars => DoctorForesees'
  BY DoctorForeseesNext
<1> QED
  BY <1>1, <1>2, ConnectInvariant, PTL DEF Spec
=============================================================================
