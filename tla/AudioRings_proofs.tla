-------------------------- MODULE AudioRings_proofs -------------------------
(***************************************************************************)
(* Proofs about the two audio paths to PipeWire, MicInput and AudioOutput, *)
(* for every ring, chunk, buffer and quantum size and every number of      *)
(* streams: the promise of a microphone read cannot be forgotten, and each *)
(* ring, with its head, tail and modular arithmetic, is the plain buffer   *)
(* its users are promised.  The two classes have the same ring, so that    *)
(* one set of lemmas serves both.                                          *)
(***************************************************************************)
EXTENDS MicInput, AudioOutput, TLAPS, SequenceTheorems

-----------------------------------------------------------------------------
(* The promise of a read.                                                  *)

LEMMA InitIInv == Init => IInv
BY DEF Init, IInv, ParkedWhileCapturing, NotParkedBesideAChunk

LEMMA SameRing == UNCHANGED ring => UNCHANGED HasChunk(ring)
BY DEF HasChunk, ringUsed

\* The calls of the strand.
LEMMA StrandKeepsIInv ==
  ASSUME IInv, Strand
  PROVE  IInv'
<1> USE DEF IInv, ParkedWhileCapturing, NotParkedBesideAChunk, ringVars
<1>1. CASE Start
  <2>1. UNCHANGED ring /\ strand = "idle"
    BY <1>1 DEF Start
  <2>2. QED
    BY <1>1, <2>1, SameRing DEF Start
<1>2. CASE Read
  <2>1. CASE ~active /\ UNCHANGED <<parked, ring, waiting>>
    BY <1>2, <2>1, SameRing DEF Read
  <2>2. CASE active /\ waiting' = FALSE /\ UNCHANGED parked
    BY <1>2, <2>2 DEF Read
  <2>3. CASE active /\ ~HasChunk(ring) /\ parked' /\ waiting' /\ UNCHANGED ring
    <3>1. ~HasChunk(ring)'
      BY <2>3, SameRing
    <3>2. parked' = TRUE /\ waiting' = TRUE
      BY <1>2, <2>3 DEF Read, Resolves
    <3>3. QED
      BY <1>2, <2>3, <3>1, <3>2 DEF Read
  <2>4. QED
    BY <1>2, <2>1, <2>2, <2>3 DEF Read, Resolves
<1>3. CASE StopClear
  <2>1. UNCHANGED ring
    BY <1>3 DEF StopClear
  <2>2. QED
    BY <1>3, <2>1, SameRing DEF StopClear
<1>4. CASE StopReject
  BY <1>4 DEF StopReject
<1>5. CASE StopDrain
  BY <1>5 DEF StopDrain
<1>6. CASE Open
  <2>1. UNCHANGED <<ring, active, parked, strand, waiting>>
    BY <1>6 DEF Open
  <2>2. QED
    BY <2>1, SameRing
<1>7. QED
  BY <1>1, <1>2, <1>3, <1>4, <1>5, <1>6 DEF Strand

\* A real-time thread, before and under the mutex.
LEMMA ProcessKeepsIInv ==
  ASSUME IInv, NEW s \in 1 .. Streams, Dequeue(s) \/ Process(s)
  PROVE  IInv'
<1> USE DEF IInv, ParkedWhileCapturing, NotParkedBesideAChunk
<1>1. CASE Dequeue(s)
  <2>1. UNCHANGED ring
    BY <1>1 DEF Dequeue, ringVars
  <2>2. QED
    BY <1>1, <2>1, SameRing DEF Dequeue
<1>2. CASE Process(s)
  <2> DEFINE written == ringWrite(ring, block[s])
  <2>1. CASE parked /\ HasChunk(written)
    BY <1>2, <2>1 DEF Process, Fulfil, Resolves
  <2>2. CASE ~(parked /\ HasChunk(written))
    <3>1. ring' = written /\ UNCHANGED <<active, strand, parked, waiting>>
      BY <1>2, <2>2 DEF Process, Fulfil
    <3>2. HasChunk(ring)' = HasChunk(written)
      BY <3>1 DEF HasChunk, ringUsed
    <3>3. NotParkedBesideAChunk'
      BY <2>2, <3>1, <3>2
    <3>4. QED
      BY <3>1, <3>3
  <2>3. QED
    BY <2>1, <2>2
<1>3. QED
  BY <1>1, <1>2

\* IInv holds in every state of every behaviour.
THEOREM Inductive == Spec => []IInv
<1>1. IInv /\ [Next]_vars => IInv'
  <2> SUFFICES ASSUME IInv, [Next]_vars PROVE IInv'
    OBVIOUS
  <2>1. CASE UNCHANGED vars
    <3>1. UNCHANGED <<ring, active, parked, strand, waiting>>
      BY <2>1 DEF vars, ringVars
    <3>2. QED
      BY <3>1, SameRing DEF IInv, ParkedWhileCapturing, NotParkedBesideAChunk
  <2>2. QED
    BY <2>1, StrandKeepsIInv, ProcessKeepsIInv DEF Next, Capture
<1>2. QED
  BY <1>1, InitIInv, PTL DEF Spec

\* A parked read and a chunk that would resolve it are never left together.
THEOREM ParkedReadIsShort == Spec => []NotParkedBesideAChunk
<1>1. IInv => NotParkedBesideAChunk
  BY DEF IInv
<1>2. QED
  BY <1>1, Inductive, PTL

\* No read is open once stop() is back.
THEOREM StopAnswersReads == Spec => []NobodyHangs
<1>1. IInv => NobodyHangs
  BY DEF IInv, ParkedWhileCapturing, NobodyHangs
<1>2. QED
  BY <1>1, Inductive, PTL
-----------------------------------------------------------------------------
(* A ring of C bytes, whatever its users: positions, then contents.        *)

\* Numbers below three times a modulus.
LEMMA ModTwice ==
  ASSUME NEW C \in Nat \ {0}, NEW a \in 0 .. 3 * C - 1
  PROVE  (a % C) = IF a < C THEN a ELSE IF a < 2 * C THEN a - C ELSE a - 2 * C
<1>1. /\ (a % C) \in 0 .. C - 1
      /\ a = C * (a \div C) + (a % C)
      /\ (a \div C) \in Int
  BY Z3
<1>2. (a \div C) \in {0, 1, 2}
  BY <1>1, Z3
<1>3. CASE (a \div C) = 0
  BY <1>1, <1>3
<1>4. CASE (a \div C) = 1
  BY <1>1, <1>4
<1>5. CASE (a \div C) = 2
  BY <1>1, <1>5
<1>6. QED
  BY <1>2, <1>3, <1>4, <1>5

LEMMA ModRange ==
  ASSUME NEW C \in Nat \ {0}, NEW a \in Nat
  PROVE  (a % C) \in 0 .. C - 1
BY Z3

\* A function on 1 .. n is a sequence.
LEMMA FunctionIsSeq ==
  ASSUME NEW S, NEW n \in Nat, NEW f \in [1 .. n -> S]
  PROVE  f \in Seq(S) /\ Len(f) = n
OBVIOUS

\* Bytes between tail and head, and where the cells of a write lie.
UsedOf(C, h, t) == IF h >= t THEN h - t ELSE h + C - t
Wrapped(C, a) == IF a < C THEN a ELSE IF a < 2 * C THEN a - C ELSE a - 2 * C
Dropped(C, u, n) == IF u + n > C - 1 THEN u + n - (C - 1) ELSE 0

\* A write may be longer than the ring, as long as it ends before the head has gone
\* round twice.
LEMMA WriteNumbers ==
  ASSUME NEW C \in Nat \ {0}, NEW h \in 0 .. C - 1, NEW t \in 0 .. C - 1,
         NEW n \in 1 .. 2 * C - h,
         NEW u, u = UsedOf(C, h, t), NEW d, d = Dropped(C, u, n),
         NEW t2, t2 = Wrapped(C, t + d), NEW h2, h2 = Wrapped(C, h + n)
  PROVE  /\ u \in 0 .. C - 1 /\ d \in 0 .. 2 * C /\ t + d \in 0 .. 3 * C - 1
         /\ t2 \in 0 .. C - 1 /\ h2 \in 0 .. C - 1
         /\ u + n - d \in 0 .. C - 1
         /\ UsedOf(C, h2, t2) = u + n - d
<1> USE DEF UsedOf, Wrapped, Dropped
<1>1. u \in 0 .. C - 1 /\ d \in 0 .. 2 * C /\ t + d \in 0 .. 3 * C - 1
  OBVIOUS
<1>2. t2 \in 0 .. C - 1 /\ h2 \in 0 .. C - 1 /\ u + n - d \in 0 .. C - 1
  BY <1>1
<1>3. UsedOf(C, h2, t2) = u + n - d
  BY <1>1, <1>2
<1>4. QED
  BY <1>1, <1>2, <1>3

\* Which byte delivered, counted from 0, lands in cell c: the second part of the copy
\* goes over the first.
SecondPart(C, h, n, c) == c + C - h < n
FirstPart(C, h, n, c) == ~SecondPart(C, h, n, c) /\ c >= h /\ c - h < n

LEMMA WriteCells ==
  ASSUME NEW C \in Nat \ {0}, NEW h \in 0 .. C - 1, NEW t \in 0 .. C - 1,
         NEW n \in 1 .. 2 * C - h,
         NEW u, u = UsedOf(C, h, t), NEW d, d = Dropped(C, u, n),
         NEW t2, t2 = Wrapped(C, t + d),
         NEW i \in 1 .. u + n - d, NEW c, c = Wrapped(C, t2 + i - 1)
  PROVE  /\ c \in 0 .. C - 1
         /\ d + i <= u => /\ ~SecondPart(C, h, n, c) /\ ~FirstPart(C, h, n, c)
                          /\ c = Wrapped(C, t + (d + i) - 1)
         /\ d + i > u => \/ SecondPart(C, h, n, c) /\ c + C - h = d + i - u - 1
                         \/ FirstPart(C, h, n, c) /\ c - h = d + i - u - 1
<1>1. u \in 0 .. C - 1 /\ d \in 0 .. 2 * C /\ t2 \in 0 .. C - 1 /\ u + n - d \in 0 .. C - 1
  BY DEF UsedOf, Wrapped, Dropped
<1> USE DEF UsedOf, Wrapped, Dropped, SecondPart, FirstPart
<1>2. c \in 0 .. C - 1
  BY <1>1
<1>3. ASSUME d + i <= u
      PROVE  /\ ~SecondPart(C, h, n, c) /\ ~FirstPart(C, h, n, c)
             /\ c = Wrapped(C, t + (d + i) - 1)
  BY <1>1, <1>2, <1>3
<1>4. ASSUME d + i > u
      PROVE  \/ SecondPart(C, h, n, c) /\ c + C - h = d + i - u - 1
             \/ FirstPart(C, h, n, c) /\ c - h = d + i - u - 1
  BY <1>1, <1>2, <1>4
<1>5. QED
  BY <1>2, <1>3, <1>4

\* The modular arithmetic of the two rings, kept opaque in what follows.
RestOf(C, a) == a % C
RawUsed(C, h, t) == RestOf(C, h + C - t)
BytesFrom(C, b, t, n) == [i \in 1 .. n |-> b[RestOf(C, t + i - 1)]]
Stretch(W, from, n) == [i \in 1 .. n |-> RestOf(W, from + i - 1)]
CellsAfter(C, W, b, h, n, from) ==
  [i \in 0 .. C - 1 |-> IF i + C - h < n THEN RestOf(W, from + (i + C - h))
                        ELSE IF i >= h /\ i - h < n THEN RestOf(W, from + (i - h))
                        ELSE b[i]]
TailAfter(C, h, t, n) ==
  IF n > C - 1 - RawUsed(C, h, t) THEN RestOf(C, t + n - (C - 1 - RawUsed(C, h, t))) ELSE t

LEMMA RestTwice ==
  ASSUME NEW C \in Nat \ {0}, NEW a \in 0 .. 3 * C - 1
  PROVE  RestOf(C, a) = Wrapped(C, a) /\ Wrapped(C, a) \in 0 .. C - 1
<1>1. (a % C) = IF a < C THEN a ELSE IF a < 2 * C THEN a - C ELSE a - 2 * C
  BY ModTwice
<1>2. QED
  BY <1>1 DEF RestOf, Wrapped

LEMMA RestOnce ==
  ASSUME NEW C \in Nat \ {0}, NEW a \in 0 .. 2 * C - 1
  PROVE  RestOf(C, a) = Wrapped(C, a) /\ Wrapped(C, a) \in 0 .. C - 1
<1>1. a \in 0 .. 3 * C - 1
  OBVIOUS
<1>2. QED
  BY <1>1, RestTwice

LEMMA RestRange ==
  ASSUME NEW W \in Nat \ {0}, NEW a \in Nat
  PROVE  RestOf(W, a) \in 0 .. W - 1
<1>1. (a % W) \in 0 .. W - 1
  BY ModRange
<1>2. QED
  BY <1>1 DEF RestOf

LEMMA UsedBytes ==
  ASSUME NEW C \in Nat \ {0}, NEW h \in 0 .. C - 1, NEW t \in 0 .. C - 1
  PROVE  RawUsed(C, h, t) = UsedOf(C, h, t) /\ UsedOf(C, h, t) \in 0 .. C - 1
<1>1. h + C - t \in 0 .. 2 * C - 1
  OBVIOUS
<1>2. RawUsed(C, h, t) = Wrapped(C, h + C - t)
  BY <1>1, RestOnce DEF RawUsed
<1>3. QED
  BY <1>2 DEF UsedOf, Wrapped

\* The memory of a ring of C bytes.
Cells(C, B) == [0 .. C - 1 -> B]

\* q are the n bytes from the tail on.
IsBytes(C, B, b, t, n, q) ==
  /\ q \in Seq(B) /\ Len(q) = n
  /\ \A i \in 1 .. n : q[i] = b[Wrapped(C, t + i - 1)]

LEMMA BytesFromTail ==
  ASSUME NEW C \in Nat \ {0}, NEW B, NEW b \in Cells(C, B),
         NEW t \in 0 .. C - 1, NEW n \in 0 .. C
  PROVE  IsBytes(C, B, b, t, n, BytesFrom(C, b, t, n))
<1>1. ASSUME NEW i \in 1 .. n
      PROVE  RestOf(C, t + i - 1) = Wrapped(C, t + i - 1) /\ Wrapped(C, t + i - 1) \in 0 .. C - 1
  <2>1. t + i - 1 \in 0 .. 2 * C - 1
    OBVIOUS
  <2>2. QED
    BY <2>1, RestOnce
<1>2. BytesFrom(C, b, t, n) \in [1 .. n -> B]
  BY <1>1 DEF BytesFrom, Cells
<1>3. BytesFrom(C, b, t, n) \in Seq(B) /\ Len(BytesFrom(C, b, t, n)) = n
  BY <1>2, FunctionIsSeq
<1>4. \A i \in 1 .. n : BytesFrom(C, b, t, n)[i] = b[Wrapped(C, t + i - 1)]
  BY <1>1 DEF BytesFrom
<1>5. QED
  BY <1>3, <1>4 DEF IsBytes

\* The positions after a write: what is dropped is what does not fit.
LEMMA WritePositions ==
  ASSUME NEW C \in Nat \ {0}, NEW h \in 0 .. C - 1, NEW t \in 0 .. C - 1, NEW n \in 1 .. 2 * C - h,
         NEW u, u = UsedOf(C, h, t), NEW d, d = Dropped(C, u, n)
  PROVE  /\ RestOf(C, h + n) = Wrapped(C, h + n)
         /\ TailAfter(C, h, t, n) = Wrapped(C, t + d)
         /\ RawUsed(C, RestOf(C, h + n), TailAfter(C, h, t, n)) = u + n - d
<1>1. /\ u \in 0 .. C - 1 /\ d \in 0 .. 2 * C /\ u + n - d \in 0 .. C - 1
      /\ t + d \in 0 .. 3 * C - 1
      /\ Wrapped(C, t + d) \in 0 .. C - 1 /\ Wrapped(C, h + n) \in 0 .. C - 1
      /\ UsedOf(C, Wrapped(C, h + n), Wrapped(C, t + d)) = u + n - d
  BY WriteNumbers
<1>2. RestOf(C, h + n) = Wrapped(C, h + n)
  <2>1. h + n \in 0 .. 3 * C - 1
    OBVIOUS
  <2>2. QED
    BY <2>1, RestTwice
<1>3. RawUsed(C, h, t) = u
  BY UsedBytes
<1>4. TailAfter(C, h, t, n) = Wrapped(C, t + d)
  <2>1. CASE n > C - 1 - u
    <3>1. d = u + n - (C - 1) /\ t + n - (C - 1 - u) = t + d
      BY <1>1, <2>1 DEF Dropped
    <3>2. TailAfter(C, h, t, n) = RestOf(C, t + d)
      BY <1>3, <2>1, <3>1 DEF TailAfter
    <3>3. QED
      BY <1>1, <3>2, RestTwice
  <2>2. CASE ~(n > C - 1 - u)
    <3>1. d = 0
      BY <1>1, <2>2 DEF Dropped
    <3>2. TailAfter(C, h, t, n) = t
      BY <1>3, <2>2 DEF TailAfter
    <3>3. QED
      BY <3>1, <3>2 DEF Wrapped
  <2>3. QED
    BY <2>1, <2>2
<1>5. QED
  BY <1>1, <1>2, <1>4, UsedBytes

\* x is the j-th of the u bytes from t on or, further on, of the bytes delivered.
IsWritten(C, W, b, from, t, u, j, x) ==
  /\ j <= u => x = b[Wrapped(C, t + j - 1)]
  /\ j > u => x = RestOf(W, from + (j - u - 1))

\* What a write leaves in the i-th cell from the new tail.
LEMMA WrittenCell ==
  ASSUME NEW C \in Nat \ {0}, NEW W, NEW b, NEW from,
         NEW h \in 0 .. C - 1, NEW t \in 0 .. C - 1, NEW n \in 1 .. 2 * C - h,
         NEW u, u = UsedOf(C, h, t), NEW d, d = Dropped(C, u, n),
         NEW t2, t2 = Wrapped(C, t + d),
         NEW i \in 1 .. u + n - d, NEW c, c = Wrapped(C, t2 + i - 1), NEW j, j = d + i,
         NEW b2, b2 = CellsAfter(C, W, b, h, n, from)
  PROVE  IsWritten(C, W, b, from, t, u, j, b2[c])
<1>0. u \in 0 .. C - 1 /\ d \in 0 .. 2 * C /\ j - u - 1 = d + i - u - 1
  BY DEF UsedOf, Dropped
<1>1. /\ c \in 0 .. C - 1
      /\ d + i <= u => /\ ~SecondPart(C, h, n, c) /\ ~FirstPart(C, h, n, c)
                       /\ c = Wrapped(C, t + (d + i) - 1)
      /\ d + i > u => \/ SecondPart(C, h, n, c) /\ c + C - h = d + i - u - 1
                      \/ FirstPart(C, h, n, c) /\ c - h = d + i - u - 1
  BY WriteCells
<1>2. b2[c] = IF SecondPart(C, h, n, c) THEN RestOf(W, from + (c + C - h))
              ELSE IF FirstPart(C, h, n, c) THEN RestOf(W, from + (c - h)) ELSE b[c]
  BY <1>1 DEF CellsAfter, SecondPart, FirstPart
<1>3. ASSUME j <= u PROVE b2[c] = b[Wrapped(C, t + j - 1)]
  BY <1>1, <1>2, <1>3
<1>4. ASSUME j > u PROVE b2[c] = RestOf(W, from + (j - u - 1))
  <2>1. CASE SecondPart(C, h, n, c) /\ c + C - h = d + i - u - 1
    <3>1. c + C - h = j - u - 1
      BY <1>0, <2>1
    <3>2. b2[c] = RestOf(W, from + (c + C - h))
      BY <1>2, <2>1
    <3>3. QED
      BY <3>1, <3>2
  <2>2. CASE FirstPart(C, h, n, c) /\ c - h = d + i - u - 1
    <3>1. c - h = j - u - 1 /\ ~SecondPart(C, h, n, c)
      BY <1>0, <2>2 DEF FirstPart
    <3>2. b2[c] = RestOf(W, from + (c - h))
      BY <1>2, <2>2, <3>1
    <3>3. QED
      BY <3>1, <3>2
  <2>3. QED
    BY <1>1, <1>4, <2>1, <2>2
<1>5. QED
  BY <1>3, <1>4 DEF IsWritten

\* The n bytes delivered from position from on, as a sequence.
IsStretch(W, from, n, q) ==
  /\ q \in Seq(0 .. W - 1) /\ Len(q) = n
  /\ \A i \in 1 .. n : q[i] = RestOf(W, from + (i - 1))

LEMMA StretchIsSeq ==
  ASSUME NEW W \in Nat \ {0}, NEW from \in Nat, NEW n \in Nat
  PROVE  IsStretch(W, from, n, Stretch(W, from, n))
<1>1. ASSUME NEW i \in 1 .. n
      PROVE  /\ RestOf(W, from + i - 1) \in 0 .. W - 1
             /\ from + i - 1 = from + (i - 1)
  <2>1. from + i - 1 \in Nat
    OBVIOUS
  <2>2. QED
    BY <2>1, RestRange
<1>2. Stretch(W, from, n) \in [1 .. n -> 0 .. W - 1]
  BY <1>1 DEF Stretch
<1>3. Stretch(W, from, n) \in Seq(0 .. W - 1) /\ Len(Stretch(W, from, n)) = n
  BY <1>2, FunctionIsSeq
<1>4. \A i \in 1 .. n : Stretch(W, from, n)[i] = RestOf(W, from + (i - 1))
  BY <1>1 DEF Stretch
<1>5. QED
  BY <1>3, <1>4 DEF IsStretch

\* q are the l elements of s after the first d; q are the first n elements of s.
IsSuffix(B, s, d, l, q) ==
  q \in Seq(B) /\ Len(q) = l /\ \A i \in 1 .. l : q[i] = s[d + i]
IsPrefix(B, s, n, q) ==
  q \in Seq(B) /\ Len(q) = n /\ \A i \in 1 .. n : q[i] = s[i]

LEMMA Suffix ==
  ASSUME NEW B, NEW s \in Seq(B), NEW m, m = Len(s), NEW d \in 0 .. m,
         NEW l, l = m - d
  PROVE  IsSuffix(B, s, d, l, SubSeq(s, d + 1, m))
<1>2. m \in Nat
  BY LenProperties
<1>3. \A i \in d + 1 .. m : s[i] \in B
  BY <1>2, ElementOfSeq
<1>4. d + 1 \in Int /\ m \in Int
  BY <1>2
<1>5. /\ SubSeq(s, d + 1, m) \in Seq(B)
      /\ Len(SubSeq(s, d + 1, m)) = IF d + 1 <= m THEN m - (d + 1) + 1 ELSE 0
      /\ \A i \in 1 .. m - (d + 1) + 1 : SubSeq(s, d + 1, m)[i] = s[d + 1 + i - 1]
  BY <1>3, <1>4, SubSeqProperties
<1>6. Len(SubSeq(s, d + 1, m)) = m - d
  BY <1>2, <1>5
<1>7. ASSUME NEW i \in 1 .. m - d PROVE SubSeq(s, d + 1, m)[i] = s[d + i]
  <2>1. i \in 1 .. m - (d + 1) + 1 /\ d + 1 + i - 1 = d + i
    BY <1>2
  <2>2. QED
    BY <1>5, <2>1
<1>8. QED
  BY <1>5, <1>6, <1>7 DEF IsSuffix

LEMMA Prefix ==
  ASSUME NEW B, NEW s \in Seq(B), NEW n \in 0 .. Len(s)
  PROVE  IsPrefix(B, s, n, SubSeq(s, 1, n))
<1>1. Len(s) \in Nat
  BY LenProperties
<1>2. \A i \in 1 .. n : s[i] \in B
  BY <1>1, ElementOfSeq
<1>3. /\ SubSeq(s, 1, n) \in Seq(B)
      /\ Len(SubSeq(s, 1, n)) = IF 1 <= n THEN n - 1 + 1 ELSE 0
      /\ \A i \in 1 .. n - 1 + 1 : SubSeq(s, 1, n)[i] = s[1 + i - 1]
  BY <1>1, <1>2, SubSeqProperties
<1>4. ASSUME NEW i \in 1 .. n PROVE SubSeq(s, 1, n)[i] = s[i]
  <2>1. i \in 1 .. n - 1 + 1 /\ 1 + i - 1 = i
    BY <1>1
  <2>2. QED
    BY <1>3, <2>1
<1>5. QED
  BY <1>1, <1>3, <1>4 DEF IsPrefix

\* What is in a ring, oldest first.
Contents(C, b, h, t) == BytesFrom(C, b, t, RawUsed(C, h, t))

LEMMA ContentsIsSeq ==
  ASSUME NEW C \in Nat \ {0}, NEW B, NEW b \in Cells(C, B),
         NEW h \in 0 .. C - 1, NEW t \in 0 .. C - 1, NEW u, u = UsedOf(C, h, t)
  PROVE  IsBytes(C, B, b, t, u, Contents(C, b, h, t))
<1>1. RawUsed(C, h, t) = u /\ u \in 0 .. C - 1
  BY UsedBytes
<1>2. u \in 0 .. C
  BY <1>1
<1>3. IsBytes(C, B, b, t, u, BytesFrom(C, b, t, u))
  BY <1>2, BytesFromTail
<1>4. QED
  BY <1>1, <1>3 DEF Contents

\* The newest C - 1 elements of a sequence.
Kept(C, s) == SubSeq(s, IF Len(s) < C THEN 1 ELSE Len(s) - C + 2, Len(s))

\* What is in the ring with what is delivered behind it; the ring that is left
\* holds the newest of s.
Queued(C, W, b, h, t, from, n) == Contents(C, b, h, t) \o Stretch(W, from, n)

HoldsNewest(C, W, b, h, t, s) ==
  /\ b \in Cells(C, 0 .. W - 1) /\ h \in 0 .. C - 1 /\ t \in 0 .. C - 1
  /\ Contents(C, b, h, t) = Kept(C, s)

\* Writing appends what is delivered and drops the oldest bytes that do not fit.
LEMMA WriteAppends ==
  ASSUME NEW C \in Nat \ {0}, NEW W \in Nat \ {0}, NEW b \in Cells(C, 0 .. W - 1),
         NEW h \in 0 .. C - 1, NEW t \in 0 .. C - 1, NEW n \in 1 .. 2 * C - h, NEW from \in Nat,
         NEW b2, b2 = CellsAfter(C, W, b, h, n, from),
         NEW h2, h2 = RestOf(C, h + n), NEW t2, t2 = TailAfter(C, h, t, n),
         NEW s, s = Queued(C, W, b, h, t, from, n)
  PROVE  HoldsNewest(C, W, b2, h2, t2, s)
<1>1. PICK u : u = UsedOf(C, h, t)
  OBVIOUS
<1>2. PICK d : d = Dropped(C, u, n)
  OBVIOUS
<1>3. /\ u \in 0 .. C - 1 /\ d \in 0 .. 2 * C /\ u + n - d \in 0 .. C - 1
      /\ Wrapped(C, t + d) \in 0 .. C - 1 /\ Wrapped(C, h + n) \in 0 .. C - 1
  BY <1>1, <1>2, WriteNumbers
<1>0. PICK l \in 0 .. C - 1 : l = u + n - d
  BY <1>3
<1>4. h2 = Wrapped(C, h + n) /\ t2 = Wrapped(C, t + d) /\ RawUsed(C, h2, t2) = u + n - d
  BY <1>1, <1>2, WritePositions
<1>5. h2 \in 0 .. C - 1 /\ t2 \in 0 .. C - 1
  BY <1>3, <1>4
<1>6. UsedOf(C, h2, t2) = u + n - d
  BY <1>4, <1>5, UsedBytes
<1>7. b2 \in Cells(C, 0 .. W - 1)
  <2>1. ASSUME NEW i \in 0 .. C - 1 PROVE b2[i] \in 0 .. W - 1
    <3>1. CASE i + C - h < n
      <4>1. from + (i + C - h) \in Nat
        OBVIOUS
      <4>2. b2[i] = RestOf(W, from + (i + C - h))
        BY <3>1 DEF CellsAfter
      <4>3. QED
        BY <4>1, <4>2, RestRange
    <3>2. CASE ~(i + C - h < n) /\ i >= h /\ i - h < n
      <4>1. from + (i - h) \in Nat
        BY <3>2
      <4>2. b2[i] = RestOf(W, from + (i - h))
        BY <3>2 DEF CellsAfter
      <4>3. QED
        BY <4>1, <4>2, RestRange
    <3>3. CASE ~(i + C - h < n) /\ ~(i >= h /\ i - h < n)
      BY <3>3 DEF CellsAfter, Cells
    <3>4. QED
      BY <3>1, <3>2, <3>3
  <2>2. b2 = [i \in 0 .. C - 1 |-> b2[i]]
    BY DEF CellsAfter
  <2>3. QED
    BY <2>1, <2>2 DEF Cells
<1>8. PICK old : old = Contents(C, b, h, t) /\ IsBytes(C, 0 .. W - 1, b, t, u, old)
  BY <1>1, ContentsIsSeq
<1>9. /\ old \in Seq(0 .. W - 1) /\ Len(old) = u
      /\ \A i \in 1 .. u : old[i] = b[Wrapped(C, t + i - 1)]
  BY <1>8 DEF IsBytes
<1>10. PICK new : new = Contents(C, b2, h2, t2) /\ IsBytes(C, 0 .. W - 1, b2, t2, l, new)
  BY <1>0, <1>5, <1>6, <1>7, ContentsIsSeq
<1>11. /\ new \in Seq(0 .. W - 1) /\ Len(new) = l
       /\ \A i \in 1 .. l : new[i] = b2[Wrapped(C, t2 + i - 1)]
  BY <1>10 DEF IsBytes
<1>12. PICK st : st = Stretch(W, from, n) /\ IsStretch(W, from, n, st)
  <2>1. n \in Nat
    OBVIOUS
  <2>2. QED
    BY <2>1, StretchIsSeq
<1>13. /\ st \in Seq(0 .. W - 1) /\ Len(st) = n
       /\ \A i \in 1 .. n : st[i] = RestOf(W, from + (i - 1))
  BY <1>12 DEF IsStretch
<1>14. s = old \o st
  BY <1>8, <1>12 DEF Queued
<1>15. /\ s \in Seq(0 .. W - 1) /\ Len(s) = u + n
       /\ \A j \in 1 .. u + n : s[j] = IF j <= u THEN old[j] ELSE st[j - u]
  <2>1. /\ old \o st \in Seq(0 .. W - 1) /\ Len(old \o st) = Len(old) + Len(st)
        /\ \A j \in 1 .. Len(old) + Len(st) :
             (old \o st)[j] = IF j <= Len(old) THEN old[j] ELSE st[j - Len(old)]
    BY <1>9, <1>13, ConcatProperties
  <2>2. QED
    BY <1>9, <1>13, <1>14, <2>1
<1>16. (IF u + n < C THEN 1 ELSE u + n - C + 2) = d + 1 /\ d \in 0 .. u + n
  BY <1>2, <1>3 DEF Dropped
<1>17. PICK q : q = SubSeq(s, d + 1, u + n) /\ IsSuffix(0 .. W - 1, s, d, l, q)
  <2>1. PICK m \in Nat : m = u + n
    BY <1>3
  <2>2. s \in Seq(0 .. W - 1) /\ m = Len(s)
    BY <1>15, <2>1
  <2>3. d \in 0 .. m /\ l = m - d
    BY <1>0, <1>3, <1>16, <2>1
  <2>4. IsSuffix(0 .. W - 1, s, d, l, SubSeq(s, d + 1, m))
    BY <2>2, <2>3, Suffix
  <2>5. QED
    BY <2>1, <2>4
<1>18. q \in Seq(0 .. W - 1) /\ Len(q) = l /\ \A i \in 1 .. l : q[i] = s[d + i]
  BY <1>17 DEF IsSuffix
<1>19. ASSUME NEW i \in 1 .. l PROVE new[i] = q[i]
  <2>1. PICK c : c = Wrapped(C, t2 + i - 1)
    OBVIOUS
  <2>2. PICK j : j = d + i /\ IsWritten(C, W, b, from, t, u, j, b2[c])
    BY <1>0, <1>1, <1>2, <1>4, <2>1, WrittenCell
  <2>3. new[i] = b2[c] /\ q[i] = s[j]
    BY <1>11, <1>18, <2>1, <2>2
  <2>4. j \in 1 .. u + n
    BY <1>0, <1>3, <2>2
  <2>5. CASE j <= u
    <3>1. j \in 1 .. u
      BY <1>3, <2>4, <2>5
    <3>2. s[j] = old[j] /\ old[j] = b[Wrapped(C, t + j - 1)]
      BY <1>9, <1>15, <2>4, <2>5, <3>1
    <3>3. b2[c] = b[Wrapped(C, t + j - 1)]
      BY <2>2, <2>5 DEF IsWritten
    <3>4. QED
      BY <2>3, <3>2, <3>3
  <2>6. CASE j > u
    <3>1. PICK k \in 1 .. n : k = j - u /\ ~(j <= u)
      BY <1>3, <2>4, <2>6
    <3>2. s[j] = st[k]
      BY <1>15, <2>4, <3>1
    <3>3. st[k] = RestOf(W, from + (k - 1))
      BY <1>13
    <3>4. b2[c] = RestOf(W, from + (k - 1))
      BY <2>2, <2>6, <3>1 DEF IsWritten
    <3>5. QED
      BY <2>3, <3>2, <3>3, <3>4
  <2>7. QED
    BY <1>3, <2>4, <2>5, <2>6
<1>20. new = q
  BY <1>11, <1>18, <1>19, SeqEqual
<1>21. Contents(C, b2, h2, t2) = Kept(C, s)
  <2>1. Len(s) = u + n
    BY <1>15
  <2>2. (IF Len(s) < C THEN 1 ELSE Len(s) - C + 2) = d + 1
    BY <1>3, <1>16, <2>1
  <2>3. QED
    BY <1>10, <1>17, <1>20, <2>1, <2>2, Zenon DEF Kept
<1>22. QED
  BY <1>5, <1>7, <1>21 DEF HoldsNewest

\* The n bytes read are the front of s, and the ring with the new tail holds the
\* rest of it.
IsTaken(C, b, h, t, n, t2, s) ==
  /\ t2 \in 0 .. C - 1 /\ Len(s) = RawUsed(C, h, t)
  /\ BytesFrom(C, b, t, n) = SubSeq(s, 1, n)
  /\ Contents(C, b, h, t2) = SubSeq(s, n + 1, Len(s))

\* Reading takes bytes from the front.
LEMMA ReadTakes ==
  ASSUME NEW C \in Nat \ {0}, NEW B, NEW b \in Cells(C, B),
         NEW h \in 0 .. C - 1, NEW t \in 0 .. C - 1, NEW n \in 0 .. RawUsed(C, h, t),
         NEW t2, t2 = RestOf(C, t + n),
         NEW s, s = Contents(C, b, h, t)
  PROVE  IsTaken(C, b, h, t, n, t2, s)
<1>1. PICK u : u = UsedOf(C, h, t)
  OBVIOUS
<1>2. RawUsed(C, h, t) = u /\ u \in 0 .. C - 1
  BY <1>1, UsedBytes
<1>3. n \in 0 .. u /\ n \in 0 .. C
  BY <1>2
<1>4. t2 = Wrapped(C, t + n)
  <2>1. t + n \in 0 .. 2 * C - 1
    BY <1>3
  <2>2. QED
    BY <2>1, RestOnce
<1>5. t2 \in 0 .. C - 1 /\ UsedOf(C, h, t2) = u - n
  BY <1>1, <1>2, <1>3, <1>4 DEF Wrapped, UsedOf
<1>6. IsBytes(C, B, b, t, u, s)
  BY <1>1, ContentsIsSeq
<1>7. PICK taken : taken = BytesFrom(C, b, t, n) /\ IsBytes(C, B, b, t, n, taken)
  BY <1>3, BytesFromTail
<1>8. taken \in Seq(B) /\ Len(taken) = n /\ \A i \in 1 .. n : taken[i] = b[Wrapped(C, t + i - 1)]
  BY <1>7 DEF IsBytes
<1>9. PICK new : new = Contents(C, b, h, t2) /\ IsBytes(C, B, b, t2, u - n, new)
  BY <1>5, ContentsIsSeq
<1>10. /\ new \in Seq(B) /\ Len(new) = u - n
       /\ \A i \in 1 .. u - n : new[i] = b[Wrapped(C, t2 + i - 1)]
  BY <1>9 DEF IsBytes
<1>14. s \in Seq(B) /\ Len(s) = u /\ \A i \in 1 .. u : s[i] = b[Wrapped(C, t + i - 1)]
  BY <1>6 DEF IsBytes
<1>11. n \in 0 .. Len(s)
  BY <1>3, <1>14
<1>12. taken = SubSeq(s, 1, n)
  <2>1. PICK q : q = SubSeq(s, 1, n) /\ IsPrefix(B, s, n, q)
    BY <1>11, <1>14, Prefix
  <2>2. q \in Seq(B) /\ Len(q) = n /\ \A i \in 1 .. n : q[i] = s[i]
    BY <2>1 DEF IsPrefix
  <2>3. ASSUME NEW i \in 1 .. n PROVE taken[i] = q[i]
    <3>1. i \in 1 .. u
      BY <1>2, <1>3
    <3>2. QED
      BY <1>8, <1>14, <2>2, <3>1
  <2>4. QED
    BY <1>8, <2>1, <2>2, <2>3, SeqEqual
<1>13. new = SubSeq(s, n + 1, Len(s))
  <2>1. PICK q : q = SubSeq(s, n + 1, u) /\ IsSuffix(B, s, n, u - n, q)
    BY <1>11, <1>14, Suffix
  <2>2. q \in Seq(B) /\ Len(q) = u - n /\ \A i \in 1 .. u - n : q[i] = s[n + i]
    BY <2>1 DEF IsSuffix
  <2>3. ASSUME NEW i \in 1 .. u - n PROVE new[i] = q[i]
    <3>1. n + i \in 1 .. u
      BY <1>2, <1>3
    <3>2. Wrapped(C, t + (n + i) - 1) = Wrapped(C, t2 + i - 1)
      BY <1>2, <1>3, <1>4 DEF Wrapped
    <3>3. s[n + i] = b[Wrapped(C, t + (n + i) - 1)]
      BY <1>14, <3>1
    <3>4. QED
      BY <1>10, <2>2, <3>2, <3>3
  <2>4. QED
    BY <1>10, <1>14, <2>1, <2>2, <2>3, SeqEqual
<1>15. QED
  BY <1>2, <1>5, <1>7, <1>9, <1>12, <1>13, <1>14 DEF IsTaken

\* A ring with head and tail at the start is empty.
LEMMA NothingBuffered ==
  ASSUME NEW C \in Nat \ {0}, NEW b
  PROVE  Contents(C, b, 0, 0) = <<>>
<1>1. RawUsed(C, 0, 0) = 0
  <2>1. 0 \in 0 .. C - 1
    OBVIOUS
  <2>2. QED
    BY <2>1, UsedBytes DEF UsedOf
<1>2. PICK q : q = Contents(C, b, 0, 0)
  OBVIOUS
<1>6. q = [i \in 1 .. 0 |-> b[RestOf(C, 0 + i - 1)]]
  BY <1>1, <1>2 DEF Contents, BytesFrom
<1>3. q \in [1 .. 0 -> {}]
  BY <1>6
<1>4. q \in Seq({}) /\ Len(q) = 0
  BY <1>3, FunctionIsSeq
<1>5. QED
  BY <1>2, <1>4, EmptySeq
-----------------------------------------------------------------------------
(* The ring of the two classes, in terms of the lemmas above.              *)

LEMMA RingSizes == Cap \in Nat \ {0} /\ Wrap \in Nat \ {0}
BY RingAssumption

\* The bytes buffered.
Buffered(r) == Oldest(r, ringUsed(r))

LEMMA RingViews ==
  ASSUME NEW r, NEW n
  PROVE  /\ ringUsed(r) = RawUsed(Cap, r.head, r.tail)
         /\ Oldest(r, n) = BytesFrom(Cap, r.bytes, r.tail, n)
         /\ Buffered(r) = Contents(Cap, r.bytes, r.head, r.tail)
<1>1. ringUsed(r) = RawUsed(Cap, r.head, r.tail)
  BY DEF ringUsed, RawUsed, RestOf
<1>2. ASSUME NEW k PROVE Oldest(r, k) = BytesFrom(Cap, r.bytes, r.tail, k)
  BY DEF Oldest, BytesFrom, RestOf
<1>3. QED
  BY <1>1, <1>2 DEF Buffered, Contents

LEMMA WriteView ==
  ASSUME NEW r, NEW n
  PROVE  ringWrite(r, n) = [bytes |-> CellsAfter(Cap, Wrap, r.bytes, r.head, n, next),
                            head  |-> RestOf(Cap, r.head + n),
                            tail  |-> TailAfter(Cap, r.head, r.tail, n)]
BY DEF ringWrite, TailAfterWrite, ringFree, ringUsed, Index,
       CellsAfter, TailAfter, RawUsed, RestOf

\* The bytes, head and tail of a ring are in range.
LEMMA RingParts ==
  ASSUME NEW r \in Rings
  PROVE  /\ r.bytes \in Cells(Cap, 0 .. Wrap - 1)
         /\ r.head \in 0 .. Cap - 1 /\ r.tail \in 0 .. Cap - 1
         /\ r = [bytes |-> r.bytes, head |-> r.head, tail |-> r.tail]
BY DEF Rings, Index, Cells

\* What is written ends up behind what is buffered; the newest bytes stay.
LEMMA RingWrites ==
  ASSUME NEW r \in Rings, next \in 0 .. Wrap - 1, NEW n \in 1 .. 2 * Cap - r.head
  PROVE  /\ ringWrite(r, n) \in Rings
         /\ Buffered(ringWrite(r, n)) = Kept(Cap, Buffered(r) \o Stretch(Wrap, next, n))
<1>1. Cap \in Nat \ {0} /\ Wrap \in Nat \ {0} /\ next \in Nat
  BY RingSizes
<1>2. PICK b \in Cells(Cap, 0 .. Wrap - 1) : b = r.bytes
  BY RingParts
<1>3. PICK h \in 0 .. Cap - 1 : h = r.head
  BY RingParts
<1>4. PICK t \in 0 .. Cap - 1 : t = r.tail
  BY RingParts
<1>5. PICK w : w = ringWrite(r, n)
  OBVIOUS
<1>6. PICK b2, h2, t2 : /\ w = [bytes |-> b2, head |-> h2, tail |-> t2]
                        /\ b2 = CellsAfter(Cap, Wrap, b, h, n, next)
                        /\ h2 = RestOf(Cap, h + n) /\ t2 = TailAfter(Cap, h, t, n)
  BY <1>2, <1>3, <1>4, <1>5, WriteView
<1>7. PICK s : s = Queued(Cap, Wrap, b, h, t, next, n)
  OBVIOUS
<1>8. HoldsNewest(Cap, Wrap, b2, h2, t2, s)
  <2>1. n \in 1 .. 2 * Cap - h
    BY <1>3
  <2>2. QED
    BY <1>1, <1>2, <1>3, <1>4, <1>6, <1>7, <2>1, WriteAppends
<1>9. w \in Rings
  BY <1>6, <1>8 DEF HoldsNewest, Rings, Index, Cells
<1>10. s = Buffered(r) \o Stretch(Wrap, next, n)
  BY <1>2, <1>3, <1>4, <1>7, RingViews DEF Queued
<1>11. w.bytes = b2 /\ w.head = h2 /\ w.tail = t2
  BY <1>6
<1>12. Buffered(w) = Kept(Cap, s)
  BY <1>8, <1>11, RingViews DEF HoldsNewest
<1>13. QED
  BY <1>5, <1>9, <1>10, <1>12

\* The first k bytes of s are read, the rest stays.
IsRead(r, n, s, k) ==
  /\ ringRead(r, n) \in Rings
  /\ Oldest(r, k) = SubSeq(s, 1, k)
  /\ Buffered(ringRead(r, n)) = SubSeq(s, k + 1, Len(s))

\* As many bytes as are asked for, or all there are, are taken from the front.
LEMMA RingReads ==
  ASSUME NEW r \in Rings, NEW n \in Nat \ {0}, NEW s, s = Buffered(r),
         NEW k, k = IF n < Len(s) THEN n ELSE Len(s)
  PROVE  k = toRead(r, n) /\ Len(s) = ringUsed(r) /\ IsRead(r, n, s, k)
<1>1. Cap \in Nat \ {0}
  BY RingSizes
<1>2. PICK b \in Cells(Cap, 0 .. Wrap - 1) : b = r.bytes
  BY RingParts
<1>3. PICK h \in 0 .. Cap - 1 : h = r.head
  BY RingParts
<1>4. PICK t \in 0 .. Cap - 1 : t = r.tail
  BY RingParts
<1>5. PICK u \in 0 .. Cap - 1 : u = RawUsed(Cap, h, t) /\ u = UsedOf(Cap, h, t)
  BY <1>1, UsedBytes
<1>6. PICK m : m = IF n < u THEN n ELSE u
  OBVIOUS
<1>7. ringUsed(r) = u
  BY <1>3, <1>4, <1>5, RingViews
<1>8. m \in 0 .. RawUsed(Cap, h, t) /\ toRead(r, n) = m
  BY <1>5, <1>6, <1>7 DEF toRead
<1>9. PICK t2 : t2 = RestOf(Cap, t + m)
  OBVIOUS
<1>10. s = Contents(Cap, b, h, t)
  BY <1>2, <1>3, <1>4, RingViews
<1>11. IsTaken(Cap, b, h, t, m, t2, s)
  BY <1>1, <1>2, <1>3, <1>4, <1>8, <1>9, <1>10, ReadTakes
<1>12. /\ t2 \in 0 .. Cap - 1 /\ Len(s) = u
       /\ BytesFrom(Cap, b, t, m) = SubSeq(s, 1, m)
       /\ Contents(Cap, b, h, t2) = SubSeq(s, m + 1, Len(s))
  BY <1>5, <1>11 DEF IsTaken
<1>13. k = m
  BY <1>6, <1>12
<1>14. PICK w : w = ringRead(r, n)
  OBVIOUS
<1>15. w = [bytes |-> b, head |-> h, tail |-> t2]
  <2>1. w = [r EXCEPT !.tail = RestOf(Cap, @ + m)]
    BY <1>8, <1>14 DEF ringRead, RestOf
  <2>2. r = [bytes |-> b, head |-> h, tail |-> t]
    BY <1>2, <1>3, <1>4, RingParts
  <2>3. QED
    BY <1>9, <2>1, <2>2
<1>16. w \in Rings
  BY <1>12, <1>15 DEF Rings, Index, Cells
<1>17. Oldest(r, m) = BytesFrom(Cap, b, t, m)
  BY <1>2, <1>4, RingViews
<1>18. Buffered(w) = Contents(Cap, b, h, t2)
  <2>1. w.bytes = b /\ w.head = h /\ w.tail = t2
    BY <1>15
  <2>2. QED
    BY <2>1, RingViews
<1>19. QED
  BY <1>7, <1>8, <1>12, <1>13, <1>14, <1>16, <1>17, <1>18 DEF IsRead

\* A ring that was emptied.
LEMMA RingEmpty ==
  ASSUME NEW r, r.head = 0, r.tail = 0
  PROVE  Buffered(r) = <<>>
<1>1. Contents(Cap, r.bytes, 0, 0) = <<>>
  BY RingSizes, NothingBuffered
<1>2. QED
  BY <1>1, RingViews

LEMMA RingDrained ==
  ASSUME NEW r \in Rings, NEW w, w = [r EXCEPT !.head = 0, !.tail = 0]
  PROVE  w \in Rings /\ Buffered(w) = <<>>
<1>1. 0 \in Index
  BY RingSizes DEF Index
<1>2. w.head = 0 /\ w.tail = 0 /\ w \in Rings
  BY <1>1 DEF Rings
<1>3. QED
  BY <1>2, RingEmpty

\* The buffer a step leaves is that of the ring it leaves.
LEMMA BufferedNext ==
  ASSUME NEW r, ring' = r
  PROVE  Oldest(ring, ringUsed(ring))' = Buffered(r)
BY DEF Buffered, Oldest, ringUsed

LEMMA RingStarts ==
  ASSUME RingInit
  PROVE  /\ ring \in Rings /\ Buffered(ring) = <<>>
         /\ next = 0 /\ next \in 0 .. Wrap - 1 /\ out = <<>>
<1>1. /\ ring = [bytes |-> [i \in 0 .. Cap - 1 |-> 0], head |-> 0, tail |-> 0]
      /\ next = 0 /\ out = <<>>
  BY DEF RingInit, Index
<1>2. 0 \in 0 .. Cap - 1 /\ 0 \in 0 .. Wrap - 1
  BY RingSizes
<1>3. [i \in 0 .. Cap - 1 |-> 0] \in [0 .. Cap - 1 -> 0 .. Wrap - 1]
  BY <1>2
<1>4. ring \in Rings
  BY <1>1, <1>2, <1>3 DEF Rings, Index
<1>5. Buffered(ring) = <<>>
  BY <1>1, RingEmpty
<1>6. QED
  BY <1>1, <1>2, <1>4, <1>5

\* Positions in the stream stay below Wrap.
LEMMA PositionMoves ==
  ASSUME next \in 0 .. Wrap - 1, NEW n \in Nat
  PROVE  (next + n) % Wrap \in 0 .. Wrap - 1
<1>1. next + n \in Nat /\ Wrap \in Nat \ {0}
  BY RingSizes
<1>2. RestOf(Wrap, next + n) \in 0 .. Wrap - 1
  BY <1>1, RestRange
<1>3. QED
  BY <1>2 DEF RestOf
-----------------------------------------------------------------------------
(* The microphone's ring is the buffer of AudioFifo.                       *)

LEMMA BlockSizes == Chunk \in 1 .. Cap /\ \A n \in Blocks : n \in 1 .. Cap
BY MicAssumption, RingSizes

\* What makes the ring a ring: its indices, bytes and block sizes are in range.
RingOK ==
  /\ ring \in Rings /\ next \in 0 .. Wrap - 1
  /\ block \in [1 .. Streams -> Blocks \cup {0}]

\* A block from PipeWire ends up behind what is buffered.
LEMMA BlockWritten ==
  ASSUME NEW r \in Rings, next \in 0 .. Wrap - 1, NEW n \in Blocks
  PROVE  /\ ringWrite(r, n) \in Rings
         /\ Buffered(ringWrite(r, n)) = Fifo!Newest(Buffered(r) \o Fifo!Stream(next, n))
<1>1. n \in 1 .. 2 * Cap - r.head
  <2>1. Cap \in Nat \ {0} /\ n \in 1 .. Cap /\ r.head \in 0 .. Cap - 1
    BY BlockSizes, RingSizes, RingParts
  <2>2. QED
    BY <2>1
<1>2. Fifo!Stream(next, n) = Stretch(Wrap, next, n)
  BY DEF Fifo!Stream, Stretch, RestOf
<1>3. \A s : Fifo!Newest(s) = Kept(Cap, s)
  BY DEF Fifo!Newest, Kept
<1>4. QED
  BY <1>1, <1>2, <1>3, RingWrites

\* A resolved read takes its chunk from the buffer.
LEMMA ResolvesHandsOut ==
  ASSUME NEW r \in Rings, Resolves(r)
  PROVE  ring' \in Rings /\ Fifo!HandOut(Buffered(r))
<1>1. HasChunk(r) /\ out' = Oldest(r, Chunk) /\ ring' = ringRead(r, Chunk)
  BY DEF Resolves
<1>2. PICK w : w = ringRead(r, Chunk)
  OBVIOUS
<1>3. PICK s : s = Buffered(r)
  OBVIOUS
<1>4. PICK k : k = IF Chunk < Len(s) THEN Chunk ELSE Len(s)
  OBVIOUS
<1>5. Chunk \in Nat \ {0} /\ Cap \in Nat \ {0}
  BY BlockSizes, RingSizes
<1>6. Len(s) = ringUsed(r) /\ IsRead(r, Chunk, s, k)
  BY <1>3, <1>4, <1>5, RingReads
<1>7. ringUsed(r) \in Nat
  <2>1. PICK h \in 0 .. Cap - 1 : h = r.head
    BY RingParts
  <2>2. PICK t \in 0 .. Cap - 1 : t = r.tail
    BY RingParts
  <2>3. RawUsed(Cap, h, t) \in 0 .. Cap - 1
    BY <1>5, UsedBytes
  <2>4. QED
    BY <2>1, <2>2, <2>3, RingViews
<1>8. k = Chunk /\ Len(s) >= Chunk
  BY <1>1, <1>4, <1>5, <1>6, <1>7 DEF HasChunk
<1>9. /\ w \in Rings /\ Oldest(r, Chunk) = SubSeq(s, 1, Chunk)
      /\ Buffered(w) = SubSeq(s, Chunk + 1, Len(s))
  BY <1>2, <1>6, <1>8 DEF IsRead
<1>10. Oldest(ring, ringUsed(ring))' = Buffered(w)
  BY <1>1, <1>2, BufferedNext
<1>11. Fifo!HandOut(s)
  BY <1>1, <1>8, <1>9, <1>10 DEF Fifo!HandOut
<1>12. QED
  BY <1>1, <1>2, <1>3, <1>9, <1>11

LEMMA InitFifo == Init => RingOK /\ Fifo!Init
<1> SUFFICES ASSUME Init PROVE RingOK /\ Fifo!Init
  OBVIOUS
<1>1. RingInit /\ block \in [1 .. Streams -> Blocks \cup {0}]
  BY DEF Init
<1>2. /\ ring \in Rings /\ Buffered(ring) = <<>>
      /\ next = 0 /\ next \in 0 .. Wrap - 1 /\ out = <<>>
  BY <1>1, RingStarts
<1>3. QED
  BY <1>1, <1>2 DEF RingOK, Fifo!Init, Buffered

\* Every step is a step of the buffer or leaves it as it is.
LEMMA StepsFifo ==
  ASSUME RingOK, [Next]_vars
  PROVE  RingOK' /\ [Fifo!Next]_(Fifo!fifoVars)
<1> USE DEF RingOK
<1>1. CASE UNCHANGED <<ring, next, out>> /\ (UNCHANGED block \/ \E s \in 1 .. Streams : Dequeue(s))
  <2>1. block' \in [1 .. Streams -> Blocks \cup {0}]
    BY <1>1 DEF Dequeue
  <2>2. UNCHANGED Fifo!fifoVars
    BY <1>1 DEF Fifo!fifoVars, Oldest, ringUsed
  <2>3. QED
    BY <1>1, <2>1, <2>2
<1>2. CASE Read
  <2>1. UNCHANGED <<next, block>>
    BY <1>2 DEF Read
  <2>2. CASE Resolves(ring)
    <3>1. ring' \in Rings /\ Fifo!HandOut(Buffered(ring))
      BY <2>2, ResolvesHandsOut
    <3>2. Fifo!Get
      BY <2>1, <3>1 DEF Fifo!Get, Buffered
    <3>3. QED
      BY <2>1, <3>1, <3>2 DEF Fifo!Next
  <2>3. CASE UNCHANGED <<ring, out>>
    BY <1>1, <2>1, <2>3
  <2>4. QED
    BY <1>2, <2>2, <2>3 DEF Read
<1>3. CASE StopDrain
  <2>1. UNCHANGED <<next, block, out>> /\ ring' = [ring EXCEPT !.head = 0, !.tail = 0]
    BY <1>3 DEF StopDrain
  <2>2. PICK w : w = [ring EXCEPT !.head = 0, !.tail = 0] /\ w \in Rings /\ Buffered(w) = <<>>
    BY RingDrained
  <2>3. Oldest(ring, ringUsed(ring))' = <<>>
    BY <2>1, <2>2, BufferedNext
  <2>4. Fifo!Drain
    BY <2>1, <2>3 DEF Fifo!Drain
  <2>5. QED
    BY <2>1, <2>2, <2>4 DEF Fifo!Next
<1>4. CASE Capture
  <2>1. PICK s \in 1 .. Streams : Process(s)
    BY <1>4 DEF Capture
  <2>2. PICK n \in Blocks : n = block[s]
    <3>1. block[s] \in Blocks \cup {0} /\ block[s] > 0
      BY <2>1 DEF Process
    <3>2. QED
      BY <3>1
  <2>3. PICK r : r = ringWrite(ring, n)
    OBVIOUS
  <2>4. Fulfil(r) /\ next' = (next + n) % Wrap /\ block' = [block EXCEPT ![s] = 0]
    BY <2>1, <2>2, <2>3 DEF Process
  <2>5. PICK q : q = Fifo!Newest(Buffered(ring) \o Fifo!Stream(next, n))
    OBVIOUS
  <2>6. r \in Rings /\ Buffered(r) = q
    BY <2>2, <2>3, <2>5, BlockWritten
  <2>7. next' \in 0 .. Wrap - 1
    BY <2>2, <2>4, BlockSizes, PositionMoves
  <2>8. block' \in [1 .. Streams -> Blocks \cup {0}]
    BY <2>4
  <2>9. ring' \in Rings /\ (Fifo!HandOut(q) \/ (Oldest(ring, ringUsed(ring))' = q /\ UNCHANGED out))
    <3>1. CASE Resolves(r)
      BY <2>6, <3>1, ResolvesHandsOut
    <3>2. CASE ring' = r /\ UNCHANGED out
      <4>1. Oldest(ring, ringUsed(ring))' = Buffered(r)
        BY <3>2, BufferedNext
      <4>2. QED
        BY <2>6, <3>2, <4>1
    <3>3. QED
      BY <2>4, <3>1, <3>2 DEF Fulfil
  <2>10. Fifo!Put
    BY <2>2, <2>4, <2>5, <2>9 DEF Fifo!Put, Buffered
  <2>11. QED
    BY <2>7, <2>8, <2>9, <2>10 DEF Fifo!Next
<1>5. QED
  BY <1>1, <1>2, <1>3, <1>4
  DEF Next, Strand, Open, Start, StopClear, StopReject, Dequeue, vars, ringVars

\* The ring with its head, tail and modular arithmetic hands out what was
\* captured, in order and once (PipeWireAudioInput::ringWrite, ringRead).
THEOREM RingIsFifo == Spec => ImplementsFifo
<1>1. Init => RingOK /\ Fifo!Init
  BY InitFifo
<1>2. RingOK /\ [Next]_vars => RingOK' /\ [Fifo!Next]_(Fifo!fifoVars)
  BY StepsFifo
<1>3. QED
  BY <1>1, <1>2, PTL DEF Spec, ImplementsFifo, Fifo!Spec
-----------------------------------------------------------------------------
(* The output's ring is the buffer of PlaybackBuffer.                      *)

LEMMA BufferSizes == (\A n \in Buffers : n \in Nat \ {0}) /\ (\A n \in Quanta : n \in Nat \ {0})
BY OutputAssumption

\* What the phone writes ends up behind what is waiting to be played.
LEMMA BufferWritten ==
  ASSUME NEW r \in Rings, next \in 0 .. Wrap - 1, NEW n \in Buffers,
         ~(r.head + n > 2 * Cap)
  PROVE  /\ ringWrite(r, n) \in Rings
         /\ Buffered(ringWrite(r, n)) = Buffer!Latest(Buffered(r) \o Buffer!Written(n))
<1>1. n \in 1 .. 2 * Cap - r.head
  <2>1. Cap \in Nat \ {0} /\ n \in Nat \ {0} /\ r.head \in 0 .. Cap - 1
    BY BufferSizes, RingSizes, RingParts
  <2>2. QED
    BY <2>1
<1>2. Buffer!Written(n) = Stretch(Wrap, next, n)
  BY DEF Buffer!Written, Stretch, RestOf
<1>3. \A s : Buffer!Latest(s) = Kept(Cap, s)
  BY DEF Buffer!Latest, Kept
<1>4. QED
  BY <1>1, <1>2, <1>3, RingWrites

LEMMA InitBuffer ==
  ASSUME OutputInit
  PROVE  OutputInv /\ Buffer!Init
<1>1. StreamHeld
  BY DEF OutputInit, StreamHeld
<1>2. /\ ring \in Rings /\ Buffered(ring) = <<>>
      /\ next = 0 /\ next \in 0 .. Wrap - 1 /\ out = <<>>
  BY RingStarts DEF OutputInit
<1>3. QED
  BY <1>1, <1>2 DEF OutputInit, OutputInv, Buffer!Init, Buffered

\* A write or a quantum is for a stream that still exists.
LEMMA StreamIsHeld ==
  ASSUME StreamHeld, OutputNext
  PROVE  StreamHeld'
<1> USE DEF StreamHeld
<1>1. CASE OpenStream
  BY <1>1 DEF OpenStream
<1>2. CASE StartStream
  <2>1. UNCHANGED <<stream, running, want, size>> /\ playing' = stream /\ call' = "start"
    BY <1>2 DEF StartStream
  <2>2. (playing => stream)'
    BY <2>1, Zenon
  <2>3. QED
    BY <2>1, <2>2
<1>3. CASE StartClears \/ Suspend
  BY <1>3 DEF StartClears, Suspend
<1>4. CASE WriteChecks \/ WriteLocked \/ WriteOverruns
  BY <1>4 DEF WriteChecks, WriteLocked, WriteOverruns
<1>5. CASE Stop
  BY <1>5 DEF Stop
<1>6. CASE StopDestroys
  BY <1>6 DEF StopDestroys
<1>7. CASE DequeueQuantum \/ FillQuantum
  BY <1>7 DEF DequeueQuantum, FillQuantum
<1>8. CASE UNCHANGED outputVars
  BY <1>8 DEF outputVars
<1>9. QED
  BY <1>1, <1>2, <1>3, <1>4, <1>5, <1>6, <1>7, <1>8 DEF OutputNext

\* Every step is a step of the buffer or leaves it as it is.
LEMMA StepsBuffer ==
  ASSUME OutputInv, [OutputNext]_outputVars
  PROVE  OutputInv' /\ [Buffer!Next]_(Buffer!bufferVars)
<1> USE DEF OutputInv
<1>1. StreamHeld'
  <2>1. CASE OutputNext
    BY <2>1, StreamIsHeld
  <2>2. CASE UNCHANGED outputVars
    BY <2>2 DEF outputVars, StreamHeld
  <2>3. QED
    BY <2>1, <2>2
<1>2. CASE UNCHANGED <<stream, ring, next, out>>
  BY <1>1, <1>2 DEF Buffer!bufferVars, Oldest, ringUsed
<1>3. CASE stream' = ~stream /\ UNCHANGED <<ring, next, out>>
  <2>1. Buffer!OpenOrClose
    BY <1>3 DEF Buffer!OpenOrClose, Oldest, ringUsed
  <2>2. QED
    BY <1>1, <1>3, <2>1 DEF Buffer!Next
<1>4. CASE WriteLocked
  <2>1. stream /\ size \in Buffers
    BY <1>4 DEF WriteLocked, StreamHeld
  <2>2. PICK n \in Buffers : n = size
    BY <2>1
  <2>3. /\ ring' = ringWrite(ring, n) /\ next' = (next + n) % Wrap
        /\ UNCHANGED <<stream, out>> /\ ~(ring.head + n > 2 * Cap)
    BY <1>4, <2>2 DEF WriteLocked, Overruns
  <2>4. PICK w : w = ringWrite(ring, n)
    OBVIOUS
  <2>5. /\ w \in Rings
        /\ Buffered(w) = Buffer!Latest(Buffered(ring) \o Buffer!Written(n))
    BY <2>3, <2>4, BufferWritten
  <2>6. next' \in 0 .. Wrap - 1
    BY <2>3, BufferSizes, PositionMoves
  <2>7. Oldest(ring, ringUsed(ring))' = Buffered(w)
    BY <2>3, <2>4, BufferedNext
  <2>8. Buffer!Put
    BY <2>1, <2>2, <2>3, <2>5, <2>7 DEF Buffer!Put, Buffered
  <2>9. QED
    BY <1>1, <2>3, <2>4, <2>5, <2>6, <2>8 DEF Buffer!Next
<1>5. CASE StartClears
  <2>1. /\ UNCHANGED <<stream, next, out>>
        /\ ring' = [ring EXCEPT !.head = 0, !.tail = 0]
    BY <1>5 DEF StartClears
  <2>2. PICK w : w = [ring EXCEPT !.head = 0, !.tail = 0]
    OBVIOUS
  <2>3. w \in Rings /\ Buffered(w) = <<>>
    BY <2>2, RingDrained
  <2>4. Oldest(ring, ringUsed(ring))' = <<>>
    BY <2>1, <2>2, <2>3, BufferedNext
  <2>5. Buffer!Clear
    BY <2>1, <2>4 DEF Buffer!Clear
  <2>6. QED
    BY <1>1, <2>1, <2>2, <2>3, <2>5 DEF Buffer!Next
<1>6. CASE FillQuantum
  <2>1. stream /\ want \in Quanta
    BY <1>6, BufferSizes DEF FillQuantum, StreamHeld
  <2>2. PICK n \in Quanta : n = want
    BY <2>1
  <2>3. /\ out' = Oldest(ring, toRead(ring, n))
        /\ ring' = ringRead(ring, n) /\ UNCHANGED <<stream, next>>
    BY <1>6, <2>2 DEF FillQuantum
  <2>4. PICK s : s = Buffered(ring)
    OBVIOUS
  <2>5. PICK k : k = IF n < Len(s) THEN n ELSE Len(s)
    OBVIOUS
  <2>6. PICK w : w = ringRead(ring, n)
    OBVIOUS
  <2>7. /\ w \in Rings /\ Buffered(w) = SubSeq(s, k + 1, Len(s))
        /\ out' = SubSeq(s, 1, k)
    <3>1. k = toRead(ring, n) /\ IsRead(ring, n, s, k)
      BY <2>1, <2>2, <2>4, <2>5, BufferSizes, RingReads
    <3>2. QED
      BY <2>3, <2>6, <3>1 DEF IsRead
  <2>8. Oldest(ring, ringUsed(ring))' = Buffered(w)
    BY <2>3, <2>6, BufferedNext
  <2>9. Buffer!Play
    BY <2>1, <2>3, <2>4, <2>5, <2>7, <2>8 DEF Buffer!Play, Buffered
  <2>10. QED
    BY <1>1, <2>3, <2>6, <2>7, <2>9 DEF Buffer!Next
<1>7. CASE OpenStream \/ StopDestroys
  BY <1>2, <1>3, <1>7 DEF OpenStream, StopDestroys, StreamHeld
<1>8. CASE \/ WriteChecks \/ WriteOverruns \/ StartStream \/ Suspend
           \/ Stop \/ DequeueQuantum
  BY <1>2, <1>8
  DEF WriteChecks, WriteOverruns, StartStream, Suspend, Stop, DequeueQuantum
<1>9. CASE UNCHANGED outputVars
  BY <1>2, <1>9 DEF outputVars
<1>10. QED
  BY <1>4, <1>5, <1>6, <1>7, <1>8, <1>9 DEF OutputNext

\* What the phone writes, in buffers of any size, is played in order, once, and only
\* while the stream exists, up to the first buffer that overruns the ring
\* (PipeWireAudioOutput::write, ringWrite, ringRead and stop).
THEOREM RingIsPlaybackBuffer ==
  OutputSpec => ImplementsBuffer
<1>1. OutputInit => OutputInv /\ Buffer!Init
  BY InitBuffer
<1>2. OutputInv /\ [OutputNext]_outputVars
        => OutputInv' /\ [Buffer!Next]_(Buffer!bufferVars)
  BY StepsBuffer
<1>3. QED
  BY <1>1, <1>2, PTL DEF OutputSpec, ImplementsBuffer, Buffer!Spec
=============================================================================
