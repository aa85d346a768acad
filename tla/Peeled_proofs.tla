--------------------------- MODULE Peeled_proofs ---------------------------
(***************************************************************************)
(* Theorems about PeeledSource, for every handle, every buffer and every   *)
(* sequence of calls.                                                      *)
(***************************************************************************)
EXTENDS PeeledSource, Handles_proofs

PeeledInv == TypeOK /\ PosInWindow /\ Contiguous

\* The parts of the handle.
LEMMA SrcType ==
  ASSUME src \in Opened
  PROVE  /\ src \in Source
         /\ src.len \in 0 .. MaxU64 /\ src.bytes \in Seq(Byte) /\ Len(src.bytes) \in Nat
         /\ MaxU64 \in Nat /\ MaxI64 \in 0 .. MaxU64 /\ Missing \notin Byte
         /\ src.kind # "Zran" => src.len = Len(src.bytes)
<1>1. src \in Source /\ MaxU64 \in Nat /\ MaxI64 \in 0 .. MaxU64 /\ Missing \notin Byte
      /\ src.len <= MaxI64 /\ (src.kind # "Zran" => src.len = Len(src.bytes))
  BY PeeledAssumption
<1>2. src.len \in Nat /\ src.bytes \in Seq(Byte) /\ Len(src.bytes) \in Nat
  BY <1>1, HandleType
<1> QED
  BY <1>1, <1>2

LEMMA PeeledInit == Init => PeeledInv
<1> SUFFICES ASSUME Init PROVE PeeledInv
  OBVIOUS
<1> DEFINE nothing == <<>>
<1>1. nothing \in Seq(Byte) /\ Len(nothing) = 0 /\ DOMAIN nothing = {}
  BY EmptySeq
<1>2. run = nothing /\ src \in Opened /\ pos = 0 /\ mark = 0 /\ ans = NoAnswer
  BY DEF Init
<1> HIDE DEF nothing
<1>3. src.len \in Nat /\ MaxU64 \in Nat
  BY <1>2, SrcType
<1>4. TypeOK
  BY <1>1, <1>2, <1>3 DEF TypeOK, NoAnswer
<1>5. PosInWindow
  BY <1>2, <1>3 DEF PosInWindow
<1>6. Contiguous
  BY <1>1, <1>2 DEF Contiguous
<1> QED
  BY <1>4, <1>5, <1>6 DEF PeeledInv

\* A read that answers, taken apart.
LEMMA ReadGives ==
  ASSUME TypeOK, NEW want \in Wants, NEW n \in ReadSizes(src, pos, want)
  PROVE  /\ n \in Nat /\ want \in Nat /\ n <= want
         /\ n > 0 => pos + n <= Len(src.bytes) /\ pos + n <= src.len
         /\ n = 0 => want = 0 \/ src.len <= pos \/ Len(src.bytes) <= pos
         /\ SubSeq(src.bytes, pos + 1, pos + n) \in Seq(Byte)
         /\ Len(SubSeq(src.bytes, pos + 1, pos + n)) = n
         /\ \A k \in 1 .. n : SubSeq(src.bytes, pos + 1, pos + n)[k] = src.bytes[pos + k]
<1>1. src \in Source /\ src.bytes \in Seq(Byte) /\ MaxU64 \in Nat
  BY SrcType DEF TypeOK
<1>2. pos \in Nat
  BY <1>1 DEF TypeOK
<1>3. want \in Nat
  BY PeeledAssumption
<1>4. /\ n \in Nat /\ n <= want
      /\ n > 0 => pos + n <= Len(src.bytes) /\ pos + n <= src.len
      /\ n = 0 => want = 0 \/ src.len <= pos \/ Len(src.bytes) <= pos
  BY <1>1, <1>2, <1>3, ReadSizesType
<1> DEFINE bytes == src.bytes
<1>5. bytes \in Seq(Byte) /\ pos \in Nat /\ n \in Nat /\ (n > 0 => pos + n <= Len(bytes))
  BY <1>1, <1>2, <1>4
<1> HIDE DEF bytes
<1>6. /\ SubSeq(bytes, pos + 1, pos + n) \in Seq(Byte)
      /\ Len(SubSeq(bytes, pos + 1, pos + n)) = n
      /\ \A k \in 1 .. n : SubSeq(bytes, pos + 1, pos + n)[k] = bytes[pos + k]
  BY <1>5, SliceType
<1> QED
  BY <1>3, <1>4, <1>6 DEF bytes

\* The bytes a read adds to those before it follow them in the handle.
LEMMA ReadIsSafe ==
  ASSUME PeeledInv, NEW want \in Wants, Read(want)
  PROVE  PeeledInv'
<1>1. PICK n \in ReadSizes(src, pos, want) :
        /\ pos' = pos + n
        /\ ans' = Got(want, SubSeq(src.bytes, pos + 1, pos + n))
        /\ run' = run \o SubSeq(src.bytes, pos + 1, pos + n)
        /\ src' = src /\ mark' = mark
  BY DEF Read, Moved
<1> DEFINE bytes == SubSeq(src.bytes, pos + 1, pos + n)
<1>2. /\ n \in Nat
      /\ n > 0 => pos + n <= Len(src.bytes) /\ pos + n <= src.len
      /\ bytes \in Seq(Byte) /\ Len(bytes) = n
      /\ \A k \in 1 .. n : bytes[k] = src.bytes[pos + k]
  BY ReadGives DEF PeeledInv
<1>3. /\ src \in Opened /\ run \in Seq(Byte) /\ src.len \in 0 .. MaxU64 /\ MaxU64 \in Nat
      /\ pos \in 0 .. MaxU64 /\ mark \in 0 .. MaxU64 /\ Len(src.bytes) \in Nat
  BY SrcType DEF PeeledInv, TypeOK
<1>4. Len(run) \in Nat /\ DOMAIN run = 1 .. Len(run)
  BY <1>3, LenProperties
<1>5. run' = run \o bytes
  BY <1>1
<1> HIDE DEF bytes
<1>6. /\ run' \in Seq(Byte) /\ Len(run') = Len(run) + n
      /\ \A k \in 1 .. Len(run) + n :
           run'[k] = IF k <= Len(run) THEN run[k] ELSE bytes[k - Len(run)]
  BY <1>2, <1>3, <1>4, <1>5, ConcatProperties, ZenonT(30)
<1>7. DOMAIN run' = 1 .. Len(run) + n
  BY <1>6, LenProperties
<1>8. pos' \in 0 .. MaxU64
  BY <1>1, <1>2, <1>3
<1>9. TypeOK'
  BY <1>1, <1>3, <1>6, <1>8 DEF TypeOK, Got
<1>10. PosInWindow'
  BY <1>1, <1>2, <1>3 DEF PosInWindow, PeeledInv
<1>11. pos = mark + Len(run)
       /\ \A k \in DOMAIN run : mark + k <= src.len /\ run[k] = Content(src)[mark + k]
  BY DEF PeeledInv, Contiguous
<1>12. ASSUME NEW k \in 1 .. Len(run) + n
       PROVE  mark + k <= src.len /\ run'[k] = Content(src)[mark + k]
  <2>1. CASE k <= Len(run)
    <3>1. k \in DOMAIN run /\ run'[k] = run[k]
      BY <1>2, <1>4, <1>6, <2>1
    <3> QED
      BY <1>11, <3>1
  <2>2. CASE ~(k <= Len(run))
    <3>1. k - Len(run) \in 1 .. n /\ pos + (k - Len(run)) = mark + k /\ n > 0
      BY <1>2, <1>3, <1>4, <1>11, <2>2
    <3>2. mark + k \in 1 .. src.len /\ mark + k <= Len(src.bytes)
      BY <1>2, <1>3, <3>1, SMTT(20)
    <3>3. run'[k] = bytes[k - Len(run)]
      BY <1>2, <1>4, <1>6, <2>2
    <3>4. run'[k] = src.bytes[mark + k]
      BY <1>2, <3>1, <3>3
    <3>5. Content(src)[mark + k] = src.bytes[mark + k]
      BY <3>2 DEF Content
    <3> QED
      BY <3>2, <3>4, <3>5
  <2> QED
    BY <2>1, <2>2
<1>13. pos' = mark' + Len(run')
  BY <1>1, <1>2, <1>3, <1>4, <1>6, <1>11
<1>14. Contiguous'
  BY <1>1, <1>7, <1>12, <1>13 DEF Contiguous
<1> QED
  BY <1>9, <1>10, <1>14 DEF PeeledInv

\* A seek starts the next piece.
LEMMA SeekIsSafe ==
  ASSUME PeeledInv, NEW s \in Seeks, Seek(s)
  PROVE  PeeledInv'
<1> DEFINE nothing == <<>>
           target == Base(s) + s.off
<1>1. nothing \in Seq(Byte) /\ Len(nothing) = 0 /\ DOMAIN nothing = {}
  BY EmptySeq
<1>2. run' = nothing /\ mark' = pos' /\ src' = src /\ ans' = At(s, pos')
  BY DEF Seek
<1> HIDE DEF nothing
<1>3. /\ src \in Opened /\ src.len \in 0 .. MaxU64 /\ MaxU64 \in Nat /\ MaxI64 \in 0 .. MaxU64
  BY SrcType DEF PeeledInv, TypeOK
<1>4. target \in 0 .. MaxU64 /\ pos' = SeekTo(src, target)
  BY <1>3 DEF Seek, InRange
<1> HIDE DEF target
<1>5. pos' \in 0 .. MaxU64 /\ (src.kind # "Temp" => pos' <= src.len)
  BY <1>3, <1>4 DEF SeekTo, Smaller
<1>6. TypeOK'
  BY <1>1, <1>2, <1>3, <1>5 DEF TypeOK, At
<1>7. PosInWindow'
  BY <1>2, <1>5 DEF PosInWindow
<1>8. pos' = mark' + Len(run') /\ DOMAIN run' = {}
  <2>1. pos' \in Nat
    BY <1>3, <1>5
  <2>2. mark' = pos'
    BY <1>2
  <2>3. \A p \in Nat : p = p + 0
    OBVIOUS
  <2>4. Len(nothing) = Len(run') /\ DOMAIN run' = {}
    BY <1>1, <1>2
  <2> QED
    BY <1>1, <2>1, <2>2, <2>3, <2>4
<1>9. Contiguous'
  BY <1>8 DEF Contiguous
<1> QED
  BY <1>6, <1>7, <1>9 DEF PeeledInv

LEMMA PeeledStep == PeeledInv /\ [Next]_vars => PeeledInv'
<1> SUFFICES ASSUME PeeledInv, [Next]_vars PROVE PeeledInv'
  OBVIOUS
<1>1. ASSUME NEW w \in Wants, Read(w) PROVE PeeledInv'
  BY <1>1, ReadIsSafe
<1>2. ASSUME NEW s \in Seeks, Seek(s) PROVE PeeledInv'
  BY <1>2, SeekIsSafe
<1>3. ASSUME UNCHANGED <<src, pos, mark, run>>, ans' = ans \/ ans'.op \in {"read", "seek"}
      PROVE  PeeledInv'
  BY <1>3 DEF PeeledInv, TypeOK, PosInWindow, Contiguous
<1>4. ASSUME NEW w \in Wants, ReadFails(w) PROVE PeeledInv'
  BY <1>3, <1>4 DEF ReadFails, ReadError
<1>5. ASSUME NEW s \in Seeks, SeekFails(s) PROVE PeeledInv'
  BY <1>3, <1>5 DEF SeekFails, SeekError
<1>6. CASE UNCHANGED vars
  BY <1>3, <1>6 DEF vars
<1> QED
  BY <1>1, <1>2, <1>4, <1>5, <1>6 DEF Next

LEMMA PeeledHolds == Spec => []PeeledInv
<1> QED
  BY PeeledInit, PeeledStep, PTL DEF Spec

\* Every variable of a handle keeps its type.
THEOREM TypeCorrect == Spec => []TypeOK
<1>1. PeeledInv => TypeOK
  BY DEF PeeledInv
<1> QED
  BY <1>1, PeeledHolds, PTL

\* A window is never read past its length (execute.rs:111-123).
THEOREM WindowIsKept == Spec => []PosInWindow
<1>1. PeeledInv => PosInWindow
  BY DEF PeeledInv
<1> QED
  BY <1>1, PeeledHolds, PTL

\* What is read between two seeks is one piece of the handle's bytes
\* (execute.rs:106-156, 199-246).
THEOREM ReadsAreContiguous == Spec => []Contiguous
<1>1. PeeledInv => Contiguous
  BY DEF PeeledInv
<1> QED
  BY <1>1, PeeledHolds, PTL

-----------------------------------------------------------------------------
(* The promise *)

\* A read is one of the image's.
LEMMA ReadIsPromised ==
  ASSUME PeeledInv, NEW want \in Wants, Read(want)
  PROVE  Image!Read(want)
<1> DEFINE im == Content(src)
<1>1. PICK n \in ReadSizes(src, pos, want) :
        /\ pos' = pos + n
        /\ ans' = Got(want, SubSeq(src.bytes, pos + 1, pos + n))
  BY DEF Read, Moved
<1> DEFINE bytes == SubSeq(src.bytes, pos + 1, pos + n)
<1>2. /\ n \in Nat /\ want \in Nat /\ n <= want
      /\ n > 0 => pos + n <= Len(src.bytes) /\ pos + n <= src.len
      /\ n = 0 => want = 0 \/ src.len <= pos \/ Len(src.bytes) <= pos
      /\ bytes \in Seq(Byte) /\ Len(bytes) = n
      /\ \A k \in 1 .. n : bytes[k] = src.bytes[pos + k]
  BY ReadGives DEF PeeledInv
<1>3. /\ src \in Source /\ pos \in Nat /\ src.len \in Nat /\ Len(src.bytes) \in Nat
      /\ src.bytes \in Seq(Byte) /\ Missing \notin Byte
  BY SrcType DEF PeeledInv, TypeOK
<1>4. im \in Seq(Bytes) /\ Len(im) = src.len
  BY <1>3, ContentType
<1>5. \A k \in 1 .. src.len :
        im[k] = IF k <= Len(src.bytes) THEN src.bytes[k] ELSE Missing
  BY DEF Content
<1>6. \A k \in 1 .. Len(src.bytes) : src.bytes[k] # Missing
  BY <1>3, ElementOfSeq
<1>7. ans' = Image!Got(want, bytes)
  BY <1>1 DEF Got, Image!Got
<1> HIDE DEF im, bytes
<1>8. Image!Chunks(want) =
        {m \in 1 .. want : pos + m <= Len(im) /\ \A k \in pos + 1 .. pos + m : im[k] # Missing}
  BY DEF Image!Chunks, im
<1>9. CASE n = 0
  <2>1. ASSUME NEW m \in Image!Chunks(want) PROVE FALSE
    <3>1. m \in 1 .. want /\ pos + m <= Len(im) /\ \A k \in pos + 1 .. pos + m : im[k] # Missing
      BY <1>8, <2>1
    <3>2. Len(src.bytes) <= pos /\ pos + 1 \in pos + 1 .. pos + m /\ pos + 1 \in 1 .. src.len
      BY <1>2, <1>3, <1>4, <1>9, <3>1
    <3>3. im[pos + 1] = Missing
      BY <1>3, <1>5, <3>2
    <3> QED
      BY <3>1, <3>2, <3>3
  <2>2. bytes = <<>>
    BY <1>2, <1>9, EmptySeq
  <2>3. Image!Chunks(want) = {}
    BY <2>1
  <2>4. UNCHANGED pos
    BY <1>1, <1>3, <1>9
  <2> QED
    BY <1>7, <2>2, <2>3, <2>4 DEF Image!Read
<1>10. CASE n > 0
  <2>1. pos + n <= Len(src.bytes) /\ pos + n <= src.len
    BY <1>2, <1>10
  <2>2. \A k \in pos + 1 .. pos + n : k \in 1 .. src.len /\ k \in 1 .. Len(src.bytes)
    BY <1>2, <1>3, <2>1
  <2>3. \A k \in pos + 1 .. pos + n : im[k] = src.bytes[k] /\ im[k] # Missing
    BY <1>5, <1>6, <2>2
  <2>4. n \in Image!Chunks(want)
    BY <1>2, <1>4, <1>8, <1>10, <2>1, <2>3
  <2> DEFINE part == SubSeq(im, pos + 1, pos + n)
  <2>5. part \in Seq(Bytes) /\ Len(part) = n /\ \A k \in 1 .. n : part[k] = im[pos + k]
    <3>1. im \in Seq(Bytes) /\ pos \in Nat /\ n \in Nat /\ (n > 0 => pos + n <= Len(im))
      BY <1>2, <1>3, <1>4, <2>1
    <3> QED
      BY <3>1, SliceType
  <2>6. \A k \in 1 .. n : part[k] = bytes[k]
    <3> HIDE DEF part
    <3> TAKE k \in 1 .. n
    <3>1. pos + k \in pos + 1 .. pos + n
      BY <1>2, <1>3
    <3> QED
      BY <1>2, <2>3, <2>5, <3>1
  <2>7. bytes = part
    <3> HIDE DEF part
    <3>1. bytes \in Seq(Bytes)
      BY <1>2, SeqMonotonic DEF Bytes
    <3> QED
      BY <1>2, <2>5, <2>6, <3>1, SeqEqual
  <2>8. ans' = Image!Got(want, SubSeq(im, pos + 1, pos + n)) /\ pos' = pos + n
    BY <1>1, <1>7, <2>7
  <2> QED
    BY <2>4, <2>8 DEF Image!Read, im
<1> QED
  BY <1>2, <1>9, <1>10

LEMMA SeekIsPromised ==
  ASSUME PeeledInv, src.kind # "Temp", NEW s \in Seeks, Seek(s) \/ SeekFails(s)
  PROVE  Image!Seek(s)
<1>1. /\ src \in Source /\ pos \in Nat /\ src.len \in Nat /\ MaxU64 \in Nat
  BY SrcType DEF PeeledInv, TypeOK
<1>2. Len(Content(src)) = src.len
  BY <1>1, ContentType
<1>3. Image!Target(s) = Base(s) + s.off
  BY <1>2 DEF Image!Target, Image!Base, Base
<1>4. CASE Seek(s)
  <2>1. Base(s) + s.off \in 0 .. MaxU64
        /\ pos' = Smaller(Base(s) + s.off, src.len) /\ ans' = At(s, pos')
    BY <1>4 DEF Seek, InRange, SeekTo
  <2> QED
    BY <1>1, <1>2, <1>3, <2>1 DEF Image!Seek, Image!At, At, Smaller
<1>5. CASE SeekFails(s)
  <2>1. ~(Base(s) + s.off \in 0 .. MaxU64) /\ ans' = SeekError(s) /\ UNCHANGED pos
    BY <1>5 DEF SeekFails, InRange
  <2> QED
    BY <1>3, <2>1 DEF Image!Seek, Image!SeekError, SeekError
<1> QED
  BY <1>4, <1>5

\* A window and a zran handle are one seekable image to their caller, for every such
\* handle (execute.rs:36-40, 181-184).
THEOREM IsOneImage == Spec => AnswersAsPromised
<1>1. Init => Image!Init
  BY DEF Init, Image!Init, NoAnswer, Image!NoAnswer
<1>2. PeeledInv /\ [Next]_vars => [src.kind # "Temp" => Image!Next]_(Image!vars)
  <2> SUFFICES ASSUME PeeledInv, [Next]_vars, src.kind # "Temp" PROVE [Image!Next]_(Image!vars)
    OBVIOUS
  <2>1. src.kind # "Temp" /\ src \in Source /\ pos \in Nat
    BY SrcType DEF PeeledInv, TypeOK
  <2>2. Len(Content(src)) = src.len
    BY <2>1, ContentType
  <2>3. ASSUME Next PROVE UNCHANGED Content(src)
    <3>1. src' = src
      BY <2>3 DEF Next, Read, ReadFails, Seek, SeekFails
    <3> QED
      BY <3>1
  <2>4. ASSUME NEW w \in Wants, Read(w) PROVE Image!Read(w)
    BY <2>4, ReadIsPromised
  <2>5. ASSUME NEW w \in Wants, ReadFails(w) PROVE Image!Read(w)
    BY <2>2, <2>5 DEF ReadFails, ReadError, Image!Read, Image!ReadError
  <2>6. ASSUME NEW s \in Seeks, Seek(s) \/ SeekFails(s) PROVE Image!Seek(s)
    BY <2>1, <2>6, SeekIsPromised
  <2>7. CASE UNCHANGED vars
    <3>1. src' = src /\ pos' = pos /\ ans' = ans
      BY <2>7 DEF vars
    <3> QED
      BY <3>1 DEF Image!vars
  <2>8. CASE Next
    BY <2>3, <2>4, <2>5, <2>6, <2>8 DEF Next, Image!Next
  <2> QED
    BY <2>7, <2>8
<1> QED
  BY <1>1, <1>2, PeeledHolds, PTL DEF Spec, AnswersAsPromised
=============================================================================
