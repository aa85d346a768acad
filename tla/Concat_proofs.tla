--------------------------- MODULE Concat_proofs ---------------------------
(***************************************************************************)
(* Theorems about ConcatSource, for every list of handles, every buffer    *)
(* and every sequence of calls.                                            *)
(***************************************************************************)
EXTENDS ConcatSource, Handles_proofs

-----------------------------------------------------------------------------
(* The handles *)

\* The parts of a handle of the list.
LEMMA SourceType ==
  ASSUME sources \in SourceLists, NEW i \in DOMAIN sources
  PROVE  /\ sources[i] \in Source
         /\ sources[i].kind \in {"InPlace", "Zran", "Temp"}
         /\ sources[i].len \in 0 .. MaxU64 /\ MaxU64 \in Nat
         /\ sources[i].bytes \in Seq(Byte)
         /\ Len(sources[i].bytes) \in Nat
         /\ sources[i].kind # "Zran" => sources[i].len = Len(sources[i].bytes)
<1>1. sources \in Seq(Source)
  BY ConcatAssumption
<1>2. i \in 1 .. Len(sources)
  BY <1>1, LenProperties
<1>3. sources[i] \in Source
  BY <1>1, <1>2, ElementOfSeq
<1>4. sources[i].len <= MaxU64 /\ MaxU64 \in Nat
  BY ConcatAssumption
<1>5. Len(sources[i].bytes) \in Nat
  BY <1>3, LenProperties DEF Source
<1>6. sources[i].kind # "Zran" => sources[i].len = Len(sources[i].bytes)
  BY ConcatAssumption
<1>7. /\ sources[i].kind \in {"InPlace", "Zran", "Temp"}
      /\ sources[i].len \in Nat
      /\ sources[i].bytes \in Seq(Byte)
  BY <1>3 DEF Source
<1>8. sources[i].len \in 0 .. MaxU64
  BY <1>4, <1>7
<1> QED
  BY <1>3, <1>4, <1>5, <1>6, <1>7, <1>8

\* The list is as long as its domain.
LEMMA SourcesLen ==
  ASSUME sources \in SourceLists
  PROVE  Len(sources) \in Nat /\ DOMAIN sources = 1 .. Len(sources)
<1>1. sources \in Seq(Source)
  BY ConcatAssumption
<1> QED
  BY <1>1, LenProperties

-----------------------------------------------------------------------------
(* Arithmetic *)

LEMMA U64Type ==
  ASSUME NEW a \in 0 .. MaxU64, NEW b \in 0 .. MaxU64, MaxU64 \in Nat
  PROVE  /\ Plus(a, b) \in 0 .. MaxU64 /\ Minus(a, b) \in 0 .. MaxU64
         /\ a + b <= MaxU64 => Plus(a, b) = a + b
         /\ b <= a => Minus(a, b) = a - b
BY DEF Plus, Minus

LEMMA SatType ==
  ASSUME NEW a \in 0 .. MaxU64, NEW n \in Nat, MaxU64 \in Nat
  PROVE  SatAdd(a, n) \in 0 .. MaxU64 /\ (a + n <= MaxU64 => SatAdd(a, n) = a + n)
BY DEF SatAdd, Smaller

\* The bytes one handle answers with are its own.
LEMMA LocalReadsType ==
  ASSUME sources \in SourceLists, NEW i \in DOMAIN sources,
         NEW c \in Nat, NEW want \in Nat, NEW n \in LocalReads(i, c, want)
  PROVE  /\ n \in Nat /\ n <= want
         /\ n > 0 => c + n <= Len(sources[i].bytes)
         /\ n = 0 => want = 0 \/ sources[i].len <= c \/ Len(sources[i].bytes) <= c
         /\ SubSeq(sources[i].bytes, c + 1, c + n) \in Seq(Byte)
         /\ Len(SubSeq(sources[i].bytes, c + 1, c + n)) = n
         /\ \A k \in 1 .. n :
              SubSeq(sources[i].bytes, c + 1, c + n)[k] = sources[i].bytes[c + k]
<1> DEFINE src == sources[i]
<1>1. src \in Source
  BY SourceType
<1>2. src.bytes \in Seq(Byte) /\ n \in ReadSizes(src, c, want)
  BY SourceType DEF LocalReads
<1> HIDE DEF src
<1>3. /\ n \in Nat /\ n <= want
      /\ n > 0 => c + n <= Len(src.bytes)
      /\ n = 0 => want = 0 \/ src.len <= c \/ Len(src.bytes) <= c
  BY <1>1, <1>2, ReadSizesType
<1>4. /\ SubSeq(src.bytes, c + 1, c + n) \in Seq(Byte)
      /\ Len(SubSeq(src.bytes, c + 1, c + n)) = n
      /\ \A k \in 1 .. n : SubSeq(src.bytes, c + 1, c + n)[k] = src.bytes[c + k]
  BY <1>2, <1>3, SliceType
<1> QED
  BY <1>3, <1>4 DEF src

-----------------------------------------------------------------------------
(* Type correctness *)

Seg == [start : 0 .. MaxU64, len : 0 .. MaxU64]

LEMMA TypeInit == Init => TypeOK
<1> SUFFICES ASSUME Init PROVE TypeOK
  OBVIOUS
<1>1. MaxU64 \in Nat /\ Len(sources) \in Nat
  BY SourcesLen, ConcatAssumption DEF Init
<1>2. /\ segs \in Seq([start : 0 .. MaxU64, len : 0 .. MaxU64]) /\ Len(segs) = 0
      /\ image \in Seq(Byte \cup {Missing}) /\ run \in Seq(Byte)
  BY EmptySeq DEF Init
<1>3. cursor \in [DOMAIN sources -> Nat]
  BY DEF Init
<1> QED
  BY <1>1, <1>2, <1>3 DEF Init, TypeOK

\* A segment that seg_at may return is one of the list.
LEMMA SegAtType ==
  ASSUME TypeOK, Built, NEW p, NEW i \in SegAt(p) \ {Len(segs) + 1}
  PROVE  i \in 1 .. Len(segs) /\ i \in DOMAIN sources /\ segs[i] \in Seg
<1>1. Len(segs) \in Nat
  BY LenProperties DEF TypeOK
<1>2. i \in 1 .. Len(segs)
  BY <1>1 DEF SegAt
<1>3. i \in DOMAIN sources
  BY <1>2, SourcesLen DEF Built, TypeOK
<1>4. segs[i] \in Seg
  BY <1>2, ElementOfSeq DEF TypeOK, Seg
<1> QED
  BY <1>2, <1>3, <1>4

\* What one segment read does, in the types of its parts.
LEMMA SegmentReadType ==
  ASSUME TypeOK, Built, NEW want \in Nat, NEW i \in SegAt(pos) \ {Len(segs) + 1}
  PROVE  /\ Local(i) \in 0 .. MaxU64
         /\ LocalSeek(i, Local(i)) \in Nat
         /\ LocalWant(i, want) \in Nat /\ LocalWant(i, want) <= want
<1>1. /\ i \in DOMAIN sources
      /\ segs[i].start \in 0 .. MaxU64 /\ segs[i].len \in 0 .. MaxU64
  BY SegAtType DEF Seg
<1>2. MaxU64 \in Nat /\ sources[i].len \in 0 .. MaxU64
  BY <1>1, SourceType DEF TypeOK
<1>3. Local(i) \in 0 .. MaxU64
  BY <1>1, <1>2, U64Type DEF Local, TypeOK
<1>4. LocalSeek(i, Local(i)) \in Nat
  BY <1>2, <1>3 DEF LocalSeek, SeekTo, Smaller
<1>5. Minus(segs[i].len, Local(i)) \in 0 .. MaxU64
  BY <1>1, <1>2, <1>3, U64Type
<1>6. LocalWant(i, want) \in Nat /\ LocalWant(i, want) <= want
  BY <1>2, <1>5 DEF LocalWant, Smaller
<1> QED
  BY <1>3, <1>4, <1>6

LEMMA PlaceType ==
  ASSUME TypeOK, Place
  PROVE  /\ Len(segs) + 1 \in DOMAIN sources
         /\ segs' \in Seq([start : 0 .. MaxU64, len : 0 .. MaxU64])
         /\ Len(segs') = Len(segs) + 1 /\ Len(segs') <= Len(sources)
         /\ total' \in 0 .. MaxU64
         /\ image' \in Seq(Byte \cup {Missing})
         /\ Len(image') = Len(image) + sources[Len(segs) + 1].len
<1> DEFINE j == Len(segs) + 1
<1>1. Len(segs) \in Nat /\ Len(segs) < Len(sources) /\ Len(sources) \in Nat
  BY LenProperties, SourcesLen DEF Place, Built, TypeOK
<1>2. j \in DOMAIN sources /\ j <= Len(sources)
  BY <1>1, SourcesLen DEF TypeOK
<1>3. sources[j].len \in 0 .. MaxU64 /\ MaxU64 \in Nat
  BY <1>2, SourceType DEF TypeOK
<1>4. [start |-> total, len |-> sources[j].len] \in [start : 0 .. MaxU64, len : 0 .. MaxU64]
  BY <1>3 DEF TypeOK
<1>5. /\ segs' \in Seq([start : 0 .. MaxU64, len : 0 .. MaxU64])
      /\ Len(segs') = Len(segs) + 1
  BY <1>4, AppendProperties DEF Place, TypeOK
<1>6. /\ total' = SatAdd(total, sources[j].len) /\ image' = image \o Content(sources[j])
      /\ total \in 0 .. MaxU64 /\ image \in Seq(Bytes)
  BY DEF Place, TypeOK, Bytes
<1>7. Content(sources[j]) \in Seq(Bytes) /\ Len(Content(sources[j])) = sources[j].len
  BY <1>2, SourceType, ContentType DEF TypeOK
<1> HIDE DEF j
<1>8. sources[j].len \in Nat
  BY <1>3
<1>9. total' \in 0 .. MaxU64
  BY <1>3, <1>6, <1>8, SatType
<1> DEFINE c == Content(sources[j])
<1>10. image \o c \in Seq(Bytes) /\ Len(image \o c) = Len(image) + Len(c)
  <2> HIDE DEF c
  <2>1. c \in Seq(Bytes) /\ image \in Seq(Bytes)
    BY <1>6, <1>7 DEF c
  <2> QED
    BY <2>1, ConcatProperties
<1>11. image' \in Seq(Bytes) /\ Len(image') = Len(image) + sources[j].len
  BY <1>6, <1>7, <1>10
<1> QED
  BY <1>1, <1>2, <1>5, <1>9, <1>11 DEF j, Bytes

LEMMA TypeStep == TypeOK /\ [Next]_vars => TypeOK'
<1> SUFFICES ASSUME TypeOK, [Next]_vars PROVE TypeOK'
  OBVIOUS
<1>a. MaxU64 \in Nat /\ Wants \subseteq Nat
  BY ConcatAssumption
<1>1. CASE Place
  BY <1>1, PlaceType DEF Place, TypeOK
<1>2. CASE \E want \in Wants : ReadNothing(want) \/ ReadNowhere(want)
  BY <1>2 DEF ReadNothing, ReadNowhere, TypeOK
<1>3. ASSUME NEW want \in Wants, ReadSegment(want) PROVE TypeOK'
  <2>1. Built
    BY <1>3 DEF ReadSegment, Busy
  <2>2. PICK i \in SegAt(pos) \ {Len(segs) + 1} :
          \E n \in LocalReads(i, LocalSeek(i, Local(i)), LocalWant(i, want)) :
            LET c == LocalSeek(i, Local(i))
                bytes == SubSeq(sources[i].bytes, c + 1, c + n)
            IN /\ cursor' = [cursor EXCEPT ![i] = c + n]
               /\ pos' = SatAdd(pos, n)
               /\ run' = run \o bytes
    BY <1>3 DEF ReadSegment, Moved
  <2> DEFINE c == LocalSeek(i, Local(i))
  <2>3. PICK n \in LocalReads(i, c, LocalWant(i, want)) :
          /\ cursor' = [cursor EXCEPT ![i] = c + n]
          /\ pos' = SatAdd(pos, n)
          /\ run' = run \o SubSeq(sources[i].bytes, c + 1, c + n)
    BY <2>2
  <2>4. c \in Nat /\ LocalWant(i, want) \in Nat /\ i \in DOMAIN sources
    BY <1>a, <2>1, SegmentReadType, SegAtType
  <2> HIDE DEF c
  <2>5. n \in Nat /\ SubSeq(sources[i].bytes, c + 1, c + n) \in Seq(Byte)
    BY <2>4, LocalReadsType DEF TypeOK
  <2>6. run' \in Seq(Byte)
    BY <2>3, <2>5, ConcatProperties DEF TypeOK
  <2>7. pos' \in 0 .. MaxU64
    BY <1>a, <2>3, <2>5, SatType DEF TypeOK
  <2>8. cursor' \in [DOMAIN sources -> Nat]
    BY <2>3, <2>4, <2>5 DEF TypeOK
  <2> QED
    BY <1>3, <2>6, <2>7, <2>8 DEF ReadSegment, TypeOK
<1>4. ASSUME NEW want \in Wants, ReadFails(want) PROVE TypeOK'
  <2>1. PICK i \in SegAt(pos) \ {Len(segs) + 1} :
          cursor' = cursor \/ cursor' = [cursor EXCEPT ![i] = LocalSeek(i, Local(i))]
    BY <1>4 DEF ReadFails
  <2>2. Built
    BY <1>4 DEF ReadFails, Busy
  <2>3. LocalSeek(i, Local(i)) \in Nat
    BY <1>a, <2>2, SegmentReadType
  <2>4. cursor' \in [DOMAIN sources -> Nat]
    BY <2>1, <2>3 DEF TypeOK
  <2> QED
    BY <1>4, <2>4 DEF ReadFails, TypeOK
<1>5. ASSUME NEW s \in Seeks, Seek(s) PROVE TypeOK'
  <2>1. Base(s) + s.off \in 0 .. MaxU64
    BY <1>5 DEF Seek, InRange
  <2>2. pos' \in 0 .. MaxU64
    BY <1>5, <1>a, <2>1 DEF Seek, Clamp, Smaller, TypeOK
  <2>3. run' \in Seq(Byte)
    BY <1>5, EmptySeq DEF Seek
  <2> QED
    BY <1>5, <2>2, <2>3 DEF Seek, TypeOK
<1>6. CASE \E s \in Seeks : SeekFails(s)
  BY <1>6 DEF SeekFails, TypeOK
<1>7. CASE UNCHANGED vars
  BY <1>7 DEF vars, TypeOK
<1> QED
  BY <1>1, <1>2, <1>3, <1>4, <1>5, <1>6, <1>7 DEF Next

\* Every variable of a stitched source keeps its type; where lengths overflow too.
THEOREM TypeCorrect == Spec => []TypeOK
<1>1. Init => TypeOK
  BY TypeInit
<1>2. TypeOK /\ [Next]_vars => TypeOK'
  BY TypeStep
<1> QED
  BY <1>1, <1>2, PTL DEF Spec

-----------------------------------------------------------------------------
(* The stitching *)

\* Nobody calls read or seek before new() has returned.
Quiet == ~Built => pos = 0 /\ mark = 0 /\ run = <<>> /\ ans = NoAnswer

\* Segment i is where the image has what handle i holds.
Placed(i) ==
  /\ segs[i].start + segs[i].len <= total
  /\ \A k \in 1 .. segs[i].len : image[segs[i].start + k] = Content(sources[i])[k]

\* Each segment starts where the one before ends, the last one ends the image.
Layout ==
  /\ \A i \in 1 .. Len(segs) : segs[i].len = sources[i].len
  /\ ~Fits => total = MaxU64
  /\ Fits =>
       /\ total = Len(image)
       /\ \A i \in 1 .. Len(segs) : Placed(i)
       /\ Len(segs) = 0 => total = 0
       /\ Len(segs) > 0 => /\ segs[1].start = 0
                           /\ segs[Len(segs)].start + segs[Len(segs)].len = total
       /\ \A i \in 2 .. Len(segs) : segs[i].start = segs[i - 1].start + segs[i - 1].len

ConcatInv == TypeOK /\ Quiet /\ Layout /\ PosInImage /\ Stitched /\ EofIsEnd

LEMMA ConcatInit == Init => ConcatInv
<1> SUFFICES ASSUME Init PROVE ConcatInv
  OBVIOUS
<1>1. TypeOK
  BY TypeInit
<1>2. Len(segs) = 0 /\ Len(image) = 0 /\ Len(run) = 0
  BY EmptySeq DEF Init
<1>3. Layout
  BY <1>2, ConcatAssumption DEF Init, Layout, Fits
<1>4. SubSeq(image, mark + 1, pos) = <<>>
  BY SubSeqEmpty DEF Init
<1>5. Stitched
  BY <1>2, <1>4 DEF Init, Stitched
<1> QED
  BY <1>1, <1>3, <1>5 DEF Init, ConcatInv, Quiet, PosInImage, EofIsEnd, NoAnswer

\* A turn of new() appends what the next handle holds.
LEMMA PlaceKeepsLayout ==
  ASSUME TypeOK, TypeOK', Layout, Place
  PROVE  Layout'
<1> DEFINE j == Len(segs) + 1
           c == Content(sources[j])
           old == image
<1>1. /\ j \in DOMAIN sources /\ Len(segs) \in Nat /\ Len(image) \in Nat
      /\ Len(image') = Len(image) + sources[j].len /\ Len(segs') = j
      /\ sources[j].len \in 0 .. MaxU64 /\ total \in 0 .. MaxU64 /\ MaxU64 \in Nat
  BY PlaceType, SourceType, LenProperties DEF TypeOK
<1>2. /\ segs' = Append(segs, [start |-> total, len |-> sources[j].len])
      /\ total' = SatAdd(total, sources[j].len)
      /\ image' = image \o c /\ sources' = sources
  BY DEF Place
<1>3. /\ \A i \in 1 .. Len(segs) : segs'[i] = segs[i]
      /\ segs'[j] = [start |-> total, len |-> sources[j].len]
  <2>1. [start |-> total, len |-> sources[j].len] \in Seg
    BY <1>1 DEF Seg
  <2>2. segs \in Seq(Seg)
    BY DEF TypeOK, Seg
  <2> QED
    BY <1>2, <2>1, <2>2, AppendProperties
<1>4. \A i \in 1 .. Len(segs') : segs'[i].len = sources'[i].len
  BY <1>1, <1>2, <1>3 DEF Layout
<1>5. /\ c \in Seq(Bytes) /\ Len(c) = sources[j].len
      /\ image \in Seq(Bytes)
  BY <1>1, SourceType, ContentType DEF TypeOK, Bytes
<1>6. /\ \A k \in 1 .. Len(image) : image'[k] = image[k]
      /\ \A k \in 1 .. Len(c) : image'[Len(image) + k] = c[k]
  <2> HIDE DEF c
  <2>1. \A k \in 1 .. Len(image) + Len(c) :
          (image \o c)[k] = IF k <= Len(image) THEN image[k] ELSE c[k - Len(image)]
    BY <1>5, ConcatProperties
  <2>2. Len(c) \in Nat
    BY <1>5, LenProperties
  <2>3. \A k \in 1 .. Len(image) : image'[k] = image[k]
    BY <1>1, <1>2, <2>1, <2>2
  <2>4. ASSUME NEW k \in 1 .. Len(c) PROVE image'[Len(image) + k] = c[k]
    <3> DEFINE q == Len(image) + k
    <3>1. q \in 1 .. Len(image) + Len(c) /\ ~(q <= Len(image)) /\ q - Len(image) = k
      BY <1>1, <2>2
    <3> HIDE DEF q
    <3>2. (image \o c)[q] = c[k]
      BY <2>1, <3>1
    <3> QED
      BY <1>2, <3>2 DEF q
  <2> QED
    BY <2>3, <2>4
<1>15. ~Fits' => total' = MaxU64
  <2> SUFFICES ASSUME ~Fits' PROVE total' = MaxU64
    OBVIOUS
  <2>1. total + sources[j].len > MaxU64 \/ total = MaxU64
    <3>1. CASE Fits
      BY <1>1, <3>1 DEF Fits, Layout
    <3>2. CASE ~Fits
      BY <3>2 DEF Layout
    <3> QED
      BY <3>1, <3>2
  <2> HIDE DEF j
  <2> QED
    BY <1>1, <1>2, <2>1 DEF SatAdd, Smaller
<1> SUFFICES ASSUME Fits'
             PROVE  /\ total' = Len(image')
                    /\ \A i \in 1 .. Len(segs') : Placed(i)'
                    /\ Len(segs') = 0 => total' = 0
                    /\ Len(segs') > 0 =>
                         /\ segs'[1].start = 0
                         /\ segs'[Len(segs')].start + segs'[Len(segs')].len = total'
                    /\ \A i \in 2 .. Len(segs') :
                         segs'[i].start = segs'[i - 1].start + segs'[i - 1].len
  BY <1>4, <1>15 DEF Layout
<1>7. Len(image) + sources[j].len <= MaxU64 /\ Fits
  BY <1>1 DEF Fits
<1>8. total = Len(image) /\ total' = total + sources[j].len
  <2>1. total = Len(image)
    BY <1>7 DEF Layout
  <2>2. sources[j].len \in Nat /\ total + sources[j].len <= MaxU64
    BY <1>1, <1>7, <2>1
  <2> HIDE DEF j
  <2>3. SatAdd(total, sources[j].len) = total + sources[j].len
    BY <1>1, <2>2, SatType
  <2> QED
    BY <1>2, <2>1, <2>3
<1>9. ASSUME NEW i \in 1 .. Len(segs) PROVE Placed(i)'
  <2>1. Placed(i) /\ segs[i].len = sources[i].len
    BY <1>7 DEF Layout
  <2>2. segs[i].start \in Nat /\ segs[i].len \in Nat
    <3>1. segs[i] \in Seg
      BY ElementOfSeq DEF TypeOK, Seg
    <3> QED
      BY <1>1, <3>1 DEF Seg
  <2>3. \A k \in 1 .. segs[i].len : segs[i].start + k \in 1 .. Len(image)
    <3>1. segs[i].start + segs[i].len <= Len(image)
      BY <1>8, <2>1 DEF Placed
    <3>2. Len(image) \in Nat
      BY <1>1
    <3>3. \A a, b, n \in Nat : a + b <= n => \A k \in 1 .. b : a + k \in 1 .. n
      OBVIOUS
    <3> QED
      BY <2>2, <3>1, <3>2, <3>3, Zenon
  <2>4. segs'[i] = segs[i]
    BY <1>3
  <2>5. \A k \in 1 .. segs[i].len : image'[segs[i].start + k] = Content(sources[i])[k]
    BY <1>6, <2>1, <2>3 DEF Placed
  <2>6. segs[i].start + segs[i].len <= total'
    BY <1>1, <1>8, <2>1, <2>2, SMTT(20) DEF Placed
  <2> QED
    BY <1>2, <2>4, <2>5, <2>6 DEF Placed
<1>10. ASSUME NEW i, i = j PROVE Placed(i)'
  <2>1. segs'[i] = [start |-> total, len |-> sources[j].len] /\ sources'[i] = sources[j]
    BY <1>2, <1>3, <1>10
  <2>2. \A k \in 1 .. sources[j].len : image'[total + k] = c[k]
    BY <1>5, <1>6, <1>8
  <2>3. segs'[i].start = total /\ segs'[i].len = sources[j].len
    BY <2>1
  <2>4. total + sources[j].len <= total'
    BY <1>1, <1>8
  <2> QED
    BY <2>1, <2>2, <2>3, <2>4 DEF Placed
<1>11. \A i \in 1 .. Len(segs') : Placed(i)'
  <2> SUFFICES ASSUME NEW i \in 1 .. Len(segs') PROVE Placed(i)'
    OBVIOUS
  <2>1. i \in 1 .. Len(segs) \/ i = j
    BY <1>1
  <2> QED
    BY <1>9, <1>10, <2>1
<1>12. segs'[1].start = 0
  <2>1. CASE Len(segs) = 0
    BY <1>1, <1>3, <1>7, <2>1 DEF Layout
  <2>2. CASE Len(segs) > 0
    BY <1>1, <1>3, <1>7, <2>2 DEF Layout
  <2> QED
    BY <1>1, <2>1, <2>2
<1>13. ASSUME NEW i \in 2 .. Len(segs')
       PROVE  segs'[i].start = segs'[i - 1].start + segs'[i - 1].len
  <2>1. CASE i = j
    <3>1. Len(segs) > 0 /\ i - 1 = Len(segs)
      BY <1>1, <2>1
    <3>2. segs[Len(segs)].start + segs[Len(segs)].len = total
      BY <1>7, <3>1 DEF Layout
    <3>3. segs'[i - 1] = segs[Len(segs)] /\ segs'[i].start = total
      BY <1>1, <1>3, <2>1, <3>1
    <3> QED
      BY <3>2, <3>3
  <2>2. CASE i # j
    <3>1. i \in 2 .. Len(segs) /\ i \in 1 .. Len(segs) /\ i - 1 \in 1 .. Len(segs)
      BY <1>1, <2>2
    <3> QED
      BY <1>3, <1>7, <3>1 DEF Layout
  <2> QED
    BY <2>1, <2>2
<1>14. segs'[Len(segs')].start + segs'[Len(segs')].len = total'
  BY <1>1, <1>3, <1>8
<1> QED
  BY <1>1, <1>5, <1>8, <1>11, <1>12, <1>13, <1>14

\* seg_at finds the segment the position is in (reassemble.rs:120-126).
LEMMA Located ==
  ASSUME TypeOK, Layout, Fits, Built, NEW i \in SegAt(pos) \ {Len(segs) + 1}
  PROVE  /\ Local(i) = pos - segs[i].start
         /\ segs[i].start <= pos /\ pos < segs[i].start + segs[i].len
         /\ segs[i].start + segs[i].len <= total
         /\ segs[i].start \in Nat /\ segs[i].len \in Nat /\ pos \in Nat
<1>1. /\ i \in 1 .. Len(segs) /\ Len(segs) \in Nat
      /\ segs[i].start \in 0 .. MaxU64 /\ segs[i].len \in 0 .. MaxU64
      /\ pos \in 0 .. MaxU64 /\ total \in 0 .. MaxU64 /\ MaxU64 \in Nat
  BY SegAtType, LenProperties, ConcatAssumption DEF Seg, TypeOK
<1>2. segs[i].start + segs[i].len <= total
  BY <1>1 DEF Layout, Placed
<1>3. Plus(segs[i].start, segs[i].len) = segs[i].start + segs[i].len
  <2>1. segs[i].start + segs[i].len <= MaxU64
    BY <1>1, <1>2
  <2> QED
    BY <1>1, <2>1, U64Type
<1>4. pos < segs[i].start + segs[i].len
  <2>1. Plus(segs[i].start, segs[i].len) > pos
    BY <1>1 DEF SegAt
  <2> QED
    BY <1>1, <1>3, <2>1
<1>5. segs[i].start <= pos
  <2>1. CASE i = 1
    BY <1>1, <2>1 DEF Layout
  <2>2. CASE i # 1
    <3> DEFINE j == i - 1
    <3>1. j \in 1 .. Len(segs) /\ i \in 2 .. Len(segs) /\ i > 1
      BY <1>1, <2>2
    <3>2. segs[j] \in Seg
      BY <3>1, ElementOfSeq DEF TypeOK, Seg
    <3>3. segs[i].start = segs[j].start + segs[j].len
      BY <3>1 DEF Layout
    <3>4. Plus(segs[j].start, segs[j].len) <= pos
      BY <3>1 DEF SegAt
    <3> HIDE DEF j
    <3>5. segs[j].start \in 0 .. MaxU64 /\ segs[j].len \in 0 .. MaxU64
      BY <3>2 DEF Seg
    <3>6. segs[j].start + segs[j].len <= MaxU64
      BY <1>1, <3>3
    <3>7. Plus(segs[j].start, segs[j].len) = segs[j].start + segs[j].len
      BY <1>1, <3>5, <3>6, U64Type
    <3> QED
      BY <3>3, <3>4, <3>7
  <2> QED
    BY <2>1, <2>2
<1>6. Local(i) = pos - segs[i].start
  BY <1>1, <1>5, U64Type DEF Local
<1> QED
  BY <1>1, <1>2, <1>4, <1>5, <1>6

\* What the handle answers is what the image has at the position
\* (reassemble.rs:129-149).
LEMMA ReadIsLogical ==
  ASSUME TypeOK, Layout, Fits, Built, NEW want \in Nat, want > 0,
         NEW i \in SegAt(pos) \ {Len(segs) + 1},
         NEW n \in LocalReads(i, LocalSeek(i, Local(i)), LocalWant(i, want))
  PROVE  LET c == LocalSeek(i, Local(i)) IN
         /\ n \in Nat /\ n <= want /\ pos + n <= total /\ total = Len(image)
         /\ SubSeq(sources[i].bytes, c + 1, c + n) = SubSeq(image, pos + 1, pos + n)
         /\ Len(SubSeq(image, pos + 1, pos + n)) = n
         /\ n = 0 => image[pos + 1] = Missing
<1> DEFINE st == segs[i].start
           ln == segs[i].len
           own == sources[i].bytes
           size == Len(own)
           c == LocalSeek(i, Local(i))
           w == LocalWant(i, want)
           bytes == SubSeq(own, c + 1, c + n)
<1>1. /\ Local(i) = pos - st /\ st <= pos /\ pos < st + ln /\ st + ln <= total
      /\ st \in Nat /\ ln \in Nat /\ pos \in Nat
  BY Located
<1>2. i \in 1 .. Len(segs) /\ i \in DOMAIN sources /\ Placed(i) /\ ln = sources[i].len
      /\ total = Len(image)
  BY SegAtType DEF Layout
<1>3. own \in Seq(Byte) /\ size \in Nat /\ MaxU64 \in Nat /\ ln \in 0 .. MaxU64
  BY <1>2, SourceType DEF TypeOK
<1>4. c = pos - st /\ c \in Nat /\ c < ln
  <2>1. pos - st \in Nat /\ pos - st < ln
    BY <1>1
  <2>2. c = Local(i) \/ c = Smaller(Local(i), ln)
    BY <1>2 DEF LocalSeek, SeekTo
  <2> QED
    BY <1>1, <2>1, <2>2 DEF Smaller
<1>5. w \in Nat /\ w > 0 /\ w <= ln - c /\ w <= want
  <2>1. c \in 0 .. MaxU64 /\ c <= ln
    BY <1>3, <1>4
  <2>2. Minus(ln, Local(i)) = ln - c
    <3> HIDE DEF c, ln
    <3>1. Minus(ln, c) = ln - c
      BY <1>3, <2>1, U64Type
    <3> QED
      BY <1>1, <1>4, <3>1
  <2>3. w = Smaller(want, ln - c)
    BY <2>2 DEF LocalWant
  <2>4. ln - c \in Nat /\ ln - c > 0
    BY <1>1, <1>4
  <2> HIDE DEF c, ln, w
  <2> QED
    BY <2>3, <2>4 DEF Smaller
<1>6. n \in LocalReads(i, c, w)
  OBVIOUS
<1> HIDE DEF c, w, ln, st
<1>7. /\ n \in Nat /\ n <= w
      /\ n > 0 => c + n <= size
      /\ n = 0 => w = 0 \/ size <= c
      /\ bytes \in Seq(Byte) /\ Len(bytes) = n
      /\ \A k \in 1 .. n : bytes[k] = own[c + k]
  <2>1. sources \in SourceLists
    BY DEF TypeOK
  <2>2. i \in DOMAIN sources /\ c \in Nat /\ w \in Nat
    BY <1>2, <1>4, <1>5
  <2>3. n \in Nat /\ n <= w
    BY <1>6, <2>1, <2>2, LocalReadsType
  <2>4. n > 0 => c + n <= size
    BY <1>6, <2>1, <2>2, LocalReadsType
  <2>5. n = 0 => w = 0 \/ ln <= c \/ size <= c
    BY <1>2, <1>6, <2>1, <2>2, LocalReadsType
  <2>5a. ~(ln <= c)
    BY <1>1, <1>4
  <2>6. bytes \in Seq(Byte) /\ Len(bytes) = n
    BY <1>6, <2>1, <2>2, LocalReadsType
  <2>7. \A k \in 1 .. n : bytes[k] = own[c + k]
    BY <1>6, <2>1, <2>2, LocalReadsType
  <2> QED
    BY <2>3, <2>4, <2>5, <2>5a, <2>6, <2>7
<1> HIDE DEF own, size, bytes
<1>8. n <= ln - c
  BY <1>1, <1>4, <1>5, <1>7
<1>9. pos + n <= total
  <2>1. total \in Nat
    BY <1>3 DEF TypeOK
  <2> QED
    BY <1>1, <1>4, <1>7, <1>8, <2>1
<1>10. ASSUME NEW k \in 1 .. ln - c
       PROVE  image[pos + k] = IF c + k <= size THEN own[c + k] ELSE Missing
  <2> DEFINE q == c + k
  <2>1. q \in 1 .. ln /\ st + q = pos + k
    BY <1>1, <1>4
  <2> HIDE DEF q
  <2>2. image[st + q] = Content(sources[i])[q]
    BY <1>2, <2>1 DEF Placed, st, ln
  <2>3. Content(sources[i])[q] = IF q <= size THEN own[q] ELSE Missing
    BY <1>2, <2>1 DEF Content, own, size
  <2> QED
    BY <2>1, <2>2, <2>3 DEF q
<1>11. n = 0 => image[pos + 1] = Missing
  <2> SUFFICES ASSUME n = 0 PROVE image[pos + 1] = Missing
    OBVIOUS
  <2>1. size <= c
    BY <1>5, <1>7
  <2>2. ~(c + 1 <= size) /\ 1 \in 1 .. ln - c
    BY <1>1, <1>3, <1>4, <2>1
  <2> QED
    BY <1>10, <2>2
<1>12. \A k \in 1 .. n : image[pos + k] = bytes[k]
  <2> SUFFICES ASSUME NEW k \in 1 .. n PROVE image[pos + k] = bytes[k]
    OBVIOUS
  <2>1. k \in 1 .. ln - c
    BY <1>1, <1>4, <1>7, <1>8
  <2>2. c + k <= size
    BY <1>3, <1>4, <1>7
  <2> QED
    BY <1>7, <1>10, <2>1, <2>2
<1> DEFINE m == pos + 1
           e == pos + n
<1>13. m \in Int /\ e \in Int /\ e - m + 1 = n /\ (IF m <= e THEN e - m + 1 ELSE 0) = n
       /\ \A k \in 1 .. n : m + k - 1 = pos + k
  BY <1>1, <1>7
<1>14. \A k \in m .. e : image[k] \in Bytes
  <2>1. Len(image) \in Nat
    BY LenProperties DEF TypeOK
  <2>2. \A k \in m .. e : k \in 1 .. Len(image)
    BY <1>1, <1>2, <1>7, <1>9, <2>1
  <2> QED
    BY <2>2, ElementOfSeq DEF TypeOK, Bytes
<1> HIDE DEF m, e
<1>15. /\ SubSeq(image, m, e) \in Seq(Bytes)
       /\ Len(SubSeq(image, m, e)) = IF m <= e THEN e - m + 1 ELSE 0
       /\ \A k \in 1 .. e - m + 1 : SubSeq(image, m, e)[k] = image[m + k - 1]
  BY <1>13, <1>14, SubSeqProperties
<1>16. Len(SubSeq(image, m, e)) = n /\ \A k \in 1 .. n : SubSeq(image, m, e)[k] = bytes[k]
  BY <1>12, <1>13, <1>15
<1>17. bytes = SubSeq(image, m, e)
  <2>1. bytes \in Seq(Bytes)
    BY <1>7, SeqMonotonic DEF Bytes
  <2> QED
    BY <1>7, <1>15, <1>16, <2>1, SeqEqual
<1>18. n <= want
  BY <1>5, <1>7
<1> QED
  BY <1>2, <1>7, <1>9, <1>11, <1>16, <1>17, <1>18 DEF m, e, c, bytes, own

\* Where no sum overflows, seg_at finds a segment for every position before the
\* end: only a position at the total is past all of them.
LEMMA Nowhere ==
  ASSUME TypeOK, Layout, Fits, Built, pos < total
  PROVE  Len(segs) + 1 \notin SegAt(pos)
<1> SUFFICES ASSUME Len(segs) + 1 \in SegAt(pos) PROVE FALSE
  OBVIOUS
<1> DEFINE l == Len(segs)
<1>1. total \in 0 .. MaxU64 /\ pos \in 0 .. MaxU64 /\ MaxU64 \in Nat
  BY ConcatAssumption DEF TypeOK
<1>2. l \in Nat /\ l > 0
  BY <1>1, LenProperties DEF Layout, TypeOK
<1>3. segs[l].start + segs[l].len = total
  BY <1>2 DEF Layout
<1>4. Plus(segs[l].start, segs[l].len) <= pos
  BY <1>2 DEF SegAt
<1>5. l \in 1 .. Len(segs) /\ segs \in Seq(Seg)
  BY <1>2 DEF TypeOK, Seg
<1> HIDE DEF l
<1>6. segs[l] \in Seg
  BY <1>5, ElementOfSeq
<1>7. segs[l].start \in 0 .. MaxU64 /\ segs[l].len \in 0 .. MaxU64
  BY <1>6 DEF Seg
<1>8. segs[l].start + segs[l].len <= MaxU64
  BY <1>1, <1>3
<1>9. Plus(segs[l].start, segs[l].len) = total
  BY <1>1, <1>3, <1>7, <1>8, U64Type
<1> QED
  BY <1>1, <1>4, <1>9

LEMMA ConcatStep == ConcatInv /\ [Next]_vars => ConcatInv'
<1> SUFFICES ASSUME ConcatInv, [Next]_vars PROVE ConcatInv'
  OBVIOUS
<1>a. TypeOK /\ TypeOK' /\ Quiet /\ Layout /\ PosInImage /\ Stitched /\ EofIsEnd
  BY TypeStep DEF ConcatInv
<1>b. /\ total \in 0 .. MaxU64 /\ pos \in 0 .. MaxU64 /\ mark \in 0 .. MaxU64
      /\ MaxU64 \in Nat /\ Wants \subseteq Nat
      /\ Len(image) \in Nat /\ Len(run) \in Nat
  BY <1>a, ConcatAssumption, LenProperties DEF TypeOK
\* A step that places no handle keeps the layout.
<1>c. ASSUME UNCHANGED <<sources, segs, total, image>> PROVE Layout' /\ (Fits' = Fits)
  <2>1. Fits' = Fits
    BY <1>c DEF Fits
  <2>2. Layout'
    BY <1>a, <1>c, <2>1 DEF Layout, Placed
  <2> QED
    BY <2>1, <2>2
<1>1. CASE Place
  <2>1. Layout'
    BY <1>1, <1>a, PlaceKeepsLayout
  <2>2. ~Built /\ UNCHANGED <<pos, ans, mark, run>>
    BY <1>1 DEF Place
  <2>3. pos' = 0 /\ mark' = 0 /\ run' = <<>> /\ ans' = NoAnswer
    BY <1>a, <2>2 DEF Quiet
  <2>4. SubSeq(image', mark' + 1, pos') = <<>>
    BY <2>3, SubSeqEmpty
  <2>5. Stitched'
    BY <2>3, <2>4, EmptySeq DEF Stitched
  <2>6. PosInImage'
    BY <1>a, <2>3 DEF PosInImage, TypeOK
  <2>7. EofIsEnd'
    BY <2>3 DEF EofIsEnd, NoAnswer
  <2>8. Quiet'
    BY <2>3 DEF Quiet
  <2> QED
    BY <1>a, <2>1, <2>5, <2>6, <2>7, <2>8 DEF ConcatInv
<1>2. ASSUME NEW want \in Wants, ReadNothing(want) PROVE ConcatInv'
  <2>1. Built /\ ~Busy(want) /\ ans' = Got(want, <<>>)
        /\ UNCHANGED <<sources, segs, total, pos, cursor, image, mark, run>>
    BY <1>2 DEF ReadNothing
  <2>2. want > 0 => pos >= total
    BY <1>b, <2>1 DEF Busy
  <2>3. EofIsEnd'
    BY <2>1, <2>2 DEF EofIsEnd, Got
  <2>4. Quiet' /\ PosInImage' /\ Layout' /\ Stitched'
    BY <1>a, <1>c, <2>1 DEF Quiet, Built, PosInImage, Stitched, Fits
  <2> QED
    BY <1>a, <2>3, <2>4 DEF ConcatInv
<1>3. ASSUME NEW want \in Wants, ReadNowhere(want) PROVE ConcatInv'
  <2>1. /\ Built /\ pos < total /\ Len(segs) + 1 \in SegAt(pos) /\ ans' = Got(want, <<>>)
        /\ UNCHANGED <<sources, segs, total, pos, cursor, image, mark, run>>
    BY <1>3 DEF ReadNowhere, Busy
  <2>2. ~Fits
    BY <1>a, <2>1, Nowhere
  <2>3. EofIsEnd' /\ Stitched'
    BY <1>c, <2>1, <2>2 DEF EofIsEnd, Stitched
  <2>4. Quiet' /\ PosInImage' /\ Layout'
    BY <1>a, <1>c, <2>1 DEF Quiet, Built, PosInImage
  <2> QED
    BY <1>a, <2>3, <2>4 DEF ConcatInv
<1>4. ASSUME NEW want \in Wants, ReadSegment(want) PROVE ConcatInv'
  <2> DEFINE c(i) == LocalSeek(i, Local(i))
             bytes(i, n) == SubSeq(sources[i].bytes, c(i) + 1, c(i) + n)
  <2>1. /\ Built /\ want \in Nat /\ want > 0 /\ pos < total
        /\ UNCHANGED <<sources, segs, total, image, mark>>
    BY <1>b, <1>4 DEF ReadSegment, Busy
  <2>2. PICK i \in SegAt(pos) \ {Len(segs) + 1} :
          \E n \in LocalReads(i, c(i), LocalWant(i, want)) :
            /\ pos' = SatAdd(pos, n)
            /\ ans' = Got(want, bytes(i, n)) /\ run' = run \o bytes(i, n)
    BY <1>4 DEF ReadSegment, Moved
  <2>3. PICK n \in LocalReads(i, c(i), LocalWant(i, want)) :
          /\ pos' = SatAdd(pos, n)
          /\ ans' = Got(want, bytes(i, n)) /\ run' = run \o bytes(i, n)
    BY <2>2
  <2> DEFINE b == bytes(i, n)
  <2>4. n \in Nat
    <3>1. c(i) \in Nat /\ LocalWant(i, want) \in Nat /\ i \in DOMAIN sources
      BY <1>a, <2>1, SegmentReadType, SegAtType
    <3>2. sources \in SourceLists
      BY <1>a DEF TypeOK
    <3> HIDE DEF c
    <3> QED
      BY <3>1, <3>2, LocalReadsType
  <2>5. Fits => /\ pos + n <= total /\ total = Len(image)
                /\ b = SubSeq(image, pos + 1, pos + n)
                /\ Len(b) = n
                /\ n = 0 => image[pos + 1] = Missing
    BY <1>a, <2>1, ReadIsLogical
  <2>6. pos' = SatAdd(pos, n) /\ ans' = Got(want, b) /\ run' = run \o b
    BY <2>3
  <2> HIDE DEF b, c, bytes
  <2>7. Layout' /\ (Fits' = Fits)
    BY <1>c, <2>1
  <2>8. Quiet'
    BY <2>1 DEF Quiet, Built
  <2>9. Fits => pos' = pos + n
    BY <1>b, <2>4, <2>5, <2>6, SatType
  <2>10. PosInImage'
    <3>1. CASE Fits
      BY <2>1, <2>5, <2>9, <3>1 DEF PosInImage
    <3>2. CASE ~Fits
      <4>1. total' = MaxU64
        BY <1>a, <2>1, <3>2 DEF Layout
      <4> QED
        BY <1>a, <1>b, <4>1 DEF PosInImage, TypeOK
    <3> QED
      BY <3>1, <3>2
  <2>11. EofIsEnd'
    <3> SUFFICES ASSUME Fits, b = <<>> PROVE pos' >= total \/ image[pos' + 1] = Missing
      BY <2>1, <2>6, <2>7 DEF EofIsEnd, Got
    <3>1. n = 0
      BY <2>5, EmptySeq
    <3>2. pos' = pos
      BY <1>b, <2>9, <3>1
    <3> QED
      BY <2>5, <3>1, <3>2
  <2>12. Stitched'
    <3> SUFFICES ASSUME Fits
                 PROVE  pos' = mark + Len(run') /\ run' = SubSeq(image, mark + 1, pos')
      BY <2>1, <2>7 DEF Stitched
    <3>1. pos = mark + Len(run) /\ run = SubSeq(image, mark + 1, pos)
      BY <1>a DEF Stitched
    <3>2. image \in Seq(Bytes) /\ run \in Seq(Bytes)
      BY <1>a, SeqMonotonic DEF TypeOK, Bytes
    <3> DEFINE m == mark + 1
               e == pos + n
    <3>3. m \in 1 .. Len(image) + 1 /\ pos \in m - 1 .. Len(image) /\ e \in pos .. Len(image)
      BY <1>b, <2>1, <2>4, <2>5, <3>1
    <3> HIDE DEF m, e
    <3>4. SubSeq(image, m, pos) \o SubSeq(image, pos + 1, e) = SubSeq(image, m, e)
      BY <3>2, <3>3, ConcatAdjacentSubSeq
    <3>5. run' = SubSeq(image, m, e)
      BY <2>5, <2>6, <3>1, <3>4 DEF m, e
    <3>6. Len(run') = Len(run) + n
      <4>1. \A k \in pos + 1 .. e : k \in 1 .. Len(image)
        BY <1>b, <3>3 DEF e
      <4>2. \A k \in pos + 1 .. e : image[k] \in Bytes
        BY <3>2, <4>1, ElementOfSeq
      <4>3. pos + 1 \in Int /\ e \in Int
        BY <1>b, <2>4 DEF e
      <4>4. SubSeq(image, pos + 1, e) \in Seq(Bytes)
        <5> DEFINE q == pos + 1
        <5>1. q \in Int /\ \A k \in q .. e : image[k] \in Bytes
          BY <4>2, <4>3
        <5> HIDE DEF q
        <5>2. SubSeq(image, q, e) \in Seq(Bytes)
          BY <4>3, <5>1, SubSeqProperties
        <5> QED
          BY <5>2 DEF q
      <4>5. b \in Seq(Bytes) /\ Len(b) = n
        BY <2>5, <4>4 DEF e
      <4> QED
        BY <2>6, <3>2, <4>5, ConcatProperties
    <3>7. pos' = mark + Len(run')
      BY <1>b, <2>4, <2>9, <3>1, <3>6
    <3> QED
      BY <2>9, <3>5, <3>7 DEF m, e
  <2> QED
    BY <1>a, <2>7, <2>8, <2>10, <2>11, <2>12 DEF ConcatInv
<1>5. ASSUME NEW want \in Wants, ReadFails(want) PROVE ConcatInv'
  <2>1. Built /\ ans' = ReadError(want)
        /\ UNCHANGED <<sources, segs, total, pos, image, mark, run>>
    BY <1>5 DEF ReadFails, Busy
  <2>2. EofIsEnd'
    BY <2>1 DEF EofIsEnd, ReadError
  <2>3. Quiet' /\ PosInImage' /\ Layout' /\ Stitched'
    BY <1>a, <1>c, <2>1 DEF Quiet, Built, PosInImage, Stitched, Fits
  <2> QED
    BY <1>a, <2>2, <2>3 DEF ConcatInv
<1>6. ASSUME NEW s \in Seeks, Seek(s) PROVE ConcatInv'
  <2>1. /\ Built /\ InRange(s) /\ pos' = Clamp(Base(s) + s.off)
        /\ ans' = At(s, pos') /\ mark' = pos' /\ run' = <<>>
        /\ UNCHANGED <<sources, segs, total, cursor, image>>
    BY <1>6 DEF Seek
  <2>2. pos' \in 0 .. MaxU64
    BY <1>a DEF TypeOK
  <2>3. PosInImage'
    BY <1>b, <2>1 DEF PosInImage, Clamp, Smaller, InRange
  <2>4. SubSeq(image', mark' + 1, pos') = <<>>
    BY <2>1, <2>2, SubSeqEmpty
  <2>5. Stitched'
    BY <2>1, <2>2, <2>4, EmptySeq DEF Stitched
  <2>6. EofIsEnd'
    BY <2>1 DEF EofIsEnd, At
  <2>7. Quiet' /\ Layout'
    BY <1>a, <1>c, <2>1 DEF Quiet, Built
  <2> QED
    BY <1>a, <2>3, <2>5, <2>6, <2>7 DEF ConcatInv
<1>7. ASSUME NEW s \in Seeks, SeekFails(s) PROVE ConcatInv'
  <2>1. Built /\ ans' = SeekError(s)
        /\ UNCHANGED <<sources, segs, total, pos, cursor, image, mark, run>>
    BY <1>7 DEF SeekFails
  <2>2. EofIsEnd'
    BY <2>1 DEF EofIsEnd, SeekError
  <2>3. Quiet' /\ PosInImage' /\ Layout' /\ Stitched'
    BY <1>a, <1>c, <2>1 DEF Quiet, Built, PosInImage, Stitched, Fits
  <2> QED
    BY <1>a, <2>2, <2>3 DEF ConcatInv
<1>8. CASE UNCHANGED vars
  <2>1. UNCHANGED <<sources, segs, total, pos, ans, image, mark, run>>
    BY <1>8 DEF vars
  <2>2. Quiet' /\ PosInImage' /\ Layout' /\ Stitched' /\ EofIsEnd'
    BY <1>a, <1>c, <2>1 DEF Quiet, Built, PosInImage, Stitched, EofIsEnd, Fits
  <2> QED
    BY <1>a, <2>2 DEF ConcatInv
<1> QED
  BY <1>1, <1>2, <1>3, <1>4, <1>5, <1>6, <1>7, <1>8 DEF Next

LEMMA ConcatHolds == Spec => []ConcatInv
<1>1. Init => ConcatInv
  BY ConcatInit
<1>2. ConcatInv /\ [Next]_vars => ConcatInv'
  BY ConcatStep
<1> QED
  BY <1>1, <1>2, PTL DEF Spec

\* The position stays in the image, even where the lengths overflow
\* (reassemble.rs:66-67).
THEOREM PositionIsBounded == Spec => []PosInImage
<1>1. ConcatInv => PosInImage
  BY DEF ConcatInv
<1> QED
  BY <1>1, ConcatHolds, PTL

\* Whatever is read between two seeks is the image from the first of them on, for
\* every list of handles whose lengths fit in a u64 (reassemble.rs:63-67, 129-162).
THEOREM ImageIsStitched == Spec => []Stitched
<1>1. ConcatInv => Stitched
  BY DEF ConcatInv
<1> QED
  BY <1>1, ConcatHolds, PTL

\* And nothing read into a buffer that has room means the end of the image or a byte
\* that is not there (reassemble.rs:130-137).
THEOREM EndIsTrue == Spec => []EofIsEnd
<1>1. ConcatInv => EofIsEnd
  BY DEF ConcatInv
<1> QED
  BY <1>1, ConcatHolds, PTL

\* The read the code calls unreachable is, where the lengths fit in a u64
\* (reassemble.rs:134-137).
THEOREM SegmentIsFound == Spec => []SegmentFound
<1>1. ConcatInv => SegmentFound
  BY Nowhere DEF ConcatInv, SegmentFound
<1> QED
  BY <1>1, ConcatHolds, PTL

-----------------------------------------------------------------------------
(* The promise *)

Promise == INSTANCE SeekableImage

\* A read that a segment answers is one of the image's.
LEMMA SegmentReadIsPromised ==
  ASSUME ConcatInv, Fits, NEW want \in Wants, ReadSegment(want)
  PROVE  Promise!Read(want)
<1>1. /\ TypeOK /\ Layout /\ Built /\ want \in Nat /\ want > 0 /\ pos < total
      /\ total \in 0 .. MaxU64 /\ MaxU64 \in Nat /\ pos \in Nat
  BY ConcatAssumption DEF ConcatInv, TypeOK, ReadSegment, Busy
<1>2. PICK i \in SegAt(pos) \ {Len(segs) + 1} :
        LET c == LocalSeek(i, Local(i)) IN
        \E n \in LocalReads(i, c, LocalWant(i, want)) :
          /\ Moved(n, want)
          /\ ans' = Got(want, SubSeq(sources[i].bytes, c + 1, c + n))
  BY DEF ReadSegment
<1> DEFINE c == LocalSeek(i, Local(i))
<1>3. PICK n \in LocalReads(i, c, LocalWant(i, want)) :
        pos' = SatAdd(pos, n) /\ ans' = Got(want, SubSeq(sources[i].bytes, c + 1, c + n))
  BY <1>2 DEF Moved
<1>4. /\ n \in Nat /\ n <= want /\ pos + n <= Len(image)
      /\ total = Len(image)
      /\ SubSeq(sources[i].bytes, c + 1, c + n) = SubSeq(image, pos + 1, pos + n)
      /\ Len(SubSeq(image, pos + 1, pos + n)) = n
      /\ n = 0 => image[pos + 1] = Missing
  <2>1. /\ n \in Nat /\ n <= want /\ pos + n <= total /\ total = Len(image)
        /\ SubSeq(sources[i].bytes, c + 1, c + n) = SubSeq(image, pos + 1, pos + n)
        /\ Len(SubSeq(image, pos + 1, pos + n)) = n
        /\ n = 0 => image[pos + 1] = Missing
    BY <1>1, <1>2, <1>3, ReadIsLogical
  <2> QED
    BY <2>1
<1>5. SubSeq(sources[i].bytes, c + 1, c + n) \in Seq(Byte)
  <2>1. i \in DOMAIN sources /\ c \in Nat /\ LocalWant(i, want) \in Nat
    BY <1>1, <1>2, SegAtType, SegmentReadType
  <2> QED
    BY <1>1, <1>3, <2>1, LocalReadsType DEF TypeOK
<1> DEFINE part == SubSeq(image, pos + 1, pos + n)
<1>6. part \in Seq(Byte) /\ Len(part) = n
  BY <1>4, <1>5
<1>7. pos' = pos + n /\ ans' = Promise!Got(want, part)
  <2>1. SatAdd(pos, n) = pos + n
    BY <1>1, <1>4, SatType DEF TypeOK
  <2> QED
    BY <1>3, <1>4, <2>1 DEF Got, Promise!Got
<1>8. image \in Seq(Bytes) /\ Len(image) \in Nat
  BY <1>1, LenProperties DEF TypeOK, Bytes
<1>9. CASE n = 0
  <2>1. part = <<>>
    BY <1>6, <1>9, EmptySeq
  <2>2. image[pos + 1] = Missing
    BY <1>4, <1>9
  <2>3. Promise!Chunks(want) = {}
    BY <1>1, <2>2 DEF Promise!Chunks
  <2>4. UNCHANGED pos /\ ans' = Promise!Got(want, <<>>)
    <3>1. pos + n = pos
      BY <1>1, <1>9
    <3> QED
      BY <1>7, <2>1, <3>1
  <2> QED
    BY <2>3, <2>4 DEF Promise!Read
<1>10. CASE n > 0
  <2>1. \A k \in 1 .. n : part[k] = image[pos + k]
    <3>1. image \in Seq(Bytes) /\ pos \in Nat /\ n \in Nat /\ (n > 0 => pos + n <= Len(image))
      BY <1>1, <1>4, <1>8
    <3> QED
      BY <3>1, SliceType
  <2>2. ASSUME NEW k \in pos + 1 .. pos + n PROVE image[k] # Missing
    <3> DEFINE q == k - pos
    <3>1. q \in 1 .. n /\ pos + q = k
      BY <1>1, <1>4
    <3> HIDE DEF q, part
    <3>2. part[q] \in Byte /\ part[q] = image[k]
      BY <1>6, <2>1, <3>1, ElementOfSeq
    <3> QED
      BY <3>2, ConcatAssumption
  <2>3. n \in Promise!Chunks(want)
    BY <1>1, <1>4, <1>10, <2>2 DEF Promise!Chunks
  <2> QED
    BY <1>7, <2>3 DEF Promise!Read
<1> QED
  BY <1>4, <1>9, <1>10

\* Once new() has returned, every answer is one that a seekable image of all the
\* handles' bytes could have given: the bytes at the cursor, an end that is one, a
\* failure that moves nothing, a seek that stops at the end (reassemble.rs:128-169).
THEOREM StepsAsPromised == Spec => [][Built /\ Fits => Promise!Next]_<<image, pos, ans>>
<1>1. ConcatInv /\ [Next]_vars => [Built /\ Fits => Promise!Next]_<<image, pos, ans>>
  <2> SUFFICES ASSUME ConcatInv, Next, Built, Fits PROVE Promise!Next
    BY DEF vars
  <2>1. /\ total = Len(image) /\ total \in 0 .. MaxU64 /\ pos \in 0 .. MaxU64 /\ MaxU64 \in Nat
        /\ TypeOK /\ Layout /\ pos <= total /\ Wants \subseteq Nat
    BY ConcatAssumption DEF ConcatInv, Layout, TypeOK, PosInImage
  <2>2. ~Place
    BY DEF Place
  <2>3. UNCHANGED image
    BY <2>2 DEF Next, ReadNothing, ReadNowhere, ReadSegment, ReadFails, Seek, SeekFails
  <2>4. ASSUME NEW w \in Wants, ReadNothing(w) PROVE Promise!Read(w)
    <3>1. w = 0 \/ pos = Len(image)
      BY <2>1, <2>4 DEF ReadNothing, Busy
    <3>2. Promise!Chunks(w) = {}
      BY <2>1, <3>1 DEF Promise!Chunks
    <3> QED
      BY <2>4, <3>2 DEF ReadNothing, Got, Promise!Got, Promise!Read
  <2>5. ASSUME NEW w \in Wants, ReadNowhere(w) PROVE FALSE
    BY <2>1, <2>5, Nowhere DEF ReadNowhere, Busy
  <2>6. ASSUME NEW w \in Wants, ReadSegment(w) PROVE Promise!Read(w)
    BY <2>6, SegmentReadIsPromised
  <2>7. ASSUME NEW w \in Wants, ReadFails(w) PROVE Promise!Read(w)
    BY <2>1, <2>7 DEF ReadFails, Busy, ReadError, Promise!Read, Promise!ReadError
  <2>8. ASSUME NEW s \in Seeks, Seek(s) \/ SeekFails(s) PROVE Promise!Seek(s)
    <3>1. Promise!Target(s) = Base(s) + s.off
      BY <2>1 DEF Promise!Target, Promise!Base, Base
    <3>2. CASE Seek(s)
      <4>1. Base(s) + s.off \in 0 .. MaxU64
            /\ pos' = Smaller(Base(s) + s.off, total) /\ ans' = At(s, pos')
        BY <3>2 DEF Seek, InRange, Clamp
      <4> QED
        BY <2>1, <3>1, <4>1 DEF Promise!Seek, Promise!At, At, Smaller
    <3>3. CASE SeekFails(s)
      BY <3>1, <3>3 DEF SeekFails, InRange, SeekError, Promise!Seek, Promise!SeekError
    <3> QED
      BY <2>8, <3>2, <3>3
  <2> QED
    BY <2>2, <2>3, <2>4, <2>5, <2>6, <2>7, <2>8 DEF Next, Promise!Next
<1> QED
  BY <1>1, ConcatHolds, PTL DEF Spec
=============================================================================
