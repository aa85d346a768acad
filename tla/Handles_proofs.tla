--------------------------- MODULE Handles_proofs ---------------------------
(***************************************************************************)
(* What every handle gives and holds, whatever it is backed by.            *)
(***************************************************************************)
EXTENDS Handles, TLAPS, SequenceTheorems

Bytes == Byte \cup {Missing}

\* The parts of a handle.
LEMMA HandleType ==
  ASSUME NEW src \in Source
  PROVE  /\ src.kind \in {"InPlace", "Zran", "Temp"}
         /\ src.len \in Nat
         /\ src.bytes \in Seq(Byte)
         /\ Len(src.bytes) \in Nat
<1>1. src.bytes \in Seq(Byte)
  BY DEF Source
<1> QED
  BY <1>1, LenProperties DEF Source

\* What a handle holds is as long as it says.
LEMMA ContentType ==
  ASSUME NEW src \in Source
  PROVE  /\ Content(src) \in Seq(Bytes)
         /\ Len(Content(src)) = src.len
<1> DEFINE c == Content(src)
<1>1. src.len \in Nat /\ src.bytes \in Seq(Byte) /\ Len(src.bytes) \in Nat
  BY HandleType
<1>2. \A k \in 1 .. src.len : k <= Len(src.bytes) => src.bytes[k] \in Byte
  BY <1>1, ElementOfSeq
<1>3. c \in [1 .. src.len -> Bytes]
  BY <1>2 DEF Content, Bytes
<1>4. c \in Seq(Bytes)
  BY <1>1, <1>3, SeqDef
<1>5. Len(c) \in Nat /\ DOMAIN c = 1 .. Len(c)
  BY <1>4, LenProperties
<1>6. 1 .. Len(c) = 1 .. src.len
  BY <1>3, <1>5
<1>7. Len(c) = src.len
  BY <1>1, <1>5, <1>6
<1> QED
  BY <1>4, <1>7

\* A piece of a string.
LEMMA SliceType ==
  ASSUME NEW B, NEW bytes \in Seq(B), NEW c \in Nat, NEW n \in Nat,
         n > 0 => c + n <= Len(bytes)
  PROVE  /\ SubSeq(bytes, c + 1, c + n) \in Seq(B)
         /\ Len(SubSeq(bytes, c + 1, c + n)) = n
         /\ \A k \in 1 .. n : SubSeq(bytes, c + 1, c + n)[k] = bytes[c + k]
<1> DEFINE m == c + 1
           e == c + n
<1>1. Len(bytes) \in Nat /\ m \in Int /\ e \in Int
  BY LenProperties
<1>2. \A k \in m .. e : k \in 1 .. Len(bytes)
  BY <1>1
<1>3. \A k \in m .. e : bytes[k] \in B
  BY <1>1, <1>2, ElementOfSeq
<1>4. /\ (IF m <= e THEN e - m + 1 ELSE 0) = n
      /\ e - m + 1 = n
      /\ \A k \in 1 .. n : m + k - 1 = c + k
  OBVIOUS
<1> HIDE DEF m, e
<1>5. /\ SubSeq(bytes, m, e) \in Seq(B)
      /\ Len(SubSeq(bytes, m, e)) = IF m <= e THEN e - m + 1 ELSE 0
      /\ \A k \in 1 .. e - m + 1 : SubSeq(bytes, m, e)[k] = bytes[m + k - 1]
  BY <1>1, <1>3, SubSeqProperties
<1>6. /\ SubSeq(bytes, m, e) \in Seq(B)
      /\ Len(SubSeq(bytes, m, e)) = n
      /\ \A k \in 1 .. n : SubSeq(bytes, m, e)[k] = bytes[c + k]
  BY <1>4, <1>5
<1> QED
  BY <1>6 DEF m, e

\* How many bytes a read gives: no more than it was asked for and there are, and
\* none only where there are none or none was asked for.
LEMMA ReadSizesType ==
  ASSUME NEW src \in Source, NEW c \in Nat, NEW want \in Nat, NEW n \in ReadSizes(src, c, want)
  PROVE  /\ n \in Nat /\ n <= want
         /\ n > 0 => c + n <= Len(src.bytes) /\ c + n <= src.len
         /\ n = 0 => want = 0 \/ src.len <= c \/ Len(src.bytes) <= c
<1> DEFINE bytes == src.bytes
           most == Smaller(want, Smaller(src.len, Len(bytes)) - c)
<1>1. Len(bytes) \in Nat /\ src.len \in Nat
  BY HandleType
<1>2. most \in Int /\ most <= want /\ most <= Len(bytes) - c /\ most <= src.len - c
      /\ (most = want \/ most = src.len - c \/ most = Len(bytes) - c)
  BY <1>1 DEF Smaller
<1>3. n \in Nat /\ (n = 0 \/ (n <= most /\ most > 0)) /\ (n = 0 => most <= 0)
  <2> HIDE DEF most
  <2>1. CASE most <= 0
    BY <2>1 DEF ReadSizes, most
  <2>2. CASE ~(most <= 0)
    <3>1. n = most \/ n \in 1 .. most
      BY <2>2 DEF ReadSizes, most
    <3> QED
      BY <1>2, <2>2, <3>1
  <2> QED
    BY <2>1, <2>2
<1> HIDE DEF most
<1> QED
  BY <1>1, <1>2, <1>3
=============================================================================
