--------------------------- MODULE ConcatSource ----------------------------
(***************************************************************************)
(* One logical image over the handles of a raw split set                   *)
(* (core/src/reassemble.rs: ConcatSource), each a PeeledSource with a      *)
(* cursor of its own (execute.rs: SubRange, ZranBacked, TempBacked).       *)
(***************************************************************************)
EXTENDS Handles

CONSTANTS SourceLists \* the arguments of new() considered

\* new_shared() has checked the window, spill() has counted the bytes.
ASSUME ConcatAssumption ==
  /\ MaxU64 \in Nat /\ Missing \notin Byte
  /\ SourceLists \subseteq Seq(Source)
  /\ \A list \in SourceLists : \A i \in DOMAIN list :
       list[i].len <= MaxU64 /\ (list[i].kind # "Zran" => list[i].len = Len(list[i].bytes))
  /\ Wants \subseteq Nat
  /\ Seeks \subseteq SeekFrom

VARIABLES sources, \* the handles, in segment order
          segs,    \* ConcatSource.segs, without the handles: start and len
          total,   \* ConcatSource.total; while new() runs, its running offset
          pos,     \* ConcatSource.pos
          cursor,  \* the cursor of each handle
          ans,     \* the last call and what it answered
          image,   \* history: what the handles placed so far hold, one after the other
          mark,    \* history: where the last seek led
          run      \* history: the bytes read since

vars == <<sources, segs, total, pos, cursor, ans, image, mark, run>>

\* Mutant: the sum is not kept to a u64.
AddUnbounded(a, n) == a + n

\* u64's saturating_add, and its + and - (a release build wraps).
SatAdd(a, n) == Smaller(a + n, MaxU64)
Plus(a, b) == IF a + b > MaxU64 THEN a + b - (MaxU64 + 1) ELSE a + b
Minus(a, b) == IF a < b THEN a - b + (MaxU64 + 1) ELSE a - b

Built == Len(segs) = Len(sources)
-----------------------------------------------------------------------------
Init ==
  /\ sources \in SourceLists
  /\ segs = <<>> /\ total = 0 /\ pos = 0
  /\ cursor = [i \in DOMAIN sources |-> 0]
  /\ ans = NoAnswer
  /\ image = <<>> /\ mark = 0 /\ run = <<>>

\* One turn of the loop of new().
Place ==
  /\ ~Built
  /\ LET src == sources[Len(segs) + 1] IN
     /\ segs' = Append(segs, [start |-> total, len |-> src.len])
     /\ total' = SatAdd(total, src.len)
     /\ image' = image \o Content(src)
  /\ UNCHANGED <<sources, pos, cursor, ans, mark, run>>

\* Mutant: the search is off by one byte.
SegAtLate(p) ==
  {i \in 1 .. Len(segs) + 1 :
     /\ i > 1 => Plus(segs[i - 1].start, segs[i - 1].len) < p
     /\ i <= Len(segs) => Plus(segs[i].start, segs[i].len) >= p}

\* Mutant: a segment whose last byte is p counts as ended.
SegAtEarly(p) ==
  {i \in 1 .. Len(segs) + 1 :
     /\ i > 1 => Plus(segs[i - 1].start, segs[i - 1].len) <= p + 1
     /\ i <= Len(segs) => Plus(segs[i].start, segs[i].len) > p + 1}

\* seg_at: partition_point halves the vector, so all it knows of the index it
\* returns is that the segment before ends at or before p and this one does not.
\* Len(segs) + 1 stands for None.
SegAt(p) ==
  {i \in 1 .. Len(segs) + 1 :
     /\ i > 1 => Plus(segs[i - 1].start, segs[i - 1].len) <= p
     /\ i <= Len(segs) => Plus(segs[i].start, segs[i].len) > p}

\* Mutant: the handle is read where its last read left it.
LocalSeekForgotten(i, local) == cursor[i]

\* seg.source.seek(Start(local))
LocalSeek(i, local) == SeekTo(sources[i], local)

LocalReads(i, c, want) == ReadSizes(sources[i], c, want)

\* read() has something to do.
Busy(want) == Built /\ want > 0 /\ pos < total

\* Nothing asked for, or at the end.
ReadNothing(want) ==
  /\ Built /\ ~Busy(want)
  /\ ans' = Got(want, <<>>)
  /\ UNCHANGED <<sources, segs, total, pos, cursor, image, mark, run>>

\* No segment has pos: "unreachable" for the code.
ReadNowhere(want) ==
  /\ Busy(want) /\ Len(segs) + 1 \in SegAt(pos)
  /\ ans' = Got(want, <<>>)
  /\ UNCHANGED <<sources, segs, total, pos, cursor, image, mark, run>>

\* The read goes to segment i, at local in it, for what is left of it at most.
Local(i) == Minus(pos, segs[i].start)

LocalWant(i, want) == Smaller(want, Minus(segs[i].len, Local(i)))

\* Mutant: the cursor moves by what was asked for.
MovedByWant(n, want) == pos' = SatAdd(pos, want)

\* self.pos += n
Moved(n, want) == pos' = SatAdd(pos, n)

ReadSegment(want) ==
  /\ Busy(want)
  /\ \E i \in SegAt(pos) \ {Len(segs) + 1} :
       LET c == LocalSeek(i, Local(i)) IN
       \E n \in LocalReads(i, c, LocalWant(i, want)) :
         LET bytes == SubSeq(sources[i].bytes, c + 1, c + n) IN
         /\ cursor' = [cursor EXCEPT ![i] = c + n]
         /\ Moved(n, want)
         /\ ans' = Got(want, bytes)
         /\ run' = run \o bytes
  /\ UNCHANGED <<sources, segs, total, image, mark>>

\* The handle fails in its seek or in its read; `?` before pos is moved.
ReadFails(want) ==
  /\ Busy(want)
  /\ \E i \in SegAt(pos) \ {Len(segs) + 1} :
       /\ sources[i].kind # "InPlace"
       /\ \/ sources[i].kind = "Temp" /\ UNCHANGED cursor
          \/ cursor' = [cursor EXCEPT ![i] = LocalSeek(i, Local(i))]
  /\ ans' = ReadError(want)
  /\ UNCHANGED <<sources, segs, total, pos, image, mark, run>>

\* Mutant: a seek is not stopped at the end.
ClampForgotten(t) == t

Clamp(t) == Smaller(t, total)

\* What the offset of a seek is added to; offset_from fails out of range.
Base(s) == CASE s.whence = "start" -> 0 [] s.whence = "end" -> total [] OTHER -> pos

InRange(s) == Base(s) + s.off \in 0 .. MaxU64

Seek(s) ==
  /\ Built /\ InRange(s)
  /\ pos' = Clamp(Base(s) + s.off)
  /\ ans' = At(s, pos')
  /\ mark' = pos' /\ run' = <<>>
  /\ UNCHANGED <<sources, segs, total, cursor, image>>

SeekFails(s) ==
  /\ Built /\ ~InRange(s)
  /\ ans' = SeekError(s)
  /\ UNCHANGED <<sources, segs, total, pos, cursor, image, mark, run>>

Next ==
  \/ Place
  \/ \E w \in Wants : ReadNothing(w) \/ ReadNowhere(w) \/ ReadSegment(w) \/ ReadFails(w)
  \/ \E s \in Seeks : Seek(s) \/ SeekFails(s)

\* Nothing makes a caller read or seek.
Spec == Init /\ [][Next]_vars
-----------------------------------------------------------------------------
(* Properties *)

\* The variables hold values of their kind.
TypeOK ==
  /\ sources \in SourceLists
  /\ segs \in Seq([start : 0 .. MaxU64, len : 0 .. MaxU64]) /\ Len(segs) <= Len(sources)
  /\ total \in 0 .. MaxU64 /\ pos \in 0 .. MaxU64 /\ mark \in 0 .. MaxU64
  /\ cursor \in [DOMAIN sources -> Nat]
  /\ image \in Seq(Byte \cup {Missing}) /\ run \in Seq(Byte)

\* The lengths add up within a u64: no sum saturated or wrapped.
Fits == Len(image) <= MaxU64

\* The position stays within the image whatever is sought, read or fails
\* (reassemble.rs:66-67, "seek is bounded"), and also where lengths overflow.
PosInImage == pos <= total

\* However reads, short reads, failed reads and seeks mix, and wherever the
\* handles were left: the bytes read since the last seek are those of the image
\* from there to the position, none skipped, repeated or of another segment
\* (reassemble.rs:63-66, what a caller's read_exact across segments relies on).
Stitched == Fits => pos = mark + Len(run) /\ run = SubSeq(image, mark + 1, pos)

\* Nothing read into a buffer that has room means the end of the image, or a byte
\* that its handle's length promised and its stream has not.
EofIsEnd ==
  Fits /\ ans.op = "read" /\ ans.ok =>
    (ans.want > 0 /\ ans.bytes = <<>> => pos >= total \/ image[pos + 1] = Missing)

\* "pos < total" means "a segment contains it": what new() adds up and what
\* seg_at adds up agree (reassemble.rs:136).
SegmentFound == Fits /\ Built /\ pos < total => SegAt(pos) # {Len(segs) + 1}
=============================================================================
