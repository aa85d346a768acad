---------------------------- MODULE PeeledSource ----------------------------
(***************************************************************************)
(* One peeled handle in the hands of its caller, who reads and seeks in    *)
(* any order (core/src/execute.rs: Read and Seek of SubRange, ZranBacked,  *)
(* TempBacked and PeeledSource, which passes on to them).                  *)
(*                                                                         *)
(* A TempBacked is a file and seeks as files do: its position is an i64    *)
(* and may lie past the end.                                               *)
(***************************************************************************)
EXTENDS Handles

CONSTANTS Opened,  \* the handles considered
          MaxI64   \* i64::MAX

\* new_shared() has checked the window, spill() has counted the bytes.
ASSUME PeeledAssumption ==
  /\ MaxU64 \in Nat /\ MaxI64 \in 0 .. MaxU64 /\ Missing \notin Byte
  /\ Opened \subseteq Source
  /\ \A src \in Opened :
       src.len <= MaxI64 /\ (src.kind # "Zran" => src.len = Len(src.bytes))
  /\ Wants \subseteq Nat
  /\ Seeks \subseteq SeekFrom

VARIABLES src,   \* the handle
          pos,   \* its cursor
          ans,   \* the last call and what it answered
          mark,  \* history: where the last seek led
          run    \* history: the bytes read since

vars == <<src, pos, ans, mark, run>>

Init ==
  /\ src \in Opened
  /\ pos = 0 /\ ans = NoAnswer
  /\ mark = 0 /\ run = <<>>

\* Mutant: the cursor moves by what was asked for.
MovedByWant(n, want) == pos' = pos + want

Moved(n, want) == pos' = pos + n

Read(want) ==
  \E n \in ReadSizes(src, pos, want) :
    LET bytes == SubSeq(src.bytes, pos + 1, pos + n) IN
    /\ Moved(n, want)
    /\ ans' = Got(want, bytes)
    /\ run' = run \o bytes
    /\ UNCHANGED <<src, mark>>

\* Mutant: the cursor is moved and then the read fails.
ReadFailsLate(want) ==
  /\ src.kind # "InPlace" /\ want > 0 /\ pos < src.len
  /\ pos' = Smaller(pos + want, src.len)
  /\ ans' = ReadError(want)
  /\ UNCHANGED <<src, mark, run>>

\* `?` before the cursor is moved; memory does not fail.
ReadFails(want) ==
  /\ src.kind # "InPlace" /\ want > 0 /\ pos < src.len
  /\ ans' = ReadError(want)
  /\ UNCHANGED <<src, pos, mark, run>>

Base(s) == CASE s.whence = "start" -> 0 [] s.whence = "end" -> src.len [] OTHER -> pos

\* offset_from fails out of u64, and the system call out of i64.
InRange(s) == Base(s) + s.off \in 0 .. (IF src.kind = "Temp" THEN MaxI64 ELSE MaxU64)

Seek(s) ==
  /\ InRange(s)
  /\ pos' = SeekTo(src, Base(s) + s.off)
  /\ ans' = At(s, pos')
  /\ mark' = pos' /\ run' = <<>>
  /\ UNCHANGED src

SeekFails(s) ==
  /\ ~InRange(s)
  /\ ans' = SeekError(s)
  /\ UNCHANGED <<src, pos, mark, run>>

Next ==
  \/ \E w \in Wants : Read(w) \/ ReadFails(w)
  \/ \E s \in Seeks : Seek(s) \/ SeekFails(s)

\* Nothing makes a caller read or seek.
Spec == Init /\ [][Next]_vars
-----------------------------------------------------------------------------
(* Properties *)

\* The variables hold values of their kind.
TypeOK ==
  /\ src \in Opened
  /\ pos \in 0 .. MaxU64 /\ mark \in 0 .. MaxU64
  /\ ans.op \in {"none", "read", "seek"}
  /\ run \in Seq(Byte)

\* A window's position never passes its length, whatever is sought: a read takes
\* `self.len - self.pos` in u64 and slices the whole archive by it
\* (execute.rs:111-117, "pos <= len").
PosInWindow == src.kind # "Temp" => pos <= src.len

\* What is read between two seeks is one contiguous piece of the handle's bytes,
\* from where the seek led, none skipped or repeated by a short or a failed read;
\* also where a file was positioned past its end.
Contiguous ==
  /\ pos = mark + Len(run)
  /\ \A k \in DOMAIN run : mark + k <= src.len /\ run[k] = Content(src)[mark + k]

Image == INSTANCE SeekableImage WITH image <- Content(src)

\* A window or a zran handle is one seekable image (execute.rs:36-40, 181-184): every
\* answer it gives, that image could have given.  A file is not: it may be positioned
\* past its end.
AnswersAsPromised == Image!Init /\ [][src.kind # "Temp" => Image!Next]_(Image!vars)
=============================================================================
