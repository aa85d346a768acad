--------------------------- MODULE SeekableImage ---------------------------
(***************************************************************************)
(* What a seekable source promises its caller: a cursor over one fixed     *)
(* image.  A read answers with the bytes at the cursor, some of them at    *)
(* least when there are any and the buffer is not empty, or fails and      *)
(* moves nothing; a seek stops at the end of the image.  A byte that is    *)
(* Missing was promised by a length and is not there: a read at it answers *)
(* with nothing.                                                           *)
(***************************************************************************)
EXTENDS Integers, Sequences

CONSTANTS Missing,   \* in place of a byte that cannot be had
          Wants,     \* the buffer sizes of reads
          Seeks,     \* the seeks: [whence : {"start", "end", "current"}, off : Int]
          MaxU64     \* u64::MAX, past which a position cannot be

VARIABLES image, \* the bytes; never changed
          pos,   \* the cursor
          ans    \* the last call and what it answered

vars == <<image, pos, ans>>

NoAnswer == [op |-> "none"]

Got(want, bytes) == [op |-> "read", want |-> want, ok |-> TRUE, bytes |-> bytes]
ReadError(want) == [op |-> "read", want |-> want, ok |-> FALSE, bytes |-> <<>>]
At(s, p) == [op |-> "seek", seek |-> s, ok |-> TRUE, at |-> p]
SeekError(s) == [op |-> "seek", seek |-> s, ok |-> FALSE, at |-> 0]

\* The bytes that follow the cursor in one piece.
Chunks(want) ==
  {n \in 1 .. want : pos + n <= Len(image) /\ \A k \in pos + 1 .. pos + n : image[k] # Missing}

Read(want) ==
  \/ \E n \in Chunks(want) :
       /\ pos' = pos + n
       /\ ans' = Got(want, SubSeq(image, pos + 1, pos + n))
  \/ Chunks(want) = {} /\ ans' = Got(want, <<>>) /\ UNCHANGED pos
  \/ pos < Len(image) /\ want > 0 /\ ans' = ReadError(want) /\ UNCHANGED pos

Base(s) ==
  CASE s.whence = "start" -> 0 [] s.whence = "end" -> Len(image) [] OTHER -> pos

Target(s) == Base(s) + s.off

Seek(s) ==
  \/ /\ Target(s) \in 0 .. MaxU64
     /\ pos' = IF Target(s) < Len(image) THEN Target(s) ELSE Len(image)
     /\ ans' = At(s, pos')
  \/ /\ Target(s) \notin 0 .. MaxU64
     /\ ans' = SeekError(s)
     /\ UNCHANGED pos

Init == pos = 0 /\ ans = NoAnswer

Next ==
  /\ UNCHANGED image
  /\ (\E w \in Wants : Read(w)) \/ (\E s \in Seeks : Seek(s))

Spec == Init /\ [][Next]_vars
=============================================================================
