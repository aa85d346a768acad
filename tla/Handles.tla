------------------------------ MODULE Handles ------------------------------
(***************************************************************************)
(* The seekable handles of core/src/execute.rs (PeeledSource: SubRange,    *)
(* ZranBacked, TempBacked), as values: what one holds, how far a read of   *)
(* it may get and where a seek leads.                                      *)
(*                                                                         *)
(* A handle has a length and the bytes that can be read from it.  The      *)
(* length of a zran handle is the one its zip entry declares, whatever the *)
(* deflate stream holds.  A file or a zran index may answer a read with    *)
(* fewer bytes than asked for; a window of memory does not.                *)
(***************************************************************************)
EXTENDS Integers, Sequences

CONSTANTS Byte,
          Missing,     \* a byte within a handle's length that its stream has not
          Wants,       \* the buffer sizes of reads
          Seeks,       \* the arguments of seek()
          MaxU64       \* u64::MAX

Source == [kind : {"InPlace", "Zran", "Temp"}, len : Nat, bytes : Seq(Byte)]

SeekFrom == [whence : {"start", "end", "current"}, off : Int]

\* A call and what it answered.
NoAnswer == [op |-> "none"]

Got(want, bytes) == [op |-> "read", want |-> want, ok |-> TRUE, bytes |-> bytes]
ReadError(want) == [op |-> "read", want |-> want, ok |-> FALSE, bytes |-> <<>>]
At(s, p) == [op |-> "seek", seek |-> s, ok |-> TRUE, at |-> p]
SeekError(s) == [op |-> "seek", seek |-> s, ok |-> FALSE, at |-> 0]

Smaller(a, b) == IF a <= b THEN a ELSE b

\* What a handle holds: its length in bytes, some of them Missing.
Content(src) == [k \in 1 .. src.len |-> IF k <= Len(src.bytes) THEN src.bytes[k] ELSE Missing]

\* Mutant: a read gives what there is, not what was asked for.
ReadSizesUnasked(src, c, want) == {Smaller(src.len, Len(src.bytes)) - c, 0} \cap Nat

\* How many bytes a handle may answer a read of want at c with.  The zip reader
\* gives none past the length its entry declares.
ReadSizes(src, c, want) ==
  LET most == Smaller(want, Smaller(src.len, Len(src.bytes)) - c) IN
  IF most <= 0 THEN {0}
  ELSE IF src.kind = "InPlace" THEN {most}
  ELSE 1 .. most

\* Mutant: no seek is stopped.
SeekToUnbounded(src, target) == target

\* Where a seek to target leads: a file goes anywhere, the others stop at their
\* length.
SeekTo(src, target) == IF src.kind = "Temp" THEN target ELSE Smaller(target, src.len)
=============================================================================
