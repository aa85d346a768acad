----------------------------- MODULE Reassembly -----------------------------
(***************************************************************************)
(* reassemble() and what its caller then does with a raw split set: the    *)
(* executor's call and, once it has its handles, the stitched image over   *)
(* them (core/src/reassemble.rs), read and sought until it is dropped.     *)
(***************************************************************************)
EXTENDS Executor

CONSTANTS Missing, Wants, Seeks

VARIABLES segs, total, pos, cursor, ans,  \* the ConcatSource
          image, mark, run                \* its history

concatVars == <<segs, total, pos, cursor, ans, image, mark, run>>

\* The k-th byte of the byte string b.
ByteAt(b, k) == <<b, k>>

BytesOf(b) == IF b = NoBlob THEN <<>> ELSE [k \in 1 .. Size(b) |-> ByteAt(b, k)]

\* The executor's handles, as ConcatSource::new() takes them.
HandleSource(h) == [kind |-> h.via, len |-> h.len, bytes |-> BytesOf(h.bytes)]

Stitched == INSTANCE ConcatSource WITH
              Byte <- Blob \X Nat, SourceLists <- {},
              sources <- [k \in DOMAIN handles |-> HandleSource(handles[k])]

\* There is an image, and its caller has it.
Open == result = "Concat" /\ handles # <<>>

ReassemblyInit ==
  /\ Init
  /\ segs = <<>> /\ total = 0 /\ pos = 0 /\ cursor = <<>>
  /\ ans = Stitched!NoAnswer
  /\ image = <<>> /\ mark = 0 /\ run = <<>>

\* A step of the call; with its last one the handles go into the image.
CallStep ==
  /\ Next /\ ~Open
  /\ cursor' = [k \in DOMAIN handles' |-> 0]
  /\ UNCHANGED <<segs, total, pos, ans, image, mark, run>>

\* new(), and the caller's reads and seeks.
ImageStep == Open /\ UNCHANGED vars /\ Stitched!Next

\* The caller drops the image, and with it the handles and their files.
DropImage == Open /\ DropHandles /\ UNCHANGED concatVars

ReassemblyNext == CallStep \/ ImageStep \/ DropImage

ReassemblySpec == ReassemblyInit /\ [][ReassemblyNext]_<<vars, concatVars>>
=============================================================================
