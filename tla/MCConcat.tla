----------------------------- MODULE MCConcat ------------------------------
(***************************************************************************)
(* u64 has 8 values.  Every byte of an image is another one, so that a     *)
(* wrong segment or offset shows.  The lists hold handles of all kinds,    *)
(* empty ones first, last and in between, a zran handle with less and one  *)
(* with more in its stream than it declares, and lengths that sum to more  *)
(* than a u64; offsets lead before the start, past the end and out of u64. *)
(***************************************************************************)
EXTENDS ConcatSource, SequencesExt

\* A handle of that kind on the bytes from first to last.
Handle(kind, first, last) ==
  LET bytes == [k \in 1 .. last - first + 1 |-> first + k - 1]
  IN [kind |-> kind, len |-> Len(bytes), bytes |-> bytes]

Declaring(len, src) == [src EXCEPT !.kind = "Zran", !.len = len]

MCByte == 1 .. 9

MCKinds == {"InPlace", "Zran", "Temp"}

MCSources ==
  {<<>>, <<Handle("Temp", 1, 0)>>}
  \cup {<<Handle(k, 1, 2), Handle(l, 3, 4)>> : k \in MCKinds, l \in MCKinds}
  \cup {<<Handle(k, 1, 1), Handle(l, 2, 1), Handle("InPlace", 2, 4)>> : k, l \in MCKinds}
  \cup {<<Handle("Zran", 1, 0), Handle(k, 1, 3), Handle("Temp", 4, 3), Handle("Zran", 4, 5)>> :
          k \in MCKinds}
  \cup {<<Declaring(n, Handle("Zran", 1, 2)), Handle(k, 7, 8)>> : n \in {1, 3}, k \in MCKinds}

\* Lists whose lengths sum to more than a u64 holds, and one of few bytes.
MCWideSources ==
  {<<Handle("Temp", 1, 2)>>} \cup
  {<<Declaring(5, Handle("Zran", 1, 2)), Handle(k, 3, 7)>> : k \in MCKinds}
  \cup {<<Declaring(5, Handle("Zran", 1, 2)), Declaring(5, Handle("Zran", 3, 6)), Handle(k, 1, 6)>> :
          k \in MCKinds}

MCSourceLists == MCSources \cup MCWideSources

MCWants == 0 .. 3

MCSeeks ==
  [whence : {"start"}, off : {0, 1, 3, 5, MaxU64}]
    \cup [whence : {"end", "current"}, off : {-4, -1, 1, 3}]

\* The image of a finished source, said without new().
WholeImage == FlattenSeq([i \in DOMAIN sources |-> Content(sources[i])])

Abstract == INSTANCE SeekableImage WITH image <- WholeImage

\* As long as its lengths fit in a u64, the stitched source is one seekable image, the
\* concatenation of its handles (reassemble.rs:63-67): every answer it gives, that
\* image could have given.
AnswersAsPromised ==
  Abstract!Init /\ [][Len(WholeImage) <= MaxU64 => Abstract!Next]_(Abstract!vars)
=============================================================================
