----------------------------- MODULE MCContent -----------------------------
(***************************************************************************)
(* Small worlds: contents for three byte strings.                          *)
(***************************************************************************)
EXTENDS Content

CONSTANTS b1, b2, b3

Content0(lead, ustar, size, kind) ==
  [lead |-> lead, ustar |-> ustar, size |-> size, kind |-> kind,
   inner |-> NoBlob, head |-> NoBlob, more |-> FALSE, members |-> <<>>]

Raw(size) == Content0("none", FALSE, size, "raw")

\* A compressed stream of b; with NoBlob, one whose magic is all that is right.
Codec(codec, size, b) == [Content0(codec, FALSE, size, codec) EXCEPT !.inner = b]

\* A compressed stream that yields b and breaks off.
BrokenCodec(codec, size, b) == [Codec(codec, size, NoBlob) EXCEPT !.head = b]

\* A gzip file of several members, b in the first.
MultiGzip(size, b) == [Codec("gzip", size, b) EXCEPT !.more = TRUE]

File(name, b) ==
  [name |-> name, isDir |-> FALSE, size |-> 1, data |-> b, method |-> "stored", window |-> b]

Dir(name) == [File(name, NoBlob) EXCEPT !.isDir = TRUE, !.size = 0]

Tar(size, ms) == [Content0("none", TRUE, size, "tar") EXCEPT !.members = ms]

\* A tar that is cut short.
CutTar(size) == [Raw(size) EXCEPT !.ustar = TRUE]

\* A tar without the ustar magic: only its name tells.
V7Tar(size, ms) == [Content0("none", FALSE, size, "tar") EXCEPT !.members = ms]

ZipOf(size, ms) == [Content0("zip", FALSE, size, "zip") EXCEPT !.members = ms]

SevenZipOf(size, ms) == [Content0("7z", FALSE, size, "7z") EXCEPT !.members = ms]

\* Every assignment of contents, so the packing graphs include chains, sharing and
\* cycles.
WorldsOf(c1, c2, c3) ==
  {(b1 :> x) @@ (b2 :> y) @@ (b3 :> z) : x \in c1, y \in c2, z \in c3}

MCPiece == STRING

MCRoot == {b1}
=============================================================================
