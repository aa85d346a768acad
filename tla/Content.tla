------------------------------ MODULE Content ------------------------------
(***************************************************************************)
(* What byte strings hold, and what the readers over them return:          *)
(* peel_bytes and the decoders (core/src/peel.rs) and Archive::open and    *)
(* Archive::read over their tar, zip and 7z backends (archive.rs).         *)
(*                                                                         *)
(* A byte string is a member of Blob.  A world w says what each of them    *)
(* is: the magic sniff sees (lead, ustar), its size, and what a backend    *)
(* finds in it (kind).  A gzip or bzip2 stream decodes to w[b].inner; of a *)
(* gzip file of several members (w[b].more) that is the first one, where   *)
(* GzDecoder stops.  One that breaks off, or whose checksum is wrong, has  *)
(* no inner, and w[b].head is what it yields before that, if it yields as  *)
(* much as peek_head's 512 bytes.  The parser of a tar stops at the tar's  *)
(* end block: a tar of a world has its own, so that a head which is a tar  *)
(* is a stream damaged after it, and a tar that is cut short is raw bytes, *)
(* with the ustar magic if it had it.  An archive lists w[b].members, each *)
(* with its recorded name, its declared size, the data its body decodes to *)
(* and, for a stored zip member, the bytes of its window in the archive.   *)
(* NoBlob is a stream or body that does not decode, and a window past the  *)
(* archive's end.  Worlds may be cyclic: an archive that holds itself is   *)
(* the quine the depth guard is for.                                       *)
(***************************************************************************)
EXTENDS Formats

CONSTANTS Piece,        \* the pieces file names are made of
          EmptyPiece,   \* the piece "": <<EmptyPiece>> is the empty name
          Blob,         \* the byte strings
          NoBlob,       \* a body that does not decode
          MaxInflated   \* peel::MAX_INFLATED, the cap on one decompression

Name == Seq(Piece)

\* The ArchiveError variants these readers and resolve() return.
ReadErrors == {"Decode", "TooLarge", "Open", "Read"}

ASSUME ContentAssumption ==
  /\ EmptyPiece \in Piece
  /\ NoBlob \notin Blob
  /\ Blob \cap ReadErrors = {}
  /\ MaxInflated \in Nat

Kind == {"raw", "gzip", "bzip2", "tar", "zip", "7z"}

\* The compression method of a zip member; what else a member may be is "other".
Method == {"stored", "deflate", "other"}

Member == [name : Name, isDir : BOOLEAN, size : Nat, data : Blob \cup {NoBlob},
           method : Method, window : Blob \cup {NoBlob}]

World == [Blob -> [lead : Lead, ustar : BOOLEAN, size : Nat, kind : Kind,
                   inner : Blob \cup {NoBlob}, head : Blob \cup {NoBlob}, more : BOOLEAN,
                   members : Seq(Member)]]

SniffBlob(w, b, name) == Sniff(name, w[b].lead, w[b].ustar)

\* What a GzDecoder / DecoderReader of that codec yields over b, read to its end.
Inflate(w, codec, b) == IF w[b].kind = codec THEN w[b].inner ELSE NoBlob

\* What it yields to a reader that stops when it has enough: all of a sound stream, and
\* of a damaged one what comes before the damage.
Streamed(w, codec, b) ==
  IF w[b].kind # codec THEN NoBlob
  ELSE IF w[b].inner # NoBlob THEN w[b].inner ELSE w[b].head

CodecOf(fmt) == IF fmt \in {"Gzip", "TarGz"} THEN "gzip" ELSE "bzip2"

\* The read stops one byte past the cap, before it comes to a damage further on.
PastCap(w, r) == r \in Blob /\ w[r].size > MaxInflated

\* Mutant: no cap on a decoded wrapper.
PeelBytesUncapped(w, b, fmt) ==
  LET inner == Inflate(w, CodecOf(fmt), b) IN IF inner = NoBlob THEN "Decode" ELSE inner

\* decode_gzip / decode_bzip2, chosen by peel_bytes from the sniffed format.
PeelBytes(w, b, fmt) ==
  LET inner == Inflate(w, CodecOf(fmt), b) IN
  IF PastCap(w, Streamed(w, CodecOf(fmt), b)) THEN "TooLarge"
  ELSE IF inner = NoBlob THEN "Decode"
  ELSE inner

\* tar_stream: a lazy decoder, of which the tar parser reads up to the tar's end.
ContainerStream(w, b, fmt) ==
  IF fmt \in {"TarGz", "TarBz2"} THEN Streamed(w, CodecOf(fmt), b) ELSE b

ContainerKind(fmt) ==
  CASE fmt = "Zip" -> "zip" [] fmt = "SevenZip" -> "7z" [] OTHER -> "tar"

\* open_with_format succeeds when the backend finds its directory there; of a packed
\* tar it does not read what follows the tar's end, the stream's checksum neither.
Opens(w, b, fmt) ==
  LET stream == ContainerStream(w, b, fmt) IN
  stream # NoBlob /\ w[stream].kind = ContainerKind(fmt)

\* Archive::entries, in archive order; none for what is not an archive.
Entries(w, b, fmt) ==
  IF IsArchive(fmt) /\ Opens(w, b, fmt)
  THEN w[ContainerStream(w, b, fmt)].members ELSE <<>>

\* The body of one member through take(cap + 1) and the check after it.
ReadBody(w, data) ==
  IF data = NoBlob THEN "Read"
  ELSE IF w[data].size > MaxInflated THEN "TooLarge"
  ELSE data

\* Mutant: the backend counts from the member before.
ReadTargetsOffByOne(w, b, fmt, i) == IF i > 1 THEN {i - 1} ELSE {1}

\* The members a read of index i may return: tar and zip go by index, 7z asks
\* sevenz-rust2 for the NAME, and any member so called may answer.
ReadTargets(w, b, fmt, i) ==
  LET ms == Entries(w, b, fmt) IN
  IF fmt = "SevenZip" THEN {j \in DOMAIN ms : ms[j].name = ms[i].name} ELSE {i}

\* Archive::read(i): the results it may give.  7z checks the declared size of
\* entry i before it decodes.
ReadMember(w, b, fmt, i) ==
  LET ms == Entries(w, b, fmt) IN
  IF fmt = "SevenZip" /\ ms[i].size > MaxInflated THEN {"TooLarge"}
  ELSE {ReadBody(w, ms[j].data) : j \in ReadTargets(w, b, fmt, i)}
=============================================================================
