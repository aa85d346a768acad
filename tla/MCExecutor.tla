----------------------------- MODULE MCExecutor -----------------------------
(***************************************************************************)
(* Small archives for Executor and its twin, every method, order and name  *)
(* of a segment set among them.                                            *)
(***************************************************************************)
EXTENDS Twins, MCContent

CONSTANT b4

MCShape(p) ==
  LET shape(marker, width, num) == [marker |-> marker, width |-> width, num |-> num] IN
  CASE p = "001" -> shape("", 3, 1)     [] p = "002" -> shape("", 3, 2)
    [] p = "003" -> shape("", 3, 3)     [] p = "02" -> shape("", 2, 2)
    [] p = "1" -> shape("", 1, 1)       [] p = "e01" -> shape("e", 2, 1)
    [] p = "s02" -> shape("s", 2, 2)    [] p = "ex03" -> shape("ex", 2, 3)
    [] p = "d-s1" -> shape("-s", 1, 1)  [] p = "d-s02" -> shape("-s", 2, 2)
    [] p = "99" -> shape("", 20, MaxU64 + 1)
    [] OTHER -> shape("", 0, 0)

MCPieces ==
  {"", "a", "b", "d", "e", "m", "x", "txt", "gz", "bz2", "tar", "tbz2", "vmdk", "eaa", "1", "02",
   "99", "001", "002", "003", "e01", "s02", "ex03", "d-s1", "d-s02"}

\* Members by their method; what a body decodes to is what its window holds.
Stored(name, b, size) == [File(name, b) EXCEPT !.size = size]
Deflated(name, b, size) == [Stored(name, b, size) EXCEPT !.method = "deflate", !.window = NoBlob]
Coded(name, b, size) == [Stored(name, b, size) EXCEPT !.method = "other", !.window = NoBlob]

\* Where these lists are used b2 has two bytes, b3 three and b4 six.
OneFile ==
  LET m == <<"m">> IN
  {Stored(m, b2, 2), Stored(m, b3, 3), Deflated(m, b3, 3), Coded(m, b3, 3),
   [Stored(m, NoBlob, 2) EXCEPT !.window = b2],   \* wrong CRC
   Stored(m, NoBlob, 4),                          \* its window ends past the archive
   Deflated(m, b2, 5), Deflated(m, NoBlob, 2), Coded(m, NoBlob, 2), Coded(m, b2, 9), Coded(m, b4, 3)}

Lone ==
  {<<f>> : f \in OneFile} \cup {<<Dir(<<"d">>), f, Dir(<<"e">>)>> : f \in OneFile}

\* In order and out of it, directories in between, equal numbers, failing members.
Sets ==
  {<<Deflated(<<"a", "002">>, b2, 2), Dir(<<"d">>), Stored(<<"a", "001">>, b3, 3)>>,
   <<Coded(<<"a", "003">>, b2, 2), Deflated(<<"a", "001">>, b3, 3), Stored(<<"a", "02">>, b2, 2)>>,
   <<Stored(<<"a", "001">>, b2, 2), Stored(<<"a", "002">>, NoBlob, 4)>>,
   <<Dir(<<"d">>), Stored(<<"a", "s02">>, b3, 3), Deflated(<<"a", "e01">>, b2, 2),
     Coded(<<"a", "ex03">>, b2, 2)>>,
   <<Coded(<<"b", "e01">>, b3, 3), Deflated(<<"a", "e01">>, b2, 2)>>,
   <<Deflated(<<"d-s02", "vmdk">>, b2, 2), Coded(<<"d-s1", "vmdk">>, b3, 3)>>,
   <<Deflated(<<"a", "001">>, b2, 2), Coded(<<"a", "002">>, NoBlob, 2)>>}

\* No set: a member without a number, two kinds, numbers too short or too long.
Collections ==
  {<<>>, <<Dir(<<"d">>)>>,
   <<Stored(<<"a", "001">>, b2, 2), Stored(<<"a", "txt">>, b3, 3)>>,
   <<Stored(<<"a", "001">>, b2, 2), Stored(<<"a", "e01">>, b3, 3)>>,
   <<Stored(<<"a", "1">>, b2, 2), Stored(<<"a", "002">>, b3, 3)>>,
   <<Stored(<<"a", "99">>, b2, 2), Stored(<<"a", "001">>, b3, 3)>>,
   <<Stored(<<"a", "eaa">>, b2, 2), Stored(<<"a", "e01">>, b3, 3)>>}

Lists == Lone \cup Sets \cup Collections

\* In a tar the declared size is the size.
TarLists ==
  {ms \in Lists : \A i \in DOMAIN ms : <<ms[i].data, ms[i].size>> \in
     {<<b2, 2>>, <<b3, 3>>} \cup {NoBlob} \X Nat}

PartsOf(roots) == {(b4 :> Raw(6)) @@ w : w \in WorldsOf(roots, {Raw(2)}, {Raw(3)})}

\* Archives of every list.
MCArchives == PartsOf({ZipOf(1, ms) : ms \in Lists} \cup {SevenZipOf(1, ms) : ms \in Lists}
                       \cup {Tar(1, ms) : ms \in TarLists}
                       \cup {[Raw(1) EXCEPT !.lead = "zip"], Raw(1)})

\* Wrapped streams: a packed tar, another layer, plain bytes; ones that break off, at
\* once, in the middle and behind the tar.
MCStreams ==
  LET codecs == {"gzip", "bzip2"}
      broken == {BrokenCodec(c, 1, head) : c \in codecs, head \in {NoBlob, b4}}
      inside == {Tar(3, ms) : ms \in TarLists}
                  \cup {ZipOf(3, <<>>), Codec("gzip", 2, b3), CutTar(5), Raw(5), Raw(2)}
  IN {(b4 :> inner) @@ w : inner \in inside,
        w \in WorldsOf({Codec(c, 1, b4) : c \in codecs} \cup broken, {Raw(2)}, {Raw(3)})}

MCWorlds == MCArchives \cup MCStreams

\* A split set with a number missing.
MCGaps ==
  PartsOf({ZipOf(1, <<Stored(<<"a", "001">>, b2, 2), Stored(<<"a", "003">>, b3, 3)>>)})

MCLimitSet ==
  {[max_total_inflated |-> bytes, max_index_bytes |-> index] : bytes \in {2, 3, 7}, index \in {1, 9}}

MCNames == {NoName, <<"x">>, <<"x", "gz">>, <<"x", "tar", "gz">>, <<"x", "tbz2">>, <<"x", "bz2">>}
=============================================================================
