---------------------------- MODULE MCReassembly ----------------------------
(***************************************************************************)
(* The archives and streams of MCExecutor, put together; and raw split     *)
(* sets, in order and out of it, of every access and mixed ones, put       *)
(* together and read.                                                      *)
(***************************************************************************)
EXTENDS Reassembly, MCExecutor

Part(n, b, method) ==
  [Stored(<<"a", n>>, b, CASE b = b2 -> 3 [] b = b3 -> 1 [] OTHER -> 0)
     EXCEPT !.method = method, !.window = IF method = "stored" THEN b ELSE NoBlob]

\* Every access of either part, the parts out of order, a directory in between; an
\* empty part in the middle, parts that hold the same bytes; a deflated part whose
\* stream does not decode.
SplitLists ==
  {<<Part("002", b2, x), Dir(<<"d">>), Part("001", b3, y)>> :
     x, y \in {"stored", "deflate", "other"}}
  \cup {<<Part("001", b3, "other"), Part("003", b2, x), Part("002", b4, y)>> :
          x, y \in {"stored", "deflate"}}
  \cup {<<Part("002", b3, "deflate"), Part("001", b3, "stored")>>,
        <<Part("001", b3, "stored"),
          [Part("002", b2, "deflate") EXCEPT !.data = NoBlob]>>}

MCSplits ==
  LET plain == {l \in SplitLists : \A i \in DOMAIN l : l[i].method # "deflate"} IN
  {(b4 :> Raw(0)) @@ w :
     w \in WorldsOf({ZipOf(1, ms) : ms \in SplitLists}
                      \cup UNION {{SevenZipOf(1, ms), Tar(1, ms)} : ms \in plain},
                    {Raw(3)}, {Raw(1)})}

MCAllWorlds == MCWorlds \cup MCSplits

MCWants == {2, 5}

MCSeeks ==
  {[whence |-> "start", off |-> 1], [whence |-> "end", off |-> -1],
   [whence |-> "current", off |-> -4], [whence |-> "current", off |-> 1]}

\* The images of raw split sets are read and sought; of the others, only how they
\* are put together is looked at.
MCNext == CallStep \/ (in.world \in MCSplits /\ ImageStep) \/ DropImage

MCSpec == ReassemblyInit /\ [][MCNext]_<<vars, concatVars>>
-----------------------------------------------------------------------------
\* The image the archive's files make, said from its member table alone: the data
\* of each, in the order of their numbers.
PartBytes(m) ==
  [k \in 1 .. m.size |-> IF m.data = NoBlob THEN Missing ELSE ByteAt(m.data, k)]

SplitImage ==
  LET top == in.world[in.root]
      stream == IF top.inner \in Blob THEN top.inner ELSE top.head
      ms == IF stream \in Blob THEN in.world[stream].members ELSE top.members
      part(n) == LET at == {i \in Files(ms) : RawSplit(ms[i].name) = {n}} IN
                 IF at = {} THEN <<>> ELSE PartBytes(ms[CHOOSE i \in at : TRUE])
  IN part(1) \o part(2) \o part(3)

WholeImage == INSTANCE SeekableImage WITH image <- SplitImage

\* From the packed archive to the caller's buffer: whatever mix of windows, zran
\* indices and temp files the parts are behind, reassemble() gives one seekable
\* image, the data of the parts by number (docs/PRD.md:53-54, "Reassembles a
\* segmented image ... into one logical seekable source"; reassemble.rs:63-67), or
\* fails and gives none.
ReadsTheSplitImage == WholeImage!Spec
=============================================================================
