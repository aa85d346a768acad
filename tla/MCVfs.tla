------------------------------- MODULE MCVfs -------------------------------
(***************************************************************************)
(* Small worlds for VfsOpener and its comparison with resolve().           *)
(***************************************************************************)
EXTENDS VfsEvidence, MCContent

CONSTANTS b4, b5

\* What b1 may be cut to.
Cuts == (b4 :> Raw(0)) @@ (b5 :> Tar(1, <<>>))

\* Packed files in packed files: trees, sharing, streams and members that do not
\* decode or are too large, packed tars damaged in the tar and behind it or too large,
\* directories in between.
MCWorlds ==
  LET Lists == {<<File(<<"m">>, b2), Dir(<<"d">>), File(<<"n">>, b3)>>,
                <<Dir(<<"d">>), File(<<"m">>, b2)>>,
                <<File(<<"m">>, b3), File(<<"n", "tgz">>, b2)>>}
      Tops == UNION {{Tar(3, ms), ZipOf(2, ms), SevenZipOf(2, ms)} : ms \in Lists}
                \cup {Codec("gzip", 3, b2), Codec("bzip2", 2, b3), BrokenCodec("gzip", 2, b2),
                      Raw(2), ZipOf(1, <<>>)}
      Mids == {Tar(2, <<File(<<"m">>, b3), Dir(<<"d">>)>>), Tar(9, <<File(<<"m">>, b3)>>),
               CutTar(2), BrokenCodec("gzip", 2, b3), ZipOf(2, <<File(<<"m">>, b3)>>),
               Codec("gzip", 2, b3), Raw(1), Codec("bzip2", 1, NoBlob)}
      Lows == {Raw(1), Tar(4, <<File(<<"x">>, NoBlob)>>), Tar(9, <<>>), CutTar(1),
               ZipOf(1, <<>>)}
      \* What is called tgz holds a tar, if anything.
      TgzOk(w) == (\E i \in DOMAIN w[b1].members : Ends(w[b1].members[i].name, <<"tgz">>))
                    => w[b2].kind = "gzip" /\ w[Streamed(w, "gzip", b2)].ustar
  IN {Cuts @@ w : w \in {v \in WorldsOf(Tops, Mids, Lows) : TgzOk(v)}}

MCSources == [holds : {b1}, cut : {b1, b4, b5}]

MCNames == {NoName, <<"a">>, <<"a", "tgz">>, <<"a", "tar", "gz">>}
=============================================================================
