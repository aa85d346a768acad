----------------------------- MODULE MCResolve -----------------------------
(***************************************************************************)
(* Small worlds for Resolve.  A set of worlds assigns contents to three   *)
(* byte strings in every way, so the packing graphs include chains,        *)
(* sharing and cycles.                                                     *)
(***************************************************************************)
EXTENDS ResolveAnswers, MCContent

\* Limits that let everything through, and each limit tight on its own.
MCLimits ==
  LET lim(d, bytes, n) ==
        [max_depth |-> d, max_total_inflated |-> bytes, max_entries |-> n]
  IN {lim(d, 7, 4) : d \in 0 .. 2} \cup {lim(2, 3, 4), lim(2, 7, 1), lim(3, MaxU64, MaxU64)}

\* Wrappers and names: what the file name decides, with the stripped name below.
MCWrapperWorlds ==
  WorldsOf({Codec("gzip", 1, b2), Codec("bzip2", 1, b2), Codec("gzip", 1, NoBlob), Raw(1),
            BrokenCodec("gzip", 1, b2), Codec("gzip", 1, b1), V7Tar(1, <<File(<<"a">>, b2)>>)},
           {Codec("bzip2", 2, b3), Codec("gzip", 3, b1), Tar(3, <<File(<<"a", "tgz">>, b3)>>),
            V7Tar(2, <<File(<<"a">>, b3)>>), Raw(9), Codec("bzip2", 2, NoBlob),
            BrokenCodec("bzip2", 2, b3)},
           {Raw(2), ZipOf(2, <<>>), Codec("gzip", 2, b2), V7Tar(1, <<Dir(<<"d">>)>>)})

MCWrapperNames ==
  {NoName, <<"a">>, <<"a", "tar">>, <<"a", "tgz">>, <<"a", "tar", "gz">>, <<"a", "tbz">>,
   <<"a", "gz">>, <<"a", "tar", "bz2">>, <<"a", "zip">>, <<"a", "7z">>,
   <<"a", "gz", "bz2">>, <<"a", "bz2">>, <<"a", "gz", "z">>}

\* Archives of archives, in trees and in cycles; a 7z whose first member declares
\* more than the cap.
MCArchiveWorlds ==
  LET Lists(x, y) ==
        {<<File(<<"m">>, x), File(<<"n", "gz">>, y)>>,
         <<Dir(<<"d">>), File(<<"m">>, x), Dir(<<"e">>)>>,
         <<File(<<"m">>, x), File(<<"o">>, NoBlob)>>}
      Archives(size, x, y) ==
        {Tar(size, ms) : ms \in Lists(x, y)} \cup {SevenZipOf(size, ms) : ms \in Lists(x, y)}
      Declared(s) == [File(<<"m">>, b2) EXCEPT !.size = s]
  IN WorldsOf(Archives(2, b2, b3)
                \cup {ZipOf(1, <<File(<<"m">>, b1), File(<<"n">>, b2)>>),
                      SevenZipOf(1, <<Declared(MaxInflated + 1), File(<<"n">>, b3)>>),
                      SevenZipOf(1, <<Declared(0), File(<<"n">>, b3)>>)},
              Archives(1, b3, b1) \cup {Codec("gzip", 1, b3), Raw(1), Raw(9)},
              {Raw(0), Raw(4), Codec("gzip", 1, b2), ZipOf(1, <<File(<<"x">>, b1)>>)})

\* 7z archives with two members of one name.
MCTwinWorlds ==
  WorldsOf({SevenZipOf(1, <<File(<<"m">>, b2), File(<<"m">>, b3)>>)},
           {Raw(1), Codec("gzip", 1, b3)}, {Raw(2), SevenZipOf(1, <<File(<<"x">>, b2)>>)})

MCWorlds == MCWrapperWorlds \cup MCArchiveWorlds

MCNoName == {NoName}

\* Names are tried on wrappers; the magic of an archive decides without one.
MCInit == Init /\ (in.world \in MCWrapperWorlds \/ in.name = NoName)

MCSpec == MCInit /\ [][Next]_vars /\ WF_vars(Next)

\* A gzip file of several members, by itself and inside another layer.
MCMultiWorlds ==
  WorldsOf({MultiGzip(1, b2), Codec("bzip2", 1, b2)}, {Raw(1), MultiGzip(2, b3)}, {Raw(2)})
=============================================================================
