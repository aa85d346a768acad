------------------------------ MODULE Formats ------------------------------
(***************************************************************************)
(* Format determination (core/src/detect.rs) and the two other places that *)
(* read a file name: strip_compression_ext (resolve.rs) and                *)
(* has_compression_ext (archive_layer.rs).                                 *)
(*                                                                         *)
(* A file name is the sequence of its dot-separated pieces in lower case:  *)
(* "disk.tar.gz" is <<"disk", "tar", "gz">>.  Every test the code makes on *)
(* a name is ends_with of a dotted extension, after to_ascii_lowercase, so *)
(* nothing else of the name matters.  The empty sequence is Rust's None.   *)
(*                                                                         *)
(* The head of the data is what the magic tests see of it: which magic it  *)
(* starts with (at most one can hold), and whether "ustar" is at 257.      *)
(***************************************************************************)
EXTENDS SequencesExt

NoName == <<>>

Lead == {"7z", "zip", "gzip", "bzip2", "none"}

Format == {"Gzip", "Bzip2", "TarGz", "TarBz2", "Tar", "Zip", "SevenZip", "Unknown"}

IsCompressionWrapper(fmt) == fmt \in {"Gzip", "Bzip2"}

IsArchive(fmt) == fmt \in {"Tar", "TarGz", "TarBz2", "Zip", "SevenZip"}

\* name.ends_with(".e1.e2"): the pieces of ext, with something before the dot.
Ends(name, ext) == Len(name) > Len(ext) /\ IsSuffix(ext, name)

EndsAny(name, exts) == \E ext \in exts : Ends(name, ext)

TarGzNames == {<<"tgz">>, <<"tar", "gz">>}

\* is_tar_bz2_name
TarBz2Names == {<<"tar", "bz2">>, <<"tbz2">>, <<"tbz">>, <<"tb2">>}

\* A codec's magic: the name tells a compressed tar from a single file.
SniffCodec(name, lead) ==
  CASE lead = "gzip"  -> IF EndsAny(name, TarGzNames) THEN "TarGz" ELSE "Gzip"
    [] lead = "bzip2" -> IF EndsAny(name, TarBz2Names) THEN "TarBz2" ELSE "Bzip2"

\* No magic at all: the name alone, the more specific extensions first.
SniffName(name) ==
  IF Ends(name, <<"7z">>) THEN "SevenZip"
  ELSE IF EndsAny(name, {<<"zip">>, <<"clbx">>}) THEN "Zip"
  ELSE IF EndsAny(name, TarGzNames) THEN "TarGz"
  ELSE IF EndsAny(name, TarBz2Names) THEN "TarBz2"
  ELSE IF Ends(name, <<"tar">>) THEN "Tar"
  ELSE IF Ends(name, <<"gz">>) THEN "Gzip"
  ELSE IF Ends(name, <<"bz2">>) THEN "Bzip2"
  ELSE "Unknown"

\* sniff(name, head): the first test that holds decides.
Sniff(name, lead, ustar) ==
  IF lead = "7z" THEN "SevenZip"
  ELSE IF lead = "zip" THEN "Zip"
  ELSE IF ustar THEN "Tar"
  ELSE IF lead \in {"gzip", "bzip2"} THEN SniffCodec(name, lead)
  ELSE SniffName(name)

\* One trailing bare-compression extension is dropped; tar aliases stay.
StripCompressionExt(name) ==
  IF EndsAny(name, {<<"gz">>, <<"bz2">>, <<"z">>}) THEN Front(name) ELSE name

PackedNames == {<<"gz">>, <<"bz2">>, <<"tgz">>, <<"tar", "gz">>, <<"tbz2">>,
                <<"tar", "bz2">>, <<"zip">>, <<"clbx">>, <<"7z">>}

HasCompressionExt(name) == EndsAny(name, PackedNames)
=============================================================================
