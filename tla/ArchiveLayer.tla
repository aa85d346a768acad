---------------------------- MODULE ArchiveLayer ----------------------------
(***************************************************************************)
(* The in-memory archive layer (core/src/archive_layer.rs): one bare       *)
(* wrapper peeled, or the lone member of an archive extracted.             *)
(***************************************************************************)
EXTENDS Content

\* An error is no byte string.
ASSUME ArchiveLayerAssumption == Blob \cap {"NotPacked", "TotalInflatedExceeded"} = {}

\* The cap on a single extraction.
CapInner(w, r, max) ==
  IF r \in Blob /\ w[r].size > max THEN "TotalInflatedExceeded" ELSE r

\* peel_archive: what it may answer, "NotPacked", bytes or an error.
PeelArchive(w, b, name, max) ==
  LET fmt == SniffBlob(w, b, name)
      ms == Entries(w, b, fmt)
      files == {i \in DOMAIN ms : ~ms[i].isDir}
  IN IF IsCompressionWrapper(fmt)
     THEN IF HasCompressionExt(name) THEN {CapInner(w, PeelBytes(w, b, fmt), max)}
          ELSE {"NotPacked"}
     ELSE IF ~IsArchive(fmt) THEN {"NotPacked"}
     ELSE IF ~Opens(w, b, fmt) THEN {"Open"}
     ELSE IF Cardinality(files) # 1 THEN {"NotPacked"}
     ELSE {CapInner(w, r, max) : r \in UNION {ReadMember(w, b, fmt, i) : i \in files}}
=============================================================================
