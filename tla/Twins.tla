------------------------------- MODULE Twins -------------------------------
(***************************************************************************)
(* The seekable executor beside the in-memory peel it is the twin of:      *)
(* the same archive, peeled by peel_archive_seekable and by peel_archive.  *)
(***************************************************************************)
EXTENDS Executor, ArchiveLayer

CONSTANT Names  \* the file names a caller of peel_archive may pass

\* "The streaming twin of crate::Peel" (execute.rs:296-297): where the name tells
\* peel_archive the format detect() found, and peel_archive has bytes to give, the
\* seekable call hands out the same bytes, or the temp volume refused; on an archive
\* both say NotPacked, or fail to open it, together; and where the in-memory peel finds
\* a stream broken the seekable one, of whose head alone detect() has decided, neither
\* hands it out nor takes it for plain bytes.
TwinsAgree ==
  pc = "done" /\ in.call = "peel" =>
    \A name \in Names :
      SniffBlob(in.world, in.root, name) = plan.fmt =>
        \A r \in PeelArchive(in.world, in.root, name, Cap) :
          /\ r \in Blob =>
               /\ result \in {"Inner", "Read", "Decode"}
               /\ \A k \in DOMAIN handles : handles[k].bytes = r
          /\ r \in {"NotPacked", "Open"} /\ IsArchive(plan.fmt) => result = r
          /\ r = "Decode" => result \notin {"Inner", "NotPacked"}
=============================================================================
