--------------------------- MODULE ResolveAnswers ---------------------------
(***************************************************************************)
(* Resolve beside the answer that the packing tree of its input            *)
(* determines.                                                             *)
(***************************************************************************)
EXTENDS Resolve, PackingTree

\* What a caller of resolve() sees of a state, and what it was promised.
Answered ==
  IF status = "running" THEN [pending |-> TRUE]
  ELSE IF status = "ok" THEN [nodes |-> out] ELSE [error |-> status]

Abstract == INSTANCE ResolveSpec WITH answer <- Answered

\* resolve() gives the one answer its packing tree and limits determine: all
\* the nodes in document order, or the error of the first event that breaks a
\* limit or does not decode (resolve.rs:81-97).
AnswersAsPromised == Abstract!Spec

\* "`foo.E01.gz` must resolve identically to `foo.E01`"
\* (docs/decisions/0006-recursive-resolve-cumulative-bomb-guards.md:14-15): where the last
\* extension names the codec the input is packed with, an Ok answer is the one the
\* bytes it unpacks to have under the name without it.  So it is for .tar.gz and
\* .tar.bz2, which are one layer to the code and two to their name, and of which a
\* stream damaged behind the tar's end unpacks to the tar.
Transparent ==
  LET fmt == SniffBlob(in.world, in.root, in.name)
      inner == Streamed(in.world, CodecOf(fmt), in.root)
  IN status = "ok" /\ fmt \in {"Gzip", "Bzip2", "TarGz", "TarBz2"}
       /\ EndsAny(in.name, {<<"gz">>, <<"bz2">>, <<"z">>}) =>
     Answer([in EXCEPT !.root = inner, !.name = Front(in.name)]) = [nodes |-> out]
=============================================================================
