---------------------------- MODULE VfsEvidence ----------------------------
(***************************************************************************)
(* The layers a forensic-vfs caller opens one by one, beside the answer of *)
(* resolve() to the same bytes.                                            *)
(***************************************************************************)
EXTENDS VfsOpener, PackingTree

CONSTANT Names  \* names a caller of resolve() may have for the same bytes

ASSUME NamesAssumption == Names \subseteq Name

\* resolve() under limits that only a deeper tree than the opener can have walked
\* comes up against.
Resolved(name) ==
  Answer([world |-> world, root |-> src.holds, name |-> name,
            limits |-> [max_depth |-> MaxOpens + 1, max_total_inflated |-> MaxU64,
                        max_entries |-> MaxU64]])

\* A name that adds nothing to what the content says: it tells no format and keeps
\* doing so, as no extension of it goes with a layer, or it tells a compressed tar of
\* what is one.
Neutral(w, b, name) ==
  \/ SniffName(name) = "Unknown" /\ StripCompressionExt(name) = name
  \/ /\ SniffBlob(w, b, name) \in {"TarGz", "TarBz2"}
     /\ IsCompressionWrapper(SniffBlob(w, b, NoName))
     /\ LET s == ContainerStream(w, b, SniffBlob(w, b, name)) IN
        s \in Blob => SniffBlob(w, s, NoName) = "Tar"

\* A packed tar that does not decode to its end, or not under the cap: Archive::open
\* gets its tar out of the stream all the same, peel_bytes gives nothing.
Overlooked(w, b) ==
  LET fmt == SniffBlob(w, b, NoName)
      s == Streamed(w, CodecOf(fmt), b)
  IN /\ IsCompressionWrapper(fmt)
     /\ s \in Blob /\ w[s].kind = "tar"
     /\ PeelBytes(w, b, fmt) \notin Blob

\* All that can be opened has been.
Complete == pc = "idle" /\ \A k \in DOMAIN tree : ~Probe(tree[k].data)

\* The bytes of the file nodes of an answer.
Leaves(nodes) ==
  FlattenSeq([k \in DOMAIN nodes |-> IF nodes[k].dir THEN <<>> ELSE <<nodes[k].data>>])

\* In whatever order the layers are opened, and whatever the name of the evidence:
\* when none is left the caller has the leaves resolve() gives, in document order,
\* and where resolve() gives leaves, every layer that probe recognised can be opened
\* (vfs.rs:11-15, "the layered model, not a special case"), but for a packed tar that
\* only Archive::open gets to, by its name, without reading the stream to its end or
\* keeping it under the cap of peel_bytes.
SameEvidence ==
  Faithful /\ (Complete \/ lost # {}) =>
    \A name \in Names :
      Neutral(world, src.holds, name) =>
        LET answer == Resolved(name) IN
        /\ Complete => "nodes" \in DOMAIN answer
                       /\ [k \in DOMAIN tree |-> tree[k].data] = Leaves(answer.nodes)
        /\ "nodes" \in DOMAIN answer => \A b \in lost : Overlooked(world, b)
=============================================================================
