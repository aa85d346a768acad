----------------------------- MODULE VfsOpener -----------------------------
(***************************************************************************)
(* The archive layer as a forensic-vfs opener (core/src/vfs.rs): probe,    *)
(* open with its read_all, and the in-memory sources it hands out.         *)
(*                                                                         *)
(* The opener keeps no state.  What is modelled around it is a caller that *)
(* owns one source and opens, in any order, that source and any that came  *)
(* of it, probed or not; an opened layer's place in the tree is taken by   *)
(* what was in it.  The caller's own source may answer a read short, may   *)
(* fail, and may have fewer bytes than the length it reports; the sources  *)
(* the opener makes do none of these.                                      *)
(***************************************************************************)
EXTENDS Content

CONSTANTS Worlds, Sources,  \* what the caller has
          MaxOpens          \* bound on the calls of open()

\* A source reports the size of `holds` and reads give the bytes of `cut`, all of
\* it or the beginning of it.
Source == [holds : Blob, cut : Blob]

ASSUME VfsAssumption ==
  /\ Worlds \subseteq World /\ Sources \subseteq Source
  /\ MaxOpens \in Nat

VARIABLES world,  \* what the bytes hold
          src,    \* the caller's source
          tree,   \* the sources not opened, in document order
          opens,  \* calls made
          pc,     \* "idle", "read" (read_all), "sniff", "members"
          at,     \* the source being opened
          off,    \* read_all: bytes in the buffer
          data,   \* what was read
          next,   \* the member the loop is at
          got,    \* the members extracted
          ans,    \* what the last call returned: "none", "Ok" or its error
          lost    \* history: the sources of which probe said Yes that were refused

vars == <<world, src, tree, opens, pc, at, off, data, next, got, ans, lost>>

\* A source in the tree; the opener made it, or it is the caller's.
Item == [data : Blob, made : BOOLEAN]

Made(b) == [data |-> b, made |-> TRUE]

Size(b) == world[b].size

\* What reads of the source being opened give, and the length it reports.
Delivers == IF tree[at].made THEN tree[at].data ELSE src.cut

SourceLen == Size(tree[at].data)

\* The opener sees no name.
Fmt == SniffBlob(world, data, NoName)

\* probe() == Confidence::Yes, by the head of the source.
Probe(b) == SniffBlob(world, b, NoName) # "Unknown"
-----------------------------------------------------------------------------
Init ==
  /\ world \in Worlds
  /\ src \in {s \in Sources : s.cut = s.holds \/ Size(s.cut) < Size(s.holds)}
  /\ tree = <<[data |-> src.holds, made |-> FALSE]>>
  /\ opens = 0 /\ pc = "idle"
  /\ at = 1 /\ off = 0 /\ data = NoBlob /\ next = 0 /\ got = <<>>
  /\ ans = "none" /\ lost = {}

Open(k) ==
  /\ pc = "idle" /\ opens < MaxOpens
  /\ opens' = opens + 1
  /\ pc' = "read" /\ at' = k /\ off' = 0
  /\ UNCHANGED <<world, src, tree, data, next, got, ans, lost>>

\* The call returns the error; nothing of what it extracted is kept.
Refuse(e) ==
  /\ pc' = "idle" /\ ans' = e
  /\ data' = NoBlob /\ got' = <<>> /\ next' = 0
  /\ lost' = lost \cup {b \in {Delivers} : e # "Source" /\ Probe(b)}
  /\ UNCHANGED tree

\* The source's place is taken by what was in it.
Replace(items) ==
  /\ tree' = SubSeq(tree, 1, at - 1) \o items \o SubSeq(tree, at + 1, Len(tree))
  /\ pc' = "idle" /\ ans' = "Ok"
  /\ data' = NoBlob /\ got' = <<>> /\ next' = 0
  /\ UNCHANGED lost

\* How many bytes read_at may answer at off with: a BytesSource all it has.
ReadSizes ==
  LET left == Size(Delivers) - off IN
  IF left = 0 THEN {0} ELSE IF tree[at].made THEN {left} ELSE 1 .. left

\* Mutant: one positioned read is taken for the whole.
ReadSomeOnce ==
  /\ pc = "read" /\ off < SourceLen
  /\ \E n \in ReadSizes \ {0} : off' = off + n
  /\ pc' = "sniff" /\ data' = Delivers
  /\ UNCHANGED <<world, src, tree, opens, at, next, got, ans, lost>>

ReadSome ==
  /\ pc = "read" /\ off < SourceLen
  /\ \E n \in ReadSizes \ {0} : off' = off + n
  /\ UNCHANGED <<world, src, tree, opens, pc, at, data, next, got, ans, lost>>

\* Mutant: an empty read does not end the loop.
ReadOverAtLenOnly == off = SourceLen

\* The buffer is full, or a read came back empty.
ReadOver == off = SourceLen \/ 0 \in ReadSizes

\* The buffer is truncated to what came.
EndRead ==
  /\ pc = "read" /\ ReadOver
  /\ pc' = "sniff" /\ data' = Delivers
  /\ UNCHANGED <<world, src, tree, opens, at, off, next, got, ans, lost>>

\* read_at(..)?
ReadFails ==
  /\ pc = "read" /\ off < SourceLen /\ ~tree[at].made
  /\ Refuse("Source")
  /\ UNCHANGED <<world, src, opens, at, off>>

\* A wrapper: the decoded stream is one source.
OpenStream ==
  /\ pc = "sniff" /\ IsCompressionWrapper(Fmt)
  /\ LET r == PeelBytes(world, data, Fmt) IN
     IF r \in Blob THEN Replace(<<Made(r)>>) ELSE Refuse("Decode")
  /\ UNCHANGED <<world, src, opens, at, off>>

\* An archive: Archive::open, and its member list.
OpenMembers ==
  /\ pc = "sniff" /\ IsArchive(Fmt)
  /\ IF Opens(world, data, Fmt)
     THEN pc' = "members" /\ next' = 1 /\ UNCHANGED <<tree, data, got, ans, lost>>
     ELSE Refuse("Decode")
  /\ UNCHANGED <<world, src, opens, at, off>>

\* Neither: a caller that skipped probe, or a source cut short.
NotArchive ==
  /\ pc = "sniff" /\ Fmt = "Unknown"
  /\ Refuse("NotArchive")
  /\ UNCHANGED <<world, src, opens, at, off>>

Table == Entries(world, data, Fmt)

AtMember == pc = "members" /\ next \in DOMAIN Table

\* Mutant: a directory is handed out with a source of its own.
TakeDir ==
  /\ AtMember /\ Table[next].isDir
  /\ next' = next + 1 /\ got' = Append(got, Made(NoBlob))
  /\ UNCHANGED <<world, src, tree, opens, pc, at, off, data, ans, lost>>

SkipDir ==
  /\ AtMember /\ Table[next].isDir
  /\ next' = next + 1
  /\ UNCHANGED <<world, src, tree, opens, pc, at, off, data, got, ans, lost>>

\* Mutant: the index counts the file members.
ReadIndexAmongFiles == 1 + Len(got)

\* The loop's enumerate() counts directories too.
ReadIndex == next

TakeMember ==
  /\ AtMember /\ ~Table[next].isDir
  /\ \E r \in ReadMember(world, data, Fmt, ReadIndex) :
       IF r \in Blob
       THEN /\ got' = Append(got, Made(r)) /\ next' = next + 1
            /\ UNCHANGED <<tree, pc, data, ans, lost>>
       ELSE Refuse("Decode")
  /\ UNCHANGED <<world, src, opens, at, off>>

EndMembers ==
  /\ pc = "members" /\ next > Len(Table)
  /\ Replace(got)
  /\ UNCHANGED <<world, src, opens, at, off>>

\* What a call of open() does by itself.
Step == \/ ReadSome \/ EndRead
        \/ OpenStream \/ OpenMembers \/ NotArchive
        \/ SkipDir \/ TakeMember \/ EndMembers

Next == Step \/ ReadFails \/ \E k \in DOMAIN tree : Open(k)

\* A call runs to its end; nothing makes the caller open anything, or its source
\* fail.
Spec == Init /\ [][Next]_vars /\ WF_vars(Step)
-----------------------------------------------------------------------------
(* Properties *)

\* The variables hold values of their kind.
TypeOK ==
  /\ world \in Worlds /\ src \in Sources
  /\ tree \in Seq(Item)
  /\ opens \in 0 .. MaxOpens
  /\ pc \in {"idle", "read", "sniff", "members"}
  /\ pc # "idle" => at \in DOMAIN tree
  /\ off \in Nat /\ next \in Nat
  /\ data \in Blob \cup {NoBlob} /\ got \in Seq(Item)
  /\ ans \in {"none", "Ok", "Source", "Decode", "NotArchive"}
  /\ lost \subseteq Blob

\* The source has all the bytes it says it has.
Faithful == src.cut = src.holds

\* Once read_all is over the buffer holds the whole of the source, whatever reads
\* came back short (vfs.rs:136, "Read the whole source into a buffer via positioned
\* reads (short-read safe)"), as long as the source has what it says.
WholeIsRead == Faithful /\ pc \in {"sniff", "members"} => off = SourceLen

\* The same of any source: when an archive's member list is complete, which is then
\* the answer, it is the list of the whole source (vfs.rs:136; docs/PRD.md:55-56,
\* "Fails loud on every malformed input ... or lying offset/size ... never a silent
\* truncation").
NeverTruncated == pc = "members" /\ next > Len(Table) => off = SourceLen

\* A call of open() returns, from a source that gives nothing more as well.
Returns == (pc # "idle") ~> (pc = "idle")
=============================================================================
