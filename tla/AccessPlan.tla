----------------------------- MODULE AccessPlan -----------------------------
(***************************************************************************)
(* The access plan (core/src/plan.rs) and Archive::member_access           *)
(* (archive.rs): the route to the evidence, chosen by content and by the   *)
(* archive's member table, with no payload decoded.                        *)
(*                                                                         *)
(* A name is load-bearing here for one thing, the segment number it ends   *)
(* in.  Shape(p) tells of a piece of a name which marker stands before its *)
(* closing digits, how many digits those are and what number they make.    *)
(***************************************************************************)
EXTENDS Content

CONSTANTS Shape(_),  \* [marker, width, num] of a piece of a name
          MaxU64     \* u64::MAX: a longer number does not parse

ASSUME AccessPlanAssumption ==
  /\ \A p \in Piece : Shape(p) \in [marker : STRING, width : Nat, num : Nat]
  /\ MaxU64 \in Nat

Access == {"InPlace", "Zran", "SpillToTemp"}

SegmentKind == {"Ewf", "SplitRaw", "SplitVmdk"}

Route == {"Direct", "Wrapper", "Member", "SegmentSet", "Collection", "Open"}

\* A member or a segment in a plan; index 0 is the stream in a bare wrapper.
Segment == [index : Nat, access : Access]

\* An AccessPlan; "Open" is the error a member table that does not parse gives.
Plan == [route : Route, fmt : Format, kind : SegmentKind \cup {"none"}, segs : Seq(Segment)]

PlanOf(route, fmt, kind, segs) == [route |-> route, fmt |-> fmt, kind |-> kind, segs |-> segs]

-----------------------------------------------------------------------------
(* Segment numbers: {} for a name that does not match, else {n} *)

EwfSegment(name) ==
  {n \in {Shape(Last(name)).num} :
     /\ Len(name) > 1
     /\ Shape(Last(name)).marker \in {"e", "ex", "s"} /\ Shape(Last(name)).width = 2}

RawSplit(name) ==
  {n \in {Shape(Last(name)).num} :
     /\ Len(name) > 1 /\ n <= MaxU64
     /\ Shape(Last(name)).marker = "" /\ Shape(Last(name)).width >= 2}

\* The stem's last "-s" is looked for in its last piece.
VmdkSegment(name) ==
  IF ~Ends(name, <<"vmdk">>) THEN {}
  ELSE LET s == Shape(name[Len(name) - 1]) IN
       {n \in {s.num} : s.marker = "-s" /\ s.width > 0 /\ n <= MaxU64}

SegmentNumber(name, kind) ==
  CASE kind = "Ewf" -> EwfSegment(name)
    [] kind = "SplitRaw" -> RawSplit(name)
    [] kind = "SplitVmdk" -> VmdkSegment(name)

\* The kinds all of the files match: one at most, the patterns are disjoint.
SegmentKinds(ms, files) ==
  {kind \in SegmentKind : \A i \in files : SegmentNumber(ms[i].name, kind) # {}}

Number(ms, kind, i) == CHOOSE n \in SegmentNumber(ms[i].name, kind) : TRUE

\* Mutant: equal numbers the other way round.
RankUnstable(ms, kind, files, i) ==
  1 + Cardinality({j \in files : Number(ms, kind, j) < Number(ms, kind, i)
                                 \/ (Number(ms, kind, j) = Number(ms, kind, i) /\ j > i)})

\* The place of file i after sort_by_key, which is stable.
Rank(ms, kind, files, i) ==
  1 + Cardinality({j \in files : Number(ms, kind, j) < Number(ms, kind, i)
                                 \/ (Number(ms, kind, j) = Number(ms, kind, i) /\ j < i)})

\* Mutant: the sort is forgotten.
OrderSegmentsUnsorted(ms, kind, files) ==
  [k \in 1 .. Cardinality(files) |-> CHOOSE i \in files : Cardinality({j \in files : j <= i}) = k]

\* order_segments: the indices of the files by segment number.
OrderSegments(ms, kind, files) ==
  [k \in 1 .. Cardinality(files) |-> CHOOSE i \in files : Rank(ms, kind, files, i) = k]

-----------------------------------------------------------------------------
(* The plan *)

\* Most seekable first; only zip has a method and a window.
MemberAccess(fmt, m) ==
  IF fmt # "Zip" THEN "SpillToTemp"
  ELSE CASE m.method = "stored" -> "InPlace"
         [] m.method = "deflate" -> "Zran"
         [] OTHER -> "SpillToTemp"

\* Mutant: directories are taken for files.
FilesAndDirs(ms) == DOMAIN ms

\* The indices of the file members.
Files(ms) == {i \in DOMAIN ms : ~ms[i].isDir}

\* detect_archive
DetectArchive(w, b, fmt) ==
  LET ms == Entries(w, b, fmt)
      files == Files(ms)
      kinds == SegmentKinds(ms, files)
      At(i) == [index |-> i, access |-> MemberAccess(fmt, ms[i])]
  IN IF ~Opens(w, b, fmt) THEN PlanOf("Open", fmt, "none", <<>>)
     ELSE IF Cardinality(files) >= 2 /\ kinds # {}
     THEN LET kind == CHOOSE kind \in kinds : TRUE
              order == OrderSegments(ms, kind, files)
          IN PlanOf("SegmentSet", fmt, kind, [k \in DOMAIN order |-> At(order[k])])
     ELSE IF Cardinality(files) = 1
     THEN PlanOf("Member", fmt, "none", <<At(CHOOSE i \in files : TRUE)>>)
     ELSE PlanOf("Collection", fmt, "none", <<>>)

\* peek_head: what the first HEAD_PEEK bytes of the stream begin.
PeekHead(w, codec, b) == Streamed(w, codec, b)

WrapperAccess(fmt) == IF fmt = "Gzip" THEN "Zran" ELSE "SpillToTemp"

\* detect_wrapper: the head decides between no wrapper at all, a compressed tar,
\* a layer that is packed again and a plain stream.
DetectWrapper(w, b, fmt) ==
  LET head == PeekHead(w, CodecOf(fmt), b)
      inside == SniffBlob(w, head, NoName)
      access == IF inside = "Unknown" THEN WrapperAccess(fmt) ELSE "SpillToTemp"
  IN IF head = NoBlob THEN PlanOf("Direct", "Unknown", "none", <<>>)
     ELSE IF inside = "Tar"
     THEN DetectArchive(w, b, IF fmt = "Gzip" THEN "TarGz" ELSE "TarBz2")
     ELSE PlanOf("Wrapper", fmt, "none", <<[index |-> 0, access |-> access]>>)

\* detect: name-free.
Detect(w, b) ==
  LET fmt == SniffBlob(w, b, NoName) IN
  IF IsCompressionWrapper(fmt) THEN DetectWrapper(w, b, fmt)
  ELSE IF IsArchive(fmt) THEN DetectArchive(w, b, fmt)
  ELSE PlanOf("Direct", "Unknown", "none", <<>>)
=============================================================================
