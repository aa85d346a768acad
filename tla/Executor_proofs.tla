--------------------------- MODULE Executor_proofs ---------------------------
(***************************************************************************)
(* Theorems about the access plan, its order of a segment set and the kind *)
(* of its parts, and about the executor that follows it, for every world   *)
(* and all limits.                                                         *)
(***************************************************************************)
EXTENDS Twins, SequenceTheorems, FiniteSetTheorems, TLAPS

-----------------------------------------------------------------------------
\* A function on 1 .. n is a sequence.
LEMMA FunctionIsSeq ==
  ASSUME NEW S, NEW n \in Nat, NEW f \in [1 .. n -> S]
  PROVE  f \in Seq(S)
BY SeqDef, Zenon

-----------------------------------------------------------------------------
(* Segment numbers *)

\* A name has at most one number under a kind, a natural one (plan.rs:259-325).
LEMMA SegmentNumberType ==
  ASSUME NEW name \in Name, NEW kind \in SegmentKind
  PROVE  /\ SegmentNumber(name, kind) \subseteq Nat
         /\ \A m, n \in SegmentNumber(name, kind) : m = n
<1>1. CASE kind = "Ewf"
  <2>1. ASSUME Len(name) > 1 PROVE Shape(Last(name)).num \in Nat
    BY <2>1, AccessPlanAssumption, LenProperties, ElementOfSeq DEF Last, Name
  <2> QED
    BY <1>1, <2>1 DEF SegmentNumber, EwfSegment
<1>2. CASE kind = "SplitRaw"
  <2>1. ASSUME Len(name) > 1 PROVE Shape(Last(name)).num \in Nat
    BY <2>1, AccessPlanAssumption, LenProperties, ElementOfSeq DEF Last, Name
  <2> QED
    BY <1>2, <2>1 DEF SegmentNumber, RawSplit
<1>3. CASE kind = "SplitVmdk"
  <2>1. ASSUME Ends(name, <<"vmdk">>) PROVE Shape(name[Len(name) - 1]).num \in Nat
    <3>1. Len(name) \in Nat /\ Len(name) > 1
      BY <2>1, LenProperties DEF Ends, Name
    <3>2. name[Len(name) - 1] \in Piece
      BY <3>1, ElementOfSeq DEF Name
    <3> QED
      BY <3>2, AccessPlanAssumption
  <2> QED
    BY <1>3, <2>1 DEF SegmentNumber, VmdkSegment
<1> QED
  BY <1>1, <1>2, <1>3 DEF SegmentKind

-----------------------------------------------------------------------------
(* The order of a set *)

\* File i comes before file j: a smaller number, or the same and earlier in the
\* archive.
Precedes(ms, kind, i, j) ==
  \/ Number(ms, kind, i) < Number(ms, kind, j)
  \/ Number(ms, kind, i) = Number(ms, kind, j) /\ i < j

\* The files before file i.
Before(ms, kind, files, i) == {j \in files : Precedes(ms, kind, j, i)}

\* What classify_segment_kind has checked when order_segments is called.
Numbered(ms, kind, files) ==
  /\ ms \in Seq(Member) /\ kind \in SegmentKind /\ files \subseteq DOMAIN ms
  /\ \A i \in files : SegmentNumber(ms[i].name, kind) # {}

\* Files have natural numbers, so that Precedes is a strict linear order on them.
LEMMA PrecedesIsLinear ==
  ASSUME NEW ms, NEW kind, NEW files, Numbered(ms, kind, files)
  PROVE  /\ \A i \in files : i \in Nat /\ Number(ms, kind, i) \in Nat
         /\ \A i \in files : Number(ms, kind, i) \in SegmentNumber(ms[i].name, kind)
         /\ \A i \in files : ~Precedes(ms, kind, i, i)
         /\ \A i, j \in files : i = j \/ Precedes(ms, kind, i, j) \/ Precedes(ms, kind, j, i)
         /\ \A i, j, k \in files :
              Precedes(ms, kind, i, j) /\ Precedes(ms, kind, j, k) => Precedes(ms, kind, i, k)
<1>1. ASSUME NEW i \in files
      PROVE  /\ i \in Nat
             /\ Number(ms, kind, i) \in SegmentNumber(ms[i].name, kind)
             /\ Number(ms, kind, i) \in Nat
  <2>1. i \in 1 .. Len(ms) /\ Len(ms) \in Nat
    BY <1>1, LenProperties DEF Numbered
  <2>2. ms[i].name \in Name
    <3>1. ms[i] \in Member
      BY <2>1, ElementOfSeq DEF Numbered
    <3> QED
      BY <3>1 DEF Member
  <2>3. Number(ms, kind, i) \in SegmentNumber(ms[i].name, kind)
    BY <1>1 DEF Number, Numbered
  <2> QED
    BY <2>1, <2>2, <2>3, SegmentNumberType DEF Numbered
<1> QED
  BY <1>1 DEF Precedes

\* The places are those from the first to the last, and follow the order.
LEMMA RankFollowsOrder ==
  ASSUME NEW ms, NEW kind, NEW files, Numbered(ms, kind, files)
  PROVE  /\ IsFiniteSet(files)
         /\ \A i \in files : Rank(ms, kind, files, i) \in 1 .. Cardinality(files)
         /\ \A i, j \in files : Precedes(ms, kind, i, j) =>
              Rank(ms, kind, files, i) < Rank(ms, kind, files, j)
<1>1. IsFiniteSet(files)
  <2>1. DOMAIN ms = 1 .. Len(ms) /\ Len(ms) \in Nat
    BY LenProperties DEF Numbered
  <2>2. IsFiniteSet(1 .. Len(ms))
    BY <2>1, FS_Interval
  <2> QED
    BY <2>1, <2>2, FS_Subset DEF Numbered
<1>2. ASSUME NEW i \in files
      PROVE  /\ IsFiniteSet(Before(ms, kind, files, i))
             /\ Cardinality(Before(ms, kind, files, i)) \in Nat
             /\ Cardinality(Before(ms, kind, files, i)) < Cardinality(files)
             /\ Rank(ms, kind, files, i) = 1 + Cardinality(Before(ms, kind, files, i))
  <2>1. Before(ms, kind, files, i) \subseteq files \ {i}
    BY PrecedesIsLinear DEF Before
  <2>2. IsFiniteSet(files \ {i}) /\ Cardinality(files \ {i}) = Cardinality(files) - 1
    BY <1>1, <1>2, FS_RemoveElement
  <2>3. /\ IsFiniteSet(Before(ms, kind, files, i))
        /\ Cardinality(Before(ms, kind, files, i)) <= Cardinality(files) - 1
    BY <2>1, <2>2, FS_Subset
  <2>4. Cardinality(files) \in Nat /\ Cardinality(Before(ms, kind, files, i)) \in Nat
    BY <1>1, <2>3, FS_CardinalityType
  <2>5. Rank(ms, kind, files, i) = 1 + Cardinality(Before(ms, kind, files, i))
    BY DEF Rank, Before, Precedes
  <2> QED
    BY <2>3, <2>4, <2>5
<1>3. ASSUME NEW i \in files, NEW j \in files, Precedes(ms, kind, i, j)
      PROVE  Rank(ms, kind, files, i) < Rank(ms, kind, files, j)
  <2>1. Before(ms, kind, files, i) \subseteq Before(ms, kind, files, j) \ {i}
    BY <1>3, PrecedesIsLinear DEF Before
  <2>2. i \in Before(ms, kind, files, j)
    BY <1>3 DEF Before
  <2>3. /\ IsFiniteSet(Before(ms, kind, files, j) \ {i})
        /\ Cardinality(Before(ms, kind, files, j) \ {i})
             = Cardinality(Before(ms, kind, files, j)) - 1
    BY <1>2, <2>2, FS_RemoveElement
  <2>4. Cardinality(Before(ms, kind, files, i)) <= Cardinality(Before(ms, kind, files, j)) - 1
    BY <2>1, <2>3, FS_Subset
  <2> QED
    BY <1>2, <2>4
<1>4. Cardinality(files) \in Nat
  BY <1>1, FS_CardinalityType
<1> QED
  BY <1>1, <1>2, <1>3, <1>4

\* Each place has one file.
LEMMA RankIsBijective ==
  ASSUME NEW ms, NEW kind, NEW files, Numbered(ms, kind, files)
  PROVE  /\ Cardinality(files) \in Nat
         /\ \A k \in 1 .. Cardinality(files) : \E i \in files : Rank(ms, kind, files, i) = k
         /\ \A i, j \in files : Rank(ms, kind, files, i) = Rank(ms, kind, files, j) => i = j
<1> DEFINE n == Cardinality(files)
           rank == [i \in files |-> Rank(ms, kind, files, i)]
<1>1. IsFiniteSet(files) /\ n \in Nat
  BY RankFollowsOrder, FS_CardinalityType
<1>2. rank \in [files -> 1 .. n]
  BY RankFollowsOrder
<1>3. ASSUME NEW i \in files, NEW j \in files,
             Rank(ms, kind, files, i) = Rank(ms, kind, files, j)
      PROVE  i = j
  <2>1. \A k \in files : Rank(ms, kind, files, k) \in 1 .. n
    BY RankFollowsOrder
  <2>2. ~Precedes(ms, kind, i, j) /\ ~Precedes(ms, kind, j, i)
    BY <1>1, <1>3, <2>1, RankFollowsOrder
  <2> QED
    BY <2>2, PrecedesIsLinear
<1>4. rank \in Injection(files, 1 .. n)
  BY <1>2, <1>3 DEF Injection, IsInjective
<1>5. IsFiniteSet(1 .. n) /\ Cardinality(1 .. n) = n
  BY <1>1, FS_Interval
<1>6. rank \in Surjection(files, 1 .. n)
  BY <1>4, <1>5, FS_Injection
<1>7. \A k \in 1 .. n : \E i \in files : rank[i] = k
  BY <1>6 DEF Surjection
<1> QED
  BY <1>1, <1>3, <1>7

\* The list of a set's segments is all of its files and each once, by number, and
\* where numbers are equal in the archive's order (plan.rs:280-287).
THEOREM OrderIsStable ==
  ASSUME NEW ms, NEW kind, NEW files, Numbered(ms, kind, files)
  PROVE  LET order == OrderSegments(ms, kind, files) IN
         /\ order \in Seq(files) /\ Len(order) = Cardinality(files)
         /\ {order[k] : k \in DOMAIN order} = files
         /\ \A j, k \in DOMAIN order : j < k => Precedes(ms, kind, order[j], order[k])
<1> DEFINE order == OrderSegments(ms, kind, files)
           n == Cardinality(files)
           at(k) == CHOOSE i \in files : Rank(ms, kind, files, i) = k
<1>1. n \in Nat /\ order = [k \in 1 .. n |-> at(k)]
  BY RankIsBijective DEF OrderSegments
<1>2. \A k \in 1 .. n : at(k) \in files /\ Rank(ms, kind, files, at(k)) = k
  BY RankIsBijective
<1>3. order \in [1 .. n -> files]
  BY <1>1, <1>2
<1>4. order \in Seq(files) /\ Len(order) = n /\ DOMAIN order = 1 .. n
  <2>1. order \in Seq(files)
    BY <1>1, <1>3, FunctionIsSeq
  <2> QED
    BY <1>1, <1>3, <2>1, LenProperties
<1>5. ASSUME NEW i \in files PROVE \E k \in 1 .. n : order[k] = i
  <2> DEFINE k == Rank(ms, kind, files, i)
  <2>1. k \in 1 .. n
    BY RankFollowsOrder
  <2>2. at(k) = i
    BY <1>2, <2>1, RankIsBijective
  <2> QED
    BY <1>1, <2>1, <2>2
<1>6. ASSUME NEW j \in 1 .. n, NEW k \in 1 .. n, j < k
      PROVE  Precedes(ms, kind, order[j], order[k])
  <2>1. at(j) \in files /\ at(k) \in files
    BY <1>2
  <2>2. at(j) # at(k)
    BY <1>2, <1>6
  <2>3. ~Precedes(ms, kind, at(k), at(j))
    BY <1>1, <1>2, <1>6, <2>1, RankFollowsOrder
  <2>4. Precedes(ms, kind, at(j), at(k))
    BY <2>1, <2>2, <2>3, PrecedesIsLinear
  <2> QED
    BY <1>1, <2>4
<1>7. {order[k] : k \in DOMAIN order} = files
  BY <1>3, <1>4, <1>5
<1> QED
  BY <1>4, <1>6, <1>7

-----------------------------------------------------------------------------
(* The plan *)

\* The member list of an archive is a list of members (archive.rs:216-307).
LEMMA EntriesType ==
  ASSUME NEW w \in World, NEW b \in Blob, NEW fmt
  PROVE  Entries(w, b, fmt) \in Seq(Member)
<1>1. ASSUME NEW c, c \in Blob PROVE w[c].members \in Seq(Member)
  BY <1>1 DEF World
<1>2. ContainerStream(w, b, fmt) \in Blob \cup {NoBlob}
  BY DEF ContainerStream, Streamed, World
<1> QED
  BY <1>1, <1>2, ContentAssumption DEF Entries, Opens

\* Every member has one of the three accesses (archive.rs:91-127).
LEMMA MemberAccessType ==
  ASSUME NEW fmt, NEW m
  PROVE  MemberAccess(fmt, m) \in Access
<1>1. CASE fmt # "Zip"
  BY <1>1 DEF MemberAccess, Access
<1>2. CASE fmt = "Zip" /\ m.method = "stored"
  BY <1>2 DEF MemberAccess, Access
<1>3. CASE fmt = "Zip" /\ m.method = "deflate"
  BY <1>3 DEF MemberAccess, Access
<1>4. CASE fmt = "Zip" /\ m.method \notin {"stored", "deflate"}
  BY <1>4 DEF MemberAccess, Access
<1> QED
  BY <1>1, <1>2, <1>3, <1>4

\* The routes that lead to members of an archive.
MemberRoutes == {"Member", "SegmentSet"}

\* A plan for an archive names all of its file members, each once, in the order of
\* their segments.
NamesAllFiles(p, ms) ==
  /\ {p.segs[k].index : k \in DOMAIN p.segs} = Files(ms)
  /\ \A j, k \in DOMAIN p.segs :
       j < k => Precedes(ms, p.kind, p.segs[j].index, p.segs[k].index)

\* The plan made from a member table (plan.rs:165-221).
LEMMA DetectArchiveIsSound ==
  ASSUME NEW w \in World, NEW b \in Blob, NEW fmt \in Format
  PROVE  LET p == DetectArchive(w, b, fmt) IN
         /\ p \in Plan /\ p.fmt = fmt
         /\ p.route \in MemberRoutes \cup {"Open", "Collection"}
         /\ p.route \in MemberRoutes => NamesAllFiles(p, Entries(w, b, fmt))
         /\ p.route \in {"Open", "Collection"} => p.segs = <<>>
<1> DEFINE ms == Entries(w, b, fmt)
           files == Files(ms)
           kinds == SegmentKinds(ms, files)
           At(i) == [index |-> i, access |-> MemberAccess(fmt, ms[i])]
           p == DetectArchive(w, b, fmt)
           isSet == Opens(w, b, fmt) /\ Cardinality(files) >= 2 /\ kinds # {}
           isLone == Opens(w, b, fmt) /\ ~isSet /\ Cardinality(files) = 1
<1>1. ms \in Seq(Member) /\ files \subseteq DOMAIN ms /\ IsFiniteSet(files)
  <2>1. ms \in Seq(Member)
    BY EntriesType
  <2>2. DOMAIN ms = 1 .. Len(ms) /\ Len(ms) \in Nat
    BY <2>1, LenProperties
  <2>3. files \subseteq DOMAIN ms
    BY DEF Files
  <2>4. IsFiniteSet(1 .. Len(ms))
    BY <2>2, FS_Interval
  <2>5. IsFiniteSet(files)
    BY <2>2, <2>3, <2>4, FS_Subset
  <2> QED
    BY <2>1, <2>3, <2>5
<1>2. ASSUME NEW i \in files PROVE At(i) \in Segment
  <2>1. i \in Nat
    BY <1>1, <1>2, LenProperties
  <2> QED
    BY <2>1, MemberAccessType DEF Segment
<1>3. <<>> \in Seq(Segment)
  BY EmptySeq
<1>4. CASE isSet
  <2> DEFINE kind == CHOOSE kind \in kinds : TRUE
             order == OrderSegments(ms, kind, files)
             segs == [k \in DOMAIN order |-> At(order[k])]
  <2>1. kind \in SegmentKind /\ \A i \in files : SegmentNumber(ms[i].name, kind) # {}
    BY <1>4 DEF SegmentKinds
  <2> HIDE DEF kind
  <2>2. Numbered(ms, kind, files)
    BY <1>1, <2>1 DEF Numbered
  <2>3. /\ order \in Seq(files)
        /\ {order[k] : k \in DOMAIN order} = files
        /\ \A j, k \in DOMAIN order : j < k => Precedes(ms, kind, order[j], order[k])
    BY <2>2, OrderIsStable
  <2> HIDE DEF order
  <2>4. /\ Len(order) \in Nat /\ DOMAIN order = 1 .. Len(order)
        /\ \A k \in DOMAIN order : order[k] \in files
    BY <2>3, LenProperties
  <2>5. segs \in Seq(Segment) /\ DOMAIN segs = DOMAIN order
        /\ \A k \in DOMAIN order : segs[k].index = order[k]
    <3>1. segs \in [1 .. Len(order) -> Segment]
      BY <1>2, <2>4
    <3>2. segs \in Seq(Segment)
      BY <2>4, <3>1, FunctionIsSeq
    <3> QED
      BY <3>2
  <2> HIDE DEF segs
  <2>6. p = PlanOf("SegmentSet", fmt, kind, segs)
    BY <1>4 DEF DetectArchive, kind, order, segs
  <2>7. p \in Plan /\ p.fmt = fmt /\ p.route = "SegmentSet" /\ p.kind = kind /\ p.segs = segs
    BY <2>1, <2>5, <2>6 DEF PlanOf, Plan, Route
  <2>8. NamesAllFiles(p, ms)
    BY <2>3, <2>5, <2>7 DEF NamesAllFiles
  <2> QED
    BY <2>7, <2>8 DEF MemberRoutes
<1>5. CASE isLone
  <2> DEFINE only == CHOOSE i \in files : TRUE
  <2>1. only \in files /\ files = {only}
    <3>1. \E i : files = {i}
      BY <1>1, <1>5, FS_Singleton
    <3> QED
      BY <3>1
  <2>2. p = PlanOf("Member", fmt, "none", <<At(only)>>)
    BY <1>5 DEF DetectArchive
  <2> HIDE DEF only
  <2>3. At(only) \in Segment
    BY <1>2, <2>1
  <2>4. <<At(only)>> \in Seq(Segment) /\ DOMAIN <<At(only)>> = {1} /\ <<At(only)>>[1].index = only
    BY <2>3
  <2>5. p \in Plan /\ p.fmt = fmt /\ p.route = "Member" /\ p.segs = <<At(only)>>
    BY <2>2, <2>4 DEF PlanOf, Plan, Route
  <2>6. NamesAllFiles(p, ms)
    BY <2>1, <2>4, <2>5 DEF NamesAllFiles
  <2> QED
    BY <2>5, <2>6 DEF MemberRoutes
<1>6. CASE ~isSet /\ ~isLone
  <2> DEFINE none == <<>>
  <2>1. \/ p = PlanOf("Open", fmt, "none", none)
        \/ p = PlanOf("Collection", fmt, "none", none)
    BY <1>6 DEF DetectArchive
  <2>2. none \in Seq(Segment)
    BY <1>3
  <2> HIDE DEF none, p
  <2>3. p \in Plan /\ p.fmt = fmt /\ p.segs = none /\ p.route \in {"Open", "Collection"}
    BY <2>1, <2>2 DEF PlanOf, Plan, Route
  <2> QED
    BY <2>3 DEF MemberRoutes, none, p
<1> QED
  BY <1>4, <1>5, <1>6

\* detect() gives a plan, and where it leads to members, one that names all of the
\* archive's files, in order (plan.rs:109-221).
THEOREM DetectIsSound ==
  ASSUME NEW w \in World, NEW b \in Blob
  PROVE  LET p == Detect(w, b) IN
         /\ p \in Plan
         /\ p.route \in MemberRoutes => NamesAllFiles(p, Entries(w, b, p.fmt))
         /\ p.route \notin MemberRoutes \cup {"Wrapper"} => p.segs = <<>>
<1> DEFINE p == Detect(w, b)
           fmt == SniffBlob(w, b, NoName)
<1>1. <<>> \in Seq(Segment)
  BY EmptySeq
<1>2. CASE fmt \in {"Gzip", "Bzip2"}
  <2> DEFINE head == PeekHead(w, CodecOf(fmt), b)
             inside == SniffBlob(w, head, NoName)
             access == IF inside = "Unknown" THEN WrapperAccess(fmt) ELSE "SpillToTemp"
             packed == IF fmt = "Gzip" THEN "TarGz" ELSE "TarBz2"
             seg == [index |-> 0, access |-> access]
  <2>1. \/ p = PlanOf("Direct", "Unknown", "none", <<>>)
        \/ p = DetectArchive(w, b, packed)
        \/ p = PlanOf("Wrapper", fmt, "none", <<seg>>)
    BY <1>2 DEF Detect, DetectWrapper, IsCompressionWrapper
  <2>2. packed \in Format /\ fmt \in Format
    BY <1>2 DEF Format
  <2>3. seg \in Segment
    BY DEF Segment, Access, WrapperAccess
  <2> HIDE DEF seg, packed, fmt
  <2>4. <<seg>> \in Seq(Segment)
    BY <2>3
  <2>5. CASE p = DetectArchive(w, b, packed)
    BY <2>2, <2>5, DetectArchiveIsSound DEF MemberRoutes, Plan, Route
  <2>6. CASE p = PlanOf("Wrapper", fmt, "none", <<seg>>)
    BY <2>2, <2>4, <2>6 DEF PlanOf, Plan, Route, MemberRoutes
  <2>7. CASE p = PlanOf("Direct", "Unknown", "none", <<>>)
    BY <1>1, <2>7 DEF PlanOf, Plan, Route, MemberRoutes, Format
  <2> QED
    BY <2>1, <2>5, <2>6, <2>7
<1>3. CASE fmt \notin {"Gzip", "Bzip2"} /\ IsArchive(fmt)
  <2>1. p = DetectArchive(w, b, fmt) /\ fmt \in Format
    BY <1>3 DEF Detect, IsCompressionWrapper, IsArchive, Format
  <2> QED
    BY <2>1, DetectArchiveIsSound DEF MemberRoutes
<1>4. CASE fmt \notin {"Gzip", "Bzip2"} /\ ~IsArchive(fmt)
  <2>1. p = PlanOf("Direct", "Unknown", "none", <<>>)
    BY <1>4 DEF Detect, IsCompressionWrapper
  <2> QED
    BY <1>1, <2>1 DEF PlanOf, Plan, Route, MemberRoutes, Format
<1> QED
  BY <1>2, <1>3, <1>4

-----------------------------------------------------------------------------
(* Which plan it is *)

\* What the plan of an archive tells of its files (plan.rs:151-221).
LEMMA DetectArchiveCases ==
  ASSUME NEW w \in World, NEW b \in Blob, NEW fmt
  PROVE  LET p == DetectArchive(w, b, fmt)
             ms == Entries(w, b, fmt)
         IN /\ p.fmt = fmt
            /\ p.route \in {"Open", "SegmentSet", "Member", "Collection"}
            /\ p.route = "Open" <=> ~Opens(w, b, fmt)
            /\ p.route = "Member" <=> Opens(w, b, fmt) /\ Cardinality(Files(ms)) = 1
            /\ p.route = "Member" =>
                 /\ Len(p.segs) = 1
                 /\ Files(ms) = {p.segs[1].index}
                 /\ p.segs[1].access = MemberAccess(fmt, ms[p.segs[1].index])
<1> DEFINE p == DetectArchive(w, b, fmt)
           ms == Entries(w, b, fmt)
           files == Files(ms)
           only == CHOOSE i \in files : TRUE
           seg == [index |-> only, access |-> MemberAccess(fmt, ms[only])]
<1>1. \/ /\ ~Opens(w, b, fmt)
         /\ p = PlanOf("Open", fmt, "none", <<>>)
      \/ /\ Opens(w, b, fmt) /\ Cardinality(files) >= 2
         /\ \E kind, segs : p = PlanOf("SegmentSet", fmt, kind, segs)
      \/ /\ Opens(w, b, fmt) /\ Cardinality(files) = 1
         /\ p = PlanOf("Member", fmt, "none", <<seg>>)
      \/ /\ Opens(w, b, fmt) /\ Cardinality(files) # 1
         /\ p = PlanOf("Collection", fmt, "none", <<>>)
  BY DEF DetectArchive
<1>2. Cardinality(files) = 1 => files = {only}
  <2>1. IsFiniteSet(files)
    <3>1. ms \in Seq(Member)
      BY EntriesType
    <3>2. IsFiniteSet(DOMAIN ms)
      BY <3>1, LenProperties, FS_Interval
    <3> QED
      BY <3>2, FS_Subset DEF Files
  <2> QED
    BY <2>1, FS_Singleton
<1> HIDE DEF p, files, only
<1>3. CASE Cardinality(files) = 1 /\ p = PlanOf("Member", fmt, "none", <<seg>>)
  <2>1. p.fmt = fmt /\ p.route = "Member" /\ p.segs = <<seg>>
    BY <1>3 DEF PlanOf
  <2>2. Len(p.segs) = 1 /\ p.segs[1].index = only
        /\ p.segs[1].access = MemberAccess(fmt, ms[only])
    BY <2>1
  <2> QED
    BY <1>1, <1>2, <1>3, <2>1, <2>2 DEF p, files, PlanOf
<1>4. CASE p = PlanOf("Open", fmt, "none", <<>>) /\ ~Opens(w, b, fmt)
  BY <1>4 DEF PlanOf, p
<1>5. CASE p = PlanOf("Collection", fmt, "none", <<>>) /\ Opens(w, b, fmt)
             /\ Cardinality(files) # 1
  BY <1>5 DEF PlanOf, p, files
<1>6. CASE (\E kind, segs : p = PlanOf("SegmentSet", fmt, kind, segs)) /\ Opens(w, b, fmt)
             /\ Cardinality(files) >= 2
  BY <1>6 DEF PlanOf, p, files
<1> QED
  BY <1>1, <1>3, <1>4, <1>5, <1>6

\* A plan for an archive's format is the one its table gives; a wrapper's is one
\* segment (plan.rs:109-149).
LEMMA DetectCases ==
  ASSUME NEW w \in World, NEW b \in Blob
  PROVE  LET p == Detect(w, b) IN
         /\ IsArchive(p.fmt) => p = DetectArchive(w, b, p.fmt)
         /\ ~IsArchive(p.fmt) => p.route \in {"Wrapper", "Direct"}
         /\ IsCompressionWrapper(p.fmt) => p.route = "Wrapper"
         /\ p.route = "Wrapper" => IsCompressionWrapper(p.fmt) /\ Len(p.segs) = 1
<1> DEFINE p == Detect(w, b)
           fmt == SniffBlob(w, b, NoName)
<1>1. CASE \E f : IsArchive(f) /\ p = DetectArchive(w, b, f)
  <2>1. PICK f : IsArchive(f) /\ p = DetectArchive(w, b, f)
    BY <1>1
  <2> HIDE DEF p
  <2>2. p.fmt = f /\ p.route # "Wrapper"
    BY <2>1, DetectArchiveCases
  <2> QED
    BY <2>1, <2>2 DEF IsArchive, IsCompressionWrapper, p
<1>2. CASE p = PlanOf("Direct", "Unknown", "none", <<>>)
  BY <1>2 DEF PlanOf, IsArchive, IsCompressionWrapper
<1>3. CASE IsCompressionWrapper(fmt) /\ \E s : p = PlanOf("Wrapper", fmt, "none", <<s>>)
  <2>1. PICK s : p = PlanOf("Wrapper", fmt, "none", <<s>>)
    BY <1>3
  <2> HIDE DEF p, fmt
  <2>2. p.fmt = fmt /\ p.route = "Wrapper" /\ p.segs = <<s>> /\ Len(<<s>>) = 1
    BY <2>1 DEF PlanOf
  <2> QED
    BY <1>3, <2>2 DEF IsArchive, IsCompressionWrapper, p
<1>4. CASE IsCompressionWrapper(fmt)
  <2>1. p = DetectWrapper(w, b, fmt)
    BY <1>4 DEF Detect
  <2>2. \/ p = PlanOf("Direct", "Unknown", "none", <<>>)
        \/ p = DetectArchive(w, b, IF fmt = "Gzip" THEN "TarGz" ELSE "TarBz2")
        \/ \E s : p = PlanOf("Wrapper", fmt, "none", <<s>>)
    BY <2>1 DEF DetectWrapper
  <2>3. IsArchive(IF fmt = "Gzip" THEN "TarGz" ELSE "TarBz2")
    BY DEF IsArchive
  <2> QED
    BY <1>1, <1>2, <1>3, <1>4, <2>2, <2>3
<1>5. CASE ~IsCompressionWrapper(fmt)
  BY <1>1, <1>2, <1>5 DEF Detect
<1> QED
  BY <1>4, <1>5

-----------------------------------------------------------------------------
(* The invariant *)

\* What a call knows of its plan and how far it is in it.
Planned ==
  /\ pc = "detect" => plan = NoPlan /\ handles = <<>>
  /\ pc # "detect" => plan = Detect(in.world, in.root)
  /\ pc \in {"run", "open"} => /\ plan.route \in MemberRoutes \cup {"Wrapper"}
                               /\ Len(handles) <= Len(plan.segs)
  /\ pc = "open" => Len(handles) < Len(plan.segs) /\ plan.route # "Wrapper"
  /\ pc = "done" /\ handles # <<>> => Len(handles) = Len(plan.segs)

\* A handle that is no zran one has what it claims, within the cap.
LengthIsTrue(h) ==
  h.via # "Zran" => h.bytes \in Blob /\ h.len = Size(h.bytes) /\ h.len <= Cap

SafeInv == TypeOK /\ Planned /\ TempsOwned /\ LengthsAreTrue

-----------------------------------------------------------------------------
(* The state of a running call *)

\* The arguments are of their kind.
LEMMA ArgumentsType ==
  ASSUME TypeOK
  PROVE  /\ in.world \in World /\ in.root \in Blob
         /\ Cap \in Nat /\ in.limits.max_index_bytes \in Nat
         /\ \A b \in Blob : Size(b) \in Nat
         /\ \A fmt : Entries(in.world, in.root, fmt) \in Seq(Member)
<1>1. in \in [call : Calls, world : Worlds, root : Roots, limits : LimitSet]
  BY DEF TypeOK, Inputs
<1>2. in.world \in World /\ in.root \in Blob /\ in.limits \in Limits
  BY <1>1, ExecutorAssumption
<1>3. \A b \in Blob : in.world[b].size \in Nat
  BY <1>2 DEF World
<1>4. Cap \in Nat /\ in.limits.max_index_bytes \in Nat
  BY <1>2, AccessPlanAssumption DEF Limits, Cap
<1> QED
  BY <1>2, <1>3, <1>4, EntriesType DEF Size

\* The segment a running call is at is a file of the archive.
LEMMA AtMember ==
  ASSUME TypeOK, Planned, pc \in {"run", "open"}, K <= Len(plan.segs), plan.route # "Wrapper"
  PROVE  /\ K \in 1 .. Len(plan.segs)
         /\ Seg.index \in DOMAIN MemberTable
         /\ MemberTable \in Seq(Member)
         /\ \A j \in DOMAIN MemberTable : j \in Nat /\ MemberTable[j] \in Member
         /\ Entry \in Member
<1>1. plan = Detect(in.world, in.root) /\ plan.route \in MemberRoutes
  BY DEF Planned
<1>2. plan \in Plan /\ NamesAllFiles(plan, MemberTable)
  BY <1>1, ArgumentsType, DetectIsSound DEF MemberTable
<1>3. plan.segs \in Seq(Segment)
  BY <1>2 DEF Plan
<1>4. K \in 1 .. Len(plan.segs) /\ DOMAIN plan.segs = 1 .. Len(plan.segs)
  <2>1. Len(handles) \in Nat /\ Len(plan.segs) \in Nat
    BY <1>3, LenProperties DEF TypeOK
  <2>2. DOMAIN plan.segs = 1 .. Len(plan.segs)
    BY <1>3, LenProperties
  <2> QED
    BY <2>1, <2>2 DEF K
<1>5. Seg.index \in Files(MemberTable)
  BY <1>2, <1>4 DEF NamesAllFiles, Seg
<1>6. Seg.index \in DOMAIN MemberTable
  BY <1>5 DEF Files
<1>7. MemberTable \in Seq(Member)
  BY ArgumentsType DEF MemberTable
<1>8. \A j \in DOMAIN MemberTable : j \in Nat /\ MemberTable[j] \in Member
  BY <1>7, LenProperties, ElementOfSeq
<1> QED
  BY <1>4, <1>6, <1>7, <1>8 DEF Entry

\* A running call has a list of segments.
LEMMA RunningSegs ==
  ASSUME TypeOK, Planned, pc \in {"run", "open"}
  PROVE  Len(handles) \in Nat /\ Len(plan.segs) \in Nat
<1>1. plan = Detect(in.world, in.root)
  BY DEF Planned
<1>2. plan \in Plan
  BY <1>1, ArgumentsType, DetectIsSound
<1>3. plan.segs \in Seq(Segment)
  BY <1>2 DEF Plan
<1> QED
  BY <1>3, LenProperties DEF TypeOK

-----------------------------------------------------------------------------
(* The two things a step does to the handles *)

\* A call that fails keeps no handle and no file.
LEMMA FailIsSafe ==
  ASSUME SafeInv, NEW e \in Outcomes, Fail(e), UNCHANGED in,
         plan' = Detect(in.world, in.root)
  PROVE  SafeInv'
<1>1. plan' \in Plan
  BY ArgumentsType, DetectIsSound DEF SafeInv
<1>2. handles' = <<>> /\ handles' \in Seq(Handle) /\ Len(handles') = 0 /\ DOMAIN handles' = {}
  BY EmptySeq DEF Fail
<1>3. TypeOK'
  BY <1>1, <1>2 DEF SafeInv, TypeOK, Fail, Outcomes, ExecErrors, ReadErrors
<1>4. Planned'
  BY <1>2 DEF Planned, Fail
<1>5. TempsOwned'
  BY <1>2 DEF TempsOwned, Fail, K
<1>6. LengthsAreTrue'
  BY <1>2 DEF LengthsAreTrue
<1> QED
  BY <1>3, <1>4, <1>5, <1>6 DEF SafeInv

\* A new handle that has what it claims, with its file.
LEMMA PushIsSafe ==
  ASSUME SafeInv, pc \in {"run", "open"}, K <= Len(plan.segs),
         NEW h \in Handle, LengthIsTrue(h), Push(h), UNCHANGED <<in, plan, result>>,
         pc = "open" <=> h.via = "Zran",
         temps' = temps \cup {t \in {[seg |-> K, holds |-> "stream"]} : h.via = "Temp"}
  PROVE  SafeInv'
<1>1. /\ handles \in Seq(Handle) /\ Len(handles) \in Nat /\ K = Len(handles) + 1
      /\ DOMAIN handles = 1 .. Len(handles)
  BY LenProperties DEF SafeInv, TypeOK, K
<1>2. /\ handles' = Append(handles, h) /\ handles' \in Seq(Handle)
      /\ Len(handles') = K /\ handles'[K] = h /\ DOMAIN handles' = 1 .. K
      /\ \A k \in 1 .. Len(handles) : handles'[k] = handles[k]
  BY <1>1 DEF Push
<1>3. TypeOK'
  BY <1>1, <1>2 DEF SafeInv, TypeOK, Push, Temp
<1>4. Planned'
  BY <1>1, <1>2 DEF SafeInv, Planned, Push
<1>5. TempsOwned'
  BY <1>1, <1>2 DEF SafeInv, TempsOwned, Push, K, Handle
<1>6. LengthsAreTrue'
  BY <1>1, <1>2 DEF SafeInv, LengthsAreTrue, LengthIsTrue, Size, Cap
<1> QED
  BY <1>3, <1>4, <1>5, <1>6 DEF SafeInv

-----------------------------------------------------------------------------
(* Every step *)

\* The errors are outcomes of a call.
LEMMA ErrorsAreOutcomes ==
  {"NotPacked", "Open", "Read", "TooLarge", "Decode"} \subseteq Outcomes
BY DEF Outcomes, ExecErrors, ReadErrors

\* A call that runs keeps its plan.
LEMMA RunningPlan ==
  ASSUME SafeInv, pc # "detect", UNCHANGED <<in, plan>>
  PROVE  plan' = Detect(in.world, in.root)
BY DEF SafeInv, Planned

LEMMA ClassifyIsSafe ==
  ASSUME SafeInv, Classify
  PROVE  SafeInv'
<1>1. plan' = Detect(in.world, in.root) /\ pc = "detect" /\ UNCHANGED in
  BY DEF Classify
<1>2. CASE plan'.route = "Open" \/ plan'.route \notin Wanted
  <2>1. PICK e \in Outcomes : Fail(e)
    BY <1>2, ErrorsAreOutcomes DEF Classify
  <2> QED
    BY <1>1, <2>1, FailIsSafe
<1>3. CASE plan'.route # "Open" /\ plan'.route \in Wanted
  <2>1. pc' = "run" /\ UNCHANGED <<handles, temps, result>>
    BY <1>3 DEF Classify
  <2>2. plan' \in Plan
    BY <1>1, ArgumentsType, DetectIsSound DEF SafeInv
  <2>3. handles = <<>> /\ Len(handles) = 0 /\ plan'.route \in MemberRoutes \cup {"Wrapper"}
    BY <1>1, <1>3, EmptySeq DEF SafeInv, Planned, Wanted, MemberRoutes
  <2>4. Len(plan'.segs) \in Nat
    <3>1. plan'.segs \in Seq(Segment)
      BY <2>2 DEF Plan
    <3> QED
      BY <3>1, LenProperties
  <2>5. TypeOK'
    BY <1>1, <2>1, <2>2 DEF SafeInv, TypeOK
  <2>6. Planned'
    BY <1>1, <2>1, <2>3, <2>4 DEF Planned
  <2>7. TempsOwned'
    BY <1>1, <2>1 DEF SafeInv, TempsOwned, K
  <2>8. LengthsAreTrue'
    BY <1>1, <2>1, <2>3 DEF LengthsAreTrue
  <2> QED
    BY <2>5, <2>6, <2>7, <2>8 DEF SafeInv
<1> QED
  BY <1>2, <1>3

LEMMA WindowIsSafe ==
  ASSUME SafeInv, Window
  PROVE  SafeInv'
<1>1. pc = "run" /\ K <= Len(plan.segs) /\ plan.route # "Wrapper" /\ UNCHANGED <<in, plan>>
  BY DEF Window, AtSegment
<1>2. CASE WindowError(Entry) # {}
  <2>1. PICK e \in WindowError(Entry) : Fail(e)
    BY <1>2 DEF Window
  <2>2. e \in Outcomes
    BY ErrorsAreOutcomes DEF WindowError
  <2> QED
    BY <1>1, <2>1, <2>2, RunningPlan, FailIsSafe
<1>3. CASE WindowError(Entry) = {}
  <2> DEFINE h == HandleOf("InPlace", Seg.index, Entry.window, WindowLen(Entry))
  <2>1. Push(h) /\ UNCHANGED <<temps, result>>
    BY <1>3 DEF Window
  <2>2. Entry \in Member /\ Seg.index \in Nat
    BY <1>1, AtMember DEF SafeInv
  <2>3. Entry.window \in Blob /\ WindowLen(Entry) = Size(Entry.window) /\ ~(WindowLen(Entry) > Cap)
    BY <1>3, <2>2 DEF WindowError, WindowLen, Member
  <2>4. Size(Entry.window) \in Nat /\ Cap \in Nat
    BY <2>3, ArgumentsType DEF SafeInv
  <2>5. h \in Handle /\ LengthIsTrue(h) /\ h.via = "InPlace"
    BY <2>2, <2>3, <2>4 DEF HandleOf, Handle, LengthIsTrue
  <2> HIDE DEF h
  <2> QED
    BY <1>1, <2>1, <2>5, PushIsSafe
<1> QED
  BY <1>2, <1>3

LEMMA OpenEntryIsSafe ==
  ASSUME SafeInv, OpenEntry
  PROVE  SafeInv'
<1>1. PICK j \in Namesakes :
        Push(HandleOf("Zran", j, MemberTable[j].data, MemberTable[j].size))
  BY DEF OpenEntry
<1> DEFINE h == HandleOf("Zran", j, MemberTable[j].data, MemberTable[j].size)
<1>2. pc = "open" /\ K <= Len(plan.segs) /\ plan.route # "Wrapper"
      /\ UNCHANGED <<in, plan, temps, result>>
  <2>1. Len(handles) \in Nat /\ Len(plan.segs) \in Nat
    BY RunningSegs DEF OpenEntry, SafeInv
  <2> QED
    BY <2>1 DEF OpenEntry, SafeInv, Planned, K
<1>3. j \in Nat /\ MemberTable[j] \in Member
  BY <1>2, AtMember DEF SafeInv, Namesakes
<1>4. h \in Handle /\ LengthIsTrue(h) /\ h.via = "Zran"
  BY <1>3 DEF HandleOf, Handle, LengthIsTrue, Member
<1> HIDE DEF h
<1> QED
  BY <1>1, <1>2, <1>4, PushIsSafe DEF h

LEMMA SpillMemberIsSafe ==
  ASSUME SafeInv, SpillMember
  PROVE  SafeInv'
<1>1. pc = "run" /\ K <= Len(plan.segs) /\ plan.route # "Wrapper" /\ UNCHANGED <<in, plan, result>>
  BY DEF SpillMember, Spills
<1>2. PICK j \in ReadTargets(in.world, in.root, plan.fmt, Seg.index) :
        LET r == MemberTable[j].data IN
        r # NoBlob /\ ~OverCap(r) /\ Push(HandleOf("Temp", j, r, Size(r)))
  BY DEF SpillMember
<1> DEFINE r == MemberTable[j].data
           h == HandleOf("Temp", j, r, Size(r))
<1>3. j \in Nat /\ MemberTable[j] \in Member
  BY <1>1, AtMember DEF SafeInv, ReadTargets, MemberTable
<1>4. r \in Blob
  BY <1>2, <1>3 DEF Member
<1>5. Size(r) \in Nat /\ Cap \in Nat
  BY <1>4, ArgumentsType DEF SafeInv
<1>6. h \in Handle /\ LengthIsTrue(h) /\ h.via = "Temp"
  BY <1>2, <1>3, <1>4, <1>5 DEF HandleOf, Handle, LengthIsTrue, OverCap
<1>7. temps' = temps \cup {[seg |-> K, holds |-> "stream"]}
  BY DEF SpillMember
<1>8. Push(h)
  BY <1>2
<1> HIDE DEF h
<1> QED
  BY <1>1, <1>6, <1>7, <1>8, PushIsSafe

LEMMA SpillWrapperIsSafe ==
  ASSUME SafeInv, SpillWrapper
  PROVE  SafeInv'
<1> DEFINE h == HandleOf("Temp", 0, Stream, Size(Stream))
<1>1. /\ pc = "run" /\ K <= Len(plan.segs) /\ UNCHANGED <<in, plan, result>>
      /\ Push(h) /\ temps' = temps \cup {[seg |-> K, holds |-> "stream"]}
      /\ Stream # NoBlob /\ ~OverCap(Stream)
  BY DEF SpillWrapper, AtWrapper
<1>2. Stream \in Blob
  BY <1>1, ArgumentsType DEF SafeInv, Stream, Inflate, World
<1>3. Size(Stream) \in Nat /\ Cap \in Nat
  BY <1>2, ArgumentsType DEF SafeInv
<1>4. h \in Handle /\ LengthIsTrue(h) /\ h.via = "Temp"
  BY <1>1, <1>2, <1>3 DEF HandleOf, Handle, LengthIsTrue, OverCap
<1> HIDE DEF h
<1> QED
  BY <1>1, <1>4, PushIsSafe

LEMMA CopyArchiveIsSafe ==
  ASSUME SafeInv, CopyArchive
  PROVE  SafeInv'
<1>1. /\ pc = "run" /\ K <= Len(plan.segs) /\ plan.route # "Wrapper" /\ pc' = "open"
      /\ UNCHANGED <<in, plan, handles, result>>
      /\ temps' = temps \cup {[seg |-> K, holds |-> "archive"]}
  BY DEF CopyArchive, AtSegment
<1>2. Len(handles) \in Nat /\ Len(plan.segs) \in Nat
  BY <1>1, RunningSegs DEF SafeInv
<1>3. TypeOK'
  BY <1>1, <1>2 DEF SafeInv, TypeOK, Temp, K
<1>4. Planned'
  BY <1>1, <1>2 DEF SafeInv, Planned, K
<1>5. TempsOwned'
  BY <1>1, <1>2 DEF SafeInv, TempsOwned, K
<1>6. LengthsAreTrue'
  BY <1>1 DEF SafeInv, LengthsAreTrue, Size, Cap
<1> QED
  BY <1>3, <1>4, <1>5, <1>6 DEF SafeInv

LEMMA HandOutIsSafe ==
  ASSUME SafeInv, HandOut
  PROVE  SafeInv'
<1>1. /\ pc = "run" /\ K > Len(plan.segs) /\ pc' = "done"
      /\ UNCHANGED <<in, plan, handles, temps>>
      /\ result' \in Outcomes /\ result' # "none"
  BY DEF HandOut, Outcomes
<1>2. Len(handles) \in Nat /\ Len(plan.segs) \in Nat
  BY <1>1, RunningSegs DEF SafeInv
<1>3. TypeOK'
  BY <1>1 DEF SafeInv, TypeOK
<1>4. Planned'
  BY <1>1, <1>2 DEF SafeInv, Planned, K
<1>5. TempsOwned'
  BY <1>1 DEF SafeInv, TempsOwned, K
<1>6. LengthsAreTrue'
  BY <1>1 DEF SafeInv, LengthsAreTrue, Size, Cap
<1> QED
  BY <1>3, <1>4, <1>5, <1>6 DEF SafeInv

LEMMA DropHandlesIsSafe ==
  ASSUME SafeInv, DropHandles
  PROVE  SafeInv'
<1>1. /\ pc = "done" /\ handles' = <<>> /\ temps' = {}
      /\ UNCHANGED <<in, plan, pc, result>>
  BY DEF DropHandles
<1>2. handles' \in Seq(Handle) /\ Len(handles') = 0 /\ DOMAIN handles' = {}
  BY <1>1, EmptySeq
<1>3. TypeOK'
  BY <1>1, <1>2 DEF SafeInv, TypeOK
<1>4. Planned'
  BY <1>1, <1>2 DEF SafeInv, Planned
<1>5. TempsOwned'
  BY <1>1, <1>2 DEF TempsOwned, K
<1>6. LengthsAreTrue'
  BY <1>1, <1>2 DEF LengthsAreTrue
<1> QED
  BY <1>3, <1>4, <1>5, <1>6 DEF SafeInv

\* The steps that only fail.
LEMMA FailuresAreSafe ==
  ASSUME SafeInv,
         CopyArchiveFails \/ OpenEntryFails \/ SpillMemberFails \/ SpillWrapperFails
  PROVE  SafeInv'
<1>1. pc # "detect" /\ UNCHANGED <<in, plan>>
  BY DEF CopyArchiveFails, OpenEntryFails, SpillMemberFails, SpillWrapperFails, AtSegment,
         Spills, AtWrapper
<1>2. \E e \in Outcomes : Fail(e)
  BY ErrorsAreOutcomes
     DEF CopyArchiveFails, OpenEntryFails, SpillMemberFails, SpillWrapperFails
<1> QED
  BY <1>1, <1>2, RunningPlan, FailIsSafe

-----------------------------------------------------------------------------
(* The theorems *)

LEMMA InitIsSafe == Init => SafeInv
<1> SUFFICES ASSUME Init PROVE SafeInv
  OBVIOUS
<1>1. handles \in Seq(Handle) /\ Len(handles) = 0 /\ DOMAIN handles = {}
  BY EmptySeq DEF Init
<1>2. TypeOK
  BY <1>1 DEF Init, TypeOK
<1>3. Planned
  BY DEF Init, Planned
<1>4. TempsOwned
  BY <1>1 DEF Init, TempsOwned, K
<1>5. LengthsAreTrue
  BY <1>1 DEF LengthsAreTrue
<1> QED
  BY <1>2, <1>3, <1>4, <1>5 DEF SafeInv

LEMMA NextIsSafe == SafeInv /\ [Next]_vars => SafeInv'
<1> SUFFICES ASSUME SafeInv, [Next]_vars PROVE SafeInv'
  OBVIOUS
<1>1. CASE Classify
  BY <1>1, ClassifyIsSafe
<1>2. CASE Window
  BY <1>2, WindowIsSafe
<1>3. CASE CopyArchive
  BY <1>3, CopyArchiveIsSafe
<1>4. CASE OpenEntry
  BY <1>4, OpenEntryIsSafe
<1>5. CASE SpillMember
  BY <1>5, SpillMemberIsSafe
<1>6. CASE SpillWrapper
  BY <1>6, SpillWrapperIsSafe
<1>7. CASE CopyArchiveFails \/ OpenEntryFails \/ SpillMemberFails \/ SpillWrapperFails
  BY <1>7, FailuresAreSafe
<1>8. CASE HandOut
  BY <1>8, HandOutIsSafe
<1>9. CASE DropHandles
  BY <1>9, DropHandlesIsSafe
<1>10. CASE UNCHANGED vars
  BY <1>10 DEF vars, SafeInv, TypeOK, Planned, TempsOwned, LengthsAreTrue, K, Size, Cap
<1> QED
  BY <1>1, <1>2, <1>3, <1>4, <1>5, <1>6, <1>7, <1>8, <1>9, <1>10 DEF Next

LEMMA SafeInvHolds == Spec => []SafeInv
BY InitIsSafe, NextIsSafe, PTL DEF Spec

\* Every variable of a call keeps its kind (execute.rs:322-391, reassemble.rs:187-234).
THEOREM TypeCorrect == Spec => []TypeOK
<1>1. SafeInv => TypeOK
  BY DEF SafeInv
<1> QED
  BY <1>1, SafeInvHolds, PTL

\* Every temp file has one owner, and a failed call has none (execute.rs:141-142,
\* reassemble.rs:199-208).
THEOREM TempsAreOwned == Spec => []TempsOwned
<1>1. SafeInv => TempsOwned
  BY DEF SafeInv
<1> QED
  BY <1>1, SafeInvHolds, PTL

\* Windows and spilled streams are as long as they claim and within the cap
\* (execute.rs:63-88, 544-561).
THEOREM LengthsAreAlwaysTrue == Spec => []LengthsAreTrue
<1>1. SafeInv => LengthsAreTrue
  BY DEF SafeInv
<1> QED
  BY <1>1, SafeInvHolds, PTL

-----------------------------------------------------------------------------
(* The members that are handed out *)

\* No archive a call may be given has two members of one name.
NamesDiffer ==
  \A a \in Inputs :
    LET ms == Entries(a.world, a.root, Detect(a.world, a.root).fmt) IN
    \A i, j \in DOMAIN ms : ms[i].name = ms[j].name => i = j

\* Each handle reads the member its segment names.
Placed ==
  plan.route # "Wrapper" =>
    \A k \in DOMAIN handles : handles[k].member = plan.segs[k].index

\* A name leads to the segment's own member.
LEMMA OnlyNamesake ==
  ASSUME NamesDiffer, TypeOK, Planned, pc \in {"run", "open"}, K <= Len(plan.segs),
         plan.route # "Wrapper"
  PROVE  /\ Namesakes \subseteq {Seg.index}
         /\ ReadTargets(in.world, in.root, plan.fmt, Seg.index) \subseteq {Seg.index}
<1>1. in \in Inputs /\ plan = Detect(in.world, in.root)
  BY DEF TypeOK, Planned
<1>2. \A i, j \in DOMAIN MemberTable : MemberTable[i].name = MemberTable[j].name => i = j
  BY <1>1 DEF NamesDiffer, MemberTable
<1>3. Seg.index \in DOMAIN MemberTable
  BY AtMember
<1> QED
  BY <1>2, <1>3 DEF Namesakes, Entry, ReadTargets, MemberTable

\* A handle of the segment's member keeps the handles in place.
LEMMA PushIsPlaced ==
  ASSUME TypeOK, Placed, NEW h, h.member = Seg.index, h \in Handle,
         Push(h), UNCHANGED plan
  PROVE  Placed'
<1>1. /\ handles \in Seq(Handle) /\ Len(handles) \in Nat /\ K = Len(handles) + 1
      /\ DOMAIN handles = 1 .. Len(handles)
  BY LenProperties DEF TypeOK, K
<1>2. /\ handles'[K] = h /\ DOMAIN handles' = 1 .. K
      /\ \A k \in 1 .. Len(handles) : handles'[k] = handles[k]
  BY <1>1 DEF Push
<1> QED
  BY <1>1, <1>2 DEF Placed, Seg

\* The handles are in place after every step.
LEMMA NextIsPlaced ==
  ASSUME NamesDiffer, SafeInv, Placed, [Next]_vars
  PROVE  Placed'
<1>1. CASE handles' = <<>>
  BY <1>1 DEF Placed
<1>2. CASE handles' = handles /\ plan' = plan
  BY <1>2 DEF Placed
<1>3. CASE Window /\ handles' # <<>>
  <2>1. /\ pc = "run" /\ K <= Len(plan.segs) /\ plan.route # "Wrapper"
        /\ UNCHANGED <<in, plan>> /\ WindowError(Entry) = {}
        /\ Push(HandleOf("InPlace", Seg.index, Entry.window, WindowLen(Entry)))
    BY <1>3 DEF Window, AtSegment, Fail
  <2> DEFINE h == HandleOf("InPlace", Seg.index, Entry.window, WindowLen(Entry))
  <2>2. Entry \in Member /\ Seg.index \in Nat
    BY <2>1, AtMember DEF SafeInv
  <2>3. Entry.window \in Blob /\ WindowLen(Entry) = Size(Entry.window)
    BY <2>1, <2>2 DEF WindowError, WindowLen, Member
  <2>4. Size(Entry.window) \in Nat
    BY <2>3, ArgumentsType DEF SafeInv
  <2>5. h \in Handle /\ h.member = Seg.index
    BY <2>2, <2>3, <2>4 DEF HandleOf, Handle
  <2>6. Push(h) /\ UNCHANGED plan
    BY <2>1
  <2> HIDE DEF h
  <2> QED
    BY <2>5, <2>6, PushIsPlaced DEF SafeInv
<1>4. CASE OpenEntry
  <2>1. /\ pc = "open" /\ plan.route # "Wrapper" /\ Len(handles) < Len(plan.segs)
        /\ UNCHANGED <<in, plan>>
    BY <1>4 DEF OpenEntry, SafeInv, Planned
  <2>2. K <= Len(plan.segs)
    BY <2>1, RunningSegs DEF SafeInv, K
  <2>3. PICK j \in Namesakes :
          Push(HandleOf("Zran", j, MemberTable[j].data, MemberTable[j].size))
    BY <1>4 DEF OpenEntry
  <2> DEFINE h == HandleOf("Zran", j, MemberTable[j].data, MemberTable[j].size)
  <2>4. j = Seg.index /\ j \in Nat /\ MemberTable[j] \in Member
    BY <2>1, <2>2, <2>3, OnlyNamesake, AtMember DEF SafeInv, Namesakes
  <2>5. h \in Handle /\ h.member = Seg.index
    BY <2>4 DEF HandleOf, Handle, Member
  <2>6. Push(h) /\ UNCHANGED plan
    BY <2>1, <2>3
  <2> HIDE DEF h
  <2> QED
    BY <2>5, <2>6, PushIsPlaced DEF SafeInv
<1>5. CASE SpillMember
  <2>1. /\ pc = "run" /\ K <= Len(plan.segs) /\ plan.route # "Wrapper"
        /\ UNCHANGED <<in, plan>>
    BY <1>5 DEF SpillMember, Spills
  <2>2. PICK j \in ReadTargets(in.world, in.root, plan.fmt, Seg.index) :
          LET r == MemberTable[j].data IN
          r # NoBlob /\ Push(HandleOf("Temp", j, r, Size(r)))
    BY <1>5 DEF SpillMember
  <2> DEFINE r == MemberTable[j].data
             h == HandleOf("Temp", j, r, Size(r))
  <2>3. j = Seg.index /\ j \in Nat /\ MemberTable[j] \in Member
    BY <2>1, OnlyNamesake, AtMember DEF SafeInv
  <2>4. r \in Blob
    BY <2>2, <2>3 DEF Member
  <2>5. Size(r) \in Nat
    BY <2>4, ArgumentsType DEF SafeInv
  <2>6. h \in Handle /\ h.member = Seg.index
    BY <2>3, <2>4, <2>5 DEF HandleOf, Handle
  <2>7. Push(h) /\ UNCHANGED plan
    BY <2>1, <2>2
  <2> HIDE DEF h
  <2> QED
    BY <2>6, <2>7, PushIsPlaced DEF SafeInv
<1>6. CASE SpillWrapper
  BY <1>6 DEF SpillWrapper, AtWrapper, Placed
<1>7. CASE Classify /\ handles' # <<>>
  BY <1>7 DEF Classify, Fail, SafeInv, Planned
<1>8. CASE CopyArchiveFails \/ OpenEntryFails \/ SpillMemberFails \/ SpillWrapperFails
  BY <1>1, <1>8
     DEF CopyArchiveFails, OpenEntryFails, SpillMemberFails, SpillWrapperFails, Fail
<1>9. CASE CopyArchive \/ HandOut \/ DropHandles \/ UNCHANGED vars
  BY <1>1, <1>2, <1>9 DEF CopyArchive, HandOut, DropHandles, vars
<1> QED
  BY <1>1, <1>3, <1>4, <1>5, <1>6, <1>7, <1>8, <1>9 DEF Next

\* Handles in place are all of the archive's files, in order.
LEMMA PlacedIsWhole ==
  ASSUME SafeInv, Placed
  PROVE  SetIsWhole
<1> SUFFICES ASSUME handles # <<>>, pc = "done", plan.route # "Wrapper"
             PROVE  /\ {handles[k].member : k \in DOMAIN handles}
                         = {i \in DOMAIN MemberTable : ~MemberTable[i].isDir}
                    /\ \A j, k \in DOMAIN handles : j < k =>
                         Precedes(MemberTable, plan.kind, handles[j].member, handles[k].member)
  BY DEF SetIsWhole, Precedes
<1>1. plan = Detect(in.world, in.root) /\ Len(handles) = Len(plan.segs)
  BY DEF SafeInv, Planned
<1>2. /\ plan \in Plan
      /\ plan.route \in MemberRoutes => NamesAllFiles(plan, MemberTable)
      /\ plan.route \notin MemberRoutes => plan.segs = <<>>
  BY <1>1, ArgumentsType, DetectIsSound DEF SafeInv, MemberTable
<1>3. handles \in Seq(Handle) /\ plan.segs \in Seq(Segment)
  BY <1>2 DEF SafeInv, TypeOK, Plan
<1>4. DOMAIN handles = DOMAIN plan.segs
  BY <1>1, <1>3, LenProperties
<1>5. plan.segs # <<>>
  BY <1>1, <1>3, EmptySeq
<1>6. NamesAllFiles(plan, MemberTable)
  BY <1>2, <1>5
<1>7. \A k \in DOMAIN handles : handles[k].member = plan.segs[k].index
  BY DEF Placed
<1> QED
  BY <1>4, <1>6, <1>7 DEF NamesAllFiles, Files

\* As long as an archive's names differ, what is handed out is all of its files, each
\* once, a set in the order of its numbers (plan.rs:177-204, reassemble.rs:187-212).
THEOREM SetsAreWhole == ASSUME NamesDiffer PROVE Spec => []SetIsWhole
<1>1. Init => Placed
  BY DEF Init, Placed
<1>2. SafeInv /\ Placed /\ [Next]_vars => Placed'
  BY NextIsPlaced
<1>3. SafeInv /\ Placed => SetIsWhole
  BY PlacedIsWhole
<1> QED
  BY <1>1, <1>2, <1>3, SafeInvHolds, PTL DEF Spec

-----------------------------------------------------------------------------
(* The bound on a zran index *)

\* A smaller factor gives a smaller product.
LEMMA TimesIsMonotone ==
  ASSUME NEW a \in Nat, NEW b \in Nat, NEW c \in Nat, a <= b
  PROVE  a * c <= b * c
OBVIOUS

\* Nor is a factor of a smaller product larger.
LEMMA TimesReflects ==
  ASSUME NEW a \in Int, NEW b \in Nat, NEW c \in Nat, a * c < b * c
  PROVE  a < b
OBVIOUS

\* The quotient that the code rounds up reaches n, in the fewest intervals
\* (execute.rs:497, div_ceil).
LEMMA DivCeil ==
  ASSUME NEW n \in Nat \ {0}, NEW i \in Nat \ {0}
  PROVE  LET up == (n + i - 1) \div i IN
         up \in 1 .. n /\ up * i >= n /\ (up - 1) * i < n
<1> DEFINE a == n + i - 1
           up == a \div i
<1>1. a \in Nat
  OBVIOUS
<1> HIDE DEF a
<1>2. up \in Nat /\ up * i <= a /\ a < (up + 1) * i
  BY <1>1
<1> HIDE DEF up
<1>3. (up + 1) * i = up * i + i /\ (up - 1) * i = up * i - i /\ up * i \in Nat
  BY <1>2
<1>4. up * i >= n /\ (up - 1) * i < n
  BY <1>2, <1>3 DEF a
<1>5. up >= 1
  <2>1. 0 * i = 0
    OBVIOUS
  <2> QED
    BY <1>2, <1>4, <2>1
<1>6. up <= n
  <2>1. n <= n * i
    <3>1. 1 * n <= i * n
      BY TimesIsMonotone
    <3> QED
      BY <3>1
  <2>2. (up - 1) * i < n * i
    BY <1>2, <1>3, <1>4, <2>1
  <2>3. up - 1 < n
    BY <1>2, <1>5, <2>2, TimesReflects
  <2> QED
    BY <1>2, <2>3
<1> QED
  BY <1>2, <1>4, <1>5, <1>6 DEF up, a

\* The number of checkpoints an index over n bytes has.
Checkpoints(n) ==
  IF n = 0 THEN 1
  ELSE CHOOSE c \in 1 .. n : c * CheckpointInterval >= n /\ (c - 1) * CheckpointInterval < n

\* The estimate is never under the index, short of u64::MAX, where it saturates.
LEMMA EstimateIsEnough ==
  ASSUME NEW n \in Nat, NEW max \in Nat, max < MaxU64, IndexBytes(n) <= max
  PROVE  Checkpoints(n) * CheckpointBytes <= max
<1> DEFINE up == (n + CheckpointInterval - 1) \div CheckpointInterval
<1>1. CheckpointInterval \in Nat \ {0} /\ CheckpointBytes \in Nat /\ MaxU64 \in Nat
  BY ExecutorAssumption, AccessPlanAssumption
<1>2. CASE n = 0
  <2>1. up = 0
    <3> DEFINE i == CheckpointInterval
    <3>1. \A d \in Nat \ {0} : (d - 1) \div d = 0
      OBVIOUS
    <3> QED
      BY <1>1, <1>2, <3>1
  <2>2. Larger(up, 1) = 1 /\ Checkpoints(n) = 1
    BY <1>2, <2>1 DEF Larger, Checkpoints
  <2>3. IndexBytes(n) = Smaller(1 * CheckpointBytes, MaxU64)
    BY <2>2 DEF IndexBytes
  <2> QED
    BY <1>1, <2>2, <2>3 DEF Smaller
<1>3. CASE n # 0
  <2>1. /\ up \in 1 .. n
        /\ up * CheckpointInterval >= n /\ (up - 1) * CheckpointInterval < n
    BY <1>1, <1>3, DivCeil
  <2> DEFINE c == Checkpoints(n)
  <2>2. c \in 1 .. n /\ (c - 1) * CheckpointInterval < n
    BY <1>3, <2>1 DEF Checkpoints
  <2>3. Larger(up, 1) = up
    BY <2>1 DEF Larger
  <2>4. IndexBytes(n) = Smaller(up * CheckpointBytes, MaxU64)
    BY <2>3 DEF IndexBytes
  <2> HIDE DEF up, c
  <2>5. (c - 1) * CheckpointInterval < up * CheckpointInterval
    BY <1>1, <2>1, <2>2
  <2>6. c - 1 < up
    BY <1>1, <2>1, <2>2, <2>5, TimesReflects
  <2>7. c * CheckpointBytes <= up * CheckpointBytes
    BY <1>1, <2>1, <2>2, <2>6, TimesIsMonotone
  <2>8. c * CheckpointBytes \in Nat /\ up * CheckpointBytes \in Nat
    BY <1>1, <2>1, <2>2
  <2>9. up * CheckpointBytes <= max
    BY <1>1, <2>4, <2>8 DEF Smaller
  <2>10. c * CheckpointBytes <= max
    BY <2>7, <2>8, <2>9
  <2> QED
    BY <2>10 DEF c
<1> QED
  BY <1>2, <1>3

\* The bound on an index is one: u64::MAX is none, as the estimate saturates there.
IndexIsBounded == \A l \in LimitSet : l.max_index_bytes < MaxU64

\* Every zran handle, and the one being opened, passed the gate by its own length.
Gated ==
  /\ \A k \in DOMAIN handles :
       handles[k].via = "Zran" => IndexBytes(handles[k].len) <= in.limits.max_index_bytes
  /\ pc = "open" => ~IndexTooLarge

\* The estimate is a number.
LEMMA IndexBytesType == \A n \in Nat : IndexBytes(n) \in Nat
<1> SUFFICES ASSUME NEW n \in Nat PROVE IndexBytes(n) \in Nat
  OBVIOUS
<1>1. CheckpointInterval \in Nat \ {0} /\ CheckpointBytes \in Nat /\ MaxU64 \in Nat
  BY ExecutorAssumption, AccessPlanAssumption
<1> DEFINE up == (n + CheckpointInterval - 1) \div CheckpointInterval
<1>2. up \in Nat
  <2>1. n + CheckpointInterval - 1 \in Nat
    BY <1>1
  <2> QED
    BY <1>1, <2>1
<1> HIDE DEF up
<1>3. Larger(up, 1) \in Nat
  BY <1>2 DEF Larger
<1>4. Larger(up, 1) * CheckpointBytes \in Nat
  BY <1>1, <1>3
<1> QED
  BY <1>1, <1>4 DEF IndexBytes, Smaller, up

\* What is appended to the handles is one.
LEMMA LastIsHandle ==
  ASSUME TypeOK, TypeOK', NEW h, Push(h)
  PROVE  h \in Handle
<1>1. handles \in Seq(Handle) /\ handles' \in Seq(Handle) /\ handles' = Append(handles, h)
  BY DEF TypeOK, Push
<1>2. handles'[Len(handles) + 1] = h /\ Len(handles) + 1 \in 1 .. Len(handles')
  BY <1>1
<1> QED
  BY <1>1, <1>2, ElementOfSeq

\* A handle that passed the gate keeps it shut for the others.
LEMMA PushIsGated ==
  ASSUME SafeInv, Gated, NEW h \in Handle, Push(h), UNCHANGED in,
         h.via = "Zran" => IndexBytes(h.len) <= in.limits.max_index_bytes
  PROVE  Gated'
<1>1. /\ handles \in Seq(Handle) /\ Len(handles) \in Nat
      /\ DOMAIN handles = 1 .. Len(handles)
  BY LenProperties DEF SafeInv, TypeOK
<1>2. /\ handles'[Len(handles) + 1] = h /\ DOMAIN handles' = 1 .. Len(handles) + 1
      /\ \A k \in 1 .. Len(handles) : handles'[k] = handles[k]
      /\ pc' = "run"
  BY <1>1 DEF Push
<1>3. ASSUME NEW k \in DOMAIN handles', handles'[k].via = "Zran"
      PROVE  IndexBytes(handles'[k].len) <= in'.limits.max_index_bytes
  <2>1. CASE k = Len(handles) + 1
    BY <1>2, <1>3, <2>1
  <2>2. CASE k # Len(handles) + 1
    <3>1. k \in DOMAIN handles /\ handles'[k] = handles[k]
      BY <1>1, <1>2, <2>2
    <3> QED
      BY <1>3, <3>1 DEF Gated
  <2> QED
    BY <2>1, <2>2
<1> QED
  BY <1>2, <1>3 DEF Gated, IndexBytes

\* Every step keeps the gate.
LEMMA NextIsGated ==
  ASSUME NamesDiffer, SafeInv, Gated, [Next]_vars
  PROVE  Gated'
<1>a. TypeOK /\ TypeOK'
  <2>1. SafeInv'
    BY NextIsSafe
  <2> QED
    BY <2>1 DEF SafeInv
<1>1. CASE handles' = <<>> /\ pc' # "open"
  BY <1>1 DEF Gated
<1>2. CASE handles' = handles /\ in' = in /\ pc' # "open"
  BY <1>2 DEF Gated, IndexBytes
<1>3. CASE Window
  <2>1. CASE \E e : Fail(e)
    BY <1>1, <2>1 DEF Fail
  <2>2. CASE Push(HandleOf("InPlace", Seg.index, Entry.window, WindowLen(Entry)))
    <3> DEFINE h == HandleOf("InPlace", Seg.index, Entry.window, WindowLen(Entry))
    <3>1. h.via # "Zran" /\ in' = in /\ Push(h)
      BY <1>3, <2>2 DEF Window, HandleOf
    <3>2. h \in Handle
      BY <1>a, <3>1, LastIsHandle
    <3> HIDE DEF h
    <3> QED
      BY <3>1, <3>2, PushIsGated
  <2> QED
    BY <1>3, <2>1, <2>2 DEF Window
<1>4. CASE CopyArchive
  <2>1. UNCHANGED <<in, plan, handles>> /\ ~IndexTooLarge
    BY <1>4 DEF CopyArchive
  <2> QED
    BY <2>1 DEF Gated, IndexTooLarge, IndexBytes, Entry, MemberTable, Seg, K
<1>5. CASE OpenEntry
  <2>1. /\ pc = "open" /\ plan.route # "Wrapper" /\ Len(handles) < Len(plan.segs)
        /\ UNCHANGED <<in, plan>> /\ ~IndexTooLarge
    BY <1>5 DEF OpenEntry, SafeInv, Planned, Gated
  <2>2. K <= Len(plan.segs)
    BY <2>1, RunningSegs DEF SafeInv, K
  <2>3. PICK j \in Namesakes :
          Push(HandleOf("Zran", j, MemberTable[j].data, MemberTable[j].size))
    BY <1>5 DEF OpenEntry
  <2> DEFINE h == HandleOf("Zran", j, MemberTable[j].data, MemberTable[j].size)
  <2>4. j = Seg.index /\ j \in Nat /\ MemberTable[j] \in Member
    BY <2>1, <2>2, <2>3, OnlyNamesake, AtMember DEF SafeInv, Namesakes
  <2>5. h \in Handle /\ h.len = Entry.size
    BY <2>4 DEF HandleOf, Handle, Member, Entry
  <2>6. IndexBytes(Entry.size) <= in.limits.max_index_bytes
    <3>1. Entry.size \in Nat
      BY <2>4 DEF Entry, Member
    <3>2. IndexBytes(Entry.size) \in Nat
      BY <3>1, IndexBytesType
    <3> QED
      BY <2>1, <3>2, ArgumentsType DEF IndexTooLarge, SafeInv
  <2>7. Push(h) /\ UNCHANGED in
    BY <2>1, <2>3
  <2> HIDE DEF h
  <2> QED
    BY <2>5, <2>6, <2>7, PushIsGated
<1>6. CASE SpillMember
  <2>1. PICK j \in ReadTargets(in.world, in.root, plan.fmt, Seg.index) :
          Push(HandleOf("Temp", j, MemberTable[j].data, Size(MemberTable[j].data)))
    BY <1>6 DEF SpillMember
  <2> DEFINE h == HandleOf("Temp", j, MemberTable[j].data, Size(MemberTable[j].data))
  <2>2. h.via # "Zran" /\ in' = in /\ Push(h)
    BY <1>6, <2>1 DEF SpillMember, HandleOf
  <2>3. h \in Handle
    BY <1>a, <2>2, LastIsHandle
  <2> HIDE DEF h
  <2> QED
    BY <2>2, <2>3, PushIsGated
<1>7. CASE SpillWrapper
  <2> DEFINE h == HandleOf("Temp", 0, Stream, Size(Stream))
  <2>1. h.via # "Zran" /\ in' = in /\ Push(h)
    BY <1>7 DEF SpillWrapper, HandleOf
  <2>2. h \in Handle
    BY <1>a, <2>1, LastIsHandle
  <2> HIDE DEF h
  <2> QED
    BY <2>1, <2>2, PushIsGated
<1>8. CASE CopyArchiveFails \/ OpenEntryFails \/ SpillMemberFails \/ SpillWrapperFails
  <2>1. handles' = <<>> /\ pc' = "done"
    BY <1>8
       DEF CopyArchiveFails, OpenEntryFails, SpillMemberFails, SpillWrapperFails, Fail
  <2> QED
    BY <1>1, <2>1
<1>9. CASE Classify \/ HandOut \/ DropHandles
  BY <1>1, <1>2, <1>9 DEF Classify, Fail, HandOut, DropHandles
<1>10. CASE UNCHANGED vars
  BY <1>10 DEF vars, Gated, IndexTooLarge, IndexBytes, Entry, MemberTable, Seg, K
<1> QED
  BY <1>3, <1>4, <1>5, <1>6, <1>7, <1>8, <1>9, <1>10 DEF Next

\* As long as an archive's names differ and the caller's bound is below u64::MAX, the
\* checkpoints of every zran handle's index fit in it (execute.rs:452, 496-498,
\* resolve.rs:36-39).
THEOREM IndexFits == ASSUME NamesDiffer, IndexIsBounded PROVE Spec => []IndexGateKept
<1>1. Init => Gated
  BY DEF Init, Gated
<1>2. SafeInv /\ Gated /\ [Next]_vars => Gated'
  BY NextIsGated
<1>3. SafeInv /\ Gated => IndexGateKept
  <2> SUFFICES ASSUME SafeInv, Gated, NEW k \in DOMAIN handles, handles[k].via = "Zran"
               PROVE  Checkpoints(handles[k].len) * CheckpointBytes
                        <= in.limits.max_index_bytes
    BY DEF IndexGateKept, Checkpoints
  <2>1. handles[k].len \in Nat
    <3>1. handles[k] \in Handle
      BY ElementOfSeq, LenProperties DEF SafeInv, TypeOK
    <3> QED
      BY <3>1 DEF Handle
  <2>2. in.limits.max_index_bytes \in Nat /\ in.limits.max_index_bytes < MaxU64
    BY ArgumentsType DEF SafeInv, TypeOK, Inputs, IndexIsBounded
  <2> QED
    BY <2>1, <2>2, EstimateIsEnough DEF Gated
<1> QED
  BY <1>1, <1>2, <1>3, SafeInvHolds, PTL DEF Spec

-----------------------------------------------------------------------------
(* The in-memory twin *)

\* A stored member that reads back right is the bytes of its window.
StoredIsWindow ==
  \A a \in Inputs :
    LET ms == Entries(a.world, a.root, Detect(a.world, a.root).fmt) IN
    \A i \in DOMAIN ms :
      ms[i].method = "stored" /\ ms[i].data # NoBlob => ms[i].window = ms[i].data

\* What peel_archive answers with for the plan's format, if it has bytes to give: the
\* stream, or the data of the one file member, within its three caps.
Peeled(r) ==
  /\ r \in Blob /\ Size(r) <= Cap /\ Size(r) <= MaxInflated
  /\ \/ plan.route = "Wrapper" /\ r = Stream
     \/ /\ plan.route = "Member"
        /\ r = MemberTable[plan.segs[1].index].data
        /\ plan.fmt = "SevenZip" => MemberTable[plan.segs[1].index].size <= MaxInflated

\* A call that is not for members says so; one that is never calls those bytes too
\* large, and each handle has them.
Agreeing ==
  in.call = "peel" /\ pc # "detect" =>
    /\ plan.route = "Open" => result = "Open"
    /\ plan.route \notin Wanted \cup {"Open"} => result = "NotPacked"
    /\ \A r : Peeled(r) => /\ result \in {"none", "Inner", "Read", "Decode"}
                           /\ \A k \in DOMAIN handles : handles[k].bytes = r

\* A peel that runs has one segment, and while it is at it no handle.
LEMMA LoneSegment ==
  ASSUME SafeInv, Agreeing, in.call = "peel", pc \in {"run", "open"}
  PROVE  /\ plan.route \in {"Member", "Wrapper"}
         /\ Len(plan.segs) = 1
         /\ K <= Len(plan.segs) => handles = <<>> /\ K = 1 /\ Seg = plan.segs[1]
         /\ plan.route = "Wrapper" => IsCompressionWrapper(plan.fmt)
         /\ plan.route = "Member" /\ K <= Len(plan.segs) =>
              Seg.access = MemberAccess(plan.fmt, Entry)
<1>1. result = "none"
  BY DEF SafeInv, TypeOK
<1>2. plan.route \in {"Member", "Wrapper"}
  BY <1>1 DEF Agreeing, Wanted
<1>3. /\ plan = Detect(in.world, in.root) /\ in.world \in World /\ in.root \in Blob
  BY ArgumentsType DEF SafeInv, Planned
<1>4. /\ Len(plan.segs) = 1
      /\ plan.route = "Wrapper" => IsCompressionWrapper(plan.fmt)
      /\ plan.route = "Member" =>
           plan.segs[1].access = MemberAccess(plan.fmt, MemberTable[plan.segs[1].index])
  <2>1. CASE plan.route = "Wrapper"
    BY <1>3, <2>1, DetectCases
  <2>2. CASE plan.route = "Member"
    <3>1. plan = DetectArchive(in.world, in.root, plan.fmt)
      BY <1>3, <2>2, DetectCases
    <3> QED
      BY <1>3, <2>2, <3>1, DetectArchiveCases DEF MemberTable
  <2> QED
    BY <1>2, <2>1, <2>2
<1>5. K <= Len(plan.segs) => handles = <<>> /\ K = 1 /\ Seg = plan.segs[1]
  <2>1. handles \in Seq(Handle) /\ Len(handles) \in Nat
    BY LenProperties DEF SafeInv, TypeOK
  <2>2. K <= 1 => Len(handles) = 0
    BY <2>1 DEF K
  <2>3. Len(handles) = 0 => handles = <<>>
    BY <2>1, EmptySeq
  <2> QED
    BY <1>4, <2>2, <2>3 DEF K, Seg
<1> QED
  BY <1>2, <1>4, <1>5 DEF Entry

\* A running peel that ends with an error, and not with TooLarge where the twin has
\* bytes.
LEMMA FailAgrees ==
  ASSUME SafeInv, Agreeing, pc \in {"run", "open"}, UNCHANGED <<in, plan>>,
         NEW e, Fail(e), e \in {"Read", "Decode"} \/ \A r : ~Peeled(r)
  PROVE  Agreeing'
<1> SUFFICES ASSUME in.call = "peel" PROVE Agreeing'
  BY DEF Agreeing
<1>1. plan.route \in {"Member", "Wrapper"}
  BY LoneSegment
<1>2. /\ handles' = <<>> /\ DOMAIN handles' = {} /\ result' = e
      /\ plan'.route \in Wanted' /\ plan'.route # "Open"
  BY <1>1 DEF Fail, Wanted
<1>3. \A r : Peeled(r)' => Peeled(r)
  BY DEF Peeled, Size, Cap, Stream, MemberTable
<1> QED
  BY <1>2, <1>3 DEF Agreeing

\* The handle of a running peel has the twin's bytes.
LEMMA PushAgrees ==
  ASSUME SafeInv, Agreeing, pc \in {"run", "open"}, K <= Len(plan.segs),
         NEW h, Push(h), UNCHANGED <<in, plan, result>>,
         in.call = "peel" => \A r : Peeled(r) => h.bytes = r
  PROVE  Agreeing'
<1> SUFFICES ASSUME in.call = "peel" PROVE Agreeing'
  BY DEF Agreeing
<1>1. plan.route \in {"Member", "Wrapper"} /\ handles = <<>>
  BY LoneSegment
<1>2. handles' = <<h>> /\ DOMAIN handles' = {1} /\ handles'[1] = h
  BY <1>1 DEF Push
<1>3. result' = "none" /\ plan'.route \in Wanted' /\ plan'.route # "Open"
  BY <1>1 DEF SafeInv, TypeOK, Wanted
<1>4. \A r : Peeled(r)' => Peeled(r)
  BY DEF Peeled, Size, Cap, Stream, MemberTable
<1> QED
  BY <1>2, <1>3, <1>4 DEF Agreeing

\* Every step keeps the twins together.
LEMMA NextAgrees ==
  ASSUME NamesDiffer, StoredIsWindow, SafeInv, Agreeing, [Next]_vars
  PROVE  Agreeing'
<1>1. CASE Classify
  <2>1. /\ pc = "detect" /\ handles = <<>> /\ result = "none" /\ in' = in
    BY <1>1 DEF Classify, SafeInv, Planned, TypeOK
  <2>2. DOMAIN handles' = {}
    <3>1. handles' = <<>>
      BY <1>1, <2>1 DEF Classify, Fail
    <3> QED
      BY <3>1
  <2>3. CASE plan'.route = "Open"
    <3>1. result' = "Open" /\ \A r : ~Peeled(r)'
      BY <1>1, <2>3 DEF Classify, Fail, Peeled
    <3> QED
      BY <2>1, <2>3, <3>1 DEF Agreeing
  <2>4. CASE plan'.route # "Open" /\ plan'.route \notin Wanted
    <3>1. result' = "NotPacked" /\ Wanted' = Wanted
      BY <1>1, <2>1, <2>4 DEF Classify, Fail, Wanted
    <3>2. in.call = "peel" => \A r : ~Peeled(r)'
      BY <2>4 DEF Peeled, Wanted
    <3> QED
      BY <2>1, <2>4, <3>1, <3>2 DEF Agreeing
  <2>5. CASE plan'.route # "Open" /\ plan'.route \in Wanted
    <3>1. result' = "none" /\ Wanted' = Wanted
      BY <1>1, <2>1, <2>5 DEF Classify, Wanted
    <3> QED
      BY <2>2, <2>5, <3>1 DEF Agreeing
  <2> QED
    BY <2>3, <2>4, <2>5
<1>2. CASE Window
  <2>1. /\ pc = "run" /\ K <= Len(plan.segs) /\ plan.route # "Wrapper" /\ Seg.access = "InPlace"
        /\ UNCHANGED <<in, plan>>
    BY <1>2 DEF Window, AtSegment
  <2>2. in.call = "peel" => \A r : Peeled(r) => Entry.window = r
    <3> SUFFICES ASSUME in.call = "peel", NEW r, Peeled(r) PROVE Entry.window = r
      OBVIOUS
    <3>1. Seg = plan.segs[1] /\ Seg.access = MemberAccess(plan.fmt, Entry)
      BY <2>1, LoneSegment
    <3>2. Entry.method = "stored"
      BY <2>1, <3>1 DEF MemberAccess
    <3>3. r \in Blob /\ Entry.data = r
      BY <2>1, <3>1 DEF Peeled, Entry
    <3>4. Entry.data # NoBlob
      BY <3>3, ContentAssumption
    <3>5. in \in Inputs /\ plan = Detect(in.world, in.root) /\ Seg.index \in DOMAIN MemberTable
      BY <2>1, AtMember DEF SafeInv, TypeOK, Planned
    <3> QED
      BY <3>2, <3>3, <3>4, <3>5 DEF StoredIsWindow, MemberTable, Entry
  <2>3. CASE WindowError(Entry) # {}
    <3>1. PICK e \in WindowError(Entry) : Fail(e)
      BY <1>2, <2>3 DEF Window
    <3>2. CASE e = "Read"
      BY <2>1, <3>1, <3>2, FailAgrees
    <3>3. CASE e # "Read"
      <4>1. WindowLen(Entry) > Cap
        BY <3>1, <3>3 DEF WindowError
      <4>2. in.call = "peel" => \A r : ~Peeled(r)
        <5> SUFFICES ASSUME in.call = "peel", NEW r, Peeled(r) PROVE FALSE
          OBVIOUS
        <5>1. Entry.window = r /\ r \in Blob /\ Size(r) <= Cap
          BY <2>2 DEF Peeled
        <5>2. Entry.window # NoBlob
          BY <5>1, ContentAssumption
        <5>3. WindowLen(Entry) = Size(r)
          BY <5>1, <5>2 DEF WindowLen
        <5>4. Size(r) \in Nat /\ Cap \in Nat
          BY <5>1, ArgumentsType DEF SafeInv
        <5> QED
          BY <4>1, <5>1, <5>3, <5>4
      <4> QED
        BY <2>1, <3>1, <4>2, FailAgrees DEF Agreeing
    <3> QED
      BY <3>2, <3>3
  <2>4. CASE WindowError(Entry) = {}
    <3> DEFINE h == HandleOf("InPlace", Seg.index, Entry.window, WindowLen(Entry))
    <3>1. Push(h) /\ UNCHANGED <<in, plan, result>> /\ h.bytes = Entry.window
      BY <1>2, <2>4 DEF Window, HandleOf
    <3> HIDE DEF h
    <3> QED
      BY <2>1, <2>2, <3>1, PushAgrees
  <2> QED
    BY <2>3, <2>4
<1>3. CASE CopyArchive
  <2>1. /\ pc = "run" /\ pc' = "open" /\ UNCHANGED <<in, plan, handles, result>>
    BY <1>3 DEF CopyArchive, AtSegment
  <2>2. \A r : Peeled(r)' => Peeled(r)
    BY <2>1 DEF Peeled, Size, Cap, Stream, MemberTable
  <2> QED
    BY <2>1, <2>2 DEF Agreeing, Wanted
<1>4. CASE OpenEntry
  <2>1. /\ pc = "open" /\ plan.route # "Wrapper" /\ Len(handles) < Len(plan.segs)
        /\ UNCHANGED <<in, plan, result>>
    BY <1>4 DEF OpenEntry, SafeInv, Planned
  <2>2. K <= Len(plan.segs)
    BY <2>1, RunningSegs DEF SafeInv, K
  <2>3. PICK j \in Namesakes :
          Push(HandleOf("Zran", j, MemberTable[j].data, MemberTable[j].size))
    BY <1>4 DEF OpenEntry
  <2> DEFINE h == HandleOf("Zran", j, MemberTable[j].data, MemberTable[j].size)
  <2>4. h.bytes = MemberTable[Seg.index].data
    BY <2>1, <2>2, OnlyNamesake DEF SafeInv, HandleOf
  <2>5. in.call = "peel" => \A r : Peeled(r) => h.bytes = r
    BY <2>1, <2>2, <2>4, LoneSegment DEF Peeled
  <2>6. Push(h)
    BY <2>3
  <2> HIDE DEF h
  <2> QED
    BY <2>1, <2>2, <2>5, <2>6, PushAgrees
<1>5. CASE SpillMember
  <2>1. /\ pc = "run" /\ K <= Len(plan.segs) /\ plan.route # "Wrapper"
        /\ UNCHANGED <<in, plan, result>>
    BY <1>5 DEF SpillMember, Spills
  <2>2. PICK j \in ReadTargets(in.world, in.root, plan.fmt, Seg.index) :
          Push(HandleOf("Temp", j, MemberTable[j].data, Size(MemberTable[j].data)))
    BY <1>5 DEF SpillMember
  <2> DEFINE h == HandleOf("Temp", j, MemberTable[j].data, Size(MemberTable[j].data))
  <2>3. h.bytes = MemberTable[Seg.index].data
    BY <2>1, OnlyNamesake DEF SafeInv, HandleOf
  <2>4. in.call = "peel" => \A r : Peeled(r) => h.bytes = r
    BY <2>1, <2>3, LoneSegment DEF Peeled
  <2>5. Push(h)
    BY <2>2
  <2> HIDE DEF h
  <2> QED
    BY <2>1, <2>4, <2>5, PushAgrees
<1>6. CASE SpillWrapper
  <2> DEFINE h == HandleOf("Temp", 0, Stream, Size(Stream))
  <2>1. /\ pc = "run" /\ K <= Len(plan.segs) /\ plan.route = "Wrapper"
        /\ UNCHANGED <<in, plan, result>> /\ Push(h) /\ h.bytes = Stream
    BY <1>6 DEF SpillWrapper, AtWrapper, HandleOf
  <2>2. \A r : Peeled(r) => h.bytes = r
    BY <2>1 DEF Peeled
  <2> HIDE DEF h
  <2> QED
    BY <2>1, <2>2, PushAgrees
<1>7. CASE CopyArchiveFails \/ OpenEntryFails
  <2>1. pc \in {"run", "open"} /\ UNCHANGED <<in, plan>> /\ Fail("Read")
    BY <1>7 DEF CopyArchiveFails, OpenEntryFails, AtSegment
  <2> QED
    BY <2>1, FailAgrees
<1>8. CASE SpillMemberFails
  <2>1. /\ pc = "run" /\ K <= Len(plan.segs) /\ plan.route # "Wrapper"
        /\ UNCHANGED <<in, plan>>
    BY <1>8 DEF SpillMemberFails, Spills
  <2>2. CASE Fail("Read")
    BY <2>1, <2>2, FailAgrees
  <2>3. CASE /\ \/ plan.fmt = "SevenZip" /\ Entry.size > MaxInflated
                \/ \E j \in ReadTargets(in.world, in.root, plan.fmt, Seg.index) :
                     MayBeTooLarge(MemberTable[j].data)
             /\ Fail("TooLarge")
    <3>1. in.call = "peel" => \A r : ~Peeled(r)
      <4> SUFFICES ASSUME in.call = "peel", NEW r, Peeled(r) PROVE FALSE
        OBVIOUS
      <4>1. Seg = plan.segs[1] /\ Seg.index \in DOMAIN MemberTable /\ Entry \in Member
        BY <2>1, LoneSegment, AtMember DEF SafeInv
      <4>2. /\ r \in Blob /\ Size(r) <= Cap /\ Size(r) <= MaxInflated
            /\ Entry.data = r /\ (plan.fmt = "SevenZip" => Entry.size <= MaxInflated)
        BY <2>1, <4>1 DEF Peeled, Entry
      <4>3. Size(r) \in Nat /\ Cap \in Nat /\ MaxInflated \in Nat /\ Entry.size \in Nat
        BY <4>1, <4>2, ArgumentsType, ContentAssumption DEF SafeInv, Member
      <4>4. ~MayBeTooLarge(r)
        BY <4>2, <4>3 DEF MayBeTooLarge, OverCap
      <4>5. \A j \in ReadTargets(in.world, in.root, plan.fmt, Seg.index) : MemberTable[j].data = r
        BY <2>1, <4>2, OnlyNamesake DEF SafeInv, Entry
      <4> QED
        BY <2>3, <4>2, <4>3, <4>4, <4>5
    <3> QED
      BY <2>1, <2>3, <3>1, FailAgrees DEF Agreeing
  <2> QED
    BY <1>8, <2>2, <2>3 DEF SpillMemberFails
<1>9. CASE SpillWrapperFails
  <2>1. /\ pc = "run" /\ plan.route = "Wrapper" /\ UNCHANGED <<in, plan>>
    BY <1>9 DEF SpillWrapperFails, AtWrapper
  <2>2. CASE \E e \in {"Decode", "Read"} : Fail(e)
    BY <2>1, <2>2, FailAgrees
  <2>3. CASE MayBeTooLarge(Stream) /\ Fail("TooLarge")
    <3>1. in.call = "peel" => \A r : ~Peeled(r)
      <4> SUFFICES ASSUME in.call = "peel", NEW r, Peeled(r) PROVE FALSE
        OBVIOUS
      <4>1. r = Stream /\ r \in Blob /\ Size(r) <= Cap /\ plan.fmt # "SevenZip"
        BY <2>1, LoneSegment DEF Peeled, IsCompressionWrapper
      <4>2. Size(r) \in Nat /\ Cap \in Nat
        BY <4>1, ArgumentsType DEF SafeInv
      <4> QED
        BY <2>3, <4>1, <4>2 DEF MayBeTooLarge, OverCap
    <3> QED
      BY <2>1, <2>3, <3>1, FailAgrees DEF Agreeing
  <2> QED
    BY <1>9, <2>2, <2>3 DEF SpillWrapperFails
<1>10. CASE HandOut
  <2>1. pc = "run" /\ UNCHANGED <<in, plan, handles>> /\ (in.call = "peel" => result' = "Inner")
    BY <1>10 DEF HandOut
  <2>2. \A r : Peeled(r)' => Peeled(r)
    BY <2>1 DEF Peeled, Size, Cap, Stream, MemberTable
  <2>3. in.call = "peel" => plan.route \in {"Member", "Wrapper"}
    BY <2>1, LoneSegment
  <2> QED
    BY <2>1, <2>2, <2>3 DEF Agreeing, Wanted
<1>11. CASE DropHandles
  <2>1. pc = "done" /\ UNCHANGED <<in, plan, pc, result>> /\ handles' = <<>>
    BY <1>11 DEF DropHandles
  <2>2. \A r : Peeled(r)' => Peeled(r)
    BY <2>1 DEF Peeled, Size, Cap, Stream, MemberTable
  <2>3. DOMAIN handles' = {}
    BY <2>1
  <2> QED
    BY <2>1, <2>2, <2>3 DEF Agreeing, Wanted
<1>12. CASE UNCHANGED vars
  BY <1>12 DEF vars, Agreeing, Wanted, Peeled, Size, Cap, Stream, MemberTable
<1> QED
  BY <1>1, <1>2, <1>3, <1>4, <1>5, <1>6, <1>7, <1>8, <1>9, <1>10, <1>11, <1>12 DEF Next

\* A stream that breaks off is not handed out by a peel, nor taken for plain bytes.
BrokenRefused ==
  in.call = "peel" /\ plan.route = "Wrapper" /\ Stream = NoBlob =>
    handles = <<>> /\ result \notin {"Inner", "NotPacked"}

LEMMA NextRefusesBroken ==
  ASSUME SafeInv, Agreeing, BrokenRefused, [Next]_vars
  PROVE  BrokenRefused'
<1> SUFFICES ASSUME in'.call = "peel", plan'.route = "Wrapper", Stream' = NoBlob
             PROVE  handles' = <<>> /\ result' \notin {"Inner", "NotPacked"}
  BY DEF BrokenRefused
<1>1. CASE Classify
  <2>1. in' = in /\ handles = <<>> /\ result = "none"
    BY <1>1 DEF Classify, SafeInv, Planned, TypeOK
  <2>2. plan'.route \in Wanted
    BY <2>1 DEF Wanted
  <2> QED
    BY <1>1, <2>1, <2>2 DEF Classify
<1>2. ASSUME ~Classify
      PROVE  /\ UNCHANGED <<in, plan>> /\ Stream = NoBlob
             /\ in.call = "peel" /\ plan.route = "Wrapper"
             /\ handles = <<>> /\ result \notin {"Inner", "NotPacked"}
  <2>1. UNCHANGED <<in, plan>>
    BY <1>2 DEF Next, vars, Window, CopyArchive, CopyArchiveFails, OpenEntry, OpenEntryFails,
                SpillMember, SpillMemberFails, SpillWrapper, SpillWrapperFails, HandOut, DropHandles
  <2> QED
    BY <2>1 DEF BrokenRefused, Stream
<1>3. CASE ~Classify /\ (SpillWrapperFails \/ DropHandles \/ UNCHANGED vars)
  BY <1>2, <1>3 DEF SpillWrapperFails, Fail, DropHandles, vars
<1>4. CASE ~Classify /\ HandOut
  <2>1. pc = "run" /\ K > Len(plan.segs)
    BY <1>4 DEF HandOut
  <2>2. Len(plan.segs) = 1 /\ K = 1
    BY <1>2, <1>4, <2>1, LoneSegment DEF K
  <2> QED
    BY <2>1, <2>2
<1>5. CASE ~Classify /\ SpillWrapper
  BY <1>2, <1>5 DEF SpillWrapper
<1>6. CASE ~Classify /\ (Window \/ CopyArchive \/ CopyArchiveFails \/ SpillMember \/ SpillMemberFails)
  BY <1>2, <1>6 DEF Window, CopyArchive, CopyArchiveFails, SpillMember, SpillMemberFails, Spills
<1>7. CASE ~Classify /\ (OpenEntry \/ OpenEntryFails)
  BY <1>2, <1>7 DEF OpenEntry, OpenEntryFails, SafeInv, Planned
<1> QED
  BY <1>1, <1>3, <1>4, <1>5, <1>6, <1>7 DEF Next

\* The answers of peel_archive on a plan's format are in the plan.
LEMMA PeelIsPlanned ==
  ASSUME NamesDiffer, SafeInv, pc = "done",
         NEW name, SniffBlob(in.world, in.root, name) = plan.fmt,
         NEW r \in PeelArchive(in.world, in.root, name, Cap)
  PROVE  /\ r \in Blob => Peeled(r)
         /\ IsArchive(plan.fmt) /\ r = "Open" => plan.route = "Open"
         /\ IsArchive(plan.fmt) /\ r = "NotPacked" => plan.route \in {"SegmentSet", "Collection"}
         /\ r = "Decode" => plan.route = "Wrapper" /\ Stream = NoBlob
<1> DEFINE w == in.world
           b == in.root
           fmt == plan.fmt
           files == {i \in DOMAIN MemberTable : ~MemberTable[i].isDir}
<1>1. plan = Detect(w, b) /\ w \in World /\ b \in Blob /\ in \in Inputs
  BY ArgumentsType DEF SafeInv, Planned, TypeOK
<1>2. /\ "NotPacked" \notin Blob /\ "TotalInflatedExceeded" \notin Blob
      /\ "Open" \notin Blob /\ "TooLarge" \notin Blob /\ "Read" \notin Blob /\ "Decode" \notin Blob
  BY ContentAssumption, ArchiveLayerAssumption DEF ReadErrors
<1>3. \A x : LET c == CapInner(w, x, Cap) IN
             \/ x \in Blob /\ w[x].size > Cap /\ c = "TotalInflatedExceeded"
             \/ x \in Blob /\ ~(w[x].size > Cap) /\ c = x
             \/ x \notin Blob /\ c = x
  BY DEF CapInner
<1>4. \A x \in Blob : Size(x) = w[x].size /\ Size(x) \in Nat
  BY ArgumentsType DEF SafeInv, Size
<1>5. Cap \in Nat /\ MaxInflated \in Nat
  BY ArgumentsType, ContentAssumption DEF SafeInv
<1>6. CASE IsCompressionWrapper(fmt)
  <2>1. plan.route = "Wrapper" /\ ~IsArchive(fmt)
    BY <1>1, <1>6, DetectCases DEF IsArchive, IsCompressionWrapper
  <2>2. r = "NotPacked" \/ r = CapInner(w, PeelBytes(w, b, fmt), Cap)
    BY <1>6 DEF PeelArchive
  <2>3. ASSUME r \in Blob PROVE Peeled(r)
    <3>1. r = PeelBytes(w, b, fmt) /\ ~(w[r].size > Cap)
      BY <1>2, <1>3, <2>2, <2>3
    <3>2. r = Stream /\ ~(w[r].size > MaxInflated)
      <4>1. r = Inflate(w, CodecOf(fmt), b) /\ r # NoBlob
        BY <1>2, <2>3, <3>1 DEF PeelBytes
      <4>2. Streamed(w, CodecOf(fmt), b) = r
        BY <4>1 DEF Streamed, Inflate
      <4>3. ~PastCap(w, Streamed(w, CodecOf(fmt), b))
        BY <1>2, <2>3, <3>1 DEF PeelBytes
      <4> QED
        BY <2>3, <4>1, <4>2, <4>3 DEF PastCap, Stream
    <3> QED
      BY <1>4, <1>5, <2>1, <2>3, <3>1, <3>2 DEF Peeled
  <2>4. ASSUME r = "Decode" PROVE Stream = NoBlob
    <3>1. PeelBytes(w, b, fmt) = "Decode"
      BY <1>2, <1>3, <2>2, <2>4
    <3>2. Stream \in Blob \cup {NoBlob}
      BY <1>1 DEF Stream, Inflate, World
    <3> QED
      BY <1>2, <3>1, <3>2 DEF PeelBytes, Stream
  <2> QED
    BY <1>2, <2>1, <2>3, <2>4
<1>7. CASE ~IsCompressionWrapper(fmt) /\ ~IsArchive(fmt)
  <2>1. r = "NotPacked"
    BY <1>7 DEF PeelArchive
  <2> QED
    BY <1>2, <1>7, <2>1
<1>8. CASE IsArchive(fmt)
  <2>1. /\ plan.route \in {"Open", "SegmentSet", "Member", "Collection"}
        /\ plan.route = "Open" <=> ~Opens(w, b, fmt)
        /\ plan.route = "Member" <=> Opens(w, b, fmt) /\ Cardinality(files) = 1
        /\ plan.route = "Member" => files = {plan.segs[1].index}
    <3>1. plan = DetectArchive(w, b, fmt)
      BY <1>1, <1>8, DetectCases
    <3>2. MemberTable = Entries(w, b, fmt) /\ files = Files(MemberTable)
      BY DEF MemberTable, Files
    <3> QED
      BY <1>1, <3>1, <3>2, DetectArchiveCases
  <2>2. \/ ~Opens(w, b, fmt) /\ r = "Open"
        \/ Opens(w, b, fmt) /\ Cardinality(files) # 1 /\ r = "NotPacked"
        \/ /\ Opens(w, b, fmt) /\ Cardinality(files) = 1
           /\ \E i \in files : \E x \in ReadMember(w, b, fmt, i) : r = CapInner(w, x, Cap)
    <3>1. ~IsCompressionWrapper(fmt)
      BY <1>8 DEF IsArchive, IsCompressionWrapper
    <3> QED
      BY <1>8, <3>1 DEF PeelArchive, MemberTable
  <2>3. CASE ~Opens(w, b, fmt) /\ r = "Open"
    BY <1>2, <2>1, <2>3
  <2>4. CASE Opens(w, b, fmt) /\ Cardinality(files) # 1 /\ r = "NotPacked"
    BY <1>2, <2>1, <2>4
  <2>5. CASE /\ Opens(w, b, fmt) /\ Cardinality(files) = 1
             /\ \E i \in files : \E x \in ReadMember(w, b, fmt, i) : r = CapInner(w, x, Cap)
    <3>1. PICK i \in files : \E x \in ReadMember(w, b, fmt, i) : r = CapInner(w, x, Cap)
      BY <2>5
    <3>2. PICK x \in ReadMember(w, b, fmt, i) : r = CapInner(w, x, Cap)
      BY <3>1
    <3>3. /\ plan.route = "Member" /\ i = plan.segs[1].index /\ i \in DOMAIN MemberTable
          /\ MemberTable = Entries(w, b, fmt)
      BY <2>1, <2>5 DEF MemberTable
    <3>4. ReadTargets(w, b, fmt, i) \subseteq {i}
      BY <1>1, <3>3 DEF NamesDiffer, ReadTargets
    <3>5. \/ x = "TooLarge"
          \/ x = "Read"
          \/ /\ x = MemberTable[i].data /\ x # NoBlob /\ ~(w[x].size > MaxInflated)
             /\ ~(fmt = "SevenZip" /\ MemberTable[i].size > MaxInflated)
      BY <3>2, <3>3, <3>4 DEF ReadMember, ReadBody
    <3>6. MemberTable[i].data \in Blob \cup {NoBlob} /\ MemberTable[i].size \in Nat
      <4>1. MemberTable \in Seq(Member)
        BY ArgumentsType DEF SafeInv, MemberTable
      <4>2. MemberTable[i] \in Member
        BY <3>3, <4>1, ElementOfSeq, LenProperties
      <4> QED
        BY <4>2 DEF Member
    <3>7. r # "Open" /\ r # "NotPacked" /\ r # "Decode"
      BY <1>2, <1>3, <3>2, <3>5, <3>6
    <3>8. ASSUME r \in Blob PROVE Peeled(r)
      <4>1. r = x /\ ~(w[r].size > Cap)
        BY <1>2, <1>3, <3>2, <3>8
      <4> QED
        BY <1>2, <1>4, <1>5, <3>3, <3>5, <3>6, <3>8, <4>1 DEF Peeled
    <3> QED
      BY <3>7, <3>8
  <2> QED
    BY <2>2, <2>3, <2>4, <2>5
<1> QED
  BY <1>6, <1>7, <1>8

\* As long as an archive's names differ and its stored members are their windows, the
\* seekable peel and the in-memory one hand out the same bytes and decline the same
\* archives, for every world, file name and limits (execute.rs:296-297,
\* archive_layer.rs:30-76).
THEOREM TwinsDoAgree == ASSUME NamesDiffer, StoredIsWindow PROVE Spec => []TwinsAgree
<1>1. Init => Agreeing
  BY DEF Init, Agreeing
<1>2. SafeInv /\ Agreeing /\ [Next]_vars => Agreeing'
  BY NextAgrees
<1>3. SafeInv /\ Agreeing /\ BrokenRefused => TwinsAgree
  <2> SUFFICES ASSUME SafeInv, Agreeing, BrokenRefused, pc = "done", in.call = "peel",
                      NEW name \in Names, SniffBlob(in.world, in.root, name) = plan.fmt,
                      NEW r \in PeelArchive(in.world, in.root, name, Cap)
               PROVE  /\ r \in Blob =>
                           /\ result \in {"Inner", "Read", "Decode"}
                           /\ \A k \in DOMAIN handles : handles[k].bytes = r
                      /\ r \in {"NotPacked", "Open"} /\ IsArchive(plan.fmt) => result = r
                      /\ r = "Decode" => result \notin {"Inner", "NotPacked"}
    BY DEF TwinsAgree
  <2>1. /\ r \in Blob => Peeled(r)
        /\ IsArchive(plan.fmt) /\ r = "Open" => plan.route = "Open"
        /\ IsArchive(plan.fmt) /\ r = "NotPacked" => plan.route \in {"SegmentSet", "Collection"}
        /\ r = "Decode" => plan.route = "Wrapper" /\ Stream = NoBlob
    BY PeelIsPlanned
  <2>2. result # "none"
    BY DEF SafeInv, TypeOK
  <2> QED
    BY <2>1, <2>2 DEF Agreeing, BrokenRefused, Wanted
<1>4. Init => BrokenRefused
  BY DEF Init, BrokenRefused
<1>5. SafeInv /\ Agreeing /\ BrokenRefused /\ [Next]_vars => BrokenRefused'
  BY NextRefusesBroken
<1> QED
  BY <1>1, <1>2, <1>3, <1>4, <1>5, SafeInvHolds, PTL DEF Spec
=============================================================================
