----------------------------- MODULE Vfs_proofs -----------------------------
(***************************************************************************)
(* Theorems about VfsOpener, for every world, source and order of calls.   *)
(***************************************************************************)
EXTENDS VfsEvidence, PackingTree_proofs

\* What may stand in the tree of a caller whose source holds h.
Own(h) == {item \in Item : item.made \/ item.data = h}

-----------------------------------------------------------------------------
(* Byte strings and lists of them *)

\* A byte string has a size.
LEMMA SizeType ==
  ASSUME NEW w \in World, NEW b \in Blob
  PROVE  w[b].size \in Nat
  BY DEF World

\* What the opener makes is a source of its own.
LEMMA MadeType ==
  ASSUME NEW b \in Blob, NEW h
  PROVE  Made(b) \in Own(h)
  BY DEF Made, Own, Item

\* A list with one element replaced by a list (vfs.rs:78, 100).
LEMMA SpliceType ==
  ASSUME NEW S, NEW s \in Seq(S), NEW k \in DOMAIN s, NEW items \in Seq(S)
  PROVE  SubSeq(s, 1, k - 1) \o items \o SubSeq(s, k + 1, Len(s)) \in Seq(S)
<1>1. Len(s) \in Nat /\ k \in 1 .. Len(s)
  BY LenProperties
<1>2. \A i \in 1 .. Len(s) : s[i] \in S
  BY ElementOfSeq
<1>3. ASSUME NEW m \in Int, NEW n \in Int, 1 <= m, n <= Len(s)
      PROVE  SubSeq(s, m, n) \in Seq(S)
  <2>1. \A i \in m .. n : s[i] \in S
    BY <1>1, <1>2, <1>3
  <2> QED
    BY <2>1, SubSeqProperties
<1>4. SubSeq(s, 1, k - 1) \in Seq(S) /\ SubSeq(s, k + 1, Len(s)) \in Seq(S)
  BY <1>1, <1>3
<1>5. SubSeq(s, 1, k - 1) \o items \in Seq(S)
  BY <1>4, ConcatProperties
<1> QED
  BY <1>4, <1>5, ConcatProperties

-----------------------------------------------------------------------------
(* Types *)

\* The tree and what is extracted for it; what a reader works on is bytes.
Trees ==
  /\ tree \in Seq(Own(src.holds)) /\ got \in Seq(Own(src.holds))
  /\ pc \in {"sniff", "members"} => data \in Blob

TypeInv == TypeOK /\ Trees

\* The source being opened.
LEMMA OpenedType ==
  ASSUME TypeInv, pc # "idle"
  PROVE  /\ tree[at].data \in Blob /\ tree[at].made \in BOOLEAN
         /\ ~tree[at].made => tree[at].data = src.holds
         /\ src.holds \in Blob /\ src.cut \in Blob
         /\ world \in World /\ Delivers \in Blob
         /\ SourceLen \in Nat /\ Size(Delivers) \in Nat
<1>1. at \in DOMAIN tree /\ tree \in Seq(Own(src.holds))
  BY DEF TypeInv, TypeOK, Trees
<1>2. tree[at] \in Own(src.holds)
  BY <1>1, LenProperties, ElementOfSeq
<1>3. world \in World /\ src \in Source
  BY VfsAssumption DEF TypeInv, TypeOK
<1>4. /\ tree[at].data \in Blob /\ tree[at].made \in BOOLEAN
      /\ ~tree[at].made => tree[at].data = src.holds
  BY <1>2 DEF Own, Item
<1>5. src.holds \in Blob /\ src.cut \in Blob
  BY <1>3 DEF Source
<1>6. Delivers \in Blob
  BY <1>4, <1>5 DEF Delivers
<1> QED
  BY <1>3, <1>4, <1>5, <1>6, SizeType DEF SourceLen, Size

LEMMA InitType == Init => TypeInv
<1> SUFFICES ASSUME Init PROVE TypeInv
  OBVIOUS
<1>1. world \in World /\ src \in Source /\ src \in Sources /\ world \in Worlds
  BY VfsAssumption DEF Init
<1> DEFINE root == [data |-> src.holds, made |-> FALSE]
<1>2. root \in Own(src.holds) /\ root \in Item
  BY <1>1 DEF Own, Item, Source
<1> HIDE DEF root
<1>3. <<root>> \in Seq(Own(src.holds)) /\ <<root>> \in Seq(Item)
  BY <1>2
<1>4. tree = <<root>>
  BY DEF Init, root
<1>5. opens \in 0 .. MaxOpens
  BY VfsAssumption DEF Init
<1>6. <<>> \in Seq(Own(src.holds)) /\ <<>> \in Seq(Item)
  OBVIOUS
<1> QED
  BY <1>1, <1>3, <1>4, <1>5, <1>6 DEF Init, TypeInv, TypeOK, Trees

\* Own sources are sources.
LEMMA OwnType ==
  ASSUME NEW h, NEW s \in Seq(Own(h))
  PROVE  s \in Seq(Item)
<1>1. \A i \in 1 .. Len(s) : s[i] \in Item
  BY ElementOfSeq DEF Own
<1>2. Len(s) \in Nat /\ s \in [1 .. Len(s) -> Own(h)]
  BY LenProperties
<1>3. s \in [1 .. Len(s) -> Item]
  BY <1>1, <1>2
<1> QED
  BY <1>2, <1>3, SeqDef

\* An error leaves the tree as it was (vfs.rs:114-134).
LEMMA RefuseType ==
  ASSUME TypeInv, pc # "idle", NEW e \in {"Source", "Decode", "NotArchive"}, Refuse(e),
         UNCHANGED <<world, src, opens, at, off>>, next \in Nat
  PROVE  TypeInv'
<1>1. lost' \subseteq Blob
  <2>1. Delivers \in Blob
    BY OpenedType
  <2> QED
    BY <2>1 DEF Refuse, TypeInv, TypeOK
<1>2. got' \in Seq(Own(src'.holds)) /\ got' \in Seq(Item)
  BY DEF Refuse
<1>3. tree' \in Seq(Own(src'.holds)) /\ tree' \in Seq(Item)
  BY DEF Refuse, TypeInv, TypeOK, Trees
<1> QED
  BY <1>1, <1>2, <1>3 DEF Refuse, TypeInv, TypeOK, Trees

\* Nor does what a layer is replaced by bring in anything else (vfs.rs:78, 100).
LEMMA ReplaceType ==
  ASSUME TypeInv, pc # "idle", NEW items \in Seq(Own(src.holds)), Replace(items),
         UNCHANGED <<world, src, opens, at, off>>
  PROVE  TypeInv'
<1>1. tree' \in Seq(Own(src'.holds))
  BY SpliceType DEF Replace, TypeInv, TypeOK, Trees
<1>2. tree' \in Seq(Item)
  BY <1>1, OwnType
<1>3. got' \in Seq(Own(src'.holds)) /\ got' \in Seq(Item)
  BY DEF Replace
<1> QED
  BY <1>1, <1>2, <1>3 DEF Replace, TypeInv, TypeOK, Trees

LEMMA StepType == TypeInv /\ [Next]_vars => TypeInv'
<1> SUFFICES ASSUME TypeInv, [Next]_vars PROVE TypeInv'
  OBVIOUS
<1>a. off \in Nat /\ next \in Nat /\ opens \in 0 .. MaxOpens
  BY DEF TypeInv, TypeOK
<1>1. ASSUME NEW k \in DOMAIN tree, Open(k) PROVE TypeInv'
  <2>1. opens' \in 0 .. MaxOpens
    BY <1>a, <1>1, VfsAssumption DEF Open
  <2> QED
    BY <1>1, <2>1 DEF Open, TypeInv, TypeOK, Trees
<1>2. CASE ReadSome
  <2>1. pc # "idle"
    BY <1>2 DEF ReadSome
  <2>2. Size(Delivers) \in Nat
    BY <2>1, OpenedType
  <2>3. PICK n \in ReadSizes \ {0} : off' = off + n
    BY <1>2 DEF ReadSome
  <2>4. n \in Int /\ off + n \in Nat
    BY <1>a, <2>2, <2>3 DEF ReadSizes
  <2> QED
    BY <1>2, <2>3, <2>4 DEF ReadSome, TypeInv, TypeOK, Trees
<1>3. CASE EndRead
  <2>1. Delivers \in Blob
    BY <1>3, OpenedType DEF EndRead
  <2> QED
    BY <1>3, <2>1 DEF EndRead, TypeInv, TypeOK, Trees
<1>4. CASE ReadFails
  BY <1>4, <1>a, RefuseType DEF ReadFails
<1>5. CASE OpenStream
  <2> DEFINE r == PeelBytes(world, data, Fmt)
  <2>1. CASE r \in Blob
    <3>1. Made(r) \in Own(src.holds)
      BY <2>1, MadeType
    <3> HIDE DEF r
    <3>2. <<Made(r)>> \in Seq(Own(src.holds))
      BY <3>1
    <3>3. Replace(<<Made(r)>>)
      BY <1>5, <2>1 DEF OpenStream, r
    <3> QED
      BY <1>5, <3>2, <3>3, ReplaceType DEF OpenStream
  <2>2. CASE r \notin Blob
    BY <1>5, <1>a, <2>2, RefuseType DEF OpenStream
  <2> QED
    BY <2>1, <2>2
<1>6. CASE OpenMembers
  <2>1. CASE Opens(world, data, Fmt)
    BY <1>6, <2>1 DEF OpenMembers, TypeInv, TypeOK, Trees
  <2>2. CASE ~Opens(world, data, Fmt)
    BY <1>6, <1>a, <2>2, RefuseType DEF OpenMembers
  <2> QED
    BY <2>1, <2>2
<1>7. CASE NotArchive
  BY <1>7, <1>a, RefuseType DEF NotArchive
<1>8. CASE SkipDir
  BY <1>8, <1>a DEF SkipDir, AtMember, TypeInv, TypeOK, Trees
<1>9. CASE TakeMember
  <2>1. PICK r \in ReadMember(world, data, Fmt, ReadIndex) :
          IF r \in Blob
          THEN /\ got' = Append(got, Made(r)) /\ next' = next + 1
               /\ UNCHANGED <<tree, pc, data, ans, lost>>
          ELSE Refuse("Decode")
    BY <1>9 DEF TakeMember
  <2>2. CASE r \in Blob
    <3>1. got \in Seq(Own(src.holds)) /\ Made(r) \in Own(src.holds)
      BY <2>2, MadeType DEF TypeInv, Trees
    <3>2. got' \in Seq(Own(src.holds)) /\ src' = src
      BY <1>9, <2>1, <2>2, <3>1, AppendProperties DEF TakeMember
    <3>3. got' \in Seq(Item)
      BY <3>2, OwnType
    <3> QED
      BY <1>9, <1>a, <2>1, <2>2, <3>2, <3>3
         DEF TakeMember, TypeInv, TypeOK, Trees
  <2>3. CASE r \notin Blob
    BY <1>9, <1>a, <2>1, <2>3, RefuseType DEF TakeMember, AtMember
  <2> QED
    BY <2>2, <2>3
<1>10. CASE EndMembers
  <2>1. got \in Seq(Own(src.holds)) /\ pc # "idle" /\ Replace(got)
    BY <1>10 DEF EndMembers, TypeInv, Trees
  <2> QED
    BY <1>10, <2>1, ReplaceType DEF EndMembers
<1>11. CASE UNCHANGED vars
  BY <1>11 DEF vars, TypeInv, TypeOK, Trees
<1> QED
  BY <1>1, <1>2, <1>3, <1>4, <1>5, <1>6, <1>7, <1>8, <1>9, <1>10, <1>11 DEF Next, Step

\* Every variable of the opener and its caller keeps its type, whatever is opened in
\* whatever order (vfs.rs:47-107).
THEOREM TypeCorrect == Spec => []TypeOK
<1>1. TypeInv => TypeOK
  BY DEF TypeInv
<1> QED
  BY <1>1, InitType, StepType, PTL DEF Spec

-----------------------------------------------------------------------------
(* Reading a source in whole *)

\* A read never gets past what the source gives, and what a reader works on is what
\* all the reads together gave.
Reads ==
  /\ pc = "read" => off <= Size(Delivers)
  /\ pc \in {"sniff", "members"} /\ Faithful => off = SourceLen

\* A source that has what it says gives it.
LEMMA FaithfulGives ==
  ASSUME TypeInv, pc # "idle", Faithful
  PROVE  Size(Delivers) = SourceLen
<1>1. Delivers = tree[at].data
  BY OpenedType DEF Delivers, Faithful
<1> QED
  BY <1>1 DEF SourceLen

LEMMA ReadsHold == Spec => []Reads
<1>1. Init => Reads
  BY DEF Init, Reads
<1>2. TypeInv /\ TypeInv' /\ Reads /\ [Next]_vars => Reads'
  <2> SUFFICES ASSUME TypeInv, TypeInv', Reads, [Next]_vars PROVE Reads'
    OBVIOUS
  <2>1. ASSUME NEW k \in DOMAIN tree, Open(k) PROVE Reads'
    <3>1. Size(Delivers)' \in Nat
      <4>1. tree' = tree /\ src' = src /\ world' = world /\ at' = k
        BY <2>1 DEF Open
      <4>2. tree[k] \in Item /\ src \in Source /\ world \in World
        BY VfsAssumption, LenProperties, ElementOfSeq DEF TypeInv, TypeOK
      <4>3. Delivers' \in Blob
        BY <4>1, <4>2 DEF Delivers, Item, Source
      <4>4. world[Delivers'].size \in Nat
        BY <4>2, <4>3, SizeType
      <4> QED
        BY <4>1, <4>4 DEF Size
    <3> QED
      BY <2>1, <3>1 DEF Open, Reads
  <2>2. CASE ReadSome
    <3>1. Size(Delivers) \in Nat /\ off \in Nat /\ off <= Size(Delivers)
      BY <2>2, OpenedType DEF ReadSome, Reads, TypeInv, TypeOK
    <3>2. PICK n \in ReadSizes \ {0} : off' = off + n
      BY <2>2 DEF ReadSome
    <3>3. off + n <= Size(Delivers)
      BY <3>1, <3>2 DEF ReadSizes
    <3>4. pc = "read" /\ pc' = "read" /\ UNCHANGED Size(Delivers)
      BY <2>2 DEF ReadSome, Size, Delivers
    <3> QED
      BY <3>2, <3>3, <3>4 DEF Reads
  <2>3. CASE EndRead
    <3>1. pc = "read" /\ pc' = "sniff" /\ off' = off /\ UNCHANGED <<SourceLen, Faithful>>
      BY <2>3 DEF EndRead, SourceLen, Size, Faithful
    <3>2. Size(Delivers) \in Nat /\ off \in Nat /\ off <= Size(Delivers)
      BY <3>1, OpenedType DEF Reads, TypeInv, TypeOK
    <3>3. off = SourceLen \/ 0 \in ReadSizes
      BY <2>3 DEF EndRead, ReadOver
    <3>4. 0 \in ReadSizes => off = Size(Delivers)
      BY <3>2 DEF ReadSizes
    <3>5. Faithful => off = SourceLen
      BY <3>1, <3>3, <3>4, FaithfulGives
    <3> QED
      BY <3>1, <3>5 DEF Reads
  <2>4. CASE pc' = "idle"
    BY <2>4 DEF Reads
  <2>5. CASE OpenMembers \/ SkipDir \/ TakeMember
    <3>1. \/ /\ pc \in {"sniff", "members"} /\ pc' = "members"
             /\ UNCHANGED <<world, src, tree, at, off>>
          \/ pc' = "idle"
      <4>1. CASE OpenMembers
        BY <4>1 DEF OpenMembers, Refuse
      <4>2. CASE SkipDir
        BY <4>2 DEF SkipDir, AtMember
      <4>3. CASE TakeMember
        BY <4>3 DEF TakeMember, AtMember, Refuse
      <4> QED
        BY <2>5, <4>1, <4>2, <4>3
    <3> QED
      BY <2>4, <3>1 DEF Reads, SourceLen, Size, Faithful
  <2>6. CASE ReadFails \/ OpenStream \/ NotArchive \/ EndMembers
    <3>1. pc' = "idle"
      BY <2>6 DEF ReadFails, OpenStream, NotArchive, EndMembers, Refuse, Replace
    <3> QED
      BY <2>4, <3>1
  <2>7. CASE UNCHANGED vars
    BY <2>7 DEF vars, Reads, Size, Delivers, SourceLen, Faithful
  <2> QED
    BY <2>1, <2>2, <2>3, <2>5, <2>6, <2>7 DEF Next, Step
<1> QED
  BY <1>1, <1>2, InitType, StepType, PTL DEF Spec

\* A source that has the bytes it says it has is opened in whole, whatever reads come
\* back short, and so is every source the opener made itself (vfs.rs:136-153).
THEOREM SourcesAreReadWhole == Spec => []WholeIsRead
<1>1. Reads => WholeIsRead
  BY DEF Reads, WholeIsRead
<1> QED
  BY <1>1, ReadsHold, PTL

-----------------------------------------------------------------------------
(* Sequences of sequences, end to end *)

\* f is what the first sequences of s make, from none of them to all.
Gathers(S, s, f) ==
  /\ f \in [0 .. Len(s) -> Seq(S)] /\ f[0] = <<>>
  /\ \A k \in 1 .. Len(s) : f[k] = f[k - 1] \o s[k]
  /\ FlattenSeq(s) = f[Len(s)]

\* FlattenSeq is what its definition says.
LEMMA FlattenFacts ==
  ASSUME NEW S, NEW s \in Seq(Seq(S))
  PROVE  \E f : Gathers(S, s, f)
<1> DEFINE D == 0 .. Len(s)
           step == [k \in D \ {0} |-> [q \in Seq(S) |-> q \o s[k]]]
           P(g) == g = [i \in 1 .. Len(s) |-> IF i = 1 THEN s[i] ELSE g[i - 1] \o s[i]]
<1>1. Len(s) \in Nat /\ Initial(D) /\ <<>> \in Seq(S)
  BY LenProperties DEF Initial
<1>2. \A k \in 1 .. Len(s) : s[k] \in Seq(S)
  BY ElementOfSeq
<1>3. step \in [D \ {0} -> [Seq(S) -> Seq(S)]]
  <2>1. ASSUME NEW k \in D \ {0}, NEW q \in Seq(S) PROVE q \o s[k] \in Seq(S)
    <3>1. s[k] \in Seq(S)
      BY <1>1, <1>2
    <3> QED
      BY <3>1, ConcatProperties
  <2> QED
    BY <2>1
<1>4. PICK f \in [D -> Seq(S)] : Follows(D, <<>>, step, f)
  <2> HIDE DEF step, D
  <2> QED
    BY <1>1, <1>3, Recursion
<1>5. f[0] = <<>>
  <2>1. 0 \in D
    BY <1>1
  <2> HIDE DEF step, D
  <2> QED
    BY <1>4, <2>1 DEF Follows
<1>6. ASSUME NEW k \in 1 .. Len(s) PROVE f[k] = f[k - 1] \o s[k]
  <2>1. k \in D \ {0} /\ k - 1 \in D
    BY <1>1
  <2>2. f[k] = step[k][f[k - 1]] /\ f[k - 1] \in Seq(S)
    BY <1>4, <2>1 DEF Follows
  <2> QED
    BY <2>1, <2>2
<1>7. FlattenSeq(s) = f[Len(s)]
  <2>1. CASE Len(s) = 0
    <3>1. s = <<>>
      BY <2>1, EmptySeq
    <3> QED
      BY <1>5, <2>1, <3>1 DEF FlattenSeq
  <2>2. CASE Len(s) # 0
    <3> DEFINE g == CHOOSE h : P(h)
               T == {k \in D : k = 0 \/ g[k] = f[k]}
    <3>1. FlattenSeq(s) = g[Len(s)]
      BY <2>2 DEF FlattenSeq
    <3>2. P([i \in 1 .. Len(s) |-> f[i]])
      <4>1. ASSUME NEW i \in 1 .. Len(s)
            PROVE  f[i] = IF i = 1 THEN s[i] ELSE [j \in 1 .. Len(s) |-> f[j]][i - 1] \o s[i]
        <5>1. CASE i = 1
          <6>1. i - 1 = 0 /\ s[i] \in Seq(S)
            BY <1>2, <5>1
          <6>2. f[i] = <<>> \o s[i]
            BY <1>5, <1>6, <6>1
          <6> QED
            BY <5>1, <6>1, <6>2, ConcatEmptySeq
        <5>2. CASE i # 1
          <6>1. i - 1 \in 1 .. Len(s)
            BY <1>1, <5>2
          <6> QED
            BY <1>6, <5>2, <6>1
        <5> QED
          BY <5>1, <5>2
      <4> QED
        BY <4>1
    <3>3. P(g)
      <4> HIDE DEF P
      <4> QED
        BY <3>2
    <3> HIDE DEF g
    <3>4. 0 \in D => 0 \in T
      OBVIOUS
    <3>5. ASSUME NEW n \in D, n # 0, n - 1 \in T PROVE n \in T
      <4>1. n \in 1 .. Len(s) /\ n - 1 \in D
        BY <1>1, <3>5
      <4>2. f[n] = f[n - 1] \o s[n] /\ s[n] \in Seq(S)
        BY <1>2, <1>6, <4>1
      <4>3. g[n] = IF n = 1 THEN s[n] ELSE g[n - 1] \o s[n]
        BY <3>3, <4>1
      <4>4. CASE n = 1
        <5>1. f[n] = <<>> \o s[n]
          <6>1. n - 1 = 0
            BY <4>4
          <6> QED
            BY <1>5, <4>2, <6>1
        <5> QED
          BY <4>2, <4>3, <4>4, <5>1, ConcatEmptySeq
      <4>5. CASE n # 1
        <5>1. g[n - 1] = f[n - 1]
          BY <3>5, <4>1, <4>5
        <5> QED
          BY <4>2, <4>3, <4>5, <5>1
      <4> QED
        BY <4>4, <4>5
    <3> HIDE DEF T, D
    <3>6. D \subseteq T
      BY <1>1, <3>4, <3>5, Induct
    <3>7. Len(s) \in T
      BY <1>1, <3>6 DEF D
    <3> QED
      BY <2>2, <3>1, <3>7 DEF T
  <2> QED
    BY <2>1, <2>2
<1> QED
  BY <1>4, <1>5, <1>6, <1>7 DEF Gathers

LEMMA FlattenType ==
  ASSUME NEW S, NEW s \in Seq(Seq(S))
  PROVE  FlattenSeq(s) \in Seq(S)
<1>1. PICK f : Gathers(S, s, f)
  BY FlattenFacts
<1>2. Len(s) \in 0 .. Len(s)
  <2>1. Len(s) \in Nat
    BY LenProperties
  <2> QED
    BY <2>1
<1> QED
  BY <1>1, <1>2 DEF Gathers

\* Two lists of sequences, one after the other.
LEMMA FlattenConcat ==
  ASSUME NEW S, NEW s \in Seq(Seq(S)), NEW t \in Seq(Seq(S))
  PROVE  FlattenSeq(s \o t) = FlattenSeq(s) \o FlattenSeq(t)
<1> DEFINE st == s \o t
<1>1. /\ st \in Seq(Seq(S)) /\ Len(st) = Len(s) + Len(t)
      /\ \A i \in 1 .. Len(s) + Len(t) : st[i] = IF i <= Len(s) THEN s[i] ELSE t[i - Len(s)]
  BY ConcatProperties
<1> HIDE DEF st
<1>2. Len(s) \in Nat /\ Len(t) \in Nat
  BY LenProperties
<1>3. PICK f : Gathers(S, s, f)
  BY FlattenFacts
<1>4. PICK g : Gathers(S, t, g)
  BY FlattenFacts
<1>5. PICK h : Gathers(S, st, h)
  BY <1>1, FlattenFacts
<1>6. h[Len(s)] = f[Len(s)]
  <2> DEFINE D == 0 .. Len(s)
             T == {k \in D : h[k] = f[k]}
  <2>1. Initial(D) /\ Len(s) \in D
    BY <1>2 DEF Initial
  <2>2. 0 \in D => 0 \in T
    BY <1>3, <1>5 DEF Gathers
  <2>3. ASSUME NEW n \in D, n # 0, n - 1 \in T PROVE n \in T
    <3>1. n \in 1 .. Len(s) /\ n \in 1 .. Len(s) + Len(t) /\ n \in 1 .. Len(st)
      BY <1>1, <1>2, <2>3
    <3>2. st[n] = s[n]
      BY <1>1, <3>1
    <3>3. f[n] = f[n - 1] \o s[n] /\ h[n] = h[n - 1] \o st[n]
      BY <1>3, <1>5, <3>1 DEF Gathers
    <3> QED
      BY <2>3, <3>2, <3>3
  <2> HIDE DEF T, D
  <2>4. D \subseteq T
    BY <2>1, <2>2, <2>3, Induct
  <2> QED
    BY <2>1, <2>4 DEF T
<1>7. h[Len(s) + Len(t)] = f[Len(s)] \o g[Len(t)]
  <2> DEFINE D == 0 .. Len(t)
             T == {k \in D : h[Len(s) + k] = f[Len(s)] \o g[k]}
  <2>1. Initial(D) /\ Len(t) \in D
    BY <1>2 DEF Initial
  <2>2. f[Len(s)] \in Seq(S)
    BY <1>2, <1>3 DEF Gathers
  <2>3. 0 \in T
    <3>1. g[0] = <<>> /\ Len(s) + 0 = Len(s) /\ 0 \in D
      BY <1>2, <1>4 DEF Gathers
    <3> QED
      BY <1>6, <2>2, <3>1, ConcatEmptySeq
  <2>4. ASSUME NEW n \in D, n # 0, n - 1 \in T PROVE n \in T
    <3>1. /\ n \in 1 .. Len(t) /\ n - 1 \in 0 .. Len(t)
          /\ Len(s) + n \in 1 .. Len(st) /\ Len(s) + n \in 1 .. Len(s) + Len(t)
          /\ ~(Len(s) + n <= Len(s)) /\ (Len(s) + n) - Len(s) = n
          /\ (Len(s) + n) - 1 = Len(s) + (n - 1)
      BY <1>1, <1>2, <2>4
    <3>2. st[Len(s) + n] = t[n] /\ t[n] \in Seq(S)
      BY <1>1, <3>1, ElementOfSeq
    <3>3. h[Len(s) + n] = h[Len(s) + (n - 1)] \o t[n]
      BY <1>5, <3>1, <3>2 DEF Gathers
    <3>4. g[n] = g[n - 1] \o t[n] /\ g[n - 1] \in Seq(S)
      BY <1>4, <3>1 DEF Gathers
    <3>5. h[Len(s) + (n - 1)] = f[Len(s)] \o g[n - 1]
      BY <2>4
    <3>6. (f[Len(s)] \o g[n - 1]) \o t[n] = f[Len(s)] \o (g[n - 1] \o t[n])
      <4> DEFINE x == f[Len(s)]
                 y == g[n - 1]
                 z == t[n]
      <4>1. x \in Seq(S) /\ y \in Seq(S) /\ z \in Seq(S)
        BY <2>2, <3>2, <3>4
      <4> HIDE DEF x, y, z
      <4>2. (x \o y) \o z = x \o (y \o z)
        BY <4>1, ConcatAssociative, SMTT(20)
      <4> QED
        BY <4>2 DEF x, y, z
    <3> QED
      BY <3>3, <3>4, <3>5, <3>6
  <2> HIDE DEF T, D
  <2>5. D \subseteq T
    BY <2>1, <2>3, <2>4, Induct
  <2> QED
    BY <2>1, <2>5 DEF T
<1>8. FlattenSeq(st) = FlattenSeq(s) \o FlattenSeq(t)
  BY <1>1, <1>3, <1>4, <1>5, <1>7 DEF Gathers
<1> QED
  BY <1>8 DEF st

\* One sequence, and none.
LEMMA FlattenOne ==
  /\ FlattenSeq(<<>>) = <<>>
  /\ \A S : \A s \in Seq(S) : FlattenSeq(<<s>>) = s
<1>1. FlattenSeq(<<>>) = <<>>
  BY DEF FlattenSeq
<1>2. ASSUME NEW S, NEW s \in Seq(S) PROVE FlattenSeq(<<s>>) = s
  <2> DEFINE one == <<s>>
  <2>1. one \in Seq(Seq(S)) /\ Len(one) = 1 /\ one[1] = s
    OBVIOUS
  <2> HIDE DEF one
  <2>2. PICK f : Gathers(S, one, f)
    BY <2>1, FlattenFacts
  <2>3. f[1] = <<>> \o s
    <3>1. 1 \in 1 .. Len(one) /\ 1 - 1 = 0
      BY <2>1
    <3>2. f[1] = f[0] \o one[1] /\ f[0] = <<>>
      BY <2>2, <3>1 DEF Gathers
    <3> QED
      BY <2>1, <3>2
  <2>4. FlattenSeq(one) = s
    BY <2>1, <2>2, <2>3, ConcatEmptySeq DEF Gathers
  <2> QED
    BY <2>4 DEF one
<1> QED
  BY <1>1, <1>2

-----------------------------------------------------------------------------
(* The evidence in a list of events *)

\* No 7z archive has two members of one name: its backend is asked for the name
\* (archive.rs:371-376).
NamesDiffer ==
  \A w \in Worlds : \A b \in Blob :
    w[b].kind = "7z" =>
      \A i, j \in DOMAIN w[b].members : w[b].members[i].name = w[b].members[j].name => i = j

\* A member's name, which resolve() goes by and the opener never sees, adds nothing to
\* its content.
NamesAreNeutral ==
  \A w \in Worlds : \A b \in Blob : \A i \in DOMAIN w[b].members :
    LET m == w[b].members[i] IN
    ~m.isDir /\ m.data \in Blob => Neutral(w, m.data, m.name)

\* The layers of b by content alone, n levels of them.
Plain(w, n, b) == Events(w)[n][b][NoName]

\* The bytes an event finds, if it finds a file.
Leaf(e) == IF e.kind = "node" /\ ~e.node.dir THEN <<e.node.data>> ELSE <<>>

\* The bytes of the files found by the events.
Yield(evs) == FlattenSeq([k \in DOMAIN evs |-> Leaf(evs[k])])

\* n levels below the items of a tree there is no error, and these files.
AllFree(w, n, items) == \A k \in DOMAIN items : ErrorFree(Plain(w, n, items[k].data))

AllYield(w, n, items) == FlattenSeq([k \in DOMAIN items |-> Yield(Plain(w, n, items[k].data))])

\* Bytes, or nothing in their place: a directory's.
Bytes == Blob \cup {NoBlob}

Map(f, s) == [k \in DOMAIN s |-> f[s[k]]]

\* A function on the elements of a sequence.
Maps(S, R, f) ==
  \A q \in Seq(S) : /\ Map(f, q) \in Seq(R) /\ Len(Map(f, q)) = Len(q)
                    /\ \A k \in 1 .. Len(q) : Map(f, q)[k] = f[q[k]]

LEMMA MapFacts ==
  ASSUME NEW S, NEW R, NEW f, f \in [S -> R]
  PROVE  Maps(S, R, f)
<1> SUFFICES ASSUME NEW q \in Seq(S)
             PROVE  /\ Map(f, q) \in Seq(R) /\ Len(Map(f, q)) = Len(q)
                    /\ \A k \in 1 .. Len(q) : Map(f, q)[k] = f[q[k]]
  BY DEF Maps
<1>1. DOMAIN q = 1 .. Len(q) /\ Len(q) \in Nat /\ \A k \in 1 .. Len(q) : q[k] \in S
  BY LenProperties, ElementOfSeq
<1>2. Map(f, q) = [k \in 1 .. Len(q) |-> f[q[k]]]
  BY <1>1 DEF Map
<1>3. Map(f, q) \in [1 .. Len(q) -> R]
  BY <1>1, <1>2
<1>4. Map(f, q) \in Seq(R)
  BY <1>1, <1>3, SeqDef
<1>5. Len(Map(f, q)) = Len(q)
  BY <1>1, <1>3, <1>4, LenProperties
<1> QED
  BY <1>1, <1>2, <1>4, <1>5

LEMMA MapConcat ==
  ASSUME NEW S, NEW R, NEW f, NEW s \in Seq(S), NEW t \in Seq(S), Maps(S, R, f)
  PROVE  Map(f, s \o t) = Map(f, s) \o Map(f, t)
<1> DEFINE st == s \o t
           fs == Map(f, s)
           ft == Map(f, t)
           fst == Map(f, st)
<1>1. /\ st \in Seq(S) /\ Len(st) = Len(s) + Len(t)
      /\ \A i \in 1 .. Len(s) + Len(t) : st[i] = IF i <= Len(s) THEN s[i] ELSE t[i - Len(s)]
  BY ConcatProperties
<1>2. /\ fs \in Seq(R) /\ Len(fs) = Len(s) /\ Len(s) \in Nat
      /\ \A k \in 1 .. Len(s) : fs[k] = f[s[k]]
  BY LenProperties DEF Maps
<1>3. /\ ft \in Seq(R) /\ Len(ft) = Len(t) /\ Len(t) \in Nat
      /\ \A k \in 1 .. Len(t) : ft[k] = f[t[k]]
  BY LenProperties DEF Maps
<1> HIDE DEF st
<1>4. /\ fst \in Seq(R) /\ Len(fst) = Len(st)
      /\ \A k \in 1 .. Len(st) : fst[k] = f[st[k]]
  BY <1>1 DEF Maps
<1> HIDE DEF fs, ft, fst
<1>5. /\ fs \o ft \in Seq(R) /\ Len(fs \o ft) = Len(fs) + Len(ft)
      /\ \A i \in 1 .. Len(fs) + Len(ft) :
           (fs \o ft)[i] = IF i <= Len(fs) THEN fs[i] ELSE ft[i - Len(fs)]
  BY <1>2, <1>3, ConcatProperties, ZenonT(30)
<1>6. ASSUME NEW i \in 1 .. Len(s) + Len(t) PROVE fst[i] = (fs \o ft)[i]
  <2>1. fst[i] = f[st[i]]
    BY <1>1, <1>4
  <2>2. CASE i <= Len(s)
    <3>1. i \in 1 .. Len(s)
      BY <1>2, <2>2
    <3> QED
      BY <1>1, <1>2, <1>3, <1>5, <2>1, <2>2, <3>1
  <2>3. CASE ~(i <= Len(s))
    <3>1. i - Len(s) \in 1 .. Len(t)
      BY <1>2, <1>3, <2>3
    <3> QED
      BY <1>1, <1>2, <1>3, <1>5, <2>1, <2>3, <3>1, ZenonT(30)
  <2> QED
    BY <2>2, <2>3
<1>7. Len(fs \o ft) = Len(fst) /\ \A i \in 1 .. Len(fst) : fst[i] = (fs \o ft)[i]
  BY <1>1, <1>2, <1>3, <1>4, <1>5, <1>6
<1> DEFINE both == fs \o ft
<1>8. both \in Seq(R) /\ Len(both) = Len(fst) /\ \A i \in 1 .. Len(fst) : fst[i] = both[i]
  BY <1>5, <1>7
<1> HIDE DEF both
<1>9. fst = both
  BY <1>4, <1>8, SeqEqual
<1> QED
  BY <1>9 DEF st, fs, ft, fst, both

\* What f gives for the elements, end to end.
EndToEnd(S, R, f) ==
  /\ \A s \in Seq(S) : FlattenSeq(Map(f, s)) \in Seq(R)
  /\ \A s, t \in Seq(S) :
       FlattenSeq(Map(f, s \o t)) = FlattenSeq(Map(f, s)) \o FlattenSeq(Map(f, t))
  /\ \A x \in S : FlattenSeq(Map(f, <<x>>)) = f[x]
  /\ FlattenSeq(Map(f, <<>>)) = <<>>

LEMMA MapsEndToEnd ==
  ASSUME NEW S, NEW R, NEW f, f \in [S -> Seq(R)]
  PROVE  EndToEnd(S, R, f)
<1> DEFINE Q == Seq(R)
<1>1. f \in [S -> Q]
  OBVIOUS
<1>2. ASSUME NEW s \in Seq(S), NEW t \in Seq(S)
      PROVE  /\ FlattenSeq(Map(f, s)) \in Seq(R)
             /\ FlattenSeq(Map(f, s \o t)) = FlattenSeq(Map(f, s)) \o FlattenSeq(Map(f, t))
  <2>1. Map(f, s \o t) = Map(f, s) \o Map(f, t) /\ Map(f, s) \in Seq(Q) /\ Map(f, t) \in Seq(Q)
    <3> HIDE DEF Q
    <3>1. Maps(S, Q, f)
      BY <1>1, MapFacts
    <3>2. Map(f, s) \in Seq(Q) /\ Map(f, t) \in Seq(Q)
      BY <3>1 DEF Maps
    <3> QED
      BY <3>1, <3>2, MapConcat
  <2> QED
    BY <2>1, FlattenConcat, FlattenType
<1>3. ASSUME NEW x \in S PROVE FlattenSeq(Map(f, <<x>>)) = f[x]
  <2>1. Map(f, <<x>>) = <<f[x]>>
    BY DEF Map
  <2> QED
    BY <2>1, FlattenOne
<1>4. FlattenSeq(Map(f, <<>>)) = <<>>
  <2>1. Map(f, <<>>) = <<>>
    BY DEF Map
  <2> QED
    BY <2>1, FlattenOne
<1> QED
  BY <1>2, <1>3, <1>4 DEF EndToEnd

\* The files of one list of events after another.
LEMMA YieldFacts ==
  ASSUME NEW evs \in Seq(Event), NEW more \in Seq(Event)
  PROVE  /\ Yield(evs) \in Seq(Bytes)
         /\ Yield(evs \o more) = Yield(evs) \o Yield(more)
         /\ \A e \in Event : Yield(<<e>>) = Leaf(e)
         /\ Yield(<<>>) = <<>>
<1> DEFINE f == [e \in Event |-> Leaf(e)]
<1>1. \A e \in Event : Leaf(e) \in Seq(Bytes)
  <2> TAKE e \in Event
  <2>1. CASE e.kind = "node" /\ ~e.node.dir
    <3>1. e.node \in TreeNode
      BY <2>1 DEF Event
    <3>2. e.node.data \in Bytes
      BY <3>1 DEF TreeNode, Bytes
    <3> QED
      BY <2>1, <3>2 DEF Leaf
  <2>2. CASE ~(e.kind = "node" /\ ~e.node.dir)
    BY <2>2 DEF Leaf
  <2> QED
    BY <2>1, <2>2
<1>2. f \in [Event -> Seq(Bytes)] /\ \A e \in Event : f[e] = Leaf(e)
  BY <1>1
<1> HIDE DEF f
<1>3. ASSUME NEW q \in Seq(Event) PROVE Yield(q) = FlattenSeq(Map(f, q))
  <2>1. \A k \in DOMAIN q : q[k] \in Event
    BY LenProperties, ElementOfSeq
  <2>2. [k \in DOMAIN q |-> Leaf(q[k])] = Map(f, q)
    BY <1>2, <2>1 DEF Map
  <2> QED
    BY <2>2 DEF Yield
<1>4. evs \o more \in Seq(Event) /\ <<>> \in Seq(Event)
  BY ConcatProperties
<1>5. /\ FlattenSeq(Map(f, evs)) \in Seq(Bytes)
      /\ FlattenSeq(Map(f, evs \o more)) = FlattenSeq(Map(f, evs)) \o FlattenSeq(Map(f, more))
      /\ \A x \in Event : FlattenSeq(Map(f, <<x>>)) = f[x]
      /\ FlattenSeq(Map(f, <<>>)) = <<>>
  <2>1. EndToEnd(Event, Bytes, f)
    BY <1>2, MapsEndToEnd
  <2> QED
    BY <2>1 DEF EndToEnd
<1>6. ASSUME NEW e \in Event PROVE Yield(<<e>>) = Leaf(e)
  BY <1>2, <1>3, <1>5, OneEvent
<1> QED
  BY <1>3, <1>4, <1>5, <1>6

\* The answer's leaves are the files of the events.
LEMMA LeavesAreYield ==
  ASSUME NEW evs \in Seq(Event)
  PROVE  Leaves(Tally(evs)[Len(evs)].nodes) = Yield(evs)
<1> DEFINE leaf(node) == IF node.dir THEN <<>> ELSE <<node.data>>
           f == [node \in TreeNode |-> leaf(node)]
           D == 0 .. Len(evs)
<1>1. f \in [TreeNode -> Seq(Bytes)] /\ \A node \in TreeNode : f[node] = leaf(node)
  <2>1. ASSUME NEW node \in TreeNode PROVE leaf(node) \in Seq(Bytes)
    <3>1. node.data \in Bytes
      BY DEF TreeNode, Bytes
    <3> QED
      BY <3>1
  <2> QED
    BY <2>1
<1>0. EndToEnd(TreeNode, Bytes, f)
  <2> HIDE DEF f
  <2> QED
    BY <1>1, MapsEndToEnd
<1>2. ASSUME NEW nodes \in Seq(TreeNode) PROVE Leaves(nodes) = FlattenSeq(Map(f, nodes))
  <2>1. \A k \in DOMAIN nodes : nodes[k] \in TreeNode
    BY LenProperties, ElementOfSeq
  <2>2. [k \in DOMAIN nodes |-> leaf(nodes[k])] = Map(f, nodes)
    BY <1>1, <2>1 DEF Map
  <2> QED
    BY <2>2 DEF Leaves
<1> HIDE DEF f
<1>3. ASSUME NEW nodes \in Seq(TreeNode), NEW node \in TreeNode
      PROVE  Leaves(Append(nodes, node)) = Leaves(nodes) \o leaf(node)
  <2> DEFINE one == <<node>>
  <2>1. one \in Seq(TreeNode) /\ Append(nodes, node) = nodes \o one /\ nodes \o one \in Seq(TreeNode)
    BY AppendIsConcat, ConcatProperties
  <2>2. FlattenSeq(Map(f, one)) = f[node]
    BY <1>0 DEF EndToEnd
  <2> HIDE DEF one
  <2>3. Leaves(Append(nodes, node)) = FlattenSeq(Map(f, nodes)) \o FlattenSeq(Map(f, one))
    BY <1>0, <1>2, <2>1 DEF EndToEnd
  <2> QED
    BY <1>1, <1>2, <2>2, <2>3
<1> DEFINE g == [e \in Event |-> Leaf(e)]
           s == [k \in DOMAIN evs |-> Leaf(evs[k])]
<1>4. Len(evs) \in Nat /\ DOMAIN evs = 1 .. Len(evs) /\ \A k \in 1 .. Len(evs) : evs[k] \in Event
  BY LenProperties, ElementOfSeq
<1>5. s \in Seq(Seq(Bytes)) /\ Len(s) = Len(evs) /\ \A k \in 1 .. Len(evs) : s[k] = Leaf(evs[k])
  <2>1. ASSUME NEW k \in 1 .. Len(evs) PROVE Leaf(evs[k]) \in Seq(Bytes)
    <3>1. evs[k] \in Event
      BY <1>4
    <3>2. Yield(<<evs[k]>>) = Leaf(evs[k])
      BY <3>1, YieldFacts
    <3> QED
      BY <3>1, <3>2, OneEvent, YieldFacts
  <2>2. s \in [1 .. Len(evs) -> Seq(Bytes)]
    BY <1>4, <2>1
  <2>3. s \in Seq(Seq(Bytes))
    BY <1>4, <2>2, SeqDef
  <2> QED
    BY <1>4, <2>2, <2>3, LenProperties
<1>6. Yield(evs) = FlattenSeq(s)
  BY DEF Yield
<1> HIDE DEF s
<1>7. PICK h : Gathers(Bytes, s, h)
  BY <1>5, FlattenFacts
<1> DEFINE T == {k \in D : h[k] = Leaves(Tally(evs)[k].nodes)}
<1>8. Initial(D) /\ Len(evs) \in D
  BY <1>4 DEF Initial
<1>9. 0 \in T
  <2>1. Tally(evs)[0].nodes = <<>> /\ 0 \in D
    BY <1>4, TallyFacts DEF Nothing
  <2>2. Leaves(<<>>) = <<>>
    BY FlattenOne DEF Leaves
  <2> QED
    BY <1>7, <2>1, <2>2 DEF Gathers
<1>10. ASSUME NEW n \in D, n # 0, n - 1 \in T PROVE n \in T
  <2>1. n \in 1 .. Len(evs) /\ n - 1 \in 0 .. Len(evs)
    BY <1>4, <1>10
  <2> DEFINE t == Tally(evs)[n - 1]
             e == evs[n]
  <2>2. Tally(evs)[n] = Counted(t, e) /\ t \in Sums
    BY <2>1, TallyFacts
  <2>3. e \in Event /\ h[n] = h[n - 1] \o Leaf(e)
    BY <1>4, <1>5, <1>7, <2>1 DEF Gathers
  <2>4. h[n - 1] = Leaves(t.nodes) /\ t.nodes \in Seq(TreeNode) /\ h[n - 1] \in Seq(Bytes)
    BY <1>5, <1>7, <1>10, <2>1, <2>2 DEF Gathers, Sums
  <2> HIDE DEF t, e
  <2>5. CASE e.kind = "node"
    <3>1. e.node \in TreeNode /\ e.node.dir \in BOOLEAN
      BY <2>3, <2>5 DEF Event, TreeNode
    <3>2. Counted(t, e).nodes = Append(t.nodes, e.node)
      BY <2>5 DEF Counted
    <3>3. Leaf(e) = leaf(e.node)
      BY <2>5, <3>1 DEF Leaf
    <3>4. Leaves(Append(t.nodes, e.node)) = Leaves(t.nodes) \o leaf(e.node)
      BY <1>3, <2>4, <3>1
    <3> QED
      BY <2>2, <2>3, <2>4, <3>2, <3>3, <3>4
  <2>6. CASE e.kind # "node"
    <3>1. Counted(t, e).nodes = t.nodes /\ Leaf(e) = <<>>
      BY <2>6 DEF Counted, Leaf
    <3>2. h[n - 1] \o <<>> = h[n - 1]
      BY <2>4, ConcatEmptySeq
    <3> QED
      BY <2>2, <2>3, <2>4, <3>1, <3>2
  <2> QED
    BY <2>5, <2>6
<1> HIDE DEF T, D
<1>11. D \subseteq T
  BY <1>8, <1>9, <1>10, Induct
<1>12. h[Len(evs)] = Leaves(Tally(evs)[Len(evs)].nodes)
  BY <1>8, <1>11 DEF T
<1> QED
  BY <1>5, <1>6, <1>7, <1>12 DEF Gathers

-----------------------------------------------------------------------------
(* Levels *)

LEMMA ErrorFreeJoins ==
  ASSUME NEW s \in Seq(Event), NEW t \in Seq(Event)
  PROVE  ErrorFree(s \o t) <=> ErrorFree(s) /\ ErrorFree(t)
<1>1. ASSUME ErrorFree(s), ErrorFree(t) PROVE ErrorFree(s \o t)
  <2>1. /\ Len(s) \in Nat /\ Len(t) \in Nat /\ Len(s \o t) = Len(s) + Len(t)
        /\ \A i \in 1 .. Len(s) + Len(t) :
             (s \o t)[i] = IF i <= Len(s) THEN s[i] ELSE t[i - Len(s)]
    BY ConcatProperties, LenProperties
  <2>2. ASSUME NEW k \in 1 .. Len(s) + Len(t) PROVE (s \o t)[k].kind # "error"
    <3>1. CASE k <= Len(s)
      <4>1. k \in 1 .. Len(s)
        BY <2>1, <3>1
      <4> QED
        BY <1>1, <2>1, <3>1, <4>1 DEF ErrorFree
    <3>2. CASE ~(k <= Len(s))
      <4>1. k - Len(s) \in 1 .. Len(t)
        BY <2>1, <3>2
      <4> QED
        BY <1>1, <2>1, <3>2, <4>1 DEF ErrorFree
    <3> QED
      BY <3>1, <3>2
  <2> QED
    BY <2>1, <2>2 DEF ErrorFree
<1> QED
  BY <1>1, ConcatErrorFree

\* One event that is an error, and one that is not.
LEMMA OneErrorFree ==
  ASSUME NEW e \in Event
  PROVE  ErrorFree(<<e>>) <=> e.kind # "error"
<1>1. Len(<<e>>) = 1 /\ <<e>>[1] = e
  BY OneEvent
<1> DEFINE one == <<e>>
<1>2. Len(one) = 1 /\ one[1] = e
  BY <1>1
<1> HIDE DEF one
<1>3. ErrorFree(one) <=> e.kind # "error"
  BY <1>2 DEF ErrorFree
<1> QED
  BY <1>3 DEF one

\* Bytes that are inflated first change neither the errors nor the files.
LEMMA AfterInflated ==
  ASSUME NEW n \in Nat, NEW evs \in Seq(Event)
  PROVE  /\ ErrorFree(<<Inflated(n)>> \o evs) <=> ErrorFree(evs)
         /\ Yield(<<Inflated(n)>> \o evs) = Yield(evs)
<1> DEFINE e == Inflated(n)
           one == <<e>>
<1>1. e \in Event /\ e.kind = "inflate"
  BY EventType DEF Inflated
<1> HIDE DEF e
<1>2. one \in Seq(Event) /\ ErrorFree(one) /\ Yield(one) = <<>>
  BY <1>1, OneEvent, OneErrorFree, YieldFacts DEF Leaf
<1>3. <<Inflated(n)>> \o evs = one \o evs
  BY DEF e
<1> HIDE DEF one
<1>4. Yield(one \o evs) = Yield(one) \o Yield(evs) /\ Yield(evs) \in Seq(Bytes)
  BY <1>2, YieldFacts
<1> QED
  BY <1>2, <1>3, <1>4, ErrorFreeJoins, ConcatEmptySeq

\* An error alone.
LEMMA BadIsError ==
  ASSUME NEW e \in ReadErrors \cup {"DepthExceeded"}
  PROVE  ~ErrorFree(<<Bad(e)>>)
<1>1. Bad(e) \in Event /\ Bad(e).kind = "error"
  BY EventType DEF Bad
<1> QED
  BY <1>1, OneErrorFree

\* Any number of levels more make no difference where there is no error.
LEMMA AnyLevelsAgree ==
  ASSUME NEW w \in World, NEW m \in Nat, NEW n \in Nat, m <= n
  PROVE  Agree(Events(w)[m], Events(w)[n])
<1> DEFINE T == {k \in Nat : Agree(Events(w)[m], Events(w)[m + k])}
<1>1. Initial(Nat)
  BY DEF Initial
<1>2. 0 \in T
  <2>1. m + 0 = m
    OBVIOUS
  <2> QED
    BY <2>1 DEF Agree
<1>3. ASSUME NEW k \in Nat, k # 0, k - 1 \in T PROVE k \in T
  <2>1. m + (k - 1) \in Nat /\ (m + (k - 1)) + 1 = m + k
    BY <1>3
  <2>2. Agree(Events(w)[m + (k - 1)], Events(w)[(m + (k - 1)) + 1])
    BY <2>1, LevelsAgree
  <2>3. Agree(Events(w)[m], Events(w)[m + (k - 1)])
    BY <1>3
  <2> QED
    BY <2>1, <2>2, <2>3 DEF Agree
<1> HIDE DEF T
<1>4. n - m \in T
  BY <1>1, <1>2, <1>3, Induct
<1>5. m + (n - m) = n
  OBVIOUS
<1> QED
  BY <1>4, <1>5 DEF T

\* What the opener's levels are: none of them is an error, and each is its layer's.
LEMMA PlainFacts ==
  ASSUME NEW w \in World, NEW n \in Nat, NEW b \in Blob
  PROVE  /\ NoName \in Name /\ Events(w)[n] \in Below
         /\ Plain(w, n, b) \in Seq(Event)
         /\ ErrorFree(Plain(w, n, b)) => n # 0
         /\ Plain(w, n + 1, b) = LayerEvents(w, b, NoName, Events(w)[n])
<1>1. NoName \in Name
  BY EmptySeq DEF NoName, Name
<1>2. Events(w)[n] \in Below /\ Plain(w, n, b) \in Seq(Event)
  <2>1. Events(w)[n] \in Below
    BY EventsFacts
  <2> QED
    BY <1>1, <2>1 DEF Plain, Below
<1>3. n = 0 => Plain(w, n, b) = <<Bad("DepthExceeded")>>
  BY <1>1, EventsFacts DEF Plain
<1>4. Plain(w, n + 1, b) = LayerEvents(w, b, NoName, Events(w)[n])
  BY <1>1, EventsFacts DEF Plain
<1> QED
  BY <1>1, <1>2, <1>3, <1>4, BadIsError

\* The same for all items of a tree, which is split as one likes.
Joins(w, n) ==
  /\ \A s, t \in Seq(Item) : /\ AllYield(w, n, s) \in Seq(Bytes)
                             /\ AllYield(w, n, s \o t) = AllYield(w, n, s) \o AllYield(w, n, t)
                             /\ AllFree(w, n, s \o t) <=> AllFree(w, n, s) /\ AllFree(w, n, t)
  /\ \A x \in Item : /\ AllYield(w, n, <<x>>) = Yield(Plain(w, n, x.data))
                     /\ AllFree(w, n, <<x>>) <=> ErrorFree(Plain(w, n, x.data))
  /\ AllYield(w, n, <<>>) = <<>> /\ AllFree(w, n, <<>>)

LEMMA TreesJoin ==
  ASSUME NEW w \in World, NEW n \in Nat
  PROVE  Joins(w, n)
<1> DEFINE f == [x \in Item |-> Yield(Plain(w, n, x.data))]
<1>1. \A x \in Item : Yield(Plain(w, n, x.data)) \in Seq(Bytes)
  <2> TAKE x \in Item
  <2>1. Plain(w, n, x.data) \in Seq(Event)
    BY PlainFacts DEF Item
  <2> QED
    BY <2>1, YieldFacts
<1>2. f \in [Item -> Seq(Bytes)] /\ \A x \in Item : f[x] = Yield(Plain(w, n, x.data))
  BY <1>1
<1> HIDE DEF f
<1>3. ASSUME NEW s \in Seq(Item) PROVE AllYield(w, n, s) = FlattenSeq(Map(f, s))
  <2>1. \A k \in DOMAIN s : s[k] \in Item
    BY LenProperties, ElementOfSeq
  <2>2. [k \in DOMAIN s |-> Yield(Plain(w, n, s[k].data))] = Map(f, s)
    BY <1>2, <2>1 DEF Map
  <2> QED
    BY <2>2 DEF AllYield
<1>4. EndToEnd(Item, Bytes, f)
  BY <1>2, MapsEndToEnd
<1>5. ASSUME NEW s \in Seq(Item), NEW t \in Seq(Item)
      PROVE  /\ AllYield(w, n, s) \in Seq(Bytes)
             /\ AllYield(w, n, s \o t) = AllYield(w, n, s) \o AllYield(w, n, t)
  <2>1. s \o t \in Seq(Item)
    BY ConcatProperties
  <2> QED
    BY <1>3, <1>4, <2>1 DEF EndToEnd
<1>6. ASSUME NEW s \in Seq(Item), NEW t \in Seq(Item)
      PROVE  AllFree(w, n, s \o t) <=> AllFree(w, n, s) /\ AllFree(w, n, t)
  <2> DEFINE free(x) == ErrorFree(Plain(w, n, x.data))
             st == s \o t
  <2>1. /\ st \in Seq(Item) /\ Len(st) = Len(s) + Len(t)
        /\ \A i \in 1 .. Len(s) + Len(t) : st[i] = IF i <= Len(s) THEN s[i] ELSE t[i - Len(s)]
    BY ConcatProperties
  <2> HIDE DEF st
  <2>2. /\ DOMAIN s = 1 .. Len(s) /\ DOMAIN t = 1 .. Len(t) /\ DOMAIN st = 1 .. Len(st)
        /\ Len(s) \in Nat /\ Len(t) \in Nat
    BY <2>1, LenProperties
  <2>3. /\ AllFree(w, n, s) <=> \A k \in 1 .. Len(s) : free(s[k])
        /\ AllFree(w, n, t) <=> \A k \in 1 .. Len(t) : free(t[k])
        /\ AllFree(w, n, st) <=> \A k \in 1 .. Len(st) : free(st[k])
    BY <2>2 DEF AllFree
  <2>4. ASSUME AllFree(w, n, st), NEW k \in 1 .. Len(s) PROVE free(s[k])
    <3>1. k \in 1 .. Len(st) /\ k \in 1 .. Len(s) + Len(t) /\ k <= Len(s)
      BY <2>1, <2>2
    <3>2. st[k] = s[k] /\ free(st[k])
      BY <2>1, <2>3, <2>4, <3>1
    <3> QED
      BY <3>2
  <2>5. ASSUME AllFree(w, n, st), NEW k \in 1 .. Len(t) PROVE free(t[k])
    <3>1. /\ Len(s) + k \in 1 .. Len(st) /\ Len(s) + k \in 1 .. Len(s) + Len(t)
          /\ ~(Len(s) + k <= Len(s)) /\ (Len(s) + k) - Len(s) = k
      BY <2>1, <2>2
    <3>2. st[Len(s) + k] = t[k] /\ free(st[Len(s) + k])
      BY <2>1, <2>3, <2>5, <3>1
    <3> QED
      BY <3>2
  <2>6. ASSUME AllFree(w, n, s), AllFree(w, n, t), NEW k \in 1 .. Len(st) PROVE free(st[k])
    <3>1. CASE k <= Len(s)
      <4>1. k \in 1 .. Len(s) /\ k \in 1 .. Len(s) + Len(t)
        BY <2>1, <2>2, <3>1
      <4>2. st[k] = s[k] /\ free(s[k])
        BY <2>1, <2>3, <2>6, <3>1, <4>1
      <4> QED
        BY <4>2
    <3>2. CASE ~(k <= Len(s))
      <4>1. k - Len(s) \in 1 .. Len(t) /\ k \in 1 .. Len(s) + Len(t)
        BY <2>1, <2>2, <3>2
      <4>2. st[k] = t[k - Len(s)] /\ free(t[k - Len(s)])
        BY <2>1, <2>3, <2>6, <3>2, <4>1
      <4> QED
        BY <4>2
    <3> QED
      BY <3>1, <3>2
  <2> HIDE DEF free
  <2>7. AllFree(w, n, st) <=> AllFree(w, n, s) /\ AllFree(w, n, t)
    BY <2>3, <2>4, <2>5, <2>6
  <2> QED
    BY <2>7 DEF st
<1>7. ASSUME NEW x \in Item
      PROVE  /\ AllYield(w, n, <<x>>) = Yield(Plain(w, n, x.data))
             /\ AllFree(w, n, <<x>>) <=> ErrorFree(Plain(w, n, x.data))
  <2>1. <<x>> \in Seq(Item) /\ DOMAIN <<x>> = {1} /\ <<x>>[1] = x
    OBVIOUS
  <2>2. AllYield(w, n, <<x>>) = FlattenSeq(Map(f, <<x>>))
    BY <1>3, <2>1
  <2> QED
    BY <1>2, <1>4, <2>1, <2>2 DEF EndToEnd, AllFree
<1>8. AllYield(w, n, <<>>) = <<>> /\ AllFree(w, n, <<>>)
  <2>1. <<>> \in Seq(Item) /\ DOMAIN <<>> = {}
    OBVIOUS
  <2> QED
    BY <1>3, <1>4, <2>1 DEF EndToEnd, AllFree
<1> QED
  BY <1>5, <1>6, <1>7, <1>8 DEF Joins

\* A level more changes nothing in a tree without an error.
LEMMA TreeAgrees ==
  ASSUME NEW w \in World, NEW n \in Nat, NEW s \in Seq(Item), AllFree(w, n, s)
  PROVE  AllFree(w, n + 1, s) /\ AllYield(w, n + 1, s) = AllYield(w, n, s)
<1>1. ASSUME NEW k \in DOMAIN s PROVE Plain(w, n + 1, s[k].data) = Plain(w, n, s[k].data)
  <2>1. s[k].data \in Blob
    <3>1. s[k] \in Item
      BY LenProperties, ElementOfSeq
    <3> QED
      BY <3>1 DEF Item
  <2>2. ErrorFree(Plain(w, n, s[k].data))
    BY DEF AllFree
  <2>3. NoName \in Name
    BY <2>1, PlainFacts
  <2> QED
    BY <2>1, <2>2, <2>3, LevelsAgree DEF Agree, Plain
<1>2. AllYield(w, n + 1, s) = AllYield(w, n, s)
  BY <1>1 DEF AllYield
<1> QED
  BY <1>1, <1>2 DEF AllFree

-----------------------------------------------------------------------------
(* Names that add nothing *)

\* No name tells no format, and nothing is taken off it.
LEMMA NoNameFacts ==
  /\ NoName \in Name
  /\ \A p : ~Ends(NoName, <<p>>)
  /\ \A p, q : ~Ends(NoName, <<p, q>>)
  /\ SniffName(NoName) = "Unknown" /\ StripCompressionExt(NoName) = NoName
<1>1. NoName \in Name /\ Len(NoName) = 0
  BY EmptySeq DEF NoName, Name
<1>2. \A p : ~Ends(NoName, <<p>>)
  BY <1>1 DEF Ends
<1>3. \A p, q : ~Ends(NoName, <<p, q>>)
  BY <1>1 DEF Ends
<1>4. SniffName(NoName) = "Unknown"
  BY <1>2, <1>3 DEF SniffName, EndsAny, TarGzNames, TarBz2Names
<1>5. StripCompressionExt(NoName) = NoName
  BY <1>2 DEF StripCompressionExt, EndsAny
<1> QED
  BY <1>1, <1>2, <1>3, <1>4, <1>5

\* A name that tells no format is as good as none.
LEMMA UnknownName ==
  ASSUME NEW name \in Name, SniffName(name) = "Unknown", NEW lead, NEW ustar
  PROVE  Sniff(name, lead, ustar) = Sniff(NoName, lead, ustar)
<1>1. ~EndsAny(name, TarGzNames) /\ ~EndsAny(name, TarBz2Names)
  BY DEF SniffName
<1>2. ~EndsAny(NoName, TarGzNames) /\ ~EndsAny(NoName, TarBz2Names)
  BY NoNameFacts DEF EndsAny, TarGzNames, TarBz2Names
<1>3. SniffCodec(name, lead) = SniffCodec(NoName, lead)
  BY <1>1, <1>2 DEF SniffCodec
<1> QED
  BY <1>3, NoNameFacts DEF Sniff

\* So are the events under such a name.
LEMMA UnknownAgrees ==
  ASSUME NEW w \in World, NEW name \in Name,
         SniffName(name) = "Unknown", StripCompressionExt(name) = name,
         NEW n \in Nat, NEW b \in Blob
  PROVE  /\ ErrorFree(Events(w)[n][b][name]) <=> ErrorFree(Plain(w, n, b))
         /\ Yield(Events(w)[n][b][name]) = Yield(Plain(w, n, b))
<1> DEFINE Like(x, y) == (ErrorFree(x) <=> ErrorFree(y)) /\ Yield(x) = Yield(y)
           T == {k \in Nat : \A c \in Blob : Like(Events(w)[k][c][name], Plain(w, k, c))}
<1>1. Initial(Nat)
  BY DEF Initial
<1>2. 0 \in T
  <2>1. ASSUME NEW c \in Blob PROVE Events(w)[0][c][name] = Plain(w, 0, c)
    BY NoNameFacts, EventsFacts DEF Plain
  <2> QED
    BY <2>1
<1>3. ASSUME NEW k \in Nat, k # 0, k - 1 \in T PROVE k \in T
  <2> SUFFICES ASSUME NEW c \in Blob PROVE Like(Events(w)[k][c][name], Plain(w, k, c))
    OBVIOUS
  <2> DEFINE below == Events(w)[k - 1]
             fmt == SniffBlob(w, c, NoName)
             r == PeelBytes(w, c, fmt)
  <2>1. k - 1 \in Nat /\ (k - 1) + 1 = k
    BY <1>3
  <2>2. below \in Below /\ Plain(w, k, c) = LayerEvents(w, c, NoName, below)
    BY <2>1, PlainFacts
  <2>3. Events(w)[k][c][name] = LayerEvents(w, c, name, below)
    <3>1. \A j \in Nat : Events(w)[j + 1][c][name] = LayerEvents(w, c, name, Events(w)[j])
      BY EventsFacts
    <3> QED
      BY <2>1, <3>1
  <2>4. SniffBlob(w, c, name) = fmt
    BY UnknownName DEF SniffBlob
  <2>5. Like(LayerEvents(w, c, name, below), LayerEvents(w, c, NoName, below))
    <3>1. CASE IsCompressionWrapper(fmt) /\ r \in Blob
      <4> DEFINE x == below[r][name]
                 y == below[r][NoName]
      <4>1. /\ LayerEvents(w, c, name, below) = <<Inflated(w[r].size)>> \o x
            /\ LayerEvents(w, c, NoName, below) = <<Inflated(w[r].size)>> \o y
        BY <2>4, <3>1, NoNameFacts DEF LayerEvents
      <4>2. w[r].size \in Nat /\ x \in Seq(Event) /\ y \in Seq(Event)
        BY <2>2, <3>1, NoNameFacts DEF World, Below
      <4>3. Like(x, y)
        BY <1>3, <3>1 DEF Plain
      <4> HIDE DEF x, y
      <4> QED
        BY <4>1, <4>2, <4>3, AfterInflated
    <3>2. CASE IsCompressionWrapper(fmt) /\ r \notin Blob
      <4>1. LayerEvents(w, c, name, below) = LayerEvents(w, c, NoName, below)
        BY <2>4, <3>2 DEF LayerEvents
      <4> QED
        BY <4>1
    <3>3. CASE ~IsCompressionWrapper(fmt) /\ IsArchive(fmt)
      <4>1. LayerEvents(w, c, name, below) = LayerEvents(w, c, NoName, below)
        BY <2>4, <3>3 DEF LayerEvents
      <4> QED
        BY <4>1
    <3>4. CASE ~IsCompressionWrapper(fmt) /\ ~IsArchive(fmt)
      <4> DEFINE node(nm) == [dir |-> FALSE, data |-> c,
                              name |-> IF nm = NoName THEN <<EmptyPiece>> ELSE nm]
      <4>1. /\ LayerEvents(w, c, name, below) = <<Found(node(name))>>
            /\ LayerEvents(w, c, NoName, below) = <<Found(node(NoName))>>
        BY <2>4, <3>4 DEF LayerEvents
      <4>2. ASSUME NEW nm \in Name
            PROVE  ErrorFree(<<Found(node(nm))>>) /\ Yield(<<Found(node(nm))>>) = <<c>>
        <5>1. <<EmptyPiece>> \in Name
          BY ContentAssumption DEF Name
        <5>2. node(nm) \in TreeNode /\ ~node(nm).dir /\ node(nm).data = c
          BY <5>1 DEF TreeNode
        <5> DEFINE e == Found(node(nm))
        <5>3. e \in Event /\ e.kind = "node" /\ Leaf(e) = <<c>>
          BY <5>2, EventType DEF Found, Leaf
        <5> HIDE DEF e
        <5>4. ErrorFree(<<e>>) /\ Yield(<<e>>) = <<c>>
          <6>1. e.kind # "error"
            BY <5>3
          <6> QED
            BY <5>3, <6>1, OneErrorFree, YieldFacts, OneEvent
        <5> QED
          BY <5>4 DEF e
      <4> HIDE DEF node
      <4> QED
        BY <4>1, <4>2, NoNameFacts
    <3> QED
      BY <3>1, <3>2, <3>3, <3>4
  <2> HIDE DEF Like
  <2> QED
    BY <2>2, <2>3, <2>5
<1> HIDE DEF T, Like
<1>4. n \in T
  BY <1>1, <1>2, <1>3, Induct
<1> QED
  BY <1>4 DEF T, Like

\* A name tells a compressed tar of what is one.
PackedTar(w, b, name) ==
  /\ SniffBlob(w, b, name) \in {"TarGz", "TarBz2"}
  /\ IsCompressionWrapper(SniffBlob(w, b, NoName))
  /\ LET c == ContainerStream(w, b, SniffBlob(w, b, name)) IN
     c \in Blob => SniffBlob(w, c, NoName) = "Tar"

\* One codec by either name.
LEMMA PackedCodec ==
  ASSUME NEW w \in World, NEW b \in Blob, NEW name \in Name, PackedTar(w, b, name)
  PROVE  CodecOf(SniffBlob(w, b, name)) = CodecOf(SniffBlob(w, b, NoName))
<1> DEFINE lead == w[b].lead
           ustar == w[b].ustar
<1>1. lead \in Lead /\ ustar \in BOOLEAN
  BY DEF World
<1>2. SniffBlob(w, b, name) = Sniff(name, lead, ustar)
      /\ SniffBlob(w, b, NoName) = Sniff(NoName, lead, ustar)
  BY DEF SniffBlob
<1> HIDE DEF lead, ustar
<1>3. ~ustar /\ lead \notin {"7z", "zip"}
  BY <1>1, <1>2 DEF PackedTar, Sniff
<1>4. lead # "none"
  BY <1>2, <1>3, NoNameFacts DEF PackedTar, Sniff, IsCompressionWrapper
<1>5. CASE lead = "gzip"
  BY <1>2, <1>3, <1>5 DEF PackedTar, Sniff, SniffCodec, CodecOf, IsCompressionWrapper
<1>6. CASE lead = "bzip2"
  BY <1>2, <1>3, <1>6 DEF PackedTar, Sniff, SniffCodec, CodecOf, IsCompressionWrapper
<1> QED
  BY <1>1, <1>3, <1>4, <1>5, <1>6 DEF Lead

\* The layers of a compressed tar, by its name and without.
PackedLayers(w, b, name, c, k) ==
  LET fmt == SniffBlob(w, b, name) IN
  /\ Events(w)[k + 1][b][name] =
       IF c \in Blob /\ w[c].kind = "tar"
       THEN LastMembers(w, fmt, w[c].members, Events(w)[k])[Len(w[c].members)]
       ELSE <<Bad("Open")>>
  /\ c \in Blob => Plain(w, k + 1, c) =
       IF w[c].kind = "tar"
       THEN LastMembers(w, "Tar", w[c].members, Events(w)[k])[Len(w[c].members)]
       ELSE <<Bad("Open")>>
  /\ \/ c \in Blob /\ Plain(w, k + 1, b) = <<Inflated(w[c].size)>> \o Plain(w, k, c)
     \/ ~ErrorFree(Plain(w, k + 1, b))

LEMMA PackedTarLayers ==
  ASSUME NEW w \in World, NEW b \in Blob, NEW name \in Name, PackedTar(w, b, name),
         NEW c, c = Streamed(w, CodecOf(SniffBlob(w, b, name)), b), NEW k \in Nat
  PROVE  PackedLayers(w, b, name, c, k)
<1> DEFINE fmt == SniffBlob(w, b, name)
           plain == SniffBlob(w, b, NoName)
           below == Events(w)[k]
<1>1. c \in Blob \cup {NoBlob} /\ NoBlob \notin Blob
  BY ContentAssumption, StreamedType
<1>2. /\ below \in Below /\ Events(w)[k + 1][b][name] = LayerEvents(w, b, name, below)
      /\ Plain(w, k + 1, b) = LayerEvents(w, b, NoName, below)
      /\ c \in Blob => Plain(w, k + 1, c) = LayerEvents(w, c, NoName, below)
  BY EventsFacts, PlainFacts
<1>3. /\ fmt \in {"TarGz", "TarBz2"} /\ IsArchive(fmt) /\ ~IsCompressionWrapper(fmt)
      /\ ContainerKind(fmt) = "tar"
  BY DEF PackedTar, IsArchive, IsCompressionWrapper, ContainerKind
<1>4. ContainerStream(w, b, fmt) = c
  BY <1>3 DEF ContainerStream
<1>5. Opens(w, b, fmt) <=> c \in Blob /\ w[c].kind = "tar"
  BY <1>1, <1>3, <1>4 DEF Opens
<1>6. Opens(w, b, fmt) => Entries(w, b, fmt) = w[c].members
  BY <1>3, <1>4 DEF Entries
<1>7. Events(w)[k + 1][b][name] =
        IF c \in Blob /\ w[c].kind = "tar"
        THEN LastMembers(w, fmt, w[c].members, below)[Len(w[c].members)]
        ELSE <<Bad("Open")>>
  <2> HIDE DEF below
  <2> QED
    BY <1>2, <1>3, <1>5, <1>6 DEF LayerEvents
<1>8. ASSUME c \in Blob
      PROVE  Plain(w, k + 1, c) =
               IF w[c].kind = "tar"
               THEN LastMembers(w, "Tar", w[c].members, below)[Len(w[c].members)]
               ELSE <<Bad("Open")>>
  <2>1. SniffBlob(w, c, NoName) = "Tar"
    BY <1>4, <1>8 DEF PackedTar
  <2>2. ContainerStream(w, c, "Tar") = c /\ ContainerKind("Tar") = "tar"
        /\ IsArchive("Tar") /\ ~IsCompressionWrapper("Tar")
    BY DEF ContainerStream, ContainerKind, IsArchive, IsCompressionWrapper
  <2>3. Opens(w, c, "Tar") <=> w[c].kind = "tar"
    BY <1>1, <1>8, <2>2 DEF Opens
  <2>4. Opens(w, c, "Tar") => Entries(w, c, "Tar") = w[c].members
    BY <2>2 DEF Entries
  <2> HIDE DEF below
  <2> QED
    BY <1>2, <1>8, <2>1, <2>2, <2>3, <2>4 DEF LayerEvents
<1> DEFINE r == PeelBytes(w, b, plain)
<1>9. \/ c \in Blob /\ Plain(w, k + 1, b) = <<Inflated(w[c].size)>> \o Plain(w, k, c)
      \/ ~ErrorFree(Plain(w, k + 1, b))
  <2>1. IsCompressionWrapper(plain) /\ CodecOf(plain) = CodecOf(fmt)
    BY PackedCodec DEF PackedTar
  <2>2. LayerEvents(w, b, NoName, below)
          = IF r \notin Blob THEN <<Bad(r)>>
            ELSE <<Inflated(w[r].size)>> \o below[r][NoName]
    BY <2>1, NoNameFacts DEF LayerEvents
  <2>3. CASE r \in Blob
    <3>1. r = c
      BY <2>1, <2>3, PeeledIsStreamed
    <3> QED
      BY <1>2, <2>2, <2>3, <3>1 DEF Plain
  <2>4. CASE r \notin Blob
    <3>1. r \in ReadErrors
      BY <2>4, PeelBytesBounded
    <3> HIDE DEF r
    <3> QED
      BY <1>2, <2>2, <2>4, <3>1, BadIsError
  <2> QED
    BY <2>3, <2>4
<1> QED
  BY <1>7, <1>8, <1>9 DEF PackedLayers

\* Some number of levels below b there is no error.
Sound(w, b) == \E n \in Nat : ErrorFree(Plain(w, n, b))

\* A name lets what is in b be found: there is no error below b, or b is a packed tar
\* and there is none below its tar, which Archive::open takes out of the stream
\* (archive.rs:216-232).
Passes(w, b) ==
  \/ Sound(w, b)
  \/ LET fmt == SniffBlob(w, b, NoName)
         c == Streamed(w, CodecOf(fmt), b)
     IN /\ IsCompressionWrapper(fmt)
        /\ c \in Blob /\ w[c].kind = "tar" /\ Sound(w, c)

\* By name there is one layer less, and the same members.
LEMMA PackedTarAgrees ==
  ASSUME NEW w \in World, NEW b \in Blob, NEW name \in Name, PackedTar(w, b, name), NEW n \in Nat
  PROVE  /\ ErrorFree(Plain(w, n, b)) =>
              /\ ErrorFree(Events(w)[n][b][name])
              /\ Yield(Events(w)[n][b][name]) = Yield(Plain(w, n, b))
         /\ ErrorFree(Events(w)[n][b][name]) => Passes(w, b)
<1> DEFINE fmt == SniffBlob(w, b, name)
           c == Streamed(w, CodecOf(fmt), b)
           ms == w[c].members
           last(f, j) == LastMembers(w, f, ms, Events(w)[j])[Len(ms)]
<1>1. ASSUME NEW k \in Nat PROVE PackedLayers(w, b, name, c, k)
  BY <1>1, PackedTarLayers
<1>2. c \in Blob => /\ ms \in Seq(Member) /\ w[c].size \in Nat
                    /\ \A j \in Nat : Plain(w, j, c) \in Seq(Event)
  BY PlainFacts DEF World
<1>3. fmt \in {"TarGz", "TarBz2"}
  BY DEF PackedTar
<1>5. CodecOf(fmt) = CodecOf(SniffBlob(w, b, NoName))
  BY PackedCodec
<1>6. \A e \in ReadErrors : ~ErrorFree(<<Bad(e)>>)
  BY BadIsError
<1>7. \A j \in Nat : Events(w)[j] \in Below
  BY EventsFacts
<1>8. c = Streamed(w, CodecOf(SniffBlob(w, b, NoName)), b) /\ IsCompressionWrapper(SniffBlob(w, b, NoName))
  BY <1>5 DEF PackedTar
<1> HIDE DEF c, fmt
<1>9. ASSUME NEW j \in Nat, NEW i \in Nat, Agree(Events(w)[j], Events(w)[i]), c \in Blob,
             NEW f, NEW g, f = "SevenZip" <=> g = "SevenZip", ErrorFree(last(f, j))
      PROVE  last(g, i) = last(f, j)
  <2> DEFINE below == Events(w)[j]
             after == Events(w)[i]
  <2>1. ms \in Seq(Member) /\ below \in Below /\ after \in Below /\ Agree(below, after)
    BY <1>2, <1>7, <1>9
  <2>2. ErrorFree(LastMembers(w, f, ms, below)[Len(ms)])
    BY <1>9
  <2> HIDE DEF ms, below, after
  <2>3. LastMembers(w, g, ms, after)[Len(ms)] = LastMembers(w, f, ms, below)[Len(ms)]
    BY <1>9, <2>1, <2>2, LastAgree
  <2> QED
    BY <2>3 DEF below, after
<1> HIDE DEF ms, last
<1>10. ASSUME NEW k \in Nat
       PROVE  /\ Events(w)[k + 1][b][name] =
                   IF c \in Blob /\ w[c].kind = "tar" THEN last(fmt, k) ELSE <<Bad("Open")>>
              /\ c \in Blob => Plain(w, k + 1, c) =
                   IF w[c].kind = "tar" THEN last("Tar", k) ELSE <<Bad("Open")>>
              /\ \/ c \in Blob /\ Plain(w, k + 1, b) = <<Inflated(w[c].size)>> \o Plain(w, k, c)
                 \/ ~ErrorFree(Plain(w, k + 1, b))
  BY <1>1, <1>10 DEF PackedLayers, ms, last, fmt
<1>11. ASSUME ErrorFree(Plain(w, n, b))
       PROVE  /\ ErrorFree(Events(w)[n][b][name])
              /\ Yield(Events(w)[n][b][name]) = Yield(Plain(w, n, b))
  <2>1. n # 0
    BY <1>11, PlainFacts
  <2> DEFINE k == n - 1
             j == n - 2
  <2>2. k \in Nat /\ k + 1 = n
    BY <2>1
  <2> HIDE DEF k
  <2>3. c \in Blob /\ Plain(w, n, b) = <<Inflated(w[c].size)>> \o Plain(w, k, c)
    BY <1>10, <1>11, <2>2
  <2>4. c \in Blob
    BY <2>3
  <2>5. ErrorFree(Plain(w, k, c)) /\ Yield(Plain(w, n, b)) = Yield(Plain(w, k, c))
    BY <1>2, <1>11, <2>2, <2>3, AfterInflated, ZenonT(30)
  <2>6. k # 0
    BY <2>2, <2>3, <2>5, PlainFacts
  <2>7. j \in Nat /\ j + 1 = k
    BY <2>2, <2>6
  <2> HIDE DEF j
  <2>8. w[c].kind = "tar" /\ Plain(w, k, c) = last("Tar", j)
    BY <1>6, <1>10, <2>3, <2>5, <2>7 DEF ReadErrors
  <2>9. Agree(Events(w)[j], Events(w)[k])
    BY <2>7, LevelsAgree
  <2>10. last(fmt, k) = last("Tar", j)
    <3>1. ErrorFree(last("Tar", j))
      BY <2>5, <2>8
    <3> QED
      BY <1>3, <1>9, <2>2, <2>4, <2>7, <2>9, <3>1
  <2>11. Events(w)[n][b][name] = last(fmt, k)
    BY <1>10, <2>2, <2>3, <2>8
  <2> QED
    BY <2>5, <2>8, <2>10, <2>11
<1>12. ASSUME ErrorFree(Events(w)[n][b][name]) PROVE Passes(w, b)
  <2>1. n # 0
    <3>1. Events(w)[0][b][name] = <<Bad("DepthExceeded")>>
      BY EventsFacts
    <3> QED
      BY <1>12, <3>1, BadIsError
  <2> DEFINE k == n - 1
  <2>2. k \in Nat /\ k + 1 = n
    BY <2>1
  <2> HIDE DEF k
  <2>3. c \in Blob /\ w[c].kind = "tar" /\ Events(w)[n][b][name] = last(fmt, k)
    BY <1>6, <1>10, <1>12, <2>2 DEF ReadErrors
  <2>4. Agree(Events(w)[k], Events(w)[k])
    BY DEF Agree
  <2>5. last("Tar", k) = last(fmt, k)
    BY <1>3, <1>9, <1>12, <2>2, <2>3, <2>4
  <2>6. ErrorFree(Plain(w, n, c))
    BY <1>10, <1>12, <2>2, <2>3, <2>5
  <2> QED
    BY <1>8, <2>3, <2>6 DEF Passes, Sound
<1> QED
  BY <1>11, <1>12

\* A name that adds nothing: what is found without it is found with it, and what is
\* found with it is there without, in the layers or in the tar packed in them.
LEMMA NeutralAgrees ==
  ASSUME NEW w \in World, NEW b \in Blob, NEW name \in Name, Neutral(w, b, name), NEW n \in Nat
  PROVE  /\ ErrorFree(Plain(w, n, b)) =>
              /\ ErrorFree(Events(w)[n][b][name])
              /\ Yield(Events(w)[n][b][name]) = Yield(Plain(w, n, b))
         /\ ErrorFree(Events(w)[n][b][name]) => Passes(w, b)
<1>1. CASE SniffName(name) = "Unknown" /\ StripCompressionExt(name) = name
  <2>1. /\ ErrorFree(Events(w)[n][b][name]) <=> ErrorFree(Plain(w, n, b))
        /\ Yield(Events(w)[n][b][name]) = Yield(Plain(w, n, b))
    BY <1>1, UnknownAgrees
  <2> QED
    BY <2>1 DEF Passes, Sound
<1>2. CASE PackedTar(w, b, name)
  BY <1>2, PackedTarAgrees
<1> QED
  BY <1>1, <1>2 DEF Neutral, PackedTar

-----------------------------------------------------------------------------
(* What the tree comes to *)

\* The items are what the events come to: without an error n levels below them there is
\* none in the events, and the files are the same.
ComeTo(w, n, evs, items) ==
  AllFree(w, n, items) => ErrorFree(evs) /\ Yield(evs) = AllYield(w, n, items)

AllPass(w, items) == \A x \in Range(items) : Passes(w, x.data)

\* The items are what h comes to with `up` layers opened; and if h passes, so does every
\* item, and only packed tars were refused that Archive::open gets to by name.
Leads(w, h, up, items, refused) ==
  /\ \A n \in Nat : ComeTo(w, n, Plain(w, n + up, h), items)
  /\ Passes(w, h) => AllPass(w, items) /\ \A b \in refused : Overlooked(w, b)

\* The items are what is one layer below b.
StandFor(w, b, items) ==
  /\ \A n \in Nat : ComeTo(w, n, Plain(w, n + 1, b), items)
  /\ Passes(w, b) => AllPass(w, items)

\* What may be refused: nothing that passes but a packed tar.
Refusable(w, b) == Passes(w, b) => Overlooked(w, b)

\* Of an archive no name makes more than there is without it.
LEMMA ArchivePasses ==
  ASSUME NEW w, NEW b, IsArchive(SniffBlob(w, b, NoName)), Passes(w, b)
  PROVE  Sound(w, b)
BY DEF Passes, IsArchive, IsCompressionWrapper

\* What passes, of one source and of two lists.
LEMMA PassJoins ==
  ASSUME NEW w
  PROVE  /\ \A x \in Item : AllPass(w, <<x>>) <=> Passes(w, x.data)
         /\ \A s, t \in Seq(Item) : AllPass(w, s \o t) <=> AllPass(w, s) /\ AllPass(w, t)
<1>1. ASSUME NEW x \in Item PROVE AllPass(w, <<x>>) <=> Passes(w, x.data)
  <2> DEFINE one == <<x>>
  <2>1. one \in Seq(Item) /\ Len(one) = 1 /\ one[1] = x
    OBVIOUS
  <2> HIDE DEF one
  <2>2. Range(one) = {one[i] : i \in 1 .. Len(one)}
    BY <2>1, RangeEquality
  <2>3. Range(one) = {x}
    BY <2>1, <2>2
  <2> QED
    BY <2>3 DEF AllPass, one
<1>2. ASSUME NEW s \in Seq(Item), NEW t \in Seq(Item)
      PROVE  AllPass(w, s \o t) <=> AllPass(w, s) /\ AllPass(w, t)
  <2>1. Range(s \o t) = Range(s) \cup Range(t)
    BY RangeConcatenation
  <2> QED
    BY <2>1 DEF AllPass
<1> QED
  BY <1>1, <1>2

\* A level more changes nothing in a layer without an error.
LEMMA PlainAgrees ==
  ASSUME NEW w \in World, NEW b \in Blob, NEW m \in Nat, NEW n \in Nat, m <= n,
         ErrorFree(Plain(w, m, b))
  PROVE  Plain(w, n, b) = Plain(w, m, b)
BY AnyLevelsAgree, NoNameFacts DEF Agree, Plain

\* The caller's own source leads to itself.
LEMMA LeadsAtFirst ==
  ASSUME NEW w \in World, NEW x \in Item
  PROVE  Leads(w, x.data, 0, <<x>>, {})
<1>1. ASSUME NEW n \in Nat
      PROVE  /\ AllYield(w, n, <<x>>) = Yield(Plain(w, n, x.data))
             /\ AllFree(w, n, <<x>>) <=> ErrorFree(Plain(w, n, x.data))
             /\ n + 0 = n
  <2>1. Joins(w, n)
    BY TreesJoin
  <2> QED
    BY <2>1 DEF Joins
<1> DEFINE one == <<x>>
<1>2. \A n \in Nat : /\ AllYield(w, n, one) = Yield(Plain(w, n, x.data))
                     /\ AllFree(w, n, one) <=> ErrorFree(Plain(w, n, x.data))
                     /\ n + 0 = n
  BY <1>1
<1> HIDE DEF one
<1>3. AllPass(w, one) <=> Passes(w, x.data)
  BY PassJoins DEF one
<1>4. Leads(w, x.data, 0, one, {})
  BY <1>2, <1>3 DEF Leads, ComeTo
<1> QED
  BY <1>4 DEF one

\* An opening that leaves the tree as it is.
LEMMA LeadsAfterOpening ==
  ASSUME NEW w \in World, NEW h \in Blob, NEW up \in Nat, NEW items, NEW refused,
         Leads(w, h, up, items, refused)
  PROVE  Leads(w, h, up + 1, items, refused)
<1>1. ASSUME NEW n \in Nat, AllFree(w, n, items)
      PROVE  /\ ErrorFree(Plain(w, n + (up + 1), h))
             /\ Yield(Plain(w, n + (up + 1), h)) = AllYield(w, n, items)
  <2>1. ErrorFree(Plain(w, n + up, h)) /\ Yield(Plain(w, n + up, h)) = AllYield(w, n, items)
    BY <1>1 DEF Leads, ComeTo
  <2>2. n + up \in Nat /\ n + (up + 1) \in Nat /\ n + up <= n + (up + 1)
    OBVIOUS
  <2>3. Plain(w, n + (up + 1), h) = Plain(w, n + up, h)
    BY <2>1, <2>2, PlainAgrees
  <2> QED
    BY <2>1, <2>3
<1> QED
  BY <1>1 DEF Leads, ComeTo

\* An item that may be is refused.
LEMMA LeadsRefused ==
  ASSUME NEW w \in World, NEW h \in Blob, NEW up \in Nat, NEW items \in Seq(Item), NEW refused,
         Leads(w, h, up, items, refused),
         NEW k \in DOMAIN items, Refusable(w, items[k].data)
  PROVE  Leads(w, h, up, items, refused \cup {items[k].data})
<1>1. ASSUME Passes(w, h) PROVE Overlooked(w, items[k].data)
  <2>1. items[k] \in Range(items)
    BY LenProperties, RangeEquality
  <2> QED
    BY <1>1, <2>1 DEF Leads, AllPass, Refusable
<1> QED
  BY <1>1 DEF Leads

\* A sequence, around one of its elements.
Splits(S, s, k, pre, post) ==
  /\ pre = SubSeq(s, 1, k - 1) /\ pre \in Seq(S)
  /\ post = SubSeq(s, k + 1, Len(s)) /\ post \in Seq(S)
  /\ s = pre \o <<s[k]>> \o post

LEMMA SplitsAround ==
  ASSUME NEW S, NEW s \in Seq(S), NEW k \in DOMAIN s
  PROVE  Splits(S, s, k, SubSeq(s, 1, k - 1), SubSeq(s, k + 1, Len(s)))
<1> DEFINE pre == SubSeq(s, 1, k - 1)
           post == SubSeq(s, k + 1, Len(s))
           one == <<s[k]>>
           two == pre \o one
           all == two \o post
<1>1. Len(s) \in Nat /\ k \in 1 .. Len(s) /\ \A i \in 1 .. Len(s) : s[i] \in S
  BY LenProperties, ElementOfSeq
<1>2. /\ pre \in Seq(S) /\ Len(pre) = k - 1
      /\ \A i \in 1 .. k - 1 : pre[i] = s[i]
  <2>1. /\ \A i \in 1 .. k - 1 : s[i] \in S
        /\ 1 \in Int /\ k - 1 \in Int
    BY <1>1
  <2>2. /\ pre \in Seq(S) /\ Len(pre) = IF 1 <= k - 1 THEN (k - 1) - 1 + 1 ELSE 0
        /\ \A i \in 1 .. (k - 1) - 1 + 1 : pre[i] = s[1 + i - 1]
    BY <2>1, SubSeqProperties
  <2> HIDE DEF pre
  <2> QED
    BY <1>1, <2>2
<1>3. /\ post \in Seq(S) /\ Len(post) = Len(s) - k
      /\ \A i \in 1 .. Len(s) - k : post[i] = s[k + i]
  <2>1. /\ \A i \in k + 1 .. Len(s) : s[i] \in S
        /\ k + 1 \in Int /\ Len(s) \in Int
    BY <1>1
  <2>2. /\ post \in Seq(S) /\ Len(post) = IF k + 1 <= Len(s) THEN Len(s) - (k + 1) + 1 ELSE 0
        /\ \A i \in 1 .. Len(s) - (k + 1) + 1 : post[i] = s[(k + 1) + i - 1]
    BY <2>1, SubSeqProperties
  <2> HIDE DEF post
  <2> QED
    BY <1>1, <2>2
<1>4. one \in Seq(S) /\ Len(one) = 1 /\ one[1] = s[k]
  BY <1>1
<1> HIDE DEF pre, post, one
<1>5. /\ two \in Seq(S) /\ Len(two) = Len(pre) + Len(one)
      /\ \A i \in 1 .. Len(pre) + Len(one) :
           two[i] = IF i <= Len(pre) THEN pre[i] ELSE one[i - Len(pre)]
  BY <1>2, <1>4, ConcatProperties
<1> HIDE DEF two
<1>6. /\ all \in Seq(S) /\ Len(all) = Len(two) + Len(post)
      /\ \A i \in 1 .. Len(two) + Len(post) :
           all[i] = IF i <= Len(two) THEN two[i] ELSE post[i - Len(two)]
  BY <1>3, <1>5, ConcatProperties
<1> HIDE DEF all
<1>7. Len(two) = k /\ Len(all) = Len(s) /\ Len(pre) = k - 1
  <2>1. Len(pre) = k - 1 /\ Len(one) = 1 /\ Len(post) = Len(s) - k
    BY <1>2, <1>3, <1>4
  <2>2. Len(two) = Len(pre) + Len(one) /\ Len(all) = Len(two) + Len(post)
    BY <1>5, <1>6
  <2>3. k \in Nat /\ Len(s) \in Nat
    BY <1>1
  <2> QED
    BY <2>1, <2>2, <2>3, SMTT(20)
<1>8. ASSUME NEW i \in 1 .. Len(s) PROVE all[i] = s[i]
  <2>1. CASE i < k
    <3>1. i \in 1 .. k - 1 /\ i <= Len(pre) /\ i <= Len(two)
      BY <1>1, <1>7, <2>1
    <3>2. i \in 1 .. Len(pre) + Len(one) /\ i \in 1 .. Len(two) + Len(post)
      BY <1>1, <1>3, <1>4, <1>7, <2>1
    <3>3. all[i] = two[i]
      BY <1>6, <3>1, <3>2
    <3>4. two[i] = pre[i]
      BY <1>5, <3>1, <3>2
    <3> QED
      BY <1>2, <3>1, <3>3, <3>4
  <2>2. CASE i = k
    <3>1. ~(i <= Len(pre)) /\ i <= Len(two) /\ i - Len(pre) = 1
      BY <1>1, <1>7, <2>2
    <3>2. i \in 1 .. Len(pre) + Len(one) /\ i \in 1 .. Len(two) + Len(post)
      BY <1>1, <1>3, <1>4, <1>7, <2>2
    <3>3. all[i] = two[i]
      BY <1>6, <3>1, <3>2
    <3>4. two[i] = one[1]
      BY <1>5, <3>1, <3>2
    <3> QED
      BY <1>4, <2>2, <3>3, <3>4
  <2>3. CASE i > k
    <3>1. i - k \in 1 .. Len(s) - k /\ k + (i - k) = i
      BY <1>1, <2>3
    <3>2. ~(i <= Len(two)) /\ i - Len(two) = i - k /\ i \in 1 .. Len(two) + Len(post)
      BY <1>1, <1>3, <1>7, <2>3
    <3>3. all[i] = post[i - k]
      BY <1>6, <3>2
    <3>4. post[i - k] = s[k + (i - k)]
      BY <1>3, <3>1
    <3> QED
      BY <3>1, <3>3, <3>4
  <2> QED
    BY <1>1, <2>1, <2>2, <2>3
<1>9. all = s
  BY <1>6, <1>7, <1>8, SeqEqual
<1> QED
  BY <1>2, <1>3, <1>9 DEF Splits, all, two, one, pre, post

\* A source's place is taken by what was in it.
LEMMA LeadsReplaced ==
  ASSUME NEW w \in World, NEW h \in Blob, NEW up \in Nat, NEW s \in Seq(Item), NEW refused,
         Leads(w, h, up, s, refused),
         NEW k \in DOMAIN s, NEW items \in Seq(Item), StandFor(w, s[k].data, items)
  PROVE  Leads(w, h, up + 1, SubSeq(s, 1, k - 1) \o items \o SubSeq(s, k + 1, Len(s)), refused)
<1> DEFINE pre == SubSeq(s, 1, k - 1)
           post == SubSeq(s, k + 1, Len(s))
           x == s[k]
           one == <<x>>
           two == pre \o one
           other == pre \o items
           new == other \o post
<1>1. pre \in Seq(Item) /\ post \in Seq(Item) /\ s = two \o post
  BY SplitsAround DEF Splits
<1>2. x \in Item /\ one \in Seq(Item)
  <2>1. x \in Item
    BY LenProperties, ElementOfSeq
  <2> QED
    BY <2>1
<1>3. ASSUME NEW n \in Nat
      PROVE  /\ AllYield(w, n, one) = Yield(Plain(w, n, x.data))
             /\ AllFree(w, n, one) <=> ErrorFree(Plain(w, n, x.data))
  <2>1. Joins(w, n)
    BY TreesJoin
  <2> HIDE DEF x
  <2> QED
    BY <1>2, <2>1 DEF Joins
<1>4. StandFor(w, x.data, items)
  OBVIOUS
<1> HIDE DEF pre, post, x, one
<1>5. two \in Seq(Item) /\ other \in Seq(Item)
  BY <1>1, <1>2, ConcatProperties
<1>6. ASSUME NEW n \in Nat
      PROVE  /\ AllFree(w, n, s) <=> AllFree(w, n, pre) /\ AllFree(w, n, one) /\ AllFree(w, n, post)
             /\ AllYield(w, n, s)
                  = (AllYield(w, n, pre) \o AllYield(w, n, one)) \o AllYield(w, n, post)
             /\ AllFree(w, n, new) <=>
                  AllFree(w, n, pre) /\ AllFree(w, n, items) /\ AllFree(w, n, post)
             /\ AllYield(w, n, new)
                  = (AllYield(w, n, pre) \o AllYield(w, n, items)) \o AllYield(w, n, post)
  <2>1. \A q, t \in Seq(Item) : /\ AllYield(w, n, q \o t) = AllYield(w, n, q) \o AllYield(w, n, t)
                                /\ AllFree(w, n, q \o t) <=> AllFree(w, n, q) /\ AllFree(w, n, t)
    <3>1. Joins(w, n)
      BY TreesJoin
    <3> QED
      BY <3>1 DEF Joins
  <2>2. /\ AllFree(w, n, two) <=> AllFree(w, n, pre) /\ AllFree(w, n, one)
        /\ AllYield(w, n, two) = AllYield(w, n, pre) \o AllYield(w, n, one)
    BY <1>1, <1>2, <2>1
  <2>3. /\ AllFree(w, n, other) <=> AllFree(w, n, pre) /\ AllFree(w, n, items)
        /\ AllYield(w, n, other) = AllYield(w, n, pre) \o AllYield(w, n, items)
    BY <1>1, <2>1
  <2> HIDE DEF two, other
  <2>4. /\ AllFree(w, n, s) <=> AllFree(w, n, two) /\ AllFree(w, n, post)
        /\ AllYield(w, n, s) = AllYield(w, n, two) \o AllYield(w, n, post)
    BY <1>1, <1>5, <2>1
  <2>5. /\ AllFree(w, n, new) <=> AllFree(w, n, other) /\ AllFree(w, n, post)
        /\ AllYield(w, n, new) = AllYield(w, n, other) \o AllYield(w, n, post)
    BY <1>1, <1>5, <2>1
  <2> QED
    BY <2>2, <2>3, <2>4, <2>5
<1> HIDE DEF two, other, new
<1>7. ASSUME NEW n \in Nat, AllFree(w, n, new)
      PROVE  AllFree(w, n + 1, s) /\ AllYield(w, n + 1, s) = AllYield(w, n, new)
  <2>1. AllFree(w, n, pre) /\ AllFree(w, n, items) /\ AllFree(w, n, post)
    BY <1>6, <1>7
  <2>2. /\ AllFree(w, n + 1, pre) /\ AllYield(w, n + 1, pre) = AllYield(w, n, pre)
        /\ AllFree(w, n + 1, post) /\ AllYield(w, n + 1, post) = AllYield(w, n, post)
    BY <1>1, <2>1, TreeAgrees
  <2>3. /\ ErrorFree(Plain(w, n + 1, x.data))
        /\ Yield(Plain(w, n + 1, x.data)) = AllYield(w, n, items)
    BY <1>4, <2>1 DEF StandFor, ComeTo
  <2>4. n + 1 \in Nat
    OBVIOUS
  <2>5. AllFree(w, n + 1, one) /\ AllYield(w, n + 1, one) = AllYield(w, n, items)
    BY <1>3, <2>3, <2>4
  <2> QED
    BY <1>6, <2>2, <2>4, <2>5
<1>8. ASSUME NEW n \in Nat PROVE ComeTo(w, n, Plain(w, n + (up + 1), h), new)
  <2> SUFFICES ASSUME AllFree(w, n, new)
               PROVE  /\ ErrorFree(Plain(w, n + (up + 1), h))
                      /\ Yield(Plain(w, n + (up + 1), h)) = AllYield(w, n, new)
    BY DEF ComeTo
  <2>1. AllFree(w, n + 1, s) /\ AllYield(w, n + 1, s) = AllYield(w, n, new)
    BY <1>7
  <2>2. n + 1 \in Nat /\ (n + 1) + up = n + (up + 1)
    OBVIOUS
  <2>3. ComeTo(w, n + 1, Plain(w, (n + 1) + up, h), s)
    BY <2>2 DEF Leads
  <2> QED
    BY <2>1, <2>2, <2>3 DEF ComeTo
<1>9. ASSUME Passes(w, h) PROVE AllPass(w, new)
  <2>1. AllPass(w, s)
    BY <1>9 DEF Leads
  <2>2. \A q, t \in Seq(Item) : AllPass(w, q \o t) <=> AllPass(w, q) /\ AllPass(w, t)
    BY PassJoins
  <2>3. AllPass(w, two) /\ AllPass(w, post)
    BY <1>1, <1>5, <2>1, <2>2
  <2>4. AllPass(w, pre) /\ AllPass(w, one)
    BY <1>1, <1>2, <2>2, <2>3 DEF two
  <2>5. Passes(w, x.data)
    BY <1>2, <2>4, PassJoins DEF one
  <2>6. AllPass(w, items)
    BY <1>4, <2>5 DEF StandFor
  <2>7. AllPass(w, other)
    BY <1>1, <2>2, <2>4, <2>6 DEF other
  <2> QED
    BY <1>1, <1>5, <2>2, <2>3, <2>7 DEF new
<1>10. Leads(w, h, up + 1, new, refused)
  BY <1>8, <1>9 DEF Leads
<1> QED
  BY <1>10 DEF new, other, pre, post

\* A wrapper stands for what is decoded of it, and one that does not decode passes only
\* as a packed tar (vfs.rs:71-83).
LEMMA StreamStandsFor ==
  ASSUME NEW w \in World, NEW b \in Blob, IsCompressionWrapper(SniffBlob(w, b, NoName)),
         NEW r, r = PeelBytes(w, b, SniffBlob(w, b, NoName))
  PROVE  /\ r \in Blob => StandFor(w, b, <<Made(r)>>)
         /\ r \notin Blob => Refusable(w, b)
<1>1. r \in Blob \cup ReadErrors
  BY PeelBytesBounded
<1>2. ASSUME NEW n \in Nat
      PROVE  Plain(w, n + 1, b) = IF r \notin Blob THEN <<Bad(r)>>
                                  ELSE <<Inflated(w[r].size)>> \o Plain(w, n, r)
  <2>1. Plain(w, n + 1, b) = LayerEvents(w, b, NoName, Events(w)[n])
    BY PlainFacts
  <2> QED
    BY <2>1, NoNameFacts DEF LayerEvents, Plain
<1>3. ASSUME NEW n \in Nat, ErrorFree(Plain(w, n, b)) PROVE n - 1 \in Nat /\ (n - 1) + 1 = n
  <2>1. n # 0
    BY <1>3, PlainFacts
  <2> QED
    BY <2>1
<1>4. ASSUME r \notin Blob PROVE Refusable(w, b)
  <2> SUFFICES ASSUME NEW n \in Nat, ErrorFree(Plain(w, n, b)) PROVE FALSE
    BY <1>4 DEF Refusable, Passes, Sound, Overlooked
  <2> DEFINE m == n - 1
  <2>1. m \in Nat /\ m + 1 = n
    BY <1>3
  <2> HIDE DEF m
  <2>2. Plain(w, n, b) = <<Bad(r)>>
    BY <1>2, <1>4, <2>1
  <2> QED
    BY <1>1, <1>4, <2>2, BadIsError
<1>5. ASSUME r \in Blob PROVE StandFor(w, b, <<Made(r)>>)
  <2> DEFINE one == <<Made(r)>>
  <2>1. w[r].size \in Nat /\ Made(r) \in Item /\ Made(r).data = r
    BY <1>5, SizeType DEF Made, Item
  <2>2. ASSUME NEW n \in Nat
        PROVE  /\ ErrorFree(Plain(w, n + 1, b)) <=> ErrorFree(Plain(w, n, r))
               /\ Yield(Plain(w, n + 1, b)) = Yield(Plain(w, n, r))
    <3> DEFINE size == w[r].size
               evs == Plain(w, n, r)
    <3>1. Plain(w, n + 1, b) = <<Inflated(size)>> \o evs
      BY <1>2, <1>5
    <3>2. evs \in Seq(Event) /\ size \in Nat
      BY <1>5, <2>1, PlainFacts
    <3> HIDE DEF size, evs
    <3>3. /\ ErrorFree(Plain(w, n + 1, b)) <=> ErrorFree(evs)
          /\ Yield(Plain(w, n + 1, b)) = Yield(evs)
      BY <3>1, <3>2, AfterInflated
    <3> QED
      BY <3>3 DEF evs
  <2>3. ASSUME NEW n \in Nat
        PROVE  /\ AllYield(w, n, one) = Yield(Plain(w, n, r))
               /\ AllFree(w, n, one) <=> ErrorFree(Plain(w, n, r))
    <3>1. Joins(w, n)
      BY TreesJoin
    <3> DEFINE x == Made(r)
    <3>2. x \in Item /\ x.data = r
      BY <2>1
    <3> HIDE DEF x
    <3>3. /\ AllYield(w, n, <<x>>) = Yield(Plain(w, n, x.data))
          /\ AllFree(w, n, <<x>>) <=> ErrorFree(Plain(w, n, x.data))
      BY <3>1, <3>2 DEF Joins
    <3> QED
      BY <3>2, <3>3 DEF x
  <2> HIDE DEF one
  <2>4. ASSUME NEW n \in Nat PROVE ComeTo(w, n, Plain(w, n + 1, b), one)
    BY <2>2, <2>3 DEF ComeTo
  <2>5. ASSUME Passes(w, b) PROVE Sound(w, r)
    <3>1. ASSUME NEW n \in Nat, ErrorFree(Plain(w, n, b)) PROVE Sound(w, r)
      <4> DEFINE m == n - 1
      <4>1. m \in Nat /\ m + 1 = n
        BY <1>3, <3>1
      <4> HIDE DEF m
      <4>2. ErrorFree(Plain(w, m, r))
        BY <2>2, <3>1, <4>1
      <4> QED
        BY <4>1, <4>2 DEF Sound
    <3>2. r = Streamed(w, CodecOf(SniffBlob(w, b, NoName)), b)
      BY <1>5, PeeledIsStreamed
    <3> QED
      BY <2>5, <3>1, <3>2 DEF Passes, Sound
  <2>6. Passes(w, b) => AllPass(w, one)
    <3> DEFINE x == Made(r)
    <3>1. x \in Item /\ x.data = r /\ one = <<x>>
      BY <2>1 DEF one
    <3> HIDE DEF x
    <3>2. AllPass(w, one) <=> Passes(w, r)
      BY <3>1, PassJoins
    <3> QED
      BY <2>5, <3>2 DEF Passes
  <2>7. StandFor(w, b, one)
    BY <2>4, <2>6 DEF StandFor
  <2> QED
    BY <2>7 DEF one
<1> QED
  BY <1>4, <1>5

\* An archive that does not open is not sound (vfs.rs:85-88).
LEMMA ClosedIsBad ==
  ASSUME NEW w \in World, NEW b \in Blob, IsArchive(SniffBlob(w, b, NoName)),
         ~Opens(w, b, SniffBlob(w, b, NoName))
  PROVE  ~Sound(w, b)
<1> SUFFICES ASSUME NEW n \in Nat, ErrorFree(Plain(w, n, b)) PROVE FALSE
  BY DEF Sound
<1> DEFINE m == n - 1
<1>1. m \in Nat /\ m + 1 = n
  <2>1. n # 0
    BY PlainFacts
  <2> QED
    BY <2>1
<1> HIDE DEF m
<1>2. Plain(w, n, b) = LayerEvents(w, b, NoName, Events(w)[m])
  BY <1>1, PlainFacts
<1>3. ~IsCompressionWrapper(SniffBlob(w, b, NoName))
  BY DEF IsArchive, IsCompressionWrapper
<1>4. Plain(w, n, b) = <<Bad("Open")>>
  BY <1>2, <1>3 DEF LayerEvents
<1> QED
  BY <1>4, BadIsError DEF ReadErrors

\* The events of the members of b from the k-th on, n levels below them.
Rest(w, b, k, n) ==
  LET fmt == SniffBlob(w, b, NoName)
      ms == Entries(w, b, fmt)
  IN LastMembers(w, fmt, ms, Events(w)[n])[Len(ms) + 1 - k]

\* The archive b comes to the items extracted and to the members from the k-th on.
Extracting(w, b, k, items) ==
  /\ \A n \in Nat :
       AllFree(w, n, items) /\ ErrorFree(Rest(w, b, k, n)) =>
         /\ ErrorFree(Plain(w, n + 1, b))
         /\ Yield(Plain(w, n + 1, b)) = AllYield(w, n, items) \o Yield(Rest(w, b, k, n))
  /\ \A n \in Nat :
       ErrorFree(Plain(w, n + 1, b)) => AllPass(w, items) /\ ErrorFree(Rest(w, b, k, n))

\* The members of b, each one's events before those of the members after it.
Unrolls(w, b, fmt, ms, n) ==
  /\ ms \in Seq(Member) /\ Len(ms) \in Nat /\ Rest(w, b, Len(ms) + 1, n) = <<>>
  /\ \A k \in 1 .. Len(ms) + 1 : Rest(w, b, k, n) \in Seq(Event)
  /\ \A k \in 1 .. Len(ms) :
       Rest(w, b, k, n) = MemberEvents(w, fmt, ms[k], Events(w)[n]) \o Rest(w, b, k + 1, n)
  /\ IsArchive(fmt) /\ Opens(w, b, fmt) => Plain(w, n + 1, b) = Rest(w, b, 1, n)

LEMMA RestFacts ==
  ASSUME NEW w \in World, NEW b \in Blob, NEW fmt, fmt = SniffBlob(w, b, NoName),
         NEW ms, ms = Entries(w, b, fmt), NEW n \in Nat
  PROVE  Unrolls(w, b, fmt, ms, n)
<1> DEFINE below == Events(w)[n]
           last == LastMembers(w, fmt, ms, below)
<1>1. ms \in Seq(Member) /\ Len(ms) \in Nat
  BY EntriesType, LenProperties
<1>2. below \in Below
  BY PlainFacts
<1>3. /\ last \in [0 .. Len(ms) -> Seq(Event)]
      /\ last[0] = <<>>
      /\ \A k \in 1 .. Len(ms) :
           last[k] = MemberEvents(w, fmt, ms[Len(ms) + 1 - k], below) \o last[k - 1]
  <2> HIDE DEF below
  <2>1. FromLast(w, fmt, ms, below, last)
    BY <1>1, <1>2, LastMembersFacts
  <2> QED
    BY <2>1 DEF FromLast
<1>4. \A k : Rest(w, b, k, n) = last[Len(ms) + 1 - k]
  BY DEF Rest
<1>5. IsArchive(fmt) /\ Opens(w, b, fmt) => Plain(w, n + 1, b) = last[Len(ms)]
  <2>1. IsArchive(fmt) => ~IsCompressionWrapper(fmt)
    BY DEF IsArchive, IsCompressionWrapper
  <2>2. Plain(w, n + 1, b) = LayerEvents(w, b, NoName, below)
    BY PlainFacts
  <2> QED
    BY <2>1, <2>2 DEF LayerEvents
<1> HIDE DEF last
<1>6. Rest(w, b, Len(ms) + 1, n) = <<>>
  <2>1. Len(ms) + 1 - (Len(ms) + 1) = 0
    BY <1>1
  <2> QED
    BY <1>3, <1>4, <2>1
<1>7. ASSUME NEW k \in 1 .. Len(ms) + 1 PROVE Rest(w, b, k, n) \in Seq(Event)
  <2>1. Len(ms) + 1 - k \in 0 .. Len(ms)
    BY <1>1
  <2> QED
    BY <1>3, <1>4, <2>1
<1>8. ASSUME NEW k \in 1 .. Len(ms)
      PROVE  Rest(w, b, k, n) = MemberEvents(w, fmt, ms[k], below) \o Rest(w, b, k + 1, n)
  <2> DEFINE j == Len(ms) + 1 - k
  <2>1. j \in 1 .. Len(ms) /\ Len(ms) + 1 - j = k /\ j - 1 = Len(ms) + 1 - (k + 1)
    BY <1>1
  <2>2. Rest(w, b, k, n) = last[j] /\ Rest(w, b, k + 1, n) = last[j - 1]
    BY <1>4, <2>1
  <2> HIDE DEF j
  <2> QED
    BY <1>3, <2>1, <2>2
<1>9. IsArchive(fmt) /\ Opens(w, b, fmt) => Plain(w, n + 1, b) = Rest(w, b, 1, n)
  <2>1. Len(ms) + 1 - 1 = Len(ms)
    BY <1>1
  <2> QED
    BY <1>4, <1>5, <2>1
<1> QED
  BY <1>1, <1>6, <1>7, <1>8, <1>9 DEF Unrolls

\* An archive opened, and no member read (vfs.rs:85-91).
LEMMA ExtractingStarts ==
  ASSUME NEW w \in World, NEW b \in Blob, IsArchive(SniffBlob(w, b, NoName)),
         Opens(w, b, SniffBlob(w, b, NoName))
  PROVE  Extracting(w, b, 1, <<>>)
<1>1. ASSUME NEW n \in Nat
      PROVE  /\ Plain(w, n + 1, b) = Rest(w, b, 1, n)
             /\ AllFree(w, n, <<>>) /\ AllYield(w, n, <<>>) = <<>>
             /\ <<>> \o Yield(Rest(w, b, 1, n)) = Yield(Rest(w, b, 1, n))
  <2>1. Plain(w, n + 1, b) = Rest(w, b, 1, n)
    BY RestFacts DEF Unrolls
  <2>2. Plain(w, n + 1, b) \in Seq(Event)
    BY PlainFacts
  <2>3. Yield(Rest(w, b, 1, n)) \in Seq(Bytes)
    BY <2>1, <2>2, YieldFacts
  <2>4. Joins(w, n)
    BY TreesJoin
  <2> QED
    BY <2>1, <2>3, <2>4, ConcatEmptySeq DEF Joins
<1>3. AllPass(w, <<>>)
  BY DEF AllPass, Range
<1> DEFINE none == <<>>
<1>4. \A n \in Nat : /\ Plain(w, n + 1, b) = Rest(w, b, 1, n)
                     /\ AllFree(w, n, none) /\ AllPass(w, none)
                     /\ AllYield(w, n, none) \o Yield(Rest(w, b, 1, n)) = Yield(Rest(w, b, 1, n))
  BY <1>1, <1>3
<1> HIDE DEF none
<1>5. Extracting(w, b, 1, none)
  BY <1>4 DEF Extracting
<1> QED
  BY <1>5 DEF none

\* A directory brings nothing (vfs.rs:94-96).
LEMMA ExtractingSkips ==
  ASSUME NEW w \in World, NEW b \in Blob, NEW items, NEW k, Extracting(w, b, k, items),
         NEW fmt, fmt = SniffBlob(w, b, NoName), NEW ms, ms = Entries(w, b, fmt),
         k \in 1 .. Len(ms), ms[k].isDir
  PROVE  Extracting(w, b, k + 1, items)
<1>1. ASSUME NEW n \in Nat
      PROVE  /\ ErrorFree(Rest(w, b, k, n)) <=> ErrorFree(Rest(w, b, k + 1, n))
             /\ Yield(Rest(w, b, k, n)) = Yield(Rest(w, b, k + 1, n))
  <2> DEFINE m == ms[k]
             node == [dir |-> TRUE, name |-> m.name, data |-> NoBlob]
             two == <<Seen>> \o <<Found(node)>>
             more == Rest(w, b, k + 1, n)
  <2>0. Unrolls(w, b, fmt, ms, n)
    BY RestFacts
  <2>1. ms \in Seq(Member) /\ Len(ms) \in Nat
    BY <2>0 DEF Unrolls
  <2>2. m \in Member /\ node \in TreeNode
    <3>1. m \in Member
      BY <2>1, ElementOfSeq
    <3> HIDE DEF m
    <3> QED
      BY <3>1 DEF Member, TreeNode
  <2>3. Rest(w, b, k, n) = two \o more
    <3>1. Rest(w, b, k, n) = MemberEvents(w, fmt, m, Events(w)[n]) \o more
      <4> HIDE DEF two
      <4> QED
        BY <2>0 DEF Unrolls
    <3>2. MemberEvents(w, fmt, m, Events(w)[n]) = two
      BY DEF MemberEvents
    <3> QED
      BY <3>1, <3>2
  <2>4. more \in Seq(Event)
    <3>1. k + 1 \in 1 .. Len(ms) + 1
      BY <2>1
    <3> QED
      BY <2>0, <3>1 DEF Unrolls
  <2>5. two \in Seq(Event) /\ ErrorFree(two) /\ Yield(two) = <<>>
    <3> DEFINE x == <<Seen>>
               y == <<Found(node)>>
    <3>1. x \in Seq(Event) /\ ErrorFree(x) /\ Yield(x) = <<>>
      <4>1. Seen \in Event /\ Seen.kind = "member"
        BY EventType DEF Seen
      <4>2. Seen.kind # "error" /\ Leaf(Seen) = <<>>
        BY <4>1 DEF Leaf
      <4> QED
        BY <4>1, <4>2, OneEvent, OneErrorFree, YieldFacts
    <3>2. y \in Seq(Event) /\ ErrorFree(y) /\ Yield(y) = <<>>
      <4> DEFINE e == Found(node)
      <4>1. e \in Event /\ e.kind = "node" /\ e.node.dir
        BY <2>2, EventType DEF Found
      <4> HIDE DEF e
      <4>2. e.kind # "error" /\ Leaf(e) = <<>>
        BY <4>1 DEF Leaf
      <4>3. <<e>> \in Seq(Event) /\ ErrorFree(<<e>>) /\ Yield(<<e>>) = <<>>
        BY <4>1, <4>2, OneEvent, OneErrorFree, YieldFacts
      <4> QED
        BY <4>3 DEF e
    <3>3. two = x \o y
      OBVIOUS
    <3> HIDE DEF x, y
    <3>4. x \o y \in Seq(Event) /\ ErrorFree(x \o y) /\ Yield(x \o y) = <<>>
      BY <3>1, <3>2, ConcatProperties, ErrorFreeJoins, YieldFacts, ConcatEmptySeq
    <3> QED
      BY <3>3, <3>4
  <2> HIDE DEF two, more
  <2>6. Yield(two \o more) = <<>> \o Yield(more) /\ Yield(more) \in Seq(Bytes)
    BY <2>4, <2>5, YieldFacts
  <2>7. /\ ErrorFree(two \o more) <=> ErrorFree(more)
        /\ Yield(two \o more) = Yield(more)
    BY <2>4, <2>5, <2>6, ErrorFreeJoins, ConcatEmptySeq
  <2> QED
    BY <2>3, <2>7 DEF more
<1> QED
  BY <1>1 DEF Extracting

\* The k-th member is read as what resolve() makes of it, and its name adds nothing.
Reading(w, b, k, fmt, m, r) ==
  /\ r \in Blob \cup ReadErrors
  /\ \A n \in Nat :
       MemberEvents(w, fmt, m, Events(w)[n]) =
         <<Seen>> \o IF r \notin Blob THEN <<Bad(r)>>
                     ELSE <<Inflated(w[r].size)>> \o Events(w)[n][r][m.name]
  /\ r \in Blob => m.name \in Name /\ Neutral(w, r, m.name)

LEMMA MemberIsRead ==
  ASSUME NamesDiffer, NamesAreNeutral, NEW w \in Worlds, NEW b \in Blob,
         NEW fmt, NEW ms, ms = Entries(w, b, fmt), NEW k \in 1 .. Len(ms), ~ms[k].isDir,
         NEW r \in ReadMember(w, b, fmt, k)
  PROVE  Reading(w, b, k, fmt, ms[k], r)
<1> DEFINE m == ms[k]
           c == ContainerStream(w, b, fmt)
<1>1. w \in World
  BY VfsAssumption
<1>2. ms \in Seq(Member) /\ DOMAIN ms = 1 .. Len(ms)
  BY <1>1, EntriesType, LenProperties
<1>3. m \in Member
  BY <1>2, ElementOfSeq
<1>4. m.name \in Name /\ m.data \in Blob \cup {NoBlob}
  <2> HIDE DEF m
  <2> QED
    BY <1>3 DEF Member
<1>5. ms # <<>>
  BY <1>2
<1>6. IsArchive(fmt) /\ Opens(w, b, fmt) /\ ms = w[c].members
  BY <1>5 DEF Entries
<1>7. c \in Blob /\ w[c].kind = ContainerKind(fmt)
  <2>1. c \in Blob \cup {NoBlob}
    BY <1>1, StreamedType DEF ContainerStream
  <2> QED
    BY <1>6, <2>1 DEF Opens
<1>8. ReadTargets(w, b, fmt, k) \subseteq {k}
  <2>1. CASE fmt = "SevenZip"
    <3>1. w[c].kind = "7z"
      BY <1>7, <2>1 DEF ContainerKind
    <3>2. \A i, j \in DOMAIN ms : ms[i].name = ms[j].name => i = j
      BY <1>6, <1>7, <3>1 DEF NamesDiffer
    <3> QED
      BY <1>2, <2>1, <3>2 DEF ReadTargets
  <2>2. CASE fmt # "SevenZip"
    BY <2>2 DEF ReadTargets
  <2> QED
    BY <2>1, <2>2
<1>9. r = IF fmt = "SevenZip" /\ m.size > MaxInflated THEN "TooLarge" ELSE ReadBody(w, m.data)
  BY <1>8 DEF ReadMember
<1>10. r \in Blob \cup ReadErrors
  BY <1>4, <1>9 DEF ReadBody, ReadErrors
<1>11. r \in Blob => r = m.data
  <2>1. "TooLarge" \notin Blob /\ "Read" \notin Blob
    BY ContentAssumption DEF ReadErrors
  <2> HIDE DEF m
  <2> QED
    BY <1>9, <2>1 DEF ReadBody
<1>12. r \in Blob => Neutral(w, r, m.name)
  BY <1>2, <1>6, <1>7, <1>11 DEF NamesAreNeutral
<1>13. ASSUME NEW n \in Nat
       PROVE  MemberEvents(w, fmt, m, Events(w)[n]) =
                <<Seen>> \o IF r \notin Blob THEN <<Bad(r)>>
                            ELSE <<Inflated(w[r].size)>> \o Events(w)[n][r][m.name]
  BY <1>9 DEF MemberEvents
<1> HIDE DEF m
<1>14. Reading(w, b, k, fmt, m, r)
  BY <1>4, <1>10, <1>12, <1>13 DEF Reading
<1> QED
  BY <1>14 DEF m

\* What is counted first is no error and no file.
LEMMA AfterSeen ==
  ASSUME NEW evs \in Seq(Event)
  PROVE  /\ <<Seen>> \o evs \in Seq(Event)
         /\ ErrorFree(<<Seen>> \o evs) <=> ErrorFree(evs)
         /\ Yield(<<Seen>> \o evs) = Yield(evs)
<1> DEFINE one == <<Seen>>
<1>1. one \in Seq(Event) /\ ErrorFree(one) /\ Yield(one) = <<>>
  <2>1. Seen \in Event /\ Seen.kind = "member"
    BY EventType DEF Seen
  <2>2. Seen.kind # "error" /\ Leaf(Seen) = <<>>
    BY <2>1 DEF Leaf
  <2> QED
    BY <2>1, <2>2, OneEvent, OneErrorFree, YieldFacts
<1> HIDE DEF one
<1>2. Yield(one \o evs) = Yield(one) \o Yield(evs) /\ Yield(evs) \in Seq(Bytes)
  BY <1>1, YieldFacts
<1>3. /\ one \o evs \in Seq(Event)
      /\ ErrorFree(one \o evs) <=> ErrorFree(evs)
      /\ Yield(one \o evs) = Yield(evs)
  BY <1>1, <1>2, ErrorFreeJoins, ConcatEmptySeq, ConcatProperties
<1> QED
  BY <1>3 DEF one

\* A member that is read adds what is in it (vfs.rs:97-101).
LEMMA ExtractingTakes ==
  ASSUME NEW w \in Worlds, NEW b \in Blob,
         NEW items \in Seq(Item), NEW k, Extracting(w, b, k, items),
         NEW fmt, fmt = SniffBlob(w, b, NoName), NEW ms, ms = Entries(w, b, fmt),
         k \in 1 .. Len(ms), NEW r \in Blob, Reading(w, b, k, fmt, ms[k], r)
  PROVE  Extracting(w, b, k + 1, Append(items, Made(r)))
<1> DEFINE m == ms[k]
           x == Made(r)
           more == Append(items, x)
           one == <<x>>
<1>1. w \in World /\ x \in Item /\ x.data = r /\ one \in Seq(Item) /\ more = items \o one
  <2>1. x \in Item /\ x.data = r
    BY DEF Made, Item
  <2> HIDE DEF x
  <2> QED
    BY <2>1, VfsAssumption, AppendIsConcat
<1>2. /\ m.name \in Name /\ Neutral(w, r, m.name)
      /\ \A n \in Nat : MemberEvents(w, fmt, m, Events(w)[n]) =
           <<Seen>> \o (<<Inflated(w[r].size)>> \o Events(w)[n][r][m.name])
  <2> HIDE DEF m
  <2>1. Reading(w, b, k, fmt, m, r)
    BY DEF m
  <2> QED
    BY <2>1 DEF Reading
<1>3. ASSUME NEW n \in Nat
      PROVE  /\ AllFree(w, n, more) <=> AllFree(w, n, items) /\ ErrorFree(Plain(w, n, r))
             /\ AllYield(w, n, more) = AllYield(w, n, items) \o Yield(Plain(w, n, r))
             /\ AllYield(w, n, items) \in Seq(Bytes)
  <2> HIDE DEF x, one, more
  <2>1. Joins(w, n)
    BY <1>1, TreesJoin
  <2>2. /\ AllYield(w, n, one) = Yield(Plain(w, n, r))
        /\ AllFree(w, n, one) <=> ErrorFree(Plain(w, n, r))
    BY <1>1, <2>1 DEF Joins, one
  <2> QED
    BY <1>1, <2>1, <2>2 DEF Joins
<1> HIDE DEF more, one, x
<1>4. ASSUME NEW n \in Nat
      PROVE  LET evs == Events(w)[n][r][m.name]
                 rest == Rest(w, b, k + 1, n)
             IN /\ evs \in Seq(Event) /\ rest \in Seq(Event)
                /\ ErrorFree(Rest(w, b, k, n)) <=> ErrorFree(evs) /\ ErrorFree(rest)
                /\ Yield(Rest(w, b, k, n)) = Yield(evs) \o Yield(rest)
                /\ Yield(evs) \in Seq(Bytes) /\ Yield(rest) \in Seq(Bytes)
  <2> DEFINE evs == Events(w)[n][r][m.name]
             rest == Rest(w, b, k + 1, n)
             inner == <<Inflated(w[r].size)>> \o evs
             whole == <<Seen>> \o inner
  <2>1. Unrolls(w, b, fmt, ms, n)
    BY <1>1, RestFacts
  <2>2. k + 1 \in 1 .. Len(ms) + 1
    BY <2>1 DEF Unrolls
  <2>3. rest \in Seq(Event) /\ Rest(w, b, k, n) = whole \o rest
    BY <1>2, <2>1, <2>2 DEF Unrolls
  <2>4. evs \in Seq(Event)
    <3>1. Events(w)[n] \in Below
      BY <1>1, PlainFacts
    <3> QED
      BY <1>2, <3>1 DEF Below
  <2> HIDE DEF evs, rest
  <2>5. inner \in Seq(Event) /\ (ErrorFree(inner) <=> ErrorFree(evs)) /\ Yield(inner) = Yield(evs)
    <3> DEFINE size == w[r].size
    <3>1. size \in Nat
      BY <1>1, SizeType
    <3> HIDE DEF size
    <3>2. <<Inflated(size)>> \in Seq(Event)
      BY <3>1, EventType, OneEvent
    <3>3. /\ <<Inflated(size)>> \o evs \in Seq(Event)
          /\ ErrorFree(<<Inflated(size)>> \o evs) <=> ErrorFree(evs)
          /\ Yield(<<Inflated(size)>> \o evs) = Yield(evs)
      BY <2>4, <3>1, <3>2, AfterInflated, ConcatProperties
    <3> QED
      BY <3>3 DEF size
  <2> HIDE DEF inner
  <2>6. whole \in Seq(Event) /\ (ErrorFree(whole) <=> ErrorFree(evs)) /\ Yield(whole) = Yield(evs)
    BY <2>5, AfterSeen
  <2> HIDE DEF whole
  <2>7. /\ ErrorFree(whole \o rest) <=> ErrorFree(whole) /\ ErrorFree(rest)
        /\ Yield(whole \o rest) = Yield(whole) \o Yield(rest)
    BY <2>3, <2>6, ErrorFreeJoins, YieldFacts
  <2>8. Yield(evs) \in Seq(Bytes) /\ Yield(rest) \in Seq(Bytes)
    BY <2>3, <2>4, YieldFacts
  <2> QED
    BY <2>3, <2>4, <2>6, <2>7, <2>8 DEF evs, rest
<1> HIDE DEF m
<1>5. ASSUME NEW n \in Nat, AllFree(w, n, more), ErrorFree(Rest(w, b, k + 1, n))
      PROVE  /\ ErrorFree(Plain(w, n + 1, b))
             /\ Yield(Plain(w, n + 1, b)) = AllYield(w, n, more) \o Yield(Rest(w, b, k + 1, n))
  <2> DEFINE evs == Events(w)[n][r][m.name]
             rest == Rest(w, b, k + 1, n)
             a == AllYield(w, n, items)
             y == Yield(evs)
             z == Yield(rest)
  <2>1. AllFree(w, n, items) /\ ErrorFree(Plain(w, n, r))
    BY <1>3, <1>5
  <2>2. ErrorFree(evs) /\ y = Yield(Plain(w, n, r))
    BY <1>1, <1>2, <2>1, NeutralAgrees
  <2>3. ErrorFree(Rest(w, b, k, n)) /\ Yield(Rest(w, b, k, n)) = y \o z
    BY <1>4, <1>5, <2>2
  <2>4. ErrorFree(Plain(w, n + 1, b)) /\ Yield(Plain(w, n + 1, b)) = a \o (y \o z)
    BY <2>1, <2>3 DEF Extracting
  <2>5. a \in Seq(Bytes) /\ y \in Seq(Bytes) /\ z \in Seq(Bytes)
    BY <1>3, <1>4
  <2>6. AllYield(w, n, more) = a \o y
    BY <1>3, <2>2
  <2> HIDE DEF a, y, z
  <2>7. (a \o y) \o z = a \o (y \o z)
    BY <2>5, ConcatAssociative
  <2> QED
    BY <2>4, <2>6, <2>7 DEF z
<1>6. ASSUME NEW n \in Nat, ErrorFree(Plain(w, n + 1, b))
      PROVE  AllPass(w, more) /\ ErrorFree(Rest(w, b, k + 1, n))
  <2>1. AllPass(w, items) /\ ErrorFree(Rest(w, b, k, n))
    BY <1>6 DEF Extracting
  <2>2. ErrorFree(Events(w)[n][r][m.name]) /\ ErrorFree(Rest(w, b, k + 1, n))
    BY <1>4, <2>1
  <2>3. Passes(w, r)
    BY <1>1, <1>2, <2>2, NeutralAgrees
  <2>4. AllPass(w, one)
    BY <1>1, <2>3, PassJoins DEF one
  <2> QED
    BY <1>1, <2>1, <2>2, <2>4, PassJoins
<1>7. Extracting(w, b, k + 1, more)
  BY <1>5, <1>6 DEF Extracting
<1> QED
  BY <1>7 DEF more, x

\* A member that is not read spoils the archive (vfs.rs:97).
LEMMA MemberIsBad ==
  ASSUME NEW w \in World, NEW b \in Blob, NEW items, NEW k, Extracting(w, b, k, items),
         NEW fmt, fmt = SniffBlob(w, b, NoName), NEW ms, ms = Entries(w, b, fmt),
         k \in 1 .. Len(ms), NEW r, r \notin Blob, Reading(w, b, k, fmt, ms[k], r)
  PROVE  ~Sound(w, b)
<1> SUFFICES ASSUME NEW n \in Nat, ErrorFree(Plain(w, n, b)) PROVE FALSE
  BY DEF Sound
<1> DEFINE j == n - 1
           m == ms[k]
           bad == <<Bad(r)>>
           whole == <<Seen>> \o bad
<1>1. j \in Nat /\ j + 1 = n
  <2>1. n # 0
    BY PlainFacts
  <2> QED
    BY <2>1
<1> HIDE DEF j
<1>2. r \in ReadErrors /\ MemberEvents(w, fmt, m, Events(w)[j]) = whole
  <2> HIDE DEF m
  <2>1. Reading(w, b, k, fmt, m, r)
    BY DEF m
  <2> QED
    BY <1>1, <2>1 DEF Reading
<1> HIDE DEF m
<1>3. bad \in Seq(Event) /\ ~ErrorFree(bad)
  BY <1>2, BadIsError, EventType, OneEvent
<1> HIDE DEF bad
<1>4. whole \in Seq(Event) /\ ~ErrorFree(whole)
  BY <1>3, AfterSeen
<1>5. Unrolls(w, b, fmt, ms, j)
  BY <1>1, RestFacts
<1>6. Rest(w, b, k, j) = whole \o Rest(w, b, k + 1, j)
  BY <1>2, <1>5 DEF Unrolls, m
<1>7. Rest(w, b, k + 1, j) \in Seq(Event)
  <2>1. k + 1 \in 1 .. Len(ms) + 1
    BY <1>5 DEF Unrolls
  <2> QED
    BY <1>5, <2>1 DEF Unrolls
<1> HIDE DEF whole
<1>8. ~ErrorFree(Rest(w, b, k, j))
  BY <1>4, <1>6, <1>7, ErrorFreeJoins
<1> QED
  BY <1>1, <1>8 DEF Extracting

\* With no member to come the archive stands for what was extracted (vfs.rs:102).
LEMMA ExtractingEnds ==
  ASSUME NEW w \in World, NEW b \in Blob, NEW items \in Seq(Item), NEW k, Extracting(w, b, k, items),
         k = Len(Entries(w, b, SniffBlob(w, b, NoName))) + 1,
         IsArchive(SniffBlob(w, b, NoName))
  PROVE  StandFor(w, b, items)
<1>1. ASSUME NEW n \in Nat
      PROVE  /\ ErrorFree(Rest(w, b, k, n))
             /\ AllYield(w, n, items) \o Yield(Rest(w, b, k, n)) = AllYield(w, n, items)
  <2> DEFINE fmt == SniffBlob(w, b, NoName)
             ms == Entries(w, b, fmt)
  <2>1. Unrolls(w, b, fmt, ms, n)
    BY RestFacts
  <2>2. Rest(w, b, k, n) = <<>>
    BY <2>1 DEF Unrolls
  <2>3. ErrorFree(<<>>)
    BY DEF ErrorFree
  <2>4. AllYield(w, n, items) \in Seq(Bytes)
    <3>1. Joins(w, n)
      BY TreesJoin
    <3> QED
      BY <3>1 DEF Joins
  <2>5. Yield(<<>>) = <<>>
    BY FlattenOne DEF Yield
  <2> QED
    BY <2>2, <2>3, <2>4, <2>5, ConcatEmptySeq
<1>2. ASSUME NEW n \in Nat PROVE ComeTo(w, n, Plain(w, n + 1, b), items)
  BY <1>1 DEF ComeTo, Extracting
<1>3. ASSUME NEW n \in Nat, ErrorFree(Plain(w, n, b)) PROVE AllPass(w, items)
  <2> DEFINE j == n - 1
  <2>1. j \in Nat /\ j + 1 = n
    <3>1. n # 0
      BY <1>3, PlainFacts
    <3> QED
      BY <3>1
  <2> HIDE DEF j
  <2> QED
    BY <1>3, <2>1 DEF Extracting
<1>4. Passes(w, b) => AllPass(w, items)
  BY <1>3, ArchivePasses DEF Sound
<1> QED
  BY <1>2, <1>4 DEF StandFor

\* Layers of the caller's source that were opened for good.
Opened == IF pc = "idle" THEN opens ELSE opens - 1

\* As far as the source has what it says: the tree is what it comes to, of the layers
\* that were recognised none was refused that passes but a packed tar, and an archive
\* being opened comes to what was extracted and what is to come.
Evidence ==
  Faithful =>
    /\ Leads(world, src.holds, Opened, tree, lost)
    /\ pc # "idle" => opens # 0
    /\ pc # "members" => got = <<>>
    /\ pc \in {"sniff", "members"} => data = tree[at].data
    /\ pc = "members" => /\ IsArchive(Fmt) /\ Opens(world, data, Fmt)
                         /\ next \in 1 .. Len(Table) + 1
                         /\ Extracting(world, data, next, got)

LEMMA InitEvidence == Init => Evidence
<1> SUFFICES ASSUME Init PROVE Evidence
  OBVIOUS
<1>1. world \in World /\ src \in Source /\ pc = "idle" /\ Opened = 0
  BY VfsAssumption DEF Init, Opened
<1> DEFINE x == [data |-> src.holds, made |-> FALSE]
<1>2. x \in Item /\ x.data = src.holds /\ tree = <<x>> /\ lost = {}
  BY <1>1 DEF Init, Item, Source
<1> HIDE DEF x
<1>3. Leads(world, x.data, 0, <<x>>, {})
  BY <1>1, <1>2, LeadsAtFirst
<1> QED
  BY <1>1, <1>2, <1>3 DEF Evidence, Init

\* What is needed of a call under way.
LEMMA Underway ==
  ASSUME TypeInv, Evidence, Faithful, pc # "idle"
  PROVE  /\ world \in World /\ world \in Worlds /\ src.holds \in Blob
         /\ tree \in Seq(Item) /\ at \in DOMAIN tree /\ tree[at].data \in Blob
         /\ Delivers = tree[at].data
         /\ opens \in Nat /\ Opened = opens - 1 /\ opens - 1 \in Nat /\ (opens - 1) + 1 = opens
         /\ Leads(world, src.holds, opens - 1, tree, lost)
<1>1. opens \in Nat /\ opens # 0
  BY VfsAssumption DEF TypeInv, TypeOK, Evidence
<1>2. Delivers = tree[at].data
  BY OpenedType DEF Delivers, Faithful
<1> QED
  BY <1>1, <1>2, OpenedType DEF TypeInv, TypeOK, Evidence, Opened

LEMMA RefuseLeads ==
  ASSUME TypeInv, Evidence, pc # "idle", NEW e, Refuse(e),
         UNCHANGED <<world, src, opens, at, off>>,
         Faithful /\ e # "Source" /\ Probe(Delivers) => Refusable(world, tree[at].data)
  PROVE  Evidence'
<1> SUFFICES ASSUME Faithful
             PROVE  Leads(world', src'.holds, Opened', tree', lost')
  BY DEF Evidence, Faithful, Refuse
<1>1. /\ world \in World /\ src.holds \in Blob /\ at \in DOMAIN tree /\ opens \in Nat
      /\ opens - 1 \in Nat /\ (opens - 1) + 1 = opens
      /\ tree \in Seq(Item) /\ Delivers = tree[at].data
      /\ Leads(world, src.holds, opens - 1, tree, lost)
  BY Underway
<1>2. Leads(world, src.holds, (opens - 1) + 1, tree, lost)
  BY <1>1, LeadsAfterOpening
<1>3. world' = world /\ src' = src /\ tree' = tree /\ Opened' = opens
  BY DEF Refuse, Opened
<1>4. CASE e # "Source" /\ Probe(Delivers)
  <2>1. Refusable(world, tree[at].data) /\ lost' = lost \cup {tree[at].data}
    BY <1>1, <1>4 DEF Refuse
  <2>2. Leads(world, src.holds, opens, tree, lost)
    BY <1>1, <1>2
  <2>3. Leads(world, src.holds, opens, tree, lost \cup {tree[at].data})
    BY <1>1, <2>1, <2>2, LeadsRefused
  <2> QED
    BY <1>3, <2>1, <2>3
<1>5. CASE ~(e # "Source" /\ Probe(Delivers))
  <2>1. lost' = lost
    BY <1>5 DEF Refuse
  <2> QED
    BY <1>1, <1>2, <1>3, <2>1
<1> QED
  BY <1>4, <1>5

LEMMA ReplaceLeads ==
  ASSUME TypeInv, Evidence, pc # "idle", NEW items, Replace(items),
         UNCHANGED <<world, src, opens, at, off>>,
         Faithful => items \in Seq(Item) /\ StandFor(world, tree[at].data, items)
  PROVE  Evidence'
<1> SUFFICES ASSUME Faithful
             PROVE  Leads(world', src'.holds, Opened', tree', lost')
  BY DEF Evidence, Faithful, Replace
<1>1. /\ world \in World /\ src.holds \in Blob /\ tree \in Seq(Item) /\ at \in DOMAIN tree
      /\ opens - 1 \in Nat /\ (opens - 1) + 1 = opens
      /\ Leads(world, src.holds, opens - 1, tree, lost)
  BY Underway
<1> DEFINE new == SubSeq(tree, 1, at - 1) \o items \o SubSeq(tree, at + 1, Len(tree))
<1>2. Leads(world, src.holds, (opens - 1) + 1, new, lost)
  BY <1>1, LeadsReplaced
<1>3. world' = world /\ src' = src /\ tree' = new /\ lost' = lost /\ Opened' = opens
  BY DEF Replace, Opened
<1> HIDE DEF new
<1> QED
  BY <1>1, <1>2, <1>3

LEMMA StepEvidence ==
  ASSUME NamesDiffer, NamesAreNeutral, TypeInv, TypeInv', Evidence, [Next]_vars
  PROVE  Evidence'
<1>1. ASSUME NEW k \in DOMAIN tree, Open(k) PROVE Evidence'
  <2> SUFFICES ASSUME Faithful
               PROVE  Leads(world', src'.holds, Opened', tree', lost') /\ opens' # 0
    BY <1>1 DEF Open, Evidence, Faithful
  <2>1. opens \in Nat /\ Opened = opens
    BY <1>1, VfsAssumption DEF Open, Opened, TypeInv, TypeOK
  <2>2. Opened' = opens /\ opens' # 0
    BY <1>1, <2>1 DEF Open, Opened
  <2>3. Leads(world, src.holds, opens, tree, lost)
    BY <2>1 DEF Evidence
  <2>4. world' = world /\ src' = src /\ tree' = tree /\ lost' = lost
    BY <1>1 DEF Open
  <2> QED
    BY <2>2, <2>3, <2>4
<1>2. CASE ReadSome
  <2>1. pc = "read" /\ pc' = "read" /\ UNCHANGED <<world, src, tree, opens, got, lost>>
    BY <1>2 DEF ReadSome
  <2> QED
    BY <2>1 DEF Evidence, Faithful, Opened
<1>3. CASE EndRead
  <2>1. pc = "read" /\ pc' = "sniff" /\ data' = Delivers
        /\ UNCHANGED <<world, src, tree, opens, at, got, lost>>
    BY <1>3 DEF EndRead
  <2>2. Faithful => Delivers = tree[at].data
    BY <2>1, Underway
  <2> QED
    BY <2>1, <2>2 DEF Evidence, Faithful, Opened
<1>4. CASE ReadFails
  BY <1>4, RefuseLeads DEF ReadFails
<1>5. CASE OpenStream
  <2> DEFINE r == PeelBytes(world, data, Fmt)
             b == tree[at].data
  <2>1. pc = "sniff" /\ IsCompressionWrapper(Fmt) /\ UNCHANGED <<world, src, opens, at, off>>
    BY <1>5 DEF OpenStream
  <2>2. ASSUME Faithful
        PROVE  /\ r \in Blob => StandFor(world, b, <<Made(r)>>)
               /\ r \notin Blob => Refusable(world, b)
    <3>1. data = b /\ b \in Blob /\ world \in World
      BY <2>1, <2>2, Underway DEF Evidence
    <3>2. IsCompressionWrapper(SniffBlob(world, b, NoName)) /\ r = PeelBytes(world, b, SniffBlob(world, b, NoName))
      BY <2>1, <3>1 DEF Fmt
    <3> HIDE DEF r, b
    <3> QED
      BY <3>1, <3>2, StreamStandsFor
  <2>3. CASE r \in Blob
    <3>1. Replace(<<Made(r)>>)
      BY <1>5, <2>3 DEF OpenStream
    <3>2. <<Made(r)>> \in Seq(Item)
      <4>1. Made(r) \in Item
        BY <2>3 DEF Made, Item
      <4> DEFINE x == Made(r)
      <4> HIDE DEF x
      <4>2. <<x>> \in Seq(Item)
        BY <4>1 DEF x
      <4> QED
        BY <4>2 DEF x
    <3> HIDE DEF r
    <3> QED
      BY <2>1, <2>2, <2>3, <3>1, <3>2, ReplaceLeads
  <2>4. CASE r \notin Blob
    <3>1. Refuse("Decode")
      BY <1>5, <2>4 DEF OpenStream
    <3> QED
      BY <2>1, <2>2, <2>4, <3>1, RefuseLeads
  <2> QED
    BY <2>3, <2>4
<1>6. CASE OpenMembers
  <2>1. pc = "sniff" /\ IsArchive(Fmt) /\ UNCHANGED <<world, src, opens, at, off>>
    BY <1>6 DEF OpenMembers
  <2>2. ASSUME Faithful
        PROVE  data = tree[at].data /\ data \in Blob /\ world \in World
    BY <2>1, <2>2, Underway DEF Evidence
  <2>3. CASE Opens(world, data, Fmt)
    <3> SUFFICES ASSUME Faithful PROVE Evidence'
      BY <2>1 DEF Evidence, Faithful
    <3>1. pc' = "members" /\ next' = 1 /\ UNCHANGED <<tree, data, got, ans, lost>>
      BY <1>6, <2>3 DEF OpenMembers
    <3>2. Extracting(world, data, 1, <<>>)
      BY <2>1, <2>2, <2>3, ExtractingStarts DEF Fmt
    <3>3. got = <<>>
      BY <2>1 DEF Evidence
    <3>4. Len(Table) \in Nat
      BY <2>2, EntriesType, LenProperties DEF Table
    <3>5. UNCHANGED <<Fmt, Table>> /\ Opened' = Opened
      BY <2>1, <3>1 DEF Fmt, Table, Opened
    <3> QED
      BY <2>1, <2>2, <2>3, <3>1, <3>2, <3>3, <3>4, <3>5 DEF Evidence
  <2>4. CASE ~Opens(world, data, Fmt)
    <3>1. Refuse("Decode")
      BY <1>6, <2>4 DEF OpenMembers
    <3>2. Faithful => Refusable(world, tree[at].data)
      BY <2>1, <2>2, <2>4, ClosedIsBad, ArchivePasses DEF Fmt, Refusable
    <3> QED
      BY <2>1, <3>1, <3>2, RefuseLeads
  <2> QED
    BY <2>3, <2>4
<1>7. CASE NotArchive
  <2>1. pc = "sniff" /\ Fmt = "Unknown" /\ Refuse("NotArchive")
        /\ UNCHANGED <<world, src, opens, at, off>>
    BY <1>7 DEF NotArchive
  <2>2. Faithful => ~Probe(Delivers)
    <3>1. Faithful => Delivers = tree[at].data /\ data = tree[at].data
      BY <2>1, Underway DEF Evidence
    <3> QED
      BY <2>1, <3>1 DEF Probe, Fmt
  <2> QED
    BY <2>1, <2>2, RefuseLeads
<1> DEFINE InLoop == /\ world \in World /\ world \in Worlds /\ data \in Blob /\ data = tree[at].data
                     /\ got \in Seq(Item) /\ Table \in Seq(Member)
                     /\ Fmt = SniffBlob(world, data, NoName) /\ IsArchive(Fmt) /\ Table = Entries(world, data, Fmt)
                     /\ Extracting(world, data, next, got) /\ next \in 1 .. Len(Table) + 1
<1>8. ASSUME Faithful, pc = "members" PROVE InLoop
  <2>1. data = tree[at].data /\ data \in Blob /\ world \in World /\ world \in Worlds
    BY <1>8, Underway DEF Evidence
  <2>2. Table \in Seq(Member)
    BY <2>1, EntriesType DEF Table
  <2> QED
    BY <1>8, <2>1, <2>2 DEF Evidence, Fmt, Table, TypeInv, TypeOK
<1>9. ASSUME Faithful, AtMember
      PROVE  InLoop /\ next \in 1 .. Len(Table) /\ next + 1 \in 1 .. Len(Table) + 1
  <2>1. InLoop /\ next \in DOMAIN Table
    BY <1>8, <1>9 DEF AtMember
  <2>2. DOMAIN Table = 1 .. Len(Table) /\ Len(Table) \in Nat
    BY <2>1, LenProperties
  <2>3. next \in 1 .. Len(Table) /\ next + 1 \in 1 .. Len(Table) + 1
    BY <2>1, <2>2
  <2> QED
    BY <2>1, <2>3
<1>10. ASSUME Faithful, AtMember, pc' = "members", next' = next + 1,
              UNCHANGED <<world, src, opens, at, tree, data, lost>>,
              Extracting(world, data, next + 1, got')
       PROVE  Evidence'
  <2>1. UNCHANGED <<Fmt, Table>> /\ Opened' = Opened /\ pc = "members"
    BY <1>10 DEF Fmt, Table, Opened, AtMember
  <2>2. next + 1 \in 1 .. Len(Table) + 1
    BY <1>9, <1>10
  <2> QED
    BY <1>10, <2>1, <2>2 DEF Evidence
<1>11. CASE SkipDir
  <2>1. AtMember /\ Table[next].isDir /\ next' = next + 1 /\ pc' = "members"
        /\ UNCHANGED <<world, src, tree, opens, at, off, data, got, ans, lost>>
    BY <1>11 DEF SkipDir, AtMember
  <2> SUFFICES ASSUME Faithful PROVE Evidence'
    BY <2>1 DEF Evidence, Faithful
  <2>2. Extracting(world, data, next + 1, got)
    BY <1>9, <2>1, ExtractingSkips
  <2> QED
    BY <1>10, <2>1, <2>2
<1>12. CASE TakeMember
  <2>1. AtMember /\ ~Table[next].isDir /\ pc = "members"
        /\ UNCHANGED <<world, src, opens, at, off>>
    BY <1>12 DEF TakeMember, AtMember
  <2>2. PICK r \in ReadMember(world, data, Fmt, next) :
          IF r \in Blob
          THEN /\ got' = Append(got, Made(r)) /\ next' = next + 1
               /\ UNCHANGED <<tree, pc, data, ans, lost>>
          ELSE Refuse("Decode")
    BY <1>12 DEF TakeMember, ReadIndex
  <2>3. ASSUME Faithful PROVE Reading(world, data, next, Fmt, Table[next], r)
    <3>1. InLoop /\ next \in 1 .. Len(Table)
      BY <1>9, <2>1, <2>3
    <3> QED
      BY <2>1, <3>1, MemberIsRead
  <2>4. CASE r \in Blob
    <3> SUFFICES ASSUME Faithful PROVE Evidence'
      BY <2>1, <2>2, <2>4 DEF Evidence, Faithful
    <3>1. InLoop /\ next \in 1 .. Len(Table)
      BY <1>9, <2>1
    <3>2. Extracting(world, data, next + 1, Append(got, Made(r)))
      BY <2>3, <2>4, <3>1, ExtractingTakes
    <3> QED
      BY <1>10, <2>1, <2>2, <2>4, <3>2
  <2>5. CASE r \notin Blob
    <3>1. ASSUME Faithful PROVE Refusable(world, tree[at].data)
      <4>1. InLoop /\ next \in 1 .. Len(Table)
        BY <1>9, <2>1, <3>1
      <4>2. ~Sound(world, data)
        BY <2>3, <2>5, <3>1, <4>1, MemberIsBad
      <4> QED
        BY <4>1, <4>2, ArchivePasses DEF Refusable
    <3> QED
      BY <2>1, <2>2, <2>5, <3>1, RefuseLeads
  <2> QED
    BY <2>4, <2>5
<1>13. CASE EndMembers
  <2>1. pc = "members" /\ next > Len(Table) /\ Replace(got)
        /\ UNCHANGED <<world, src, opens, at, off>>
    BY <1>13 DEF EndMembers
  <2>2. ASSUME Faithful PROVE got \in Seq(Item) /\ StandFor(world, tree[at].data, got)
    <3>1. InLoop
      BY <1>8, <2>1, <2>2
    <3>2. next = Len(Table) + 1
      <4>1. Len(Table) \in Nat
        BY <3>1, LenProperties
      <4> QED
        BY <2>1, <3>1, <4>1
    <3>3. StandFor(world, data, got)
      BY <3>1, <3>2, ExtractingEnds
    <3> QED
      BY <3>1, <3>3
  <2> QED
    BY <2>1, <2>2, ReplaceLeads
<1>14. CASE UNCHANGED vars
  BY <1>14 DEF vars, Evidence, Faithful, Opened, Fmt, Table
<1> QED
  BY <1>1, <1>2, <1>3, <1>4, <1>5, <1>6, <1>7, <1>11, <1>12, <1>13, <1>14 DEF Next, Step

\* Sequences of one element each, end to end.
LEMMA FlattenSingles ==
  ASSUME NEW S, NEW s \in Seq(S)
  PROVE  FlattenSeq([k \in DOMAIN s |-> <<s[k]>>]) = s
<1> DEFINE ones == [k \in DOMAIN s |-> <<s[k]>>]
           D == 0 .. Len(s)
<1>1. Len(s) \in Nat /\ DOMAIN s = 1 .. Len(s) /\ \A k \in 1 .. Len(s) : s[k] \in S
  BY LenProperties, ElementOfSeq
<1>2. ones \in Seq(Seq(S)) /\ Len(ones) = Len(s) /\ \A k \in 1 .. Len(s) : ones[k] = <<s[k]>>
  <2>1. ones = [k \in 1 .. Len(s) |-> <<s[k]>>]
    BY <1>1
  <2>2. \A k \in 1 .. Len(s) : <<s[k]>> \in Seq(S)
    BY <1>1
  <2>3. ones \in [1 .. Len(s) -> Seq(S)]
    BY <2>1, <2>2
  <2>4. ones \in Seq(Seq(S))
    BY <1>1, <2>3, SeqDef
  <2> QED
    BY <1>1, <2>1, <2>3, <2>4, LenProperties
<1> HIDE DEF ones
<1>3. PICK f : Gathers(S, ones, f)
  BY <1>2, FlattenFacts
<1> DEFINE T == {k \in D : Len(f[k]) = k /\ \A i \in 1 .. k : f[k][i] = s[i]}
<1>4. Initial(D) /\ Len(s) \in D
  BY <1>1 DEF Initial
<1>5. \A k \in D : f[k] \in Seq(S)
  BY <1>2, <1>3 DEF Gathers
<1>6. 0 \in T
  BY <1>1, <1>3 DEF Gathers
<1>7. ASSUME NEW n \in D, n # 0, n - 1 \in T PROVE n \in T
  <2> DEFINE a == f[n - 1]
             one == <<s[n]>>
  <2>1. n \in 1 .. Len(s) /\ n - 1 \in D /\ n \in Nat
    BY <1>1, <1>7
  <2>2. f[n] = a \o one
    BY <1>2, <1>3, <2>1 DEF Gathers
  <2>3. a \in Seq(S) /\ Len(a) = n - 1 /\ \A i \in 1 .. n - 1 : a[i] = s[i]
    BY <1>5, <1>7, <2>1
  <2>4. one \in Seq(S) /\ Len(one) = 1 /\ one[1] = s[n]
    BY <1>1, <2>1
  <2> HIDE DEF a, one
  <2>5. /\ Len(a \o one) = Len(a) + Len(one)
        /\ \A i \in 1 .. Len(a) + Len(one) :
             (a \o one)[i] = IF i <= Len(a) THEN a[i] ELSE one[i - Len(a)]
    BY <2>3, <2>4, ConcatProperties
  <2>6. Len(f[n]) = n
    BY <2>1, <2>2, <2>3, <2>4, <2>5
  <2>7. ASSUME NEW i \in 1 .. n PROVE f[n][i] = s[i]
    <3>1. i \in 1 .. Len(a) + Len(one)
      BY <2>1, <2>3, <2>4
    <3>2. f[n][i] = IF i <= Len(a) THEN a[i] ELSE one[i - Len(a)]
      BY <2>2, <2>5, <3>1
    <3>3. CASE i = n
      <4>1. ~(i <= Len(a)) /\ i - Len(a) = 1
        BY <2>1, <2>3, <3>3
      <4> QED
        BY <2>4, <3>2, <3>3, <4>1
    <3>4. CASE i # n
      <4>1. i <= Len(a) /\ i \in 1 .. n - 1
        BY <2>1, <2>3, <3>4
      <4> QED
        BY <2>3, <3>2, <4>1
    <3> QED
      BY <3>3, <3>4
  <2> QED
    BY <2>6, <2>7
<1> HIDE DEF T, D
<1>8. D \subseteq T
  BY <1>4, <1>6, <1>7, Induct
<1> DEFINE all == f[Len(s)]
<1>9. all \in Seq(S) /\ Len(all) = Len(s) /\ \A i \in 1 .. Len(s) : all[i] = s[i]
  BY <1>4, <1>5, <1>8 DEF T
<1>10. FlattenSeq(ones) = all
  BY <1>2, <1>3 DEF Gathers
<1> HIDE DEF all
<1>11. all = s
  BY <1>9, SeqEqual
<1> QED
  BY <1>10, <1>11 DEF ones

\* When nothing is left to open the tree is the evidence.
LEMMA CompleteTree ==
  ASSUME NEW w \in World, NEW items \in Seq(Item),
         \A k \in DOMAIN items : SniffBlob(w, items[k].data, NoName) = "Unknown"
  PROVE  AllFree(w, 1, items) /\ AllYield(w, 1, items) = [k \in DOMAIN items |-> items[k].data]
<1>1. ASSUME NEW b \in Blob, SniffBlob(w, b, NoName) = "Unknown"
      PROVE  ErrorFree(Plain(w, 1, b)) /\ Yield(Plain(w, 1, b)) = <<b>>
  <2> DEFINE node == [dir |-> FALSE, name |-> <<EmptyPiece>>, data |-> b]
             e == Found(node)
  <2>1. Plain(w, 1, b) = <<e>>
    <3>1. Plain(w, 0 + 1, b) = LayerEvents(w, b, NoName, Events(w)[0])
      BY PlainFacts
    <3>2. ~IsCompressionWrapper("Unknown") /\ ~IsArchive("Unknown") /\ 0 + 1 = 1
      BY DEF IsCompressionWrapper, IsArchive
    <3> QED
      BY <1>1, <3>1, <3>2 DEF LayerEvents
  <2>2. node \in TreeNode /\ ~node.dir /\ node.data = b
    <3>1. <<EmptyPiece>> \in Name
      BY ContentAssumption DEF Name
    <3> QED
      BY <3>1 DEF TreeNode
  <2>3. e \in Event /\ e.kind = "node" /\ Leaf(e) = <<b>>
    BY <2>2, EventType DEF Found, Leaf
  <2> HIDE DEF e
  <2>4. e.kind # "error"
    BY <2>3
  <2> QED
    BY <2>1, <2>3, <2>4, OneEvent, OneErrorFree, YieldFacts
<1>2. \A k \in DOMAIN items : items[k].data \in Blob
  <2>1. \A k \in DOMAIN items : items[k] \in Item
    BY LenProperties, ElementOfSeq
  <2> QED
    BY <2>1 DEF Item
<1>3. AllFree(w, 1, items)
  BY <1>1, <1>2 DEF AllFree
<1> DEFINE datas == [k \in DOMAIN items |-> items[k].data]
<1>4. datas \in Seq(Blob) /\ DOMAIN datas = DOMAIN items
  <2>1. DOMAIN items = 1 .. Len(items) /\ Len(items) \in Nat
    BY LenProperties
  <2>2. datas \in [1 .. Len(items) -> Blob]
    BY <1>2, <2>1
  <2> QED
    BY <2>1, <2>2, SeqDef
<1>5. [k \in DOMAIN items |-> Yield(Plain(w, 1, items[k].data))] = [k \in DOMAIN datas |-> <<datas[k]>>]
  BY <1>1, <1>2, <1>4
<1> HIDE DEF datas
<1>6. AllYield(w, 1, items) = datas
  BY <1>4, <1>5, FlattenSingles DEF AllYield
<1> QED
  BY <1>3, <1>6 DEF datas

\* Under limits no sum comes up against, the answer is the nodes unless there is an error.
LEMMA AnswerOfEvents ==
  ASSUME NEW evs \in Seq(Event), NEW lim,
         lim.max_total_inflated = MaxU64, lim.max_entries = MaxU64
  PROVE  IF ErrorFree(evs) THEN Decide(evs, lim) = [nodes |-> Tally(evs)[Len(evs)].nodes]
         ELSE "nodes" \notin DOMAIN Decide(evs, lim)
<1> DEFINE stops == {k \in DOMAIN evs : Breaks(evs, lim, k)}
<1>1. DOMAIN evs = 1 .. Len(evs)
  BY LenProperties
<1>2. \A sum : ~Exceeds(sum, MaxU64)
  BY BudgetAssumption DEF Exceeds
<1>3. \A k \in 1 .. Len(evs) : Breaks(evs, lim, k) <=> evs[k].kind = "error"
  BY <1>2 DEF Breaks
<1>4. stops = {} <=> ErrorFree(evs)
  BY <1>1, <1>3 DEF ErrorFree
<1>5. Decide(evs, lim) =
        IF stops = {} THEN [nodes |-> Tally(evs)[Len(evs)].nodes]
        ELSE [error |-> ErrorAt(evs, CHOOSE k \in stops : \A j \in stops : k <= j)]
  BY DEF Decide
<1> HIDE DEF stops
<1> QED
  BY <1>4, <1>5

LEMMA EvidenceSuffices ==
  ASSUME TypeInv, Evidence
  PROVE  SameEvidence
<1> SUFFICES ASSUME Faithful, NEW name \in Names,
                    Neutral(world, src.holds, name)
             PROVE  LET answer == Resolved(name) IN
                    /\ Complete => "nodes" \in DOMAIN answer
                         /\ [k \in DOMAIN tree |-> tree[k].data] = Leaves(answer.nodes)
                    /\ "nodes" \in DOMAIN answer => \A b \in lost : Overlooked(world, b)
  BY DEF SameEvidence
<1> DEFINE n == MaxOpens + 2
           h == src.holds
           evs == Events(world)[n][h][name]
           lim == [max_depth |-> MaxOpens + 1, max_total_inflated |-> MaxU64, max_entries |-> MaxU64]
<1>1. /\ world \in World /\ world \in Worlds /\ h \in Blob /\ name \in Name
      /\ MaxOpens \in Nat /\ n \in Nat /\ opens \in Nat /\ opens <= MaxOpens
      /\ tree \in Seq(Item)
  BY VfsAssumption, NamesAssumption DEF TypeInv, TypeOK, Source
<1>2. Resolved(name) = Decide(evs, lim)
  <2>1. (MaxOpens + 1) + 1 = n
    BY <1>1
  <2> QED
    BY <2>1 DEF Resolved, Answer, EventsOf
<1>3. evs \in Seq(Event)
  <2>1. Events(world)[n] \in Below
    BY <1>1, PlainFacts
  <2> QED
    BY <1>1, <2>1 DEF Below
<1>4. Neutral(world, h, name)
  OBVIOUS
<1>5. Leads(world, h, Opened, tree, lost)
  BY DEF Evidence
<1> HIDE DEF n, h, evs
<1>6. IF ErrorFree(evs) THEN Resolved(name) = [nodes |-> Tally(evs)[Len(evs)].nodes]
      ELSE "nodes" \notin DOMAIN Resolved(name)
  <2>1. lim.max_total_inflated = MaxU64 /\ lim.max_entries = MaxU64
    OBVIOUS
  <2> HIDE DEF lim
  <2> QED
    BY <1>2, <1>3, <2>1, AnswerOfEvents
<1>7. ASSUME "nodes" \in DOMAIN Resolved(name) PROVE \A b \in lost : Overlooked(world, b)
  <2>1. ErrorFree(evs)
    BY <1>6, <1>7
  <2>2. Passes(world, h)
    BY <1>1, <1>4, <2>1, NeutralAgrees DEF evs
  <2> QED
    BY <1>5, <2>2 DEF Leads
<1>8. ASSUME Complete
      PROVE  /\ "nodes" \in DOMAIN Resolved(name)
             /\ [k \in DOMAIN tree |-> tree[k].data] = Leaves(Resolved(name).nodes)
  <2> DEFINE m == 1 + opens
  <2>1. Opened = opens /\ m \in Nat /\ m <= n
    BY <1>1, <1>8 DEF Complete, Opened, n
  <2>2. AllFree(world, 1, tree) /\ AllYield(world, 1, tree) = [k \in DOMAIN tree |-> tree[k].data]
    <3>1. \A k \in DOMAIN tree : SniffBlob(world, tree[k].data, NoName) = "Unknown"
      BY <1>8 DEF Complete, Probe
    <3> QED
      BY <1>1, <3>1, CompleteTree
  <2>3. ComeTo(world, 1, Plain(world, 1 + opens, h), tree)
    BY <1>5, <2>1 DEF Leads
  <2>4. ErrorFree(Plain(world, m, h)) /\ Yield(Plain(world, m, h)) = [k \in DOMAIN tree |-> tree[k].data]
    BY <2>2, <2>3 DEF ComeTo
  <2> HIDE DEF m
  <2>5. /\ ErrorFree(Events(world)[m][h][name])
        /\ Yield(Events(world)[m][h][name]) = [k \in DOMAIN tree |-> tree[k].data]
    BY <1>1, <1>4, <2>1, <2>4, NeutralAgrees
  <2>6. evs = Events(world)[m][h][name]
    BY <1>1, <2>1, <2>5, AnyLevelsAgree DEF Agree, evs
  <2>7. Resolved(name) = [nodes |-> Tally(evs)[Len(evs)].nodes]
    BY <1>6, <2>5, <2>6
  <2>8. Leaves(Tally(evs)[Len(evs)].nodes) = Yield(evs)
    BY <1>3, LeavesAreYield
  <2> QED
    BY <2>5, <2>6, <2>7, <2>8
<1> QED
  BY <1>7, <1>8

\* In whatever order a caller opens the layers, and under whatever name resolve() gets
\* the same bytes: once none is left to open the caller has the leaves of resolve()'s
\* answer, in document order, and where resolve() answers with leaves no recognised
\* layer is refused (vfs.rs:11-15) but a packed tar whose stream Archive::open, by its
\* name, neither reads to the end nor holds to the cap (archive.rs:216-232, vfs.rs:73).
\* It takes that no 7z archive has two members of one name and that member names add
\* nothing to the content.
THEOREM EvidenceIsTheSame ==
  ASSUME NamesDiffer, NamesAreNeutral
  PROVE  Spec => []SameEvidence
<1>1. Init => TypeInv /\ Evidence
  BY InitType, InitEvidence
<1>2. TypeInv /\ Evidence /\ [Next]_vars => TypeInv' /\ Evidence'
  BY StepType, StepEvidence
<1>3. TypeInv /\ Evidence => SameEvidence
  BY EvidenceSuffices
<1> QED
  BY <1>1, <1>2, <1>3, PTL DEF Spec
=============================================================================
