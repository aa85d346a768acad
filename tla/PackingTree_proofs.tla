------------------------ MODULE PackingTree_proofs ------------------------
(***************************************************************************)
(* Lemmas about PackingTree: that its recursive functions are what their   *)
(* equations say, and how an answer is decided as the events are taken one *)
(* by one.                                                                 *)
(***************************************************************************)
EXTENDS PackingTree, TLAPS, SequenceTheorems, WellFoundedInduction

-----------------------------------------------------------------------------
(* Recursion over numbers *)

\* Numbers up to some bound, or all of them.
Initial(D) == D \subseteq Nat /\ \A n \in D : 0 .. n \subseteq D

\* Induction, for a set of numbers.
LEMMA Induct ==
  ASSUME NEW D, NEW T, Initial(D),
         0 \in D => 0 \in T,
         \A n \in D : n # 0 /\ n - 1 \in T => n \in T
  PROVE  D \subseteq T
<1> SUFFICES ASSUME D \ T # {} PROVE FALSE
  OBVIOUS
<1>1. D \ T \subseteq Nat
  BY DEF Initial
<1>2. PICK n \in D \ T : \A m \in D \ T : ~(<<m, n>> \in OpToRel(<, Nat))
  BY <1>1, WFMin, NatLessThanWellFounded
<1>3. n \in Nat /\ n # 0
  BY <1>1
<1>4. n - 1 \in D /\ n - 1 \in Nat
  BY <1>3 DEF Initial
<1>5. \A m \in D \ T : ~(m < n)
  <2> SUFFICES ASSUME NEW m \in D \ T, m < n PROVE <<m, n>> \in OpToRel(<, Nat)
    BY <1>2, Zenon
  <2>1. <<m, n>> \in Nat \X Nat
    BY <1>1
  <2> QED
    BY <2>1, Zenon DEF OpToRel
<1> QED
  BY <1>3, <1>4, <1>5

\* g is what the recursion gives up to n.
Upto(base, step, n, g) ==
  DOMAIN g = 0 .. n /\ g[0] = base /\ \A k \in 1 .. n : g[k] = step[k][g[k - 1]]

\* f goes by step from each value to the next.
Follows(D, base, step, f) ==
  \A n \in D : f[n] = IF n = 0 THEN base ELSE step[n][f[n - 1]]

\* A step from each value to the next defines a function.
LEMMA Recursion ==
  ASSUME NEW D, NEW S, NEW base \in S, NEW step \in [D \ {0} -> [S -> S]], Initial(D)
  PROVE  \E f \in [D -> S] : Follows(D, base, step, f)
<1> DEFINE Up(n, g) == Upto(base, step, n, g)
<1>0. D \subseteq Nat /\ \A n \in D : 0 .. n \subseteq D
  BY DEF Initial
<1>1. \A n \in D : \E g \in [0 .. n -> S] : Up(n, g)
  <2> DEFINE T == {n \in D : \E g \in [0 .. n -> S] : Up(n, g)}
  <2>1. 0 \in D => 0 \in T
    <3> SUFFICES ASSUME 0 \in D PROVE Up(0, [k \in 0 .. 0 |-> base])
      OBVIOUS
    <3> QED
      BY DEF Upto
  <2>2. ASSUME NEW n \in D, n # 0, n - 1 \in T PROVE n \in T
    <3>1. PICK g \in [0 .. n - 1 -> S] : Up(n - 1, g)
      BY <2>2
    <3>2. n \in Nat \ {0} /\ n - 1 \in Nat
      BY <1>0, <2>2
    <3> DEFINE h == [k \in 0 .. n |-> IF k = n THEN step[n][g[n - 1]] ELSE g[k]]
    <3>3. h \in [0 .. n -> S]
      <4>1. g[n - 1] \in S
        BY <3>1, <3>2
      <4>2. step[n][g[n - 1]] \in S
        BY <2>2, <4>1
      <4>3. \A k \in 0 .. n : k # n => g[k] \in S
        BY <3>1, <3>2
      <4> QED
        BY <4>2, <4>3
    <3>4. Up(n, h)
      <4>1. DOMAIN h = 0 .. n /\ h[0] = base
        <5>1. 0 \in 0 .. n /\ 0 # n
          BY <3>2
        <5>2. g[0] = base
          BY <3>1 DEF Upto
        <5> QED
          BY <5>1, <5>2
      <4>2. ASSUME NEW k \in 1 .. n PROVE h[k] = step[k][h[k - 1]]
        <5>1. k - 1 \in 0 .. n /\ k - 1 # n /\ k \in 0 .. n
          BY <3>2
        <5>2. h[k - 1] = g[k - 1]
          BY <5>1
        <5>3. CASE k = n
          BY <5>1, <5>2, <5>3
        <5>4. CASE k # n
          <6>1. k \in 1 .. n - 1 /\ h[k] = g[k]
            BY <3>2, <5>1, <5>4
          <6> QED
            BY <3>1, <5>2, <6>1 DEF Upto
        <5> QED
          BY <5>3, <5>4
      <4> QED
        BY <4>1, <4>2 DEF Upto
    <3> QED
      BY <3>3, <3>4
  <2> HIDE DEF T
  <2>3. D \subseteq T
    BY <2>1, <2>2, Induct
  <2> QED
    BY <2>3 DEF T
<1>2. ASSUME NEW n \in D, NEW m \in 0 .. n, NEW g, NEW h, Up(n, g), Up(m, h)
      PROVE  g[m] = h[m]
  <2> DEFINE T == {k \in 0 .. m : g[k] = h[k]}
  <2>0. n \in Nat /\ m \in Nat /\ Initial(0 .. m)
    BY <1>0 DEF Initial
  <2>1. 0 \in 0 .. m => 0 \in T
    BY <1>2 DEF Upto
  <2>2. ASSUME NEW k \in 0 .. m, k # 0, k - 1 \in T PROVE k \in T
    <3>1. k \in 1 .. m /\ k \in 1 .. n
      BY <2>0, <2>2
    <3> QED
      BY <1>2, <2>2, <3>1 DEF Upto
  <2> HIDE DEF T
  <2>3. 0 .. m \subseteq T
    BY <2>0, <2>1, <2>2, Induct
  <2> QED
    BY <2>0, <2>3 DEF T
<1> DEFINE G(n) == CHOOSE g \in [0 .. n -> S] : Up(n, g)
           f == [n \in D |-> G(n)[n]]
<1>3. ASSUME NEW n \in D PROVE G(n) \in [0 .. n -> S] /\ Up(n, G(n))
  BY <1>1
<1> HIDE DEF G, Up
<1>4. f \in [D -> S]
  BY <1>0, <1>3
<1>5. ASSUME NEW n \in D PROVE f[n] = IF n = 0 THEN base ELSE step[n][f[n - 1]]
  <2>1. CASE n = 0
    BY <1>3, <2>1 DEF Up, Upto
  <2>2. CASE n # 0
    <3>1. n \in Nat /\ n - 1 \in D /\ n - 1 \in 0 .. n /\ n \in 1 .. n
      BY <1>0, <2>2
    <3>2. G(n)[n - 1] = G(n - 1)[n - 1]
      BY <1>2, <1>3, <3>1
    <3>3. G(n)[n] = step[n][G(n)[n - 1]]
      BY <1>3, <3>1 DEF Up, Upto
    <3> QED
      BY <2>2, <3>1, <3>2, <3>3
  <2> QED
    BY <2>1, <2>2
<1> QED
  BY <1>4, <1>5 DEF Follows

-----------------------------------------------------------------------------
(* The readers *)

\* All but the last element of a sequence: what a return leaves on the stack.
LEMMA FrontFacts ==
  ASSUME NEW S, NEW s \in Seq(S), s # <<>>
  PROVE  /\ Front(s) \in Seq(S)
         /\ Len(Front(s)) = Len(s) - 1
         /\ \A i \in 1 .. Len(s) - 1 : Front(s)[i] = s[i]
<1> DEFINE n == Len(s) - 1
<1>1. n \in Nat
  BY EmptySeq, LenProperties
<1>2. \A i \in 1 .. n : s[i] \in S
  BY <1>1, LenProperties, ElementOfSeq
<1> HIDE DEF n
<1>3. /\ SubSeq(s, 1, n) \in Seq(S)
      /\ Len(SubSeq(s, 1, n)) = IF 1 <= n THEN n - 1 + 1 ELSE 0
      /\ \A i \in 1 .. n - 1 + 1 : SubSeq(s, 1, n)[i] = s[1 + i - 1]
  BY <1>1, <1>2, SubSeqProperties
<1>4. (IF 1 <= n THEN n - 1 + 1 ELSE 0) = n /\ n - 1 + 1 = n
  BY <1>1
<1>5. \A i \in 1 .. n : SubSeq(s, 1, n)[i] = s[i]
  BY <1>1, <1>3
<1>6. Front(s) = SubSeq(s, 1, n)
  BY DEF Front, n
<1> QED
  BY <1>3, <1>4, <1>5, <1>6 DEF n

\* A name without a compression extension is a name (resolve.rs:190-199).
LEMMA StripType ==
  ASSUME NEW name \in Name
  PROVE  StripCompressionExt(name) \in Name
<1>1. CASE EndsAny(name, {<<"gz">>, <<"bz2">>, <<"z">>})
  <2>1. name # <<>>
    BY <1>1 DEF EndsAny, Ends, Name
  <2>2. Front(name) \in Name
    BY <2>1, FrontFacts DEF Name
  <2> QED
    BY <1>1, <2>2 DEF StripCompressionExt
<1>2. CASE ~EndsAny(name, {<<"gz">>, <<"bz2">>, <<"z">>})
  BY <1>2 DEF StripCompressionExt
<1> QED
  BY <1>1, <1>2

\* What a decoder yields is a byte string or nothing.
LEMMA StreamedType ==
  ASSUME NEW w \in World, NEW b \in Blob, NEW codec
  PROVE  Streamed(w, codec, b) \in Blob \cup {NoBlob}
BY DEF Streamed, World

\* The member list of an archive is a list of members (archive.rs:216-307).
LEMMA EntriesType ==
  ASSUME NEW w \in World, NEW b \in Blob, NEW fmt
  PROVE  Entries(w, b, fmt) \in Seq(Member)
<1>1. ASSUME NEW c, c \in Blob PROVE w[c].members \in Seq(Member)
  BY <1>1 DEF World
<1>2. ContainerStream(w, b, fmt) \in Blob \cup {NoBlob}
  BY StreamedType DEF ContainerStream
<1> QED
  BY <1>1, <1>2, ContentAssumption DEF Entries, Opens

\* A peel gives an error or a stream that is not larger than MAX_INFLATED
\* (peel.rs:29-78).
LEMMA PeelBytesBounded ==
  ASSUME NEW w \in World, NEW b \in Blob, NEW fmt
  PROVE  /\ PeelBytes(w, b, fmt) \in Blob \cup ReadErrors
         /\ PeelBytes(w, b, fmt) \in Blob => w[PeelBytes(w, b, fmt)].size <= MaxInflated
<1>1. Inflate(w, CodecOf(fmt), b) \in Blob \cup {NoBlob}
  BY DEF Inflate, World
<1>2. ASSUME NEW c \in Blob PROVE w[c].size \in Nat
  BY <1>2 DEF World
<1>3. CASE Inflate(w, CodecOf(fmt), b) = NoBlob
  BY <1>3, ContentAssumption DEF PeelBytes, ReadErrors
<1>4. CASE Inflate(w, CodecOf(fmt), b) # NoBlob
  <2>1. Streamed(w, CodecOf(fmt), b) = Inflate(w, CodecOf(fmt), b)
    BY <1>4 DEF Streamed, Inflate
  <2> QED
    BY <1>1, <1>2, <1>4, <2>1, ContentAssumption DEF PeelBytes, PastCap, ReadErrors
<1> QED
  BY <1>3, <1>4

\* What a peel gives is the whole stream, and what any reader of it gets (peel.rs:29-78,
\* archive.rs:310-322).
LEMMA PeeledIsStreamed ==
  ASSUME NEW w \in World, NEW b \in Blob, NEW fmt, PeelBytes(w, b, fmt) \in Blob
  PROVE  /\ PeelBytes(w, b, fmt) = Inflate(w, CodecOf(fmt), b)
         /\ PeelBytes(w, b, fmt) = Streamed(w, CodecOf(fmt), b)
<1>1. /\ PeelBytes(w, b, fmt) = Inflate(w, CodecOf(fmt), b)
      /\ Inflate(w, CodecOf(fmt), b) # NoBlob
  BY ContentAssumption DEF PeelBytes, ReadErrors
<1>2. Streamed(w, CodecOf(fmt), b) = Inflate(w, CodecOf(fmt), b)
  BY <1>1 DEF Streamed, Inflate
<1> QED
  BY <1>1, <1>2

-----------------------------------------------------------------------------
(* The events *)

TreeNode == [dir : BOOLEAN, name : Name, data : Blob \cup {NoBlob}]

Event ==
  [kind : {"inflate"}, bytes : Nat] \cup [kind : {"member"}]
    \cup [kind : {"node"}, node : TreeNode]
    \cup [kind : {"error"}, error : ReadErrors \cup {"DepthExceeded"}]

\* The events below a layer, by what is in it and its name.
Below == [Blob -> [Name -> Seq(Event)]]

LEMMA EventType ==
  /\ \A n \in Nat : Inflated(n) \in Event
  /\ Seen \in Event
  /\ \A node \in TreeNode : Found(node) \in Event
  /\ \A e \in ReadErrors \cup {"DepthExceeded"} : Bad(e) \in Event
BY DEF Event, Inflated, Seen, Found, Bad

LEMMA OneEvent == \A e \in Event : <<e>> \in Seq(Event) /\ Len(<<e>>) = 1 /\ <<e>>[1] = e
  OBVIOUS

\* What a member gives after it is counted.
InMember(w, fmt, m, below) ==
  LET r == IF fmt = "SevenZip" /\ m.size > MaxInflated THEN "TooLarge" ELSE ReadBody(w, m.data)
  IN IF m.isDir THEN <<Found([dir |-> TRUE, name |-> m.name, data |-> NoBlob])>>
     ELSE IF r \notin Blob THEN <<Bad(r)>>
     ELSE <<Inflated(w[r].size)>> \o below[r][m.name]

\* What a member gives is a list of events.
LEMMA MemberEventsType ==
  ASSUME NEW w \in World, NEW fmt, NEW m \in Member, NEW below \in Below
  PROVE  /\ InMember(w, fmt, m, below) \in Seq(Event)
         /\ MemberEvents(w, fmt, m, below) = <<Seen>> \o InMember(w, fmt, m, below)
         /\ MemberEvents(w, fmt, m, below) \in Seq(Event)
<1> DEFINE r == IF fmt = "SevenZip" /\ m.size > MaxInflated THEN "TooLarge" ELSE ReadBody(w, m.data)
           inside == InMember(w, fmt, m, below)
<1>1. m.name \in Name /\ m.data \in Blob \cup {NoBlob}
  BY DEF Member
<1>2. r \in Blob \cup ReadErrors
  BY <1>1 DEF ReadBody, ReadErrors
<1>3. ASSUME r \in Blob PROVE w[r].size \in Nat /\ below[r][m.name] \in Seq(Event)
  BY <1>1, <1>3 DEF World, Below
<1>4. [dir |-> TRUE, name |-> m.name, data |-> NoBlob] \in TreeNode
  BY <1>1 DEF TreeNode
<1>5. inside = IF m.isDir THEN <<Found([dir |-> TRUE, name |-> m.name, data |-> NoBlob])>>
               ELSE IF r \notin Blob THEN <<Bad(r)>>
               ELSE <<Inflated(w[r].size)>> \o below[r][m.name]
  BY DEF InMember
<1>6. MemberEvents(w, fmt, m, below) = <<Seen>> \o inside
  BY DEF MemberEvents, InMember
<1> HIDE DEF r, inside
<1>7. inside \in Seq(Event)
  <2>1. CASE m.isDir
    BY <1>4, <1>5, <2>1, EventType, OneEvent
  <2>2. CASE ~m.isDir /\ r \notin Blob
    BY <1>2, <1>5, <2>2, EventType, OneEvent
  <2>3. CASE ~m.isDir /\ r \in Blob
    BY <1>3, <1>5, <2>3, EventType, OneEvent, ConcatProperties
  <2> QED
    BY <2>1, <2>2, <2>3
<1> QED
  BY <1>6, <1>7, EventType, OneEvent, ConcatProperties DEF inside

\* last gives the events of the last members, from none of them to all.
FromLast(w, fmt, ms, below, last) ==
  /\ last \in [0 .. Len(ms) -> Seq(Event)]
  /\ last[0] = <<>>
  /\ \A k \in 1 .. Len(ms) :
       last[k] = MemberEvents(w, fmt, ms[Len(ms) + 1 - k], below) \o last[k - 1]

\* LastMembers is what its definition says.
LEMMA LastMembersFacts ==
  ASSUME NEW w \in World, NEW fmt, NEW ms \in Seq(Member), NEW below \in Below
  PROVE  FromLast(w, fmt, ms, below, LastMembers(w, fmt, ms, below))
<1> DEFINE D == 0 .. Len(ms)
           ev(k) == MemberEvents(w, fmt, ms[Len(ms) + 1 - k], below)
           P(f) == f = [k \in D |-> IF k = 0 THEN <<>> ELSE ev(k) \o f[k - 1]]
           step == [k \in D \ {0} |-> [s \in Seq(Event) |-> ev(k) \o s]]
<1>1. Len(ms) \in Nat /\ Initial(D)
  BY LenProperties DEF Initial
<1>2. ASSUME NEW k \in D \ {0} PROVE ev(k) \in Seq(Event)
  <2>1. ms[Len(ms) + 1 - k] \in Member
    <3>1. Len(ms) + 1 - k \in 1 .. Len(ms)
      BY <1>1
    <3> QED
      BY <3>1, ElementOfSeq
  <2> QED
    BY <2>1, MemberEventsType
<1>3. LastMembers(w, fmt, ms, below) = CHOOSE f : P(f)
  BY DEF LastMembers
<1> HIDE DEF ev
<1>4. step \in [D \ {0} -> [Seq(Event) -> Seq(Event)]]
  BY <1>2, ConcatProperties
<1>5. <<>> \in Seq(Event)
  BY EmptySeq
<1>6. PICK f \in [D -> Seq(Event)] :
         \A n \in D : f[n] = IF n = 0 THEN <<>> ELSE step[n][f[n - 1]]
  <2> DEFINE S == Seq(Event)
             base == <<>>
  <2>1. base \in S /\ step \in [D \ {0} -> [S -> S]] /\ Initial(D)
    BY <1>1, <1>4, <1>5
  <2> HIDE DEF step, D, S, base
  <2>2. \E f \in [D -> S] : Follows(D, base, step, f)
    BY <2>1, Recursion
  <2> QED
    BY <2>2 DEF S, base, Follows
<1>7. ASSUME NEW n \in D, n # 0 PROVE n - 1 \in D
  BY <1>1, <1>7
<1>8. P(f)
  <2>1. ASSUME NEW n \in D, n # 0 PROVE step[n][f[n - 1]] = ev(n) \o f[n - 1]
    BY <1>7, <2>1
  <2> HIDE DEF step, D
  <2> QED
    BY <1>6, <2>1
<1>9. P(LastMembers(w, fmt, ms, below))
  <2> HIDE DEF P
  <2> QED
    BY <1>3, <1>8
<1> DEFINE g == LastMembers(w, fmt, ms, below)
<1> HIDE DEF g
<1>10. g = [k \in D |-> IF k = 0 THEN <<>> ELSE ev(k) \o g[k - 1]]
  BY <1>9 DEF g
<1>11. D \subseteq {n \in D : g[n] \in Seq(Event)}
  <2> DEFINE T == {n \in D : g[n] \in Seq(Event)}
  <2>1. 0 \in D => 0 \in T
    BY <1>10, EmptySeq
  <2>2. ASSUME NEW n \in D, n # 0, n - 1 \in T PROVE n \in T
    <3>1. g[n] = ev(n) \o g[n - 1]
      BY <1>10, <2>2
    <3> QED
      BY <1>2, <2>2, <3>1, ConcatProperties
  <2> HIDE DEF T, D
  <2>3. D \subseteq T
    BY <1>1, <2>1, <2>2, Induct
  <2> QED
    BY <2>3 DEF T
<1>12. g \in [D -> Seq(Event)]
  <2> HIDE DEF D
  <2> QED
    BY <1>10, <1>11
<1>13. g[0] = <<>>
  BY <1>1, <1>10
<1>14. ASSUME NEW k \in 1 .. Len(ms) PROVE g[k] = ev(k) \o g[k - 1]
  <2>1. k \in D /\ k # 0
    BY <1>1
  <2> HIDE DEF D
  <2> QED
    BY <1>10, <2>1
<1> QED
  BY <1>12, <1>13, <1>14 DEF g, ev, FromLast

\* What a layer gives is a list of events.
LEMMA LayerEventsType ==
  ASSUME NEW w \in World, NEW b \in Blob, NEW name \in Name, NEW below \in Below
  PROVE  LayerEvents(w, b, name, below) \in Seq(Event)
<1> DEFINE fmt == SniffBlob(w, b, name)
           r == PeelBytes(w, b, fmt)
           ms == Entries(w, b, fmt)
           leaf == [dir |-> FALSE, name |-> IF name = NoName THEN <<EmptyPiece>> ELSE name,
                    data |-> b]
<1> HIDE DEF fmt
<1>1. r \in Blob \cup ReadErrors /\ \A c \in Blob : w[c].size \in Nat
  BY PeelBytesBounded DEF World
<1>2. ms \in Seq(Member)
  BY EntriesType
<1> HIDE DEF r, ms
<1>3. CASE IsCompressionWrapper(fmt)
  <2>1. CASE r \notin Blob
    <3>1. LayerEvents(w, b, name, below) = <<Bad(r)>>
      BY <1>3, <2>1 DEF LayerEvents, fmt, r
    <3> QED
      BY <1>1, <2>1, <3>1, EventType, OneEvent
  <2>2. CASE r \in Blob
    <3>1. LayerEvents(w, b, name, below)
            = <<Inflated(w[r].size)>> \o below[r][StripCompressionExt(name)]
      BY <1>3, <2>2 DEF LayerEvents, fmt, r
    <3>2. <<Inflated(w[r].size)>> \in Seq(Event)
      BY <1>1, <2>2, EventType, OneEvent
    <3>3. below[r][StripCompressionExt(name)] \in Seq(Event)
      BY <2>2, StripType DEF Below
    <3> QED
      BY <3>1, <3>2, <3>3, ConcatProperties
  <2> QED
    BY <2>1, <2>2
<1>4. CASE ~IsCompressionWrapper(fmt) /\ IsArchive(fmt)
  <2>1. CASE Opens(w, b, fmt)
    <3>1. LayerEvents(w, b, name, below) = LastMembers(w, fmt, ms, below)[Len(ms)]
      BY <1>4, <2>1 DEF LayerEvents, fmt, ms
    <3>2. LastMembers(w, fmt, ms, below) \in [0 .. Len(ms) -> Seq(Event)]
      BY <1>2, LastMembersFacts DEF FromLast
    <3>3. Len(ms) \in 0 .. Len(ms)
      <4>1. Len(ms) \in Nat
        BY <1>2, LenProperties
      <4> QED
        BY <4>1
    <3> QED
      BY <3>1, <3>2, <3>3
  <2>2. CASE ~Opens(w, b, fmt)
    <3>1. LayerEvents(w, b, name, below) = <<Bad("Open")>>
      BY <1>4, <2>2 DEF LayerEvents, fmt
    <3> QED
      BY <3>1, EventType, OneEvent DEF ReadErrors
  <2> QED
    BY <2>1, <2>2
<1>5. CASE ~IsCompressionWrapper(fmt) /\ ~IsArchive(fmt)
  <2>1. LayerEvents(w, b, name, below) = <<Found(leaf)>>
    BY <1>5 DEF LayerEvents, fmt
  <2>2. <<EmptyPiece>> \in Name
    BY ContentAssumption DEF Name
  <2>3. leaf \in TreeNode
    BY <2>2 DEF TreeNode
  <2> QED
    BY <2>1, <2>3, EventType, OneEvent
<1> QED
  BY <1>3, <1>4, <1>5

\* The events of a tree, level by level.
LEMMA EventsFacts ==
  ASSUME NEW w \in World
  PROVE  /\ Events(w) \in [Nat -> Below]
         /\ \A b \in Blob, name \in Name : Events(w)[0][b][name] = <<Bad("DepthExceeded")>>
         /\ \A n \in Nat, b \in Blob, name \in Name :
              Events(w)[n + 1][b][name] = LayerEvents(w, b, name, Events(w)[n])
<1> DEFINE layer(below) == [b \in Blob |-> [name \in Name |-> LayerEvents(w, b, name, below)]]
           deep == [b \in Blob |-> [name \in Name |-> <<Bad("DepthExceeded")>>]]
           P(f) == f = [n \in Nat |->
                          [b \in Blob |-> [name \in Name |->
                             IF n = 0 THEN <<Bad("DepthExceeded")>>
                             ELSE LayerEvents(w, b, name, f[n - 1])]]]
           step == [n \in Nat \ {0} |-> [below \in Below |-> layer(below)]]
<1>1. Initial(Nat)
  BY DEF Initial
<1>2. ASSUME NEW below \in Below PROVE layer(below) \in Below
  BY LayerEventsType DEF Below
<1>3. deep \in Below
  BY EventType, OneEvent DEF Below
<1>4. Events(w) = CHOOSE f : P(f)
  BY DEF Events
<1>5. step \in [Nat \ {0} -> [Below -> Below]]
  BY <1>2
<1>6. PICK f \in [Nat -> Below] : Follows(Nat, deep, step, f)
  <2> HIDE DEF step, deep
  <2> QED
    BY <1>1, <1>3, <1>5, Recursion
<1>7. P(f)
  <2>1. ASSUME NEW n \in Nat
        PROVE  f[n] = [b \in Blob |-> [name \in Name |->
                         IF n = 0 THEN <<Bad("DepthExceeded")>>
                         ELSE LayerEvents(w, b, name, f[n - 1])]]
    <3>1. CASE n = 0
      BY <1>6, <3>1 DEF Follows
    <3>2. CASE n # 0
      <4>1. n - 1 \in Nat /\ f[n - 1] \in Below
        BY <3>2
      <4>2. f[n] = step[n][f[n - 1]]
        BY <1>6, <3>2 DEF Follows
      <4>3. f[n] = layer(f[n - 1])
        BY <3>2, <4>1, <4>2
      <4> QED
        BY <3>2, <4>3
    <3> QED
      BY <3>1, <3>2
  <2> QED
    BY <2>1
<1>8. P(Events(w))
  <2> HIDE DEF P
  <2> QED
    BY <1>4, <1>7
<1> DEFINE g == Events(w)
<1>9. g = [n \in Nat |-> [b \in Blob |-> [name \in Name |->
                             IF n = 0 THEN <<Bad("DepthExceeded")>>
                             ELSE LayerEvents(w, b, name, g[n - 1])]]]
  BY <1>8
<1> HIDE DEF g
<1>10. g[0] = deep /\ \A n \in Nat : n # 0 => g[n] = layer(g[n - 1])
  BY <1>9
<1>11. Nat \subseteq {n \in Nat : g[n] \in Below}
  <2> DEFINE T == {n \in Nat : g[n] \in Below}
  <2>1. 0 \in T
    BY <1>3, <1>10
  <2>2. ASSUME NEW n \in Nat, n # 0, n - 1 \in T PROVE n \in T
    BY <1>2, <1>10, <2>2
  <2> HIDE DEF T
  <2>3. Nat \subseteq T
    BY <1>1, <2>1, <2>2, Induct
  <2> QED
    BY <2>3 DEF T
<1>12. g \in [Nat -> Below]
  BY <1>9, <1>11
<1>13. \A n \in Nat : g[n + 1] = layer(g[n])
  <2> SUFFICES ASSUME NEW n \in Nat PROVE g[n + 1] = layer(g[n])
    OBVIOUS
  <2>1. n + 1 \in Nat /\ n + 1 # 0 /\ (n + 1) - 1 = n
    OBVIOUS
  <2> QED
    BY <1>10, <2>1
<1> QED
  BY <1>10, <1>12, <1>13 DEF g

-----------------------------------------------------------------------------
(* The sums and the answer *)

Sums == [bytes : Nat, members : Nat, nodes : Seq(TreeNode)]

Nothing == [bytes |-> 0, members |-> 0, nodes |-> <<>>]

LEMMA CountedType ==
  /\ Nothing \in Sums
  /\ \A t \in Sums, e \in Event : Counted(t, e) \in Sums
<1>1. Nothing \in Sums
  BY EmptySeq DEF Nothing, Sums
<1>2. ASSUME NEW t \in Sums, NEW e \in Event PROVE Counted(t, e) \in Sums
  <2>1. t.bytes \in Nat /\ t.members \in Nat /\ t.nodes \in Seq(TreeNode)
    BY DEF Sums
  <2>2. (IF e.kind = "inflate" THEN t.bytes + e.bytes ELSE t.bytes) \in Nat
    BY <2>1 DEF Event
  <2>3. (IF e.kind = "member" THEN t.members + 1 ELSE t.members) \in Nat
    BY <2>1
  <2>4. (IF e.kind = "node" THEN Append(t.nodes, e.node) ELSE t.nodes) \in Seq(TreeNode)
    <3>1. e.kind = "node" => e.node \in TreeNode
      BY DEF Event
    <3> QED
      BY <2>1, <3>1, AppendProperties
  <2> QED
    BY <2>2, <2>3, <2>4 DEF Counted, Sums
<1> QED
  BY <1>1, <1>2

\* The sums go on from event to event.
LEMMA TallyFacts ==
  ASSUME NEW evs \in Seq(Event)
  PROVE  /\ Tally(evs) \in [0 .. Len(evs) -> Sums]
         /\ Tally(evs)[0] = Nothing
         /\ \A k \in 1 .. Len(evs) : Tally(evs)[k] = Counted(Tally(evs)[k - 1], evs[k])
<1> DEFINE D == 0 .. Len(evs)
           P(f) == f = [k \in D |-> IF k = 0 THEN [bytes |-> 0, members |-> 0, nodes |-> <<>>]
                                    ELSE Counted(f[k - 1], evs[k])]
           step == [k \in D \ {0} |-> [t \in Sums |-> Counted(t, evs[k])]]
<1>1. Len(evs) \in Nat /\ Initial(D)
  BY LenProperties DEF Initial
<1>2. ASSUME NEW k \in D \ {0} PROVE evs[k] \in Event
  <2>1. k \in 1 .. Len(evs)
    BY <1>1
  <2> QED
    BY <2>1, ElementOfSeq
<1>3. Tally(evs) = CHOOSE f : P(f)
  BY DEF Tally
<1>4. step \in [D \ {0} -> [Sums -> Sums]]
  BY <1>2, CountedType
<1>5. PICK f \in [D -> Sums] : Follows(D, Nothing, step, f)
  <2> HIDE DEF step, D
  <2> QED
    BY <1>1, <1>4, CountedType, Recursion
<1>6. ASSUME NEW n \in D, n # 0 PROVE n - 1 \in D
  BY <1>1, <1>6
<1>7. P(f)
  <2>1. ASSUME NEW n \in D, n # 0 PROVE f[n] = Counted(f[n - 1], evs[n])
    <3>1. f[n] = step[n][f[n - 1]] /\ f[n - 1] \in Sums
      BY <1>5, <1>6, <2>1 DEF Follows
    <3> QED
      BY <2>1, <3>1
  <2>2. 0 \in D => f[0] = [bytes |-> 0, members |-> 0, nodes |-> <<>>]
    BY <1>5 DEF Follows, Nothing
  <2> HIDE DEF step, D
  <2> QED
    BY <2>1, <2>2
<1>8. P(Tally(evs))
  <2> HIDE DEF P
  <2> QED
    BY <1>3, <1>7
<1> DEFINE g == Tally(evs)
<1>9. g = [k \in D |-> IF k = 0 THEN Nothing ELSE Counted(g[k - 1], evs[k])]
  BY <1>8 DEF Nothing
<1> HIDE DEF g
<1>10. D \subseteq {n \in D : g[n] \in Sums}
  <2> DEFINE T == {n \in D : g[n] \in Sums}
  <2>1. 0 \in D => 0 \in T
    BY <1>9, CountedType
  <2>2. ASSUME NEW n \in D, n # 0, n - 1 \in T PROVE n \in T
    BY <1>2, <1>9, <2>2, CountedType
  <2> HIDE DEF T, D
  <2>3. D \subseteq T
    BY <1>1, <2>1, <2>2, Induct
  <2> QED
    BY <2>3 DEF T
<1>11. g \in [D -> Sums]
  <2> HIDE DEF D
  <2> QED
    BY <1>9, <1>10
<1>12. g[0] = Nothing
  BY <1>1, <1>9
<1>13. ASSUME NEW k \in 1 .. Len(evs) PROVE g[k] = Counted(g[k - 1], evs[k])
  <2>1. k \in D /\ k # 0
    BY <1>1
  <2> HIDE DEF D
  <2> QED
    BY <1>9, <2>1
<1> QED
  BY <1>11, <1>12, <1>13 DEF g

Sat(n) == IF n > MaxU64 THEN MaxU64 ELSE n

\* Of the events, those of done are taken and broke nothing, and those of rest are
\* still to come; the counters and the nodes are what done adds up to.
Taken(evs, lim, done, rest, total, entries, nodes) ==
  /\ done \in Seq(Event) /\ rest \in Seq(Event) /\ evs = done \o rest
  /\ \A k \in 1 .. Len(done) : ~Breaks(evs, lim, k)
  /\ LET t == Tally(evs)[Len(done)] IN
     /\ total = Sat(t.bytes) /\ entries = Sat(t.members) /\ nodes = t.nodes
     /\ ~Exceeds(t.bytes, lim.max_total_inflated) /\ ~Exceeds(t.members, lim.max_entries)

\* After done comes e, then more.
IsNext(evs, done, e, more) ==
  /\ evs \in Seq(Event) /\ Len(done) \in Nat /\ Len(done) + 1 \in 1 .. Len(evs)
  /\ evs[Len(done) + 1] = e
  /\ Tally(evs)[Len(done)] \in Sums
  /\ Tally(evs)[Len(done) + 1] = Counted(Tally(evs)[Len(done)], e)
  /\ done \o <<e>> \in Seq(Event) /\ Len(done \o <<e>>) = Len(done) + 1
  /\ evs = (done \o <<e>>) \o more

\* What is known of the next event.
LEMMA NextEvent ==
  ASSUME NEW done \in Seq(Event), NEW e \in Event, NEW more \in Seq(Event),
         NEW evs, evs = done \o (<<e>> \o more)
  PROVE  IsNext(evs, done, e, more)
<1>1. <<e>> \in Seq(Event) /\ Len(<<e>>) = 1 /\ <<e>>[1] = e
  BY OneEvent
<1>2. done \o <<e>> \in Seq(Event) /\ Len(done \o <<e>>) = Len(done) + 1
  BY <1>1, ConcatProperties
<1>3. evs = (done \o <<e>>) \o more
  BY <1>1, ConcatAssociative
<1>4. (done \o <<e>>)[Len(done) + 1] = e
  <2>1. Len(done) \in Nat
    BY LenProperties
  <2>2. \A i \in 1 .. Len(done) + Len(<<e>>) :
           (done \o <<e>>)[i] = IF i <= Len(done) THEN done[i] ELSE <<e>>[i - Len(done)]
    BY <1>1, ConcatProperties
  <2>3. /\ Len(done) + 1 \in 1 .. Len(done) + Len(<<e>>)
        /\ ~(Len(done) + 1 <= Len(done)) /\ (Len(done) + 1) - Len(done) = 1
    BY <1>1, <2>1
  <2> QED
    BY <1>1, <2>2, <2>3
<1>5. /\ evs \in Seq(Event) /\ Len(evs) = (Len(done) + 1) + Len(more)
      /\ \A i \in 1 .. Len(evs) :
           evs[i] = IF i <= Len(done) + 1 THEN (done \o <<e>>)[i] ELSE more[i - (Len(done) + 1)]
  BY <1>2, <1>3, ConcatProperties
<1>6. Len(done) \in Nat /\ Len(more) \in Nat
  BY LenProperties
<1>7. Len(done) + 1 \in 1 .. Len(evs) /\ Len(done) \in 0 .. Len(evs)
  BY <1>5, <1>6
<1>8. evs[Len(done) + 1] = e
  BY <1>4, <1>5, <1>6, <1>7
<1>9. Tally(evs)[Len(done)] \in Sums
  BY <1>5, <1>7, TallyFacts
<1>10. Tally(evs)[Len(done) + 1] = Counted(Tally(evs)[Len(done)], e)
  <2>1. (Len(done) + 1) - 1 = Len(done)
    BY <1>6
  <2> QED
    BY <1>5, <1>7, <1>8, <2>1, TallyFacts
<1> QED
  BY <1>2, <1>3, <1>5, <1>6, <1>7, <1>8, <1>9, <1>10 DEF IsNext

\* An event that is no error and breaks no limit is taken.
LEMMA GoesOn ==
  ASSUME NEW evs, NEW lim, NEW done, NEW e \in Event, NEW more \in Seq(Event),
         NEW total, NEW entries, NEW nodes,
         Taken(evs, lim, done, <<e>> \o more, total, entries, nodes),
         e.kind # "error",
         NEW t, t = Counted(Tally(evs)[Len(done)], e),
         ~Exceeds(t.bytes, lim.max_total_inflated), ~Exceeds(t.members, lim.max_entries)
  PROVE  Taken(evs, lim, done \o <<e>>, more, Sat(t.bytes), Sat(t.members), t.nodes)
<1>1. done \in Seq(Event) /\ evs = done \o (<<e>> \o more)
  BY DEF Taken
<1>2. IsNext(evs, done, e, more)
  BY <1>1, NextEvent
<1>3. ~Breaks(evs, lim, Len(done) + 1)
  BY <1>2 DEF Breaks, IsNext
<1>4. \A k \in 1 .. Len(done) : ~Breaks(evs, lim, k)
  BY DEF Taken
<1>5. ASSUME NEW k \in 1 .. Len(done \o <<e>>) PROVE ~Breaks(evs, lim, k)
  <2>1. k \in 1 .. Len(done) \/ k = Len(done) + 1
    BY <1>2 DEF IsNext
  <2> QED
    BY <1>3, <1>4, <2>1
<1> QED
  BY <1>2, <1>5 DEF Taken, IsNext

\* The first event that is an error or breaks a limit decides.
LEMMA Stops ==
  ASSUME NEW evs, NEW lim, NEW done, NEW e \in Event, NEW more \in Seq(Event),
         NEW total, NEW entries, NEW nodes,
         Taken(evs, lim, done, <<e>> \o more, total, entries, nodes),
         NEW t, t = Counted(Tally(evs)[Len(done)], e),
         \/ e.kind = "error"
         \/ Exceeds(t.bytes, lim.max_total_inflated)
         \/ Exceeds(t.members, lim.max_entries)
  PROVE  Decide(evs, lim) = [error |-> CASE e.kind = "error" -> e.error
                                         [] e.kind = "member" -> "TooManyEntries"
                                         [] OTHER -> "TotalInflatedExceeded"]
<1> DEFINE n == Len(done) + 1
           broken == {k \in DOMAIN evs : Breaks(evs, lim, k)}
           first == CHOOSE k \in broken : \A j \in broken : k <= j
<1>1. done \in Seq(Event) /\ evs = done \o (<<e>> \o more)
  BY DEF Taken
<1>a. IsNext(evs, done, e, more)
  BY <1>1, NextEvent
<1>2. /\ evs \in Seq(Event) /\ evs[n] = e /\ Tally(evs)[n] = t /\ Len(done) \in Nat
      /\ n \in 1 .. Len(evs)
  BY <1>a DEF IsNext
<1>3. DOMAIN evs = 1 .. Len(evs) /\ Len(evs) \in Nat
  BY <1>2, LenProperties
<1>4. n \in broken
  <2>1. Breaks(evs, lim, n)
    BY <1>2 DEF Breaks
  <2> QED
    BY <1>2, <1>3, <2>1
<1>5. ASSUME NEW j \in broken PROVE n <= j
  <2>1. j \in 1 .. Len(evs) /\ Breaks(evs, lim, j)
    BY <1>3
  <2>2. j \notin 1 .. Len(done)
    BY <2>1 DEF Taken
  <2> QED
    BY <1>2, <1>3, <2>1, <2>2
<1>6. ASSUME NEW k \in broken, \A j \in broken : k <= j PROVE k = n
  <2>1. k <= n /\ n <= k
    BY <1>4, <1>5, <1>6
  <2>2. k \in Nat /\ n \in Nat
    BY <1>2, <1>3
  <2> HIDE DEF n, broken
  <2> QED
    BY <2>1, <2>2
<1>7. first = n
  <2> HIDE DEF n, broken
  <2> QED
    BY <1>4, <1>5, <1>6
<1>8. Decide(evs, lim) = [error |-> ErrorAt(evs, first)]
  <2>1. broken # {}
    BY <1>4
  <2> QED
    BY <2>1 DEF Decide
<1> HIDE DEF n, first
<1> QED
  BY <1>2, <1>7, <1>8 DEF ErrorAt

\* A counter that saturates and one that does not, against a limit.
LEMMA SaturatedCount ==
  ASSUME NEW a \in Nat, NEW n \in Nat, NEW max \in Nat
  PROVE  /\ SatAdd(Sat(a), n) = Sat(a + n)
         /\ Sat(a) > max <=> Exceeds(a, max)
BY BudgetAssumption DEF Sat, SatAdd, Exceeds

\* What is taken is typed.
LEMMA TakenType ==
  ASSUME NEW evs, NEW lim, NEW done, NEW rest, NEW total, NEW entries, NEW nodes,
         Taken(evs, lim, done, rest, total, entries, nodes)
  PROVE  evs \in Seq(Event) /\ Len(done) \in 0 .. Len(evs) /\ Tally(evs)[Len(done)] \in Sums
<1>1. done \in Seq(Event) /\ rest \in Seq(Event) /\ evs = done \o rest
  BY DEF Taken
<1>2. evs \in Seq(Event) /\ Len(evs) = Len(done) + Len(rest)
  BY <1>1, ConcatProperties
<1>3. Len(done) \in Nat /\ Len(rest) \in Nat
  BY <1>1, LenProperties
<1>4. Len(done) \in 0 .. Len(evs)
  BY <1>2, <1>3
<1> QED
  BY <1>2, <1>4, TallyFacts

\* The bytes of a stream are charged, or are too many.
LEMMA TakeInflated ==
  ASSUME NEW evs, NEW lim \in Limits, NEW done, NEW n \in Nat, NEW more \in Seq(Event),
         NEW total, NEW entries, NEW nodes,
         Taken(evs, lim, done, <<Inflated(n)>> \o more, total, entries, nodes)
  PROVE  /\ SatAdd(total, n) > lim.max_total_inflated =>
              Decide(evs, lim) = [error |-> "TotalInflatedExceeded"]
         /\ ~(SatAdd(total, n) > lim.max_total_inflated) =>
              Taken(evs, lim, done \o <<Inflated(n)>>, more, SatAdd(total, n), entries, nodes)
<1> DEFINE e == Inflated(n)
           s == Tally(evs)[Len(done)]
           t == Counted(s, e)
<1>1. e \in Event /\ e.kind = "inflate" /\ e.bytes = n
  BY EventType DEF Inflated
<1>2. s \in Sums /\ s.bytes \in Nat /\ s.members \in Nat
  BY TakenType DEF Sums
<1>3. /\ total = Sat(s.bytes) /\ entries = Sat(s.members) /\ nodes = s.nodes
      /\ ~Exceeds(s.members, lim.max_entries)
  BY DEF Taken
<1>4. lim.max_total_inflated \in Nat
  BY DEF Limits
<1> HIDE DEF e, s
<1>5. t.bytes = s.bytes + n /\ t.members = s.members /\ t.nodes = s.nodes
  BY <1>1 DEF Counted
<1>6. /\ SatAdd(total, n) = Sat(t.bytes)
      /\ SatAdd(total, n) > lim.max_total_inflated <=> Exceeds(t.bytes, lim.max_total_inflated)
  <2>1. s.bytes + n \in Nat
    BY <1>2
  <2>2. SatAdd(total, n) = Sat(s.bytes + n)
    BY <1>2, <1>3, <1>4, SaturatedCount
  <2>3. Sat(s.bytes + n) > lim.max_total_inflated
          <=> Exceeds(s.bytes + n, lim.max_total_inflated)
    BY <1>4, <2>1, SaturatedCount
  <2> QED
    BY <1>5, <2>2, <2>3
<1> HIDE DEF t
<1>7. Taken(evs, lim, done, <<e>> \o more, total, entries, nodes) /\ t = Counted(Tally(evs)[Len(done)], e)
  BY DEF e, s, t
<1>8. ASSUME SatAdd(total, n) > lim.max_total_inflated
      PROVE  Decide(evs, lim) = [error |-> "TotalInflatedExceeded"]
  <2>1. Decide(evs, lim) = [error |-> CASE e.kind = "error" -> e.error
                                        [] e.kind = "member" -> "TooManyEntries"
                                        [] OTHER -> "TotalInflatedExceeded"]
    BY <1>1, <1>6, <1>7, <1>8, Stops
  <2> QED
    BY <1>1, <2>1
<1>9. ASSUME ~(SatAdd(total, n) > lim.max_total_inflated)
      PROVE  Taken(evs, lim, done \o <<e>>, more, SatAdd(total, n), entries, nodes)
  <2>1. Taken(evs, lim, done \o <<e>>, more, Sat(t.bytes), Sat(t.members), t.nodes)
    BY <1>1, <1>3, <1>5, <1>6, <1>7, <1>9, GoesOn
  <2> QED
    BY <1>3, <1>5, <1>6, <2>1
<1> QED
  BY <1>8, <1>9 DEF e

\* A member is counted, or is one too many.
LEMMA TakeSeen ==
  ASSUME NEW evs, NEW lim \in Limits, NEW done, NEW more \in Seq(Event),
         NEW total, NEW entries, NEW nodes,
         Taken(evs, lim, done, <<Seen>> \o more, total, entries, nodes)
  PROVE  /\ SatAdd(entries, 1) > lim.max_entries =>
              Decide(evs, lim) = [error |-> "TooManyEntries"]
         /\ ~(SatAdd(entries, 1) > lim.max_entries) =>
              Taken(evs, lim, done \o <<Seen>>, more, total, SatAdd(entries, 1), nodes)
<1> DEFINE e == Seen
           s == Tally(evs)[Len(done)]
           t == Counted(s, e)
<1>1. e \in Event /\ e.kind = "member"
  BY EventType DEF Seen
<1>2. s \in Sums /\ s.bytes \in Nat /\ s.members \in Nat
  BY TakenType DEF Sums
<1>3. /\ total = Sat(s.bytes) /\ entries = Sat(s.members) /\ nodes = s.nodes
      /\ ~Exceeds(s.bytes, lim.max_total_inflated)
  BY DEF Taken
<1>4. lim.max_entries \in Nat
  BY DEF Limits
<1> HIDE DEF e, s
<1>5. t.bytes = s.bytes /\ t.members = s.members + 1 /\ t.nodes = s.nodes
  BY <1>1 DEF Counted
<1>6. /\ SatAdd(entries, 1) = Sat(t.members)
      /\ SatAdd(entries, 1) > lim.max_entries <=> Exceeds(t.members, lim.max_entries)
  <2>1. s.members + 1 \in Nat
    BY <1>2
  <2>2. 1 \in Nat /\ SatAdd(Sat(s.members), 1) = Sat(s.members + 1)
    BY <1>2, SaturatedCount
  <2>3. Sat(s.members + 1) > lim.max_entries <=> Exceeds(s.members + 1, lim.max_entries)
    BY <1>4, <2>1, SaturatedCount
  <2> QED
    BY <1>3, <1>5, <2>2, <2>3
<1> HIDE DEF t
<1>7. Taken(evs, lim, done, <<e>> \o more, total, entries, nodes) /\ t = Counted(Tally(evs)[Len(done)], e)
  BY DEF e, s, t
<1>8. ASSUME SatAdd(entries, 1) > lim.max_entries
      PROVE  Decide(evs, lim) = [error |-> "TooManyEntries"]
  <2>1. Decide(evs, lim) = [error |-> CASE e.kind = "error" -> e.error
                                        [] e.kind = "member" -> "TooManyEntries"
                                        [] OTHER -> "TotalInflatedExceeded"]
    BY <1>1, <1>6, <1>7, <1>8, Stops
  <2> QED
    BY <1>1, <2>1
<1>9. ASSUME ~(SatAdd(entries, 1) > lim.max_entries)
      PROVE  Taken(evs, lim, done \o <<e>>, more, total, SatAdd(entries, 1), nodes)
  <2>1. Taken(evs, lim, done \o <<e>>, more, Sat(t.bytes), Sat(t.members), t.nodes)
    BY <1>1, <1>3, <1>5, <1>6, <1>7, <1>9, GoesOn
  <2> QED
    BY <1>3, <1>5, <1>6, <2>1
<1> QED
  BY <1>8, <1>9 DEF e

\* A node is added to the answer.
LEMMA TakeFound ==
  ASSUME NEW evs, NEW lim, NEW done, NEW node \in TreeNode, NEW more \in Seq(Event),
         NEW total, NEW entries, NEW nodes,
         Taken(evs, lim, done, <<Found(node)>> \o more, total, entries, nodes)
  PROVE  Taken(evs, lim, done \o <<Found(node)>>, more, total, entries, Append(nodes, node))
<1> DEFINE e == Found(node)
           s == Tally(evs)[Len(done)]
           t == Counted(s, e)
<1>1. e \in Event /\ e.kind = "node" /\ e.node = node
  BY EventType DEF Found
<1>2. /\ total = Sat(s.bytes) /\ entries = Sat(s.members) /\ nodes = s.nodes
      /\ ~Exceeds(s.bytes, lim.max_total_inflated) /\ ~Exceeds(s.members, lim.max_entries)
  BY DEF Taken
<1> HIDE DEF e, s
<1>3. t.bytes = s.bytes /\ t.members = s.members /\ t.nodes = Append(s.nodes, node)
  BY <1>1 DEF Counted
<1> HIDE DEF t
<1>4. Taken(evs, lim, done, <<e>> \o more, total, entries, nodes) /\ t = Counted(Tally(evs)[Len(done)], e)
  BY DEF e, s, t
<1>5. Taken(evs, lim, done \o <<e>>, more, Sat(t.bytes), Sat(t.members), t.nodes)
  BY <1>1, <1>2, <1>3, <1>4, GoesOn
<1> QED
  BY <1>2, <1>3, <1>5 DEF e

\* An error is the answer.
LEMMA TakeBad ==
  ASSUME NEW evs, NEW lim, NEW done, NEW x \in ReadErrors \cup {"DepthExceeded"},
         NEW more \in Seq(Event), NEW total, NEW entries, NEW nodes,
         Taken(evs, lim, done, <<Bad(x)>> \o more, total, entries, nodes)
  PROVE  Decide(evs, lim) = [error |-> x]
<1> DEFINE e == Bad(x)
           t == Counted(Tally(evs)[Len(done)], e)
<1>1. e \in Event /\ e.kind = "error" /\ e.error = x
  BY EventType DEF Bad
<1> HIDE DEF e, t
<1>2. Taken(evs, lim, done, <<e>> \o more, total, entries, nodes) /\ t = Counted(Tally(evs)[Len(done)], e)
  BY DEF e, t
<1>3. Decide(evs, lim) = [error |-> CASE e.kind = "error" -> e.error
                                      [] e.kind = "member" -> "TooManyEntries"
                                      [] OTHER -> "TotalInflatedExceeded"]
  BY <1>1, <1>2, Stops
<1> QED
  BY <1>1, <1>3

\* When all events are taken the nodes are the answer.
LEMMA TakenAll ==
  ASSUME NEW evs, NEW lim, NEW done, NEW total, NEW entries, NEW nodes,
         Taken(evs, lim, done, <<>>, total, entries, nodes)
  PROVE  Decide(evs, lim) = [nodes |-> nodes]
<1>1. done \in Seq(Event) /\ evs = done
  BY ConcatEmptySeq DEF Taken
<1>2. {k \in DOMAIN evs : Breaks(evs, lim, k)} = {}
  BY <1>1, LenProperties DEF Taken
<1>3. nodes = Tally(evs)[Len(evs)].nodes
  BY <1>1 DEF Taken
<1> QED
  BY <1>2, <1>3 DEF Decide

\* At first none is taken.
LEMMA TakenNone ==
  ASSUME NEW evs \in Seq(Event), NEW lim \in Limits
  PROVE  Taken(evs, lim, <<>>, evs, 0, 0, <<>>)
<1>1. <<>> \in Seq(Event) /\ evs = <<>> \o evs /\ Len(<<>>) = 0
  BY EmptySeq, ConcatEmptySeq
<1>2. Tally(evs)[0] = Nothing
  BY TallyFacts
<1>3. Sat(0) = 0
  BY BudgetAssumption DEF Sat
<1>4. ~Exceeds(0, lim.max_total_inflated) /\ ~Exceeds(0, lim.max_entries)
  BY DEF Exceeds, Limits
<1>5. \A k \in 1 .. 0 : ~Breaks(evs, lim, k)
  OBVIOUS
<1> QED
  BY <1>1, <1>2, <1>3, <1>4, <1>5 DEF Taken, Nothing

-----------------------------------------------------------------------------
(* More levels *)

ErrorFree(evs) == \A k \in 1 .. Len(evs) : evs[k].kind # "error"

LEMMA ConcatErrorFree ==
  ASSUME NEW s \in Seq(Event), NEW t \in Seq(Event), ErrorFree(s \o t)
  PROVE  ErrorFree(s) /\ ErrorFree(t)
<1>1. /\ Len(s) \in Nat /\ Len(t) \in Nat /\ Len(s \o t) = Len(s) + Len(t)
      /\ \A i \in 1 .. Len(s) + Len(t) : (s \o t)[i] = IF i <= Len(s) THEN s[i] ELSE t[i - Len(s)]
  BY ConcatProperties, LenProperties
<1>2. ASSUME NEW k \in 1 .. Len(s) PROVE s[k].kind # "error"
  <2>1. k \in 1 .. Len(s \o t) /\ (s \o t)[k] = s[k]
    BY <1>1
  <2> QED
    BY <2>1 DEF ErrorFree
<1>3. ASSUME NEW k \in 1 .. Len(t) PROVE t[k].kind # "error"
  <2>1. /\ k + Len(s) \in 1 .. Len(s \o t) /\ ~(k + Len(s) <= Len(s)) /\ (k + Len(s)) - Len(s) = k
        /\ k + Len(s) \in 1 .. Len(s) + Len(t)
    BY <1>1
  <2>2. (s \o t)[k + Len(s)] = t[k]
    BY <1>1, <2>1
  <2> QED
    BY <2>1, <2>2 DEF ErrorFree
<1> QED
  BY <1>2, <1>3 DEF ErrorFree

\* Where below has no error, after has the same.
Agree(below, after) ==
  \A b \in Blob, name \in Name : ErrorFree(below[b][name]) => after[b][name] = below[b][name]

\* A member without an error has the same events with what agrees below it, in an
\* archive of another format as well if both or neither are 7z.
LEMMA MemberAgrees ==
  ASSUME NEW w \in World, NEW fmt, NEW gmt, fmt = "SevenZip" <=> gmt = "SevenZip",
         NEW m \in Member, NEW below \in Below, NEW after \in Below, Agree(below, after),
         ErrorFree(MemberEvents(w, fmt, m, below))
  PROVE  MemberEvents(w, gmt, m, after) = MemberEvents(w, fmt, m, below)
<1> DEFINE r == IF fmt = "SevenZip" /\ m.size > MaxInflated THEN "TooLarge" ELSE ReadBody(w, m.data)
<1>1. /\ InMember(w, fmt, m, below) \in Seq(Event)
      /\ MemberEvents(w, fmt, m, below) = <<Seen>> \o InMember(w, fmt, m, below)
      /\ MemberEvents(w, gmt, m, after) = <<Seen>> \o InMember(w, gmt, m, after)
  BY MemberEventsType
<1>2. ErrorFree(InMember(w, fmt, m, below))
  BY <1>1, EventType, OneEvent, ConcatErrorFree
<1>3. m.name \in Name
  BY DEF Member
<1>4. r = IF gmt = "SevenZip" /\ m.size > MaxInflated THEN "TooLarge" ELSE ReadBody(w, m.data)
  OBVIOUS
<1>5. /\ InMember(w, fmt, m, below)
            = IF m.isDir THEN <<Found([dir |-> TRUE, name |-> m.name, data |-> NoBlob])>>
              ELSE IF r \notin Blob THEN <<Bad(r)>>
              ELSE <<Inflated(w[r].size)>> \o below[r][m.name]
      /\ InMember(w, gmt, m, after)
            = IF m.isDir THEN <<Found([dir |-> TRUE, name |-> m.name, data |-> NoBlob])>>
              ELSE IF r \notin Blob THEN <<Bad(r)>>
              ELSE <<Inflated(w[r].size)>> \o after[r][m.name]
  BY <1>4 DEF InMember
<1> HIDE DEF r
<1>6. ASSUME ~m.isDir, r \in Blob PROVE after[r][m.name] = below[r][m.name]
  <2> DEFINE one == <<Inflated(w[r].size)>>
             more == below[r][m.name]
  <2>1. w[r].size \in Nat /\ more \in Seq(Event)
    BY <1>3, <1>6 DEF World, Below
  <2>2. one \in Seq(Event) /\ more \in Seq(Event)
    BY <2>1, EventType, OneEvent
  <2>3. ErrorFree(one \o more)
    BY <1>2, <1>5, <1>6
  <2> HIDE DEF one, more
  <2>4. ErrorFree(more)
    BY <2>2, <2>3, ConcatErrorFree
  <2> QED
    BY <1>3, <1>6, <2>4 DEF Agree, more
<1> QED
  BY <1>1, <1>5, <1>6

\* So it is for the members of an archive.
LEMMA LastAgree ==
  ASSUME NEW w \in World, NEW fmt, NEW gmt, fmt = "SevenZip" <=> gmt = "SevenZip",
         NEW ms \in Seq(Member), NEW below \in Below, NEW after \in Below, Agree(below, after),
         ErrorFree(LastMembers(w, fmt, ms, below)[Len(ms)])
  PROVE  LastMembers(w, gmt, ms, after)[Len(ms)] = LastMembers(w, fmt, ms, below)[Len(ms)]
<1> DEFINE D == 0 .. Len(ms)
           l1 == LastMembers(w, fmt, ms, below)
           l2 == LastMembers(w, gmt, ms, after)
           T == {k \in D : ErrorFree(l1[k]) => l2[k] = l1[k]}
<1>1. FromLast(w, fmt, ms, below, l1) /\ FromLast(w, gmt, ms, after, l2)
  BY LastMembersFacts
<1>2. Len(ms) \in Nat /\ Initial(D)
  BY LenProperties DEF Initial
<1> HIDE DEF l1, l2
<1>3. 0 \in D => 0 \in T
  BY <1>1 DEF FromLast
<1>4. ASSUME NEW n \in D, n # 0, n - 1 \in T PROVE n \in T
  <2> SUFFICES ASSUME ErrorFree(l1[n]) PROVE l2[n] = l1[n]
    OBVIOUS
  <2> DEFINE m == ms[Len(ms) + 1 - n]
             ev == MemberEvents(w, fmt, m, below)
  <2>1. n \in 1 .. Len(ms) /\ Len(ms) + 1 - n \in 1 .. Len(ms)
    BY <1>2, <1>4
  <2>2. l1[n] = ev \o l1[n - 1] /\ l2[n] = MemberEvents(w, gmt, m, after) \o l2[n - 1]
    BY <1>1, <2>1 DEF FromLast
  <2>3. l1[n - 1] \in Seq(Event)
    BY <1>1, <1>4 DEF FromLast
  <2>4. m \in Member
    BY <2>1, ElementOfSeq
  <2> HIDE DEF m
  <2>5. ev \in Seq(Event)
    BY <2>4, MemberEventsType
  <2> HIDE DEF ev
  <2>6. ErrorFree(ev) /\ ErrorFree(l1[n - 1])
    BY <2>2, <2>3, <2>5, ConcatErrorFree
  <2>7. l2[n - 1] = l1[n - 1]
    BY <1>4, <2>6
  <2>8. MemberEvents(w, gmt, m, after) = ev
    BY <2>4, <2>6, MemberAgrees DEF ev
  <2> QED
    BY <2>2, <2>7, <2>8
<1> HIDE DEF T, D
<1>5. D \subseteq T
  BY <1>2, <1>3, <1>4, Induct
<1>6. Len(ms) \in T
  BY <1>2, <1>5 DEF D
<1> QED
  BY <1>6 DEF T, l1, l2

\* So it is for a layer.
LEMMA LayerAgrees ==
  ASSUME NEW w \in World, NEW b \in Blob, NEW name \in Name,
         NEW below \in Below, NEW after \in Below, Agree(below, after),
         ErrorFree(LayerEvents(w, b, name, below))
  PROVE  LayerEvents(w, b, name, after) = LayerEvents(w, b, name, below)
<1> DEFINE fmt == SniffBlob(w, b, name)
           r == PeelBytes(w, b, fmt)
           ms == Entries(w, b, fmt)
<1>1. ms \in Seq(Member)
  BY EntriesType
<1>2. CASE IsCompressionWrapper(fmt)
  <2> DEFINE one == <<Inflated(w[r].size)>>
             more == below[r][StripCompressionExt(name)]
  <2>1. CASE r \notin Blob
    BY <1>2, <2>1 DEF LayerEvents
  <2>2. CASE r \in Blob
    <3>1. /\ LayerEvents(w, b, name, below) = one \o more
          /\ LayerEvents(w, b, name, after) = one \o after[r][StripCompressionExt(name)]
      BY <1>2, <2>2 DEF LayerEvents
    <3>2. w[r].size \in Nat /\ StripCompressionExt(name) \in Name
      BY <2>2, StripType DEF World
    <3>3. one \in Seq(Event) /\ more \in Seq(Event)
      BY <2>2, <3>2, EventType, OneEvent DEF Below
    <3> HIDE DEF r, one, more
    <3>4. ErrorFree(more)
      BY <3>1, <3>3, ConcatErrorFree
    <3>5. after[r][StripCompressionExt(name)] = more
      BY <2>2, <3>2, <3>4 DEF Agree, more
    <3> QED
      BY <3>1, <3>5
  <2> QED
    BY <2>1, <2>2
<1>3. CASE ~IsCompressionWrapper(fmt) /\ IsArchive(fmt) /\ Opens(w, b, fmt)
  <2>1. /\ LayerEvents(w, b, name, below) = LastMembers(w, fmt, ms, below)[Len(ms)]
        /\ LayerEvents(w, b, name, after) = LastMembers(w, fmt, ms, after)[Len(ms)]
    BY <1>3 DEF LayerEvents
  <2> HIDE DEF fmt, ms
  <2> QED
    BY <1>1, <2>1, LastAgree
<1>4. CASE ~IsCompressionWrapper(fmt) /\ ~(IsArchive(fmt) /\ Opens(w, b, fmt))
  BY <1>4 DEF LayerEvents
<1> QED
  BY <1>2, <1>3, <1>4

\* Where there is no error, more levels make no difference.
LEMMA LevelsAgree ==
  ASSUME NEW w \in World, NEW n \in Nat
  PROVE  Agree(Events(w)[n], Events(w)[n + 1])
<1> DEFINE T == {k \in Nat : Agree(Events(w)[k], Events(w)[k + 1])}
<1>1. Initial(Nat)
  BY DEF Initial
<1>2. \A k \in Nat : Events(w)[k] \in Below
  BY EventsFacts
<1>3. 0 \in T
  <2> SUFFICES ASSUME NEW b \in Blob, NEW name \in Name PROVE ~ErrorFree(Events(w)[0][b][name])
    BY DEF Agree
  <2>1. Events(w)[0][b][name] = <<Bad("DepthExceeded")>>
    BY EventsFacts
  <2> DEFINE e == Bad("DepthExceeded")
  <2>2. Len(<<e>>) = 1 /\ <<e>>[1] = e /\ e.kind = "error"
    BY EventType, OneEvent DEF Bad
  <2> HIDE DEF e
  <2>3. ~ErrorFree(<<e>>)
    BY <2>2 DEF ErrorFree
  <2> QED
    BY <2>1, <2>3 DEF e
<1>4. ASSUME NEW k \in Nat, k # 0, k - 1 \in T PROVE k \in T
  <2> SUFFICES ASSUME NEW b \in Blob, NEW name \in Name, ErrorFree(Events(w)[k][b][name])
               PROVE  Events(w)[k + 1][b][name] = Events(w)[k][b][name]
    BY DEF Agree
  <2>1. k - 1 \in Nat /\ (k - 1) + 1 = k
    BY <1>4
  <2>2. Agree(Events(w)[k - 1], Events(w)[k])
    BY <1>4, <2>1
  <2>3. /\ Events(w)[k][b][name] = LayerEvents(w, b, name, Events(w)[k - 1])
        /\ Events(w)[k + 1][b][name] = LayerEvents(w, b, name, Events(w)[k])
    <3>1. \A j \in Nat : Events(w)[j + 1][b][name] = LayerEvents(w, b, name, Events(w)[j])
      BY EventsFacts
    <3> QED
      BY <2>1, <3>1
  <2> QED
    BY <1>2, <2>1, <2>2, <2>3, LayerAgrees
<1> HIDE DEF T
<1>5. Nat \subseteq T
  BY <1>1, <1>3, <1>4, Induct
<1> QED
  BY <1>5 DEF T

\* more has the events of evs after one, and n bytes more in every sum.
Shift(evs, n, more) ==
  /\ more \in Seq(Event) /\ Len(more) = Len(evs) + 1
  /\ \A k \in 1 .. Len(evs) : more[k + 1] = evs[k]
  /\ \A k \in 0 .. Len(evs) :
       /\ Tally(more)[k + 1].bytes = Tally(evs)[k].bytes + n
       /\ Tally(more)[k + 1].members = Tally(evs)[k].members
       /\ Tally(more)[k + 1].nodes = Tally(evs)[k].nodes

\* Bytes inflated before all else are in every sum, and change nothing else.
LEMMA TallyShifts ==
  ASSUME NEW evs \in Seq(Event), NEW n \in Nat, NEW more, more = <<Inflated(n)>> \o evs
  PROVE  Shift(evs, n, more)
<1> DEFINE e == Inflated(n)
           D == 0 .. Len(evs)
           Shifted(k) == /\ Tally(more)[k + 1].bytes = Tally(evs)[k].bytes + n
                         /\ Tally(more)[k + 1].members = Tally(evs)[k].members
                         /\ Tally(more)[k + 1].nodes = Tally(evs)[k].nodes
           T == {k \in D : Shifted(k)}
<1>1. e \in Event /\ e.kind = "inflate" /\ e.bytes = n
  BY EventType DEF Inflated
<1> HIDE DEF e
<1>2. <<e>> \in Seq(Event) /\ Len(<<e>>) = 1 /\ <<e>>[1] = e /\ Len(evs) \in Nat
  BY <1>1, OneEvent, LenProperties
<1>3. /\ more \in Seq(Event) /\ Len(more) = 1 + Len(evs)
      /\ \A i \in 1 .. 1 + Len(evs) : more[i] = IF i <= 1 THEN <<e>>[i] ELSE evs[i - 1]
  <2>1. more = <<e>> \o evs
    BY DEF e
  <2> DEFINE one == <<e>>
  <2>2. more = one \o evs /\ one \in Seq(Event) /\ Len(one) = 1
    BY <1>2, <2>1
  <2> HIDE DEF one
  <2>3. /\ more \in Seq(Event) /\ Len(more) = Len(one) + Len(evs)
        /\ \A i \in 1 .. Len(one) + Len(evs) :
             more[i] = IF i <= Len(one) THEN one[i] ELSE evs[i - Len(one)]
    BY <2>2, ConcatProperties
  <2> QED
    BY <2>2, <2>3 DEF one
<1>4. more[1] = e
  BY <1>2, <1>3
<1>5. ASSUME NEW k \in 1 .. Len(evs) PROVE more[k + 1] = evs[k]
  <2>1. k + 1 \in 1 .. 1 + Len(evs) /\ ~(k + 1 <= 1) /\ (k + 1) - 1 = k
    BY <1>2
  <2> QED
    BY <1>3, <2>1
<1>6. Len(more) = Len(evs) + 1 /\ Initial(D)
  BY <1>2, <1>3 DEF Initial
<1>7. /\ Tally(evs)[0] = Nothing
      /\ \A k \in D : Tally(evs)[k] \in Sums
      /\ \A k \in 1 .. Len(evs) : Tally(evs)[k] = Counted(Tally(evs)[k - 1], evs[k])
  BY TallyFacts
<1>8. /\ Tally(more)[0] = Nothing
      /\ \A k \in 1 .. Len(more) : Tally(more)[k] = Counted(Tally(more)[k - 1], more[k])
  BY <1>3, TallyFacts
<1>9. 0 \in T
  <2>1. 1 \in 1 .. Len(more) /\ 1 - 1 = 0 /\ 0 \in D /\ 0 + 1 = 1
    BY <1>2, <1>6
  <2>2. Tally(more)[1] = Counted(Nothing, e)
    BY <1>4, <1>8, <2>1
  <2> QED
    BY <1>1, <1>7, <2>1, <2>2 DEF Counted, Nothing
<1>10. ASSUME NEW k \in D, k # 0, k - 1 \in T PROVE k \in T
  <2>1. /\ k \in 1 .. Len(evs) /\ k + 1 \in 1 .. Len(more) /\ (k + 1) - 1 = k
        /\ (k - 1) + 1 = k /\ k - 1 \in D
    BY <1>2, <1>6, <1>10
  <2>2. Tally(more)[k + 1] = Counted(Tally(more)[k], evs[k])
    BY <1>5, <1>8, <2>1
  <2>3. Tally(evs)[k] = Counted(Tally(evs)[k - 1], evs[k])
    BY <1>7, <2>1
  <2>4. /\ Tally(more)[k].bytes = Tally(evs)[k - 1].bytes + n
        /\ Tally(more)[k].members = Tally(evs)[k - 1].members
        /\ Tally(more)[k].nodes = Tally(evs)[k - 1].nodes
    BY <1>10, <2>1
  <2> DEFINE s == Tally(more)[k]
             t == Tally(evs)[k - 1]
             x == evs[k]
  <2>5. t.bytes \in Nat /\ x \in Event
    BY <1>7, <2>1, ElementOfSeq DEF Sums
  <2>6. x.kind = "inflate" => x.bytes \in Nat
    BY <2>5 DEF Event
  <2>7. s.bytes = t.bytes + n /\ s.members = t.members /\ s.nodes = t.nodes
    BY <2>4
  <2>8. Tally(more)[k + 1] = Counted(s, x) /\ Tally(evs)[k] = Counted(t, x)
    BY <2>2, <2>3
  <2> HIDE DEF s, t, x
  <2>9. /\ Counted(s, x).bytes = Counted(t, x).bytes + n
        /\ Counted(s, x).members = Counted(t, x).members
        /\ Counted(s, x).nodes = Counted(t, x).nodes
    BY <2>5, <2>6, <2>7 DEF Counted
  <2> QED
    BY <2>8, <2>9
<1> HIDE DEF T, D
<1>11. D \subseteq T
  BY <1>6, <1>9, <1>10, Induct
<1> QED
  BY <1>3, <1>5, <1>6, <1>11 DEF T, D, Shift

\* Nodes are the answer when no event breaks anything.
LEMMA NodesAnswer ==
  ASSUME NEW evs \in Seq(Event), NEW lim, NEW nodes, Decide(evs, lim) = [nodes |-> nodes]
  PROVE  /\ \A k \in 1 .. Len(evs) : ~Breaks(evs, lim, k)
         /\ ErrorFree(evs) /\ nodes = Tally(evs)[Len(evs)].nodes
<1> DEFINE broken == {k \in DOMAIN evs : Breaks(evs, lim, k)}
<1>1. broken = {}
  <2> SUFFICES ASSUME broken # {} PROVE FALSE
    OBVIOUS
  <2> DEFINE x == ErrorAt(evs, CHOOSE k \in broken : \A j \in broken : k <= j)
  <2>1. Decide(evs, lim) = [error |-> x]
    BY DEF Decide
  <2> HIDE DEF x
  <2>2. [error |-> x] = [nodes |-> nodes]
    BY <2>1
  <2>3. DOMAIN [error |-> x] = {"error"} /\ DOMAIN [nodes |-> nodes] = {"nodes"}
    OBVIOUS
  <2> QED
    BY <2>2, <2>3
<1>2. DOMAIN evs = 1 .. Len(evs)
  BY LenProperties
<1>3. \A k \in 1 .. Len(evs) : ~Breaks(evs, lim, k)
  BY <1>1, <1>2
<1>4. ErrorFree(evs)
  BY <1>3 DEF ErrorFree, Breaks
<1>5. Decide(evs, lim) = [nodes |-> Tally(evs)[Len(evs)].nodes]
  BY <1>1 DEF Decide
<1> QED
  BY <1>3, <1>4, <1>5

\* Without what was inflated first the nodes are the same.
LEMMA SameNodes ==
  ASSUME NEW evs \in Seq(Event), NEW n \in Nat, NEW lim \in Limits, NEW nodes,
         Decide(<<Inflated(n)>> \o evs, lim) = [nodes |-> nodes]
  PROVE  ErrorFree(evs) /\ Decide(evs, lim) = [nodes |-> nodes]
<1> DEFINE more == <<Inflated(n)>> \o evs
           broken == {k \in DOMAIN evs : Breaks(evs, lim, k)}
<1>0. more = <<Inflated(n)>> \o evs
  OBVIOUS
<1> HIDE DEF more
<1>1. /\ more \in Seq(Event) /\ Len(more) = Len(evs) + 1
      /\ \A k \in 1 .. Len(evs) : more[k + 1] = evs[k]
      /\ \A k \in 0 .. Len(evs) :
           /\ Tally(more)[k + 1].bytes = Tally(evs)[k].bytes + n
           /\ Tally(more)[k + 1].members = Tally(evs)[k].members
           /\ Tally(more)[k + 1].nodes = Tally(evs)[k].nodes
  <2>1. Shift(evs, n, more)
    BY <1>0, TallyShifts
  <2> QED
    BY <2>1 DEF Shift
<1>2. Decide(more, lim) = [nodes |-> nodes]
  BY <1>0
<1>3. /\ \A k \in 1 .. Len(more) : ~Breaks(more, lim, k)
      /\ nodes = Tally(more)[Len(more)].nodes
  BY <1>1, <1>2, NodesAnswer
<1>4. Len(evs) \in Nat /\ DOMAIN evs = 1 .. Len(evs) /\ Len(evs) \in 0 .. Len(evs)
  BY LenProperties
<1>5. ASSUME NEW k \in 1 .. Len(evs) PROVE ~Breaks(evs, lim, k)
  <2>1. k + 1 \in 1 .. Len(more) /\ k \in 0 .. Len(evs)
    BY <1>1, <1>4
  <2>2. /\ ~Breaks(more, lim, k + 1) /\ more[k + 1] = evs[k]
        /\ Tally(more)[k + 1].bytes = Tally(evs)[k].bytes + n
        /\ Tally(more)[k + 1].members = Tally(evs)[k].members
    BY <1>1, <1>3, <2>1
  <2>3. Tally(evs)[k] \in Sums
    BY <2>1, TallyFacts
  <2> DEFINE a == Tally(evs)[k].bytes
  <2>4. a \in Nat /\ lim.max_total_inflated \in Nat
    BY <2>3 DEF Sums, Limits
  <2>5. ~Exceeds(a + n, lim.max_total_inflated)
    BY <2>2 DEF Breaks
  <2> HIDE DEF a
  <2>6. ~Exceeds(a, lim.max_total_inflated)
    BY <2>4, <2>5 DEF Exceeds
  <2> QED
    BY <2>2, <2>6 DEF Breaks, a
<1>6. broken = {}
  BY <1>4, <1>5
<1>7. Decide(evs, lim) = [nodes |-> Tally(evs)[Len(evs)].nodes]
  BY <1>6 DEF Decide
<1>8. Tally(evs)[Len(evs)].nodes = nodes
  BY <1>1, <1>3, <1>4
<1>9. ErrorFree(evs)
  BY <1>5 DEF ErrorFree, Breaks
<1> QED
  BY <1>7, <1>8, <1>9

-----------------------------------------------------------------------------
(* Names *)

\* Extensions of one piece and of two.
LEMMA EndsFacts ==
  ASSUME NEW name \in Name, NEW p, NEW q
  PROVE  /\ Ends(name, <<p>>) <=> Len(name) > 1 /\ name[Len(name)] = p
         /\ Ends(name, <<p, q>>) <=>
              Len(name) > 2 /\ name[Len(name)] = q /\ name[Len(name) - 1] = p
<1>1. name \in Seq(Piece) /\ Len(name) \in Nat
  BY LenProperties DEF Name
<1>2. ASSUME Len(name) > 1 PROVE IsSuffix(<<p>>, name) <=> name[Len(name)] = p
  BY <1>1, <1>2 DEF IsSuffix, IsPrefix, Reverse
<1>3. ASSUME Len(name) > 2
      PROVE  IsSuffix(<<p, q>>, name) <=> name[Len(name)] = q /\ name[Len(name) - 1] = p
  BY <1>1, <1>3 DEF IsSuffix, IsPrefix, Reverse
<1>4. Len(<<p>>) = 1 /\ Len(<<p, q>>) = 2
  OBVIOUS
<1> QED
  BY <1>2, <1>3, <1>4 DEF Ends

\* A name that tells of a packed tar, and ends with the codec's extension.
LEMMA PackedTarName ==
  ASSUME NEW name \in Name, EndsAny(name, {<<"gz">>, <<"bz2">>, <<"z">>}),
         EndsAny(name, TarGzNames) \/ EndsAny(name, TarBz2Names)
  PROVE  Len(name) > 2 /\ name[Len(name) - 1] = "tar"
<1>1. PICK x \in {"gz", "bz2", "z"} : Ends(name, <<x>>)
  BY DEF EndsAny
<1>2. name[Len(name)] \in {"gz", "bz2", "z"}
  BY <1>1, EndsFacts
<1>3. ASSUME NEW p, Ends(name, <<p>>) PROVE p \in {"gz", "bz2", "z"}
  BY <1>2, <1>3, EndsFacts
<1>4. PICK ext \in {<<"tgz">>, <<"tar", "gz">>, <<"tar", "bz2">>, <<"tbz2">>, <<"tbz">>, <<"tb2">>} :
         Ends(name, ext)
  BY DEF EndsAny, TarGzNames, TarBz2Names
<1>5. ext # <<"tgz">> /\ ext # <<"tbz2">> /\ ext # <<"tbz">> /\ ext # <<"tb2">>
  BY <1>3, <1>4
<1>6. CASE ext = <<"tar", "gz">>
  BY <1>4, <1>6, EndsFacts
<1>7. CASE ext = <<"tar", "bz2">>
  BY <1>4, <1>7, EndsFacts
<1> QED
  BY <1>4, <1>5, <1>6, <1>7

\* A tar is known by its magic, and where it has none by its name.
LEMMA TarIsSniffed ==
  ASSUME NEW name \in Name, Len(name) > 1, name[Len(name)] = "tar",
         NEW lead, NEW ustar \in BOOLEAN, lead = "none" \/ (ustar /\ lead \notin {"7z", "zip"})
  PROVE  Sniff(name, lead, ustar) = "Tar"
<1>1. Ends(name, <<"tar">>)
  BY EndsFacts
<1>2. \A p : Ends(name, <<p>>) => p = "tar"
  BY EndsFacts
<1>3. \A p, q : Ends(name, <<p, q>>) => q = "tar"
  BY EndsFacts
<1>4. ~EndsAny(name, TarGzNames) /\ ~EndsAny(name, TarBz2Names)
  BY <1>2, <1>3 DEF EndsAny, TarGzNames, TarBz2Names
<1>5. ~Ends(name, <<"7z">>) /\ ~EndsAny(name, {<<"zip">>, <<"clbx">>})
  BY <1>2 DEF EndsAny
<1>6. SniffName(name) = "Tar"
  BY <1>1, <1>4, <1>5 DEF SniffName
<1> QED
  BY <1>6 DEF Sniff
=============================================================================
