--------------------------- MODULE Resolve_proofs ---------------------------
(***************************************************************************)
(* Theorems about Resolve, for every world, name and limits.               *)
(***************************************************************************)
EXTENDS ResolveAnswers, PackingTree_proofs

-----------------------------------------------------------------------------
\* Reading a member gives an error or bytes that are not more than MAX_INFLATED,
\* whichever member of its name 7z picks
\* (archive.rs:147-165, 329-410).
LEMMA ReadMemberBounded ==
  ASSUME NEW w \in World, NEW b \in Blob, NEW fmt,
         NEW i \in DOMAIN Entries(w, b, fmt),
         NEW r \in ReadMember(w, b, fmt, i)
  PROVE  r \in Blob \cup ReadErrors /\ (r \in Blob => w[r].size <= MaxInflated)
<1> DEFINE ms == Entries(w, b, fmt)
<1>1. ms \in Seq(Member)
  BY EntriesType
<1>2. ASSUME NEW j \in DOMAIN ms
      PROVE  /\ ReadBody(w, ms[j].data) \in Blob \cup ReadErrors
             /\ ReadBody(w, ms[j].data) \in Blob =>
                  w[ReadBody(w, ms[j].data)].size <= MaxInflated
  <2>1. ms[j].data \in Blob \cup {NoBlob}
    <3>1. ms[j] \in Member
      BY <1>1, <1>2, ElementOfSeq, LenProperties
    <3> QED
      BY <3>1 DEF Member
  <2>2. ASSUME NEW c \in Blob PROVE w[c].size \in Nat
    BY <2>2 DEF World
  <2> QED
    BY <2>1, <2>2, ContentAssumption DEF ReadBody, ReadErrors
<1>3. ReadTargets(w, b, fmt, i) \subseteq DOMAIN ms
  BY DEF ReadTargets
<1>4. CASE fmt = "SevenZip" /\ ms[i].size > MaxInflated
  <2>1. r = "TooLarge"
    BY <1>4 DEF ReadMember
  <2> QED
    BY <2>1, ContentAssumption DEF ReadErrors
<1>5. CASE ~(fmt = "SevenZip" /\ ms[i].size > MaxInflated)
  <2>1. PICK j \in ReadTargets(w, b, fmt, i) : r = ReadBody(w, ms[j].data)
    BY <1>5 DEF ReadMember
  <2> QED
    BY <2>1, <1>2, <1>3
<1> QED
  BY <1>4, <1>5

-----------------------------------------------------------------------------
(* Type correctness *)

\* What TypeOK says of the arguments and of the running call.
LEMMA RunningCall ==
  ASSUME TypeOK
  PROVE  /\ in.world \in World /\ in.root \in Blob /\ in.name \in Name
         /\ in.limits \in Limits
         /\ \A b \in Blob : Size(b) \in Nat
         /\ stack # <<>> => /\ Len(stack) \in Nat \ {0}
                            /\ Top \in Frame
                            /\ \A k \in 1 .. Len(stack) : stack[k] \in Frame
<1>1. in \in Inputs
  BY DEF TypeOK
<1>2. /\ in.world \in World /\ in.root \in Blob /\ in.name \in Name
      /\ in.limits \in Limits
  BY <1>1, ResolveAssumption DEF Inputs
<1>3. ASSUME NEW b \in Blob PROVE Size(b) \in Nat
  BY <1>2, <1>3 DEF Size, World
<1>4. ASSUME stack # <<>>
      PROVE  /\ Len(stack) \in Nat \ {0}
             /\ Top \in Frame
             /\ \A k \in 1 .. Len(stack) : stack[k] \in Frame
  <2>1. stack \in Seq(Frame)
    BY DEF TypeOK
  <2>2. Len(stack) \in Nat \ {0}
    BY <1>4, <2>1, EmptySeq, LenProperties
  <2>3. \A k \in 1 .. Len(stack) : stack[k] \in Frame
    BY <2>1, ElementOfSeq
  <2> QED
    BY <2>2, <2>3 DEF Top
<1> QED
  BY <1>2, <1>3, <1>4

\* The limits are numbers.
LEMMA LimitsType ==
  ASSUME TypeOK
  PROVE  /\ in.limits.max_depth \in Nat
         /\ in.limits.max_total_inflated \in Nat
         /\ in.limits.max_entries \in Nat
BY RunningCall DEF Limits

\* Saturating addition.
LEMMA SatAddFacts ==
  ASSUME NEW a \in Nat, NEW n \in Nat
  PROVE  /\ SatAdd(a, n) \in Nat
         /\ SatAdd(a, n) <= a + n
         /\ SatAdd(a, n) < MaxU64 => SatAdd(a, n) = a + n /\ a < MaxU64
BY BudgetAssumption DEF SatAdd

\* Replacing the running call keeps the ones below it.
LEMMA RunningFacts ==
  ASSUME TypeOK, stack # <<>>, NEW f \in Frame
  PROVE  /\ Running(f) \in Seq(Frame)
         /\ Len(Running(f)) = Len(stack)
         /\ Running(f)[Len(stack)] = f
         /\ \A k \in 1 .. Len(stack) - 1 : Running(f)[k] = stack[k]
<1>1. stack \in Seq(Frame) /\ Len(stack) \in Nat \ {0}
  BY RunningCall DEF TypeOK
<1> QED
  BY <1>1, ExceptSeq DEF Running

\* A call made from the loop goes on top of its caller.
LEMMA DescendFacts ==
  ASSUME TypeOK, stack # <<>>, NEW f \in Frame, NEW g \in Frame
  PROVE  /\ Append(Running(f), g) \in Seq(Frame)
         /\ Len(Append(Running(f), g)) = Len(stack) + 1
         /\ Append(Running(f), g)[Len(stack) + 1] = g
         /\ Append(Running(f), g)[Len(stack)] = f
         /\ \A k \in 1 .. Len(stack) - 1 : Append(Running(f), g)[k] = stack[k]
<1>1. Len(stack) \in Nat \ {0}
  BY RunningCall
<1>2. /\ Running(f) \in Seq(Frame)
      /\ Len(Running(f)) = Len(stack)
      /\ Running(f)[Len(stack)] = f
      /\ \A k \in 1 .. Len(stack) - 1 : Running(f)[k] = stack[k]
  BY RunningFacts
<1>3. /\ Append(Running(f), g) \in Seq(Frame)
      /\ Len(Append(Running(f), g)) = Len(Running(f)) + 1
      /\ \A k \in 1 .. Len(Running(f)) : Append(Running(f), g)[k] = Running(f)[k]
      /\ Append(Running(f), g)[Len(Running(f)) + 1] = g
  BY <1>2, AppendProperties
<1> QED
  BY <1>1, <1>2, <1>3

\* Calls are frames.
LEMMA CallType ==
  /\ \A data \in Blob, name \in Name, depth \in Nat : Call(data, name, depth) \in Frame
  /\ \A f \in Frame : Advance(f) \in Frame /\ [f EXCEPT !.next = 1] \in Frame
  /\ \A f \in Frame, b \in Blob : PeeledCall(f, b) \in Frame
<1>1. ASSUME NEW data \in Blob, NEW name \in Name, NEW depth \in Nat
      PROVE  Call(data, name, depth) \in Frame
  BY DEF Call, Frame
<1>2. ASSUME NEW f \in Frame
      PROVE  Advance(f) \in Frame /\ [f EXCEPT !.next = 1] \in Frame
  BY DEF Advance, Frame
<1>3. ASSUME NEW f \in Frame, NEW b \in Blob PROVE PeeledCall(f, b) \in Frame
  <2>1. f.name \in Name /\ f.depth + 1 \in Nat
    BY DEF Frame
  <2> QED
    BY <1>1, <2>1, StripType DEF PeeledCall
<1> QED
  BY <1>1, <1>2, <1>3

\* What the loop of an archive call reads at its current member.
LEMMA MemberFacts ==
  ASSUME TypeOK, AtMember
  PROVE  /\ stack # <<>>
         /\ Members(Top)[Top.next] \in Member
         /\ DirNode(Members(Top)[Top.next]) \in Node
         /\ Members(Top)[Top.next].name \in Name
         /\ \A r \in ReadMember(in.world, Top.data, Fmt(Top), Top.next) :
              r \in Blob \cup ReadErrors /\ (r \in Blob => Size(r) <= MaxInflated)
<1>1. stack # <<>> /\ Top.next \in DOMAIN Members(Top)
  BY DEF AtMember
<1>2. in.world \in World /\ Top.data \in Blob
  BY <1>1, RunningCall DEF Frame
<1>3. Members(Top) \in Seq(Member)
  BY <1>2, EntriesType DEF Members
<1>4. Members(Top)[Top.next] \in Member
  BY <1>1, <1>3, ElementOfSeq, LenProperties
<1>5. DirNode(Members(Top)[Top.next]) \in Node /\ Members(Top)[Top.next].name \in Name
  BY <1>4 DEF DirNode, Node, Member
<1>6. ASSUME NEW r \in ReadMember(in.world, Top.data, Fmt(Top), Top.next)
      PROVE  r \in Blob \cup ReadErrors /\ (r \in Blob => Size(r) <= MaxInflated)
  BY <1>1, <1>2, ReadMemberBounded DEF Members, Size
<1> QED
  BY <1>1, <1>4, <1>5, <1>6

\* A failed resolve() has no call left and no node.
LEMMA FailType ==
  ASSUME NEW e \in Errors, Fail(e)
  PROVE  /\ stack' = <<>> /\ stack' \in Seq(Frame)
         /\ out' \in Seq(Node) /\ emitted' \in Nat
         /\ status' \in {"running", "ok"} \cup Errors /\ status' # "running"
<1>1. "running" \notin Errors
  BY DEF Errors, ReadErrors, GuardErrors
<1> QED
  BY <1>1, EmptySeq DEF Fail

\* Returning leaves the calls below.
LEMMA ReturnType ==
  ASSUME TypeOK, stack # <<>>, Return
  PROVE  /\ stack' \in Seq(Frame)
         /\ status' \in {"running", "ok"}
         /\ stack' = <<>> <=> status' # "running"
<1>1. stack \in Seq(Frame) /\ Len(stack) \in Nat \ {0}
  BY RunningCall DEF TypeOK
<1>2. stack' \in Seq(Frame) /\ Len(stack') = Len(stack) - 1
  BY <1>1, FrontFacts DEF Return
<1>3. stack' = <<>> <=> Len(stack') = 0
  BY <1>2, EmptySeq
<1>4. stack' = <<>> <=> Len(stack) = 1
  BY <1>1, <1>2, <1>3
<1> QED
  BY <1>2, <1>4 DEF Return

\* Every step keeps the types.
LEMMA TypeStep == TypeOK /\ [Next]_vars => TypeOK'
<1> SUFFICES ASSUME TypeOK, [Next]_vars PROVE TypeOK'
  OBVIOUS
<1> USE DEF TypeOK
<1>0. \A b \in Blob : Size(b) \in Nat
  BY RunningCall
<1>1. CASE GuardDepth
  BY <1>1, FailType DEF GuardDepth, Errors, GuardErrors
<1>2. CASE PeelWrapper
  <2> DEFINE r == PeelBytes(in.world, Top.data, Fmt(Top))
  <2>1. stack # <<>> /\ in.world \in World /\ Top \in Frame /\ Top.data \in Blob
    BY <1>2, RunningCall DEF PeelWrapper, Entered, Frame
  <2>2. r \in Blob \cup ReadErrors
    BY <2>1, PeelBytesBounded
  <2>3. CASE r \notin Blob
    <3>1. r \in Errors /\ Fail(r) /\ UNCHANGED <<in, total, entries>>
      BY <1>2, <2>2, <2>3 DEF PeelWrapper, Errors
    <3> QED
      BY <3>1, FailType
  <2>4. CASE r \in Blob /\ OverInflated(Size(r))
    <3>1. /\ Fail("TotalInflatedExceeded") /\ UNCHANGED <<in, entries>>
          /\ total' = SatAdd(total, Size(r))
      BY <1>2, <2>4 DEF PeelWrapper, AddInflated
    <3>2. total' \in Nat
      BY <1>0, <2>4, <3>1, SatAddFacts
    <3> QED
      BY <3>1, <3>2, FailType DEF Errors, GuardErrors
  <2>5. CASE r \in Blob /\ ~OverInflated(Size(r))
    <3>1. /\ stack' = Running(PeeledCall(Top, r))
          /\ UNCHANGED <<in, entries, out, emitted, status>>
          /\ total' = SatAdd(total, Size(r))
      BY <1>2, <2>5 DEF PeelWrapper, AddInflated
    <3>2. total' \in Nat
      BY <1>0, <2>5, <3>1, SatAddFacts
    <3>3. stack' \in Seq(Frame) /\ stack' # <<>>
      BY <2>1, <2>5, <3>1, CallType, RunningFacts, RunningCall, EmptySeq
    <3> QED
      BY <2>1, <3>1, <3>2, <3>3
  <2> QED
    BY <2>3, <2>4, <2>5
<1>3. CASE OpenArchive
  <2>1. stack # <<>> /\ Top \in Frame
    BY <1>3, RunningCall DEF OpenArchive, Entered
  <2>2. CASE Fail("Open")
    BY <1>3, <2>2, FailType DEF OpenArchive, Errors, ReadErrors
  <2>3. CASE /\ stack' = Running([Top EXCEPT !.next = 1])
             /\ UNCHANGED <<out, emitted, status>>
    <3>1. stack' \in Seq(Frame) /\ stack' # <<>>
      BY <2>1, <2>3, CallType, RunningFacts, RunningCall, EmptySeq
    <3> QED
      BY <1>3, <2>1, <2>3, <3>1 DEF OpenArchive
  <2> QED
    BY <1>3, <2>2, <2>3 DEF OpenArchive
<1>4. CASE EntryOverBudget
  <2>1. entries' \in Nat
    BY <1>4, SatAddFacts DEF EntryOverBudget, CountMember
  <2> QED
    BY <1>4, <2>1, FailType DEF EntryOverBudget, Errors, GuardErrors
<1>5. CASE DirMember
  <2>1. entries' \in Nat /\ AtMember
    BY <1>5, SatAddFacts DEF DirMember, CountMember
  <2>2. stack # <<>> /\ Top \in Frame /\ DirNode(Members(Top)[Top.next]) \in Node
    BY <2>1, MemberFacts, RunningCall
  <2>3. out' \in Seq(Node)
    BY <1>5, <2>2, AppendProperties DEF DirMember
  <2>4. stack' \in Seq(Frame) /\ stack' # <<>>
    BY <1>5, <2>2, CallType, RunningFacts, RunningCall, EmptySeq DEF DirMember
  <2> QED
    BY <1>5, <2>1, <2>2, <2>3, <2>4 DEF DirMember
<1>6. CASE FileMember
  <2>1. entries' \in Nat /\ AtMember /\ UNCHANGED in
    BY <1>6, SatAddFacts DEF FileMember, CountMember
  <2>2. /\ stack # <<>> /\ Top \in Frame /\ Top.depth + 1 \in Nat
        /\ Members(Top)[Top.next].name \in Name
    BY <2>1, MemberFacts, RunningCall, SMTT(20) DEF Frame
  <2>3. PICK r \in ReadMember(in.world, Top.data, Fmt(Top), Top.next) :
           IF r \notin Blob
           THEN Fail(r) /\ UNCHANGED total
           ELSE /\ AddInflated(Size(r))
                /\ IF OverInflated(Size(r))
                   THEN Fail("TotalInflatedExceeded")
                   ELSE /\ Descend(r, Members(Top)[Top.next].name)
                        /\ UNCHANGED <<out, emitted, status>>
    BY <1>6 DEF FileMember
  <2>4. r \in Blob \cup ReadErrors
    BY <2>1, MemberFacts
  <2>5. CASE r \notin Blob
    BY <2>1, <2>3, <2>4, <2>5, FailType DEF Errors
  <2>6. CASE r \in Blob
    <3>1. total' \in Nat
      BY <1>0, <2>3, <2>6, SatAddFacts DEF AddInflated
    <3>2. CASE Fail("TotalInflatedExceeded")
      BY <2>1, <3>1, <3>2, FailType DEF Errors, GuardErrors
    <3>3. CASE /\ Descend(r, Members(Top)[Top.next].name)
               /\ UNCHANGED <<out, emitted, status>>
      <4>1. /\ Advance(Top) \in Frame
            /\ Call(r, Members(Top)[Top.next].name, Top.depth + 1) \in Frame
        BY <2>2, <2>6, CallType
      <4>2. stack' \in Seq(Frame) /\ Len(stack') = Len(stack) + 1
        BY <2>2, <3>3, <4>1, DescendFacts DEF Descend
      <4>3. stack' # <<>>
        BY <2>2, <4>2, EmptySeq, RunningCall
      <4> QED
        BY <2>1, <2>2, <3>1, <3>3, <4>2, <4>3
    <3> QED
      BY <2>3, <2>6, <3>2, <3>3
  <2> QED
    BY <2>5, <2>6
<1>7. CASE EndMembers
  BY <1>7, ReturnType DEF EndMembers
<1>8. CASE Leaf
  <2>1. stack # <<>> /\ Top \in Frame /\ Size(Top.data) \in Nat
    BY <1>8, RunningCall DEF Leaf, Entered, Frame
  <2>2. LeafNode(Top) \in Node
    <3>1. <<EmptyPiece>> \in Name
      BY ContentAssumption DEF Name
    <3> QED
      BY <2>1, <3>1 DEF LeafNode, Node, Frame
  <2>3. out' \in Seq(Node) /\ emitted' \in Nat
    BY <1>8, <2>1, <2>2, AppendProperties DEF Leaf
  <2> QED
    BY <1>8, <2>1, <2>3, ReturnType DEF Leaf
<1>9. CASE UNCHANGED vars
  BY <1>9 DEF vars
<1> QED
  BY <1>1, <1>2, <1>3, <1>4, <1>5, <1>6, <1>7, <1>8, <1>9 DEF Next

LEMMA TypeInit == Init => TypeOK
<1> SUFFICES ASSUME Init PROVE TypeOK
  OBVIOUS
<1>1. in \in Inputs /\ in.root \in Blob /\ in.name \in Name
  BY ResolveAssumption DEF Init, Inputs
<1>2. Call(in.root, in.name, 0) \in Frame
  BY <1>1, CallType
<1>3. stack \in Seq(Frame) /\ stack # <<>>
  BY <1>2 DEF Init
<1>4. out \in Seq(Node)
  BY EmptySeq DEF Init
<1> QED
  BY <1>1, <1>3, <1>4 DEF Init, TypeOK

\* Every variable of a call of resolve() keeps its type, and the stack of calls
\* is empty exactly when it has returned.
THEOREM TypeCorrect == Spec => []TypeOK
<1>1. Init => TypeOK
  BY TypeInit
<1>2. TypeOK /\ [Next]_vars => TypeOK'
  BY TypeStep
<1> QED
  BY <1>1, <1>2, PTL DEF Spec

-----------------------------------------------------------------------------
(* The budget *)

\* Only the running call can be one that has not looked at its data, and none
\* that has is too deep.
StackOK(s) ==
  /\ \A k \in 1 .. Len(s) - 1 : s[k].next > 0
  /\ \A k \in 1 .. Len(s) : s[k].next > 0 => ~TooDeep(s[k])

WithinLimits ==
  status \in {"running", "ok"} =>
    total <= in.limits.max_total_inflated /\ entries <= in.limits.max_entries

SafeInv ==
  /\ TypeOK
  /\ StackOK(stack)
  /\ WithinLimits
  /\ EmittedIsCharged
  /\ NodesAreCounted
  /\ OvershootBounded

\* One node is still to come from a call that has not looked at its data.
Coming == IF stack # <<>> /\ Top.next = 0 THEN 1 ELSE 0

\* NodesAreCounted in terms of Coming.
LEMMA NodesCounted ==
  /\ NodesAreCounted => (entries < MaxU64 => Len(out) + Coming <= entries + 1)
  /\ (entries' < MaxU64 => Len(out') + Coming' <= entries' + 1) => NodesAreCounted'
BY DEF NodesAreCounted, Coming

LEMMA ErrorsEnd == \A e \in Errors : e \notin {"running", "ok"}
BY DEF Errors, ReadErrors, GuardErrors

LEMMA NumbersType ==
  ASSUME TypeOK
  PROVE  Pending \in Nat /\ Coming \in Nat /\ Size(in.root) \in Nat /\ Len(out) \in Nat
<1>1. stack # <<>> => Top.data \in Blob
  BY RunningCall DEF Frame
<1>2. Len(out) \in Nat
  BY LenProperties DEF TypeOK
<1> QED
  BY <1>1, <1>2, RunningCall DEF Pending, Coming

\* What is left on the stack by a return has looked at its data.
LEMMA ReturnKeeps ==
  ASSUME SafeInv, stack # <<>>, Return, in' = in
  PROVE  /\ StackOK(stack)'
         /\ Pending' = 0 /\ Coming' = 0
<1>1. stack \in Seq(Frame) /\ Len(stack) \in Nat \ {0}
  BY RunningCall DEF SafeInv, TypeOK
<1>2. /\ stack' \in Seq(Frame) /\ Len(stack') = Len(stack) - 1
      /\ \A k \in 1 .. Len(stack) - 1 : stack'[k] = stack[k]
  BY <1>1, FrontFacts DEF Return
<1>3. \A k \in 1 .. Len(stack') : stack'[k].next > 0 /\ ~TooDeep(stack'[k])
  BY <1>1, <1>2 DEF SafeInv, StackOK
<1>4. StackOK(stack)'
  BY <1>1, <1>2, <1>3 DEF StackOK, TooDeep
<1>5. ASSUME stack' # <<>> PROVE Top'.next # 0
  <2>1. Len(stack') \in 1 .. Len(stack')
    BY <1>2, <1>5, EmptySeq
  <2>2. stack'[Len(stack')] \in Frame
    BY <1>2, <2>1, ElementOfSeq
  <2> QED
    BY <1>3, <2>1, <2>2 DEF Top, Frame
<1> QED
  BY <1>4, <1>5 DEF Pending, Coming

\* The running call may be replaced by one that has looked at its data and is not
\* too deep, or by one that has not looked yet.
LEMMA RunningKeeps ==
  ASSUME SafeInv, stack # <<>>, NEW f \in Frame, f.next > 0 => ~TooDeep(f),
         stack' = Running(f), in' = in
  PROVE  StackOK(stack)' /\ stack' # <<>> /\ Top' = f
<1>1. Len(stack) \in Nat \ {0}
  BY RunningCall DEF SafeInv
<1>2. /\ stack' \in Seq(Frame) /\ Len(stack') = Len(stack)
      /\ stack'[Len(stack)] = f
      /\ \A k \in 1 .. Len(stack) - 1 : stack'[k] = stack[k]
  BY RunningFacts DEF SafeInv
<1>3. \A k \in 1 .. Len(stack') - 1 : stack'[k].next > 0
  BY <1>1, <1>2 DEF SafeInv, StackOK
<1>4. ASSUME NEW k \in 1 .. Len(stack'), stack'[k].next > 0
      PROVE  ~TooDeep(stack'[k])
  <2>1. CASE k = Len(stack)
    BY <1>2, <1>4, <2>1
  <2>2. CASE k # Len(stack)
    BY <1>1, <1>2, <1>4, <2>2 DEF SafeInv, StackOK
  <2> QED
    BY <2>1, <2>2
<1>5. StackOK(stack)'
  BY <1>3, <1>4 DEF StackOK, TooDeep
<1>6. stack' # <<>>
  BY <1>1, <1>2, EmptySeq
<1> QED
  BY <1>2, <1>5, <1>6 DEF Top

\* A call from the loop leaves a caller that has looked at its data.
LEMMA DescendKeeps ==
  ASSUME SafeInv, stack # <<>>, NEW f \in Frame, NEW g \in Frame,
         f.next > 0, ~TooDeep(f), g.next = 0,
         stack' = Append(Running(f), g), in' = in
  PROVE  StackOK(stack)' /\ stack' # <<>> /\ Top' = g
<1>1. Len(stack) \in Nat \ {0}
  BY RunningCall DEF SafeInv
<1>2. /\ stack' \in Seq(Frame) /\ Len(stack') = Len(stack) + 1
      /\ stack'[Len(stack) + 1] = g /\ stack'[Len(stack)] = f
      /\ \A k \in 1 .. Len(stack) - 1 : stack'[k] = stack[k]
  BY DescendFacts DEF SafeInv
<1>3. ASSUME NEW k \in 1 .. Len(stack') - 1
      PROVE  stack'[k].next > 0 /\ ~TooDeep(stack'[k])
  <2>1. CASE k = Len(stack)
    BY <1>2, <2>1
  <2>2. CASE k # Len(stack)
    BY <1>1, <1>2, <2>2 DEF SafeInv, StackOK
  <2> QED
    BY <2>1, <2>2
<1>4. ASSUME NEW k \in 1 .. Len(stack'), stack'[k].next > 0
      PROVE  ~TooDeep(stack'[k])
  BY <1>1, <1>2, <1>3, <1>4
<1>5. StackOK(stack)'
  BY <1>3, <1>4 DEF StackOK, TooDeep
<1>6. stack' # <<>>
  BY <1>1, <1>2, EmptySeq
<1> QED
  BY <1>2, <1>5, <1>6 DEF Top

\* Failing keeps the invariant if the budget has not run away.
LEMMA FailKeeps ==
  ASSUME TypeOK', NEW e \in Errors, Fail(e), in' = in,
         total' <= in.limits.max_total_inflated + MaxInflated
  PROVE  SafeInv'
<1>1. stack' = <<>> /\ out' = <<>> /\ emitted' = 0 /\ status' \notin {"running", "ok"}
  BY ErrorsEnd DEF Fail
<1>2. StackOK(stack)'
  BY <1>1 DEF StackOK
<1>3. WithinLimits'
  BY <1>1 DEF WithinLimits
<1>4. /\ total' \in Nat /\ entries' \in Nat
      /\ Size(in.root)' \in Nat
  <2>1. in.root \in Blob /\ \A b \in Blob : in.world[b].size \in Nat
    BY ResolveAssumption DEF TypeOK, Inputs, World
  <2> QED
    BY <2>1 DEF TypeOK, Size
<1>5. EmittedIsCharged'
  BY <1>1, <1>4, BudgetAssumption DEF EmittedIsCharged, Pending
<1>6. NodesAreCounted'
  <2>1. Len(out') = 0
    BY <1>1, EmptySeq
  <2>2. Coming' = 0
    BY <1>1 DEF Coming
  <2>3. \A n \in Nat : 0 + 0 <= n + 1
    OBVIOUS
  <2>4. Len(out') + Coming' <= entries' + 1
    BY <1>4, <2>1, <2>2, <2>3, Zenon
  <2> QED
    BY <2>4, NodesCounted
<1>7. OvershootBounded'
  BY DEF OvershootBounded
<1> QED
  BY <1>2, <1>3, <1>5, <1>6, <1>7 DEF SafeInv

\* A charge within the limit pays for the call that is made for its bytes.
LEMMA ChargeKeeps ==
  ASSUME SafeInv, stack # <<>>, NEW r \in Blob, Size(r) <= MaxInflated,
         in' = in, AddInflated(Size(r)), ~OverInflated(Size(r)),
         emitted' = emitted, stack' # <<>>, Top'.next = 0, Top'.data = r
  PROVE  /\ total' <= in.limits.max_total_inflated
         /\ EmittedIsCharged' /\ OvershootBounded'
<1>1. /\ total \in Nat /\ emitted \in Nat /\ Pending \in Nat /\ Size(in.root) \in Nat
      /\ Size(r) \in Nat /\ in.limits.max_total_inflated \in Nat /\ MaxInflated \in Nat
  BY NumbersType, RunningCall, LimitsType, ContentAssumption DEF SafeInv, TypeOK
<1>2. /\ total' = SatAdd(total, Size(r)) /\ total' \in Nat
      /\ total' < MaxU64 => total' = total + Size(r) /\ total < MaxU64
  BY <1>1, SatAddFacts DEF AddInflated
<1>3. total' <= in.limits.max_total_inflated
  BY <1>1, <1>2 DEF OverInflated
<1>4. Pending' = Size(r)
  BY DEF Pending, Size
<1>5. EmittedIsCharged'
  <2>1. total < MaxU64 => emitted + Pending <= total + Size(in.root)
    BY DEF SafeInv, EmittedIsCharged
  <2>2. Size(in.root)' = Size(in.root)
    BY DEF Size
  <2> QED
    BY <1>1, <1>2, <1>4, <2>1, <2>2 DEF EmittedIsCharged
<1>6. OvershootBounded'
  BY <1>1, <1>2, <1>3 DEF OvershootBounded
<1> QED
  BY <1>3, <1>5, <1>6

\* The charge that trips the guard is at most one decompression past it.
LEMMA OvershootStep ==
  ASSUME SafeInv, stack # <<>>, NEW n \in Nat, n <= MaxInflated, AddInflated(n)
  PROVE  total' <= in.limits.max_total_inflated + MaxInflated
<1>1. total <= in.limits.max_total_inflated /\ total \in Nat
  BY DEF SafeInv, WithinLimits, TypeOK
<1>2. total' \in Nat /\ total' <= total + n
  BY <1>1, SatAddFacts DEF AddInflated
<1> QED
  BY <1>1, <1>2, LimitsType, ContentAssumption DEF SafeInv

\* A counted member is within max_entries, and pays for one node.
LEMMA CountKeeps ==
  ASSUME SafeInv, CountMember, ~OverEntries
  PROVE  /\ stack # <<>> /\ Top \in Frame /\ Top.next > 0 /\ ~TooDeep(Top)
         /\ entries' <= in.limits.max_entries
         /\ entries' \in Nat /\ (entries' < MaxU64 => Len(out) <= entries')
<1>1. stack # <<>> /\ Top.next \in DOMAIN Members(Top)
  BY DEF CountMember, AtMember
<1>2. /\ in.world \in World /\ Top \in Frame /\ Top.data \in Blob
      /\ Len(stack) \in Nat \ {0}
  BY <1>1, RunningCall DEF SafeInv, Frame
<1>3. Members(Top) \in Seq(Member)
  BY <1>2, EntriesType DEF Members
<1>4. Top.next > 0
  BY <1>1, <1>3, LenProperties
<1>5. ~TooDeep(Top)
  BY <1>2, <1>4 DEF SafeInv, StackOK, Top
<1>6. entries' <= in.limits.max_entries
  <2>1. entries' = SatAdd(entries, 1) /\ entries \in Nat /\ TypeOK
    BY DEF CountMember, SafeInv, TypeOK
  <2>2. SatAdd(entries, 1) \in Nat
    BY <2>1, SatAddFacts
  <2> QED
    BY <2>1, <2>2, LimitsType DEF OverEntries
<1>7. entries' \in Nat /\ (entries' < MaxU64 => Len(out) <= entries')
  <2>1. /\ entries' = SatAdd(entries, 1) /\ entries \in Nat
        /\ Len(out) \in Nat /\ Coming = 0
    BY <1>4, NumbersType DEF CountMember, SafeInv, TypeOK, Coming
  <2>2. entries < MaxU64 => Len(out) + Coming <= entries + 1
    BY NodesCounted DEF SafeInv
  <2>3. /\ SatAdd(entries, 1) \in Nat
        /\ SatAdd(entries, 1) < MaxU64 => SatAdd(entries, 1) = entries + 1 /\ entries < MaxU64
    BY <2>1, SatAddFacts
  <2> QED
    BY <2>1, <2>2, <2>3
<1> QED
  BY <1>1, <1>2, <1>4, <1>5, <1>6, <1>7

\* Every step keeps the budget's invariant.
LEMMA SafeStep == SafeInv /\ [Next]_vars => SafeInv'
<1> SUFFICES ASSUME SafeInv, [Next]_vars PROVE SafeInv'
  OBVIOUS
<1>a. TypeOK /\ TypeOK'
  BY TypeStep DEF SafeInv
<1>b. /\ total \in Nat /\ entries \in Nat /\ emitted \in Nat
      /\ Pending \in Nat /\ Coming \in Nat /\ Size(in.root) \in Nat /\ Len(out) \in Nat
      /\ \A b \in Blob : Size(b) \in Nat
  BY <1>a, NumbersType, RunningCall DEF TypeOK
<1>c. stack # <<>> => total <= in.limits.max_total_inflated /\ entries <= in.limits.max_entries
  BY DEF SafeInv, TypeOK, WithinLimits
<1>d. total <= in.limits.max_total_inflated + MaxInflated
  BY DEF SafeInv, OvershootBounded
<1>e. /\ total < MaxU64 => emitted + Pending <= total + Size(in.root)
      /\ entries < MaxU64 => Len(out) + Coming <= entries + 1
  BY NodesCounted DEF SafeInv, EmittedIsCharged
<1>1. CASE GuardDepth
  BY <1>1, <1>a, <1>d, FailKeeps DEF GuardDepth, Errors, GuardErrors
<1>2. CASE PeelWrapper
  <2> DEFINE r == PeelBytes(in.world, Top.data, Fmt(Top))
  <2>1. /\ stack # <<>> /\ Top \in Frame /\ Top.next = 0 /\ in.world \in World
        /\ Top.data \in Blob /\ in' = in /\ entries' = entries
    BY <1>2, <1>a, RunningCall DEF PeelWrapper, Entered, Frame
  <2>2. r \in Blob \cup ReadErrors /\ (r \in Blob => Size(r) <= MaxInflated)
    BY <2>1, PeelBytesBounded DEF Size
  <2>3. CASE r \notin Blob
    <3>1. r \in Errors /\ Fail(r) /\ total' = total
      BY <1>2, <2>2, <2>3 DEF PeelWrapper, Errors
    <3> QED
      BY <1>a, <1>d, <2>1, <3>1, FailKeeps
  <2>4. CASE r \in Blob /\ OverInflated(Size(r))
    <3>1. Fail("TotalInflatedExceeded") /\ AddInflated(Size(r))
      BY <1>2, <2>4 DEF PeelWrapper
    <3>2. total' <= in.limits.max_total_inflated + MaxInflated
      BY <1>b, <2>1, <2>2, <2>4, <3>1, OvershootStep
    <3> QED
      BY <1>a, <2>1, <3>1, <3>2, FailKeeps DEF Errors, GuardErrors
  <2>5. CASE r \in Blob /\ ~OverInflated(Size(r))
    <3> DEFINE f == PeeledCall(Top, r)
    <3>1. /\ stack' = Running(f) /\ AddInflated(Size(r))
          /\ UNCHANGED <<out, emitted, status>>
      BY <1>2, <2>5 DEF PeelWrapper
    <3>2. f \in Frame /\ f.next = 0 /\ f.data = r
      BY <2>1, <2>5, CallType DEF PeeledCall, Call
    <3>3. StackOK(stack)' /\ stack' # <<>> /\ Top' = f
      <4>1. f.next > 0 => ~TooDeep(f)
        BY <3>2
      <4> HIDE DEF f
      <4> QED
        BY <2>1, <3>1, <3>2, <4>1, RunningKeeps
    <3> HIDE DEF f
    <3>4. /\ total' <= in.limits.max_total_inflated
          /\ EmittedIsCharged' /\ OvershootBounded'
      <4> HIDE DEF r
      <4> QED
        BY <2>1, <2>2, <2>5, <3>1, <3>2, <3>3, ChargeKeeps
    <3>5. WithinLimits'
      BY <1>c, <2>1, <3>4 DEF WithinLimits
    <3>6. NodesAreCounted'
      <4>1. Coming = 1 /\ Coming' = 1
        BY <2>1, <3>2, <3>3 DEF Coming
      <4> QED
        BY <1>b, <1>e, <2>1, <3>1, <4>1, NodesCounted
    <3> QED
      BY <1>a, <3>3, <3>4, <3>5, <3>6 DEF SafeInv
  <2> QED
    BY <2>3, <2>4, <2>5
<1>3. CASE OpenArchive
  <2>1. /\ stack # <<>> /\ Top \in Frame /\ Top.next = 0 /\ ~TooDeep(Top)
        /\ UNCHANGED <<in, total, entries>>
    BY <1>3, <1>a, RunningCall DEF OpenArchive, Entered
  <2>2. CASE Fail("Open")
    BY <1>a, <1>d, <2>1, <2>2, FailKeeps DEF Errors, ReadErrors
  <2>3. CASE /\ stack' = Running([Top EXCEPT !.next = 1])
             /\ UNCHANGED <<out, emitted, status>>
    <3> DEFINE f == [Top EXCEPT !.next = 1]
    <3>1. f \in Frame /\ f.next = 1 /\ ~TooDeep(f)
      BY <2>1, CallType DEF Frame, TooDeep
    <3> HIDE DEF f
    <3>2. StackOK(stack)' /\ stack' # <<>> /\ Top' = f
      BY <2>1, <2>3, <3>1, RunningKeeps DEF f
    <3>3. Pending' = 0 /\ Coming' = 0 /\ Coming = 1
      BY <2>1, <3>1, <3>2 DEF Pending, Coming
    <3>4. EmittedIsCharged'
      <4>1. Size(in.root)' = Size(in.root)
        BY <2>1 DEF Size
      <4> QED
        BY <1>b, <1>e, <2>1, <2>3, <3>3, <4>1 DEF EmittedIsCharged
    <3>5. NodesAreCounted'
      BY <1>b, <1>e, <2>1, <2>3, <3>3, NodesCounted
    <3>6. WithinLimits' /\ OvershootBounded'
      BY <1>c, <1>d, <2>1, <2>3 DEF WithinLimits, OvershootBounded
    <3> QED
      BY <1>a, <3>2, <3>4, <3>5, <3>6 DEF SafeInv
  <2> QED
    BY <1>3, <2>2, <2>3 DEF OpenArchive
<1>4. CASE EntryOverBudget
  BY <1>4, <1>a, <1>d, FailKeeps DEF EntryOverBudget, Errors, GuardErrors
<1>5. CASE DirMember
  <2>1. /\ CountMember /\ ~OverEntries /\ UNCHANGED <<in, total, emitted, status>>
        /\ out' = Append(out, DirNode(Members(Top)[Top.next]))
        /\ stack' = Running(Advance(Top))
    BY <1>5 DEF DirMember
  <2>2. /\ stack # <<>> /\ Top \in Frame /\ Top.next > 0 /\ ~TooDeep(Top)
        /\ entries' <= in.limits.max_entries
        /\ entries' \in Nat /\ (entries' < MaxU64 => Len(out) <= entries')
    BY <2>1, CountKeeps
  <2> DEFINE f == Advance(Top)
  <2>3. f \in Frame /\ f.next > 0 /\ ~TooDeep(f)
    BY <2>2, CallType DEF Advance, Frame, TooDeep
  <2> HIDE DEF f
  <2>4. StackOK(stack)' /\ stack' # <<>> /\ Top' = f
    BY <2>1, <2>2, <2>3, RunningKeeps DEF f
  <2>5. Pending' = 0 /\ Coming' = 0
    BY <2>3, <2>4 DEF Pending, Coming, Frame
  <2>6. EmittedIsCharged'
    <3>1. Size(in.root)' = Size(in.root)
      BY <2>1 DEF Size
    <3> QED
      BY <1>b, <1>e, <2>1, <2>5, <3>1 DEF EmittedIsCharged
  <2>7. NodesAreCounted'
    <3>1. Len(out') = Len(out) + 1
      BY <1>a, <2>1, MemberFacts, AppendProperties DEF CountMember, TypeOK
    <3> QED
      BY <1>b, <2>2, <2>5, <3>1, NodesCounted
  <2>8. WithinLimits' /\ OvershootBounded'
    BY <1>c, <1>d, <2>1, <2>2 DEF WithinLimits, OvershootBounded
  <2> QED
    BY <1>a, <2>4, <2>6, <2>7, <2>8 DEF SafeInv
<1>6. CASE FileMember
  <2>1. CountMember /\ ~OverEntries /\ in' = in
    BY <1>6 DEF FileMember
  <2>2. /\ stack # <<>> /\ Top \in Frame /\ Top.next > 0 /\ ~TooDeep(Top)
        /\ entries' <= in.limits.max_entries
        /\ entries' \in Nat /\ (entries' < MaxU64 => Len(out) <= entries')
    BY <2>1, CountKeeps
  <2>3. PICK r \in ReadMember(in.world, Top.data, Fmt(Top), Top.next) :
           IF r \notin Blob
           THEN Fail(r) /\ UNCHANGED total
           ELSE /\ AddInflated(Size(r))
                /\ IF OverInflated(Size(r))
                   THEN Fail("TotalInflatedExceeded")
                   ELSE /\ Descend(r, Members(Top)[Top.next].name)
                        /\ UNCHANGED <<out, emitted, status>>
    BY <1>6 DEF FileMember
  <2>4. /\ r \in Blob \cup ReadErrors /\ (r \in Blob => Size(r) <= MaxInflated)
        /\ Members(Top)[Top.next].name \in Name
    BY <1>a, <2>1, MemberFacts DEF CountMember
  <2>5. CASE r \notin Blob
    BY <1>a, <1>d, <2>1, <2>3, <2>4, <2>5, FailKeeps DEF Errors
  <2>6. CASE r \in Blob /\ OverInflated(Size(r))
    <3>1. Fail("TotalInflatedExceeded") /\ AddInflated(Size(r))
      BY <2>3, <2>6
    <3>2. total' <= in.limits.max_total_inflated + MaxInflated
      BY <1>b, <2>2, <2>4, <2>6, <3>1, OvershootStep
    <3> QED
      BY <1>a, <2>1, <3>1, <3>2, FailKeeps DEF Errors, GuardErrors
  <2>7. CASE r \in Blob /\ ~OverInflated(Size(r))
    <3> DEFINE f == Advance(Top)
               g == Call(r, Members(Top)[Top.next].name, Top.depth + 1)
    <3>1. /\ stack' = Append(Running(f), g) /\ AddInflated(Size(r))
          /\ UNCHANGED <<out, emitted, status>>
      BY <2>3, <2>7 DEF Descend
    <3>2. f \in Frame /\ f.next > 0 /\ ~TooDeep(f)
      BY <2>2, CallType DEF Advance, Frame, TooDeep
    <3>3. g \in Frame /\ g.next = 0 /\ g.data = r
      <4>1. Top.depth + 1 \in Nat
        BY <2>2 DEF Frame
      <4> QED
        BY <2>4, <2>7, <4>1, CallType DEF Call
    <3> HIDE DEF f, g
    <3>4. StackOK(stack)' /\ stack' # <<>> /\ Top' = g
      BY <2>1, <2>2, <3>1, <3>2, <3>3, DescendKeeps
    <3>5. /\ total' <= in.limits.max_total_inflated
          /\ EmittedIsCharged' /\ OvershootBounded'
      BY <2>1, <2>2, <2>4, <2>7, <3>1, <3>3, <3>4, ChargeKeeps
    <3>6. WithinLimits'
      BY <2>1, <2>2, <3>5 DEF WithinLimits
    <3>7. NodesAreCounted'
      <4>1. Coming' = 1
        BY <3>3, <3>4 DEF Coming
      <4> QED
        BY <1>b, <2>2, <3>1, <4>1, NodesCounted
    <3> QED
      BY <1>a, <3>4, <3>5, <3>6, <3>7 DEF SafeInv
  <2> QED
    BY <2>5, <2>6, <2>7
<1>7. CASE EndMembers
  <2>1. stack # <<>> /\ Return /\ UNCHANGED <<in, total, entries, out, emitted>>
    BY <1>7 DEF EndMembers
  <2>2. StackOK(stack)' /\ Pending' = 0 /\ Coming' = 0
    BY <2>1, ReturnKeeps
  <2>3. Size(in.root)' = Size(in.root)
    BY <2>1 DEF Size
  <2>4. EmittedIsCharged'
    BY <1>b, <1>e, <2>1, <2>2, <2>3 DEF EmittedIsCharged
  <2>5. NodesAreCounted'
    BY <1>b, <1>e, <2>1, <2>2, NodesCounted
  <2>6. WithinLimits' /\ OvershootBounded'
    BY <1>c, <1>d, <2>1 DEF WithinLimits, OvershootBounded
  <2> QED
    BY <1>a, <2>2, <2>4, <2>5, <2>6 DEF SafeInv
<1>8. CASE Leaf
  <2>1. /\ stack # <<>> /\ Top.next = 0 /\ Return /\ UNCHANGED <<in, total, entries>>
        /\ out' = Append(out, LeafNode(Top)) /\ emitted' = emitted + Size(Top.data)
    BY <1>8 DEF Leaf, Entered
  <2>2. StackOK(stack)' /\ Pending' = 0 /\ Coming' = 0
    BY <2>1, ReturnKeeps
  <2>3. Size(in.root)' = Size(in.root) /\ Pending = Size(Top.data) /\ Coming = 1
    BY <2>1 DEF Size, Pending, Coming
  <2>4. EmittedIsCharged'
    BY <1>b, <1>e, <2>1, <2>2, <2>3 DEF EmittedIsCharged
  <2>5. NodesAreCounted'
    <3>1. LeafNode(Top) \in Node
      <4>1. Top \in Frame /\ <<EmptyPiece>> \in Name
        BY <1>a, <2>1, RunningCall, ContentAssumption DEF Name
      <4> QED
        BY <4>1 DEF LeafNode, Node, Frame
    <3>2. Len(out') = Len(out) + 1
      BY <1>a, <2>1, <3>1, AppendProperties DEF TypeOK
    <3> QED
      BY <1>b, <1>e, <2>1, <2>2, <2>3, <3>2, NodesCounted
  <2>6. WithinLimits' /\ OvershootBounded'
    BY <1>c, <1>d, <2>1 DEF WithinLimits, OvershootBounded
  <2> QED
    BY <1>a, <2>2, <2>4, <2>5, <2>6 DEF SafeInv
<1>9. CASE UNCHANGED vars
  BY <1>9 DEF vars, SafeInv, TypeOK, StackOK, TooDeep, WithinLimits, EmittedIsCharged, Pending,
              NodesAreCounted, OvershootBounded, Size, Top
<1> QED
  BY <1>1, <1>2, <1>3, <1>4, <1>5, <1>6, <1>7, <1>8, <1>9 DEF Next

LEMMA SafeInit == Init => SafeInv
<1> SUFFICES ASSUME Init PROVE SafeInv
  OBVIOUS
<1>1. TypeOK
  BY TypeInit
<1>2. /\ stack = <<Call(in.root, in.name, 0)>> /\ Len(stack) = 1 /\ Top = stack[1]
      /\ Top.next = 0 /\ Top.data = in.root /\ stack # <<>>
  BY DEF Init, Call, Top
<1>3. StackOK(stack)
  BY <1>2 DEF StackOK, Top
<1>4. /\ total = 0 /\ entries = 0 /\ emitted = 0 /\ out = <<>> /\ Len(out) = 0
      /\ Size(in.root) \in Nat
  BY <1>1, NumbersType DEF Init
<1>5. WithinLimits /\ OvershootBounded
  BY <1>1, <1>4, LimitsType, ContentAssumption DEF WithinLimits, OvershootBounded
<1>6. EmittedIsCharged
  BY <1>2, <1>4 DEF EmittedIsCharged, Pending
<1>7. NodesAreCounted
  BY <1>2, <1>4 DEF NodesAreCounted
<1> QED
  BY <1>1, <1>3, <1>5, <1>6, <1>7 DEF SafeInv

\* The invariant of the budget.
THEOREM Safe == Spec => []SafeInv
<1>1. Init => SafeInv
  BY SafeInit
<1>2. SafeInv /\ [Next]_vars => SafeInv'
  BY SafeStep
<1> QED
  BY <1>1, <1>2, PTL DEF Spec

\* No call of resolve(), whatever it is given, runs on or answers Ok with a guard
\* over its limit (resolve.rs:60-78, 109-114).
THEOREM BudgetIsKept == Spec => []BudgetKept
<1>1. SafeInv => BudgetKept
  <2> SUFFICES ASSUME SafeInv, status \in {"running", "ok"},
                      NEW k \in DOMAIN stack, stack[k].next > 0
               PROVE  ~TooDeep(stack[k])
    BY DEF BudgetKept, SafeInv, WithinLimits
  <2>1. DOMAIN stack = 1 .. Len(stack)
    BY LenProperties DEF SafeInv, TypeOK
  <2> QED
    BY <2>1 DEF SafeInv, StackOK
<1> QED
  BY <1>1, Safe, PTL

\* Nor does it hand out bytes that were not charged (resolve.rs:129, 159).
THEOREM NothingIsFree == Spec => []EmittedIsCharged
<1>1. SafeInv => EmittedIsCharged
  BY DEF SafeInv
<1> QED
  BY <1>1, Safe, PTL

\* Nor nodes that were not counted: all but one are members that max_entries bounds
\* (resolve.rs:151).
THEOREM NodesAreBounded == Spec => []NodesAreCounted
<1>1. SafeInv => NodesAreCounted
  BY DEF SafeInv
<1> QED
  BY <1>1, Safe, PTL

\* The charge that trips the guard is within MAX_INFLATED of the cap (peel.rs:57,
\* archive.rs:359, 384, 399, 406).
THEOREM OvershootIsBounded == Spec => []OvershootBounded
<1>1. SafeInv => OvershootBounded
  BY DEF SafeInv
<1> QED
  BY <1>1, Safe, PTL

-----------------------------------------------------------------------------
(* The members a loop reads *)

\* No 7z archive has two members of one name.  Its backend is asked for the name
\* (archive.rs:371-376), so with twins a read by index may answer with the other
\* one; tar and zip go by index and need no such hypothesis.
NamesDiffer ==
  \A w \in Worlds : \A b \in Blob :
    w[b].kind = "7z" =>
      \A i, j \in DOMAIN w[b].members : w[b].members[i].name = w[b].members[j].name => i = j

\* Every call was made from the one below it, further up the packing tree.
Deeper(s) == \A k \in 1 .. Len(s) - 1 : s[k].depth < s[k + 1].depth

\* A name leads to the one member that has it.
LEMMA OneTarget ==
  ASSUME NamesDiffer, NEW w \in Worlds, NEW b \in Blob, NEW fmt,
         NEW i \in DOMAIN Entries(w, b, fmt)
  PROVE  ReadTargets(w, b, fmt, i) \subseteq {i}
<1>1. CASE fmt = "SevenZip"
  <2>1. CASE IsArchive(fmt) /\ Opens(w, b, fmt)
    <3>1. ContainerStream(w, b, fmt) = b /\ w[b].kind = "7z"
      BY <1>1, <2>1 DEF Opens, ContainerStream, ContainerKind
    <3>2. Entries(w, b, fmt) = w[b].members
      BY <2>1, <3>1 DEF Entries
    <3> QED
      BY <1>1, <3>1, <3>2 DEF NamesDiffer, ReadTargets
  <2>2. CASE ~(IsArchive(fmt) /\ Opens(w, b, fmt))
    <3>1. Entries(w, b, fmt) = <<>>
      BY <2>2 DEF Entries
    <3> QED
      BY <3>1
  <2> QED
    BY <2>1, <2>2
<1>2. CASE fmt # "SevenZip"
  BY <1>2 DEF ReadTargets
<1> QED
  BY <1>1, <1>2

\* The bytes a read hands over are those of the member at the index.
LEMMA ReadIsTrue ==
  ASSUME NamesDiffer, NEW w \in Worlds, NEW b \in Blob, NEW fmt,
         NEW i \in DOMAIN Entries(w, b, fmt),
         NEW r \in ReadMember(w, b, fmt, i), r \in Blob
  PROVE  r = Entries(w, b, fmt)[i].data
<1> DEFINE ms == Entries(w, b, fmt)
<1>1. r # "TooLarge" /\ r # "Read"
  BY ContentAssumption DEF ReadErrors
<1>2. PICK j \in ReadTargets(w, b, fmt, i) : r = ReadBody(w, ms[j].data)
  BY <1>1 DEF ReadMember
<1>3. j = i
  BY OneTarget, <1>2
<1> QED
  BY <1>1, <1>2, <1>3 DEF ReadBody

\* A new frame for the running call, no further up than it was, and for a call that
\* has not looked at its data one that is further down.
LEMMA RunningReads ==
  ASSUME SafeInv, Deeper(stack), ReadsMemberAtIndex, stack # <<>>,
         NEW f \in Frame, f.depth >= Top.depth,
         f.next = 0 => f.depth > Top.depth,
         stack' = Running(f), in' = in
  PROVE  Deeper(stack)' /\ ReadsMemberAtIndex'
<1>1. /\ Len(stack) \in Nat \ {0} /\ Top = stack[Len(stack)] /\ Top \in Frame
      /\ \A k \in 1 .. Len(stack) : stack[k] \in Frame
  BY RunningCall DEF SafeInv, Top
<1>2. /\ Len(stack') = Len(stack) /\ stack'[Len(stack)] = f
      /\ \A k \in 1 .. Len(stack) - 1 : stack'[k] = stack[k]
  BY RunningFacts DEF SafeInv
<1>3. ASSUME NEW k \in 1 .. Len(stack') - 1
      PROVE  /\ stack'[k] = stack[k] /\ stack[k].depth < stack'[k + 1].depth
             /\ stack'[k + 1].next = 0 => stack'[k + 1].depth # stack'[k].depth + 1
  <2>1. stack[k].depth < stack[k + 1].depth /\ stack'[k] = stack[k]
    BY <1>1, <1>2 DEF Deeper
  <2>2. stack[k] \in Frame /\ stack[k + 1] \in Frame
    BY <1>1, <1>2
  <2>3. CASE k + 1 = Len(stack)
    <3>1. stack[k].depth < Top.depth /\ stack'[k + 1] = f
      BY <1>1, <1>2, <2>1, <2>3
    <3>2. stack[k].depth \in Nat /\ Top.depth \in Nat /\ f.depth \in Nat
      BY <1>1, <2>2 DEF Frame
    <3> QED
      BY <2>1, <3>1, <3>2
  <2>4. CASE k + 1 # Len(stack)
    <3>1. stack'[k + 1] = stack[k + 1] /\ stack[k + 1].next > 0
      BY <1>1, <1>2, <2>4 DEF SafeInv, StackOK
    <3>2. stack'[k + 1].next # 0
      BY <2>2, <3>1 DEF Frame
    <3> QED
      BY <2>1, <3>1, <3>2
  <2> QED
    BY <2>3, <2>4
<1>4. Deeper(stack)'
  BY <1>3 DEF Deeper
<1> QED
  BY <1>3, <1>4 DEF ReadsMemberAtIndex

\* A call from the loop for the bytes of the member it is at.
LEMMA DescendReads ==
  ASSUME SafeInv, Deeper(stack), ReadsMemberAtIndex, AtMember,
         NEW r \in Blob, r = Members(Top)[Top.next].data,
         Descend(r, Members(Top)[Top.next].name), in' = in
  PROVE  Deeper(stack)' /\ ReadsMemberAtIndex'
<1> DEFINE f == Advance(Top)
           g == Call(r, Members(Top)[Top.next].name, Top.depth + 1)
<1>1. /\ stack # <<>> /\ Len(stack) \in Nat \ {0} /\ Top = stack[Len(stack)] /\ Top \in Frame
      /\ \A k \in 1 .. Len(stack) : stack[k] \in Frame
  BY RunningCall DEF SafeInv, Top, AtMember
<1>2. /\ f \in Frame /\ f.data = Top.data /\ f.name = Top.name /\ f.depth = Top.depth
      /\ f.next = Top.next + 1
  BY <1>1, CallType DEF Advance, Frame
<1>3. g \in Frame /\ g.data = r /\ g.depth = Top.depth + 1
  <2>1. Top.depth + 1 \in Nat /\ Members(Top)[Top.next].name \in Name
    BY <1>1, MemberFacts DEF Frame, SafeInv
  <2> QED
    BY <2>1, CallType DEF Call
<1>4. stack' = Append(Running(f), g)
  BY DEF Descend
<1>5. /\ Members(Top) = Entries(in.world, f.data, SniffBlob(in.world, f.data, f.name))
      /\ f.next - 1 = Top.next /\ f.next > 0 /\ f.depth < g.depth
  <2>1. Top.next \in Nat /\ Top.depth \in Nat
    BY <1>1 DEF Frame
  <2> QED
    BY <1>2, <1>3, <2>1 DEF Members, Fmt
<1> HIDE DEF f, g
<1>6. /\ Len(stack') = Len(stack) + 1
      /\ stack'[Len(stack) + 1] = g /\ stack'[Len(stack)] = f
      /\ \A k \in 1 .. Len(stack) - 1 : stack'[k] = stack[k]
  <2>1. TypeOK /\ stack # <<>> /\ f \in Frame /\ g \in Frame
    BY <1>1, <1>2, <1>3 DEF SafeInv
  <2> QED
    BY <1>4, <2>1, DescendFacts
<1>7. ASSUME NEW k \in 1 .. Len(stack') - 1
      PROVE  /\ stack'[k].depth < stack'[k + 1].depth
             /\ stack'[k + 1].next = 0 =>
                  stack'[k + 1].data =
                    Entries(in'.world, stack'[k].data,
                            SniffBlob(in'.world, stack'[k].data, stack'[k].name))
                      [stack'[k].next - 1].data
  <2>1. CASE k = Len(stack)
    <3>1. stack'[k] = f /\ stack'[k + 1] = g
      BY <1>6, <2>1
    <3> QED
      BY <1>3, <1>5, <3>1
  <2>2. CASE k # Len(stack)
    <3>1. stack[k].depth < stack[k + 1].depth /\ stack'[k] = stack[k] /\ k + 1 \in 1 .. Len(stack)
      BY <1>1, <1>6, <2>2 DEF Deeper
    <3>2. stack'[k + 1].next > 0 /\ stack'[k + 1].depth = stack[k + 1].depth
      <4>1. CASE k + 1 = Len(stack)
        BY <1>1, <1>2, <1>5, <1>6, <4>1
      <4>2. CASE k + 1 # Len(stack)
        BY <1>1, <1>6, <3>1, <4>2 DEF SafeInv, StackOK
      <4> QED
        BY <4>1, <4>2
    <3>3. stack'[k + 1].next # 0
      BY <3>2
    <3> QED
      BY <3>1, <3>2, <3>3
  <2> QED
    BY <2>1, <2>2
<1>8. Deeper(stack)'
  BY <1>7 DEF Deeper
<1> QED
  BY <1>7, <1>8 DEF ReadsMemberAtIndex, Members, Fmt

\* What a return leaves was there before, and has looked at its data.
LEMMA ReturnReads ==
  ASSUME SafeInv, Deeper(stack), stack # <<>>, Return, in' = in
  PROVE  Deeper(stack)' /\ ReadsMemberAtIndex'
<1>1. stack \in Seq(Frame) /\ Len(stack) \in Nat \ {0}
  BY RunningCall DEF SafeInv, TypeOK
<1>2. /\ stack' \in Seq(Frame) /\ Len(stack') = Len(stack) - 1
      /\ \A k \in 1 .. Len(stack) - 1 : stack'[k] = stack[k]
  BY <1>1, FrontFacts DEF Return
<1>3. ASSUME NEW k \in 1 .. Len(stack') - 1
      PROVE  stack'[k].depth < stack'[k + 1].depth /\ stack'[k + 1].next # 0
  <2>1. stack'[k] = stack[k] /\ stack'[k + 1] = stack[k + 1]
    BY <1>1, <1>2
  <2>2. stack[k].depth < stack[k + 1].depth /\ stack[k + 1].next > 0
    BY <1>1, <1>2 DEF Deeper, SafeInv, StackOK
  <2> QED
    BY <2>1, <2>2
<1> QED
  BY <1>3 DEF Deeper, ReadsMemberAtIndex

\* Every step keeps the calls on the members they were made for.
LEMMA ReadsStep ==
  ASSUME NamesDiffer, SafeInv, Deeper(stack), ReadsMemberAtIndex, [Next]_vars
  PROVE  Deeper(stack)' /\ ReadsMemberAtIndex'
<1>a. TypeOK
  BY DEF SafeInv
<1>b. ASSUME NEW e, Fail(e) PROVE Deeper(stack)' /\ ReadsMemberAtIndex'
  <2>1. Len(stack') = 0
    BY <1>b, EmptySeq DEF Fail
  <2> QED
    BY <2>1 DEF Deeper, ReadsMemberAtIndex
<1>c. stack # <<>> => Top \in Frame /\ Top.depth \in Nat /\ Top.next \in Nat
  BY <1>a, RunningCall DEF Frame
<1>1. CASE GuardDepth
  BY <1>1, <1>b DEF GuardDepth
<1>2. CASE PeelWrapper
  <2> DEFINE r == PeelBytes(in.world, Top.data, Fmt(Top))
  <2>1. stack # <<>> /\ in' = in /\ in.world \in World /\ Top.data \in Blob
    BY <1>2, <1>a, RunningCall DEF PeelWrapper, Entered, Frame
  <2>2. CASE r \in Blob /\ stack' = Running(PeeledCall(Top, r))
    <3>1. /\ PeeledCall(Top, r) \in Frame
          /\ PeeledCall(Top, r).depth = Top.depth + 1
      BY <1>c, <2>1, <2>2, CallType DEF PeeledCall, Call
    <3> QED
      BY <1>c, <2>1, <2>2, <3>1, RunningReads
  <2>3. CASE \E e : Fail(e)
    BY <2>3, <1>b
  <2> QED
    BY <1>2, <2>2, <2>3 DEF PeelWrapper
<1>3. CASE OpenArchive
  <2>1. stack # <<>> /\ in' = in
    BY <1>3 DEF OpenArchive, Entered
  <2>2. CASE stack' = Running([Top EXCEPT !.next = 1])
    <3> DEFINE f == [Top EXCEPT !.next = 1]
    <3>1. f \in Frame /\ f.depth = Top.depth /\ f.next = 1
      BY <1>c, <2>1, CallType DEF Frame
    <3> HIDE DEF f
    <3>2. stack' = Running(f) /\ f.next # 0 /\ f.depth >= Top.depth
      BY <1>c, <2>1, <2>2, <3>1 DEF f
    <3> QED
      BY <2>1, <3>1, <3>2, RunningReads
  <2>3. CASE Fail("Open")
    BY <2>3, <1>b
  <2> QED
    BY <1>3, <2>2, <2>3 DEF OpenArchive
<1>4. CASE EntryOverBudget
  BY <1>4, <1>b DEF EntryOverBudget
<1>5. CASE DirMember
  <2>1. AtMember /\ stack # <<>> /\ in' = in /\ stack' = Running(Advance(Top))
    BY <1>5 DEF DirMember, CountMember, AtMember
  <2>2. /\ Advance(Top) \in Frame /\ Advance(Top).depth = Top.depth
        /\ Advance(Top).next = Top.next + 1
    BY <1>c, <2>1, CallType DEF Advance, Frame
  <2> QED
    BY <1>c, <2>1, <2>2, RunningReads
<1>6. CASE FileMember
  <2>1. AtMember /\ in' = in
    BY <1>6 DEF FileMember, CountMember
  <2>2. PICK r \in ReadMember(in.world, Top.data, Fmt(Top), Top.next) :
           IF r \notin Blob
           THEN Fail(r)
           ELSE IF OverInflated(Size(r))
                THEN Fail("TotalInflatedExceeded")
                ELSE Descend(r, Members(Top)[Top.next].name)
    BY <1>6 DEF FileMember
  <2>3. CASE r \in Blob /\ Descend(r, Members(Top)[Top.next].name)
    <3>1. in.world \in Worlds /\ Top.data \in Blob /\ Top.next \in DOMAIN Members(Top)
      BY <1>a, <1>c, <2>1 DEF TypeOK, Inputs, AtMember, Frame
    <3>2. r = Members(Top)[Top.next].data
      BY <2>2, <2>3, <3>1, ReadIsTrue DEF Members
    <3> QED
      BY <2>1, <2>3, <3>2, DescendReads
  <2>4. CASE \E e : Fail(e)
    BY <2>4, <1>b
  <2> QED
    BY <2>2, <2>3, <2>4
<1>7. CASE EndMembers
  BY <1>7, ReturnReads DEF EndMembers
<1>8. CASE Leaf
  BY <1>8, ReturnReads DEF Leaf, Entered
<1>9. CASE UNCHANGED vars
  BY <1>9 DEF vars, Deeper, ReadsMemberAtIndex, Members, Fmt
<1> QED
  BY <1>1, <1>2, <1>3, <1>4, <1>5, <1>6, <1>7, <1>8, <1>9 DEF Next

\* As long as no 7z archive has two members of one name, every call the loop makes is
\* for the bytes of the member it is at, however deep in the tree and whatever else
\* the archive holds (archive.rs:141, resolve.rs:149-165).
THEOREM MembersAreTheirOwn == ASSUME NamesDiffer PROVE Spec => []ReadsMemberAtIndex
<1>1. Init => Deeper(stack) /\ ReadsMemberAtIndex
  BY DEF Init, Deeper, ReadsMemberAtIndex
<1>2. SafeInv /\ Deeper(stack) /\ ReadsMemberAtIndex /\ [Next]_vars
        => Deeper(stack)' /\ ReadsMemberAtIndex'
  BY ReadsStep
<1> QED
  BY <1>1, <1>2, Safe, PTL DEF Spec

-----------------------------------------------------------------------------
(* The promised answer *)

\* The events a call has still to give, for the arguments i of resolve().
ToCome(i, f) ==
  LET fmt == SniffBlob(i.world, f.data, f.name)
      ms == Entries(i.world, f.data, fmt)
  IN IF f.next = 0
     THEN Events(i.world)[i.limits.max_depth + 1 - f.depth][f.data][f.name]
     ELSE LastMembers(i.world, fmt, ms, Events(i.world)[i.limits.max_depth - f.depth])
            [Len(ms) + 1 - f.next]

\* A call is at most one level too deep, and its loop at most one past the members.
Within(i, f) ==
  IF f.next = 0 THEN f.depth <= i.limits.max_depth + 1
  ELSE /\ f.depth <= i.limits.max_depth
       /\ f.next <= Len(Entries(i.world, f.data, SniffBlob(i.world, f.data, f.name))) + 1

\* left[k] is what the first k calls of the stack s have still to give, the last first.
Chain(i, s, left) ==
  /\ left \in [0 .. Len(s) -> Seq(Event)]
  /\ left[0] = <<>>
  /\ \A k \in 1 .. Len(s) : Within(i, s[k]) /\ left[k] = ToCome(i, s[k]) \o left[k - 1]

\* The calls of the stack s have rest to give.
Gives(i, s, rest) == \E left : Chain(i, s, left) /\ left[Len(s)] = rest

\* What is charged, counted and pushed is what the tree's events add up to so far, and
\* the calls on the stack have the rest of them to give.
OnTheWay(i, s, bytes, members, nodes) ==
  \E done, left :
    /\ Chain(i, s, left)
    /\ Taken(EventsOf(i), i.limits, done, left[Len(s)], bytes, members, nodes)

Promised ==
  IF status = "running" THEN OnTheWay(in, stack, total, entries, out)
  ELSE Answer(in) = Answered

\* The parts of the arguments.
LEMMA InputsType ==
  ASSUME NEW i \in Inputs
  PROVE  /\ i.world \in World /\ i.world \in Worlds /\ i.root \in Blob /\ i.name \in Name
         /\ i.limits \in Limits /\ i.limits.max_depth \in Nat
         /\ EventsOf(i) \in Seq(Event)
<1>1. /\ i.world \in World /\ i.world \in Worlds /\ i.root \in Blob /\ i.name \in Name
      /\ i.limits \in Limits
  BY ResolveAssumption DEF Inputs
<1>2. i.limits.max_depth \in Nat /\ i.limits.max_depth + 1 \in Nat
  BY <1>1 DEF Limits
<1>3. Events(i.world)[i.limits.max_depth + 1] \in Below
  BY <1>1, <1>2, EventsFacts
<1>4. EventsOf(i) \in Seq(Event)
  BY <1>1, <1>3 DEF EventsOf, Below
<1> QED
  BY <1>1, <1>2, <1>4

\* A call that passed the depth guard has the events of its layer to give.
LEMMA LayerToCome ==
  ASSUME NEW i \in Inputs, NEW f \in Frame, f.next = 0, f.depth <= i.limits.max_depth
  PROVE  /\ Events(i.world)[i.limits.max_depth - f.depth] \in Below
         /\ ToCome(i, f) = LayerEvents(i.world, f.data, f.name,
                                       Events(i.world)[i.limits.max_depth - f.depth])
<1> DEFINE n == i.limits.max_depth - f.depth
<1>1. i.world \in World /\ n \in Nat /\ i.limits.max_depth + 1 - f.depth = n + 1
  BY InputsType DEF Frame
<1>2. f.data \in Blob /\ f.name \in Name
  BY DEF Frame
<1>3. ToCome(i, f) = Events(i.world)[n + 1][f.data][f.name]
  BY <1>1 DEF ToCome
<1> HIDE DEF n
<1>4. Events(i.world)[n + 1][f.data][f.name] = LayerEvents(i.world, f.data, f.name, Events(i.world)[n])
  BY <1>1, <1>2, EventsFacts
<1>5. Events(i.world)[n] \in Below
  BY <1>1, EventsFacts
<1> QED
  BY <1>3, <1>4, <1>5 DEF n

\* A call in its loop has the events of its member to give, and then those of the
\* members after it.
LEMMA MemberToCome ==
  ASSUME NEW i \in Inputs, NEW f \in Frame, Within(i, f),
         NEW fmt, fmt = SniffBlob(i.world, f.data, f.name),
         NEW ms, ms = Entries(i.world, f.data, fmt), f.next \in DOMAIN ms
  PROVE  /\ Events(i.world)[i.limits.max_depth - f.depth] \in Below
         /\ Within(i, Advance(f)) /\ ms[f.next] \in Member
         /\ ToCome(i, Advance(f)) \in Seq(Event)
         /\ ToCome(i, f) = MemberEvents(i.world, fmt, ms[f.next],
                                        Events(i.world)[i.limits.max_depth - f.depth])
                             \o ToCome(i, Advance(f))
<1> DEFINE below == Events(i.world)[i.limits.max_depth - f.depth]
           last == LastMembers(i.world, fmt, ms, below)
           k == Len(ms) + 1 - f.next
<1>1. i.world \in World /\ f.data \in Blob /\ ms \in Seq(Member)
  BY InputsType, EntriesType DEF Frame
<1>2. f.next \in 1 .. Len(ms) /\ Len(ms) \in Nat
  BY <1>1, LenProperties
<1>3. f.depth <= i.limits.max_depth /\ f.next # 0
  BY <1>2 DEF Within
<1>4. i.limits.max_depth - f.depth \in Nat
  BY <1>3, InputsType DEF Frame
<1>5. below \in Below
  BY <1>1, <1>4, EventsFacts
<1>6. /\ Advance(f).data = f.data /\ Advance(f).name = f.name /\ Advance(f).depth = f.depth
      /\ Advance(f).next = f.next + 1 /\ f.next + 1 # 0
  BY <1>2 DEF Advance, Frame
<1>7. Within(i, Advance(f))
  BY <1>2, <1>3, <1>6 DEF Within
<1>8. /\ k \in 1 .. Len(ms) /\ Len(ms) + 1 - k = f.next
      /\ Len(ms) + 1 - (f.next + 1) = k - 1 /\ k - 1 \in 0 .. Len(ms)
  BY <1>2
<1>9. ToCome(i, f) = last[k]
  BY <1>3 DEF ToCome
<1>10. ToCome(i, Advance(f)) = last[k - 1]
  BY <1>6, <1>8 DEF ToCome
<1> HIDE DEF k, below
<1>11. FromLast(i.world, fmt, ms, below, last)
  BY <1>1, <1>5, LastMembersFacts
<1> HIDE DEF last
<1>12. last[k] = MemberEvents(i.world, fmt, ms[Len(ms) + 1 - k], below) \o last[k - 1]
  BY <1>8, <1>11 DEF FromLast
<1>13. last[k - 1] \in Seq(Event)
  BY <1>8, <1>11 DEF FromLast
<1>14. ms[f.next] \in Member
  BY <1>1, <1>2, ElementOfSeq
<1> QED
  BY <1>5, <1>7, <1>8, <1>9, <1>10, <1>12, <1>13, <1>14 DEF below

\* What a call has to give is a list of events.
LEMMA ToComeType ==
  ASSUME NEW i \in Inputs, NEW f \in Frame, Within(i, f)
  PROVE  ToCome(i, f) \in Seq(Event)
<1> DEFINE fmt == SniffBlob(i.world, f.data, f.name)
           ms == Entries(i.world, f.data, fmt)
<1>1. /\ i.world \in World /\ f.data \in Blob /\ f.name \in Name /\ f.depth \in Nat /\ f.next \in Nat
      /\ i.limits.max_depth \in Nat
  BY InputsType DEF Frame
<1>2. CASE f.next = 0
  <2>1. i.limits.max_depth + 1 - f.depth \in Nat
    BY <1>1, <1>2 DEF Within
  <2>2. Events(i.world)[i.limits.max_depth + 1 - f.depth] \in Below
    BY <1>1, <2>1, EventsFacts
  <2> QED
    BY <1>1, <1>2, <2>2 DEF ToCome, Below
<1>3. CASE f.next # 0
  <2>1. ms \in Seq(Member) /\ Len(ms) \in Nat
    BY <1>1, EntriesType, LenProperties
  <2>2. i.limits.max_depth - f.depth \in Nat /\ Len(ms) + 1 - f.next \in 0 .. Len(ms)
    BY <1>1, <1>3, <2>1 DEF Within
  <2>3. Events(i.world)[i.limits.max_depth - f.depth] \in Below
    BY <1>1, <2>2, EventsFacts
  <2>4. LastMembers(i.world, fmt, ms, Events(i.world)[i.limits.max_depth - f.depth])
          \in [0 .. Len(ms) -> Seq(Event)]
    BY <1>1, <2>1, <2>3, LastMembersFacts DEF FromLast
  <2> QED
    BY <1>3, <2>2, <2>4 DEF ToCome
<1> QED
  BY <1>2, <1>3

\* The last call, and the others.
LEMMA ChainTop ==
  ASSUME NEW i \in Inputs, NEW s \in Seq(Frame), s # <<>>, NEW left, Chain(i, s, left)
  PROVE  /\ Len(s) \in Nat \ {0} /\ s[Len(s)] \in Frame /\ Within(i, s[Len(s)])
         /\ ToCome(i, s[Len(s)]) \in Seq(Event) /\ left[Len(s) - 1] \in Seq(Event)
         /\ left[Len(s)] = ToCome(i, s[Len(s)]) \o left[Len(s) - 1]
<1>1. Len(s) \in Nat \ {0}
  BY EmptySeq, LenProperties
<1>2. s[Len(s)] \in Frame
  BY <1>1, ElementOfSeq
<1>3. Within(i, s[Len(s)]) /\ left[Len(s)] = ToCome(i, s[Len(s)]) \o left[Len(s) - 1]
  BY <1>1 DEF Chain
<1>4. left[Len(s) - 1] \in Seq(Event)
  BY <1>1 DEF Chain
<1> QED
  BY <1>1, <1>2, <1>3, <1>4, ToComeType

\* Another frame for the running call.
LEMMA ChainRunning ==
  ASSUME NEW i \in Inputs, NEW s \in Seq(Frame), s # <<>>, NEW left, Chain(i, s, left),
         NEW f \in Frame, Within(i, f),
         NEW t, Len(t) = Len(s), t[Len(s)] = f, \A k \in 1 .. Len(s) - 1 : t[k] = s[k]
  PROVE  Gives(i, t, ToCome(i, f) \o left[Len(s) - 1])
<1> DEFINE n == Len(s)
           new == ToCome(i, f) \o left[n - 1]
           l == [k \in 0 .. n |-> IF k = n THEN new ELSE left[k]]
<1>1. n \in Nat \ {0} /\ left[n - 1] \in Seq(Event)
  BY ChainTop
<1>2. new \in Seq(Event)
  BY <1>1, ToComeType, ConcatProperties
<1> HIDE DEF new
<1>3. left \in [0 .. n -> Seq(Event)]
  BY DEF Chain
<1>4. l \in [0 .. n -> Seq(Event)]
  BY <1>2, <1>3
<1>5. l[n] = new /\ l[0] = left[0] /\ \A k \in 0 .. n - 1 : l[k] = left[k]
  BY <1>1
<1> HIDE DEF l, n
<1>6. ASSUME NEW k \in 1 .. n PROVE Within(i, t[k]) /\ l[k] = ToCome(i, t[k]) \o l[k - 1]
  <2>1. CASE k = n
    <3>1. t[k] = f /\ l[k - 1] = left[n - 1]
      BY <1>1, <1>5, <2>1 DEF n
    <3> QED
      BY <1>5, <2>1, <3>1 DEF new
  <2>2. CASE k # n
    <3>1. k \in 1 .. n - 1 /\ k - 1 \in 0 .. n - 1 /\ k \in 0 .. n - 1
      BY <1>1, <2>2
    <3>2. t[k] = s[k] /\ l[k] = left[k] /\ l[k - 1] = left[k - 1]
      BY <1>5, <3>1 DEF n
    <3>3. Within(i, s[k]) /\ left[k] = ToCome(i, s[k]) \o left[k - 1]
      BY DEF Chain, n
    <3> QED
      BY <3>2, <3>3
  <2> QED
    BY <2>1, <2>2
<1>7. Chain(i, t, l)
  BY <1>4, <1>5, <1>6 DEF Chain, n
<1> QED
  BY <1>5, <1>7 DEF n, new, Gives

\* A call on top of the running one, which has another frame.
LEMMA ChainDescend ==
  ASSUME NEW i \in Inputs, NEW s \in Seq(Frame), s # <<>>, NEW left, Chain(i, s, left),
         NEW f \in Frame, Within(i, f), NEW g \in Frame, Within(i, g),
         NEW t, Len(t) = Len(s) + 1, t[Len(s) + 1] = g, t[Len(s)] = f,
         \A k \in 1 .. Len(s) - 1 : t[k] = s[k]
  PROVE  Gives(i, t, ToCome(i, g) \o (ToCome(i, f) \o left[Len(s) - 1]))
<1> DEFINE n == Len(s)
           new == ToCome(i, f) \o left[n - 1]
           top == ToCome(i, g) \o new
           l == [k \in 0 .. n + 1 |-> IF k = n + 1 THEN top ELSE IF k = n THEN new ELSE left[k]]
<1>1. n \in Nat \ {0} /\ left[n - 1] \in Seq(Event)
  BY ChainTop
<1>2. new \in Seq(Event)
  BY <1>1, ToComeType, ConcatProperties
<1> HIDE DEF new
<1>3. top \in Seq(Event)
  BY <1>2, ToComeType, ConcatProperties
<1> HIDE DEF top
<1>4. left \in [0 .. n -> Seq(Event)]
  BY DEF Chain
<1>5. l \in [0 .. n + 1 -> Seq(Event)]
  BY <1>1, <1>2, <1>3, <1>4
<1>6. l[n + 1] = top /\ l[n] = new /\ l[0] = left[0] /\ \A k \in 0 .. n - 1 : l[k] = left[k]
  BY <1>1
<1> HIDE DEF l, n
<1>7. ASSUME NEW k \in 1 .. n + 1 PROVE Within(i, t[k]) /\ l[k] = ToCome(i, t[k]) \o l[k - 1]
  <2>1. CASE k = n + 1
    <3>1. t[k] = g /\ l[k - 1] = new
      BY <1>1, <1>6, <2>1 DEF n
    <3> QED
      BY <1>6, <2>1, <3>1 DEF top
  <2>2. CASE k = n
    <3>1. t[k] = f /\ l[k - 1] = left[n - 1]
      BY <1>1, <1>6, <2>2 DEF n
    <3> QED
      BY <1>6, <2>2, <3>1 DEF new
  <2>3. CASE k # n /\ k # n + 1
    <3>1. k \in 1 .. n - 1 /\ k - 1 \in 0 .. n - 1 /\ k \in 0 .. n - 1 /\ k \in 1 .. n
      BY <1>1, <2>3
    <3>2. t[k] = s[k] /\ l[k] = left[k] /\ l[k - 1] = left[k - 1]
      BY <1>6, <3>1 DEF n
    <3>3. Within(i, s[k]) /\ left[k] = ToCome(i, s[k]) \o left[k - 1]
      BY <3>1 DEF Chain, n
    <3> QED
      BY <3>2, <3>3
  <2> QED
    BY <2>1, <2>2, <2>3
<1>8. Chain(i, t, l)
  BY <1>5, <1>6, <1>7 DEF Chain, n
<1> QED
  BY <1>6, <1>8 DEF n, new, top, Gives

\* The calls below the running one.
LEMMA ChainReturn ==
  ASSUME NEW i \in Inputs, NEW s \in Seq(Frame), s # <<>>, NEW left, Chain(i, s, left),
         NEW t, Len(t) = Len(s) - 1, \A k \in 1 .. Len(s) - 1 : t[k] = s[k]
  PROVE  Gives(i, t, left[Len(s) - 1])
<1> DEFINE n == Len(s)
           l == [k \in 0 .. n - 1 |-> left[k]]
<1>1. n \in Nat \ {0}
  BY ChainTop
<1>2. left \in [0 .. n -> Seq(Event)] /\ left[0] = <<>>
  BY DEF Chain
<1>3. l \in [0 .. n - 1 -> Seq(Event)] /\ l[0] = <<>> /\ l[n - 1] = left[n - 1]
  BY <1>1, <1>2
<1>4. ASSUME NEW k \in 1 .. n - 1 PROVE Within(i, t[k]) /\ l[k] = ToCome(i, t[k]) \o l[k - 1]
  <2>1. k \in 1 .. n /\ k \in 0 .. n - 1 /\ k - 1 \in 0 .. n - 1
    BY <1>1
  <2>2. t[k] = s[k] /\ l[k] = left[k] /\ l[k - 1] = left[k - 1]
    BY <2>1
  <2>3. Within(i, s[k]) /\ left[k] = ToCome(i, s[k]) \o left[k - 1]
    BY <2>1 DEF Chain
  <2> QED
    BY <2>2, <2>3
<1> HIDE DEF l
<1>5. Chain(i, t, l)
  BY <1>3, <1>4 DEF Chain
<1> QED
  BY <1>3, <1>5 DEF Gives

-----------------------------------------------------------------------------
(* Every step keeps the promise *)

\* The running call has the events first to give, and the calls below it come after.
First(done, left, first) ==
  /\ Chain(in, stack, left) /\ left[Len(stack) - 1] \in Seq(Event)
  /\ Taken(EventsOf(in), in.limits, done, first \o left[Len(stack) - 1], total, entries, out)

LEMMA TopGives ==
  ASSUME Promised, TypeOK, stack # <<>>
  PROVE  /\ status = "running" /\ Top \in Frame /\ Within(in, Top)
         /\ \E done, left : First(done, left, ToCome(in, Top))
<1>1. status = "running" /\ in \in Inputs /\ stack \in Seq(Frame)
  BY DEF TypeOK
<1>2. OnTheWay(in, stack, total, entries, out)
  BY <1>1 DEF Promised
<1>3. PICK done, left :
        /\ Chain(in, stack, left)
        /\ Taken(EventsOf(in), in.limits, done, left[Len(stack)], total, entries, out)
  BY <1>2 DEF OnTheWay
<1>4. /\ Top \in Frame /\ Within(in, Top) /\ left[Len(stack) - 1] \in Seq(Event)
      /\ left[Len(stack)] = ToCome(in, Top) \o left[Len(stack) - 1]
  BY <1>1, <1>3, ChainTop DEF Top
<1>5. First(done, left, ToCome(in, Top))
  BY <1>3, <1>4 DEF First
<1> QED
  BY <1>1, <1>4, <1>5

\* An error that is the answer.
LEMMA FailAnswers ==
  ASSUME NEW e \in Errors, Fail(e), in' = in, Answer(in) = [error |-> e]
  PROVE  Promised'
<1>1. status' = e /\ e # "running" /\ e # "ok"
  BY ErrorsEnd DEF Fail
<1> QED
  BY <1>1 DEF Promised, Answered

\* Another frame for the running call, with what is still to come from it.
LEMMA RunningGives ==
  ASSUME TypeOK, stack # <<>>, status' = "running", in' = in,
         NEW left, Chain(in, stack, left), NEW f \in Frame, Within(in, f), stack' = Running(f),
         NEW done,
         Taken(EventsOf(in), in.limits, done, ToCome(in, f) \o left[Len(stack) - 1],
               total', entries', out')
  PROVE  Promised'
<1>1. in \in Inputs /\ stack \in Seq(Frame)
  BY DEF TypeOK
<1>2. /\ Len(stack') = Len(stack) /\ stack'[Len(stack)] = f
      /\ \A k \in 1 .. Len(stack) - 1 : stack'[k] = stack[k]
  BY RunningFacts
<1>3. Gives(in, stack', ToCome(in, f) \o left[Len(stack) - 1])
  BY <1>1, <1>2, ChainRunning
<1>4. OnTheWay(in, stack', total', entries', out')
  BY <1>3 DEF OnTheWay, Gives
<1> QED
  BY <1>4 DEF Promised

\* A call above the running one, which goes on in another frame.
LEMMA DescendGives ==
  ASSUME TypeOK, stack # <<>>, status' = "running", in' = in,
         NEW left, Chain(in, stack, left), NEW f \in Frame, Within(in, f),
         NEW g \in Frame, Within(in, g), stack' = Append(Running(f), g), NEW done,
         Taken(EventsOf(in), in.limits, done,
               ToCome(in, g) \o (ToCome(in, f) \o left[Len(stack) - 1]), total', entries', out')
  PROVE  Promised'
<1>1. in \in Inputs /\ stack \in Seq(Frame)
  BY DEF TypeOK
<1>2. /\ Len(stack') = Len(stack) + 1 /\ stack'[Len(stack) + 1] = g /\ stack'[Len(stack)] = f
      /\ \A k \in 1 .. Len(stack) - 1 : stack'[k] = stack[k]
  BY DescendFacts, SMTT(20)
<1>3. Gives(in, stack', ToCome(in, g) \o (ToCome(in, f) \o left[Len(stack) - 1]))
  BY <1>1, <1>2, ChainDescend
<1>4. OnTheWay(in, stack', total', entries', out')
  BY <1>3 DEF OnTheWay, Gives
<1> QED
  BY <1>4 DEF Promised

\* A return, to a caller that goes on or from the first call.
LEMMA ReturnGives ==
  ASSUME TypeOK, stack # <<>>, Return, in' = in,
         NEW left, Chain(in, stack, left), NEW done,
         Taken(EventsOf(in), in.limits, done, left[Len(stack) - 1], total', entries', out')
  PROVE  Promised'
<1>1. in \in Inputs /\ stack \in Seq(Frame) /\ Len(stack) \in Nat \ {0}
  BY RunningCall DEF TypeOK
<1>2. CASE Len(stack) = 1
  <2>1. status' = "ok" /\ left[Len(stack) - 1] = <<>>
    BY <1>2 DEF Return, Chain
  <2>2. Decide(EventsOf(in), in.limits) = [nodes |-> out']
    BY <2>1, TakenAll
  <2> QED
    BY <2>1, <2>2 DEF Promised, Answered, Answer
<1>3. CASE Len(stack) # 1
  <2>1. status' = "running"
    BY <1>3 DEF Return
  <2>2. Len(stack') = Len(stack) - 1 /\ \A k \in 1 .. Len(stack) - 1 : stack'[k] = stack[k]
    BY <1>1, FrontFacts DEF Return
  <2>3. Gives(in, stack', left[Len(stack) - 1])
    BY <1>1, <2>2, ChainReturn
  <2>4. OnTheWay(in, stack', total', entries', out')
    BY <2>3 DEF OnTheWay, Gives
  <2> QED
    BY <2>1, <2>4 DEF Promised
<1> QED
  BY <1>2, <1>3

\* The first of the events, then the others.
LEMMA FirstOne ==
  ASSUME NEW done, NEW left, NEW e \in Event, NEW more \in Seq(Event),
         First(done, left, <<e>> \o more)
  PROVE  /\ more \o left[Len(stack) - 1] \in Seq(Event)
         /\ Taken(EventsOf(in), in.limits, done, <<e>> \o (more \o left[Len(stack) - 1]),
                  total, entries, out)
<1> DEFINE one == <<e>>
           after == left[Len(stack) - 1]
<1>1. after \in Seq(Event) /\ one \in Seq(Event)
  BY OneEvent DEF First
<1>2. Taken(EventsOf(in), in.limits, done, (one \o more) \o after, total, entries, out)
  BY DEF First
<1> HIDE DEF one, after
<1>3. one \o (more \o after) = (one \o more) \o after
  BY <1>1, ConcatAssociative
<1>4. more \o after \in Seq(Event)
  BY <1>1, ConcatProperties
<1>5. Taken(EventsOf(in), in.limits, done, one \o (more \o after), total, entries, out)
  BY <1>2, <1>3
<1> QED
  BY <1>4, <1>5 DEF one, after

\* A call that has only an error to give.
LEMMA BadAnswers ==
  ASSUME TypeOK, NEW done, NEW left, NEW x \in ReadErrors \cup {"DepthExceeded"},
         First(done, left, <<Bad(x)>>), Fail(x), in' = in
  PROVE  Promised'
<1>1. Decide(EventsOf(in), in.limits) = [error |-> x]
  BY TakeBad DEF First
<1>2. x \in Errors
  BY DEF Errors, GuardErrors
<1> QED
  BY <1>1, <1>2, FailAnswers DEF Answer

LEMMA GuardDepthKeeps == TypeOK /\ Promised /\ GuardDepth => Promised'
<1> SUFFICES ASSUME TypeOK, Promised, GuardDepth PROVE Promised'
  OBVIOUS
<1>1. stack # <<>> /\ Top.next = 0 /\ TooDeep(Top) /\ Fail("DepthExceeded") /\ in' = in
  BY DEF GuardDepth
<1>2. Top \in Frame /\ Within(in, Top)
  BY <1>1, TopGives
<1>3. PICK done, left : First(done, left, ToCome(in, Top))
  BY <1>1, TopGives
<1>4. in \in Inputs /\ in.world \in World /\ in.limits.max_depth \in Nat
  BY InputsType DEF TypeOK
<1>5. in.limits.max_depth + 1 - Top.depth = 0
  BY <1>1, <1>2, <1>4 DEF Within, TooDeep, Frame
<1>6. Top.data \in Blob /\ Top.name \in Name
  BY <1>2 DEF Frame
<1>7. ToCome(in, Top) = Events(in.world)[0][Top.data][Top.name]
  BY <1>1, <1>5 DEF ToCome
<1>8. ToCome(in, Top) = <<Bad("DepthExceeded")>>
  BY <1>4, <1>6, <1>7, EventsFacts
<1> QED
  BY <1>1, <1>3, <1>8, BadAnswers

\* A call that has passed the depth guard.
LEMMA EnteredGives ==
  ASSUME TypeOK, Promised, Entered
  PROVE  /\ stack # <<>> /\ status = "running" /\ in \in Inputs /\ in.world \in World
         /\ Top \in Frame /\ Top.next = 0 /\ Top.data \in Blob /\ Top.name \in Name
         /\ Top.depth \in Nat /\ Top.depth <= in.limits.max_depth /\ in.limits.max_depth \in Nat
         /\ Events(in.world)[in.limits.max_depth - Top.depth] \in Below
         /\ \E done, left :
              First(done, left, LayerEvents(in.world, Top.data, Top.name,
                                            Events(in.world)[in.limits.max_depth - Top.depth]))
<1>1. stack # <<>> /\ Top.next = 0 /\ ~TooDeep(Top)
  BY DEF Entered
<1>2. Top \in Frame /\ status = "running"
  BY <1>1, TopGives
<1>3. PICK done, left : First(done, left, ToCome(in, Top))
  BY <1>1, TopGives
<1>4. in \in Inputs /\ in.world \in World /\ in.limits.max_depth \in Nat
  BY InputsType DEF TypeOK
<1>5. Top.data \in Blob /\ Top.name \in Name /\ Top.depth \in Nat
  BY <1>2 DEF Frame
<1>6. Top.depth <= in.limits.max_depth
  BY <1>1, <1>4, <1>5 DEF TooDeep
<1>7. /\ Events(in.world)[in.limits.max_depth - Top.depth] \in Below
      /\ ToCome(in, Top) = LayerEvents(in.world, Top.data, Top.name,
                                       Events(in.world)[in.limits.max_depth - Top.depth])
  BY <1>1, <1>2, <1>4, <1>6, LayerToCome
<1> QED
  BY <1>1, <1>2, <1>3, <1>4, <1>5, <1>6, <1>7

LEMMA PeelWrapperKeeps == TypeOK /\ Promised /\ PeelWrapper => Promised'
<1> SUFFICES ASSUME TypeOK, Promised, PeelWrapper PROVE Promised'
  OBVIOUS
<1> DEFINE r == PeelBytes(in.world, Top.data, Fmt(Top))
           f == PeeledCall(Top, r)
           below == Events(in.world)[in.limits.max_depth - Top.depth]
<1>1. Entered /\ IsCompressionWrapper(Fmt(Top)) /\ in' = in /\ entries' = entries
  BY DEF PeelWrapper
<1>2. /\ stack # <<>> /\ status = "running" /\ in \in Inputs /\ in.world \in World
      /\ Top \in Frame /\ Top.data \in Blob /\ Top.name \in Name
      /\ Top.depth \in Nat /\ Top.depth <= in.limits.max_depth /\ in.limits.max_depth \in Nat
      /\ below \in Below
  BY <1>1, EnteredGives
<1>3. PICK done, left : First(done, left, LayerEvents(in.world, Top.data, Top.name, below))
  BY <1>1, EnteredGives
<1>4. LayerEvents(in.world, Top.data, Top.name, below)
        = IF r \notin Blob THEN <<Bad(r)>>
          ELSE <<Inflated(in.world[r].size)>> \o below[r][StripCompressionExt(Top.name)]
  BY <1>1 DEF LayerEvents, Fmt
<1>5. /\ r \notin Blob => Fail(r)
      /\ r \in Blob => /\ AddInflated(Size(r))
                       /\ IF OverInflated(Size(r))
                          THEN Fail("TotalInflatedExceeded")
                          ELSE stack' = Running(f) /\ UNCHANGED <<out, emitted, status>>
  BY DEF PeelWrapper
<1>6. r \in Blob \cup ReadErrors
  BY <1>2, PeelBytesBounded
<1>7. \A b \in Blob : Size(b) \in Nat
  BY RunningCall
<1> HIDE DEF r, below
<1>8. CASE r \notin Blob
  BY <1>1, <1>3, <1>4, <1>5, <1>6, <1>8, BadAnswers
<1>9. CASE r \in Blob
  <2> DEFINE more == below[r][StripCompressionExt(Top.name)]
  <2>1. more \in Seq(Event)
    BY <1>2, <1>9, StripType DEF Below
  <2>2. First(done, left, <<Inflated(Size(r))>> \o more) /\ Size(r) \in Nat
    BY <1>3, <1>4, <1>7, <1>9 DEF Size
  <2> HIDE DEF more
  <2> DEFINE rest == more \o left[Len(stack) - 1]
  <2>3. /\ rest \in Seq(Event)
        /\ Taken(EventsOf(in), in.limits, done, <<Inflated(Size(r))>> \o rest, total, entries, out)
    BY <2>1, <2>2, EventType, FirstOne
  <2> HIDE DEF rest
  <2>4. in.limits \in Limits
    BY RunningCall
  <2>5. CASE OverInflated(Size(r))
    <3>1. Decide(EventsOf(in), in.limits) = [error |-> "TotalInflatedExceeded"]
      BY <2>2, <2>3, <2>4, <2>5, TakeInflated DEF OverInflated
    <3>2. Fail("TotalInflatedExceeded") /\ "TotalInflatedExceeded" \in Errors
      BY <1>5, <1>9, <2>5 DEF Errors, GuardErrors
    <3> QED
      BY <1>1, <3>1, <3>2, FailAnswers DEF Answer
  <2>6. CASE ~OverInflated(Size(r))
    <3>1. Taken(EventsOf(in), in.limits, done \o <<Inflated(Size(r))>>, rest,
                SatAdd(total, Size(r)), entries, out)
      BY <2>2, <2>3, <2>4, <2>6, TakeInflated DEF OverInflated
    <3>2. /\ total' = SatAdd(total, Size(r)) /\ entries' = entries /\ out' = out
          /\ status' = "running" /\ stack' = Running(f)
      BY <1>1, <1>2, <1>5, <1>9, <2>6 DEF AddInflated
    <3>3. f \in Frame
      BY <1>2, <1>9, CallType
    <3>4. /\ f.next = 0 /\ f.depth = Top.depth + 1 /\ f.data = r
          /\ f.name = StripCompressionExt(Top.name)
      BY DEF PeeledCall, Call
    <3> HIDE DEF f
    <3>5. Within(in, f)
      BY <1>2, <3>4 DEF Within
    <3>6. in.limits.max_depth + 1 - f.depth = in.limits.max_depth - Top.depth
      BY <1>2, <3>4
    <3>7. ToCome(in, f) = more
      BY <3>4, <3>6 DEF ToCome, more, below
    <3>8. Taken(EventsOf(in), in.limits, done \o <<Inflated(Size(r))>>,
                ToCome(in, f) \o left[Len(stack) - 1], total', entries', out')
      BY <3>1, <3>2, <3>7 DEF rest
    <3>9. Chain(in, stack, left)
      BY <2>2 DEF First
    <3> QED
      BY <1>1, <1>2, <3>2, <3>3, <3>5, <3>8, <3>9, RunningGives
  <2> QED
    BY <2>5, <2>6
<1> QED
  BY <1>8, <1>9

LEMMA OpenArchiveKeeps == TypeOK /\ Promised /\ OpenArchive => Promised'
<1> SUFFICES ASSUME TypeOK, Promised, OpenArchive PROVE Promised'
  OBVIOUS
<1> DEFINE f == [Top EXCEPT !.next = 1]
           ms == Entries(in.world, Top.data, Fmt(Top))
           below == Events(in.world)[in.limits.max_depth - Top.depth]
<1>1. Entered /\ IsArchive(Fmt(Top)) /\ UNCHANGED <<in, total, entries>>
  BY DEF OpenArchive
<1>2. /\ stack # <<>> /\ status = "running" /\ in \in Inputs /\ in.world \in World
      /\ Top \in Frame /\ Top.data \in Blob /\ Top.name \in Name
      /\ Top.depth \in Nat /\ Top.depth <= in.limits.max_depth /\ in.limits.max_depth \in Nat
      /\ below \in Below
  BY <1>1, EnteredGives
<1>3. PICK done, left : First(done, left, LayerEvents(in.world, Top.data, Top.name, below))
  BY <1>1, EnteredGives
<1>4. ~IsCompressionWrapper(Fmt(Top))
  BY <1>1 DEF IsArchive, IsCompressionWrapper
<1>5. LayerEvents(in.world, Top.data, Top.name, below)
        = IF Opens(in.world, Top.data, Fmt(Top))
          THEN LastMembers(in.world, Fmt(Top), ms, below)[Len(ms)] ELSE <<Bad("Open")>>
  BY <1>1, <1>4 DEF LayerEvents, Fmt
<1>6. CASE ~Opens(in.world, Top.data, Fmt(Top))
  <2>1. Fail("Open") /\ First(done, left, <<Bad("Open")>>) /\ "Open" \in ReadErrors
    BY <1>3, <1>5, <1>6 DEF OpenArchive, ReadErrors
  <2> QED
    BY <1>1, <2>1, BadAnswers
<1>7. CASE Opens(in.world, Top.data, Fmt(Top))
  <2>1. stack' = Running(f) /\ out' = out /\ status' = "running"
    BY <1>2, <1>7 DEF OpenArchive
  <2>2. f \in Frame /\ f.data = Top.data /\ f.name = Top.name /\ f.depth = Top.depth /\ f.next = 1
    BY <1>2, CallType DEF Frame
  <2>3. ms \in Seq(Member) /\ Len(ms) \in Nat
    BY <1>2, EntriesType, LenProperties
  <2> HIDE DEF f
  <2>4. Within(in, f)
    BY <1>2, <2>2, <2>3 DEF Within, Fmt
  <2>5. Len(ms) + 1 - f.next = Len(ms)
    BY <2>2, <2>3
  <2>6. ToCome(in, f) = LastMembers(in.world, Fmt(Top), ms, below)[Len(ms)]
    BY <2>2, <2>5 DEF ToCome, Fmt
  <2> HIDE DEF below, ms
  <2>7. First(done, left, ToCome(in, f))
    BY <1>3, <1>5, <1>7, <2>6
  <2>8. /\ Chain(in, stack, left)
        /\ Taken(EventsOf(in), in.limits, done, ToCome(in, f) \o left[Len(stack) - 1],
                 total', entries', out')
    BY <1>1, <2>1, <2>7 DEF First
  <2> QED
    BY <1>1, <1>2, <2>1, <2>2, <2>4, <2>8, RunningGives
<1> QED
  BY <1>6, <1>7

LEMMA LeafKeeps == TypeOK /\ Promised /\ Leaf => Promised'
<1> SUFFICES ASSUME TypeOK, Promised, Leaf PROVE Promised'
  OBVIOUS
<1> DEFINE below == Events(in.world)[in.limits.max_depth - Top.depth]
           node == LeafNode(Top)
<1>1. /\ Entered /\ Fmt(Top) = "Unknown" /\ UNCHANGED <<in, total, entries>>
      /\ out' = Append(out, node) /\ Return
  BY DEF Leaf
<1>2. stack # <<>> /\ Top \in Frame /\ Top.data \in Blob /\ Top.name \in Name
  BY <1>1, EnteredGives
<1>3. PICK done, left : First(done, left, LayerEvents(in.world, Top.data, Top.name, below))
  BY <1>1, EnteredGives
<1>4. ~IsCompressionWrapper(Fmt(Top)) /\ ~IsArchive(Fmt(Top))
  BY <1>1 DEF IsArchive, IsCompressionWrapper
<1>5. LayerEvents(in.world, Top.data, Top.name, below) = <<Found(node)>>
  BY <1>4 DEF LayerEvents, Fmt, LeafNode
<1>6. node \in TreeNode
  <2>1. <<EmptyPiece>> \in Name
    BY ContentAssumption DEF Name
  <2> QED
    BY <1>2, <2>1 DEF LeafNode, TreeNode
<1> HIDE DEF below, node
<1>7. /\ Chain(in, stack, left) /\ left[Len(stack) - 1] \in Seq(Event)
      /\ Taken(EventsOf(in), in.limits, done, <<Found(node)>> \o left[Len(stack) - 1],
               total, entries, out)
  BY <1>3, <1>5 DEF First
<1>8. Taken(EventsOf(in), in.limits, done \o <<Found(node)>>, left[Len(stack) - 1],
            total', entries', out')
  BY <1>1, <1>6, <1>7, TakeFound
<1> QED
  BY <1>1, <1>2, <1>7, <1>8, ReturnGives

\* The member the loop is at: what it gives, and what comes after it.
LEMMA AtMemberGives ==
  ASSUME TypeOK, Promised, AtMember,
         NEW m, m = Members(Top)[Top.next],
         NEW below, below = Events(in.world)[in.limits.max_depth - Top.depth],
         NEW inside, inside = InMember(in.world, Fmt(Top), m, below)
  PROVE  /\ stack # <<>> /\ status = "running" /\ in \in Inputs /\ in.world \in Worlds
         /\ in.world \in World /\ in.limits \in Limits /\ in.limits.max_depth \in Nat
         /\ Top \in Frame /\ Top.data \in Blob /\ Top.depth \in Nat
         /\ Top.depth <= in.limits.max_depth
         /\ m \in Member /\ below \in Below /\ Advance(Top) \in Frame
         /\ Within(in, Advance(Top)) /\ ToCome(in, Advance(Top)) \in Seq(Event)
         /\ inside \in Seq(Event)
         /\ \E done, left :
              First(done, left, <<Seen>> \o (inside \o ToCome(in, Advance(Top))))
<1>1. stack # <<>> /\ Top.next \in DOMAIN Members(Top)
  BY DEF AtMember
<1>2. Top \in Frame /\ status = "running" /\ Within(in, Top)
  BY <1>1, TopGives
<1>3. PICK done, left : First(done, left, ToCome(in, Top))
  BY <1>1, TopGives
<1>4. /\ in \in Inputs /\ in.world \in World /\ in.world \in Worlds /\ in.limits \in Limits
      /\ in.limits.max_depth \in Nat
  BY InputsType DEF TypeOK
<1>5. Top.data \in Blob /\ Top.depth \in Nat /\ Top.next \in Nat
  BY <1>2 DEF Frame
<1>6. Fmt(Top) = SniffBlob(in.world, Top.data, Top.name)
      /\ Members(Top) = Entries(in.world, Top.data, Fmt(Top))
  BY DEF Fmt, Members
<1>7. /\ below \in Below /\ m \in Member
      /\ Within(in, Advance(Top)) /\ ToCome(in, Advance(Top)) \in Seq(Event)
      /\ ToCome(in, Top) = MemberEvents(in.world, Fmt(Top), m, below) \o ToCome(in, Advance(Top))
  BY <1>1, <1>2, <1>4, <1>6, MemberToCome
<1>8. inside \in Seq(Event) /\ MemberEvents(in.world, Fmt(Top), m, below) = <<Seen>> \o inside
  BY <1>4, <1>7, MemberEventsType
<1>9. Top.depth <= in.limits.max_depth
  <2>1. Members(Top) \in Seq(Member)
    BY <1>4, <1>5, <1>6, EntriesType
  <2>2. Top.next # 0
    BY <1>1, <2>1, LenProperties
  <2> QED
    BY <1>2, <2>2 DEF Within
<1>10. Advance(Top) \in Frame
  BY <1>2, CallType
<1>11. ToCome(in, Top) = <<Seen>> \o (inside \o ToCome(in, Advance(Top)))
  <2> DEFINE one == <<Seen>>
             after == ToCome(in, Advance(Top))
  <2>1. one \in Seq(Event) /\ inside \in Seq(Event) /\ after \in Seq(Event)
    BY <1>7, <1>8, EventType, OneEvent
  <2>2. ToCome(in, Top) = (one \o inside) \o after
    BY <1>7, <1>8
  <2> HIDE DEF one, after
  <2>3. (one \o inside) \o after = one \o (inside \o after)
    BY <2>1, ConcatAssociative
  <2> QED
    BY <2>2, <2>3 DEF one, after
<1>12. \E d, l : First(d, l, <<Seen>> \o (inside \o ToCome(in, Advance(Top))))
  BY <1>3, <1>11
<1> QED
  BY <1>1, <1>2, <1>4, <1>5, <1>7, <1>8, <1>9, <1>10, <1>12


\* Once the member is counted there is what is in it.
CountGives(done, left, inside) ==
  /\ Chain(in, stack, left) /\ left[Len(stack) - 1] \in Seq(Event)
  /\ Taken(EventsOf(in), in.limits, done,
           inside \o (ToCome(in, Advance(Top)) \o left[Len(stack) - 1]),
           total, SatAdd(entries, 1), out)

\* A member is counted, or is one too many.
LEMMA MemberCounts ==
  ASSUME TypeOK, NEW done, NEW left, NEW inside \in Seq(Event),
         ToCome(in, Advance(Top)) \in Seq(Event),
         First(done, left, <<Seen>> \o (inside \o ToCome(in, Advance(Top))))
  PROVE  /\ OverEntries => Decide(EventsOf(in), in.limits) = [error |-> "TooManyEntries"]
         /\ ~OverEntries => CountGives(done \o <<Seen>>, left, inside)
<1> DEFINE after == ToCome(in, Advance(Top))
           rest == left[Len(stack) - 1]
<1> HIDE DEF after
<1>1. inside \o after \in Seq(Event)
  BY ConcatProperties DEF after
<1>2. First(done, left, <<Seen>> \o (inside \o after))
  BY DEF after
<1>3. Taken(EventsOf(in), in.limits, done, <<Seen>> \o ((inside \o after) \o rest), total, entries, out)
  BY <1>1, <1>2, EventType, FirstOne
<1>4. rest \in Seq(Event) /\ Chain(in, stack, left)
  BY DEF First
<1> HIDE DEF rest
<1>5. (inside \o after) \o rest = inside \o (after \o rest) /\ inside \o (after \o rest) \in Seq(Event)
  BY <1>4, ConcatAssociative, ConcatProperties DEF after
<1>6. Taken(EventsOf(in), in.limits, done, <<Seen>> \o (inside \o (after \o rest)), total, entries, out)
  BY <1>3, <1>5
<1>7. in.limits \in Limits
  BY RunningCall
<1>8. OverEntries => Decide(EventsOf(in), in.limits) = [error |-> "TooManyEntries"]
  BY <1>5, <1>6, <1>7, TakeSeen DEF OverEntries
<1>9. ASSUME ~OverEntries
      PROVE  Taken(EventsOf(in), in.limits, done \o <<Seen>>, inside \o (after \o rest),
                   total, SatAdd(entries, 1), out)
  BY <1>5, <1>6, <1>7, <1>9, TakeSeen DEF OverEntries
<1> QED
  BY <1>4, <1>8, <1>9 DEF CountGives, after, rest

LEMMA EntryOverBudgetKeeps == TypeOK /\ Promised /\ EntryOverBudget => Promised'
<1> SUFFICES ASSUME TypeOK, Promised, EntryOverBudget PROVE Promised'
  OBVIOUS
<1> DEFINE m == Members(Top)[Top.next]
           below == Events(in.world)[in.limits.max_depth - Top.depth]
           inside == InMember(in.world, Fmt(Top), m, below)
<1>1. AtMember /\ OverEntries /\ Fail("TooManyEntries") /\ in' = in
  BY DEF EntryOverBudget, CountMember
<1>2. inside \in Seq(Event) /\ ToCome(in, Advance(Top)) \in Seq(Event)
  BY <1>1, AtMemberGives
<1>3. PICK done, left : First(done, left, <<Seen>> \o (inside \o ToCome(in, Advance(Top))))
  BY <1>1, AtMemberGives
<1> HIDE DEF inside
<1>4. Decide(EventsOf(in), in.limits) = [error |-> "TooManyEntries"]
  BY <1>1, <1>2, <1>3, MemberCounts
<1>5. "TooManyEntries" \in Errors
  BY DEF Errors, GuardErrors
<1> QED
  BY <1>1, <1>4, <1>5, FailAnswers DEF Answer

LEMMA DirMemberKeeps == TypeOK /\ Promised /\ DirMember => Promised'
<1> SUFFICES ASSUME TypeOK, Promised, DirMember PROVE Promised'
  OBVIOUS
<1> DEFINE m == Members(Top)[Top.next]
           below == Events(in.world)[in.limits.max_depth - Top.depth]
           inside == InMember(in.world, Fmt(Top), m, below)
           f == Advance(Top)
           node == DirNode(m)
<1>1. /\ AtMember /\ ~OverEntries /\ m.isDir /\ entries' = SatAdd(entries, 1)
      /\ out' = Append(out, node) /\ stack' = Running(f) /\ UNCHANGED <<in, total, status>>
  BY DEF DirMember, CountMember
<1>2. /\ stack # <<>> /\ status = "running" /\ m \in Member /\ f \in Frame /\ Within(in, f)
      /\ ToCome(in, f) \in Seq(Event) /\ inside \in Seq(Event)
  BY <1>1, AtMemberGives
<1>3. PICK done, left : First(done, left, <<Seen>> \o (inside \o ToCome(in, f)))
  BY <1>1, AtMemberGives
<1>4. CountGives(done \o <<Seen>>, left, inside)
  BY <1>1, <1>2, <1>3, MemberCounts
<1>5. inside = <<Found(node)>>
  BY <1>1 DEF InMember, DirNode
<1>6. node \in TreeNode
  BY <1>2 DEF DirNode, TreeNode, Member
<1> HIDE DEF inside, node
<1> DEFINE rest == ToCome(in, f) \o left[Len(stack) - 1]
<1>7. /\ Chain(in, stack, left) /\ rest \in Seq(Event)
      /\ Taken(EventsOf(in), in.limits, done \o <<Seen>>, <<Found(node)>> \o rest,
               total, SatAdd(entries, 1), out)
  BY <1>2, <1>4, <1>5, ConcatProperties DEF CountGives
<1> HIDE DEF rest
<1>8. Taken(EventsOf(in), in.limits, (done \o <<Seen>>) \o <<Found(node)>>, rest,
            total', entries', out')
  BY <1>1, <1>6, <1>7, TakeFound
<1>9. status' = "running"
  BY <1>1, <1>2
<1> HIDE DEF f
<1> QED
  BY <1>1, <1>2, <1>7, <1>8, <1>9, RunningGives DEF rest

\* A read gives what the tree has at that member.
LEMMA ReadGives ==
  ASSUME NamesDiffer, NEW w \in Worlds, NEW b \in Blob, NEW fmt,
         NEW i \in DOMAIN Entries(w, b, fmt), NEW r \in ReadMember(w, b, fmt, i),
         NEW m, m = Entries(w, b, fmt)[i]
  PROVE  r = IF fmt = "SevenZip" /\ m.size > MaxInflated THEN "TooLarge" ELSE ReadBody(w, m.data)
<1>1. CASE fmt = "SevenZip" /\ m.size > MaxInflated
  BY <1>1 DEF ReadMember
<1>2. CASE ~(fmt = "SevenZip" /\ m.size > MaxInflated)
  <2>1. PICK j \in ReadTargets(w, b, fmt, i) : r = ReadBody(w, Entries(w, b, fmt)[j].data)
    BY <1>2 DEF ReadMember
  <2>2. j = i
    BY <2>1, OneTarget
  <2> QED
    BY <1>2, <2>1, <2>2
<1> QED
  BY <1>1, <1>2

LEMMA FileMemberKeeps == NamesDiffer /\ TypeOK /\ Promised /\ FileMember => Promised'
<1> SUFFICES ASSUME NamesDiffer, TypeOK, Promised, FileMember PROVE Promised'
  OBVIOUS
<1> DEFINE m == Members(Top)[Top.next]
           below == Events(in.world)[in.limits.max_depth - Top.depth]
           inside == InMember(in.world, Fmt(Top), m, below)
           f == Advance(Top)
<1>1. AtMember /\ ~OverEntries /\ ~m.isDir /\ entries' = SatAdd(entries, 1) /\ in' = in
  BY DEF FileMember, CountMember
<1>2. /\ stack # <<>> /\ status = "running" /\ m \in Member /\ f \in Frame /\ Within(in, f)
      /\ ToCome(in, f) \in Seq(Event) /\ inside \in Seq(Event) /\ below \in Below
      /\ in.world \in Worlds /\ Top.data \in Blob /\ Top.depth \in Nat
      /\ in.limits \in Limits /\ in.limits.max_depth \in Nat /\ Top.depth <= in.limits.max_depth
  BY <1>1, AtMemberGives
<1>3. PICK done, left : First(done, left, <<Seen>> \o (inside \o ToCome(in, f)))
  BY <1>1, AtMemberGives
<1>4. CountGives(done \o <<Seen>>, left, inside)
  BY <1>1, <1>2, <1>3, MemberCounts
<1>5. PICK r \in ReadMember(in.world, Top.data, Fmt(Top), Top.next) :
         IF r \notin Blob
         THEN Fail(r) /\ UNCHANGED total
         ELSE /\ AddInflated(Size(r))
              /\ IF OverInflated(Size(r))
                 THEN Fail("TotalInflatedExceeded")
                 ELSE /\ Descend(r, m.name)
                      /\ UNCHANGED <<out, emitted, status>>
  BY DEF FileMember
<1>6. r = IF Fmt(Top) = "SevenZip" /\ m.size > MaxInflated THEN "TooLarge"
          ELSE ReadBody(in.world, m.data)
  BY <1>1, <1>2, ReadGives DEF AtMember, Members
<1>7. inside = IF r \notin Blob THEN <<Bad(r)>>
               ELSE <<Inflated(in.world[r].size)>> \o below[r][m.name]
  BY <1>1, <1>6 DEF InMember
<1>8. r \in Blob \cup ReadErrors
  BY <1>1, MemberFacts
<1>9. m.name \in Name
  BY <1>2 DEF Member
<1> HIDE DEF inside, below
<1> DEFINE rest == ToCome(in, f) \o left[Len(stack) - 1]
<1>10. /\ Chain(in, stack, left) /\ rest \in Seq(Event)
       /\ Taken(EventsOf(in), in.limits, done \o <<Seen>>, inside \o rest,
                total, SatAdd(entries, 1), out)
  BY <1>2, <1>4, ConcatProperties DEF CountGives
<1> HIDE DEF rest
<1>11. CASE r \notin Blob
  <2>1. Decide(EventsOf(in), in.limits) = [error |-> r]
    BY <1>7, <1>8, <1>10, <1>11, TakeBad
  <2> QED
    BY <1>1, <1>5, <1>8, <1>11, <2>1, FailAnswers DEF Answer, Errors
<1>12. CASE r \in Blob
  <2> DEFINE more == below[r][m.name]
             one == <<Inflated(Size(r))>>
  <2>1. more \in Seq(Event) /\ Size(r) \in Nat
    BY <1>2, <1>9, <1>12, RunningCall DEF Below
  <2>2. one \in Seq(Event) /\ inside = one \o more
    BY <1>7, <1>12, <2>1, EventType, OneEvent DEF Size
  <2> HIDE DEF more, one
  <2>3. inside \o rest = one \o (more \o rest) /\ more \o rest \in Seq(Event)
    <3>1. one \in Seq(Event) /\ more \in Seq(Event) /\ rest \in Seq(Event)
      BY <1>10, <2>1, <2>2
    <3>2. (one \o more) \o rest = one \o (more \o rest)
      BY <3>1, ConcatAssociative
    <3> QED
      BY <2>2, <3>1, <3>2, ConcatProperties
  <2>4. Taken(EventsOf(in), in.limits, done \o <<Seen>>, <<Inflated(Size(r))>> \o (more \o rest),
              total, SatAdd(entries, 1), out)
    BY <1>10, <2>3 DEF one
  <2>5. CASE OverInflated(Size(r))
    <3>1. Decide(EventsOf(in), in.limits) = [error |-> "TotalInflatedExceeded"]
      BY <1>2, <2>1, <2>3, <2>4, <2>5, TakeInflated DEF OverInflated
    <3>2. Fail("TotalInflatedExceeded") /\ "TotalInflatedExceeded" \in Errors
      BY <1>5, <1>12, <2>5 DEF Errors, GuardErrors
    <3> QED
      BY <1>1, <3>1, <3>2, FailAnswers DEF Answer
  <2>6. CASE ~OverInflated(Size(r))
    <3> DEFINE g == Call(r, m.name, Top.depth + 1)
    <3>1. Taken(EventsOf(in), in.limits, (done \o <<Seen>>) \o <<Inflated(Size(r))>>, more \o rest,
                SatAdd(total, Size(r)), SatAdd(entries, 1), out)
      BY <1>2, <2>1, <2>3, <2>4, <2>6, TakeInflated DEF OverInflated
    <3>2. /\ total' = SatAdd(total, Size(r)) /\ out' = out
          /\ status' = "running" /\ stack' = Append(Running(f), g)
      BY <1>2, <1>5, <1>12, <2>6 DEF AddInflated, Descend
    <3>3. g \in Frame
      BY <1>2, <1>9, <1>12, CallType
    <3>4. g.next = 0 /\ g.depth = Top.depth + 1 /\ g.data = r /\ g.name = m.name
      BY DEF Call
    <3> HIDE DEF g, f
    <3>5. Within(in, g)
      BY <1>2, <3>4 DEF Within
    <3>6. in.limits.max_depth + 1 - g.depth = in.limits.max_depth - Top.depth
      BY <1>2, <3>4
    <3>7. ToCome(in, g) = more
      BY <3>4, <3>6 DEF ToCome, more, below
    <3>8. Taken(EventsOf(in), in.limits, (done \o <<Seen>>) \o <<Inflated(Size(r))>>,
                ToCome(in, g) \o (ToCome(in, f) \o left[Len(stack) - 1]), total', entries', out')
      BY <1>1, <3>1, <3>2, <3>7 DEF rest
    <3> QED
      BY <1>1, <1>2, <1>10, <3>2, <3>3, <3>5, <3>8, DescendGives
  <2> QED
    BY <2>5, <2>6
<1> QED
  BY <1>11, <1>12

LEMMA EndMembersKeeps == SafeInv /\ Promised /\ EndMembers => Promised'
<1> SUFFICES ASSUME SafeInv, Promised, EndMembers PROVE Promised'
  OBVIOUS
<1> DEFINE ms == Entries(in.world, Top.data, Fmt(Top))
           below == Events(in.world)[in.limits.max_depth - Top.depth]
<1>1. stack # <<>> /\ Top.next > Len(ms) /\ Return /\ UNCHANGED <<in, total, entries, out>>
  BY DEF EndMembers, Members
<1>2. TypeOK
  BY DEF SafeInv
<1>3. Top \in Frame /\ Within(in, Top)
  BY <1>1, <1>2, TopGives
<1>4. PICK done, left : First(done, left, ToCome(in, Top))
  BY <1>1, <1>2, TopGives
<1>5. in \in Inputs /\ in.world \in World /\ in.limits.max_depth \in Nat
  BY <1>2, InputsType DEF TypeOK
<1>6. Top.data \in Blob /\ Top.depth \in Nat /\ Top.next \in Nat
  BY <1>3 DEF Frame
<1>7. ms \in Seq(Member) /\ Len(ms) \in Nat
  BY <1>5, <1>6, EntriesType, LenProperties
<1>8. Top.depth <= in.limits.max_depth /\ Len(ms) + 1 - Top.next = 0 /\ Top.next # 0
  BY <1>1, <1>3, <1>6, <1>7 DEF Within, Fmt
<1>9. below \in Below
  BY <1>5, <1>6, <1>8, EventsFacts
<1>10. ToCome(in, Top) = LastMembers(in.world, Fmt(Top), ms, below)[0]
  BY <1>8 DEF ToCome, Fmt
<1> HIDE DEF ms, below
<1>11. ToCome(in, Top) = <<>>
  BY <1>5, <1>7, <1>9, <1>10, LastMembersFacts DEF FromLast
<1>12. /\ Chain(in, stack, left)
       /\ Taken(EventsOf(in), in.limits, done, <<>> \o left[Len(stack) - 1], total, entries, out)
       /\ <<>> \o left[Len(stack) - 1] = left[Len(stack) - 1]
  BY <1>4, <1>11, ConcatEmptySeq DEF First
<1>13. Taken(EventsOf(in), in.limits, done, left[Len(stack) - 1], total', entries', out')
  BY <1>1, <1>12
<1> QED
  BY <1>1, <1>2, <1>12, <1>13, ReturnGives

\* Every step does: it leaves what is still to come as the tree has it.
LEMMA PromiseStep ==
  ASSUME NamesDiffer, SafeInv, Promised, [Next]_vars
  PROVE  Promised'
<1>1. TypeOK
  BY DEF SafeInv
<1>2. CASE UNCHANGED vars
  BY <1>2 DEF vars, Promised, Answered
<1> QED
  BY <1>1, <1>2, GuardDepthKeeps, PeelWrapperKeeps, OpenArchiveKeeps, EntryOverBudgetKeeps,
     DirMemberKeeps, FileMemberKeeps, EndMembersKeeps, LeafKeeps DEF Next

LEMMA PromiseInit == Init => Promised
<1> SUFFICES ASSUME Init PROVE Promised
  OBVIOUS
<1> DEFINE evs == EventsOf(in)
           left == [k \in 0 .. 1 |-> IF k = 0 THEN <<>> ELSE evs]
           f == Call(in.root, in.name, 0)
<1>1. in \in Inputs /\ status = "running" /\ total = 0 /\ entries = 0 /\ out = <<>>
  BY DEF Init
<1>2. evs \in Seq(Event) /\ in.limits \in Limits /\ in.limits.max_depth \in Nat
  BY <1>1, InputsType
<1>3. f.next = 0 /\ f.depth = 0 /\ f.data = in.root /\ f.name = in.name
  BY DEF Call
<1>4. stack = <<f>>
  BY DEF Init
<1>5. Len(stack) = 1 /\ stack[1] = f
  BY <1>4
<1> HIDE DEF f
<1>6. Within(in, f) /\ ToCome(in, f) = evs
  BY <1>2, <1>3 DEF Within, ToCome, EventsOf
<1> HIDE DEF evs
<1>7. left \in [0 .. 1 -> Seq(Event)] /\ left[0] = <<>> /\ left[1] = evs
  BY <1>2, EmptySeq
<1> HIDE DEF left
<1>8. left[1] = evs \o left[0]
  BY <1>2, <1>7, ConcatEmptySeq
<1>9. Chain(in, stack, left)
  BY <1>5, <1>6, <1>7, <1>8 DEF Chain
<1>10. Taken(EventsOf(in), in.limits, <<>>, left[Len(stack)], total, entries, out)
  BY <1>1, <1>2, <1>5, <1>7, TakenNone DEF evs
<1> QED
  BY <1>1, <1>9, <1>10 DEF Promised, OnTheWay

-----------------------------------------------------------------------------
(* Refinement *)

\* Where a step ends resolve(), it gives the answer; else the caller sees nothing.
LEMMA ReplyStep ==
  ASSUME TypeOK, Promised', [Next]_vars
  PROVE  [Abstract!Reply]_<<in, Answered>>
<1>1. CASE UNCHANGED vars
  BY <1>1 DEF vars, Answered
<1>2. CASE Next
  <2>1. stack # <<>> /\ in' = in
    BY <1>2 DEF Next, GuardDepth, PeelWrapper, OpenArchive, EntryOverBudget, DirMember,
                FileMember, EndMembers, Leaf, CountMember, AtMember, Entered
  <2>2. status = "running"
    BY <2>1 DEF TypeOK
  <2>3. Answered = [pending |-> TRUE]
    BY <2>2 DEF Answered
  <2>4. CASE status' = "running"
    BY <2>1, <2>3, <2>4 DEF Answered
  <2>5. CASE status' # "running"
    <3>1. Answered' = Answer(in)
      BY <2>1, <2>5 DEF Promised
    <3> QED
      BY <2>1, <2>3, <3>1 DEF Abstract!Reply, Abstract!Pending
  <2> QED
    BY <2>4, <2>5
<1> QED
  BY <1>1, <1>2

\* resolve() gives the one answer its packing tree and limits determine, or does not
\* return: where no 7z archive has two members of one name, the recursion over the
\* budget implements the specification that has neither.
THEOREM KeepsItsPromise == ASSUME NamesDiffer PROVE Spec => AnswersAsPromised
<1>1. Init => Abstract!Init
  BY DEF Init, Abstract!Init, Abstract!Pending, Answered
<1>2. Init => Promised
  BY PromiseInit
<1>3. SafeInv /\ Promised /\ [Next]_vars => Promised'
  BY PromiseStep
<1>4. SafeInv /\ Promised' /\ [Next]_vars => [Abstract!Reply]_<<in, Answered>>
  BY ReplyStep DEF SafeInv
<1> QED
  BY <1>1, <1>2, <1>3, <1>4, Safe, PTL DEF Spec, AnswersAsPromised, Abstract!Spec

-----------------------------------------------------------------------------
(* Transparency *)

\* A tar does not begin with the magic of something else, unless ustar tells it from a
\* gzip or bzip2 stream; sniff looks for 7z and zip first.
TarsLookLikeTars ==
  \A w \in Worlds : \A b \in Blob :
    w[b].kind = "tar" => w[b].lead = "none" \/ (w[b].ustar /\ w[b].lead \notin {"7z", "zip"})

\* j asks for what is in the layer i asks for, packed as its name says.
Unpacks(i, j) ==
  LET fmt == SniffBlob(i.world, i.root, i.name)
      inner == Streamed(i.world, CodecOf(fmt), i.root)
  IN /\ fmt \in {"Gzip", "Bzip2", "TarGz", "TarBz2"}
     /\ EndsAny(i.name, {<<"gz">>, <<"bz2">>, <<"z">>})
     /\ j = [i EXCEPT !.root = inner, !.name = Front(i.name)]

\* A layer's answer with nodes is the answer of what is in it, under the name without
\* the codec's extension.
LEMMA UnpackedAnswer ==
  ASSUME TarsLookLikeTars, NEW i \in Inputs, NEW nodes, Answer(i) = [nodes |-> nodes],
         NEW j, Unpacks(i, j)
  PROVE  Answer(j) = [nodes |-> nodes]
<1> DEFINE fmt == SniffBlob(i.world, i.root, i.name)
           inner == Streamed(i.world, CodecOf(fmt), i.root)
           w == i.world
           n == i.limits.max_depth
           base == Events(w)[n]
           front == Front(i.name)
           layer == LayerEvents(w, i.root, i.name, base)
<1>0. /\ fmt \in {"Gzip", "Bzip2", "TarGz", "TarBz2"}
      /\ EndsAny(i.name, {<<"gz">>, <<"bz2">>, <<"z">>})
      /\ j = [i EXCEPT !.root = inner, !.name = front]
  BY DEF Unpacks
<1>1. /\ w \in World /\ w \in Worlds /\ i.root \in Blob /\ i.name \in Name /\ n \in Nat
      /\ i.limits \in Limits /\ EventsOf(i) \in Seq(Event)
  BY InputsType
<1>2. base \in Below /\ EventsOf(i) = layer
  BY <1>1, EventsFacts DEF EventsOf
<1>3. layer \in Seq(Event) /\ ErrorFree(layer) /\ Decide(layer, i.limits) = [nodes |-> nodes]
  BY <1>1, <1>2, NodesAnswer DEF Answer
<1>4. front = StripCompressionExt(i.name) /\ front \in Name
  BY <1>0, <1>1, StripType DEF StripCompressionExt
<1>5. j.world = w /\ j.limits = i.limits /\ j.root = inner /\ j.name = front
  BY <1>0 DEF Inputs
<1>6. Answer(j) = Decide(Events(w)[n + 1][inner][front], i.limits)
  BY <1>5 DEF Answer, EventsOf
<1>7. \A x : ~ErrorFree(<<Bad(x)>>)
  <2> SUFFICES ASSUME NEW x PROVE ~ErrorFree(<<Bad(x)>>)
    OBVIOUS
  <2> DEFINE e == Bad(x)
  <2>1. e.kind = "error"
    BY DEF Bad
  <2> HIDE DEF e
  <2>2. Len(<<e>>) = 1 /\ <<e>>[1] = e
    OBVIOUS
  <2> QED
    BY <2>1, <2>2 DEF ErrorFree, e
<1>8. CASE fmt \in {"Gzip", "Bzip2"}
  <2> DEFINE r == PeelBytes(w, i.root, fmt)
             more == base[r][front]
  <2>1. layer = IF r \notin Blob THEN <<Bad(r)>> ELSE <<Inflated(w[r].size)>> \o more
    BY <1>4, <1>8 DEF LayerEvents, IsCompressionWrapper
  <2> HIDE DEF r
  <2>2. r \in Blob
    BY <1>3, <1>7, <2>1
  <2>3. r = inner
    BY <1>1, <2>2, PeeledIsStreamed DEF r
  <2>4. more \in Seq(Event) /\ w[r].size \in Nat
    BY <1>1, <1>2, <1>4, <2>2 DEF Below, World
  <2>5. Decide(<<Inflated(w[r].size)>> \o more, i.limits) = [nodes |-> nodes]
    BY <1>3, <2>1, <2>2
  <2> HIDE DEF layer, more, w, n, base, front
  <2>6. ErrorFree(more) /\ Decide(more, i.limits) = [nodes |-> nodes]
    BY <1>1, <2>4, <2>5, SameNodes
  <2>7. Agree(base, Events(w)[n + 1])
    BY <1>1, LevelsAgree DEF base
  <2>8. Events(w)[n + 1][inner][front] = more
    BY <1>4, <2>2, <2>3, <2>6, <2>7 DEF Agree, more
  <2> QED
    BY <1>6, <2>6, <2>8
<1>9. CASE fmt \in {"TarGz", "TarBz2"}
  <2> DEFINE ms == Entries(w, i.root, fmt)
  <2>1. /\ IsArchive(fmt) /\ ~IsCompressionWrapper(fmt) /\ fmt # "SevenZip"
        /\ ContainerStream(w, i.root, fmt) = inner /\ ContainerKind(fmt) = "tar"
    BY <1>9 DEF IsArchive, IsCompressionWrapper, ContainerStream, ContainerKind
  <2>2. Opens(w, i.root, fmt)
    BY <1>3, <1>7, <2>1 DEF LayerEvents
  <2>3. inner # NoBlob /\ w[inner].kind = "tar" /\ ms = w[inner].members
    BY <2>1, <2>2 DEF Opens, Entries
  <2>4. inner \in Blob
    BY <1>1, <2>3, StreamedType
  <2>5. layer = LastMembers(w, fmt, ms, base)[Len(ms)]
    BY <2>1, <2>2 DEF LayerEvents
  <2>6. EndsAny(i.name, TarGzNames) \/ EndsAny(i.name, TarBz2Names)
    BY <1>9 DEF SniffBlob, Sniff, SniffCodec, SniffName
  <2>7. Len(i.name) > 2 /\ i.name[Len(i.name) - 1] = "tar"
    BY <1>0, <1>1, <2>6, PackedTarName
  <2>8. Len(front) > 1 /\ front[Len(front)] = "tar"
    <3>1. i.name \in Seq(Piece) /\ i.name # <<>> /\ Len(i.name) \in Nat
      BY <1>1, <2>7, LenProperties DEF Name
    <3>2. Len(front) = Len(i.name) - 1 /\ \A k \in 1 .. Len(i.name) - 1 : front[k] = i.name[k]
      BY <3>1, FrontFacts
    <3> QED
      BY <2>7, <3>1, <3>2
  <2>9. SniffBlob(w, inner, front) = "Tar"
    <3>1. /\ w[inner].ustar \in BOOLEAN
          /\ w[inner].lead = "none" \/ (w[inner].ustar /\ w[inner].lead \notin {"7z", "zip"})
      BY <1>1, <2>3, <2>4 DEF TarsLookLikeTars, World
    <3> QED
      BY <1>4, <2>8, <3>1, TarIsSniffed DEF SniffBlob
  <2>10. Opens(w, inner, "Tar") /\ Entries(w, inner, "Tar") = ms
    BY <2>3 DEF Opens, Entries, ContainerStream, ContainerKind, IsArchive
  <2>11. LayerEvents(w, inner, front, base) = LastMembers(w, "Tar", ms, base)[Len(ms)]
    BY <2>9, <2>10 DEF LayerEvents, IsArchive, IsCompressionWrapper
  <2>12. ms \in Seq(Member) /\ Agree(base, base)
    BY <1>1, EntriesType DEF Agree
  <2> HIDE DEF ms, layer, w, n, base, front
  <2>13. LastMembers(w, "Tar", ms, base)[Len(ms)] = layer
    BY <1>1, <1>2, <1>3, <2>1, <2>5, <2>12, LastAgree
  <2>14. Events(w)[n + 1][inner][front] = layer
    BY <1>1, <1>4, <2>4, <2>11, <2>13, EventsFacts DEF base
  <2> QED
    BY <1>3, <1>6, <2>14
<1> QED
  BY <1>0, <1>8, <1>9

\* A gzip, a bzip2, a .tar.gz and a .tar.bz2 resolve like what is in them: an answer
\* with nodes is the one that the unpacked bytes have under the name without the last
\* extension, whatever the layers below.
THEOREM PackingIsTransparent == ASSUME NamesDiffer, TarsLookLikeTars PROVE Spec => []Transparent
<1>1. Init => Promised
  BY PromiseInit
<1>2. SafeInv /\ Promised /\ [Next]_vars => Promised'
  BY PromiseStep
<1>3. SafeInv /\ Promised => Transparent
  <2> SUFFICES ASSUME SafeInv, Promised PROVE Transparent
    OBVIOUS
  <2>1. in \in Inputs
    BY DEF SafeInv, TypeOK
  <2>2. status = "ok" => Answer(in) = [nodes |-> out]
    BY DEF Promised, Answered
  <2> DEFINE inner == Streamed(in.world, CodecOf(SniffBlob(in.world, in.root, in.name)), in.root)
             j == [in EXCEPT !.root = inner, !.name = Front(in.name)]
  <2>3. ASSUME status = "ok", Unpacks(in, j) PROVE Answer(j) = [nodes |-> out]
    BY <2>1, <2>2, <2>3, UnpackedAnswer
  <2> QED
    BY <2>3 DEF Transparent, Unpacks
<1> QED
  BY <1>1, <1>2, <1>3, Safe, PTL DEF Spec
=============================================================================
