------------------------------ MODULE Resolve ------------------------------
(***************************************************************************)
(* Recursive peeling under cumulative bomb guards (core/src/resolve.rs).   *)
(*                                                                         *)
(* resolve_into calls itself: the model keeps its pending calls as an      *)
(* explicit stack of frames, and a step is what one call does between two  *)
(* calls of itself.  A frame's next is 0 until the call has sniffed its    *)
(* data, then the index of the member its loop takes next.  After the      *)
(* recursive call of the wrapper branch nothing is left to do but return   *)
(* Ok, so that call takes its caller's frame.                              *)
(*                                                                         *)
(* Any error unwinds every pending call with `?`: resolve returns it, and  *)
(* the nodes and the budget are dropped with the frames.  The model keeps  *)
(* the budget as it was when the guard tripped.                            *)
(***************************************************************************)
EXTENDS Content, Budget

CONSTANTS Worlds, Roots, Names, LimitSet    \* the calls of resolve() considered

Inputs == [world : Worlds, root : Roots, name : Names, limits : LimitSet]

ASSUME ResolveAssumption ==
  /\ Worlds \subseteq World /\ Roots \subseteq Blob /\ Names \subseteq Name
  /\ LimitSet \subseteq Limits

GuardErrors == {"DepthExceeded", "TooManyEntries", "TotalInflatedExceeded"}

Errors == ReadErrors \cup GuardErrors

VARIABLES in,       \* the arguments of resolve(), and what its bytes hold
          stack,    \* pending calls of resolve_into, the running one last
          total,    \* Budget.total_inflated
          entries,  \* Budget.entries
          out,      \* the nodes pushed so far
          emitted,  \* history: the bytes handed out in file nodes
          status    \* "running", "ok" or the error returned

vars == <<in, stack, total, entries, out, emitted, status>>

Frame == [data : Blob, name : Name, depth : Nat, next : Nat]

Call(data, name, depth) ==
  [data |-> data, name |-> name, depth |-> depth, next |-> 0]

Size(b) == in.world[b].size

Top == stack[Len(stack)]

\* The stack with f for the running call.
Running(f) == [stack EXCEPT ![Len(stack)] = f]

\* The call whose loop goes on to its next member.
Advance(f) == [f EXCEPT !.next = @ + 1]

Fmt(f) == SniffBlob(in.world, f.data, f.name)

Members(f) == Entries(in.world, f.data, Fmt(f))

\* A node of the answer; leaf() names a nameless one "".
LeafNode(f) ==
  [dir |-> FALSE, name |-> IF f.name = NoName THEN <<EmptyPiece>> ELSE f.name, data |-> f.data]

DirNode(m) == [dir |-> TRUE, name |-> m.name, data |-> NoBlob]

Node == [dir : BOOLEAN, name : Name, data : Blob \cup {NoBlob}]
-----------------------------------------------------------------------------
Init ==
  /\ in \in Inputs
  /\ stack = <<Call(in.root, in.name, 0)>>
  /\ total = 0 /\ entries = 0 /\ emitted = 0
  /\ out = <<>>
  /\ status = "running"

\* `?`: every pending call returns the error.
Fail(e) == status' = e /\ stack' = <<>> /\ out' = <<>> /\ emitted' = 0

\* Mutants: a cap per layer; a charge that is checked and not kept.
OverInflatedPerLayer(n) == n > in.limits.max_total_inflated
AddInflatedForgotten(n) == total' = total

\* Budget::add_inflated for n bytes, and its check after the addition.
OverInflated(n) == SatAdd(total, n) > in.limits.max_total_inflated

AddInflated(n) == total' = SatAdd(total, n)

\* Mutant: off by one.
TooDeepEarly(f) == f.depth >= in.limits.max_depth

TooDeep(f) == f.depth > in.limits.max_depth

\* The running call is at its start and passed the depth guard.
Entered == stack # <<>> /\ Top.next = 0 /\ ~TooDeep(Top)

\* Mutant: Ok from any call ends resolve().
ReturnAtOnce == stack' = Front(stack) /\ status' = "ok"

\* Ok(()) from the running call; from the first one resolve() returns.
Return ==
  /\ stack' = Front(stack)
  /\ status' = IF Len(stack) = 1 THEN "ok" ELSE "running"

GuardDepth ==
  /\ stack # <<>> /\ Top.next = 0
  /\ TooDeep(Top)
  /\ Fail("DepthExceeded")
  /\ UNCHANGED <<in, total, entries>>

\* Mutants: a peeled wrapper costs no depth; its name is kept.
PeeledCallSameDepth(f, inner) == Call(inner, StripCompressionExt(f.name), f.depth)
PeeledCallSameName(f, inner) == Call(inner, f.name, f.depth + 1)

\* The call for the stream inside the wrapper, one level further down.
PeeledCall(f, inner) == Call(inner, StripCompressionExt(f.name), f.depth + 1)

\* The wrapper branch: decode, charge, resolve what was inside.
PeelWrapper ==
  /\ Entered /\ IsCompressionWrapper(Fmt(Top))
  /\ LET r == PeelBytes(in.world, Top.data, Fmt(Top)) IN
     IF r \notin Blob
     THEN Fail(r) /\ UNCHANGED total
     ELSE /\ AddInflated(Size(r))
          /\ IF OverInflated(Size(r))
             THEN Fail("TotalInflatedExceeded")
             ELSE /\ stack' = Running(PeeledCall(Top, r))
                  /\ UNCHANGED <<out, emitted, status>>
  /\ UNCHANGED <<in, entries>>

\* The archive branch up to its loop: open and list.
OpenArchive ==
  /\ Entered /\ IsArchive(Fmt(Top))
  /\ IF Opens(in.world, Top.data, Fmt(Top))
     THEN /\ stack' = Running([Top EXCEPT !.next = 1])
          /\ UNCHANGED <<out, emitted, status>>
     ELSE Fail("Open")
  /\ UNCHANGED <<in, total, entries>>

\* Budget::add_entry
OverEntries == SatAdd(entries, 1) > in.limits.max_entries

\* The loop of the archive branch has another member.
AtMember == stack # <<>> /\ Top.next \in DOMAIN Members(Top)

\* Mutant: directories are not counted.
CountFile == AtMember /\ entries' = IF Members(Top)[Top.next].isDir
                                    THEN entries ELSE SatAdd(entries, 1)

CountMember == AtMember /\ entries' = SatAdd(entries, 1)

EntryOverBudget ==
  /\ CountMember /\ OverEntries
  /\ Fail("TooManyEntries")
  /\ UNCHANGED <<in, total>>

DirMember ==
  /\ CountMember /\ ~OverEntries
  /\ Members(Top)[Top.next].isDir
  /\ out' = Append(out, DirNode(Members(Top)[Top.next]))
  /\ stack' = Running(Advance(Top))
  /\ UNCHANGED <<in, total, emitted, status>>

\* The frame of the loop, past the member it is about to resolve.
Descend(data, name) ==
  stack' = Append(Running(Advance(Top)), Call(data, name, Top.depth + 1))

\* Read the member, charge it, resolve it.
FileMember ==
  /\ CountMember /\ ~OverEntries
  /\ ~Members(Top)[Top.next].isDir
  /\ \E r \in ReadMember(in.world, Top.data, Fmt(Top), Top.next) :
       IF r \notin Blob
       THEN Fail(r) /\ UNCHANGED total
       ELSE /\ AddInflated(Size(r))
            /\ IF OverInflated(Size(r))
               THEN Fail("TotalInflatedExceeded")
               ELSE /\ Descend(r, Members(Top)[Top.next].name)
                    /\ UNCHANGED <<out, emitted, status>>
  /\ UNCHANGED in

\* The loop is over.
EndMembers ==
  /\ stack # <<>> /\ Top.next > Len(Members(Top))
  /\ Return
  /\ UNCHANGED <<in, total, entries, out, emitted>>

\* Not a layer: a leaf of the packing tree.
Leaf ==
  /\ Entered /\ Fmt(Top) = "Unknown"
  /\ out' = Append(out, LeafNode(Top))
  /\ emitted' = emitted + Size(Top.data)
  /\ Return
  /\ UNCHANGED <<in, total, entries>>

Next == \/ GuardDepth \/ PeelWrapper \/ OpenArchive
        \/ EntryOverBudget \/ DirMember \/ FileMember \/ EndMembers
        \/ Leaf

\* A call of resolve() runs to its end: nothing blocks or waits in it.
Spec == Init /\ [][Next]_vars /\ WF_vars(Next)
-----------------------------------------------------------------------------
(* Properties *)

\* The variables hold values of their kind.
TypeOK ==
  /\ in \in Inputs
  /\ stack \in Seq(Frame)
  /\ total \in Nat /\ entries \in Nat /\ emitted \in Nat
  /\ out \in Seq(Node)
  /\ status \in {"running", "ok"} \cup Errors
  /\ stack = <<>> <=> status # "running"

\* While resolve() runs and when it answers Ok, no guard is over its limit, over
\* the whole recursion and not per layer: the bytes charged and the members
\* counted are within their caps, and no call below max_depth has looked at its
\* data (resolve.rs:25-35, "Every field is a hard cap").
BudgetKept ==
  status \in {"running", "ok"} =>
    /\ total <= in.limits.max_total_inflated
    /\ entries <= in.limits.max_entries
    /\ \A k \in DOMAIN stack : stack[k].next > 0 => ~TooDeep(stack[k])

\* The bytes of a running call that has not looked at them yet.
Pending == IF stack # <<>> /\ Top.next = 0 THEN Size(Top.data) ELSE 0

\* Nothing is handed out that was not charged: apart from the bytes the caller
\* itself passed in, the file nodes never hold more bytes than the budget counts,
\* the data of the call about to run included.  With BudgetKept, an Ok answer
\* holds at most max_total_inflated bytes beside the input.  A budget at u64::MAX
\* has saturated and counts no more.
EmittedIsCharged ==
  total < MaxU64 => emitted + Pending <= total + Size(in.root)

\* Every node but one is a counted member, so max_entries bounds the answer.
NodesAreCounted ==
  entries < MaxU64 =>
    Len(out) + (IF stack # <<>> /\ Top.next = 0 THEN 1 ELSE 0) <= entries + 1

\* The charge that trips the guard is made after the decode: what is inflated
\* beyond the cap is at most one decompression, which MAX_INFLATED bounds
\* (peel.rs:11-13) wherever in the tree it happens.
OvershootBounded == total <= in.limits.max_total_inflated + MaxInflated

\* The loop resolves the member it is at: the call it just made has the bytes of
\* the entry at that index (archive.rs:141, "Extract the bytes of the member at
\* `index`").
ReadsMemberAtIndex ==
  \A k \in 1 .. Len(stack) - 1 :
    LET caller == stack[k] callee == stack[k + 1] IN
    callee.next = 0 /\ callee.depth = caller.depth + 1 =>
      callee.data = Members(caller)[caller.next - 1].data

\* The layer the caller passed in was all inflated when the answer is Ok: a gzip
\* file of several members holds more than the first (error.rs:1-2, "Fail loud;
\* never silently truncate").
WholeLayer ==
  status = "ok" /\ CodecOf(Fmt(Call(in.root, in.name, 0))) = "gzip" => ~in.world[in.root].more

\* Every call of resolve() returns, on cyclic worlds too: the depth guard cuts
\* every descent and the member loops are finite.
Terminates == <>(status # "running")
=============================================================================
