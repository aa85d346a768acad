------------------------------ MODULE Executor ------------------------------
(***************************************************************************)
(* The seekable executor and what stands on it (core/src/execute.rs:       *)
(* peel_archive_seekable, execute_member_access, peel_zran;                *)
(* core/src/reassemble.rs: segment_sources, reassemble).                   *)
(*                                                                         *)
(* A call makes an access plan and then one handle per segment, in order.  *)
(* A zran handle keeps a copy of the packed archive in a temp file, a      *)
(* spilled one its decoded stream.  The temp volume may refuse at any      *)
(* time.  A spill is one step here: Spill shows that it ends with the      *)
(* whole stream in its file, or with an error and no file.                 *)
(***************************************************************************)
EXTENDS AccessPlan

CONSTANTS Worlds, Roots, LimitSet,  \* the calls considered
          CheckpointInterval,       \* ZRAN_CHECKPOINT_INTERVAL
          CheckpointBytes           \* ZRAN_CHECKPOINT_BYTES

Limits == [max_total_inflated : 0 .. MaxU64 - 1, max_index_bytes : 0 .. MaxU64]

\* peel_archive_seekable, or reassemble, which is segment_sources and a name for
\* the result.
Calls == {"peel", "reassemble"}

Inputs == [call : Calls, world : Worlds, root : Roots, limits : LimitSet]

ASSUME ExecutorAssumption ==
  /\ Worlds \subseteq World /\ Roots \subseteq Blob /\ LimitSet \subseteq Limits
  /\ CheckpointInterval \in Nat \ {0} /\ CheckpointBytes \in Nat

VARIABLES in,      \* the arguments, and what the bytes hold
          plan,    \* the AccessPlan, or NoPlan
          pc,      \* "detect", "run", "open" (a zran entry), "done"
          handles, \* the PeeledSources made so far
          temps,   \* the temp files there are: for which segment, and what they hold
          result   \* "none" until the call returns

vars == <<in, plan, pc, handles, temps, result>>

NoPlan == [route |-> "none"]

\* A PeeledSource: the member it reads, its bytes and the length it claims.
Handle == [via : {"InPlace", "Zran", "Temp"}, member : Nat, bytes : Blob \cup {NoBlob}, len : Nat]

HandleOf(via, i, bytes, len) == [via |-> via, member |-> i, bytes |-> bytes, len |-> len]

Temp == [seg : Nat \ {0}, holds : {"stream", "archive"}]

ExecErrors == ReadErrors

Outcomes == {"NotPacked", "Inner", "Concat", "Segments"} \cup ExecErrors

Size(b) == in.world[b].size

Cap == in.limits.max_total_inflated

MemberTable == Entries(in.world, in.root, plan.fmt)

\* The segment the call is at, and its entry.
K == Len(handles) + 1
Seg == plan.segs[K]
Entry == MemberTable[Seg.index]

AtSegment(access) == pc = "run" /\ K <= Len(plan.segs) /\ Seg.access = access
-----------------------------------------------------------------------------
Init ==
  /\ in \in Inputs
  /\ plan = NoPlan /\ pc = "detect"
  /\ handles = <<>> /\ temps = {} /\ result = "none"

\* Mutants: the call ends and gives no error; the packed copies stay.
FailSilent(e) == pc' = "done" /\ handles' = <<>> /\ temps' = {} /\ UNCHANGED result
FailKeepsCopies(e) ==
  /\ pc' = "done" /\ result' = e
  /\ handles' = <<>> /\ temps' = {t \in temps : t.seg < K /\ t.holds = "archive"}

\* `?`: the handles made so far are dropped, and their files with them.
Fail(e) == pc' = "done" /\ result' = e /\ handles' = <<>> /\ temps' = {}

\* The next handle is made.
Push(h) == handles' = Append(handles, h) /\ pc' = "run"

\* The routes a call goes on with.
Wanted == IF in.call = "peel" THEN {"Wrapper", "Member"} ELSE {"SegmentSet"}

Classify ==
  /\ pc = "detect"
  /\ plan' = Detect(in.world, in.root)
  /\ IF plan'.route = "Open" THEN Fail("Open")
     ELSE IF plan'.route \notin Wanted THEN Fail("NotPacked")
     ELSE pc' = "run" /\ UNCHANGED <<handles, temps, result>>
  /\ UNCHANGED in

\* The length of the window: the stored bytes', or what an entry claims that
\* reaches past the end of the archive.
WindowLen(m) == IF m.window = NoBlob THEN m.size ELSE Size(m.window)

\* Mutant: windows are not capped.
WindowErrorUncapped(m) == {e \in {"Read"} : m.window = NoBlob}

\* SubRange::new_shared checks the cap first, then the bounds.
WindowError(m) ==
  IF WindowLen(m) > Cap THEN {"TooLarge"} ELSE {e \in {"Read"} : m.window = NoBlob}

Window ==
  /\ AtSegment("InPlace") /\ plan.route # "Wrapper"
  /\ IF WindowError(Entry) # {}
     THEN \E e \in WindowError(Entry) : Fail(e)
     ELSE /\ Push(HandleOf("InPlace", Seg.index, Entry.window, WindowLen(Entry)))
          /\ UNCHANGED <<temps, result>>
  /\ UNCHANGED <<in, plan>>

Smaller(a, b) == IF a <= b THEN a ELSE b
Larger(a, b) == IF a >= b THEN a ELSE b

\* Mutant: the last, partial interval has no checkpoint.
IndexBytesRoundedDown(size) ==
  Smaller(Larger(size \div CheckpointInterval, 1) * CheckpointBytes, MaxU64)

\* estimate_zran_index_bytes, with div_ceil and saturating_mul.
IndexBytes(size) ==
  LET up == (size + CheckpointInterval - 1) \div CheckpointInterval
  IN Smaller(Larger(up, 1) * CheckpointBytes, MaxU64)

\* The coverage gate of peel_zran, by the size the entry declares.
IndexTooLarge == IndexBytes(Entry.size) > in.limits.max_index_bytes

\* peel_zran: the packed archive goes to a temp file of its own.
CopyArchive ==
  /\ AtSegment("Zran") /\ plan.route # "Wrapper" /\ ~IndexTooLarge
  /\ temps' = temps \cup {[seg |-> K, holds |-> "archive"]}
  /\ pc' = "open"
  /\ UNCHANGED <<in, plan, handles, result>>

CopyArchiveFails ==
  /\ AtSegment("Zran") /\ plan.route # "Wrapper" /\ ~IndexTooLarge
  /\ Fail("Read")
  /\ UNCHANGED <<in, plan>>

\* The members of that name, one of which zip_core::open_entry finds.
Namesakes == {j \in DOMAIN MemberTable : MemberTable[j].name = Entry.name}

\* The length of the handle is the one the opened entry declares.
OpenEntry ==
  /\ pc = "open"
  /\ \E j \in Namesakes :
       Push(HandleOf("Zran", j, MemberTable[j].data, MemberTable[j].size))
  /\ UNCHANGED <<in, plan, temps, result>>

\* The entry's headers or its index are bad, or the file cannot be read back.
OpenEntryFails ==
  /\ pc = "open"
  /\ Fail("Read")
  /\ UNCHANGED <<in, plan>>

\* A member is spilled by plan, or as its zran index would be too large.
Spills ==
  /\ pc = "run" /\ K <= Len(plan.segs) /\ plan.route # "Wrapper"
  /\ Seg.access = "SpillToTemp" \/ (Seg.access = "Zran" /\ IndexTooLarge)

\* What does not fit under the cap.
OverCap(r) == Size(r) > Cap

\* stream_member into a temp file: the whole of the member, which for 7z is any
\* of that name.
SpillMember ==
  /\ Spills
  /\ plan.fmt = "SevenZip" => Entry.size <= MaxInflated
  /\ \E j \in ReadTargets(in.world, in.root, plan.fmt, Seg.index) :
       LET r == MemberTable[j].data IN
       /\ r # NoBlob /\ ~OverCap(r)
       /\ plan.fmt = "SevenZip" => Size(r) <= MaxInflated
       /\ Push(HandleOf("Temp", j, r, Size(r)))
  /\ temps' = temps \cup {[seg |-> K, holds |-> "stream"]}
  /\ UNCHANGED <<in, plan, result>>

\* Too large is what passes a cap, which a stream that breaks off may do first.
MayBeTooLarge(r) ==
  r \in Blob => OverCap(r) \/ (plan.fmt = "SevenZip" /\ Size(r) > MaxInflated)

SpillMemberFails ==
  /\ Spills
  /\ \/ Fail("Read")
     \/ /\ \/ plan.fmt = "SevenZip" /\ Entry.size > MaxInflated
           \/ \E j \in ReadTargets(in.world, in.root, plan.fmt, Seg.index) :
                MayBeTooLarge(MemberTable[j].data)
        /\ Fail("TooLarge")
  /\ UNCHANGED <<in, plan>>

\* The whole decoded stream of a bare wrapper goes to a temp file, whatever
\* access the plan named.
AtWrapper == pc = "run" /\ plan.route = "Wrapper" /\ K <= Len(plan.segs)

Stream == Inflate(in.world, CodecOf(plan.fmt), in.root)

SpillWrapper ==
  /\ AtWrapper /\ Stream # NoBlob
  /\ ~OverCap(Stream)
  /\ Push(HandleOf("Temp", 0, Stream, Size(Stream)))
  /\ temps' = temps \cup {[seg |-> K, holds |-> "stream"]}
  /\ UNCHANGED <<in, plan, result>>

SpillWrapperFails ==
  /\ AtWrapper
  /\ \/ \E e \in {"Decode", "Read"} : Fail(e)
     \/ MayBeTooLarge(Stream) /\ Fail("TooLarge")
  /\ UNCHANGED <<in, plan>>

\* Every segment has its handle: a single image, a stitched one or its parts.
HandOut ==
  /\ pc = "run" /\ K > Len(plan.segs)
  /\ pc' = "done"
  /\ result' = IF in.call = "peel" THEN "Inner"
               ELSE IF plan.kind = "SplitRaw" THEN "Concat" ELSE "Segments"
  /\ UNCHANGED <<in, plan, handles, temps>>

\* The owner drops what it was given.
DropHandles ==
  /\ pc = "done" /\ handles # <<>>
  /\ handles' = <<>> /\ temps' = {}
  /\ UNCHANGED <<in, plan, pc, result>>

Next == \/ Classify \/ Window
        \/ CopyArchive \/ CopyArchiveFails \/ OpenEntry \/ OpenEntryFails
        \/ SpillMember \/ SpillMemberFails \/ SpillWrapper \/ SpillWrapperFails
        \/ HandOut \/ DropHandles

Spec == Init /\ [][Next]_vars
-----------------------------------------------------------------------------
(* Properties *)

\* The variables hold values of their kind.
TypeOK ==
  /\ in \in Inputs
  /\ plan \in Plan \cup {NoPlan}
  /\ pc \in {"detect", "run", "open", "done"}
  /\ handles \in Seq(Handle)
  /\ temps \subseteq Temp
  /\ result \in {"none"} \cup Outcomes
  /\ pc = "done" <=> result # "none"

\* Every temp file has one owner: the handle of its segment, or the call that is
\* opening it.  A call that fails at its k-th segment leaves none of the k files
\* (execute.rs:141-142, "deleted when this value drops").
TempsOwned ==
  temps = {t \in [seg : 1 .. K, holds : {"stream", "archive"}] :
             \/ t.seg < K /\ handles[t.seg].via = "Temp" /\ t.holds = "stream"
             \/ t.seg < K /\ handles[t.seg].via = "Zran" /\ t.holds = "archive"
             \/ t.seg = K /\ pc = "open" /\ t.holds = "archive"}

\* What is handed out is the archive's file members, all of them and each once, a
\* set of segments by number and where numbers are equal in the archive's order;
\* directories in between do not shift them (plan.rs:177-204, reassemble.rs:179-183).
SetIsWhole ==
  handles # <<>> /\ pc = "done" /\ plan.route # "Wrapper" =>
    LET at(k) == handles[k].member
        num(k) == Number(MemberTable, plan.kind, at(k))
    IN /\ {at(k) : k \in DOMAIN handles} = {i \in DOMAIN MemberTable : ~MemberTable[i].isDir}
       /\ \A j, k \in DOMAIN handles : j < k =>
            num(j) < num(k) \/ (num(j) = num(k) /\ at(j) < at(k))

\* A window or a spilled stream has the bytes its length says, within the cap:
\* what ConcatSource relies on when it adds the lengths up (execute.rs:71-93,
\* 544-545).
LengthsAreTrue ==
  \A k \in DOMAIN handles :
    handles[k].via # "Zran" =>
      handles[k].bytes \in Blob /\ handles[k].len = Size(handles[k].bytes) /\ handles[k].len <= Cap

\* A zran handle's index is within the caller's bound (resolve.rs:36-39, "A member
\* whose index would exceed this falls back to a one-time temp spill").
IndexGateKept ==
  \A k \in DOMAIN handles :
    handles[k].via = "Zran" =>
      LET n == handles[k].len
          checkpoints == IF n = 0 THEN 1
                         ELSE CHOOSE c \in 1 .. n : c * CheckpointInterval >= n
                                                    /\ (c - 1) * CheckpointInterval < n
      IN checkpoints * CheckpointBytes <= in.limits.max_index_bytes

\* "Every extraction is capped at `limits.max_total_inflated`" (execute.rs:19), a
\* zran handle's as well.
EveryExtractionCapped == \A k \in DOMAIN handles : handles[k].len <= Cap

\* A raw image put together from its splits has no hole: the numbers follow each
\* other, as the caller of a stitched image must suppose (docs/PRD.md:53-56,
\* "Reassembles a segmented image ... into one logical seekable source", "Fails loud
\* on every malformed input ... never a silent truncation").
NoHole ==
  result = "Concat" =>
    \A k \in 2 .. Len(handles) :
      Number(MemberTable, plan.kind, handles[k].member) =
        Number(MemberTable, plan.kind, handles[k - 1].member) + 1
=============================================================================
