------------------------------- MODULE Spill -------------------------------
(***************************************************************************)
(* One capped extraction to a temp file (core/src/execute.rs: spill,       *)
(* spill_wrapper_to_temp, spill_member_to_temp, copy_capped; and           *)
(* Archive::stream_member with its own copy_capped in archive.rs).         *)
(*                                                                         *)
(* The decoder is a stream that yields some number of bytes and then ends, *)
(* or fails; it is copied through a buffer by io::copy, whose every read   *)
(* may come back short.  The temp volume may refuse the file, or a write,  *)
(* a flush or a seek, at any time.  The file goes when its owner does: on  *)
(* any error that is the call itself, after Ok the handle it returned.     *)
(***************************************************************************)
EXTENDS Integers

CONSTANTS MaxU64,      \* u64::MAX, where cap + 1 wraps (a release build)
          MaxInflated, \* peel::MAX_INFLATED, which caps a 7z member whatever the limits
          Lengths,     \* the stream lengths considered, and the sizes 7z declares
          Caps,        \* the values of limits.max_total_inflated considered
          Chunk        \* the size of io::copy's buffer

ASSUME SpillAssumption ==
  /\ MaxU64 \in Nat /\ MaxInflated \in Nat /\ Chunk \in Nat \ {0}
  /\ Lengths \subseteq Nat /\ Caps \subseteq 0 .. MaxU64

\* A bare wrapper, a tar or zip member, or a 7z member: the last has no streaming
\* extract and goes through one Vec.
Route == {"wrapper", "member", "7z"}

Job == [route : Route, len : Lengths, sound : BOOLEAN, declared : Lengths, cap : Caps]

VARIABLES job,      \* what is extracted: its length, whether it then ends or fails, the
                    \* size its entry declares, and the cap
          pc,       \* "create", "copy", "write", "check", "rewind", "done"
          left,     \* what Take lets through yet
          pos,      \* bytes read from the decoder
          buf,      \* bytes read and not yet written
          file,     \* the temp file: "none", "there" or "gone"
          written,  \* bytes in it
          cursor,   \* its position
          result    \* "none" until the call returns, then "ok" or the error

vars == <<job, pc, left, pos, buf, file, written, cursor, result>>

\* Mutant: no byte past the cap is read.
TakeAtCap(cap) == cap

\* reader.take(cap + 1), in u64 arithmetic.
TakeLimit(cap) == IF cap = MaxU64 THEN 0 ELSE cap + 1

\* io::copy's error is a Decode for a wrapper and a Read for a member.
CopyError == IF job.route = "wrapper" THEN "Decode" ELSE "Read"

SpillErrors == {"Decode", "Read", "TooLarge"}

Smaller(a, b) == IF a <= b THEN a ELSE b
-----------------------------------------------------------------------------
Init ==
  /\ job \in Job
  /\ pc = "create"
  /\ left = TakeLimit(job.cap)
  /\ pos = 0 /\ buf = 0 /\ written = 0 /\ cursor = 0
  /\ file = "none"
  /\ result = "none"

\* Mutant: the file of a failed extraction stays.
FailKeepsFile(e) == /\ pc' = "done" /\ result' = e /\ UNCHANGED file

\* `?`: the call returns the error and its NamedTempFile is dropped.
Fail(e) ==
  /\ pc' = "done" /\ result' = e
  /\ file' = IF file = "there" THEN "gone" ELSE file

Create ==
  /\ pc = "create"
  /\ pc' = "copy" /\ file' = "there"
  /\ UNCHANGED <<job, left, pos, buf, written, cursor, result>>

CreateFails ==
  /\ pc = "create"
  /\ Fail("Read")
  /\ UNCHANGED <<job, left, pos, buf, written, cursor>>

\* Mutant: the decoder is copied without Take.
AvailableUntaken == job.len - pos

\* What is left of the stream within Take.
Available == Smaller(left, job.len - pos)

\* A read of io::copy, as short as the decoder likes.
Read ==
  /\ pc = "copy" /\ job.route # "7z"
  /\ \E n \in 1 .. Smaller(Chunk, Available) :
       pos' = pos + n /\ left' = left - n /\ buf' = n
  /\ pc' = "write"
  /\ UNCHANGED <<job, file, written, cursor, result>>

\* The decoder fails where its stream breaks off, if Take lets it be asked.
DecoderFails ==
  /\ pc = "copy" /\ job.route # "7z"
  /\ left > 0 /\ pos = job.len /\ ~job.sound
  /\ Fail(CopyError)
  /\ UNCHANGED <<job, left, pos, buf, written, cursor>>

\* Mutant: only the stream's own end ends the copy.
EndOfStreamOnly ==
  /\ pc = "copy" /\ job.route # "7z"
  /\ pos = job.len /\ job.sound
  /\ pc' = "check"
  /\ UNCHANGED <<job, left, pos, buf, file, written, cursor, result>>

\* Take is exhausted, or the stream is at its end.
EndOfStream ==
  /\ pc = "copy" /\ job.route # "7z"
  /\ left = 0 \/ (pos = job.len /\ job.sound)
  /\ pc' = "check"
  /\ UNCHANGED <<job, left, pos, buf, file, written, cursor, result>>

\* read_7z_member refuses what is declared, or turns out, larger than MAX_INFLATED;
\* then the member is checked against the cap.
TooLarge7z ==
  job.declared > MaxInflated \/ (job.sound /\ job.len > Smaller(MaxInflated, job.cap))

\* The 7z route: the whole member, checked before the write.
ReadWhole ==
  /\ pc = "copy" /\ job.route = "7z"
  /\ job.sound /\ ~TooLarge7z
  /\ pos' = job.len /\ buf' = job.len
  /\ pc' = "write"
  /\ UNCHANGED <<job, left, file, written, cursor, result>>

WholeFails ==
  /\ pc = "copy" /\ job.route = "7z"
  /\ ~job.sound \/ TooLarge7z
  /\ Fail(IF TooLarge7z THEN "TooLarge" ELSE "Read")
  /\ UNCHANGED <<job, left, pos, buf, written, cursor>>

\* Where write_all returns to.
AfterWrite == IF job.route = "7z" THEN "check" ELSE "copy"

Write ==
  /\ pc = "write"
  /\ written' = written + buf /\ cursor' = cursor + buf /\ buf' = 0
  /\ pc' = AfterWrite
  /\ UNCHANGED <<job, left, pos, file, result>>

\* A write fails after some of the buffer went out.
WriteFails ==
  /\ pc = "write"
  /\ \E n \in 0 .. buf :
       written' = written + n /\ cursor' = cursor + n /\ buf' = buf - n
  /\ Fail(CopyError)
  /\ UNCHANGED <<job, left, pos>>

\* Mutant: a stream of exactly cap bytes is refused.
OverCapEarly(n) == n >= job.cap

OverCap(n) == n > job.cap

\* n > cap after the copy.
Check ==
  /\ pc = "check"
  /\ IF OverCap(written) THEN Fail("TooLarge")
     ELSE pc' = "rewind" /\ UNCHANGED <<file, result>>
  /\ UNCHANGED <<job, left, pos, buf, written, cursor>>

\* Mutant: the handle is left at the end of its file.
RewindForgotten == UNCHANGED cursor

\* seek(SeekFrom::Start(0))
ToStart == cursor' = 0

\* Flush, rewind, hand out.
Rewind ==
  /\ pc = "rewind"
  /\ ToStart
  /\ pc' = "done" /\ result' = "ok"
  /\ UNCHANGED <<job, left, pos, buf, file, written>>

RewindFails ==
  /\ pc = "rewind"
  /\ Fail("Read")
  /\ UNCHANGED <<job, left, pos, buf, written, cursor>>

\* The owner of the handle drops it.
DropHandle ==
  /\ result = "ok" /\ file = "there"
  /\ file' = "gone"
  /\ UNCHANGED <<job, pc, left, pos, buf, written, cursor, result>>

\* What the call itself does.
Step == \/ Create \/ CreateFails
        \/ Read \/ DecoderFails \/ EndOfStream \/ ReadWhole \/ WholeFails
        \/ Write \/ WriteFails
        \/ Check \/ Rewind \/ RewindFails

Next == Step \/ DropHandle

\* The call runs to its end; nothing makes its owner drop the handle.
Spec == Init /\ [][Next]_vars /\ WF_vars(Step)
-----------------------------------------------------------------------------
(* Properties *)

\* The variables hold values of their kind.
TypeOK ==
  /\ job \in Job
  /\ pc \in {"create", "copy", "write", "check", "rewind", "done"}
  /\ left \in Nat /\ pos \in Nat /\ buf \in Nat /\ written \in Nat /\ cursor \in Nat
  /\ file \in {"none", "there", "gone"}
  /\ result \in {"none", "ok"} \cup SpillErrors
  /\ pc = "done" <=> result # "none"

\* Ok means the whole stream, no more than cap of it, ready to be read from its
\* start: an over-cap stream is "detected, not silently truncated"
\* (archive.rs:412-414), and so is one that breaks off.
OkIsWhole ==
  result = "ok" =>
    /\ job.sound /\ written = job.len /\ job.len <= job.cap
    /\ cursor = 0

\* TooLarge is said of streams longer than cap only; of a 7z member also when it
\* is, or declares to be, past MAX_INFLATED (archive.rs:394-410).
TooLargeIsTrue ==
  result = "TooLarge" =>
    job.len > job.cap \/ (job.route = "7z" /\ (job.len > MaxInflated \/ job.declared > MaxInflated))

\* However long the stream, the temp volume takes at most one byte past the cap
\* (execute.rs:18-20, "a decompression bomb never silently fills ... the temp
\* volume").
SinkBounded == written <= job.cap + 1

\* A file that is there is being written, or has an owner: every way a call can
\* fail takes its file with it (execute.rs:519-521).
NoOrphan == file = "there" => result \in {"none", "ok"}

\* A call returns, on a stream without bound as well: Take ends it.
Returns == <>(result # "none")

\* What the caller sees of a state.
Answered ==
  IF result = "none" THEN [pending |-> TRUE]
  ELSE IF result = "ok" THEN [len |-> written, at |-> cursor] ELSE [error |-> result]

Caller == INSTANCE Extraction WITH
            answer <- Answered, file <- result # "none" /\ file = "there"

\* Whatever the decoder, the buffer and the temp volume do in between, an extraction
\* is one step to its caller: the whole stream behind a handle at its start, or an
\* error that its stream or its cap gives a reason for and no file
\* (execute.rs:509-522, archive.rs:179-191).  And it is taken.
OneStep == Caller!Spec
=============================================================================
