---------------------------- MODULE Spill_proofs ----------------------------
(***************************************************************************)
(* Theorems about Spill, for every stream and every buffer.  What is said  *)
(* of the cap needs a cap + 1 that does not wrap: MaxU64 \notin Caps.      *)
(***************************************************************************)
EXTENDS Spill, TLAPS

\* The parts of a job.
LEMMA JobType ==
  ASSUME job \in Job
  PROVE  /\ job.route \in Route /\ job.sound \in BOOLEAN
         /\ job.len \in Nat /\ job.declared \in Nat
         /\ job.cap \in Nat /\ job.cap <= MaxU64
<1>1. /\ job.route \in Route /\ job.sound \in BOOLEAN
      /\ job.len \in Lengths /\ job.declared \in Lengths /\ job.cap \in Caps
  BY DEF Job
<1>2. job.len \in Nat /\ job.declared \in Nat
  BY <1>1, SpillAssumption
<1>3. MaxU64 \in Nat
  BY SpillAssumption
<1>4. job.cap \in 0 .. MaxU64
  BY <1>1, SpillAssumption
<1>5. job.cap \in Nat /\ job.cap <= MaxU64
  BY <1>3, <1>4
<1> QED
  BY <1>1, <1>2, <1>5

-----------------------------------------------------------------------------
(* Type correctness *)

LEMMA TypeInit == Init => TypeOK
<1> SUFFICES ASSUME Init PROVE TypeOK
  OBVIOUS
<1>1. left \in Nat
  BY JobType, SpillAssumption DEF Init, TakeLimit
<1> QED
  BY <1>1 DEF Init, TypeOK

\* The types of what a failing call leaves.
LEMMA FailType ==
  ASSUME TypeOK, NEW e \in SpillErrors, Fail(e)
  PROVE  /\ pc' = "done" /\ result' = e /\ result' # "none" /\ result' # "ok"
         /\ file' \in {"none", "there", "gone"} /\ file' # "there"
BY DEF Fail, TypeOK, SpillErrors

LEMMA TypeStep == TypeOK /\ [Next]_vars => TypeOK'
<1> SUFFICES ASSUME TypeOK, [Next]_vars PROVE TypeOK'
  OBVIOUS
<1> USE DEF TypeOK
<1>a. /\ job.len \in Nat /\ job.cap \in Nat
      /\ CopyError \in SpillErrors
  BY JobType DEF CopyError, SpillErrors
<1>1. CASE Create
  BY <1>1 DEF Create
<1>2. CASE CreateFails
  BY <1>2, FailType DEF CreateFails, SpillErrors
<1>3. CASE Read
  <2>1. PICK n \in 1 .. Smaller(Chunk, Available) :
               pos' = pos + n /\ left' = left - n /\ buf' = n
    BY <1>3 DEF Read
  <2>2. n \in Nat /\ n <= left
    BY <1>a, <2>1, SpillAssumption DEF Smaller, Available
  <2>3. pos' \in Nat /\ left' \in Nat /\ buf' \in Nat
    BY <2>1, <2>2
  <2> QED
    BY <1>3, <2>3 DEF Read
<1>4. CASE DecoderFails
  BY <1>4, <1>a, FailType DEF DecoderFails
<1>5. CASE EndOfStream
  BY <1>5 DEF EndOfStream
<1>6. CASE ReadWhole
  BY <1>6, <1>a DEF ReadWhole
<1>7. CASE WholeFails
  BY <1>7, FailType DEF WholeFails, SpillErrors
<1>8. CASE Write
  BY <1>8 DEF Write, AfterWrite
<1>9. CASE WriteFails
  <2>1. written' \in Nat /\ cursor' \in Nat /\ buf' \in Nat
    BY <1>9 DEF WriteFails
  <2> QED
    BY <1>9, <1>a, <2>1, FailType DEF WriteFails
<1>10. CASE Check
  BY <1>10, FailType DEF Check, SpillErrors
<1>11. CASE Rewind
  BY <1>11 DEF Rewind, ToStart
<1>12. CASE RewindFails
  BY <1>12, FailType DEF RewindFails, SpillErrors
<1>13. CASE DropHandle
  BY <1>13 DEF DropHandle
<1>14. CASE UNCHANGED vars
  BY <1>14 DEF vars
<1> QED
  BY <1>1, <1>2, <1>3, <1>4, <1>5, <1>6, <1>7, <1>8, <1>9, <1>10, <1>11, <1>12, <1>13, <1>14
     DEF Next, Step

\* Every variable of an extraction keeps its type.
THEOREM TypeCorrect == Spec => []TypeOK
<1>1. Init => TypeOK
  BY TypeInit
<1>2. TypeOK /\ [Next]_vars => TypeOK'
  BY TypeStep
<1> QED
  BY <1>1, <1>2, PTL DEF Spec

-----------------------------------------------------------------------------
(* The temp file *)

\* No failed extraction leaves its file, whatever the cap (execute.rs:519-521).
THEOREM NoOrphanEver == Spec => []NoOrphan
<1>1. Init => NoOrphan
  BY DEF Init, NoOrphan
<1>2. TypeOK /\ NoOrphan /\ [Next]_vars => NoOrphan'
  <2> SUFFICES ASSUME TypeOK, NoOrphan, [Next]_vars PROVE NoOrphan'
    OBVIOUS
  <2>1. CopyError \in SpillErrors
    BY DEF CopyError, SpillErrors
  <2>2. ASSUME NEW e \in SpillErrors, Fail(e) PROVE NoOrphan'
    BY <2>2, FailType DEF NoOrphan
  <2>3. CASE CreateFails \/ DecoderFails \/ WholeFails \/ WriteFails \/ RewindFails
    BY <2>1, <2>2, <2>3
       DEF CreateFails, DecoderFails, WholeFails, WriteFails, RewindFails, SpillErrors
  <2>4. CASE Check
    BY <2>2, <2>4 DEF Check, SpillErrors, NoOrphan, TypeOK
  <2>5. CASE Create \/ Read \/ EndOfStream \/ ReadWhole \/ Write \/ Rewind \/ DropHandle
    BY <2>5 DEF Create, Read, EndOfStream, ReadWhole, Write, Rewind, DropHandle, NoOrphan, TypeOK
  <2>6. CASE UNCHANGED vars
    BY <2>6 DEF vars, NoOrphan
  <2> QED
    BY <2>3, <2>4, <2>5, <2>6 DEF Next, Step
<1> QED
  BY <1>1, <1>2, TypeCorrect, PTL DEF Spec

-----------------------------------------------------------------------------
(* The cap *)

\* Bytes read are in the file or in the buffer, and there are never more of them
\* than Take lets through.
Flow ==
  /\ written + buf <= job.cap + 1
  /\ pc \in {"create", "copy", "write"} /\ job.route # "7z" =>
       left + pos = job.cap + 1 /\ pos <= job.len
  /\ pc \in {"create", "copy"} => buf = 0 /\ written = pos
  /\ pc \in {"create", "copy"} /\ job.route = "7z" => pos = 0
  /\ pc = "write" => written + buf = pos
  /\ pc = "write" /\ job.route = "7z" => pos = job.len /\ job.sound /\ job.len <= job.cap
  /\ pc \in {"check", "rewind"} => buf = 0 /\ written = pos

\* What the check finds: the whole of a sound stream, or one byte past the cap.
Verdict ==
  /\ pc = "check" => \/ job.sound /\ written = job.len
                     \/ job.route # "7z" /\ written = job.cap + 1 /\ job.cap + 1 <= job.len
  /\ pc = "rewind" => job.sound /\ written = job.len /\ job.len <= job.cap

CapInv == TypeOK /\ Flow /\ Verdict /\ OkIsWhole /\ TooLargeIsTrue

LEMMA CapInit ==
  ASSUME MaxU64 \notin Caps
  PROVE  Init => CapInv
<1> SUFFICES ASSUME Init PROVE CapInv
  OBVIOUS
<1>1. TypeOK
  BY TypeInit
<1>2. job.cap \in Caps
  BY DEF Init, Job
<1>3. job.cap \in Nat /\ job.len \in Nat /\ left = job.cap + 1
  BY <1>2, JobType DEF Init, TakeLimit
<1> QED
  BY <1>1, <1>3 DEF Init, CapInv, Flow, Verdict, OkIsWhole, TooLargeIsTrue

\* A call that fails without having said TooLarge keeps the invariant if the file
\* has not outgrown the cap.
LEMMA FailKeeps ==
  ASSUME CapInv, TypeOK', NEW e \in SpillErrors, Fail(e), UNCHANGED job,
         written' + buf' <= job.cap + 1,
         e = "TooLarge" => \/ job.len > job.cap
                           \/ /\ job.route = "7z"
                              /\ job.len > MaxInflated \/ job.declared > MaxInflated
  PROVE  CapInv'
<1>1. pc' = "done" /\ result' = e /\ e # "ok"
  BY DEF Fail, SpillErrors
<1>2. Flow' /\ Verdict' /\ OkIsWhole'
  BY <1>1 DEF Flow, Verdict, OkIsWhole
<1>3. TooLargeIsTrue'
  BY <1>1 DEF TooLargeIsTrue
<1> QED
  BY <1>2, <1>3 DEF CapInv

LEMMA CapStep == CapInv /\ [Next]_vars => CapInv'
<1> SUFFICES ASSUME CapInv, [Next]_vars PROVE CapInv'
  OBVIOUS
<1>a. TypeOK /\ TypeOK'
  BY TypeStep DEF CapInv
<1>b. /\ job.len \in Nat /\ job.cap \in Nat /\ job.declared \in Nat
      /\ left \in Nat /\ pos \in Nat /\ buf \in Nat /\ written \in Nat
      /\ MaxInflated \in Nat /\ Chunk \in Nat \ {0}
  BY <1>a, JobType, SpillAssumption DEF TypeOK
<1>c. Flow /\ Verdict
  BY DEF CapInv
<1>1. CASE Create
  BY <1>1, <1>a, <1>c DEF Create, CapInv, Flow, Verdict, OkIsWhole, TooLargeIsTrue
<1>2. CASE CreateFails
  BY <1>2, <1>a, <1>c, FailKeeps DEF CreateFails, SpillErrors, Flow
<1>3. CASE Read
  <2>1. PICK n \in 1 .. Smaller(Chunk, Available) :
               pos' = pos + n /\ left' = left - n /\ buf' = n
    BY <1>3 DEF Read
  <2>2. n \in Nat /\ n <= left /\ n <= job.len - pos
    BY <1>b, <2>1 DEF Smaller, Available
  <2>3. /\ pc = "copy" /\ job.route # "7z" /\ pc' = "write"
        /\ UNCHANGED <<job, file, written, cursor, result>>
    BY <1>3 DEF Read
  <2>4. written = pos /\ left + pos = job.cap + 1 /\ pos <= job.len
    BY <1>c, <2>3 DEF Flow
  <2>5. Flow'
    BY <1>b, <2>1, <2>2, <2>3, <2>4 DEF Flow
  <2> QED
    BY <1>a, <2>3, <2>5 DEF CapInv, Verdict, OkIsWhole, TooLargeIsTrue
<1>4. CASE DecoderFails
  BY <1>4, <1>a, <1>c, FailKeeps DEF DecoderFails, CopyError, SpillErrors, Flow
<1>5. CASE EndOfStream
  <2>1. /\ pc = "copy" /\ job.route # "7z" /\ pc' = "check"
        /\ left = 0 \/ (pos = job.len /\ job.sound)
        /\ UNCHANGED <<job, left, pos, buf, file, written, cursor, result>>
    BY <1>5 DEF EndOfStream
  <2>2. buf = 0 /\ written = pos /\ left + pos = job.cap + 1 /\ pos <= job.len
    BY <1>c, <2>1 DEF Flow
  <2>3. Verdict'
    BY <1>b, <2>1, <2>2 DEF Verdict
  <2>4. Flow'
    BY <1>b, <1>c, <2>1, <2>2 DEF Flow
  <2> QED
    BY <1>a, <2>1, <2>3, <2>4 DEF CapInv, OkIsWhole, TooLargeIsTrue
<1>6. CASE ReadWhole
  <2>1. /\ pc = "copy" /\ job.route = "7z" /\ job.sound /\ pc' = "write"
        /\ pos' = job.len /\ buf' = job.len
        /\ UNCHANGED <<job, left, file, written, cursor, result>>
    BY <1>6 DEF ReadWhole
  <2>2. job.len <= job.cap
    BY <1>6, <1>b DEF ReadWhole, TooLarge7z, Smaller
  <2>3. written = 0
    BY <1>c, <2>1 DEF Flow
  <2>4. Flow'
    BY <1>b, <2>1, <2>2, <2>3 DEF Flow
  <2> QED
    BY <1>a, <2>1, <2>4 DEF CapInv, Verdict, OkIsWhole, TooLargeIsTrue
<1>7. CASE WholeFails
  <2> DEFINE e == IF TooLarge7z THEN "TooLarge" ELSE "Read"
  <2>1. Fail(e) /\ UNCHANGED <<job, buf, written>> /\ job.route = "7z" /\ e \in SpillErrors
    BY <1>7 DEF WholeFails, SpillErrors
  <2>2. e = "TooLarge" =>
          job.len > job.cap \/ job.len > MaxInflated \/ job.declared > MaxInflated
    BY <1>b DEF TooLarge7z, Smaller
  <2> HIDE DEF e
  <2> QED
    BY <1>a, <1>c, <2>1, <2>2, FailKeeps DEF Flow
<1>8. CASE Write
  <2>1. /\ pc = "write" /\ written' = written + buf /\ buf' = 0 /\ pc' = AfterWrite
        /\ UNCHANGED <<job, left, pos, file, result>>
    BY <1>8 DEF Write
  <2>2. written + buf = pos
    BY <1>c, <2>1 DEF Flow
  <2>3. CASE job.route = "7z"
    <3>1. pc' = "check" /\ pos = job.len /\ job.sound /\ job.len <= job.cap
      BY <1>c, <2>1, <2>3 DEF AfterWrite, Flow
    <3>2. Flow' /\ Verdict'
      BY <1>b, <2>1, <2>2, <2>3, <3>1 DEF Flow, Verdict
    <3> QED
      BY <1>a, <2>1, <3>1, <3>2 DEF CapInv, OkIsWhole, TooLargeIsTrue, TypeOK
  <2>4. CASE job.route # "7z"
    <3>1. pc' = "copy" /\ left + pos = job.cap + 1 /\ pos <= job.len
      BY <1>c, <2>1, <2>4 DEF AfterWrite, Flow
    <3>2. Flow' /\ Verdict'
      BY <1>b, <2>1, <2>2, <2>4, <3>1 DEF Flow, Verdict
    <3> QED
      BY <1>a, <2>1, <3>1, <3>2 DEF CapInv, OkIsWhole, TooLargeIsTrue, TypeOK
  <2> QED
    BY <2>3, <2>4
<1>9. CASE WriteFails
  <2>1. PICK n \in 0 .. buf :
               written' = written + n /\ cursor' = cursor + n /\ buf' = buf - n
    BY <1>9 DEF WriteFails
  <2>2. /\ Fail(CopyError) /\ UNCHANGED <<job, left, pos>> /\ pc = "write"
        /\ CopyError \in SpillErrors /\ CopyError # "TooLarge"
    BY <1>9 DEF WriteFails, CopyError, SpillErrors
  <2>3. written' + buf' <= job.cap + 1
    BY <1>b, <1>c, <2>1 DEF Flow
  <2> QED
    BY <1>a, <2>2, <2>3, FailKeeps
<1>10. CASE Check
  <2>1. pc = "check" /\ buf = 0 /\ written = pos /\ UNCHANGED <<job, left, pos, buf, written, cursor>>
    BY <1>10, <1>c DEF Check, Flow
  <2>2. CASE OverCap(written)
    <3>1. Fail("TooLarge") /\ job.len > job.cap
      BY <1>10, <1>b, <1>c, <2>1, <2>2 DEF Check, OverCap, Verdict
    <3> QED
      BY <1>a, <1>c, <2>1, <3>1, FailKeeps DEF SpillErrors, Flow
  <2>3. CASE ~OverCap(written)
    <3>1. pc' = "rewind" /\ UNCHANGED <<file, result>>
      BY <1>10, <2>3 DEF Check
    <3>2. job.sound /\ written = job.len /\ job.len <= job.cap
      BY <1>b, <1>c, <2>1, <2>3 DEF OverCap, Verdict
    <3>3. Flow' /\ Verdict'
      BY <1>b, <1>c, <2>1, <3>1, <3>2 DEF Flow, Verdict
    <3> QED
      BY <1>a, <2>1, <3>1, <3>3 DEF CapInv, OkIsWhole, TooLargeIsTrue, TypeOK
  <2> QED
    BY <2>2, <2>3
<1>11. CASE Rewind
  BY <1>11, <1>a, <1>c DEF Rewind, ToStart, CapInv, Flow, Verdict, OkIsWhole, TooLargeIsTrue
<1>12. CASE RewindFails
  BY <1>12, <1>a, <1>c, FailKeeps DEF RewindFails, SpillErrors, Flow
<1>13. CASE DropHandle
  BY <1>13, <1>a DEF DropHandle, CapInv, Flow, Verdict, OkIsWhole, TooLargeIsTrue
<1>14. CASE UNCHANGED vars
  BY <1>14, <1>a DEF vars, CapInv, Flow, Verdict, OkIsWhole, TooLargeIsTrue
<1> QED
  BY <1>1, <1>2, <1>3, <1>4, <1>5, <1>6, <1>7, <1>8, <1>9, <1>10, <1>11, <1>12, <1>13, <1>14
     DEF Next, Step

LEMMA CapHolds == ASSUME MaxU64 \notin Caps PROVE Spec => []CapInv
<1>1. Init => CapInv
  BY CapInit
<1>2. CapInv /\ [Next]_vars => CapInv'
  BY CapStep
<1> QED
  BY <1>1, <1>2, PTL DEF Spec

\* With a cap below u64::MAX, Ok is the whole of a sound stream within the cap
\* (execute.rs:544-561, archive.rs:412-430).
THEOREM CapIsKept == ASSUME MaxU64 \notin Caps PROVE Spec => []OkIsWhole
<1>1. CapInv => OkIsWhole
  BY DEF CapInv
<1> QED
  BY <1>1, CapHolds, PTL

\* And TooLarge is never a false alarm (execute.rs:557-559, archive.rs:394-410).
THEOREM NoFalseAlarm == ASSUME MaxU64 \notin Caps PROVE Spec => []TooLargeIsTrue
<1>1. CapInv => TooLargeIsTrue
  BY DEF CapInv
<1> QED
  BY <1>1, CapHolds, PTL

\* And the file never outgrows cap + 1, however long the stream (execute.rs:18-20).
THEOREM SinkIsBounded == ASSUME MaxU64 \notin Caps PROVE Spec => []SinkBounded
<1>1. CapInv => SinkBounded
  <2> SUFFICES ASSUME CapInv PROVE SinkBounded
    OBVIOUS
  <2>1. written + buf <= job.cap + 1 /\ written \in Nat /\ buf \in Nat /\ job.cap \in Nat
    BY JobType DEF CapInv, Flow, TypeOK
  <2> QED
    BY <2>1 DEF SinkBounded
<1> QED
  BY <1>1, CapHolds, PTL

-----------------------------------------------------------------------------
(* The promise *)

\* A call that copies has its file, and what it reads of a 7z member is within
\* MAX_INFLATED.
Ready ==
  /\ pc \in {"copy", "write", "check", "rewind"} => file = "there"
  /\ job.route = "7z" /\ pc \in {"write", "check", "rewind"} =>
       job.declared <= MaxInflated /\ job.len <= MaxInflated

LEMMA ReadyHolds == Spec => []Ready
<1>1. Init => Ready
  BY DEF Init, Ready
<1>2. TypeOK /\ Ready /\ [Next]_vars => Ready'
  <2> SUFFICES ASSUME TypeOK, Ready, [Next]_vars PROVE Ready'
    OBVIOUS
  <2>1. ASSUME NEW e, Fail(e), UNCHANGED job PROVE Ready'
    BY <2>1 DEF Fail, Ready
  <2>2. CASE CreateFails \/ DecoderFails \/ WholeFails \/ WriteFails \/ RewindFails
    BY <2>1, <2>2 DEF CreateFails, DecoderFails, WholeFails, WriteFails, RewindFails
  <2>3. CASE Check
    BY <2>1, <2>3 DEF Check, Ready
  <2>4. CASE ReadWhole
    <3>1. job.len \in Nat /\ job.cap \in Nat /\ job.declared \in Nat /\ MaxInflated \in Nat
      BY JobType, SpillAssumption DEF TypeOK
    <3>2. job.declared <= MaxInflated /\ job.len <= MaxInflated
      BY <2>4, <3>1 DEF ReadWhole, TooLarge7z, Smaller
    <3> QED
      BY <2>4, <3>2 DEF ReadWhole, Ready
  <2>5. CASE Create \/ Read \/ EndOfStream \/ Rewind
    BY <2>5 DEF Create, Read, EndOfStream, Rewind, Ready
  <2>6. CASE Write
    BY <2>6 DEF Write, AfterWrite, Ready
  <2>7. CASE DropHandle
    BY <2>7 DEF DropHandle, Ready, TypeOK
  <2>8. CASE UNCHANGED vars
    BY <2>8 DEF vars, Ready
  <2> QED
    BY <2>2, <2>3, <2>4, <2>5, <2>6, <2>7, <2>8 DEF Next, Step
<1> QED
  BY <1>1, <1>2, TypeCorrect, PTL DEF Spec

\* To its caller an extraction is one step, with the answer that its stream, its cap
\* and the temp volume give a reason for: what Executor's spill steps rest on
\* (execute.rs:509-522, archive.rs:179-210).
THEOREM IsOneStep == ASSUME MaxU64 \notin Caps PROVE Spec => Caller!Safety
<1>1. Init => Caller!Init
  BY DEF Init, Caller!Init, Caller!Pending, Answered
<1>2. CapInv /\ CapInv' /\ Ready /\ [Next]_vars => [Caller!Next]_(Caller!vars)
  <2> SUFFICES ASSUME CapInv, CapInv', Ready, [Next]_vars PROVE [Caller!Next]_(Caller!vars)
    OBVIOUS
  <2>a. /\ job.len \in Nat /\ job.cap \in Nat /\ job.declared \in Nat /\ MaxInflated \in Nat
        /\ pc = "done" <=> result # "none"
    BY JobType, SpillAssumption DEF CapInv, TypeOK
  \* The call ends with an error.
  <2>1. ASSUME result' \in SpillErrors, file' # "there", UNCHANGED job, pc # "done",
               result' = "Decode" => job.route = "wrapper"
        PROVE  Caller!ExtractFails
    <3> DEFINE e == result'
    <3>1. result = "none" /\ result' = e /\ file' # "there" /\ e # "ok" /\ e # "none"
      BY <2>a, <2>1 DEF SpillErrors
    <3>2. Answered = Caller!Pending /\ Answered' = [error |-> e]
      BY <3>1 DEF Answered, Caller!Pending
    <3>3. e = "TooLarge" => Caller!PassesCap
      BY <2>1, <3>1 DEF CapInv, TooLargeIsTrue, Caller!PassesCap, Caller!Is7z
    <3>4. e \in Caller!Errors
      BY <2>1, <3>3 DEF Caller!Errors, SpillErrors
    <3> QED
      BY <2>1, <3>1, <3>2, <3>4 DEF Caller!ExtractFails
  \* The call goes on.
  <2>2. ASSUME result = "none", result' = "none", UNCHANGED job PROVE UNCHANGED Caller!vars
    BY <2>2 DEF Caller!vars, Answered
  <2>3. CopyError \in SpillErrors /\ (CopyError = "Decode" => job.route = "wrapper")
    BY DEF CopyError, SpillErrors
  <2>4. CASE CreateFails \/ DecoderFails \/ WholeFails \/ WriteFails \/ RewindFails
    <3>1. SUFFICES Caller!ExtractFails
      BY DEF Caller!Next
    <3>2. {"Read", "TooLarge"} \subseteq SpillErrors
      BY DEF SpillErrors
    <3>3. CASE CreateFails
      BY <2>1, <2>3, <3>2, <3>3 DEF CreateFails, Fail
    <3>4. CASE DecoderFails
      BY <2>1, <2>3, <3>2, <3>4 DEF DecoderFails, Fail
    <3>5. CASE WholeFails
      BY <2>1, <2>3, <3>2, <3>5 DEF WholeFails, Fail
    <3>6. CASE WriteFails
      BY <2>1, <2>3, <3>2, <3>6 DEF WriteFails, Fail
    <3>7. CASE RewindFails
      BY <2>1, <2>3, <3>2, <3>7 DEF RewindFails, Fail
    <3> QED
      BY <2>4, <3>3, <3>4, <3>5, <3>6, <3>7
  <2>5. CASE Check
    <3>a. pc = "check" /\ UNCHANGED job
      BY <2>5 DEF Check
    <3>1. pc = "check" /\ result = "none" /\ UNCHANGED job
      BY <2>a, <3>a
    <3>2. CASE OverCap(written)
      <4>1. Fail("TooLarge")
        BY <2>5, <3>2 DEF Check
      <4>2. Caller!ExtractFails
        BY <2>1, <3>1, <4>1 DEF Fail, SpillErrors
      <4> QED
        BY <4>2 DEF Caller!Next
    <3>3. CASE ~OverCap(written)
      <4>1. result' = "none"
        BY <2>5, <3>1, <3>3 DEF Check
      <4> QED
        BY <2>2, <3>1, <4>1
    <3> QED
      BY <3>2, <3>3
  <2>6. CASE Create \/ Read \/ EndOfStream \/ ReadWhole \/ Write
    <3>1. pc # "done" /\ UNCHANGED <<job, result>>
      BY <2>6 DEF Create, Read, EndOfStream, ReadWhole, Write
    <3>2. result = "none" /\ result' = "none"
      BY <2>a, <3>1
    <3> QED
      BY <2>2, <3>1, <3>2
  <2>7. CASE Rewind
    <3>1. /\ result = "none" /\ result' = "ok" /\ UNCHANGED job /\ file = "there" /\ file' = file
          /\ pc = "rewind"
      BY <2>a, <2>7 DEF Rewind, Ready
    <3>2. job.sound /\ written' = job.len /\ job.len <= job.cap /\ cursor' = 0
      BY <3>1 DEF CapInv, OkIsWhole
    <3>3. Answered = Caller!Pending /\ Answered' = [len |-> job.len, at |-> 0]
      BY <3>1, <3>2 DEF Answered, Caller!Pending
    <3>4. Caller!Whole
      BY <3>1, <3>2 DEF Caller!Whole, Caller!Is7z, Ready
    <3> QED
      BY <3>1, <3>3, <3>4 DEF Caller!Next, Caller!Extract
  <2>8. CASE DropHandle
    <3>1. result = "ok" /\ file = "there" /\ file' = "gone"
          /\ UNCHANGED <<job, written, cursor, result>>
      BY <2>8 DEF DropHandle
    <3>2. Answered = [len |-> written, at |-> cursor] /\ UNCHANGED Answered
      BY <3>1 DEF Answered
    <3>3. Answered # Caller!Pending
      BY <3>2 DEF Caller!Pending
    <3> QED
      BY <3>1, <3>2, <3>3 DEF Caller!Next, Caller!Drop
  <2>9. CASE UNCHANGED vars
    BY <2>9 DEF vars, Caller!vars, Answered
  <2> QED
    BY <2>4, <2>5, <2>6, <2>7, <2>8, <2>9 DEF Next, Step, Caller!Next
<1> QED
  BY <1>1, <1>2, CapHolds, ReadyHolds, PTL DEF Spec, Caller!Safety
=============================================================================
