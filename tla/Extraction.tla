----------------------------- MODULE Extraction -----------------------------
(***************************************************************************)
(* What one capped extraction to a temp file promises its caller           *)
(* (core/src/execute.rs: spill; archive.rs: stream_member): in one step it *)
(* answers with a handle at the start of the whole stream, or with an      *)
(* error and no file.  It is the step that Executor takes for a spill.     *)
(***************************************************************************)
EXTENDS Integers

CONSTANTS Job,         \* [route, len, sound, declared, cap]
          MaxInflated  \* what a 7z member is held to whatever the cap

VARIABLES job,     \* what is extracted
          answer,  \* Pending, [error |-> e] or the handle: [len, at]
          file     \* there is a temp file once the call has returned

vars == <<job, answer, file>>

Pending == [pending |-> TRUE]

Is7z == job.route = "7z"

\* The whole of the stream can be had.
Whole ==
  /\ job.sound /\ job.len <= job.cap
  /\ Is7z => job.declared <= MaxInflated /\ job.len <= MaxInflated

\* A cap is passed, by what there is of the stream or by what it declares.
PassesCap == job.len > job.cap \/ (Is7z /\ (job.len > MaxInflated \/ job.declared > MaxInflated))

Init == answer = Pending /\ file = FALSE

Extract ==
  /\ answer = Pending /\ Whole
  /\ answer' = [len |-> job.len, at |-> 0] /\ file' = TRUE
  /\ UNCHANGED job

\* A stream that breaks off, a cap passed, or a temp volume that refuses; only a
\* wrapper has a decoder's error of its own.
Errors ==
  {"Read"} \cup {e \in {"Decode"} : job.route = "wrapper"} \cup {e \in {"TooLarge"} : PassesCap}

ExtractFails ==
  /\ answer = Pending
  /\ \E e \in Errors : answer' = [error |-> e]
  /\ UNCHANGED <<job, file>>

\* The file goes with the handle.
Drop == answer # Pending /\ file /\ file' = FALSE /\ UNCHANGED <<job, answer>>

Next == Extract \/ ExtractFails \/ Drop

\* What is answered.
Safety == Init /\ [][Next]_vars

\* And the caller gets its answer.
Spec == Safety /\ WF_vars(Extract \/ ExtractFails)
=============================================================================
