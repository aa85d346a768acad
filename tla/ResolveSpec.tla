---------------------------- MODULE ResolveSpec ----------------------------
(***************************************************************************)
(* What resolve() promises: for its input, in one step, the one answer     *)
(* that is determined by it.                                               *)
(***************************************************************************)
CONSTANTS Inputs,
          Answer(_)  \* the answer to each input

VARIABLES in, answer   \* answer: Pending, [error |-> e] or [nodes |-> s]

Pending == [pending |-> TRUE]

Init == in \in Inputs /\ answer = Pending

Reply == answer = Pending /\ answer' = Answer(in) /\ UNCHANGED in

Spec == Init /\ [][Reply]_<<in, answer>>
=============================================================================
