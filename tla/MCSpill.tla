------------------------------ MODULE MCSpill ------------------------------
(***************************************************************************)
(* u64 has 8 values here.  Every cap below the last meets every length     *)
(* from nothing to two past u64::MAX, so streams end before, at, one past  *)
(* and well past the cap; the buffer takes 3.                              *)
(***************************************************************************)
EXTENDS Spill

MCLengths == 0 .. MaxU64 + 2

MCFewLengths == {0, 2, MaxU64 + 2}

MCCaps == 0 .. MaxU64 - 1

MCWidestCap == {MaxU64}
=============================================================================
