------------------------------ MODULE MCPeeled ------------------------------
(***************************************************************************)
(* u64 has 8 values, i64 half of them.  Handles of every kind, empty and   *)
(* not; zran handles with less and with more in their stream than they     *)
(* declare; seeks before the start, past the end, out of i64 and of u64.   *)
(***************************************************************************)
EXTENDS PeeledSource

MCByte == 1 .. 4

Handle(kind, n) == [kind |-> kind, len |-> n, bytes |-> [k \in 1 .. n |-> k]]

MCOpened ==
  {Handle(kind, n) : kind \in {"InPlace", "Zran", "Temp"}, n \in {0, 2, 3}}
    \cup {[Handle("Zran", 2) EXCEPT !.len = n] : n \in {1, 3}}

MCWants == 0 .. 3

MCSeeks ==
  [whence : {"start"}, off : {0, 2, MaxI64, MaxU64}]
    \cup [whence : {"end", "current"}, off : {-4, -2, 1, MaxI64}]
=============================================================================
