------------------------------- MODULE Budget -------------------------------
(***************************************************************************)
(* The limits of a call of resolve() and the arithmetic of the counters    *)
(* held against them (Limits and Budget in core/src/resolve.rs).           *)
(***************************************************************************)
EXTENDS Naturals

CONSTANT MaxU64    \* u64::MAX, where the budget's additions saturate

ASSUME BudgetAssumption == MaxU64 \in Nat

Limits == [max_depth : Nat, max_total_inflated : Nat, max_entries : Nat]

SatAdd(a, n) == IF a + n > MaxU64 THEN MaxU64 ELSE a + n
=============================================================================
