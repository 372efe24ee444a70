----------------------- MODULE MCSubmodularScheduler -----------------------
(***************************************************************************)
(* Calls of SubmodularScheduler for TLC.  The weight vector and the heap   *)
(* behind it are read up to index Reach: no sum passes twice the largest   *)
(* weight.                                                                 *)
(***************************************************************************)
EXTENDS SubmodularScheduler

CONSTANTS
  MaxCost,       \* costs are 0 .. MaxCost
  Budgets,       \* scaled by Unit
  WeightValues,  \* the same, and what the heap may hold
  Exponents

Reach == Max({(2 * Max(WeightValues)) \div Unit, NCores - 1})

Memories == [0 .. Reach -> WeightValues]

Costs == [Cores -> 0 .. MaxCost]

(* Whatever a policy may supply: any items, costs, weights and heap.       *)
MCAnyCalls ==
  [items : SUBSET Cores, cost : Costs, memory : Memories,
   budget : Budgets, r : Exponents]
=============================================================================
