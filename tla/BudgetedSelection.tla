------------------------- MODULE BudgetedSelection -------------------------
(***************************************************************************)
(* What SubmodularScheduler::operator() promises its two callers,          *)
(* CpusetAssignerProcess::assign and                                       *)
(* CpusetResourceEstimatorProcess::oversubscribable: one atomic answer to  *)
(* one call.  The answer is either a set of cores of the right size or the *)
(* crash of a selection that could not pay for any core.  How the cores    *)
(* are compared, and in which order, is left open; SubmodularScheduler     *)
(* implements this module.                                                 *)
(***************************************************************************)
EXTENDS Integers, FiniteSets

CONSTANTS
  Unit,        \* the number that stands for the float 1.0
  MinCost(_)   \* cost.min() of a call

VARIABLES
  call,        \* the call being answered
  status,      \* "running", "done" or "segfault"
  Gf           \* the out parameter

vars == <<call, status, Gf>>

(***************************************************************************)
(* A core is affordable when its cost alone is within                      *)
(* B = cost.min() * budget.                                                *)
(***************************************************************************)
Affordable(c, v) == c.cost[v] * Unit <= MinCost(c) * c.budget

(***************************************************************************)
(* A set may be answered when it holds one core, or when twice the cores   *)
(* beyond the first still fit the budget.  The budget counts cores, so     *)
(* this is about half of what was asked for.  Idle cores, of cost zero,    *)
(* are the exception: a set of them has no limit.                          *)
(***************************************************************************)
Answerable(c, S) ==
  /\ S \subseteq c.items
  /\ S # {}
  /\ \/ Cardinality(S) = 1
     \/ 2 * (Cardinality(S) - 1) * Unit <= c.budget
     \/ \A v \in S : c.cost[v] = 0

Init ==
  /\ status = "running"
  /\ Gf = {}

Answer ==
  /\ status = "running"
  /\ \E v \in call.items : Affordable(call, v)
  /\ status' = "done"
  /\ Answerable(call, Gf')
  /\ UNCHANGED call

Crash ==
  /\ status = "running"
  /\ \A v \in call.items : ~ Affordable(call, v)
  /\ status' = "segfault"
  /\ UNCHANGED <<call, Gf>>

Next == Answer \/ Crash

Spec == Init /\ [][Next]_vars
=============================================================================
