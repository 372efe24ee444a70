--------------------- MODULE SubmodularSchedulerProofs ---------------------
(***************************************************************************)
(* Theorems about SubmodularScheduler, for every number of cores, every    *)
(* unit and every set of calls that satisfies the module's assumptions.    *)
(*                                                                         *)
(* How many cores are taken: the cores taken cost at least MinCost each,   *)
(* so a core that passes the test of line 195 with g cores already taken   *)
(* shows 2 * g * MinCost within MinCost * budget, and so 2 * g within the  *)
(* budget if MinCost is positive.  If it is zero so is B, and all cores    *)
(* taken are idle or there is only one.  Nothing of this looks at the      *)
(* weights, nor at what is read behind them: f is never expanded.          *)
(*                                                                         *)
(* Which cores are taken needs f: that it is a sum of naturals, so that    *)
(* the best single core exists and the answers can be compared, and that   *)
(* with equal weights the ratio of line 170 is largest for a least cost.   *)
(***************************************************************************)
EXTENDS SubmodularScheduler, FoldLemmas

(***************************************************************************)
(* The size of a set of cores is bounded by half the budget, or the cores  *)
(* are idle.                                                               *)
(***************************************************************************)
HalfBudget(S) ==
  \/ Cardinality(S) <= 1
  \/ 2 * (Cardinality(S) - 1) * Unit <= call.budget
  \/ \A v \in S : cost[v] = 0

WithinBudget == Cardinality(G) > 1 => Sum(cost, G) * Unit <= B

(***************************************************************************)
(* The inductive invariant.                                                *)
(***************************************************************************)
IInv ==
  /\ TypeOK
  /\ U \cap G = {}
  /\ Sum(cost, G) \in Nat
  /\ Sum(cost, G) >= MinCost(call) * Cardinality(G)
  /\ WithinBudget
  /\ HalfBudget(G)
  /\ HalfBudget(Gf)
  /\ status = "segfault" => vlist = {}

-----------------------------------------------------------------------------
(***************************************************************************)
(* cost.min() exists, is some core's cost and no core's cost is smaller.   *)
(***************************************************************************)
LEMMA MinCostIsLeast ==
  ASSUME NEW c \in Calls
  PROVE  /\ MinCost(c) \in Nat
         /\ \A v \in Cores : MinCost(c) <= c.cost[v]
         /\ \E v \in Cores : MinCost(c) = c.cost[v]
<1> DEFINE Costs == {c.cost[v] : v \in Cores}
<1>1. c.cost \in [Cores -> Nat]
  BY CallsAssumption
<1>2. Costs \subseteq Nat
  BY <1>1
<1>3. Costs # {}
  <2>1. 0 \in Cores
    BY NCoresAssumption DEF Cores
  <2>2. c.cost[0] \in Costs
    BY <2>1
  <2> QED BY <2>2
<1>4. \E m \in Costs : \A n \in Costs : ~ (n < m)
  BY <1>2, <1>3, LeastNatural, Zenon
<1>5. \E m \in Costs : \A v \in Cores : m <= c.cost[v]
  <2>1. PICK m \in Costs : \A n \in Costs : ~ (n < m)
    BY <1>4
  <2>2. ASSUME NEW n \in Costs
        PROVE  m <= n
    <3> HIDE DEF Costs
    <3>1. m \in Nat /\ n \in Nat /\ ~ (n < m)
      BY <1>2, <2>1
    <3> QED BY <3>1
  <2> QED BY <2>2
<1>6. MinCost(c) \in Costs /\ \A v \in Cores : MinCost(c) <= c.cost[v]
  BY <1>5 DEF MinCost
<1> QED BY <1>1, <1>6

(***************************************************************************)
(* Cancelling a positive factor, which the solvers do not find by          *)
(* themselves inside a larger goal.                                        *)
(***************************************************************************)
LEMMA CancelFactor ==
  ASSUME NEW m \in Nat \ {0}, NEW a \in Nat, NEW b \in Nat, m * a <= m * b
  PROVE  a <= b
<1>1. SUFFICES ASSUME a >= b + 1 PROVE FALSE
  OBVIOUS
<1>2. m * a >= m * (b + 1)
  BY <1>1
<1>3. m * (b + 1) = m * b + m
  OBVIOUS
<1> QED BY <1>2, <1>3

(***************************************************************************)
(* The sets of cores are finite, so their sizes are naturals.              *)
(***************************************************************************)
LEMMA SizesAreNaturals ==
  ASSUME NEW S, S \subseteq Cores
  PROVE  IsFiniteSet(S) /\ Cardinality(S) \in Nat
<1>1. IsFiniteSet(Cores)
  BY NCoresAssumption, FS_Interval DEF Cores
<1> QED BY <1>1, FS_Subset, FS_CardinalityType

(***************************************************************************)
(* What a set of cores costs, and cost_test_sum by its parts.              *)
(***************************************************************************)
LEMMA CostFacts ==
  ASSUME TypeOK
  PROVE  /\ \A S \in SUBSET Cores : Sum(cost, S) \in Nat
         /\ \A S \in SUBSET Cores : \A k \in Cores \ S :
              Sum(cost, S \cup {k}) = Sum(cost, S) + cost[k]
         /\ \A S \in SUBSET Cores : \A v \in S : cost[v] <= Sum(cost, S)
         /\ \A k \in Cores : CostTestSum(k) = Sum(cost, G) + Cardinality(G) * cost[k]
<1>1. \A v \in Cores : cost[v] \in Nat
  BY CallsAssumption DEF TypeOK, cost
<1>2. \A S \in SUBSET Cores : IsFiniteSet(S) /\ \A v \in S : cost[v] \in Nat
  BY <1>1, SizesAreNaturals
<1>3. ASSUME NEW S \in SUBSET Cores
      PROVE  Sum(cost, S) \in Nat
  BY <1>2, SumIsNatural
<1>4. ASSUME NEW S \in SUBSET Cores, NEW k \in Cores \ S
      PROVE  Sum(cost, S \cup {k}) = Sum(cost, S) + cost[k]
  <2>1. Sum(cost, S \cup {k}) = cost[k] + Sum(cost, S)
    BY <1>1, <1>2, SumOfOneMore
  <2> QED BY <1>1, <1>3, <2>1
<1>5. ASSUME NEW S \in SUBSET Cores, NEW v \in S
      PROVE  cost[v] <= Sum(cost, S)
  BY <1>2, SumIsAboveEach
<1>6. ASSUME NEW k \in Cores
      PROVE  CostTestSum(k) = Sum(cost, G) + Cardinality(G) * cost[k]
  <2>1. IsFiniteSet(G) /\ (\A x \in G : cost[x] \in Nat) /\ cost[k] \in Nat
    BY <1>1, <1>2, CallsAssumption DEF TypeOK, V
  <2>2. MapThenSumSet(LAMBDA x : cost[x] + cost[k], G) = Sum(cost, G) + Cardinality(G) * cost[k]
    BY <2>1, SumOfShifted
  <2> QED BY <2>2 DEF CostTestSum
<1> QED BY <1>3, <1>4, <1>5, <1>6

(***************************************************************************)
(* Taking one more core: the size grows by one, and if the core passed the *)
(* cost test the new size is still within half the budget.                 *)
(***************************************************************************)
LEMMA AcceptKeepsInv ==
  ASSUME IInv, NEW k \in U, Accept(k)
  PROVE  IInv'
<1> DEFINE g == Cardinality(G)
           m == MinCost(call)
           spent == Sum(cost, G)
<1>1. /\ call \in Calls /\ V \subseteq Cores /\ k \in Cores /\ k \notin G
      /\ cost[k] \in Nat /\ call.budget \in Nat
      /\ G \subseteq V /\ U \subseteq V
  BY CallsAssumption DEF IInv, TypeOK, V, cost
<1>2. IsFiniteSet(G) /\ g \in Nat
  BY <1>1, SizesAreNaturals
<1>3. m \in Nat /\ m <= cost[k]
  BY <1>1, MinCostIsLeast DEF cost
<1>4. Cardinality(G') = g + 1
  BY <1>1, <1>2, FS_AddElement DEF Accept
<1>5. /\ G' = G \cup {k} /\ U' = U \ {k}
      /\ call' = call /\ cost' = cost /\ status' = status /\ Gf' = Gf /\ status = "running"
  BY DEF Accept, cost
<1>6. (spent + g * cost[k]) * Unit <= m * call.budget
  BY <1>1, CostFacts DEF Accept, Passes, B, IInv
<1>7. spent \in Nat /\ spent >= m * g
  BY DEF IInv
<1>8. Sum(cost', G') = spent + cost[k]
  BY <1>1, <1>5, CostFacts DEF IInv
<1>9. G # {} => g >= 1
  <2>1. G # {} => g # 0
    BY <1>2, FS_EmptySet
  <2> HIDE DEF g
  <2> QED BY <1>2, <2>1
<1>10. \A v \in G : cost[v] \in Nat /\ cost[v] <= spent
  BY <1>1, CostFacts, CallsAssumption DEF IInv, cost
<1> HIDE DEF g, m, spent
<1>11. Sum(cost', G') \in Nat /\ Sum(cost', G') >= m * (g + 1)
  BY <1>1, <1>2, <1>3, <1>7, <1>8
<1>12. g * cost[k] >= m * g /\ g * cost[k] \in Nat
  BY <1>1, <1>2, <1>3
<1>13. HalfBudget(G)'
  <2>1. CASE m = 0
    <3>1. (spent + g * cost[k]) * Unit <= 0
      BY <1>1, <1>6, <2>1
    <3>2. spent + g * cost[k] = 0
      BY <1>7, <1>12, <3>1, UnitAssumption
    <3>3. spent = 0 /\ g * cost[k] = 0
      BY <1>7, <1>12, <3>2
    <3>4. CASE g = 0
      BY <1>4, <3>4 DEF HalfBudget
    <3>5. CASE g # 0
      <4>1. cost[k] = 0
        BY <1>1, <1>2, <3>3, <3>5
      <4>2. \A v \in G' : cost[v] = 0
        BY <1>5, <1>10, <3>3, <4>1
      <4> QED BY <1>5, <4>2 DEF HalfBudget
    <3> QED BY <3>4, <3>5
  <2>2. CASE m # 0
    <3>1. spent + g * cost[k] >= m * (2 * g)
      BY <1>1, <1>2, <1>3, <1>7, <1>12
    <3>2. (spent + g * cost[k]) * Unit >= (m * (2 * g)) * Unit
      BY <3>1, <1>2, <1>3, <1>7, <1>12, UnitAssumption
    <3>3. (m * (2 * g)) * Unit = m * (2 * g * Unit)
      BY <1>2, <1>3, UnitAssumption
    <3>4. m * (2 * g * Unit) <= m * call.budget
      <4>1. m * (2 * g * Unit) \in Nat /\ m * call.budget \in Nat
        BY <1>1, <1>2, <1>3, UnitAssumption
      <4>2. (spent + g * cost[k]) * Unit \in Nat
        BY <1>7, <1>12, UnitAssumption
      <4> QED BY <1>6, <3>2, <3>3, <4>1, <4>2
    <3>5. 2 * g * Unit <= call.budget
      BY <3>4, <2>2, <1>1, <1>2, <1>3, CancelFactor, UnitAssumption
    <3> QED BY <3>5, <1>2, <1>4, <1>5, UnitAssumption DEF HalfBudget
  <2> QED BY <2>1, <2>2
<1>14. WithinBudget'
  <2>1. CASE g = 0
    BY <2>1, <1>4 DEF WithinBudget
  <2>2. CASE g >= 1
    <3>1. g * cost[k] >= cost[k]
      BY <2>2, <1>1, <1>2
    <3>2. (spent + cost[k]) * Unit <= (spent + g * cost[k]) * Unit
      BY <3>1, <1>1, <1>7, <1>12, UnitAssumption
    <3>3. (spent + cost[k]) * Unit <= m * call.budget
      BY <3>2, <1>1, <1>2, <1>3, <1>6, <1>7, <1>12, UnitAssumption
    <3> QED BY <3>3, <1>5, <1>8 DEF WithinBudget, B, m
  <2> QED BY <2>1, <2>2, <1>2
<1>15. TypeOK'
  BY <1>1, <1>5 DEF IInv, TypeOK, V
<1>16. (U \cap G = {})'
  BY <1>1, <1>5 DEF IInv
<1>17. HalfBudget(Gf)'
  BY <1>5 DEF IInv, HalfBudget
<1>18. (Sum(cost, G) \in Nat /\ Sum(cost, G) >= MinCost(call) * Cardinality(G))'
  BY <1>4, <1>5, <1>11 DEF m
<1>19. (status = "segfault" => vlist = {})'
  BY <1>5
<1> QED BY <1>13, <1>14, <1>15, <1>16, <1>17, <1>18, <1>19 DEF IInv

(***************************************************************************)
(* Refusing a core changes nothing but the cores still to look at.         *)
(***************************************************************************)
LEMMA RejectKeepsInv ==
  ASSUME IInv, NEW k \in U, Reject(k)
  PROVE  IInv'
<1>1. /\ U' = U \ {k} /\ call' = call /\ status' = status
      /\ G' = G /\ cost' = cost /\ Gf' = Gf
  BY DEF Reject, cost
<1>2. TypeOK'
  BY <1>1 DEF IInv, TypeOK, V
<1>3. WithinBudget' /\ HalfBudget(G)' /\ HalfBudget(Gf)'
  BY <1>1 DEF IInv, WithinBudget, HalfBudget, B
<1>4. (status = "segfault" => vlist = {})'
  BY <1>1 DEF IInv, vlist, V, cost, B
<1> QED BY <1>1, <1>2, <1>3, <1>4 DEF IInv

(***************************************************************************)
(* The answer is G or a single core, and both have a size within the       *)
(* bound.                                                                  *)
(***************************************************************************)
LEMMA ChooseKeepsInv ==
  ASSUME IInv, NEW v \in vlist, Choose(v)
  PROVE  IInv'
<1>1. /\ U' = U /\ call' = call /\ status' = "done"
      /\ G' = G /\ cost' = cost /\ (Gf' = G \/ Gf' = {v})
  BY DEF Choose, cost
<1>2. v \in V
  BY DEF vlist
<1>3. TypeOK'
  BY <1>1, <1>2 DEF IInv, TypeOK, V
<1>4. WithinBudget' /\ HalfBudget(G)'
  BY <1>1 DEF IInv, WithinBudget, HalfBudget, B
<1>5. HalfBudget(Gf)'
  <2>1. CASE Gf' = G
    BY <2>1, <1>1 DEF IInv, HalfBudget
  <2>2. CASE Gf' = {v}
    <3>1. Cardinality(Gf') = 1
      BY <2>2, FS_Singleton
    <3> QED BY <3>1 DEF HalfBudget
  <2> QED BY <2>1, <2>2, <1>1
<1> QED BY <1>1, <1>3, <1>4, <1>5 DEF IInv

(***************************************************************************)
(* The call dies only where vlist is empty.                                *)
(***************************************************************************)
LEMMA NothingAffordableKeepsInv ==
  ASSUME IInv, NothingAffordable
  PROVE  IInv'
<1>1. /\ U' = U /\ call' = call /\ status' = "segfault" /\ vlist = {}
      /\ G' = G /\ cost' = cost /\ Gf' = Gf
  BY DEF NothingAffordable, cost
<1>2. TypeOK'
  BY <1>1 DEF IInv, TypeOK, V
<1>3. WithinBudget' /\ HalfBudget(G)' /\ HalfBudget(Gf)'
  BY <1>1 DEF IInv, WithinBudget, HalfBudget, B
<1>4. vlist' = {}
  BY <1>1 DEF vlist, V, cost, B
<1> QED BY <1>1, <1>2, <1>3, <1>4 DEF IInv

-----------------------------------------------------------------------------
LEMMA InitEstablishesInv ==
  ASSUME Init
  PROVE  IInv
<1>1. /\ call \in Calls /\ status = "running" /\ U = V
      /\ G = {} /\ Gf = {}
  BY DEF Init, V
<1>2. Cardinality(G) = 0 /\ Cardinality(Gf) = 0
  BY <1>1, FS_EmptySet
<1>3. MinCost(call) \in Nat
  BY <1>1, MinCostIsLeast
<1>4. MinCost(call) * Cardinality(G) = 0
  BY <1>2, <1>3
<1>5. TypeOK
  BY <1>1 DEF TypeOK
<1>6. WithinBudget /\ HalfBudget(G) /\ HalfBudget(Gf)
  BY <1>2 DEF WithinBudget, HalfBudget
<1>7. Sum(cost, G) = 0
  BY <1>1, SumOfNone
<1> QED BY <1>1, <1>4, <1>5, <1>6, <1>7 DEF IInv

LEMMA StepKeepsInv ==
  ASSUME IInv, [Next]_vars
  PROVE  IInv'
<1>1. CASE \E k \in U : Accept(k)
  BY <1>1, AcceptKeepsInv
<1>2. CASE \E k \in U : Reject(k)
  BY <1>2, RejectKeepsInv
<1>3. CASE \E v \in vlist : Choose(v)
  BY <1>3, ChooseKeepsInv
<1>4. CASE NothingAffordable
  BY <1>4, NothingAffordableKeepsInv
<1>5. CASE UNCHANGED vars
  BY <1>5 DEF vars, IInv, TypeOK, WithinBudget, HalfBudget, vlist,
              V, cost, B
<1> QED BY <1>1, <1>2, <1>3, <1>4, <1>5 DEF Next

LEMMA Inductive == Spec => []IInv
<1>1. Init => IInv
  BY InitEstablishesInv
<1>2. IInv /\ [Next]_vars => IInv'
  BY StepKeepsInv
<1> QED BY <1>1, <1>2, PTL DEF Spec

(***************************************************************************)
(* The loop only ever holds and answers items of the policy.               *)
(***************************************************************************)
THEOREM TypeCorrect == Spec => []TypeOK
<1>1. IInv => TypeOK
  BY DEF IInv
<1> QED BY <1>1, Inductive, PTL

(***************************************************************************)
(* The knapsack constraint of lines 195-198: two or more cores are never   *)
(* taken at a cost above B, whatever the weights and the order of picks.   *)
(***************************************************************************)
THEOREM StaysWithinBudget == Spec => []CostWithinBudget
<1>1. CostOf(G) = Sum(cost, G)
  BY DEF CostOf, Sum
<1>2. IInv => CostWithinBudget
  BY <1>1 DEF IInv, WithinBudget, CostWithinBudget
<1> QED BY <1>2, Inductive, PTL

(***************************************************************************)
(* A request for more than two cores is met by idle cores or not at all:   *)
(* the callers' test for enough cores (src/CpusetAssigner.hpp:48 and       *)
(* src/CpusetResourceEstimator.hpp:212) fails on every answer with a task  *)
(* on one of its cores, on a machine of any size and under any load.       *)
(***************************************************************************)
THEOREM NeverEnoughCores == Spec => []FewerThanAsked
<1>1. IInv => FewerThanAsked
  <2>1. SUFFICES ASSUME IInv, call.budget > 2 * Unit, ~ \A v \in Gf : cost[v] = 0
                 PROVE  Cardinality(Gf) * Unit < call.budget
    BY DEF FewerThanAsked
  <2>2. call.budget \in Nat /\ Gf \subseteq Cores
    BY <2>1, CallsAssumption DEF IInv, TypeOK, V
  <2> DEFINE n == Cardinality(Gf)
  <2>3. n \in Nat
    BY <2>2, SizesAreNaturals
  <2>4. n <= 1 \/ 2 * (n - 1) * Unit <= call.budget
    BY <2>1 DEF IInv, HalfBudget
  <2> HIDE DEF n
  <2>5. n * Unit < call.budget
    <3>1. CASE n <= 1
      <4>1. n * Unit <= Unit
        BY <2>3, <3>1, UnitAssumption
      <4>2. n * Unit \in Nat
        BY <2>3, UnitAssumption
      <4> QED BY <4>1, <4>2, <2>1, <2>2, UnitAssumption
    <3>2. CASE 2 * (n - 1) * Unit <= call.budget
      <4>1. 2 * (n - 1) * Unit = 2 * (n * Unit) - 2 * Unit
        BY <2>3, UnitAssumption
      <4>2. n * Unit \in Nat
        BY <2>3, UnitAssumption
      <4> QED BY <3>2, <4>1, <4>2, <2>1, <2>2, UnitAssumption
    <3> QED BY <2>4, <3>1, <3>2
  <2> QED BY <2>5 DEF n
<1> QED BY <1>1, Inductive, PTL

(***************************************************************************)
(* Asked for one core or more out of all of them, the selection never      *)
(* dereferences the end of an empty vlist (line 217).                      *)
(***************************************************************************)
THEOREM WholeCoreIsSafe == Spec => []WholeCoreNeverCrashes
<1>1. IInv => WholeCoreNeverCrashes
  <2>1. SUFFICES ASSUME IInv, call.items = Cores, call.budget >= Unit
                 PROVE  vlist # {}
    BY DEF IInv, WholeCoreNeverCrashes
  <2>2. call \in Calls /\ call.budget \in Nat
    BY <2>1, CallsAssumption DEF IInv, TypeOK
  <2>3. PICK v \in Cores : MinCost(call) = cost[v]
    BY <2>2, MinCostIsLeast DEF cost
  <2>4. MinCost(call) \in Nat
    BY <2>2, MinCostIsLeast
  <2>5. MinCost(call) * Unit <= MinCost(call) * call.budget
    BY <2>1, <2>2, <2>4, UnitAssumption
  <2>6. v \in vlist
    BY <2>1, <2>3, <2>5 DEF vlist, V, B
  <2> QED BY <2>6
<1> QED BY <1>1, Inductive, PTL

-----------------------------------------------------------------------------
(***************************************************************************)
(* C, as a function of the memory it reads.  A memory is readable when the *)
(* sum of two of its floats leads to a third.                              *)
(***************************************************************************)
CSum(m, S) ==
  MapThenFoldSet(LAMBDA k, sum : m[sum \div Unit] + m[k], 0, LAMBDA k : k, Max, S)

CSums(iter, m, Sets) ==
  iter = [T \in Sets |-> IF T = {} THEN 0
                         ELSE m[iter[T \ {Max(T)}] \div Unit] + m[Max(T)]]

CSumsBelow(iter, m, S) == CSums(iter, m, SUBSET S)

Readable(m) ==
  /\ Cores \subseteq DOMAIN m
  /\ \A i \in DOMAIN m : m[i] \in Nat
  /\ \A i, j \in DOMAIN m : (m[i] + m[j]) \div Unit \in DOMAIN m

Level(m) == m[0] > 0 /\ \A i \in Cores \cup {(2 * m[0]) \div Unit} : m[i] = m[0]

LEMMA GreatestCore ==
  ASSUME NEW T, T \subseteq Cores, T # {}
  PROVE  /\ Max(T) \in T /\ IsFiniteSet(T)
         /\ Cardinality(T) \in Nat /\ Cardinality(T) - 1 \in Nat
         /\ Cardinality(T \ {Max(T)}) = Cardinality(T) - 1
<1>1. T \subseteq Nat /\ NCores \in Nat /\ \A t \in T : t <= NCores
  BY NCoresAssumption DEF Cores
<1>2. Max(T) \in T
  BY <1>1, GreatestNatural
<1>3. IsFiniteSet(T) /\ Cardinality(T) \in Nat
  BY SizesAreNaturals
<1>4. Cardinality(T \ {Max(T)}) = Cardinality(T) - 1 /\ IsFiniteSet(T \ {Max(T)})
  BY <1>2, <1>3, FS_RemoveElement
<1>5. Cardinality(T) - 1 \in Nat
  BY <1>4, FS_CardinalityType
<1> QED BY <1>2, <1>3, <1>4, <1>5

(***************************************************************************)
(* The recursive function that accumulate computes exists.                 *)
(***************************************************************************)
LEMMA CSumsExist ==
  ASSUME NEW m, NEW S, S \subseteq Cores
  PROVE  \E iter : CSumsBelow(iter, m, S)
<1> DEFINE Small(n) == {T \in SUBSET S : Cardinality(T) <= n}
           Bad == {n \in Nat : ~ \E iter : CSums(iter, m, Small(n))}
<1>1. \A T \in SUBSET S : IsFiniteSet(T) /\ Cardinality(T) \in Nat
  BY SizesAreNaturals
<1>2. \A T \in SUBSET S : T # {} => /\ Max(T) \in T
                                    /\ Cardinality(T \ {Max(T)}) = Cardinality(T) - 1
  BY GreatestCore
<1>3. 0 \notin Bad
  <2>1. \A T \in Small(0) : T = {}
    BY <1>1, FS_EmptySet
  <2>2. CSums([T \in Small(0) |-> 0], m, Small(0))
    BY <2>1 DEF CSums
  <2> QED BY <2>2
<1>4. ASSUME NEW n \in Nat, n \notin Bad
      PROVE  n + 1 \notin Bad
  <2>1. PICK g : CSums(g, m, Small(n))
    BY <1>4
  <2> DEFINE g1 == [T \in Small(n + 1) |->
                      IF T = {} THEN 0
                      ELSE m[g[T \ {Max(T)}] \div Unit] + m[Max(T)]]
  <2>2. ASSUME NEW T \in Small(n)
        PROVE  T \in Small(n + 1) /\ g1[T] = g[T]
    <3>1. T \in Small(n + 1)
      BY <1>1
    <3> QED BY <3>1, <2>1 DEF CSums
  <2>3. ASSUME NEW T \in Small(n + 1), T # {}
        PROVE  T \ {Max(T)} \in Small(n)
    BY <1>1, <1>2, <2>3
  <2>4. CSums(g1, m, Small(n + 1))
    <3> HIDE DEF Small
    <3>1. ASSUME NEW T \in Small(n + 1)
          PROVE  g1[T] = IF T = {} THEN 0
                         ELSE m[g1[T \ {Max(T)}] \div Unit] + m[Max(T)]
      BY <2>2, <2>3
    <3>2. g1 = [T \in Small(n + 1) |-> g1[T]]
      OBVIOUS
    <3> HIDE DEF g1
    <3> QED BY <3>1, <3>2 DEF CSums
  <2> QED BY <2>4
<1>5. Bad = {}
  <2>1. SUFFICES ASSUME Bad # {}
                 PROVE  FALSE
    OBVIOUS
  <2>2. PICK k \in Bad : \A n \in Bad : ~ (n < k)
    BY <2>1, LeastNatural
  <2>3. k \in Nat /\ k # 0
    BY <1>3
  <2>4. k - 1 \in Nat /\ k - 1 \notin Bad
    <3> HIDE DEF Bad
    <3> QED BY <2>2, <2>3
  <2>5. (k - 1) + 1 \notin Bad
    BY <1>4, <2>4
  <2>6. (k - 1) + 1 = k
    BY <2>3
  <2> QED BY <2>2, <2>5, <2>6
<1>6. Small(Cardinality(S)) = SUBSET S
  BY <1>1, FS_Subset
<1> QED BY <1>1, <1>5, <1>6 DEF CSumsBelow

(***************************************************************************)
(* C never reads outside of a readable memory, and what it adds up is a    *)
(* natural; where the memory is level it is the same for every set of      *)
(* cores that is not empty, twice the level.                               *)
(***************************************************************************)
LEMMA CSumFacts ==
  ASSUME NEW m, NEW S, S \subseteq Cores, Readable(m)
  PROVE  /\ CSum(m, S) \in Nat
         /\ Level(m) /\ S # {} => CSum(m, S) = 2 * m[0]
<1> DEFINE iter == CHOOSE i : CSumsBelow(i, m, S)
           Fine(T) == /\ iter[T] \in Nat /\ iter[T] \div Unit \in DOMAIN m
                      /\ Level(m) /\ T # {} => iter[T] = 2 * m[0]
           Bad == {n \in Nat : \E T \in SUBSET S : Cardinality(T) = n /\ ~ Fine(T)}
<1>1. CSumsBelow(iter, m, S)
  BY CSumsExist
<1>2. CSum(m, S) = iter[S]
  BY DEF CSum, MapThenFoldSet, CSumsBelow, CSums
<1> HIDE DEF iter
<1>3. 0 \in Cores /\ 0 \div Unit = 0
  BY NCoresAssumption, UnitAssumption DEF Cores
<1>4. Fine({})
  BY <1>1, <1>3 DEF CSumsBelow, CSums, Readable
<1>5. Bad = {}
  <2>1. SUFFICES ASSUME Bad # {}
                 PROVE  FALSE
    OBVIOUS
  <2>2. PICK n \in Bad : \A k \in Bad : ~ (k < n)
    BY <2>1, LeastNatural
  <2>3. PICK T \in SUBSET S : Cardinality(T) = n /\ ~ Fine(T)
    OBVIOUS
  <2>4. T \subseteq Cores /\ T # {}
    BY <1>4, <2>3
  <2> DEFINE R == T \ {Max(T)}
  <2>5. /\ Max(T) \in Cores /\ R \in SUBSET S
        /\ Cardinality(R) = n - 1 /\ n \in Nat /\ n - 1 \in Nat
    BY <2>3, <2>4, GreatestCore
  <2>6. n - 1 \notin Bad
    <3> HIDE DEF Bad
    <3> QED BY <2>2, <2>5
  <2>7. Fine(R)
    <3> HIDE DEF Fine, R
    <3> QED BY <2>5, <2>6
  <2>8. iter[T] = m[iter[R] \div Unit] + m[Max(T)]
    BY <1>1, <2>4 DEF CSumsBelow, CSums
  <2> HIDE DEF R
  <2>9. iter[T] \in Nat /\ iter[T] \div Unit \in DOMAIN m
    <3>1. iter[R] \div Unit \in DOMAIN m
      BY <2>7
    <3>2. Max(T) \in DOMAIN m
      BY <2>5 DEF Readable
    <3>3. ASSUME NEW i \in DOMAIN m, NEW j \in DOMAIN m
          PROVE  m[i] + m[j] \in Nat
      <4>1. m[i] \in Nat /\ m[j] \in Nat
        BY DEF Readable
      <4> QED BY <4>1
    <3>4. \A i, j \in DOMAIN m : (m[i] + m[j]) \div Unit \in DOMAIN m
      BY Zenon DEF Readable
    <3> QED BY <2>8, <3>1, <3>2, <3>3, <3>4
  <2>10. ASSUME Level(m)
         PROVE  iter[T] = 2 * m[0]
    <3>1. m[Max(T)] = m[0] /\ m[0] \in Nat
      BY <1>3, <2>5, <2>10 DEF Level, Readable
    <3>2. m[iter[R] \div Unit] = m[0]
      <4>1. CASE R = {}
        <5>1. iter[R] = 0
          BY <1>1, <4>1 DEF CSumsBelow, CSums
        <5> QED BY <1>3, <5>1
      <4>2. CASE R # {}
        BY <2>7, <2>10, <4>2 DEF Level
      <4> QED BY <4>1, <4>2
    <3> QED BY <2>8, <3>1, <3>2
  <2> QED BY <2>3, <2>9, <2>10
<1>6. Fine(S)
  <2>1. Cardinality(S) \in Nat
    BY SizesAreNaturals
  <2> HIDE DEF Fine
  <2> QED BY <1>5, <2>1
<1> QED BY <1>2, <1>6

(***************************************************************************)
(* The coverage f, as a function of what it reads.                         *)
(***************************************************************************)
fOf(m, W, S) == Cardinality(S) * Min({CSum(m, S), CSum(m, W)})

LEMMA fIsfOf == \A S : f(S) = fOf(memory, V, S)
BY DEF f, C, CSum, fOf

LEMMA MinOfTwo ==
  ASSUME NEW a \in Nat, NEW b \in Nat
  PROVE  Min({a, b}) \in {a, b}
<1>1. \E x \in {a, b} : \A y \in {a, b} : x =< y
  <2>1. CASE a <= b
    BY <2>1
  <2>2. CASE b <= a
    BY <2>2
  <2> QED BY <2>1, <2>2
<1> QED BY <1>1 DEF Min

LEMMA fOfFacts ==
  ASSUME NEW m, NEW W, NEW S, W \subseteq Cores, S \subseteq Cores, Readable(m)
  PROVE  /\ fOf(m, W, S) \in Nat
         /\ S = {} => fOf(m, W, S) = 0
         /\ Level(m) /\ S # {} /\ W # {} => fOf(m, W, S) = Cardinality(S) * (2 * m[0])
<1>1. /\ CSum(m, S) \in Nat /\ CSum(m, W) \in Nat
      /\ Level(m) /\ S # {} => CSum(m, S) = 2 * m[0]
      /\ Level(m) /\ W # {} => CSum(m, W) = 2 * m[0]
  BY CSumFacts
<1>2. Min({CSum(m, S), CSum(m, W)}) \in {CSum(m, S), CSum(m, W)}
  BY <1>1, MinOfTwo
<1>3. Cardinality(S) \in Nat /\ (S = {} => Cardinality(S) = 0)
  BY SizesAreNaturals, FS_EmptySet
<1>4. fOf(m, W, S) \in Nat
  BY <1>1, <1>2, <1>3 DEF fOf
<1>5. S = {} => fOf(m, W, S) = 0
  BY <1>1, <1>2, <1>3 DEF fOf
<1>6. Level(m) /\ S # {} /\ W # {} => fOf(m, W, S) = Cardinality(S) * (2 * m[0])
  BY <1>1, <1>2 DEF fOf
<1> QED BY <1>4, <1>5, <1>6

(***************************************************************************)
(* In the states of the program f is a natural, and zero for the empty     *)
(* set.                                                                    *)
(***************************************************************************)
LEMMA MemoryIsReadable ==
  ASSUME TypeOK
  PROVE  Readable(memory) /\ V \subseteq Cores
BY MemoryAssumption, CallsAssumption, Zenon DEF TypeOK, Readable, memory, V

LEMMA fIsNatural ==
  ASSUME TypeOK
  PROVE  /\ \A S \in SUBSET V : f(S) \in Nat
         /\ f({}) = 0
<1>1. \A S \in SUBSET V : fOf(memory, V, S) \in Nat /\ (S = {} => fOf(memory, V, S) = 0)
  BY MemoryIsReadable, fOfFacts
<1> QED BY <1>1, fIsfOf

(***************************************************************************)
(* The guard against one expensive core that is worth more than all the    *)
(* cheap ones (lines 203-224): no affordable core alone has a larger       *)
(* coverage than the answer.                                               *)
(***************************************************************************)
LEMMA NoBetterIsOf ==
  NoBetterSingle <=>
    (status = "done" => \A v \in vlist : fOf(memory, V, {v}) <= fOf(memory, V, Gf))
BY fIsfOf DEF NoBetterSingle

THEOREM NoSingleIsBetter == Spec => []NoBetterSingle
<1>1. Init => NoBetterSingle
  BY DEF Init, NoBetterSingle
<1>2. IInv /\ NoBetterSingle /\ [Next]_vars => NoBetterSingle'
  <2> DEFINE better(v, S) == fOf(memory, V, {v}) <= fOf(memory, V, S)
  <2>1. SUFFICES ASSUME IInv, NoBetterSingle, [Next]_vars, status' = "done"
                 PROVE  (\A v \in vlist : better(v, Gf))'
    <3>1. (NoBetterSingle <=> (status = "done" => \A v \in vlist : better(v, Gf)))'
      BY NoBetterIsOf, PTL
    <3> QED BY <3>1
  <2>2. call' = call
    BY <2>1 DEF Next, vars, Accept, Reject, Choose, NothingAffordable
  <2>3. vlist' = vlist /\ memory' = memory /\ V' = V
    BY <2>2 DEF vlist, memory, V, cost, B
  <2>4. CASE status = "done"
    <3>1. Gf' = Gf
      BY <2>1, <2>4 DEF Next, vars, Accept, Reject, Choose, NothingAffordable
    <3> QED BY <2>1, <2>3, <2>4, <3>1, NoBetterIsOf
  <2>5. CASE \E v \in vlist : Choose(v)
    <3>1. PICK v \in vlist : Choose(v)
      BY <2>5
    <3>2. \A w \in vlist : f({w}) \in Nat
      BY <2>1, fIsNatural DEF IInv, vlist
    <3>3. f(G) \in Nat
      BY <2>1, fIsNatural DEF IInv, TypeOK
    <3>4. ASSUME NEW w \in vlist
          PROVE  f({w}) <= f({v})
      <4>1. w = v \/ f({w}) < f({v}) \/ f({w}) = f({v})
        BY <3>1 DEF Choose, IsVstar
      <4>2. f({w}) \in Nat /\ f({v}) \in Nat
        BY <3>2
      <4> QED BY <4>1, <4>2
    <3>5. f({v}) <= f(Gf')
      BY <3>1, <3>2, <3>3 DEF Choose
    <3>6. f(Gf') \in Nat
      BY <3>1, <3>2, <3>3 DEF Choose
    <3>7. ASSUME NEW w \in vlist
          PROVE  f({w}) <= f(Gf')
      <4>1. f({w}) \in Nat /\ f({v}) \in Nat /\ f({w}) <= f({v})
        BY <3>2, <3>4
      <4> QED BY <3>5, <3>6, <4>1
    <3>8. \A w \in vlist : better(w, Gf')
      BY <3>7, fIsfOf
    <3> QED BY <2>3, <3>8
  <2> QED BY <2>1, <2>4, <2>5 DEF Next, vars, Accept, Reject, NothingAffordable
<1> QED BY <1>1, <1>2, Inductive, PTL DEF Spec

-----------------------------------------------------------------------------
LEMMA SameCardinality == \A S : Selection!Cardinality(S) = Cardinality(S)
BY DEF Selection!Cardinality, Cardinality

(***************************************************************************)
(* A step of the loop is invisible in BudgetedSelection; of the two that   *)
(* follow it one is the answer and one the crash.                          *)
(***************************************************************************)
LEMMA StepImplements ==
  ASSUME IInv, [Next]_vars
  PROVE  [Selection!Next]_(Selection!vars)
<1>1. ASSUME NEW k \in U, Accept(k) \/ Reject(k)
      PROVE  UNCHANGED Selection!vars
  BY <1>1 DEF Accept, Reject, Selection!vars
<1>2. ASSUME NEW v \in vlist, Choose(v)
      PROVE  Selection!Answer
  <2>1. v \in V /\ Selection!Affordable(call, v)
    BY DEF vlist, Selection!Affordable, B, cost
  <2>2. f({v}) \in Nat /\ f({}) = 0
    BY <2>1, fIsNatural DEF IInv
  <2>3. Gf' = {v} \/ (Gf' = G /\ G # {})
    BY <1>2, <2>2 DEF Choose
  <2>4. Gf' \subseteq call.items /\ Gf' # {}
    BY <2>1, <2>3 DEF IInv, TypeOK, V
  <2>5. \/ Cardinality(Gf') = 1
        \/ 2 * (Cardinality(Gf') - 1) * Unit <= call.budget
        \/ \A u \in Gf' : call.cost[u] = 0
    <3>1. CASE Gf' = {v}
      BY <3>1, FS_Singleton
    <3>2. CASE Gf' = G /\ G # {}
      <4>1. IsFiniteSet(G) /\ Cardinality(G) \in Nat
        BY CallsAssumption, SizesAreNaturals DEF IInv, TypeOK, V
      <4>2. Cardinality(G) # 0
        BY <3>2, <4>1, FS_EmptySet
      <4> QED BY <3>2, <4>1, <4>2 DEF IInv, HalfBudget, cost
    <3> QED BY <2>3, <3>1, <3>2
  <2> QED BY <1>2, <2>1, <2>4, <2>5, SameCardinality
          DEF Choose, V, Selection!Answer, Selection!Answerable
<1>3. ASSUME NothingAffordable
      PROVE  Selection!Crash
  BY <1>3 DEF NothingAffordable, vlist, V, B, cost, Selection!Crash, Selection!Affordable
<1>4. CASE UNCHANGED vars
  BY <1>4 DEF vars, Selection!vars
<1> QED BY <1>1, <1>2, <1>3, <1>4 DEF Next, Selection!Next

(***************************************************************************)
(* The greedy algorithm implements the one-step selection its callers see, *)
(* for any number of cores, costs, weights and budgets: the loop is        *)
(* invisible, and one step answers or dies.                                *)
(***************************************************************************)
THEOREM ImplementsSelection == Spec => RefinesSelection
<1>1. Init => Selection!Init
  BY DEF Init, Selection!Init
<1>2. IInv /\ [Next]_vars => [Selection!Next]_(Selection!vars)
  BY StepImplements
<1> QED BY <1>1, <1>2, Inductive, PTL DEF Spec, RefinesSelection, Selection!Spec

-----------------------------------------------------------------------------
(***************************************************************************)
(* std::pow with a positive whole exponent keeps the order of its bases.   *)
(***************************************************************************)
Powers(p, x, n) == p = [i \in 0 .. n |-> IF i = 0 THEN 1 ELSE x * p[i - 1]]

LEMMA PowersAreProducts ==
  ASSUME NEW x, NEW n \in Nat, NEW p
  PROVE  Powers(p, x, n) <=> Products(p, [i \in 1 .. n |-> x], n)
<1> DEFINE g == [i \in 1 .. n |-> x]
<1>1. [i \in 0 .. n |-> IF i = 0 THEN 1 ELSE x * p[i - 1]]
        = [i \in 0 .. n |-> IF i = 0 THEN 1 ELSE g[i] * p[i - 1]]
  <2>1. \A i \in 0 .. n : i # 0 => g[i] = x
    OBVIOUS
  <2> HIDE DEF g
  <2> QED BY <2>1
<1> QED BY <1>1 DEF Powers, Products

(***************************************************************************)
(* A larger base has the larger power, and zero is the least.              *)
(***************************************************************************)
LEMMA PositivePowGrows ==
  ASSUME NEW x \in Nat \ {0}, NEW y \in Nat, NEW n \in Nat \ {0}, x < y
  PROVE  pow(x, n) \in Nat \ {0} /\ pow(y, n) \in Nat \ {0} /\ pow(x, n) < pow(y, n)
<1> DEFINE p == CHOOSE r : Powers(r, x, n)
           q == CHOOSE r : Powers(r, y, n)
           g == [i \in 1 .. n |-> x]
           h == [i \in 1 .. n |-> y]
<1>1. Powers(p, x, n) /\ Powers(q, y, n)
  BY ProductsExist, PowersAreProducts
<1>2. pow(x, n) = p[n] /\ pow(y, n) = q[n]
  BY DEF pow, Powers
<1> HIDE DEF p, q
<1>3. Products(p, g, n) /\ Products(q, h, n)
  BY <1>1, PowersAreProducts
<1>4. /\ 1 \in 1 .. n /\ g[1] < h[1]
      /\ \A k \in 1 .. n : g[k] \in Nat \ {0} /\ h[k] \in Nat /\ g[k] <= h[k]
  OBVIOUS
<1> HIDE DEF g, h
<1>5. p[n] \in Nat \ {0} /\ q[n] \in Nat \ {0} /\ p[n] < q[n]
  BY <1>3, <1>4, ProductsGrow
<1> QED BY <1>2, <1>5

LEMMA PowGrows ==
  ASSUME NEW x \in Nat, NEW y \in Nat, NEW n \in Nat \ {0}, x < y
  PROVE  pow(x, n) \in Nat /\ pow(y, n) \in Nat \ {0} /\ pow(x, n) < pow(y, n)
<1>1. CASE x # 0
  BY <1>1, PositivePowGrows
<1>2. CASE x = 0
  <2> DEFINE p == CHOOSE r : Powers(r, x, n)
             g == [i \in 1 .. n |-> x]
  <2>1. Powers(p, x, n)
    BY ProductsExist, PowersAreProducts
  <2>2. pow(x, n) = p[n]
    BY DEF pow, Powers
  <2> HIDE DEF p
  <2>3. Products(p, g, n) /\ \A k \in 1 .. n : g[k] = 0
    BY <1>2, <2>1, PowersAreProducts
  <2> HIDE DEF g
  <2>4. p[n] = 0
    BY <2>3, ProductOfZeros
  <2>5. pow(y, n) \in Nat \ {0}
    <3>1. y \in Nat \ {0} /\ y + 1 \in Nat /\ y < y + 1
      OBVIOUS
    <3> QED BY <3>1, PositivePowGrows
  <2> QED BY <2>2, <2>4, <2>5
<1> QED BY <1>1, <1>2

-----------------------------------------------------------------------------
(***************************************************************************)
(* With equal weights a core that is not taken yet adds twice the weight,  *)
(* whichever it is.                                                        *)
(***************************************************************************)
LEMMA GainIsLevel ==
  ASSUME IInv, EqualWeights, NEW l \in U
  PROVE  Gain(l) = 2 * memory[0] /\ memory[0] \in Nat \ {0}
<1>1. /\ Readable(memory) /\ V \subseteq Cores /\ Level(memory)
      /\ G \subseteq Cores /\ l \in Cores /\ l \notin G /\ V # {}
  BY MemoryIsReadable DEF IInv, TypeOK, EqualWeights, Level
<1>2. memory[0] \in Nat \ {0}
  <2>1. 0 \in Cores
    BY NCoresAssumption DEF Cores
  <2> QED BY <1>1, <2>1 DEF Readable, Level
<1>3. IsFiniteSet(G) /\ Cardinality(G) \in Nat /\ Cardinality(G \cup {l}) = Cardinality(G) + 1
  BY <1>1, SizesAreNaturals, FS_AddElement
<1>4. f(G) = Cardinality(G) * (2 * memory[0])
  <2>1. CASE G = {}
    <3>1. f(G) = 0 /\ Cardinality(G) = 0
      BY <2>1, fIsNatural, FS_EmptySet DEF IInv
    <3> QED BY <1>2, <3>1
  <2>2. CASE G # {}
    BY <1>1, <2>2, fOfFacts, fIsfOf
  <2> QED BY <2>1, <2>2
<1>5. f(G \cup {l}) = (Cardinality(G) + 1) * (2 * memory[0])
  <2>1. G \cup {l} \subseteq Cores /\ G \cup {l} # {}
    BY <1>1
  <2>2. fOf(memory, V, G \cup {l}) = Cardinality(G \cup {l}) * (2 * memory[0])
    BY <1>1, <2>1, fOfFacts
  <2> QED BY <1>3, <2>2, fIsfOf
<1>6. Gain(l) = 2 * memory[0]
  <2> DEFINE c == Cardinality(G)
             d == 2 * memory[0]
  <2>1. c \in Nat /\ d \in Nat
    BY <1>2, <1>3
  <2>2. (c + 1) * d = c * d + d /\ c * d \in Nat
    <3> HIDE DEF c, d
    <3> QED BY <2>1
  <2> HIDE DEF c, d
  <2>3. Gain(l) = (c + 1) * d - c * d
    BY <1>4, <1>5 DEF Gain, c, d
  <2>4. Gain(l) = d
    BY <2>1, <2>2, <2>3
  <2> QED BY <2>4 DEF d
<1> QED BY <1>2, <1>6

(***************************************************************************)
(* So the core that is picked is a cheapest one.                           *)
(***************************************************************************)
LEMMA PickIsCheapest ==
  ASSUME IInv, EqualWeights, call.r >= 1, NEW k \in U, IsPick(k), NEW l \in U
  PROVE  cost[k] <= cost[l]
<1>1. cost[k] \in Nat /\ cost[l] \in Nat /\ call.r \in Nat \ {0}
  BY CallsAssumption DEF IInv, TypeOK, V, cost
<1>2. SUFFICES ASSUME cost[l] < cost[k]
               PROVE  FALSE
  BY <1>1
<1> DEFINE d == 2 * memory[0]
           pk == pow(cost[k], call.r)
           pl == pow(cost[l], call.r)
<1>3. d \in Nat \ {0} /\ Gain(k) = d /\ Gain(l) = d
  BY GainIsLevel
<1>4. pk \in Nat /\ pl \in Nat /\ pl < pk
  BY <1>1, <1>2, PowGrows
<1>5. l # k
  BY <1>1, <1>2
<1>6. ~ NoNumber(k) /\ ~ NoNumber(l)
  BY <1>3 DEF NoNumber
<1>7. Less(l, k) \/ ~ Less(k, l)
  BY <1>5, <1>6 DEF IsPick
<1>8. /\ Less(l, k) <=> d * pk < d * pl \/ (pl = 0 /\ pk = 0 /\ d < 0 /\ d > 0)
      /\ Less(k, l) <=> d * pl < d * pk \/ (pk = 0 /\ pl = 0 /\ d < 0 /\ d > 0)
  BY <1>3 DEF Less
<1> HIDE DEF d, pk, pl
<1>9. d * pl < d * pk /\ d * pl \in Nat /\ d * pk \in Nat
  BY <1>3, <1>4
<1> QED BY <1>3, <1>7, <1>8, <1>9

(***************************************************************************)
(* What is known of a core that fails the cost test.                       *)
(***************************************************************************)
Fails(v) == ~ ((Sum(cost, G) + Cardinality(G) * cost[v]) * Unit <= B)

(***************************************************************************)
(* The loop goes through the cores in the order of their costs, and once   *)
(* a core failed the cost test no later one passes it.                     *)
(***************************************************************************)
InOrder ==
  EqualWeights /\ call.r >= 1 =>
    /\ \A g \in G, u \in U : cost[g] <= cost[u]
    /\ \A v \in V \ (G \cup U) : /\ \A u \in U : cost[v] <= cost[u]
                                 /\ Fails(v)
    /\ \A g \in G, v \in V \ G : cost[g] <= cost[v]

LEMMA NothingAfterRejection ==
  ASSUME IInv, InOrder, EqualWeights, call.r >= 1, NEW k \in U, Passes(k)
  PROVE  V \ (G \cup U) = {}
<1>1. SUFFICES ASSUME NEW v \in V \ (G \cup U)
               PROVE  FALSE
  OBVIOUS
<1>2. cost[v] <= cost[k] /\ Fails(v)
  BY <1>1 DEF InOrder
<1>3. /\ cost[v] \in Nat /\ cost[k] \in Nat /\ Sum(cost, G) \in Nat
      /\ Cardinality(G) \in Nat /\ Unit \in Nat /\ call.budget \in Nat
      /\ MinCost(call) \in Nat
  BY <1>1, CallsAssumption, UnitAssumption, MinCostIsLeast, SizesAreNaturals
     DEF IInv, TypeOK, V, cost
<1>4. CostTestSum(k) * Unit <= B
  BY DEF Passes
<1> DEFINE g == Cardinality(G)
           sv == Sum(cost, G) + g * cost[v]
           sk == Sum(cost, G) + g * cost[k]
<1>5. sv \in Nat /\ sk \in Nat /\ sv <= sk
  <2> HIDE DEF g
  <2>1. g \in Nat
    BY <1>3 DEF g
  <2>2. g * cost[v] <= g * cost[k] /\ g * cost[v] \in Nat /\ g * cost[k] \in Nat
    BY <1>2, <1>3, <2>1
  <2> QED BY <1>3, <2>2
<1>6. B \in Nat
  BY <1>3 DEF B
<1>7. sv * Unit <= sk * Unit /\ sv * Unit \in Nat /\ sk * Unit \in Nat
  <2> HIDE DEF sv, sk
  <2> QED BY <1>3, <1>5
<1>8. CostTestSum(k) = sk
  BY CostFacts, CallsAssumption DEF IInv, TypeOK, V
<1>9. ~ (sv * Unit <= B)
  BY <1>2 DEF Fails
<1> HIDE DEF sv, sk
<1> QED BY <1>4, <1>6, <1>7, <1>8, <1>9

LEMMA StepKeepsOrder ==
  ASSUME IInv, InOrder, [Next]_vars
  PROVE  InOrder'
<1>1. call' = call
  BY DEF Next, vars, Accept, Reject, Choose, NothingAffordable
<1>2. V' = V /\ cost' = cost /\ B' = B /\ (EqualWeights' <=> EqualWeights)
  BY <1>1 DEF V, cost, B, EqualWeights, memory
<1>3. SUFFICES ASSUME EqualWeights, call.r >= 1
               PROVE  InOrder'
  BY <1>1, <1>2 DEF InOrder
<1>4. /\ \A g \in G, u \in U : cost[g] <= cost[u]
      /\ \A v \in V \ (G \cup U) : /\ \A u \in U : cost[v] <= cost[u]
                                   /\ Fails(v)
      /\ \A g \in G, v \in V \ G : cost[g] <= cost[v]
  BY <1>3 DEF InOrder
<1>5. ASSUME NEW k \in U, Accept(k)
      PROVE  InOrder'
  <2>1. G' = G \cup {k} /\ U' = U \ {k} /\ IsPick(k) /\ Passes(k)
    BY <1>5 DEF Accept
  <2>2. \A u \in U : cost[k] <= cost[u]
    BY <1>3, <2>1, PickIsCheapest
  <2>3. V \ (G \cup U) = {}
    BY <1>3, <2>1, NothingAfterRejection
  <2>4. V \ (G' \cup U') = {} /\ V \ G' \subseteq U'
    BY <2>1, <2>3
  <2>5. \A g \in G', u \in U' : cost[g] <= cost[u]
    BY <1>4, <2>1, <2>2
  <2>6. \A g \in G', v \in V \ G' : cost[g] <= cost[v]
    BY <2>4, <2>5
  <2> QED BY <1>2, <2>4, <2>5, <2>6 DEF InOrder
<1>6. ASSUME NEW k \in U, Reject(k)
      PROVE  InOrder'
  <2>1. G' = G /\ U' = U \ {k} /\ IsPick(k) /\ ~ Passes(k)
    BY <1>6 DEF Reject
  <2>2. \A u \in U : cost[k] <= cost[u]
    BY <1>3, <2>1, PickIsCheapest
  <2>3. Gain(k) >= 0
    <3>1. Gain(k) = 2 * memory[0] /\ memory[0] \in Nat
      BY <1>3, GainIsLevel
    <3> QED BY <3>1
  <2>4. Fails(k)
    <3>1. ~ (CostTestSum(k) * Unit <= B)
      BY <2>1, <2>3 DEF Passes
    <3> QED BY <3>1, CostFacts, CallsAssumption DEF IInv, TypeOK, V, Fails
  <2>5. ASSUME NEW v \in V \ (G' \cup U')
        PROVE  (\A u \in U' : cost[v] <= cost[u]) /\ Fails(v)
    <3>1. v = k \/ v \in V \ (G \cup U)
      BY <2>1
    <3> QED BY <1>4, <2>1, <2>2, <2>4, <3>1
  <2>6. \A v : Fails(v)' <=> Fails(v)
    BY <1>2, <2>1 DEF Fails
  <2> QED BY <1>2, <1>4, <2>1, <2>5, <2>6 DEF InOrder
<1>7. CASE UNCHANGED <<G, U>>
  BY <1>2, <1>4, <1>7 DEF InOrder, Fails
<1> QED BY <1>5, <1>6, <1>7 DEF Next, vars, Choose, NothingAffordable

(***************************************************************************)
(* With equal weights the greedy loop takes the cheapest cores, for every  *)
(* number of cores, costs, budget and positive exponent (lines 165-201).   *)
(***************************************************************************)
THEOREM TakesTheCheapest == Spec => []CheapestFirst
<1>1. Init => InOrder
  BY DEF Init, InOrder, V
<1>2. IInv /\ InOrder /\ [Next]_vars => InOrder'
  BY StepKeepsOrder
<1>3. InOrder => CheapestFirst
  BY DEF InOrder, CheapestFirst
<1> QED BY <1>1, <1>2, <1>3, Inductive, PTL DEF Spec
=============================================================================
