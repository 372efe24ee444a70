------------------------ MODULE SubmodularScheduler ------------------------
(***************************************************************************)
(* SubmodularScheduler<IndexSetPolicy>::operator(): the greedy choice of   *)
(* cores under a budget (src/SubmodularScheduler.hpp).  A behaviour is one *)
(* call.  One iteration of the while loop is one step, Accept or Reject;   *)
(* what follows the loop is one step, Choose or NothingAffordable.         *)
(*                                                                         *)
(* Floats are integers over Unit: the float x is the integer x * Unit.     *)
(* Costs are task counts, always whole, and are not scaled.                *)
(***************************************************************************)
EXTENDS Integers, FiniteSets, FiniteSetsExt

CONSTANTS
  NCores,      \* size of the cost and weight vectors
  Unit,        \* the number that stands for the float 1.0
  Calls        \* the calls to explore: what a caller and its policy supply

Cores == 0 .. (NCores - 1)

(***************************************************************************)
(* A call carries the caller's arguments and the policy's three vectors:   *)
(*   items   getItems(), a set because it is only inserted in U and V      *)
(*   cost    getCostVector(); zeros are among what the policies deliver    *)
(*           (src/TopologyResourceInformation.hpp:118-126)                 *)
(*   memory  getWeightVector() at the indices in Cores, and at the later   *)
(*           ones what the heap holds behind it: C reads past the end, as  *)
(*           far as a sum of two floats it has read leads.  (A heap that   *)
(*           holds a negative float there is left out.)                    *)
(*   budget  in cores, scaled by Unit                                      *)
(*   r       the exponent of the cost                                      *)
(***************************************************************************)
ASSUME NCoresAssumption == NCores \in Nat \ {0}
ASSUME UnitAssumption == Unit \in Nat \ {0}
ASSUME CallsAssumption ==
  \A c \in Calls : /\ c.items \subseteq Cores
                   /\ c.cost \in [Cores -> Nat]
                   /\ c.budget \in Nat
                   /\ c.r \in Nat
ASSUME MemoryAssumption ==
  \A c \in Calls :
    /\ Cores \subseteq DOMAIN c.memory
    /\ \A i \in DOMAIN c.memory : c.memory[i] \in Nat
    /\ \A i, j \in DOMAIN c.memory :
         (c.memory[i] + c.memory[j]) \div Unit \in DOMAIN c.memory

VARIABLES
  call,        \* the call being answered, constant during it
  status,      \* "running" until it returns ("done") or dies ("segfault")
  U,           \* the cores the loop has not considered yet
  G,           \* the cores taken so far
  Gf           \* the out parameter, {} until the call returns

vars == <<call, status, U, G, Gf>>

V == call.items
cost == call.cost
memory == call.memory

(***************************************************************************)
(* cost.min(), and the budget B the candidates are held against.           *)
(***************************************************************************)
MinCost(c) == CHOOSE m \in {c.cost[v] : v \in Cores} :
                 \A v \in Cores : m <= c.cost[v]

B == MinCost(call) * call.budget

(***************************************************************************)
(* C accumulates over S in ascending order.  weights[i, j] is a comma      *)
(* expression, so the row i plays no part, and j is the running sum cut to *)
(* an int: the sum so far is used as an index.                             *)
(***************************************************************************)
C(S) == MapThenFoldSet(LAMBDA k, sum : memory[sum \div Unit] + memory[k],
                       0, LAMBDA k : k, Max, S)

(***************************************************************************)
(* L, with alpha = 1.0: C does not depend on its last argument, so the sum *)
(* over S adds one and the same minimum.  The coverage f is L.             *)
(***************************************************************************)
f(S) == Cardinality(S) * Min({C(S), C(V)})

Gain(l) == f(G \cup {l}) - f(G)

(***************************************************************************)
(* std::pow, for the whole exponents that are modelled.                    *)
(***************************************************************************)
pow(x, n) ==
  LET p[i \in 0 .. n] == IF i = 0 THEN 1 ELSE x * p[i - 1]
  IN  p[n]

(***************************************************************************)
(* pick_k orders U by the ratio gain / cost^r, a float division: by zero   *)
(* it gives an infinity of the gain's sign, and of a gain of zero no       *)
(* number.  Less is < between two numbers (by cross-multiplying, and       *)
(* between the infinities); with no number on a side < is false.           *)
(***************************************************************************)
NoNumber(l) == Gain(l) = 0 /\ pow(cost[l], call.r) = 0

Less(l, k) ==
  LET ofL == pow(cost[l], call.r)
      ofK == pow(cost[k], call.r)
  IN  \/ Gain(l) * ofK < Gain(k) * ofL
      \/ ofL = 0 /\ ofK = 0 /\ Gain(l) < 0 /\ Gain(k) > 0

First(k) == \A l \in U : k <= l

DearestPick(k) ==   \* mutant: min_element over the same pairs
  \A l \in U \ {k} : ~ Less(l, k)

(***************************************************************************)
(* max_element keeps the first and replaces it by whatever is greater: it  *)
(* stays with a first that is no number, never moves to a later one that   *)
(* is none, and of equal ratios returns the lowest core.                   *)
(***************************************************************************)
IsPick(k) ==
  \/ NoNumber(k) /\ First(k)
  \/ /\ ~ NoNumber(k)
     /\ \A l \in U \ {k} : \/ Less(l, k)
                           \/ ~ Less(k, l) /\ k < l
                           \/ NoNumber(l) /\ ~ First(l)

CostOf(S) == MapThenSumSet(LAMBDA v : cost[v], S)

ChargedOnce(k) == CostOf(G \cup {k})   \* mutant: the sum one would expect

(***************************************************************************)
(* cost_test_sum: the sum over G of cost[obj_i] + cost[k].  It charges k   *)
(* once for every core already taken, and nothing when G is empty.         *)
(***************************************************************************)
CostTestSum(k) == MapThenSumSet(LAMBDA obj_i : cost[obj_i] + cost[k], G)

PassesOnGain(k) == Gain(k) >= 0   \* mutant: the budget is not tested

Passes(k) == CostTestSum(k) * Unit <= B /\ Gain(k) >= 0

Init ==
  /\ call \in Calls
  /\ status = "running"
  /\ U = call.items
  /\ G = {}
  /\ Gf = {}

Accept(k) ==
  /\ status = "running"
  /\ IsPick(k)
  /\ Passes(k)
  /\ G' = G \cup {k}
  /\ U' = U \ {k}
  /\ UNCHANGED <<call, status, Gf>>

RejectKeeps(k) ==   \* mutant: only a core that is taken leaves U
  /\ status = "running"
  /\ IsPick(k)
  /\ ~ Passes(k)
  /\ UNCHANGED vars

Reject(k) ==
  /\ status = "running"
  /\ IsPick(k)
  /\ ~ Passes(k)
  /\ U' = U \ {k}
  /\ UNCHANGED <<call, status, G, Gf>>

vlistOfAll == {v \in Cores : cost[v] * Unit <= B}   \* mutant: not only items

vlistBelow == {v \in V : cost[v] * Unit < B}   \* mutant: < for <=

(***************************************************************************)
(* vlist: the cores that alone are within the budget.  vstar is the first  *)
(* of those with the largest f.                                            *)
(***************************************************************************)
vlist == {v \in V : cost[v] * Unit <= B}

IsVstar(v) ==
  \A w \in vlist \ {v} : \/ f({w}) < f({v})
                         \/ f({w}) = f({v}) /\ v < w

ChooseG(vstar) ==   \* mutant: vstar plays no part
  /\ status = "running"
  /\ U = {}
  /\ IsVstar(vstar)
  /\ Gf' = G
  /\ status' = "done"
  /\ UNCHANGED <<call, U, G>>

(***************************************************************************)
(* The better of {vstar} and G is the answer; {vstar} comes first in fin   *)
(* and so wins a tie.                                                      *)
(***************************************************************************)
Choose(vstar) ==
  /\ status = "running"
  /\ U = {}
  /\ IsVstar(vstar)
  /\ Gf' = IF f({vstar}) < f(G) THEN G ELSE {vstar}
  /\ status' = "done"
  /\ UNCHANGED <<call, U, G>>

NothingReturned ==   \* mutant: the empty vlist is answered with {}
  /\ status = "running"
  /\ U = {}
  /\ vlist = {}
  /\ status' = "done"
  /\ UNCHANGED <<call, U, G, Gf>>

(***************************************************************************)
(* With an empty vlist, max_element returns the end of a vector that was   *)
(* never filled, a null pointer, and vstar->first reads through it.        *)
(***************************************************************************)
NothingAffordable ==
  /\ status = "running"
  /\ U = {}
  /\ vlist = {}
  /\ status' = "segfault"
  /\ UNCHANGED <<call, U, G, Gf>>

Next ==
  \/ \E k \in U : Accept(k)
  \/ \E k \in U : Reject(k)
  \/ \E v \in vlist : Choose(v)
  \/ NothingAffordable

(***************************************************************************)
(* The call runs on its caller's thread and waits for nothing: as long as  *)
(* it has a step to take it takes one.                                     *)
(***************************************************************************)
Spec == Init /\ [][Next]_vars /\ WF_vars(Next)
-----------------------------------------------------------------------------
TypeOK ==
  /\ call \in Calls
  /\ status \in {"running", "done", "segfault"}
  /\ U \subseteq V
  /\ G \subseteq V
  /\ Gf \subseteq V

(***************************************************************************)
(* The knapsack constraint of lines 195-198: from the second core on, the  *)
(* cores taken cost at most B together.  (The first one is taken without   *)
(* being charged, so a single core may exceed B.)                          *)
(***************************************************************************)
CostWithinBudget == Cardinality(G) > 1 => CostOf(G) * Unit <= B

(***************************************************************************)
(* cost_test_sum charges every pair, so a call that asks for more than two *)
(* cores is answered with fewer than it asked for, unless every core of    *)
(* the answer is idle, of cost zero.  (Then cost.min() is zero, B is zero  *)
(* whatever the budget, and the loop takes idle cores without a limit.)    *)
(* This is the test assign() refuses on (src/CpusetAssigner.hpp:48) and    *)
(* oversubscribable() gives up on (src/CpusetResourceEstimator.hpp:212).   *)
(***************************************************************************)
FewerThanAsked ==
  status = "done" /\ call.budget > 2 * Unit =>
    \/ Cardinality(Gf) * Unit < call.budget
    \/ \A v \in Gf : cost[v] = 0

(***************************************************************************)
(* The answer is never worse than any one core that fits the budget: the   *)
(* guard of the greedy algorithm against one expensive core worth more     *)
(* than all the cheap ones (lines 203-224).                                *)
(***************************************************************************)
NoBetterSingle ==
  status = "done" => \A v \in vlist : f({v}) <= f(Gf)

(***************************************************************************)
(* With equal weights, the only ones CpuTopologyResourceInformationPolicy  *)
(* can supply, the greedy loop takes the cheapest cores: it never leaves   *)
(* out a core that costs less than one it took (lines 165-201).  The one   *)
(* float C reads outside of the vector, if 2 * w leads there, is the same. *)
(***************************************************************************)
EqualWeights ==
  LET w == memory[0]
  IN  w > 0 /\ \A i \in Cores \cup {(2 * w) \div Unit} : memory[i] = w

CheapestFirst ==
  EqualWeights /\ call.r >= 1 => \A g \in G, v \in V \ G : cost[g] <= cost[v]

(***************************************************************************)
(* A caller that asks for at least one whole core, of a policy that offers *)
(* every core, gets an answer: vlist then holds a cheapest core and line   *)
(* 217 has something to read.                                              *)
(***************************************************************************)
WholeCoreNeverCrashes ==
  call.items = Cores /\ call.budget >= Unit => status # "segfault"

(***************************************************************************)
(* Every call ends, by returning or by dying: each iteration of the loop   *)
(* of line 162 takes one core out of U.                                    *)
(***************************************************************************)
EveryCallEnds == <>(status # "running")

(***************************************************************************)
(* The greedy algorithm implements the one-step selection its callers see. *)
(***************************************************************************)
Selection == INSTANCE BudgetedSelection
RefinesSelection == Selection!Spec
=============================================================================
