SPECIFICATION Spec
CONSTANTS
  NCores = 3
  Unit = 2
  MaxCost = 2
  Budgets = {0, 1, 2, 5, 6}
  WeightValues = {0, 4}
  Exponents = {1, 2}
  Calls <- MCAnyCalls
INVARIANTS
  TypeOK
  CostWithinBudget
  FewerThanAsked
  NoBetterSingle
  CheapestFirst
  WholeCoreNeverCrashes
PROPERTIES
  RefinesSelection
  EveryCallEnds
CHECK_DEADLOCK FALSE
