SPECIFICATION Spec
CONSTANTS
  Groups = {g1, g2}
  Pids = {}
  Cpus <- MCCpus
  Nodes <- MCNodes
  Lists <- MCUpperLists
  Garbage <- MCUpperGarbage
  Writers = {w1}
  Readers = {r1}
  None = None
INVARIANTS
  TypeOK
  ErrorMeansNoneStayed
PROPERTIES
  DeathNeedsAnEmptyGroup
  EveryCallEnds
CHECK_DEADLOCK FALSE
