SPECIFICATION SpecOfProcesses
CONSTANTS
  Groups = {g1}
  Pids = {}
  Cpus <- MCCpus
  Nodes <- MCNodes
  Lists <- MCUpperLists
  Garbage <- MCUpperGarbage
  Writers = {w1}
  Readers = {r1}
  None = None
INVARIANTS
  TypeOKOfProcesses
  ZeroCostMeansOverrun
PROPERTIES
  AnswersNeedAListedGroup
  EveryCountEnds
CHECK_DEADLOCK FALSE
