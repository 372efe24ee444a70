SPECIFICATION Spec
CONSTANTS
  Groups = {g1}
  Pids = {p1}
  Cpus <- MCCpus
  Nodes <- MCNodes
  Lists <- MCLists
  Garbage <- MCGarbage
  Writers = {w1, w2}
  Readers = {}
  None = None
PROPERTIES
  OneCpuIsExact
CHECK_DEADLOCK FALSE
