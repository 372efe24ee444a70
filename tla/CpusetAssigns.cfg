SPECIFICATION Spec
CONSTANTS
  Groups = {g1}
  Pids = {p1}
  Cpus <- MCCpus
  Nodes <- MCNodes
  Lists <- MCLists
  Garbage <- MCGarbage
  Writers = {w1}
  Readers = {}
  None = None
PROPERTIES
  AssignedAsAsked
CHECK_DEADLOCK FALSE
