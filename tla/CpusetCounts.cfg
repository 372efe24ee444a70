SPECIFICATION Spec
CONSTANTS
  Groups = {g1, g2}
  Pids = {p1}
  Cpus <- MCCpus
  Nodes <- MCNodes
  Lists <- MCSingles
  Garbage <- MCHarmlessGarbage
  Writers = {w1}
  Readers = {r1}
  None = None
PROPERTIES
  CountsTasks
CHECK_DEADLOCK FALSE
