SPECIFICATION SpecOfDemo
CONSTANTS
  Groups = {demo}
  Pids = {child, p1}
  Cpus <- MCCpus
  Nodes <- MCTwoNodes
  Lists = {}
  Garbage <- MCLowGarbage
  Writers = {parent, w1}
  Readers = {parent}
  None = None
  Parent = parent
  Child = child
  Demo = demo
INVARIANTS
  OnlyStrangersAreAttached
  AsksForMissingNodes
PROPERTIES
  OnlyAKillEndsTheDemo
CHECK_DEADLOCK FALSE
