SPECIFICATION Spec
CONSTANTS
  c1 = c1
  c2 = c2
  Containers <- MCOneContainer
  Resources = {r1, r2}
  NoResources = NoResources
  Pids = {p1}
  None = None
  MaxCalls = 3
  Times = {t0}
PROPERTIES
  PinsKnownTasks
CHECK_DEADLOCK FALSE
