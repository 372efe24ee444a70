SPECIFICATION Spec
CONSTANTS
  Times = {1, 2}
  MaxCount = 3
  None = None
  Databases <- MCDatabases
INVARIANTS
  TypeOK
  CallsAgree
  EstimateIsMeanRoundedUp
PROPERTIES
  EveryCallEnds
CHECK_DEADLOCK FALSE
