SPECIFICATION Spec
CONSTANTS
  MaxSockets = 3
  MaxCores = 2
  MaxPUs = 2
  Topologies <- MCTopologies
INVARIANTS
  TypeOK
  NoCoreIsFound
  NoSocketGetsACore
  NumaEntriesNameThemselves
  OneSocketPlacesNoCore
  SocketsAndNodesAreFound
  GpusAreLeavesOfFirstBridge
PROPERTIES
  DiscoveryEnds
CHECK_DEADLOCK FALSE
