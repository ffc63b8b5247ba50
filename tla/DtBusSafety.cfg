CONSTANTS
  Nodes    <- DeepNodes
  Root     = 0
  Parent   <- DeepParent
  DriverOf <- DeepDriverOf
  Critical  = {1, 3, 4}
  TreeError = {1}
  Faults    = {"scan", "start", "stop", "reopen", "leak"}
  End = End
  All = All
  MaxMaps   = 1
SPECIFICATION Spec
INVARIANTS
  TypeOK
  CriticalListExact
  MapsAlive
  RecordsRestored
PROPERTIES
  ImplementsTree
