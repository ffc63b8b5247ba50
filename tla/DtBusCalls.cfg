CONSTANTS
  Nodes    <- DeepNodes
  Root     = 0
  Parent   <- DeepParent
  DriverOf <- DeepDriverOf
  Critical  = {1, 3, 4}
  TreeError = {}
  Faults    = {"scan", "stop", "timer"}
  End = End
  All = All
  MaxMaps   = 1
SPECIFICATION FairSpec
INVARIANTS
  ListedCriticalConnected
PROPERTIES
  CallsReturn
