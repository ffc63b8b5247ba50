SPECIFICATION Spec
CONSTANTS
  PageSize = 2
  LastPage = 3
  Devices <- TheDevices
  Root = "soc"
  Parent <- TheParent
  DmaRanges <- TheRanges
  IsCoherent <- TheDevices
  OwnPages = {2, 3}
  MapCalls <- TheCalls
  Buffers <- TheBuffers
INVARIANTS TypeOK BounceAccounted ReadsSeeBuffer WithinReach
PROPERTIES WritesArrive
