SPECIFICATION DtSpec
CONSTANTS
  Nodes <- MCNodes
  Root = 0
  Parent <- MCParent
  Device = 3
  SampleBuses = {2}
  Blobs <- MCBlobs
  Maps <- MCMaps
  CellBase = 4
  MaxNCells = 3
  PageSize = 4
  GcdPages = 3
  FaultPages = {1}
  RegTypes <- MCRegTypes
  Names = {"regs", "fifo"}
  Attributes = {0, 1, 2}
  Mmio = "MemoryMappedIo"
  UC = 1
  SystemMemory = "SystemMemory"
  WB = 2
  Widths <- MCWidths
  Offsets = {0, 1}
  Counts = {0, 1, 2}
  Delays = {0, 2}
  PollBlobs <- MCPollBlobs
  Frequency = 3
  Period = 2
  EndTick = 3
  TickWord = 16
  MaxSpent = 5
  SpaceCodes <- MCSpaceCodes
  VgaMem <- MCVgaMem
  VgaIo1 <- MCVgaIo1
  VgaIo2 <- MCVgaIo2
  Size4G = 4
  ConfigSize = 2
  MaxFunction = 1
  Addresses = {0, 1, 2, 3, 4, 5, 8, 9}
INVARIANTS TypeOK RegionExact AccessExact PollHonest 
PROPERTIES RegionsAccessible

