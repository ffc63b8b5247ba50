SPECIFICATION Spec
CONSTANTS
  Word = 64
  Size4G = 16
  MaxIoStep = 8
  Bridges = {"b1"}
  None = None
  Window <- OneBridge
  Cpu <- OneCpu
  Keep = {}
  ReservedIo = {}
  Configurations <- Mixed
  Stoppable = {}
  Careful = FALSE
INVARIANTS
  TypeOK
  NodesBacked
  ProposedDecoded
  StatusHonest
