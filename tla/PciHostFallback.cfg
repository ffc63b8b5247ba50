SPECIFICATION Spec
CONSTANTS
  Word = 64
  Size4G = 16
  MaxIoStep = 8
  Bridges = {"b1"}
  None = None
  Window <- NoMem64
  Cpu <- OneCpu
  Keep = {}
  ReservedIo = {}
  Configurations <- OnlyMem64
  Stoppable = {}
  Careful = TRUE
INVARIANT
  ProposedDecoded
