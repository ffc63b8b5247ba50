SPECIFICATION Spec
CONSTANTS
  Word = 64
  Size4G = 16
  MaxIoStep = 8
  Bridges = {"b1", "b2", "b3"}
  None = None
  Window <- ThreeBridges
  Cpu <- ThreeCpu
  Keep = {"b1"}
  ReservedIo = {14}
  Configurations <- Small
  Stoppable = {"b1"}
  Careful = TRUE
INVARIANTS
  NothingLeaks
PROPERTY
  KeptStays
