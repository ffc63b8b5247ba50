SPECIFICATION Spec
CONSTANTS
  Chunk = 3
  BlockSize = 9
  LastBlock = 1
  StartLba = 0
  FvBlocks = 2
  Headers <- ShortHeaders
  Checked = 2
  Writes <- Straddling
  Erases <- NoErases
  Residues <- SomeResidues
  Retry = 2
  Faults = {}
  MaxCalls = 2
INVARIANTS
  WriteExact
CHECK_DEADLOCK FALSE
