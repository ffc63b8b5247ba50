SPECIFICATION FairSpec
CONSTANTS
  Chunk = 3
  BlockSize = 9
  LastBlock = 1
  StartLba = 0
  FvBlocks = 2
  Headers <- ShortHeaders
  Checked = 2
  Writes <- SoundWrites
  Erases <- SoundErases
  Residues <- SomeResidues
  Retry = 3
  Faults = {"busy", "program", "relock", "power", "erase"}
  MaxCalls = 2
INVARIANTS
  TypeOK
  WriteExact
  WriteContained
  EraseInOrder
  HeaderSurvives
  ErrorsAreReal
PROPERTY
  CallsReturn
CHECK_DEADLOCK FALSE
