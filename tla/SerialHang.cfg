SPECIFICATION FairSpec
CONSTANTS
  SERIAL_MAX_FIFO_SIZE = 3
  Byte = {0, 1}
  Bad = Bad
  RxDepth = 1
  HalfHandshake = FALSE
  Timeout = 1
  MaxTimeOut = 1
  ClockRate = 4800
  MaxDivisor = 5
  DefaultBaudRate = 100
  Bauds = {90}
  Controls <- TheControls
  Buffers <- TheBuffers
  Counts = {2}
PROPERTIES WriteEnds
