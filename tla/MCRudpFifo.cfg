CONSTANTS
  WindowSize = 2
  NumMod = 4
  LittleEndian = TRUE
  Faults = {"lose", "duplicate", "crash"}
  MaxFaults = 2
  ChanCap = 3
  FlipBits = {}
  FileBytes = 4864
  MaxResend = 2
  FinalAcks = 1
  NameNum = 1970365811
SPECIFICATION Spec
CHECK_DEADLOCK FALSE
INVARIANTS TypeOK FilePrefix AckedWritten BufferOfThisLap CompleteMeansWhole FifoInv
PROPERTIES ImplementsTransfer
