CONSTANTS
  WindowSize = 2
  NumMod = 4
  LittleEndian = TRUE
  Faults = {"lose", "duplicate", "reorder"}
  MaxFaults = 2
  ChanCap = 3
  FlipBits = {}
  FileBytes = 2560
  MaxResend = 2
  FinalAcks = 1
  NameNum = 1970365811
SPECIFICATION Spec
CHECK_DEADLOCK FALSE
INVARIANTS FilePrefix GiveUpEarned AckedWritten CompleteMeansWhole NoEmptyPop
PROPERTIES ImplementsTransfer
