CONSTANTS
  WindowSize = 2
  NumMod = 4
  LittleEndian = TRUE
  Faults = {"reorder", "duplicate", "lose"}
  MaxFaults = 3
  ChanCap = 4
  FlipBits = {}
  FileBytes = 4864
  MaxResend = 2
  FinalAcks = 1
  NameNum = 1970365811
SPECIFICATION Spec
CHECK_DEADLOCK FALSE
INVARIANTS FilePrefix
