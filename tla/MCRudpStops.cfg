CONSTANTS
  WindowSize = 2
  NumMod = 4
  LittleEndian = TRUE
  Faults = {"lose", "duplicate", "reorder", "corrupt", "crash"}
  MaxFaults = 1
  ChanCap = 3
  FlipBits = {0, 24}
  FileBytes = 2560
  MaxResend = 2
  FinalAcks = 1
  NameNum = 1970365811
SPECIFICATION FairSpec
CHECK_DEADLOCK FALSE
PROPERTIES ServerStops
