CONSTANTS
  a = a
  b = b
  nobody = nobody
  Clients <- MCClients
  Nobody = nobody
  Buffer = 2
  MaxLines = 3
  MaxLost = 1
SPECIFICATION FairSpec
CHECK_DEADLOCK FALSE
INVARIANTS EchoTypeOK OwnLinesInOrder OneBehindPerBlank EchoInv
PROPERTIES WaitEnds
