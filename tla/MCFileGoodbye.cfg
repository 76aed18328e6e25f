CONSTANTS
  c1 = c1
  c2 = c2
  Clients <- SomeClients
  FileSize <- OneFile
  Asks = {"missing", "long", "List", "Quit"}
  MaxAsks = 1
  MayVanish = TRUE
  SharedDir = TRUE
  MaxDir = 4
  Crowd = TRUE
  MaxFd = 5
  Threads = {1, 2}
SPECIFICATION Spec
CHECK_DEADLOCK FALSE
SYMMETRY Exchange
INVARIANTS DiesOnlyAfterGoodbye 
