CONSTANTS
  c1 = c1
  c2 = c2
  Clients <- SomeClients
  FileSize <- OneFile
  Asks = {"long"}
  MaxAsks = 2
  MayVanish = FALSE
  SharedDir = FALSE
  MaxDir = 5
  Crowd = TRUE
  MaxFd = 12
  Threads = {1, 2}
SPECIFICATION Spec
CHECK_DEADLOCK FALSE
INVARIANT HandedOver
