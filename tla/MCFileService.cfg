CONSTANTS
  c1 = c1
  c2 = c2
  Clients <- SomeClients
  FileSize <- OneFile
  Asks = {"long", "List"}
  MaxAsks = 2
  MayVanish = FALSE
  SharedDir = FALSE
  MaxDir = 4
  Crowd = FALSE
  MaxFd = 10
  Threads = {1, 2}
SPECIFICATION FairSpec
CHECK_DEADLOCK FALSE
INVARIANTS FileTypeOK NothingLeftOver SizeComesFirst
PROPERTIES ImplementsLibrary FetchEnds
