--------------------------- MODULE MCFileService ---------------------------
EXTENDS FileService, TLC

CONSTANTS c1, c2

SomeClients == {c1, c2}
OneFile == [long |-> 2]
Exchange == Permutations(SomeClients)
=============================================================================
