------------------------------ MODULE RudpFifo ------------------------------
(***************************************************************************)
(* The transfer of project2 over a path that loses and duplicates          *)
(* datagrams but keeps their order and their bits, between little-endian   *)
(* hosts: the inductive invariant that explains why it is then correct for *)
(* files of any length, although packet numbers repeat every NumMod.       *)
(*                                                                         *)
(* The argument: the server sends a block only while it is less than       *)
(* WindowSize ahead of the first block not acknowledged, so on a FIFO path *)
(* nothing follows a datagram that is WindowSize or more blocks older than *)
(* it.  All the blocks a packet number can be confused with are then less  *)
(* than 2 * WindowSize <= NumMod apart, and the number tells them apart.   *)
(***************************************************************************)
EXTENDS RudpTransfer

(* Files from 128 bytes to 16 MB: the length is no packet number in either *)
(* byte order, and a packet number taken for a length is no shorter file.  *)
ASSUME FifoAssumption ==
  /\ LittleEndian = TRUE
  /\ Faults \subseteq {"lose", "duplicate", "crash"}
  /\ FileBytes \in Nat /\ 128 <= FileBytes /\ FileBytes < 16777216

(* The number nextSeq() gives the b-th packet, b counted from 1. *)
NumOf(b) == ((b - 1) % NumMod) + 1

-----------------------------------------------------------------------------
IsSize(d) == d.blk = NoBlock /\ d.num = Htonl(FileBytes)

IsData(d) == d.blk \in 1..packetsInMem /\ d.num = NumOf(d.blk)

(* An acknowledgement of a block the client has written or holds. *)
IsAck(a) ==
  /\ a.blk \in 1..packetsInMem
  /\ a.num = Htonl(NumOf(a.blk))
  /\ a.blk <= Len(file) \/ cliOutOfOrder[NumOf(a.blk)] = a.blk

(* The name, and the answers to copies of the length. *)
IsJunk(a) == /\ a.blk = NoBlock
             /\ a.num \notin 0..NumMod /\ Ntohl(a.num) \notin 0..NumMod

(* blk is not WindowSize or more ahead of the block d is about. *)
Before(blk, d) == d.blk # NoBlock => blk < d.blk + WindowSize

Ordered(chan) ==
  \A i, j \in 1..Len(chan) : i < j => Before(chan[i].blk, chan[j])

ServerInv ==
  /\ ackCounter <= packetsInMem /\ packetsInMem <= Total
  /\ packetsInMem <= ackCounter + WindowSize
  /\ Len(srvWindow) = packetsInMem - ackCounter
  /\ \A i \in 1..Len(srvWindow) :
       srvWindow[i] = [num |-> NumOf(ackCounter + i), blk |-> ackCounter + i]
  /\ srvSeq = IF packetsInMem = 0 THEN 0 ELSE NumOf(packetsInMem)
  /\ \A x \in srvOutOfOrder : x \notin 0..NumMod
  /\ NoEmptyPop
  /\ srvState = "awaitName" => packetsInMem = 0 /\ resendCnt = 0
  /\ srvState = "sending" => ackCounter < Total /\ resendCnt < MaxResend
  /\ srvState = "complete" => ackCounter = Total

ClientInv ==
  /\ packetCounter = Len(file)
  /\ cliState = "start" => cliWindow = <<>>
  /\ cliState = "awaitSize" => cliWindow = <<>>
  /\ cliState = "receiving" => cliWindow # <<>>
  /\ cliWindow = <<>> =>
       /\ file = <<>> /\ cliSeq = 0
       /\ \A s \in 1..NumMod : ~Buffered(s)
  /\ cliWindow # <<>> =>
       /\ cliWindow = [j \in 1..WindowSize |-> NumOf(Len(file) + j)]
       /\ cliSeq = NumOf(Len(file) + WindowSize)
       /\ totalBytes >= FileBytes
  /\ \A s \in 1..NumMod : Buffered(s) => cliOutOfOrder[s] <= packetsInMem

ChannelInv ==
  /\ \A i \in 1..Len(toClient) : IsSize(toClient[i]) \/ IsData(toClient[i])
  /\ \A i \in 1..Len(toServer) : IsAck(toServer[i]) \/ IsJunk(toServer[i])
  /\ Ordered(toClient) /\ Ordered(toServer)
  /\ \A i \in 1..Len(toClient) :
       /\ Before(Len(file), toClient[i])
       /\ \A s \in 1..NumMod : Buffered(s) => Before(cliOutOfOrder[s], toClient[i])
       /\ \A j \in 1..Len(toServer) : Before(toServer[j].blk, toClient[i])
  /\ \A j \in 1..Len(toServer) : Before(ackCounter, toServer[j])

(* The inductive invariant. *)
FifoInv ==
  /\ TypeOK
  /\ ServerInv /\ ClientInv /\ ChannelInv
  /\ FilePrefix /\ BufferOfThisLap
  /\ AckedWritten /\ Len(file) <= packetsInMem
=============================================================================
