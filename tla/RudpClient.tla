----------------------------- MODULE RudpClient -----------------------------
(***************************************************************************)
(* The client of project2/client.cpp: it sends the name of a file once,    *)
(* takes the first datagram that comes back for the length of the file and *)
(* then writes the packets it receives, in the order of their numbers.     *)
(*                                                                         *)
(* Every variable is a global of the program, but for cliState, where it   *)
(* stands, and file, the blocks handed to fwrite() so far.  The buffer     *)
(* outOfOrder, a map from packet numbers to packets, is an array over the  *)
(* packet numbers with NotBuffered where the map has no entry.             *)
(***************************************************************************)
EXTENDS UdpNetwork

CONSTANTS FinalAcks,   \* the literal 10 of sendAck()
          NameNum      \* the first four bytes of the file's name (of two or more), as an int

ASSUME RudpClientAssumption ==
  /\ FinalAcks \in Nat
  /\ NameNum \in Nat /\ 128 <= NameNum /\ NameNum <= 2147483647
  /\ NameNum % 256 # 0

VARIABLES cliState,      \* see CliStates
          cliWindow,     \* windowQueue: the numbers expected next
          cliSeq,        \* seqNum
          cliOutOfOrder, \* outOfOrder
          totalBytes, packetCounter, bytesWritten,
          file

cliVars == <<cliState, cliWindow, cliSeq, cliOutOfOrder, totalBytes,
             packetCounter, bytesWritten, file>>

CliStates == {"start", "awaitSize", "receiving", "exited", "dead"}

NotBuffered == -2

PacketsExpected == (totalBytes \div 1000) + (IF totalBytes % 1000 = 0 THEN 0 ELSE 1)

Buffered(seq) == cliOutOfOrder[seq] # NotBuffered

CliInit ==
  /\ cliState = "start"
  /\ cliWindow = <<>> /\ cliSeq = 0
  /\ cliOutOfOrder = [s \in 1..NumMod |-> NotBuffered]
  /\ totalBytes = 0 /\ packetCounter = 0 /\ bytesWritten = 0
  /\ file = <<>>

-----------------------------------------------------------------------------
(* The name goes out once; the recvfrom() that follows has no timeout. *)
SendName ==
  /\ cliState = "start"
  /\ cliState' = "awaitSize"
  /\ toServer' = Put(toServer, <<[num |-> NameNum, blk |-> NoBlock]>>)
  /\ UNCHANGED <<cliWindow, cliSeq, cliOutOfOrder, totalBytes, packetCounter,
                 bytesWritten, file, toClient, faults>>

(* Whatever datagram comes first is the length; fillWindow() then expects *)
(* the first WindowSize numbers.                                              *)
RecvSize ==
  /\ cliState = "awaitSize"
  /\ toClient # <<>>
  /\ cliState' = "receiving"
  /\ toClient' = Tail(toClient)
  /\ totalBytes' = Ntohl(Head(toClient).num)
  /\ cliWindow' = [j \in 1..WindowSize |-> NumAfter(cliSeq, j)]
  /\ cliSeq' = NumAfter(cliSeq, WindowSize)
  /\ UNCHANGED <<cliOutOfOrder, packetCounter, bytesWritten, file, toServer, faults>>

-----------------------------------------------------------------------------
(* checksum(): the digest is stored into the packet it is compared with, so *)
(* every packet passes.                                                     *)
Checksum(pkt) == TRUE

(* The block the j-th number of the window stands for when pkt, the packet *)
(* of the first number, has come: pkt's own, then the buffered ones.       *)
BlockAt(pkt, j) == IF j = 1 THEN pkt.blk ELSE cliOutOfOrder[cliWindow[j]]

(* pkt and what checkOutOfOrder() finds behind it make n packets to write:  *)
(* up to the first number that is not buffered, or to the exit() of sendAck *)
(* at the last packet expected.  What is buffered is in the window, so n is *)
(* at most WindowSize.                                                          *)
Deliverable(n) ==
  /\ \A j \in 2..n : Buffered(cliWindow[j])
  /\ \A j \in 1..(n - 1) : packetCounter + j # PacketsExpected
  /\ n < WindowSize /\ packetCounter + n # PacketsExpected =>
       ~Buffered(cliWindow[n + 1])

(* sendAck() for each of the n packets, and the copies of the last one that *)
(* precede the exit().                                                      *)
AcksFor(pkt, n) ==
  LET ack == [j \in 1..n |-> [num |-> Htonl(cliWindow[j]), blk |-> BlockAt(pkt, j)]]
  IN  IF packetCounter + n = PacketsExpected
      THEN ack \o [i \in 1..FinalAcks |-> ack[n]]
      ELSE ack

(* (A fault: every block is written whole.) *)
WriteWhole(n) == bytesWritten + 1000 * n

(* Write a whole block, or what is left of the announced length. *)
WriteBytes(n) ==
  IF totalBytes - bytesWritten >= 1000 * n THEN bytesWritten + 1000 * n ELSE totalBytes

(* The entries of outOfOrder the n packets leave.  (A fault: no erase().) *)
EraseNothing(n) == cliOutOfOrder
EraseDelivered(n) ==
  [s \in 1..NumMod |-> IF \E j \in 2..n : cliWindow[j] = s
                       THEN NotBuffered ELSE cliOutOfOrder[s]]

Deliver(pkt, n) ==
  /\ file' = file \o [j \in 1..n |-> BlockAt(pkt, j)]
  /\ bytesWritten' = WriteBytes(n)
  /\ toServer' = Put(toServer, AcksFor(pkt, n))
  /\ packetCounter' = packetCounter + n
  /\ cliState' = IF packetCounter' = PacketsExpected THEN "exited" ELSE cliState
  /\ cliWindow' = SubSeq(cliWindow, n + 1, WindowSize)
                    \o [j \in 1..n |-> NumAfter(cliSeq, j)]
  /\ cliSeq' = NumAfter(cliSeq, n)
  /\ cliOutOfOrder' = EraseDelivered(n)

(* (A fault: any packet number is taken to be in the window.) *)
InAnyLap(seq) == seq \in 1..NumMod
InWindow(seq) == \E j \in 1..WindowSize : cliWindow[j] = seq

(* (A fault: any packet of the window is taken for the next one.) *)
InOrderEnough(pkt) == InWindow(pkt.num)
InOrder(pkt) == pkt.num = cliWindow[1]

(* recvFile(), a packet with the number at the front of the window.  (The *)
(* branch of a wrong checksum, sendAck(-3), is never taken.)              *)
RecvInOrder ==
  /\ cliState = "receiving"
  /\ toClient # <<>>
  /\ toClient' = Tail(toClient)
  /\ LET pkt == Head(toClient) IN
       /\ InOrder(pkt)
       /\ Checksum(pkt)
       /\ \E n \in 1..WindowSize : Deliverable(n) /\ Deliver(pkt, n)
  /\ UNCHANGED <<totalBytes, faults>>

(* recvFile(), any other packet: acknowledge its number, whatever it is, and *)
(* keep the packet when the number is in the window.                         *)
RecvOutOfOrder ==
  /\ cliState = "receiving"
  /\ toClient # <<>>
  /\ toClient' = Tail(toClient)
  /\ LET pkt == Head(toClient) IN
       /\ ~InOrder(pkt)
       /\ toServer' = Put(toServer, <<[num |-> Htonl(pkt.num), blk |-> pkt.blk]>>)
       /\ cliOutOfOrder' = IF InWindow(pkt.num)
                           THEN [cliOutOfOrder EXCEPT ![pkt.num] = pkt.blk]
                           ELSE cliOutOfOrder
  /\ UNCHANGED <<cliState, cliWindow, cliSeq, totalBytes, packetCounter,
                 bytesWritten, file, faults>>

(* The process dies, at any point of the protocol, and is not restarted. *)
ClientCrash ==
  /\ Fault("crash")
  /\ cliState \in {"awaitSize", "receiving"}
  /\ cliState' = "dead"
  /\ UNCHANGED <<cliWindow, cliSeq, cliOutOfOrder, totalBytes, packetCounter,
                 bytesWritten, file, toClient, toServer>>

CliNext == SendName \/ RecvSize \/ RecvInOrder \/ RecvOutOfOrder \/ ClientCrash
=============================================================================
