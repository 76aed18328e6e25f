---------------------------- MODULE RudpLapProofs ----------------------------
(***************************************************************************)
(* Proofs about the file transfer of project2 for files of one lap of the  *)
(* packet numbers, in which a number is a block.  Over a path that does    *)
(* anything the server gives up only after the front packet itself has     *)
(* timed out more than MaxResend times; over one that loses, repeats and   *)
(* reorders, but keeps the bits, the file is written as it is, and the     *)
(* server reports success only when it is.                                 *)
(***************************************************************************)
EXTENDS RudpTransfer, UdpNetworkProofs

(* The file has a packet, and no two of its packets have the same number. *)
OneLap == 0 < Total /\ Total <= NumMod

(* In one lap the number of a packet is that of its block; the queue holds *)
(* the packets that were sent and are not acknowledged.                    *)
QueueOfOneLap ==
  /\ srvWindow \in Seq(Datagram)
  /\ packetsInMem \in Nat /\ ackCounter \in Nat
  /\ packetsInMem <= Total /\ srvSeq = packetsInMem
  /\ ackCounter + Len(srvWindow) = packetsInMem
  /\ \A i \in 1..Len(srvWindow) : srvWindow[i].num = ackCounter + i
  /\ srvState = "sending" => ackCounter < Total

(* The count of resends belongs to one packet: to the front one, or to one *)
(* that has been acknowledged.                                             *)
CountOfFront ==
  /\ srvState \in SrvStates
  /\ resendCnt \in Nat /\ tries \in Nat
  /\ lastResend \in Nat /\ lastResend <= ackCounter + 1
  /\ srvState = "sending" => resendCnt < MaxResend
  /\ srvState = "sending" /\ lastResend = ackCounter + 1 => resendCnt < tries
  /\ srvState = "gaveUp" => tries > MaxResend
  /\ srvState = "awaitName" =>
       packetsInMem = 0 /\ resendCnt = 0 /\ lastResend = 0

ResendInv == QueueOfOneLap /\ CountOfFront

(* What the assumptions say of the numbers. *)
LEMMA Assumptions ==
  /\ WindowSize \in Nat \ {0} /\ NumMod \in Nat \ {0} /\ Total \in Nat
  /\ MaxResend \in Nat \ {0}
BY SeqSpaceAssumption, RudpServerAssumption DEF Total, PacketsIn, BlockSize

(* A packet acknowledged is not the next in front. *)
LEMMA BehindFront ==
  ASSUME NEW acked \in Nat, NEW more \in Nat, NEW last \in Nat,
         last <= acked + 1, more > acked
  PROVE  last <= more + 1 /\ last # more + 1
OBVIOUS

(* nextSeq() within a lap. *)
LEMMA NextOfLap == ASSUME NEW p \in Nat, p < NumMod PROVE NumAfter(p, 1) = p + 1
<1>1. NumMod \in Nat \ {0} /\ p + 1 - 1 = p
  BY Assumptions
<1>2. p % NumMod = p
  BY <1>1
<1> QED BY <1>1, <1>2 DEF NumAfter

(* The server that waits for an acknowledgement waits for one of the front. *)
LEMMA FrontOfLap ==
  ASSUME OneLap, ResendInv, Receiving
  PROVE  /\ srvWindow # <<>> /\ Head(srvWindow).num = ackCounter + 1
         /\ FrontOf(srvWindow) = {Head(srvWindow)}
<1>1. Len(srvWindow) \in Nat /\ (Len(srvWindow) < WindowSize => packetsInMem >= Total)
  BY Assumptions DEF Receiving, RoomToSend, ResendInv, QueueOfOneLap
<1>2. srvState = "sending" /\ ackCounter < Total
  BY DEF Receiving, ResendInv, QueueOfOneLap
<1>3. Len(srvWindow) > 0
  BY <1>1, <1>2, Assumptions DEF ResendInv, QueueOfOneLap
<1>4. srvWindow # <<>> /\ Head(srvWindow) = srvWindow[1] /\ 1 \in 1..Len(srvWindow)
  BY <1>3 DEF ResendInv, QueueOfOneLap
<1> QED BY <1>4 DEF ResendInv, QueueOfOneLap, FrontOf

(* Initially nothing has been sent or resent. *)
LEMMA ResendInit == ASSUME OneLap PROVE Init => ResendInv
BY Assumptions DEF OneLap, Init, SrvInit, ResendInv, QueueOfOneLap, CountOfFront, SrvStates

(* A packet joins the queue with the number of its block. *)
LEMMA ResendFill ==
  ASSUME OneLap, ResendInv, FillWindow
  PROVE  ResendInv'
<1> DEFINE pkt == [num |-> NumAfter(srvSeq, 1), blk |-> packetsInMem + 1]
<1>1. /\ srvState = "sending" /\ packetsInMem < Total
      /\ srvSeq' = pkt.num /\ srvWindow' = Append(srvWindow, pkt)
      /\ packetsInMem' = packetsInMem + 1
      /\ UNCHANGED <<srvState, ackCounter, resendCnt, lastResend, tries>>
  BY DEF FillWindow, RoomToSend
<1>2. NumAfter(srvSeq, 1) = packetsInMem + 1
  BY <1>1, Assumptions, NextOfLap DEF OneLap, ResendInv, QueueOfOneLap
<1>3. pkt \in Datagram /\ pkt.num = packetsInMem + 1
  BY <1>2 DEF Datagram, ResendInv, QueueOfOneLap
<1> HIDE DEF pkt
<1>4. QueueOfOneLap'
  <2>1. srvWindow \in Seq(Datagram) /\ Len(srvWindow) \in Nat
    BY DEF ResendInv, QueueOfOneLap
  <2>2. /\ srvWindow' \in Seq(Datagram) /\ Len(srvWindow') = Len(srvWindow) + 1
        /\ \A i \in 1..Len(srvWindow) : srvWindow'[i] = srvWindow[i]
        /\ srvWindow'[Len(srvWindow) + 1] = pkt
    BY <1>1, <1>3, <2>1
  <2>3. \A i \in 1..Len(srvWindow') : srvWindow'[i].num = ackCounter + i
    <3> TAKE i \in 1..Len(srvWindow')
    <3>1. CASE i \in 1..Len(srvWindow)
      BY <2>2, <3>1 DEF ResendInv, QueueOfOneLap
    <3>2. CASE i = Len(srvWindow) + 1
      BY <1>3, <2>2, <3>2 DEF ResendInv, QueueOfOneLap
    <3> QED BY <2>1, <2>2, <3>1, <3>2
  <2> QED BY <1>1, <1>3, <2>1, <2>2, <2>3, Assumptions DEF ResendInv, QueueOfOneLap
<1> QED BY <1>1, <1>4 DEF ResendInv, CountOfFront

(* The front packet leaves the queue, and with it those stored behind it. *)
LEMMA ResendAck ==
  ASSUME OneLap, ResendInv, RecvAck
  PROVE  ResendInv'
<1>1. srvState = "sending" /\ srvWindow # <<>>
      /\ UNCHANGED <<packetsInMem, resendCnt, lastResend, srvSeq>>
  BY FrontOfLap DEF RecvAck, Receiving
<1>2. CASE AckOther(Head(toServer))
  BY <1>1, <1>2 DEF AckOther, ResendInv, QueueOfOneLap, CountOfFront
<1>3. CASE AckFront
  <2> DEFINE rest == Tail(srvWindow)
  <2>1. PICK n \in 0..Len(rest) :
          /\ srvWindow' = SubSeq(rest, n + 1, Len(rest))
          /\ ackCounter' = ackCounter + n + 1
    BY <1>3 DEF AckFront
  <2>2. srvState' \in {"undefined", "complete", "sending"} /\ tries' = 0
        /\ (srvState' = "sending" => ackCounter' # Total)
    BY <1>3 DEF AckFront, AllAcked
  <2>3. /\ rest \in Seq(Datagram) /\ Len(rest) \in Nat /\ Len(rest) = Len(srvWindow) - 1
        /\ \A i \in 1..Len(rest) : rest[i] = srvWindow[i + 1] /\ i + 1 \in 1..Len(srvWindow)
    BY <1>1 DEF ResendInv, QueueOfOneLap
  <2> HIDE DEF rest
  <2>4. /\ srvWindow' \in Seq(Datagram) /\ Len(srvWindow') = Len(rest) - n
        /\ \A i \in 1..Len(srvWindow') : srvWindow'[i] = rest[i + n] /\ i + n \in 1..Len(rest)
    BY <2>1, <2>3
  <2>5. /\ ackCounter \in Nat /\ packetsInMem \in Nat /\ packetsInMem <= Total
        /\ ackCounter + Len(srvWindow) = packetsInMem /\ Len(srvWindow) \in Nat
        /\ \A i \in 1..Len(srvWindow) : srvWindow[i].num = ackCounter + i
        /\ resendCnt \in Nat /\ lastResend \in Nat /\ lastResend <= ackCounter + 1
        /\ Total \in Nat /\ n \in Nat /\ n <= Len(rest)
    BY <2>1, <2>3, Assumptions DEF ResendInv, QueueOfOneLap, CountOfFront
  <2>6. \A i \in 1..Len(srvWindow') : srvWindow'[i].num = ackCounter' + i
    <3> TAKE i \in 1..Len(srvWindow')
    <3>1. i \in Nat /\ srvWindow'[i] = rest[i + n] /\ i + n \in 1..Len(rest)
      BY <2>3, <2>4, <2>5
    <3>2. rest[i + n] = srvWindow[(i + n) + 1] /\ (i + n) + 1 \in 1..Len(srvWindow)
      BY <2>3, <3>1
    <3>3. srvWindow[(i + n) + 1].num = ackCounter + ((i + n) + 1)
      BY <2>5, <3>2
    <3>4. ackCounter + ((i + n) + 1) = ackCounter' + i
      <4>1. ackCounter' = ackCounter + n + 1 /\ ackCounter \in Nat /\ n \in Nat /\ i \in Nat
        BY <2>1, <2>5, <3>1
      <4> QED BY <4>1
    <3> QED BY <3>1, <3>2, <3>3, <3>4
  <2>7. /\ ackCounter' \in Nat /\ ackCounter' + Len(srvWindow') = packetsInMem
        /\ Len(srvWindow') \in Nat /\ ackCounter' <= Total /\ ackCounter' > ackCounter
    <3> DEFINE l == Len(srvWindow)
               r == Len(rest)
               l2 == Len(srvWindow')
    <3>1. /\ r \in Nat /\ r = l - 1 /\ l2 = r - n /\ l \in Nat /\ n \in Nat /\ n <= r
          /\ ackCounter + l = packetsInMem
      BY <2>3, <2>4, <2>5
    <3> HIDE DEF l, r, l2
    <3>2. /\ ackCounter' \in Nat /\ ackCounter' + l2 = packetsInMem
          /\ l2 \in Nat /\ ackCounter' <= Total /\ ackCounter' > ackCounter
      BY <2>1, <2>5, <3>1
    <3> QED BY <3>2 DEF l2
  <2>8. QueueOfOneLap'
    <3>1. srvState' = "sending" => ackCounter' < Total
      BY <2>2, <2>5, <2>7
    <3> QED BY <1>1, <2>4, <2>5, <2>6, <2>7, <3>1 DEF ResendInv, QueueOfOneLap
  <2>9. CountOfFront'
    <3>1. lastResend' \in Nat /\ lastResend' <= ackCounter' + 1
          /\ lastResend' # ackCounter' + 1
      <4>1. /\ lastResend' = lastResend /\ lastResend \in Nat /\ ackCounter \in Nat
            /\ lastResend <= ackCounter + 1
        BY <1>1, <2>5
      <4>2. ackCounter' \in Nat /\ ackCounter' > ackCounter
        BY <2>7
      <4> QED BY <4>1, <4>2, BehindFront
    <3>2. resendCnt' \in Nat /\ resendCnt' < MaxResend
      BY <1>1, <2>5 DEF ResendInv, CountOfFront
    <3>3. srvState' \in SrvStates \ {"gaveUp", "awaitName"} /\ tries' \in Nat
      BY <2>2 DEF SrvStates
    <3> QED BY <3>1, <3>2, <3>3 DEF CountOfFront
  <2> QED BY <2>8, <2>9 DEF ResendInv
<1> QED BY <1>1, <1>2, <1>3, FrontOfLap DEF RecvAck

(* reSend() counts for the packet in front. *)
LEMMA ResendTimeout ==
  ASSUME OneLap, ResendInv, Timeout
  PROVE  ResendInv'
<1>1. /\ srvState = "sending" /\ resendCnt < MaxResend /\ resendCnt \in Nat
      /\ Head(srvWindow).num = ackCounter + 1 /\ ackCounter \in Nat /\ lastResend \in Nat
      /\ tries \in Nat /\ MaxResend \in Nat \ {0}
  BY Assumptions, FrontOfLap
     DEF Timeout, Receiving, ResendInv, CountOfFront, QueueOfOneLap
<1>2. /\ resendCnt' = IF lastResend = ackCounter + 1 THEN resendCnt + 1 ELSE 0
      /\ srvState' = IF resendCnt' = MaxResend THEN "gaveUp" ELSE "sending"
      /\ lastResend' = ackCounter + 1
      /\ tries' = IF tries <= MaxResend THEN tries + 1 ELSE tries
      /\ UNCHANGED <<srvWindow, packetsInMem, ackCounter, srvSeq>>
  BY <1>1, FrontOfLap DEF Timeout, Resends
<1>3. lastResend = ackCounter + 1 => resendCnt < tries
  BY <1>1 DEF ResendInv, CountOfFront
<1>4. resendCnt' < tries' /\ resendCnt' <= MaxResend /\ resendCnt' \in Nat /\ tries' \in Nat
  BY <1>1, <1>2, <1>3
<1>5. CountOfFront'
  BY <1>1, <1>2, <1>4 DEF CountOfFront, SrvStates
<1>6. QueueOfOneLap'
  BY <1>1, <1>2 DEF ResendInv, QueueOfOneLap
<1> QED BY <1>5, <1>6 DEF ResendInv

(* Of the other steps only the one that reads the name changes the server. *)
LEMMA ResendName ==
  ASSUME OneLap, ResendInv, RecvName
  PROVE  ResendInv'
<1>1. /\ srvState = "awaitName" /\ srvState' = "sending"
      /\ UNCHANGED <<srvWindow, packetsInMem, ackCounter, resendCnt, lastResend, srvSeq,
                     tries>>
  BY DEF RecvName
<1>2. /\ packetsInMem = 0 /\ resendCnt = 0 /\ lastResend = 0
      /\ ackCounter \in Nat /\ Len(srvWindow) \in Nat
      /\ ackCounter + Len(srvWindow) = packetsInMem
  BY <1>1 DEF ResendInv, QueueOfOneLap, CountOfFront
<1>3. ackCounter = 0 /\ ackCounter < Total
  BY <1>2, Assumptions DEF OneLap
<1>4. QueueOfOneLap'
  BY <1>1, <1>3 DEF ResendInv, QueueOfOneLap
<1>5. CountOfFront'
  BY <1>1, <1>2, <1>3, Assumptions DEF ResendInv, CountOfFront, SrvStates
<1> QED BY <1>4, <1>5 DEF ResendInv

(* After a pop of the empty queue the server no longer counts. *)
LEMMA ResendUndefined ==
  ASSUME OneLap, ResendInv, GoOnUndefined
  PROVE  ResendInv'
<1>1. /\ srvState = "undefined" /\ srvState' \in {"undefined", "lost"}
      /\ UNCHANGED <<srvWindow, packetsInMem, ackCounter, resendCnt, lastResend, srvSeq,
                     tries>>
  BY DEF GoOnUndefined
<1> QED BY <1>1 DEF ResendInv, QueueOfOneLap, CountOfFront, SrvStates

(* The invariant is inductive. *)
LEMMA ResendKept ==
  ASSUME OneLap
  PROVE  ResendInv /\ [Next]_vars => ResendInv'
<1> SUFFICES ASSUME ResendInv, [Next]_vars PROVE ResendInv'
  OBVIOUS
<1>1. CASE UNCHANGED srvVars
  BY <1>1 DEF srvVars, ResendInv, QueueOfOneLap, CountOfFront
<1>2. CASE SrvNext
  BY <1>2, ResendName, ResendFill, ResendAck, ResendTimeout, ResendUndefined DEF SrvNext
<1> QED BY <1>1, <1>2 DEF Next, vars

(* GiveUpEarned of RudpTransfer, for every fault of the path: in a file of one *)
(* lap reSend() (server.cpp:98) gives the client up only after the packet in *)
(* front, and no other, has timed out more than MaxResend times.              *)
THEOREM GiveUpAlwaysEarned == ASSUME OneLap PROVE Spec => []GiveUpEarned
<1>1. Init => ResendInv
  BY ResendInit
<1>2. ResendInv /\ [Next]_vars => ResendInv'
  BY ResendKept
<1>3. ResendInv => GiveUpEarned
  BY DEF ResendInv, CountOfFront, GiveUpEarned
<1> QED BY <1>1, <1>2, <1>3, PTL DEF Spec
-----------------------------------------------------------------------------
(* A file whose packets do not use all the numbers and that has more bytes   *)
(* than there are numbers, between little-endian hosts, over a path that may *)
(* lose, repeat and reorder but keeps the bits.                              *)
ShortFile ==
  /\ 0 < Total /\ Total < NumMod /\ NumMod < FileBytes
  /\ LittleEndian = TRUE /\ "corrupt" \notin Faults

(* Block b is written, or held back for later. *)
Has(b) == b <= Len(file) \/ cliOutOfOrder[b] = b

(* What is in flight: the length and packets to the client; the name,       *)
(* answers to a length taken for a packet, and acknowledgements of blocks   *)
(* the client has to the server.                                            *)
FromServer(d) ==
  d.num = Htonl(FileBytes) \/ (d.blk \in 1..packetsInMem /\ d.num = d.blk)
FromClient(d) ==
  d.num \in {NameNum, FileBytes} \/ \E b \in 1..packetsInMem : d.num = Htonl(b) /\ Has(b)

InFlight ==
  /\ toClient \in Seq(Datagram) /\ toServer \in Seq(Datagram)
  /\ \A i \in 1..Len(toClient) : FromServer(toClient[i])
  /\ \A i \in 1..Len(toServer) : FromClient(toServer[i])

(* The queue holds blocks in order; no number is ever stored that front()   *)
(* could have: acknowledgements are stored as they came off the wire.       *)
BlocksInQueue ==
  /\ Len(srvWindow) <= WindowSize
  /\ \A i \in 1..Len(srvWindow) : srvWindow[i].blk = ackCounter + i
  /\ srvOutOfOrder \cap (0..NumMod) = {} /\ NoEmptyPop
  /\ srvState = "complete" => ackCounter = Total

(* Up to the last number the client's window follows what it has written;   *)
(* behind that it has wrapped around to numbers of blocks long written.  A  *)
(* packet taken for the length announces more packets than there are        *)
(* numbers.                                                                 *)
WindowOfLap ==
  /\ packetCounter = Len(file) /\ cliSeq \in Int
  /\ cliState \in {"start", "awaitSize"} => file = <<>> /\ cliSeq = 0
  /\ cliState = "receiving" =>
       /\ cliWindow \in Seq(Int) /\ Len(cliWindow) = WindowSize
       /\ \A j \in 1..WindowSize : Len(file) + j <= NumMod => cliWindow[j] = Len(file) + j
       /\ Len(file) + WindowSize <= NumMod => cliSeq = Len(file) + WindowSize
       /\ PacketsExpected = Total \/ PacketsExpected > NumMod

(* What is held back is in its own place, and the next block is not. *)
BufferOfLap ==
  /\ cliOutOfOrder \in [1..NumMod -> Int]
  /\ \A s \in 1..NumMod : Buffered(s) => cliOutOfOrder[s] = s /\ s <= packetsInMem
  /\ Len(file) < Total => ~Buffered(Len(file) + 1)

FileOfLap ==
  /\ file \in Seq(Int) /\ totalBytes \in Nat /\ bytesWritten \in Nat
  /\ FilePrefix /\ AckedWritten /\ Len(file) <= packetsInMem
  /\ totalBytes = FileBytes /\ Len(file) = Total => cliState = "exited"
  /\ bytesWritten = IF totalBytes >= 1000 * Len(file) THEN 1000 * Len(file) ELSE totalBytes

LapInv ==
  ResendInv /\ InFlight /\ BlocksInQueue /\ WindowOfLap /\ BufferOfLap /\ FileOfLap

-----------------------------------------------------------------------------
(* The length of a short file is a number of three bytes. *)
LEMMA ShortLength ==
  ASSUME ShortFile
  PROVE  /\ FileBytes \in Int /\ 0 < FileBytes /\ FileBytes < 16777216
         /\ FileBytes \notin 0..NumMod /\ 1000 * Total >= FileBytes
<1>1. FileBytes \in Nat /\ NumMod < 128 /\ NumMod \in Nat
  BY SMT, ConstantTypes, RudpServerAssumption
<1> DEFINE p == FileBytes \div 1000
           r == FileBytes % 1000
<1>2. p \in Int /\ r \in 0..999 /\ FileBytes = 1000 * p + r
  BY SMT, <1>1
<1>3. Total = p + (IF r = 0 THEN 0 ELSE 1)
  BY SMT DEF Total, PacketsIn, BlockSize
<1> HIDE DEF p, r
<1>4. 0 < Total /\ Total < NumMod /\ NumMod < FileBytes
  BY SMT DEF ShortFile
<1> QED BY SMT, <1>1, <1>2, <1>3, <1>4

(* The conversions keep packet numbers, lengths and names apart. *)
LEMMA LapNumbers ==
  ASSUME ShortFile
  PROVE  /\ Htonl(FileBytes) \in Int /\ Htonl(FileBytes) > 127 /\ Ntohl(FileBytes) > 127
         /\ Ntohl(Htonl(FileBytes)) = FileBytes /\ Htonl(Htonl(FileBytes)) = FileBytes
         /\ NameNum \in Int /\ NameNum > 127 /\ Ntohl(NameNum) > 127
         /\ \A b \in 1..NumMod : /\ Htonl(b) \in Int /\ Htonl(b) > 127
                                 /\ Ntohl(Htonl(b)) = b
<1>1. Htonl(FileBytes) = ByteSwap(FileBytes) /\ Ntohl(FileBytes) = ByteSwap(FileBytes)
      /\ Htonl(Htonl(FileBytes)) = ByteSwap(ByteSwap(FileBytes))
      /\ Ntohl(Htonl(FileBytes)) = ByteSwap(ByteSwap(FileBytes))
      /\ Ntohl(NameNum) = ByteSwap(NameNum)
  BY SMT DEF Ntohl, Htonl, ShortFile
<1>2. ByteSwap(FileBytes) \in Nat /\ ByteSwap(FileBytes) > 127
      /\ ByteSwap(ByteSwap(FileBytes)) = FileBytes
  BY SMT, ShortLength, SwapThreeBytes
<1>3. NameNum \in Nat /\ NameNum > 127 /\ NameNum % 256 # 0
  BY SMT, RudpClientAssumption
<1>4. ByteSwap(NameNum) > 127
  BY SMT, <1>3, SwapName
<1>5. ASSUME NEW b \in 1..NumMod
      PROVE  Htonl(b) \in Int /\ Htonl(b) > 127 /\ Ntohl(Htonl(b)) = b
  <2>1. b \in 0..127 /\ b > 0
    BY SMT, ConstantTypes
  <2>2. ByteSwap(b) = 16777216 * b /\ ByteSwap(16777216 * b) = b
    BY SMT, <2>1, SwapByte
  <2>3. Htonl(b) = ByteSwap(b) /\ Ntohl(Htonl(b)) = ByteSwap(ByteSwap(b))
    BY SMT DEF Ntohl, Htonl, ShortFile
  <2> QED BY SMT, <2>1, <2>2, <2>3
<1> QED BY SMT, <1>1, <1>2, <1>3, <1>4, <1>5

(* A packet taken for the length announces more packets than there are numbers. *)
LEMMA WrongLength ==
  ASSUME ShortFile, NEW b \in 1..NumMod
  PROVE  Ntohl(b) \in Nat /\ Ntohl(b) # FileBytes /\ PacketsIn(Ntohl(b)) > NumMod
<1>1. b \in 0..127 /\ b > 0 /\ NumMod < 128 /\ NumMod \in Nat
  BY SMT, ConstantTypes
<1>2. Ntohl(b) = 16777216 * b
  BY SMT, <1>1, SwapByte DEF Ntohl, ShortFile
<1>3. (16777216 * b) \div 1000 > 127 /\ (16777216 * b) \div 1000 \in Int
  BY SMT, <1>1
<1>4. PacketsIn(16777216 * b) > NumMod
  BY SMT, <1>1, <1>3 DEF PacketsIn, BlockSize
<1> QED BY SMT, <1>1, <1>2, <1>4, ShortLength

(* nextSeq() within a lap, any number of calls. *)
LEMMA NextNumbers ==
  ASSUME NEW s \in Int, NEW n \in Int, 1 <= s + n, s + n <= NumMod
  PROVE  NumAfter(s, n) = s + n
<1>1. NumMod \in Nat \ {0} /\ s + n - 1 \in 0..(NumMod - 1)
  BY ConstantTypes
<1> DEFINE p == s + n - 1
<1>2. p + 1 = s + n /\ p \in Int
  OBVIOUS
<1> HIDE DEF p
<1>3. p % NumMod = p
  BY <1>1 DEF p
<1> QED BY <1>2, <1>3 DEF NumAfter, p

(* The client's and the server's numbers of packets agree. *)
LEMMA ExpectedOfLength == PacketsExpected = PacketsIn(totalBytes)
BY DEF PacketsExpected, PacketsIn, BlockSize

(* Channels that hold what they held, and what may be in flight. *)
LEMMA InFlightKept ==
  ASSUME ShortFile, InFlight, packetsInMem \in Nat, packetsInMem' \in Nat,
         packetsInMem <= packetsInMem',
         \A b \in 1..packetsInMem : Has(b) => Has(b)',
         toClient' \in Seq(Datagram), toServer' \in Seq(Datagram),
         \A i \in 1..Len(toClient') : \/ \E p \in 1..Len(toClient) : toClient'[i] = toClient[p]
                                      \/ FromServer(toClient[i])',
         \A i \in 1..Len(toServer') : \/ \E p \in 1..Len(toServer) : toServer'[i] = toServer[p]
                                      \/ FromClient(toServer[i])'
  PROVE  InFlight'
<1>1. \A i \in 1..Len(toClient') : FromServer(toClient[i])'
  BY DEF InFlight, FromServer
<1>2. ASSUME NEW i \in 1..Len(toServer') PROVE FromClient(toServer[i])'
  <2>1. ASSUME NEW p \in 1..Len(toServer), toServer'[i] = toServer[p]
        PROVE  FromClient(toServer[i])'
    <3>1. FromClient(toServer[p])
      BY DEF InFlight
    <3>2. CASE toServer[p].num \in {NameNum, FileBytes}
      BY <2>1, <3>2 DEF FromClient
    <3>3. CASE \E b \in 1..packetsInMem : toServer[p].num = Htonl(b) /\ Has(b)
      <4>1. PICK b \in 1..packetsInMem : toServer[p].num = Htonl(b) /\ Has(b)
        BY <3>3
      <4>2. b \in 1..packetsInMem' /\ Has(b)'
        BY <4>1
      <4> QED BY <2>1, <4>1, <4>2 DEF FromClient
    <3> QED BY <3>1, <3>2, <3>3 DEF FromClient
  <2> QED BY <2>1
<1> QED BY <1>1, <1>2 DEF InFlight

(* Blocks in flight and in the queue are numbers below NumMod. *)
LEMMA LapTypes ==
  ASSUME ShortFile, LapInv
  PROVE  /\ packetsInMem \in Nat /\ ackCounter \in Nat /\ Len(file) \in Nat
         /\ Total \in Nat /\ NumMod \in Nat /\ WindowSize \in Nat \ {0}
         /\ ackCounter <= Len(file) /\ Len(file) <= packetsInMem
         /\ packetsInMem <= Total /\ Total < NumMod /\ NumMod < 128
         /\ packetsInMem <= ackCounter + WindowSize /\ OneLap
<1>1. /\ packetsInMem \in Nat /\ ackCounter \in Nat /\ packetsInMem <= Total
      /\ ackCounter + Len(srvWindow) = packetsInMem /\ Len(srvWindow) \in Nat
  BY DEF LapInv, ResendInv, QueueOfOneLap
<1>2. Len(file) \in Nat /\ ackCounter <= Len(file) /\ Len(file) <= packetsInMem
  BY DEF LapInv, FileOfLap, AckedWritten
<1>3. Len(srvWindow) <= WindowSize
  BY DEF LapInv, BlocksInQueue
<1> QED BY <1>1, <1>2, <1>3, Assumptions, ConstantTypes DEF ShortFile, OneLap

(* Initially. *)
LEMMA LapInit == ASSUME ShortFile PROVE Init => LapInv
<1> SUFFICES ASSUME Init PROVE LapInv
  OBVIOUS
<1>1. ResendInv
  <2>1. OneLap
    BY Assumptions DEF ShortFile, OneLap
  <2> QED BY <2>1, ResendInit
<1>2. Total \in Nat /\ Total > 0 /\ NumMod \in Nat /\ WindowSize \in Nat \ {0}
      /\ FileBytes \in Int /\ FileBytes > 0
  BY Assumptions, ShortLength DEF ShortFile
<1> USE DEF Init, SrvInit, CliInit, NetInit
<1>3. InFlight
  BY DEF InFlight
<1>4. BlocksInQueue
  BY <1>2 DEF NoEmptyPop, BlocksInQueue
<1>5. WindowOfLap
  BY DEF WindowOfLap
<1>6. BufferOfLap
  <2>1. 1 \in 1..NumMod /\ NotBuffered \in Int
    BY <1>2 DEF ShortFile, NotBuffered
  <2>2. \A s \in 1..NumMod : ~Buffered(s)
    BY DEF Buffered
  <2>3. Len(file) + 1 = 1
    OBVIOUS
  <2> QED BY <2>1, <2>2, <2>3 DEF BufferOfLap
<1>7. FileOfLap
  BY <1>2 DEF FileOfLap, FilePrefix, AckedWritten
<1> QED BY <1>1, <1>3, <1>4, <1>5, <1>6, <1>7 DEF LapInv

-----------------------------------------------------------------------------
(* The path loses, repeats and reorders. *)
LEMMA LapNetwork ==
  ASSUME ShortFile, LapInv, Lose \/ Duplicate \/ Reorder, UNCHANGED <<srvVars, cliVars>>
  PROVE  LapInv'
<1>1. /\ \/ toClient' = toClient
         \/ Lossy(toClient, toClient') \/ Duplicating(toClient, toClient')
         \/ Reordering(toClient, toClient')
      /\ \/ toServer' = toServer
         \/ Lossy(toServer, toServer') \/ Duplicating(toServer, toServer')
         \/ Reordering(toServer, toServer')
  BY DEF Lose, Duplicate, Reorder
<1>2. toClient \in Seq(Datagram) /\ toServer \in Seq(Datagram)
  BY DEF LapInv, InFlight
<1>3. /\ toClient' \in Seq(Datagram)
      /\ \A i \in 1..Len(toClient') : \E p \in 1..Len(toClient) : toClient'[i] = toClient[p]
  BY <1>1, <1>2, StillInChannel
<1>4. /\ toServer' \in Seq(Datagram)
      /\ \A i \in 1..Len(toServer') : \E p \in 1..Len(toServer) : toServer'[i] = toServer[p]
  BY <1>1, <1>2, StillInChannel
<1>5. UNCHANGED <<packetsInMem, file, cliOutOfOrder>>
  BY DEF srvVars, cliVars
<1>6. \A b \in 1..packetsInMem : Has(b) => Has(b)'
  BY <1>5 DEF Has
<1>7. InFlight'
  BY <1>3, <1>4, <1>5, <1>6, LapTypes, InFlightKept DEF LapInv
<1>8. BlocksInQueue' /\ WindowOfLap' /\ BufferOfLap' /\ FileOfLap'
  BY DEF NoEmptyPop, LapInv, BlocksInQueue, WindowOfLap, BufferOfLap, FileOfLap, FilePrefix,
         AckedWritten, Buffered, PacketsExpected, srvVars, cliVars
<1>9. ResendInv'
  BY DEF LapInv, ResendInv, QueueOfOneLap, CountOfFront, srvVars
<1> QED BY <1>7, <1>8, <1>9 DEF LapInv

(* The server sends pkt, and may have received something. *)
LEMMA ServerSendsOfLap ==
  ASSUME ShortFile, LapInv, packetsInMem' \in Nat, packetsInMem <= packetsInMem',
         NEW pkt \in Datagram, FromServer(pkt)', toClient' = Put(toClient, <<pkt>>),
         toServer' = toServer \/ (toServer # <<>> /\ toServer' = Tail(toServer)),
         UNCHANGED cliVars
  PROVE  InFlight'
<1>1. toClient \in Seq(Datagram) /\ toServer \in Seq(Datagram) /\ <<pkt>> \in Seq(Datagram)
  BY DEF LapInv, InFlight
<1>2. /\ toServer' \in Seq(Datagram)
      /\ \A i \in 1..Len(toServer') : \E p \in 1..Len(toServer) : toServer'[i] = toServer[p]
  <2>1. CASE toServer' = toServer
    BY <1>1, <2>1
  <2>2. CASE toServer # <<>> /\ toServer' = Tail(toServer)
    BY <1>1, <2>2, StillInChannel
  <2> QED BY <2>1, <2>2
<1>3. /\ toClient' \in Seq(Datagram)
      /\ \A i \in 1..Len(toClient') :
           \/ \E p \in 1..Len(toClient) : toClient'[i] = toClient[p]
           \/ \E p \in 1..Len(<<pkt>>) : toClient'[i] = <<pkt>>[p]
  <2> DEFINE msgs == <<pkt>>
             sent == Put(toClient, msgs)
  <2>1. msgs \in Seq(Datagram)
    BY <1>1
  <2> HIDE DEF msgs
  <2>2. /\ sent \in Seq(Datagram)
        /\ \A i \in 1..Len(sent) : \/ \E p \in 1..Len(toClient) : sent[i] = toClient[p]
                                 \/ \E p \in 1..Len(msgs) : sent[i] = msgs[p]
    BY <1>1, <2>1, PutInChannel
  <2>3. toClient' = sent
    BY DEF msgs
  <2> HIDE DEF sent
  <2> QED BY <2>2, <2>3 DEF msgs
<1>4. \A i \in 1..Len(toClient') : \/ \E p \in 1..Len(toClient) : toClient'[i] = toClient[p]
                                  \/ FromServer(toClient[i])'
  <2>1. \A p \in 1..Len(<<pkt>>) : <<pkt>>[p] = pkt
    OBVIOUS
  <2> QED BY <1>3, <2>1 DEF FromServer
<1>5. \A b \in 1..packetsInMem : Has(b) => Has(b)'
  BY DEF Has, cliVars
<1> QED BY <1>2, <1>3, <1>4, <1>5, LapTypes, InFlightKept DEF LapInv

(* What the client has is not touched by a step of the server. *)
LEMMA ServerLeavesClient ==
  ASSUME ShortFile, LapInv, packetsInMem' \in Nat, packetsInMem <= packetsInMem',
         UNCHANGED cliVars
  PROVE  /\ WindowOfLap' /\ BufferOfLap'
         /\ ackCounter' \in Nat /\ ackCounter' <= Len(file) => FileOfLap'
<1>1. WindowOfLap'
  BY DEF LapInv, WindowOfLap, PacketsExpected, cliVars
<1>2. BufferOfLap'
  <2>1. UNCHANGED <<cliOutOfOrder, file>>
    BY DEF cliVars
  <2>2. \A s \in 1..NumMod : Buffered(s)' <=> Buffered(s)
    BY <2>1 DEF Buffered
  <2>3. Buffered(Len(file) + 1)' <=> Buffered(Len(file) + 1)
    BY <2>1 DEF Buffered
  <2>4. \A s \in 1..NumMod : s <= packetsInMem => s <= packetsInMem'
    BY LapTypes
  <2> QED BY <2>1, <2>2, <2>3, <2>4 DEF LapInv, BufferOfLap
<1>3. ASSUME ackCounter' \in Nat, ackCounter' <= Len(file) PROVE FileOfLap'
  <2>1. Len(file) <= packetsInMem'
    BY LapTypes
  <2> QED BY <1>3, <2>1 DEF LapInv, FileOfLap, FilePrefix, AckedWritten, cliVars
<1> QED BY <1>1, <1>2, <1>3

(* recvName(): the length goes out. *)
LEMMA LapRecvName ==
  ASSUME ShortFile, LapInv, ResendInv', RecvName, UNCHANGED cliVars
  PROVE  LapInv'
<1>1. /\ srvState' = "sending" /\ toServer # <<>> /\ toServer' = Tail(toServer)
      /\ toClient' = Put(toClient, <<SizeDatagram>>)
      /\ UNCHANGED <<srvWindow, srvOutOfOrder, packetsInMem, ackCounter>>
  BY DEF RecvName
<1>2. SizeDatagram \in Datagram /\ FromServer(SizeDatagram)'
  BY LapNumbers DEF SizeDatagram, Datagram, NoBlock, FromServer
<1>3. InFlight'
  BY <1>1, <1>2, LapTypes, ServerSendsOfLap
<1>4. BlocksInQueue'
  BY <1>1 DEF NoEmptyPop, LapInv, BlocksInQueue
<1>5. WindowOfLap' /\ BufferOfLap' /\ FileOfLap'
  BY <1>1, LapTypes, ServerLeavesClient
<1> QED BY <1>3, <1>4, <1>5 DEF LapInv

(* fillWindow(): the next block goes out, with its own number. *)
LEMMA LapFillWindow ==
  ASSUME ShortFile, LapInv, ResendInv', FillWindow, UNCHANGED cliVars
  PROVE  LapInv'
<1>1. /\ srvState = "sending" /\ Len(srvWindow) < WindowSize /\ packetsInMem < Total
      /\ LET pkt == [num |-> NumAfter(srvSeq, 1), blk |-> packetsInMem + 1]
         IN  srvWindow' = Append(srvWindow, pkt) /\ toClient' = Put(toClient, <<pkt>>)
      /\ packetsInMem' = packetsInMem + 1
      /\ UNCHANGED <<srvState, srvOutOfOrder, ackCounter, toServer>>
  BY DEF FillWindow, RoomToSend
<1>2. /\ packetsInMem \in Nat /\ ackCounter \in Nat /\ Total \in Nat /\ Total < NumMod
      /\ NumMod \in Nat /\ WindowSize \in Nat /\ ackCounter <= Len(file)
  BY LapTypes
<1>3. NumAfter(srvSeq, 1) = packetsInMem + 1
  <2>1. srvSeq = packetsInMem
    BY DEF LapInv, ResendInv, QueueOfOneLap
  <2> QED BY <1>1, <1>2, <2>1, NextOfLap
<1>4. PICK pkt \in Datagram :
        /\ pkt.num = packetsInMem + 1 /\ pkt.blk = packetsInMem + 1
        /\ srvWindow' = Append(srvWindow, pkt) /\ toClient' = Put(toClient, <<pkt>>)
  <2> DEFINE q == [num |-> packetsInMem + 1, blk |-> packetsInMem + 1]
  <2>1. q \in Datagram /\ q.num = packetsInMem + 1 /\ q.blk = packetsInMem + 1
    BY <1>2 DEF Datagram
  <2>2. srvWindow' = Append(srvWindow, q) /\ toClient' = Put(toClient, <<q>>)
    BY <1>1, <1>3
  <2> HIDE DEF q
  <2> QED BY <2>1, <2>2
<1>5. FromServer(pkt)' /\ packetsInMem' \in Nat /\ packetsInMem <= packetsInMem'
  BY <1>1, <1>2, <1>4 DEF FromServer
<1>6. InFlight'
  BY <1>1, <1>4, <1>5, ServerSendsOfLap
<1>7. BlocksInQueue'
  <2>1. srvWindow \in Seq(Datagram) /\ Len(srvWindow) \in Nat
        /\ ackCounter + Len(srvWindow) = packetsInMem
    BY DEF LapInv, ResendInv, QueueOfOneLap
  <2>2. /\ Len(srvWindow') = Len(srvWindow) + 1
        /\ \A i \in 1..Len(srvWindow) : srvWindow'[i] = srvWindow[i]
        /\ srvWindow'[Len(srvWindow) + 1] = pkt
    BY <1>4, <2>1
  <2>3. \A i \in 1..Len(srvWindow') : srvWindow'[i].blk = ackCounter + i
    <3> TAKE i \in 1..Len(srvWindow')
    <3>1. CASE i \in 1..Len(srvWindow)
      BY <2>2, <3>1 DEF LapInv, BlocksInQueue
    <3>2. CASE i = Len(srvWindow) + 1
      <4>1. srvWindow'[i].blk = packetsInMem + 1 /\ ackCounter + i = packetsInMem + 1
        BY <1>2, <1>4, <2>1, <2>2, <3>2
      <4> QED BY <4>1
    <3> QED BY <2>1, <2>2, <3>1, <3>2
  <2> QED BY <1>1, <1>2, <2>1, <2>2, <2>3 DEF NoEmptyPop, LapInv, BlocksInQueue
<1>8. WindowOfLap' /\ BufferOfLap' /\ FileOfLap'
  BY <1>1, <1>2, <1>5, ServerLeavesClient
<1> QED BY <1>6, <1>7, <1>8 DEF LapInv

(* reSend(): the packet in front goes out again. *)
LEMMA LapTimeout ==
  ASSUME ShortFile, LapInv, ResendInv', Timeout, UNCHANGED cliVars
  PROVE  LapInv'
<1>1. Receiving /\ UNCHANGED <<srvWindow, srvOutOfOrder, packetsInMem, ackCounter, toServer>>
  BY DEF Timeout
<1>2. srvWindow # <<>> /\ FrontOf(srvWindow) = {Head(srvWindow)}
      /\ Head(srvWindow).num = ackCounter + 1
  BY <1>1, LapTypes, FrontOfLap DEF LapInv
<1>3. toClient' = Put(toClient, <<Head(srvWindow)>>) /\ srvState' \in {"gaveUp", srvState}
  BY <1>2 DEF Timeout
<1>4. /\ srvWindow \in Seq(Datagram) /\ Len(srvWindow) \in Nat
      /\ ackCounter + Len(srvWindow) = packetsInMem
  BY DEF LapInv, ResendInv, QueueOfOneLap
<1>5. 1 \in 1..Len(srvWindow) /\ Head(srvWindow) = srvWindow[1] /\ Head(srvWindow) \in Datagram
  BY <1>2, <1>4
<1>6. Head(srvWindow).blk = ackCounter + 1 /\ ackCounter + 1 \in 1..packetsInMem
  BY <1>4, <1>5, LapTypes DEF LapInv, BlocksInQueue
<1>7. InFlight'
  <2>1. PICK pkt \in Datagram :
          toClient' = Put(toClient, <<pkt>>) /\ pkt.num = ackCounter + 1 /\ pkt.blk = ackCounter + 1
    BY <1>2, <1>3, <1>5, <1>6
  <2>2. FromServer(pkt)'
    BY <1>1, <1>6, <2>1 DEF FromServer
  <2> QED BY <1>1, <2>1, <2>2, LapTypes, ServerSendsOfLap
<1>8. BlocksInQueue'
  BY <1>1, <1>3 DEF NoEmptyPop, LapInv, BlocksInQueue
<1>9. WindowOfLap' /\ BufferOfLap' /\ FileOfLap'
  BY <1>1, LapTypes, ServerLeavesClient
<1> QED BY <1>7, <1>8, <1>9 DEF LapInv

(* The acknowledgement of the front packet is of a block that is written: the *)
(* client has it, and what it holds back is not the next block it expects.    *)
LEMMA FrontIsWritten ==
  ASSUME ShortFile, LapInv, toServer # <<>>, Receiving,
         Ntohl(Head(toServer).num) = ackCounter + 1
  PROVE  ackCounter + 1 <= Len(file)
<1>1. /\ packetsInMem \in Nat /\ ackCounter \in Nat /\ Len(file) \in Nat /\ Total \in Nat
      /\ ackCounter <= Len(file) /\ packetsInMem <= Total /\ Total < NumMod /\ NumMod < 128
      /\ NumMod \in Nat
  BY LapTypes
<1>2. ackCounter < Total
  BY DEF Receiving, LapInv, ResendInv, QueueOfOneLap
<1>3. Head(toServer) = toServer[1] /\ 1 \in 1..Len(toServer)
  BY DEF LapInv, InFlight
<1>4. FromClient(Head(toServer))
  BY <1>3 DEF LapInv, InFlight
<1>5. Head(toServer).num \notin {NameNum, FileBytes}
  BY <1>1, <1>2, LapNumbers
<1>6. PICK b \in 1..packetsInMem : Head(toServer).num = Htonl(b) /\ Has(b)
  BY <1>4, <1>5 DEF FromClient
<1>7. b = ackCounter + 1
  <2>1. b \in 1..NumMod
    BY <1>1
  <2> QED BY <1>6, <2>1, LapNumbers
<1>8. SUFFICES ASSUME ~(b <= Len(file)) PROVE FALSE
  BY <1>7
<1>9. b = Len(file) + 1 /\ Len(file) < Total /\ b \in 1..NumMod
  BY <1>1, <1>2, <1>7, <1>8
<1>10. cliOutOfOrder[b] = NotBuffered
  BY <1>9 DEF LapInv, BufferOfLap, Buffered
<1>11. cliOutOfOrder[b] = b
  BY <1>6, <1>8 DEF Has
<1> QED BY <1>1, <1>7, <1>10, <1>11 DEF NotBuffered

(* What recvAck() stores is no number that front() could have. *)
LEMMA StoredNumbers ==
  ASSUME ShortFile, LapInv, toServer # <<>>
  PROVE  Head(toServer).num \notin 0..NumMod
<1>1. /\ packetsInMem \in Nat /\ Total \in Nat /\ packetsInMem <= Total
      /\ Total < NumMod /\ NumMod < 128 /\ NumMod \in Nat
  BY LapTypes
<1>2. Head(toServer) = toServer[1] /\ 1 \in 1..Len(toServer)
  BY DEF LapInv, InFlight
<1>3. FromClient(Head(toServer))
  BY <1>2 DEF LapInv, InFlight
<1>4. CASE Head(toServer).num = NameNum
  BY <1>1, <1>4, LapNumbers
<1>5. CASE Head(toServer).num = FileBytes
  BY <1>5, ShortLength
<1>6. CASE \E b \in 1..packetsInMem : Head(toServer).num = Htonl(b) /\ Has(b)
  <2>1. PICK b \in 1..packetsInMem : Head(toServer).num = Htonl(b)
    BY <1>6
  <2>2. b \in 1..NumMod
    BY <1>1
  <2> QED BY <1>1, <2>1, <2>2, LapNumbers
<1> QED BY <1>3, <1>4, <1>5, <1>6 DEF FromClient

(* recvAck(): the front packet leaves the queue, alone. *)
LEMMA LapRecvAck ==
  ASSUME ShortFile, LapInv, ResendInv', RecvAck, UNCHANGED cliVars
  PROVE  LapInv'
<1>1. /\ Receiving /\ toServer # <<>> /\ toServer' = Tail(toServer)
      /\ UNCHANGED <<packetsInMem, toClient>>
  BY DEF RecvAck
<1>2. /\ packetsInMem \in Nat /\ ackCounter \in Nat /\ Len(file) \in Nat /\ Total \in Nat
      /\ ackCounter <= Len(file)
  BY LapTypes
<1>3. srvWindow # <<>> /\ FrontOf(srvWindow) = {Head(srvWindow)}
      /\ Head(srvWindow).num = ackCounter + 1
  BY <1>1, LapTypes, FrontOfLap DEF LapInv
<1>4. InFlight'
  <2>1. toServer \in Seq(Datagram) /\ toClient \in Seq(Datagram)
    BY DEF LapInv, InFlight
  <2>2. /\ toServer' \in Seq(Datagram)
        /\ \A i \in 1..Len(toServer') : \E p \in 1..Len(toServer) : toServer'[i] = toServer[p]
    BY <1>1, <2>1, StillInChannel
  <2>3. \A b \in 1..packetsInMem : Has(b) => Has(b)'
    BY DEF Has, cliVars
  <2> QED BY <1>1, <1>2, <2>1, <2>2, <2>3, InFlightKept DEF LapInv
<1>5. CASE AckOther(Head(toServer))
  <2>1. /\ srvOutOfOrder' = srvOutOfOrder \cup {Head(toServer).num}
        /\ UNCHANGED <<srvState, srvWindow, ackCounter>>
    BY <1>5 DEF AckOther, Stores
  <2>2. BlocksInQueue'
    BY <1>1, <2>1, StoredNumbers DEF NoEmptyPop, LapInv, BlocksInQueue
  <2> QED BY <1>1, <1>2, <1>4, <2>1, <2>2, ServerLeavesClient DEF LapInv
<1>6. CASE Acks(Head(toServer), Head(srvWindow)) /\ AckFront
  <2>1. ackCounter + 1 <= Len(file)
    BY <1>1, <1>3, <1>6, FrontIsWritten DEF Acks
  <2> DEFINE rest == Tail(srvWindow)
  <2>2. PICK n \in 0..Len(rest) :
          /\ Drains(rest, n)
          /\ srvWindow' = SubSeq(rest, n + 1, Len(rest))
          /\ srvOutOfOrder' = srvOutOfOrder \ {rest[i].num : i \in 1..n}
          /\ ackCounter' = ackCounter + n + 1
          /\ \E front \in FrontOf(srvWindow') :
               srvState' = IF front.num \in srvOutOfOrder' THEN "undefined"
                           ELSE IF AllAcked(ackCounter') THEN "complete" ELSE "sending"
    BY <1>6 DEF AckFront
  <2>3. /\ srvWindow \in Seq(Datagram) /\ ackCounter + Len(srvWindow) = packetsInMem
        /\ Len(srvWindow) \in Nat /\ packetsInMem <= Total
        /\ \A i \in 1..Len(srvWindow) : srvWindow[i].num = ackCounter + i
    BY DEF LapInv, ResendInv, QueueOfOneLap
  <2>4. /\ rest \in Seq(Datagram) /\ Len(rest) = Len(srvWindow) - 1 /\ Len(rest) \in Nat
        /\ \A i \in 1..Len(rest) : rest[i] = srvWindow[i + 1] /\ i + 1 \in 1..Len(srvWindow)
    BY <1>3, <2>3
  <2> HIDE DEF rest
  <2>5. n = 0
    <3> SUFFICES ASSUME n # 0 PROVE FALSE
      OBVIOUS
    <3>1. 1 \in 1..n /\ 1 \in 1..Len(rest)
      BY <2>2, <2>4
    <3>2. rest[1].num \in srvOutOfOrder
      BY <2>2, <3>1 DEF Drains, Stored
    <3>3. rest[1].num = ackCounter + 2 /\ 2 \in 1..Len(srvWindow)
      <4>1. rest[1] = srvWindow[2] /\ 2 \in 1..Len(srvWindow)
        BY <2>4, <3>1
      <4> QED BY <2>3, <4>1
    <3>4. ackCounter + 2 \in 2..Total
      BY <1>2, <2>3, <3>3
    <3>5. ackCounter + 2 \in 0..NumMod
      BY <1>2, <3>4, LapTypes
    <3> QED BY <3>2, <3>3, <3>5 DEF LapInv, BlocksInQueue
  <2>6. /\ ackCounter' = ackCounter + 1 /\ Len(srvWindow') = Len(rest)
        /\ \A i \in 1..Len(rest) : srvWindow'[i] = rest[i]
        /\ srvOutOfOrder' \subseteq srvOutOfOrder
    BY <1>2, <2>2, <2>4, <2>5
  <2>7. \A i \in 1..Len(srvWindow') : srvWindow'[i].blk = ackCounter' + i
    <3> TAKE i \in 1..Len(srvWindow')
    <3>1. srvWindow'[i] = srvWindow[i + 1] /\ i + 1 \in 1..Len(srvWindow) /\ i \in Nat
      BY <2>4, <2>6
    <3>2. srvWindow[i + 1].blk = ackCounter + (i + 1)
      BY <3>1 DEF LapInv, BlocksInQueue
    <3> QED BY <1>2, <2>6, <3>1, <3>2
  <2>8. BlocksInQueue'
    <3>1. Len(srvWindow') <= WindowSize
      BY <2>3, <2>4, <2>6, LapTypes DEF LapInv, BlocksInQueue
    <3>2. srvState' = "complete" => ackCounter' = Total
      BY <2>2 DEF AllAcked
    <3>3. \A front \in FrontOf(srvWindow') : front.num \in 0..NumMod
      <4>1. CASE srvWindow' = <<>>
        BY <4>1 DEF FrontOf, StaleSeqs
      <4>2. CASE srvWindow' # <<>>
        <5>1. srvWindow' \in Seq(Datagram)
          BY <2>2, <2>4
        <5>2. Head(srvWindow') = rest[1] /\ 1 \in 1..Len(rest)
          BY <2>4, <2>6, <4>2, <5>1
        <5>3. rest[1] = srvWindow[2] /\ 2 \in 1..Len(srvWindow)
          BY <2>4, <5>2
        <5>4. Head(srvWindow').num = ackCounter + 2
          BY <2>3, <5>2, <5>3
        <5>5. ackCounter + 2 \in 0..NumMod
          BY <1>2, <2>3, <5>3, LapTypes
        <5> QED BY <4>2, <5>4, <5>5 DEF FrontOf
      <4> QED BY <4>1, <4>2
    <3>4. srvState' \in {"complete", "sending"}
      BY <2>2, <2>6, <3>3 DEF LapInv, BlocksInQueue
    <3>5. NoEmptyPop'
      BY <3>4 DEF NoEmptyPop
    <3>6. srvOutOfOrder' \cap (0..NumMod) = {}
      BY <2>6 DEF LapInv, BlocksInQueue
    <3> QED BY <2>6, <2>7, <3>1, <3>2, <3>5, <3>6 DEF LapInv, BlocksInQueue
  <2>9. ackCounter' \in Nat /\ ackCounter' <= Len(file)
    BY <1>2, <2>1, <2>6
  <2> QED BY <1>1, <1>2, <1>4, <2>8, <2>9, ServerLeavesClient DEF LapInv
<1>7. AckOther(Head(toServer)) \/ (Acks(Head(toServer), Head(srvWindow)) /\ AckFront)
  BY <1>3 DEF RecvAck
<1> QED BY <1>5, <1>6, <1>7

-----------------------------------------------------------------------------
(* What the server has is not touched by a step of the client. *)
LEMMA ClientLeavesServer ==
  ASSUME LapInv, UNCHANGED srvVars
  PROVE  ResendInv' /\ BlocksInQueue'
BY DEF NoEmptyPop, LapInv, ResendInv, QueueOfOneLap, CountOfFront, BlocksInQueue, srvVars

(* The client sends the datagrams of msgs, and may have received something. *)
LEMMA ClientSendsOfLap ==
  ASSUME ShortFile, LapInv, UNCHANGED srvVars,
         \A b \in 1..packetsInMem : Has(b) => Has(b)',
         NEW msgs \in Seq(Datagram), \A p \in 1..Len(msgs) : FromClient(msgs[p])',
         toServer' = Put(toServer, msgs),
         toClient' = toClient \/ (toClient # <<>> /\ toClient' = Tail(toClient))
  PROVE  InFlight'
<1>1. toClient \in Seq(Datagram) /\ toServer \in Seq(Datagram) /\ packetsInMem' = packetsInMem
  BY DEF LapInv, InFlight, srvVars
<1>2. /\ toClient' \in Seq(Datagram)
      /\ \A i \in 1..Len(toClient') : \E p \in 1..Len(toClient) : toClient'[i] = toClient[p]
  <2>1. CASE toClient' = toClient
    BY <1>1, <2>1
  <2>2. CASE toClient # <<>> /\ toClient' = Tail(toClient)
    BY <1>1, <2>2, StillInChannel
  <2> QED BY <2>1, <2>2
<1>3. /\ toServer' \in Seq(Datagram)
      /\ \A i \in 1..Len(toServer') :
           \/ \E p \in 1..Len(toServer) : toServer'[i] = toServer[p]
           \/ \E p \in 1..Len(msgs) : toServer'[i] = msgs[p]
  <2> DEFINE sent == Put(toServer, msgs)
  <2>1. /\ sent \in Seq(Datagram)
        /\ \A i \in 1..Len(sent) : \/ \E p \in 1..Len(toServer) : sent[i] = toServer[p]
                                 \/ \E p \in 1..Len(msgs) : sent[i] = msgs[p]
    BY <1>1, PutInChannel
  <2>2. toServer' = sent
    OBVIOUS
  <2> HIDE DEF sent
  <2> QED BY <2>1, <2>2
<1>4. \A i \in 1..Len(toServer') : \/ \E p \in 1..Len(toServer) : toServer'[i] = toServer[p]
                                  \/ FromClient(toServer[i])'
  BY <1>3 DEF FromClient
<1> QED BY <1>1, <1>2, <1>3, <1>4, LapTypes, InFlightKept DEF LapInv

(* The client dies. *)
LEMMA LapClientCrash ==
  ASSUME ShortFile, LapInv, ClientCrash, UNCHANGED srvVars
  PROVE  LapInv'
<1>1. /\ cliState' = "dead" /\ cliState # "exited"
      /\ UNCHANGED <<cliWindow, cliSeq, cliOutOfOrder, totalBytes, packetCounter,
                     bytesWritten, file, toClient, toServer, packetsInMem, ackCounter>>
  BY DEF ClientCrash, srvVars
<1>2. InFlight'
  BY <1>1 DEF LapInv, InFlight, FromServer, FromClient, Has
<1>3. WindowOfLap' /\ BufferOfLap'
  BY <1>1 DEF LapInv, WindowOfLap, BufferOfLap, Buffered
<1>4. FileOfLap'
  BY <1>1 DEF LapInv, FileOfLap, FilePrefix, AckedWritten
<1> QED BY <1>2, <1>3, <1>4, ClientLeavesServer DEF LapInv

(* The name goes out. *)
LEMMA LapSendName ==
  ASSUME ShortFile, LapInv, SendName, UNCHANGED srvVars
  PROVE  LapInv'
<1>1. /\ cliState = "start" /\ cliState' = "awaitSize"
      /\ UNCHANGED <<cliWindow, cliSeq, cliOutOfOrder, totalBytes, packetCounter,
                     bytesWritten, file, toClient, packetsInMem, ackCounter>>
  BY DEF SendName, srvVars
<1>2. PICK pkt \in Datagram : pkt.num = NameNum /\ toServer' = Put(toServer, <<pkt>>)
  <2> DEFINE q == [num |-> NameNum, blk |-> NoBlock]
  <2>1. q \in Datagram /\ q.num = NameNum
    BY LapNumbers DEF Datagram, NoBlock
  <2>2. toServer' = Put(toServer, <<q>>)
    BY DEF SendName
  <2> HIDE DEF q
  <2> QED BY <2>1, <2>2
<1>3. InFlight'
  <2> DEFINE msgs == <<pkt>>
  <2>1. msgs \in Seq(Datagram) /\ \A p \in 1..Len(msgs) : msgs[p] = pkt
    OBVIOUS
  <2>2. toServer' = Put(toServer, msgs)
    BY <1>2
  <2> HIDE DEF msgs
  <2>3. \A p \in 1..Len(msgs) : FromClient(msgs[p])'
    BY <1>2, <2>1 DEF FromClient
  <2>4. \A b \in 1..packetsInMem : Has(b) => Has(b)'
    BY <1>1 DEF Has
  <2> QED BY <1>1, <2>1, <2>2, <2>3, <2>4, ClientSendsOfLap
<1>4. WindowOfLap' /\ BufferOfLap'
  BY <1>1 DEF LapInv, WindowOfLap, BufferOfLap, Buffered
<1>5. FileOfLap'
  BY <1>1 DEF LapInv, FileOfLap, FilePrefix, AckedWritten
<1> QED BY <1>3, <1>4, <1>5, ClientLeavesServer DEF LapInv

(* The first datagram is the length, or is taken for it. *)
LEMMA LapRecvSize ==
  ASSUME ShortFile, LapInv, RecvSize, UNCHANGED srvVars
  PROVE  LapInv'
<1>1. /\ cliState = "awaitSize" /\ cliState' = "receiving"
      /\ toClient # <<>> /\ toClient' = Tail(toClient)
      /\ totalBytes' = Ntohl(Head(toClient).num)
      /\ cliWindow' = [j \in 1..WindowSize |-> NumAfter(cliSeq, j)]
      /\ cliSeq' = NumAfter(cliSeq, WindowSize)
      /\ UNCHANGED <<cliOutOfOrder, packetCounter, bytesWritten, file, toServer,
                     packetsInMem, ackCounter>>
  BY DEF RecvSize, srvVars
<1>2. file = <<>> /\ cliSeq = 0 /\ Len(file) = 0 /\ file' = file
  BY <1>1 DEF LapInv, WindowOfLap
<1>3. /\ packetsInMem \in Nat /\ Total \in Nat /\ packetsInMem <= Total /\ Total > 0
      /\ Total < NumMod /\ NumMod \in Nat \ {0} /\ WindowSize \in Nat \ {0}
  BY LapTypes DEF ShortFile
<1>4. InFlight'
  <2>1. toClient \in Seq(Datagram) /\ toServer \in Seq(Datagram)
    BY DEF LapInv, InFlight
  <2>2. /\ toClient' \in Seq(Datagram)
        /\ \A i \in 1..Len(toClient') : \E p \in 1..Len(toClient) : toClient'[i] = toClient[p]
    BY <1>1, <2>1, StillInChannel
  <2>3. \A b \in 1..packetsInMem : Has(b) => Has(b)'
    BY <1>1 DEF Has
  <2> QED BY <1>1, <1>3, <2>1, <2>2, <2>3, InFlightKept DEF LapInv
<1>5. \A s \in Int, n \in Int : NumAfter(s, n) \in Int
  BY <1>3, DivMod DEF NumAfter
<1>6. /\ cliWindow' \in Seq(Int) /\ Len(cliWindow') = WindowSize /\ cliSeq' \in Int
      /\ \A j \in 1..WindowSize : cliWindow'[j] = NumAfter(0, j)
  BY <1>1, <1>2, <1>3, <1>5
<1>7. ASSUME NEW j \in 1..WindowSize, 0 + j <= NumMod PROVE NumAfter(0, j) = 0 + j
  BY <1>3, <1>7, NextNumbers
<1>8. totalBytes' \in Nat /\ (totalBytes' = FileBytes \/ PacketsIn(totalBytes') > NumMod)
  <2>1. Head(toClient) = toClient[1] /\ 1 \in 1..Len(toClient)
    BY <1>1 DEF LapInv, InFlight
  <2>2. FromServer(Head(toClient))
    BY <2>1 DEF LapInv, InFlight
  <2>3. CASE Head(toClient).num = Htonl(FileBytes)
    BY <1>1, <2>3, LapNumbers, ShortLength
  <2>4. CASE Head(toClient).blk \in 1..packetsInMem /\ Head(toClient).num = Head(toClient).blk
    <3>1. Head(toClient).num \in 1..NumMod
      BY <1>3, <2>4
    <3> QED BY <1>1, <3>1, WrongLength
  <2> QED BY <2>2, <2>3, <2>4 DEF FromServer
<1>9. WindowOfLap'
  <2>1. PacketsExpected' = PacketsIn(totalBytes')
    BY DEF PacketsExpected, PacketsIn, BlockSize
  <2>2. PacketsExpected' = Total \/ PacketsExpected' > NumMod
    BY <1>8, <2>1 DEF Total
  <2>3. cliSeq' = NumAfter(0, WindowSize)
    BY <1>1, <1>2
  <2>4. 0 + WindowSize <= NumMod => cliSeq' = 0 + WindowSize
    BY <1>3, <2>3, NextNumbers
  <2> QED BY <1>1, <1>2, <1>6, <1>7, <2>2, <2>4 DEF LapInv, WindowOfLap
<1>10. BufferOfLap'
  BY <1>1 DEF LapInv, BufferOfLap, Buffered
<1>11. FileOfLap'
  <2>1. totalBytes \in Nat /\ 1000 * Len(file) = 0
    BY <1>2 DEF LapInv, FileOfLap
  <2>2. bytesWritten = 0
    BY <2>1 DEF LapInv, FileOfLap
  <2>3. Len(file') = 0 /\ 1000 * Len(file') = 0 /\ Len(file') # Total /\ totalBytes' >= 0
    BY <1>2, <1>3, <1>8
  <2> QED BY <1>1, <1>2, <1>8, <2>2, <2>3 DEF LapInv, FileOfLap, FilePrefix, AckedWritten
<1> QED BY <1>4, <1>9, <1>10, <1>11, ClientLeavesServer DEF LapInv

(* A packet that waits for its turn: one that is in front of the window is  *)
(* the next block; the number of any other block in flight is in the window *)
(* or is written.                                                           *)
LEMMA PacketOfLap ==
  ASSUME ShortFile, LapInv, cliState = "receiving", toClient # <<>>
  PROVE  /\ Head(toClient) \in Datagram
         /\ cliWindow[1] = Len(file) + 1
         /\ InOrder(Head(toClient)) <=> Head(toClient).num = Len(file) + 1
         /\ \/ Head(toClient).num = Htonl(FileBytes) /\ Head(toClient).num > NumMod
            \/ Head(toClient).blk \in 1..packetsInMem /\ Head(toClient).num = Head(toClient).blk
<1>1. /\ packetsInMem \in Nat /\ Len(file) \in Nat /\ Total \in Nat /\ NumMod \in Nat
      /\ Len(file) <= packetsInMem /\ packetsInMem <= Total /\ Total < NumMod /\ NumMod < 128
      /\ WindowSize \in Nat \ {0}
  BY LapTypes
<1>2. Head(toClient) = toClient[1] /\ 1 \in 1..Len(toClient) /\ Head(toClient) \in Datagram
  BY DEF LapInv, InFlight
<1>3. FromServer(Head(toClient))
  BY <1>2 DEF LapInv, InFlight
<1>4. cliWindow[1] = Len(file) + 1
  BY <1>1 DEF LapInv, WindowOfLap
<1>5. Htonl(FileBytes) > NumMod
  BY <1>1, LapNumbers
<1> QED BY <1>2, <1>3, <1>4, <1>5 DEF FromServer, InOrder

(* Any packet but the next is acknowledged, and held back or known. *)
LEMMA LapRecvOutOfOrder ==
  ASSUME ShortFile, LapInv, RecvOutOfOrder, UNCHANGED srvVars
  PROVE  LapInv'
<1> DEFINE pkt == Head(toClient)
<1>1. /\ cliState = "receiving" /\ toClient # <<>> /\ toClient' = Tail(toClient)
      /\ ~InOrder(pkt)
      /\ toServer' = Put(toServer, <<[num |-> Htonl(pkt.num), blk |-> pkt.blk]>>)
      /\ cliOutOfOrder' = IF InWindow(pkt.num)
                          THEN [cliOutOfOrder EXCEPT ![pkt.num] = pkt.blk]
                          ELSE cliOutOfOrder
      /\ UNCHANGED <<cliState, cliWindow, cliSeq, totalBytes, packetCounter,
                     bytesWritten, file, packetsInMem, ackCounter>>
  BY DEF RecvOutOfOrder, srvVars
<1>2. /\ packetsInMem \in Nat /\ Len(file) \in Nat /\ Total \in Nat /\ NumMod \in Nat
      /\ Len(file) <= packetsInMem /\ packetsInMem <= Total /\ Total < NumMod /\ NumMod < 128
      /\ WindowSize \in Nat \ {0} /\ ackCounter \in Nat
      /\ ackCounter <= Len(file) /\ packetsInMem <= ackCounter + WindowSize
  BY LapTypes
<1>3. pkt \in Datagram /\ pkt.num # Len(file) + 1 /\ pkt.num \in Int /\ pkt.blk \in Int
  BY <1>1, PacketOfLap, DatagramFields
<1>4. \/ pkt.num = Htonl(FileBytes) /\ pkt.num > NumMod
      \/ pkt.blk \in 1..packetsInMem /\ pkt.num = pkt.blk
  BY <1>1, PacketOfLap
<1> HIDE DEF pkt
<1>5. cliOutOfOrder \in [1..NumMod -> Int]
  BY DEF LapInv, BufferOfLap
<1>6. /\ cliOutOfOrder' \in [1..NumMod -> Int]
      /\ \A s \in 1..NumMod : \/ cliOutOfOrder'[s] = cliOutOfOrder[s]
                              \/ s = pkt.num /\ pkt.blk = s /\ s <= packetsInMem /\ cliOutOfOrder'[s] = s
  <2>1. CASE pkt.num \in 1..NumMod
    <3>1. pkt.num = pkt.blk /\ pkt.blk <= packetsInMem
      BY <1>2, <1>4, <2>1
    <3> QED BY <1>1, <1>3, <1>5, <2>1, <3>1
  <2>2. CASE pkt.num \notin 1..NumMod
    <3>1. cliOutOfOrder' = cliOutOfOrder
      BY <1>1, <1>5, <2>2
    <3> QED BY <1>5, <3>1
  <2> QED BY <2>1, <2>2
<1>7. \A b \in 1..packetsInMem : Has(b) => Has(b)'
  BY <1>1, <1>2, <1>6 DEF Has
<1>8. PICK num \in Int, ack \in Datagram :
        /\ num = pkt.num /\ ack.num = Htonl(num) /\ toServer' = Put(toServer, <<ack>>)
  <2> DEFINE a == [num |-> Htonl(pkt.num), blk |-> pkt.blk]
  <2>1. a \in Datagram /\ a.num = Htonl(pkt.num)
    BY <1>3, ByteSwapInt DEF Datagram
  <2>2. toServer' = Put(toServer, <<a>>)
    BY <1>1
  <2> HIDE DEF a
  <2> QED BY <1>3, <2>1, <2>2
<1>9. ASSUME pkt.blk \in 1..packetsInMem, num = pkt.blk PROVE Has(num)'
  <2>1. CASE num <= Len(file)
    BY <1>1, <2>1 DEF Has
  <2>2. CASE ~(num <= Len(file))
    <3> DEFINE j == num - Len(file)
    <3>1. j \in 1..WindowSize /\ Len(file) + j = num /\ num <= NumMod
          /\ num \in 1..NumMod
      BY <1>2, <1>9, <2>2
    <3> HIDE DEF j
    <3>2. cliWindow[j] = num
      BY <1>1, <3>1 DEF LapInv, WindowOfLap
    <3>3. InWindow(num)
      BY <3>1, <3>2 DEF InWindow
    <3>4. cliOutOfOrder'[num] = num
      BY <1>1, <1>5, <1>8, <1>9, <3>1, <3>3
    <3> QED BY <3>4 DEF Has
  <2> QED BY <2>1, <2>2
<1>10. InFlight'
  <2> DEFINE msgs == <<ack>>
  <2>1. msgs \in Seq(Datagram) /\ \A p \in 1..Len(msgs) : msgs[p] = ack
    OBVIOUS
  <2>2. toServer' = Put(toServer, msgs)
    BY <1>8
  <2>3. FromClient(ack)'
    <3>1. CASE num = Htonl(FileBytes)
      <4>1. ack.num = FileBytes
        BY <1>8, <3>1, LapNumbers
      <4> QED BY <4>1 DEF FromClient
    <3>2. CASE pkt.blk \in 1..packetsInMem /\ pkt.num = pkt.blk
      <4>1. num \in 1..packetsInMem'
        BY <1>1, <1>8, <3>2
      <4>2. Has(num)'
        BY <1>8, <1>9, <3>2
      <4> QED BY <1>8, <4>1, <4>2 DEF FromClient
    <3> QED BY <1>4, <1>8, <3>1, <3>2
  <2> HIDE DEF msgs
  <2>4. \A p \in 1..Len(msgs) : FromClient(msgs[p])'
    BY <2>1, <2>3
  <2> QED BY <1>1, <1>7, <2>1, <2>2, <2>4, ClientSendsOfLap
<1>11. BufferOfLap'
  <2>1. \A s \in 1..NumMod : Buffered(s)' => cliOutOfOrder'[s] = s /\ s <= packetsInMem'
    BY <1>1, <1>6 DEF LapInv, BufferOfLap, Buffered
  <2>2. ASSUME Len(file') < Total PROVE ~Buffered(Len(file) + 1)'
    <3>1. Len(file) + 1 \in 1..NumMod /\ Len(file) < Total /\ file' = file
      BY <1>1, <1>2, <2>2
    <3>2. cliOutOfOrder'[Len(file) + 1] = cliOutOfOrder[Len(file) + 1]
      BY <1>3, <1>6, <3>1
    <3> QED BY <3>1, <3>2 DEF LapInv, BufferOfLap, Buffered
  <2> QED BY <1>6, <2>1, <2>2 DEF BufferOfLap
<1>12. WindowOfLap' /\ FileOfLap'
  BY <1>1 DEF LapInv, WindowOfLap, FileOfLap, FilePrefix, AckedWritten, PacketsExpected
<1> QED BY <1>10, <1>11, <1>12, ClientLeavesServer DEF LapInv

(* What is delivered are the next blocks of the file: what is held back ends *)
(* before the last number, where the window wraps around.                    *)
LEMMA NextBlocks ==
  ASSUME ShortFile, LapInv, cliState = "receiving", toClient # <<>>,
         InOrder(Head(toClient)), NEW n \in 1..WindowSize, Deliverable(n)
  PROVE  /\ Len(file) + n <= packetsInMem
         /\ \A j \in 1..n : /\ cliWindow[j] = Len(file) + j
                           /\ BlockAt(Head(toClient), j) = Len(file) + j
<1>1. /\ packetsInMem \in Nat /\ Len(file) \in Nat /\ Total \in Nat /\ NumMod \in Nat
      /\ packetsInMem <= Total /\ Total < NumMod /\ WindowSize \in Nat \ {0}
      /\ Len(file) <= packetsInMem
  BY LapTypes
<1>2. Head(toClient).blk = Len(file) + 1 /\ Len(file) + 1 <= packetsInMem
      /\ cliWindow[1] = Len(file) + 1
  <2>1. Head(toClient).num = Len(file) + 1 /\ cliWindow[1] = Len(file) + 1
    BY PacketOfLap
  <2>2. ~(Head(toClient).num > NumMod)
    BY <1>1, <2>1
  <2>3. Head(toClient).blk \in 1..packetsInMem /\ Head(toClient).num = Head(toClient).blk
    BY <2>2, PacketOfLap
  <2> QED BY <2>1, <2>3
<1>3. ASSUME NEW j \in 2..n, Len(file) + j <= NumMod
      PROVE  /\ cliWindow[j] = Len(file) + j /\ cliOutOfOrder[Len(file) + j] = Len(file) + j
             /\ Len(file) + j <= packetsInMem
  <2>1. cliWindow[j] = Len(file) + j /\ Len(file) + j \in 1..NumMod
    BY <1>1, <1>3 DEF LapInv, WindowOfLap
  <2>2. Buffered(Len(file) + j)
    BY <2>1 DEF Deliverable
  <2> QED BY <2>1, <2>2 DEF LapInv, BufferOfLap
<1>4. Len(file) + n < NumMod
  <2>1. SUFFICES ASSUME ~(Len(file) + n < NumMod) PROVE FALSE
    OBVIOUS
  <2> DEFINE j == NumMod - Len(file)
  <2>2. j \in 2..n /\ Len(file) + j = NumMod
    BY <1>1, <1>2, <2>1
  <2> HIDE DEF j
  <2>3. Len(file) + j <= packetsInMem
    BY <1>1, <1>3, <2>2
  <2> QED BY <1>1, <2>2, <2>3
<1>5. ASSUME NEW j \in 1..n
      PROVE  /\ cliWindow[j] = Len(file) + j /\ BlockAt(Head(toClient), j) = Len(file) + j
             /\ Len(file) + j <= packetsInMem
  <2>1. CASE j = 1
    BY <1>2, <2>1 DEF BlockAt
  <2>2. CASE j # 1
    <3>1. j \in 2..n /\ Len(file) + j <= NumMod
      BY <1>1, <1>4, <2>2
    <3> QED BY <1>3, <2>2, <3>1 DEF BlockAt
  <2> QED BY <2>1, <2>2
<1>6. n \in 1..n
  BY <1>1
<1> QED BY <1>5, <1>6

(* The block behind those delivered is not held back, or there is none. *)
LEMMA NextNotHeld ==
  ASSUME ShortFile, LapInv, cliState = "receiving", NEW n \in 1..WindowSize, Deliverable(n),
         Len(file) + n <= packetsInMem, Len(file) + n < Total
  PROVE  /\ ~Buffered(Len(file) + n + 1)
         /\ Len(file) + n # PacketsExpected
<1>1. /\ packetsInMem \in Nat /\ Len(file) \in Nat /\ Total \in Nat /\ NumMod \in Nat
      /\ packetsInMem <= Total /\ Total < NumMod /\ WindowSize \in Nat \ {0}
      /\ ackCounter \in Nat /\ ackCounter <= Len(file) /\ packetsInMem <= ackCounter + WindowSize
      /\ packetCounter = Len(file)
  BY LapTypes DEF LapInv, WindowOfLap
<1>2. PacketsExpected = Total \/ PacketsExpected > NumMod
  BY DEF LapInv, WindowOfLap
<1>3. Len(file) + n # PacketsExpected
  <2>1. CASE PacketsExpected = Total
    BY <2>1
  <2>2. CASE PacketsExpected > NumMod
    <3>1. Len(file) + n <= NumMod
      BY <1>1
    <3> QED BY <1>1, <2>2, <3>1
  <2> QED BY <1>2, <2>1, <2>2
<1>4. Len(file) + n + 1 \in 1..NumMod
  BY <1>1
<1>5. CASE n < WindowSize
  <2>1. ~Buffered(cliWindow[n + 1])
    BY <1>1, <1>3, <1>5 DEF Deliverable
  <2>2. n + 1 \in 1..WindowSize /\ Len(file) + (n + 1) <= NumMod
        /\ Len(file) + (n + 1) = Len(file) + n + 1
    BY <1>1, <1>4, <1>5
  <2>3. cliWindow[n + 1] = Len(file) + (n + 1)
    BY <2>2 DEF LapInv, WindowOfLap
  <2> QED BY <1>3, <2>1, <2>2, <2>3
<1>6. CASE n = WindowSize
  <2>1. ~(Len(file) + n + 1 <= packetsInMem)
    BY <1>1, <1>6
  <2> QED BY <1>3, <1>4, <2>1 DEF LapInv, BufferOfLap
<1> QED BY <1>1, <1>5, <1>6

(* The window moves by n. *)
LEMMA WindowOfLapMoves ==
  ASSUME ShortFile, LapInv, cliState = "receiving", NEW n \in 1..WindowSize,
         NEW win, win = SubSeq(cliWindow, n + 1, WindowSize)
                          \o [j \in 1..n |-> NumAfter(cliSeq, j)]
  PROVE  /\ win \in Seq(Int) /\ Len(win) = WindowSize /\ NumAfter(cliSeq, n) \in Int
         /\ \A j \in 1..WindowSize :
              Len(file) + n + j <= NumMod => win[j] = Len(file) + n + j
         /\ Len(file) + n + WindowSize <= NumMod =>
              NumAfter(cliSeq, n) = Len(file) + n + WindowSize
<1> DEFINE L == Len(file)
           W == WindowSize
           old == SubSeq(cliWindow, n + 1, W)
           new == [j \in 1..n |-> NumAfter(cliSeq, j)]
<1>1. /\ L \in Nat /\ W \in Nat \ {0} /\ NumMod \in Nat \ {0} /\ n \in Nat /\ n >= 1 /\ n <= W
      /\ cliSeq \in Int
  BY LapTypes, Assumptions DEF LapInv, WindowOfLap
<1>2. /\ cliWindow \in Seq(Int) /\ Len(cliWindow) = W
      /\ \A j \in 1..W : L + j <= NumMod => cliWindow[j] = L + j
      /\ L + W <= NumMod => cliSeq = L + W
  BY DEF LapInv, WindowOfLap
<1>3. \A j \in Int : NumAfter(cliSeq, j) \in Int
  BY <1>1, DivMod DEF NumAfter
<1> HIDE DEF L, W
<1>4. ASSUME NEW j \in 1..n, L + W + j <= NumMod
      PROVE  NumAfter(cliSeq, j) = L + W + j
  <2>1. cliSeq = L + W /\ j \in Int /\ 1 <= cliSeq + j /\ cliSeq + j <= NumMod
    BY <1>1, <1>2, <1>4
  <2>2. NumAfter(cliSeq, j) = cliSeq + j
    BY <1>1, <2>1, NextNumbers
  <2> QED BY <2>1, <2>2
<1>5. new \in Seq(Int) /\ Len(new) = n /\ \A j \in 1..n : new[j] = NumAfter(cliSeq, j)
  BY <1>1, <1>3
<1>6. old \in Seq(Int) /\ Len(old) = W - n /\ \A j \in 1..(W - n) : old[j] = cliWindow[n + j]
  BY <1>1, <1>2
<1>7. win = old \o new
  BY DEF W
<1> HIDE DEF old, new
<1>8. /\ win \in Seq(Int) /\ Len(win) = Len(old) + Len(new)
      /\ \A i \in 1..(Len(old) + Len(new)) :
           win[i] = IF i <= Len(old) THEN old[i] ELSE new[i - Len(old)]
  <2>1. old \in Seq(Int) /\ new \in Seq(Int)
    BY <1>5, <1>6
  <2>2. /\ old \o new \in Seq(Int) /\ Len(old \o new) = Len(old) + Len(new)
        /\ \A i \in 1..(Len(old) + Len(new)) :
             (old \o new)[i] = IF i <= Len(old) THEN old[i] ELSE new[i - Len(old)]
    BY <2>1, Concatenation, Zenon
  <2> QED BY <1>7, <2>2, Zenon
<1>9. /\ Len(win) = W
      /\ \A i \in 1..(W - n) : win[i] = cliWindow[n + i]
      /\ \A k \in 1..n : win[W - n + k] = NumAfter(cliSeq, k)
  <2>1. Len(win) = W
    BY <1>1, <1>5, <1>6, <1>8
  <2>2. ASSUME NEW i \in 1..(W - n) PROVE win[i] = cliWindow[n + i]
    <3>1. i \in 1..(Len(old) + Len(new)) /\ i <= Len(old)
      BY <1>1, <1>5, <1>6
    <3> QED BY <1>6, <1>8, <3>1
  <2>3. ASSUME NEW k \in 1..n PROVE win[W - n + k] = NumAfter(cliSeq, k)
    <3> DEFINE i == W - n + k
    <3>1. i \in 1..(Len(old) + Len(new)) /\ ~(i <= Len(old)) /\ i - Len(old) = k
      BY <1>1, <1>5, <1>6
    <3> HIDE DEF i
    <3>2. win[i] = new[k]
      BY <1>8, <3>1
    <3> QED BY <1>5, <3>2 DEF i
  <2> QED BY <2>1, <2>2, <2>3
<1>10. ASSUME NEW j \in 1..W, L + n + j <= NumMod PROVE win[j] = L + n + j
  <2>1. CASE j <= W - n
    <3> DEFINE k == n + j
    <3>1. j \in 1..(W - n) /\ k \in 1..W /\ L + k <= NumMod /\ L + k = L + n + j
      BY <1>1, <1>10, <2>1
    <3>2. win[j] = cliWindow[k]
      BY <1>9, <3>1
    <3> HIDE DEF k
    <3> QED BY <1>2, <3>1, <3>2
  <2>2. CASE ~(j <= W - n)
    <3> DEFINE k == j - (W - n)
    <3>1. k \in 1..n /\ L + W + k = L + n + j /\ L + W + k <= NumMod /\ W - n + k = j
      BY <1>1, <1>10, <2>2
    <3> HIDE DEF k
    <3>2. win[j] = NumAfter(cliSeq, k)
      BY <1>9, <3>1
    <3> QED BY <1>4, <3>1, <3>2
  <2> QED BY <2>1, <2>2
<1>11. L + n + W <= NumMod => NumAfter(cliSeq, n) = L + n + W
  <2>1. n \in 1..n /\ L + W + n = L + n + W
    BY <1>1
  <2> QED BY <1>4, <2>1
<1>12. win \in Seq(Int) /\ Len(win) = W /\ NumAfter(cliSeq, n) \in Int
  BY <1>1, <1>3, <1>8, <1>9
<1> QED BY <1>10, <1>11, <1>12 DEF L, W

(* The acknowledgements of the blocks delivered, and the copies of the last. *)
LEMMA AcksOfBlocks ==
  ASSUME NEW pkt \in Datagram, NEW n \in Nat \ {0}, NEW first \in Nat,
         \A j \in 1..n : cliWindow[j] = first + j /\ BlockAt(pkt, j) = first + j
  PROVE  /\ AcksFor(pkt, n) \in Seq(Datagram)
         /\ \A i \in 1..Len(AcksFor(pkt, n)) : \E j \in 1..n :
              AcksFor(pkt, n)[i].num = Htonl(first + j)
<1> DEFINE ack == [j \in 1..n |-> [num |-> Htonl(cliWindow[j]), blk |-> BlockAt(pkt, j)]]
           copies == [i \in 1..FinalAcks |-> ack[n]]
<1>1. FinalAcks \in Nat /\ n \in 1..n
  BY RudpClientAssumption
<1>2. ASSUME NEW j \in 1..n PROVE ack[j] \in Datagram /\ ack[j].num = Htonl(first + j)
  <2>1. first + j \in Int
    OBVIOUS
  <2> QED BY <2>1, ByteSwapInt DEF Datagram
<1>3. ack \in Seq(Datagram) /\ Len(ack) = n
  BY <1>2
<1> HIDE DEF ack
<1>4. copies \in Seq(Datagram) /\ Len(copies) = FinalAcks /\ \A i \in 1..FinalAcks : copies[i] = ack[n]
  BY <1>1, <1>2
<1>5. AcksFor(pkt, n) = IF packetCounter + n = PacketsExpected THEN ack \o copies ELSE ack
  BY DEF AcksFor, ack
<1> HIDE DEF copies
<1> DEFINE all == ack \o copies
<1>6. /\ all \in Seq(Datagram) /\ Len(all) = Len(ack) + Len(copies)
      /\ \A i \in 1..(Len(ack) + Len(copies)) :
           all[i] = IF i <= Len(ack) THEN ack[i] ELSE copies[i - Len(ack)]
  BY <1>3, <1>4, Concatenation, Zenon
<1> HIDE DEF all
<1>7. \A i \in 1..Len(all) : \E j \in 1..n : all[i] = ack[j]
  <2> TAKE i \in 1..Len(all)
  <2>1. CASE i <= n
    BY <1>3, <1>4, <1>6, <2>1
  <2>2. CASE ~(i <= n)
    <3>1. all[i] = copies[i - n] /\ i - n \in 1..FinalAcks
      BY <1>1, <1>3, <1>4, <1>6, <2>2
    <3> QED BY <1>1, <1>4, <3>1
  <2> QED BY <2>1, <2>2
<1>8. CASE AcksFor(pkt, n) = ack
  BY <1>2, <1>3, <1>8
<1>9. CASE AcksFor(pkt, n) = all
  BY <1>2, <1>6, <1>7, <1>9
<1> QED BY <1>5, <1>8, <1>9 DEF all

(* The length counts every block, and what is not a whole block at its end. *)
LEMMA BytesOfBlocks ==
  ASSUME NEW t \in Nat, NEW L \in Nat, NEW n \in Nat \ {0}, NEW w \in Nat,
         w = IF t >= 1000 * L THEN 1000 * L ELSE t
  PROVE  (IF t - w >= 1000 * n THEN w + 1000 * n ELSE t)
           = IF t >= 1000 * (L + n) THEN 1000 * (L + n) ELSE t
<1>1. 1000 * (L + n) = 1000 * L + 1000 * n /\ 1000 * n >= 1000
  OBVIOUS
<1>2. CASE t >= 1000 * L
  BY <1>1, <1>2
<1>3. CASE ~(t >= 1000 * L)
  BY <1>1, <1>3
<1> QED BY <1>2, <1>3

(* The next packet: it and those held back behind it are written. *)
LEMMA LapRecvInOrder ==
  ASSUME ShortFile, LapInv, RecvInOrder, UNCHANGED srvVars
  PROVE  LapInv'
<1> DEFINE L == Len(file)
<1>1. /\ cliState = "receiving" /\ toClient # <<>> /\ toClient' = Tail(toClient)
      /\ InOrder(Head(toClient)) /\ totalBytes' = totalBytes
      /\ UNCHANGED <<packetsInMem, ackCounter>>
  BY DEF RecvInOrder, srvVars
<1>2. PICK n \in 1..WindowSize : Deliverable(n) /\ Deliver(Head(toClient), n)
  BY DEF RecvInOrder
<1>3. /\ packetsInMem \in Nat /\ L \in Nat /\ Total \in Nat /\ NumMod \in Nat
      /\ L <= packetsInMem /\ packetsInMem <= Total /\ Total < NumMod /\ NumMod < 128
      /\ WindowSize \in Nat \ {0} /\ ackCounter \in Nat /\ ackCounter <= L
      /\ n \in Nat \ {0} /\ packetCounter = L
  BY LapTypes DEF LapInv, WindowOfLap
<1>4. /\ L + n <= packetsInMem
      /\ \A j \in 1..n : cliWindow[j] = L + j /\ BlockAt(Head(toClient), j) = L + j
  BY <1>1, <1>2, NextBlocks
<1>5. L + n < Total => ~Buffered(L + n + 1) /\ L + n # PacketsExpected
  BY <1>1, <1>2, <1>4, NextNotHeld
<1>6. Head(toClient) \in Datagram
  BY <1>1, PacketOfLap
<1>7. /\ file' = file \o [j \in 1..n |-> BlockAt(Head(toClient), j)]
      /\ bytesWritten' = WriteBytes(n)
      /\ toServer' = Put(toServer, AcksFor(Head(toClient), n))
      /\ packetCounter' = L + n
      /\ cliState' = IF L + n = PacketsExpected THEN "exited" ELSE "receiving"
      /\ cliWindow' = SubSeq(cliWindow, n + 1, WindowSize)
                        \o [j \in 1..n |-> NumAfter(cliSeq, j)]
      /\ cliSeq' = NumAfter(cliSeq, n)
      /\ cliOutOfOrder' = EraseDelivered(n)
      /\ PacketsExpected' = PacketsExpected
  <2>1. packetCounter' = packetCounter + n /\ PacketsExpected' = PacketsExpected
    BY <1>1, <1>2 DEF Deliver, PacketsExpected
  <2> QED BY <1>1, <1>2, <1>3, <2>1 DEF Deliver
<1> HIDE DEF L
<1>8. file' \in Seq(Int) /\ Len(file') = L + n /\ \A i \in 1..(L + n) : file'[i] = i
  <2> DEFINE more == [j \in 1..n |-> L + j]
  <2>1. file' = file \o more
    BY <1>4, <1>7
  <2>2. more \in Seq(Int) /\ Len(more) = n /\ \A j \in 1..n : more[j] = L + j
    BY <1>3
  <2>3. file \in Seq(Int) /\ Len(file) = L /\ \A i \in 1..L : file[i] = i
    BY DEF LapInv, FileOfLap, FilePrefix, L
  <2> HIDE DEF more
  <2>4. /\ file \o more \in Seq(Int) /\ Len(file \o more) = Len(file) + Len(more)
        /\ \A i \in 1..(Len(file) + Len(more)) :
             (file \o more)[i] = IF i <= Len(file) THEN file[i] ELSE more[i - Len(file)]
    <3>1. file \in Seq(Int) /\ more \in Seq(Int)
      BY <2>2, <2>3
    <3> QED BY <3>1, Concatenation, Zenon
  <2>5. /\ file' \in Seq(Int) /\ Len(file') = L + n
        /\ \A i \in 1..(L + n) : file'[i] = IF i <= L THEN file[i] ELSE more[i - L]
    BY <2>1, <2>2, <2>3, <2>4
  <2>6. ASSUME NEW i \in 1..(L + n) PROVE file'[i] = i
    <3>1. CASE i <= L
      BY <1>3, <2>3, <2>5, <3>1
    <3>2. CASE ~(i <= L)
      <4>1. i - L \in 1..n /\ L + (i - L) = i
        BY <1>3, <3>2
      <4> QED BY <2>2, <2>5, <3>2, <4>1
    <3> QED BY <3>1, <3>2
  <2> QED BY <2>5, <2>6
<1>9. /\ cliOutOfOrder' \in [1..NumMod -> Int]
      /\ \A s \in 1..NumMod : \/ cliOutOfOrder'[s] = cliOutOfOrder[s]
                              \/ s <= L + n /\ cliOutOfOrder'[s] = NotBuffered
  <2>1. cliOutOfOrder \in [1..NumMod -> Int] /\ NotBuffered \in Int
    BY DEF LapInv, BufferOfLap, NotBuffered
  <2>2. \A s \in 1..NumMod : cliOutOfOrder'[s] = IF \E j \in 2..n : cliWindow[j] = s
                                               THEN NotBuffered ELSE cliOutOfOrder[s]
    BY <1>7 DEF EraseDelivered
  <2>3. \A j \in 2..n : cliWindow[j] <= L + n
    BY <1>3, <1>4
  <2>4. cliOutOfOrder' \in [1..NumMod -> Int]
    BY <1>7, <2>1 DEF EraseDelivered
  <2> QED BY <2>2, <2>3, <2>4
<1>10. \A b \in 1..packetsInMem : Has(b) => Has(b)'
  <2> TAKE b \in 1..packetsInMem
  <2>1. CASE b <= L
    BY <1>3, <1>8, <2>1 DEF Has
  <2>2. CASE cliOutOfOrder[b] = b
    <3>1. b \in 1..NumMod
      BY <1>3
    <3> QED BY <1>8, <1>9, <2>2, <3>1 DEF Has
  <2> QED BY <2>1, <2>2 DEF Has, L
<1>11. InFlight'
  <2>1. PICK msgs \in Seq(Datagram) :
          /\ toServer' = Put(toServer, msgs)
          /\ \A p \in 1..Len(msgs) : \E j \in 1..n : msgs[p].num = Htonl(L + j)
    BY <1>3, <1>4, <1>6, <1>7, AcksOfBlocks
  <2>2. ASSUME NEW p \in 1..Len(msgs) PROVE FromClient(msgs[p])'
    <3>1. PICK j \in 1..n : msgs[p].num = Htonl(L + j)
      BY <2>1
    <3>2. L + j \in 1..packetsInMem' /\ L + j <= Len(file')
      BY <1>1, <1>3, <1>4, <1>8
    <3> QED BY <3>1, <3>2 DEF FromClient, Has
  <2> QED BY <1>1, <1>10, <2>1, <2>2, ClientSendsOfLap
<1>12. WindowOfLap'
  <2>1. PICK win :
          win = SubSeq(cliWindow, n + 1, WindowSize) \o [j \in 1..n |-> NumAfter(cliSeq, j)]
    OBVIOUS
  <2>2. /\ win \in Seq(Int) /\ Len(win) = WindowSize /\ NumAfter(cliSeq, n) \in Int
        /\ \A j \in 1..WindowSize : L + n + j <= NumMod => win[j] = L + n + j
        /\ L + n + WindowSize <= NumMod => NumAfter(cliSeq, n) = L + n + WindowSize
    BY <1>1, <2>1, WindowOfLapMoves DEF L
  <2>3. cliWindow' = win /\ cliSeq' = NumAfter(cliSeq, n)
    BY <1>7, <2>1
  <2>4. cliState' \in {"exited", "receiving"} /\ packetCounter' = Len(file')
    BY <1>7, <1>8
  <2>5. (PacketsExpected = Total \/ PacketsExpected > NumMod)'
    BY <1>1, <1>7 DEF LapInv, WindowOfLap
  <2> QED BY <1>8, <2>2, <2>3, <2>4, <2>5 DEF WindowOfLap
<1>13. BufferOfLap'
  <2>1. \A s \in 1..NumMod : Buffered(s)' => cliOutOfOrder'[s] = s /\ s <= packetsInMem'
    BY <1>1, <1>9 DEF LapInv, BufferOfLap, Buffered
  <2>2. ASSUME Len(file') < Total PROVE ~Buffered(Len(file) + 1)'
    <3>1. L + n < Total /\ L + n + 1 \in 1..NumMod /\ ~(L + n + 1 <= L + n)
      BY <1>3, <1>8, <2>2
    <3>2. cliOutOfOrder'[L + n + 1] = cliOutOfOrder[L + n + 1]
      BY <1>9, <3>1
    <3>3. cliOutOfOrder[L + n + 1] = NotBuffered
      BY <1>5, <3>1 DEF Buffered
    <3>4. Len(file') + 1 = L + n + 1
      BY <1>8
    <3> QED BY <3>2, <3>3, <3>4 DEF Buffered
  <2> QED BY <1>9, <2>1, <2>2 DEF BufferOfLap
<1>14. FileOfLap'
  <2>1. FilePrefix'
    BY <1>8 DEF FilePrefix
  <2>2. AckedWritten' /\ Len(file') <= packetsInMem'
    BY <1>1, <1>3, <1>4, <1>8 DEF AckedWritten
  <2>3. totalBytes' = FileBytes /\ Len(file') = Total => cliState' = "exited"
    <3>1. totalBytes = FileBytes => PacketsExpected = Total
      BY ExpectedOfLength DEF Total
    <3> QED BY <1>1, <1>7, <1>8, <3>1
  <2>4. /\ bytesWritten' \in Nat
        /\ bytesWritten' = IF totalBytes' >= 1000 * Len(file') THEN 1000 * Len(file') ELSE totalBytes'
    <3>1. /\ totalBytes \in Nat /\ bytesWritten \in Nat
          /\ bytesWritten = IF totalBytes >= 1000 * L THEN 1000 * L ELSE totalBytes
      BY DEF LapInv, FileOfLap, L
    <3>2. bytesWritten' = IF totalBytes - bytesWritten >= 1000 * n
                          THEN bytesWritten + 1000 * n ELSE totalBytes
      BY <1>7 DEF WriteBytes
    <3>3. bytesWritten' = IF totalBytes >= 1000 * (L + n) THEN 1000 * (L + n) ELSE totalBytes
      BY <1>3, <3>1, <3>2, BytesOfBlocks
    <3>4. 1000 * (L + n) \in Nat
      BY <1>3
    <3> QED BY <1>1, <1>8, <3>1, <3>3, <3>4
  <2>5. totalBytes' \in Nat
    BY <1>1 DEF LapInv, FileOfLap
  <2> QED BY <1>8, <2>1, <2>2, <2>3, <2>4, <2>5 DEF FileOfLap
<1> QED BY <1>11, <1>12, <1>13, <1>14, ClientLeavesServer DEF LapInv

(* The queue is never popped when it is empty. *)
LEMMA NotUndefined == ASSUME LapInv PROVE ~GoOnUndefined
BY DEF LapInv, BlocksInQueue, NoEmptyPop, GoOnUndefined

(* The invariant is inductive. *)
LEMMA LapKept == ASSUME ShortFile PROVE LapInv /\ [Next]_vars => LapInv'
<1> SUFFICES ASSUME LapInv, [Next]_vars PROVE LapInv'
  OBVIOUS
<1>1. ResendInv'
  BY LapTypes, ResendKept DEF LapInv
<1>2. CASE SrvNext /\ UNCHANGED cliVars
  BY <1>1, <1>2, LapRecvName, LapFillWindow, LapRecvAck, LapTimeout, NotUndefined DEF SrvNext
<1>3. CASE CliNext /\ UNCHANGED srvVars
  BY <1>3, LapSendName, LapRecvSize, LapRecvInOrder, LapRecvOutOfOrder, LapClientCrash
     DEF CliNext
<1>4. ~Corrupt
  BY DEF ShortFile, Corrupt, Fault
<1>5. CASE (Lose \/ Duplicate \/ Reorder) /\ UNCHANGED <<srvVars, cliVars>>
  BY <1>5, LapNetwork
<1>6. CASE UNCHANGED vars
  <2>1. InFlight'
    BY <1>6 DEF vars, srvVars, cliVars, LapInv, InFlight, FromServer, FromClient, Has
  <2>2. BlocksInQueue' /\ WindowOfLap' /\ BufferOfLap' /\ FileOfLap'
    BY <1>6 DEF NoEmptyPop, LapInv, BlocksInQueue, WindowOfLap, BufferOfLap, FileOfLap, FilePrefix,
       AckedWritten, Buffered, PacketsExpected, vars, srvVars, cliVars
  <2> QED BY <1>1, <2>1, <2>2 DEF LapInv
<1> QED BY <1>2, <1>3, <1>4, <1>5, <1>6 DEF Next

(* It is an invariant of every behaviour. *)
LEMMA LapInvariant == ASSUME ShortFile PROVE Spec => []LapInv
<1>1. Init => LapInv
  BY LapInit
<1>2. LapInv /\ [Next]_vars => LapInv'
  BY LapKept
<1> QED BY <1>1, <1>2, PTL DEF Spec

-----------------------------------------------------------------------------
(* FilePrefix of RudpTransfer: over a path that loses, repeats and reorders, *)
(* recvFile() (client.cpp:58) writes the blocks of a short file in order,    *)
(* also when the length is lost and a packet is read in its place.           *)
THEOREM ShortFilePrefix == ASSUME ShortFile PROVE Spec => []FilePrefix
<1>1. LapInv => FilePrefix
  BY DEF LapInv, FileOfLap
<1> QED BY <1>1, LapInvariant, PTL

(* AckedWritten of RudpTransfer: no block of a short file counts as          *)
(* acknowledged (server.cpp:24) before it is written, whatever overtakes     *)
(* what.                                                                     *)
THEOREM ShortFileAckedWritten == ASSUME ShortFile PROVE Spec => []AckedWritten
<1>1. LapInv => AckedWritten
  BY DEF LapInv, FileOfLap
<1> QED BY <1>1, LapInvariant, PTL

(* NoEmptyPop of RudpTransfer: for a short file checkOutOfOrder() never pops *)
(* the empty queue (server.cpp:118-122), whatever front() reads there and in *)
(* whatever order acknowledgements come.                                     *)
THEOREM ShortNoEmptyPop == ASSUME ShortFile PROVE Spec => []NoEmptyPop
<1>1. LapInv => NoEmptyPop
  BY DEF LapInv, BlocksInQueue
<1> QED BY <1>1, LapInvariant, PTL

(* A server that says the transfer is complete: every block is written. *)
LEMMA CompleteOfLap ==
  ASSUME ShortFile, LapInv, srvState = "complete"
  PROVE  Len(file) = Total
<1>1. ackCounter = Total
  BY DEF LapInv, BlocksInQueue
<1> QED BY <1>1, LapTypes

(* CompleteMeansWhole of RudpTransfer: when main() reports success to a      *)
(* client that was told the right length, that client has exited with the    *)
(* whole of a short file.                                                    *)
THEOREM ShortCompleteMeansWhole == ASSUME ShortFile PROVE Spec => []CompleteMeansWhole
<1>1. LapInv => CompleteMeansWhole
  <2> SUFFICES ASSUME LapInv, srvState = "complete", totalBytes = FileBytes
               PROVE  /\ cliState = "exited"
                      /\ FilePrefix /\ Len(file) = Total /\ bytesWritten = FileBytes
    BY DEF CompleteMeansWhole
  <2>1. Len(file) = Total
    BY CompleteOfLap
  <2>2. cliState = "exited" /\ FilePrefix
    BY <2>1 DEF LapInv, FileOfLap
  <2>3. bytesWritten = IF FileBytes >= 1000 * Total THEN 1000 * Total ELSE FileBytes
    BY <2>1 DEF LapInv, FileOfLap
  <2>4. 1000 * Total >= FileBytes /\ FileBytes \in Int /\ 1000 * Total \in Int
    BY ShortLength, LapTypes
  <2>5. bytesWritten = FileBytes
    BY <2>3, <2>4
  <2> QED BY <2>1, <2>2, <2>5
<1> QED BY <1>1, LapInvariant, PTL

(* A step of recvFile() that writes is a Write of the abstract transfer. *)
LEMMA ShortWriteRefines ==
  ASSUME ShortFile, LapInv, RecvInOrder, UNCHANGED srvVars
  PROVE  Abstract!Write
<1>1. PICK n \in 1..WindowSize : Deliverable(n) /\ Deliver(Head(toClient), n)
  BY DEF RecvInOrder
<1>2. cliState = "receiving" /\ toClient # <<>> /\ InOrder(Head(toClient))
  BY DEF RecvInOrder
<1>3. /\ Len(file) + n <= packetsInMem
      /\ \A j \in 1..n : BlockAt(Head(toClient), j) = Len(file) + j
  BY <1>1, <1>2, NextBlocks
<1>4. file' = file \o [j \in 1..n |-> Len(file) + j]
  BY <1>1, <1>3 DEF Deliver
<1>5. Len(file) + n <= Total
  BY <1>3, LapTypes
<1>6. Verdict' = Verdict
  BY DEF Verdict, srvVars
<1> QED BY <1>1, <1>4, <1>5, <1>6 DEF Abstract!Write

(* The server's verdicts: success when all is written. *)
LEMMA ShortVerdictRefines ==
  ASSUME ShortFile, LapInv, LapInv', SrvNext, UNCHANGED cliVars
  PROVE  [Abstract!FTNext]_<<file, Verdict>>
<1>1. file' = file
  BY DEF cliVars
<1>2. CASE Verdict' = Verdict
  BY <1>1, <1>2
<1>3. CASE RecvName \/ FillWindow
  BY <1>2, <1>3 DEF RecvName, FillWindow, Verdict
<1>4. ASSUME srvState = "sending", srvState' = "gaveUp" PROVE Abstract!GiveUp
  BY <1>1, <1>4 DEF Abstract!GiveUp, Verdict
<1>5. ASSUME srvState = "sending", srvState' = "complete" PROVE Abstract!Succeed
  <2>1. ackCounter' = Total /\ ackCounter' <= Len(file') /\ Len(file') <= packetsInMem'
        /\ packetsInMem' <= Total /\ packetsInMem' \in Nat /\ Len(file') \in Nat
    BY <1>5 DEF LapInv, BlocksInQueue, FileOfLap, AckedWritten, ResendInv, QueueOfOneLap
  <2>2. Len(file) = Total
    BY <1>1, <2>1, LapTypes
  <2>3. Verdict = "none" /\ Verdict' = "complete"
    BY <1>5 DEF Verdict
  <2> QED BY <1>1, <2>2, <2>3 DEF Abstract!Succeed
<1>6. CASE RecvAck \/ Timeout
  <2>1. srvState = "sending" /\ srvState' \in {"sending", "complete", "gaveUp", "undefined"}
    BY <1>6 DEF RecvAck, Receiving, AckOther, AckFront, Timeout
  <2>2. CASE srvState' \in {"sending", "undefined"}
    BY <1>2, <2>1, <2>2 DEF Verdict
  <2> QED BY <1>4, <1>5, <2>1, <2>2 DEF Abstract!FTNext
<1> QED BY <1>3, <1>6, NotUndefined DEF SrvNext

(* ImplementsTransfer of RudpTransfer: with a short file the two programs    *)
(* implement the abstract transfer over a path that loses, repeats and       *)
(* reorders what they send, and when the client dies.                        *)
THEOREM ShortTransferImplemented == ASSUME ShortFile PROVE Spec => ImplementsTransfer
<1>1. Init => Abstract!FTInit
  BY DEF Init, SrvInit, CliInit, Abstract!FTInit, Verdict
<1>2. LapInv /\ LapInv' /\ [Next]_vars => [Abstract!FTNext]_<<file, Verdict>>
  <2> SUFFICES ASSUME LapInv, LapInv', [Next]_vars
               PROVE  [Abstract!FTNext]_<<file, Verdict>>
    OBVIOUS
  <2>1. CASE SrvNext /\ UNCHANGED cliVars
    BY <2>1, ShortVerdictRefines
  <2>2. CASE RecvInOrder /\ UNCHANGED srvVars
    BY <2>2, ShortWriteRefines DEF Abstract!FTNext
  <2>3. ASSUME UNCHANGED <<srvState, file>> PROVE [Abstract!FTNext]_<<file, Verdict>>
    <3>1. Verdict' = Verdict /\ file' = file
      BY <2>3 DEF Verdict
    <3> QED BY <3>1
  <2>4. CASE CliNext /\ UNCHANGED srvVars
    BY <2>2, <2>3, <2>4
       DEF CliNext, SendName, RecvSize, RecvOutOfOrder, ClientCrash, srvVars
  <2>5. CASE (Lose \/ Duplicate \/ Reorder \/ Corrupt) /\ UNCHANGED <<srvVars, cliVars>>
    BY <2>3, <2>5 DEF srvVars, cliVars
  <2>6. CASE UNCHANGED vars
    BY <2>3, <2>6 DEF vars, srvVars, cliVars
  <2> QED BY <2>1, <2>4, <2>5, <2>6 DEF Next
<1> QED BY <1>1, <1>2, LapInvariant, PTL DEF Spec, ImplementsTransfer, Abstract!FTSpec
=============================================================================
