----------------------------- MODULE RudpProofs -----------------------------
(***************************************************************************)
(* Proofs about the file transfer of project2: FifoInv is an inductive     *)
(* invariant of the composition of server, client and order-preserving     *)
(* path, and the properties that follow from it, the refinement of the     *)
(* abstract transfer among them, for every value of the constants.         *)
(***************************************************************************)
EXTENDS RudpFifo, UdpNetworkProofs

-----------------------------------------------------------------------------
(* The remainder of x + n is that of a + n when x is the remainder of a. *)
LEMMA SameRemainder ==
  ASSUME NEW m \in Nat \ {0}, NEW a \in Int, NEW n \in Int, NEW x \in Int,
         NEW p \in Int, NEW q \in Int, NEW r \in Int,
         NEW s \in 0..(m - 1), NEW t \in 0..(m - 1),
         x = a - m * p, s = (x + n) - m * q, t = (a + n) - m * r
  PROVE  s = t
<1>1. m * (p + q) = m * p + m * q
  OBVIOUS
<1>2. m * (p + q) + s = m * r + t
  BY <1>1
<1>3. p + q \in Int
  OBVIOUS
<1> QED BY <1>2, <1>3, DivModUnique

(* Packet numbers are 1..NumMod. *)
LEMMA NumOfType ==
  ASSUME NEW b \in Int
  PROVE  NumOf(b) \in 1..NumMod
<1>1. b - 1 \in Int
  OBVIOUS
<1> QED BY <1>1, ConstantTypes, DivMod DEF NumOf

(* A packet number tells blocks less than NumMod apart from each other. *)
LEMMA NumOfSame ==
  ASSUME NEW a \in Int, NEW b \in Int, NumOf(a) = NumOf(b),
         a - b < NumMod, b - a < NumMod
  PROVE  a = b
<1> DEFINE p == (a - 1) \div NumMod
           q == (b - 1) \div NumMod
           r == (a - 1) % NumMod
           s == (b - 1) % NumMod
<1>1. NumMod \in Nat \ {0} /\ a - 1 \in Int /\ b - 1 \in Int
  BY ConstantTypes
<1>2. p \in Int /\ q \in Int /\ r \in Int /\ s \in Int
  BY <1>1, DivMod
<1>3. r = (a - 1) - NumMod * p /\ s = (b - 1) - NumMod * q
  BY <1>1, DivMod
<1>4. r = s
  BY <1>2 DEF NumOf
<1> HIDE DEF p, q, r, s
<1>5. NumMod * (p - q) = NumMod * p - NumMod * q
  BY <1>1, <1>2
<1>6. a - b = NumMod * (p - q)
  BY <1>1, <1>2, <1>3, <1>4, <1>5
<1>7. p = q
  <2>1. ASSUME p > q PROVE FALSE
    <3>1. NumMod * (p - q) >= NumMod
      BY <2>1, <1>1, <1>2
    <3> QED BY <3>1, <1>6, <1>1
  <2>2. ASSUME p < q PROVE FALSE
    <3>1. NumMod * (p - q) <= -NumMod
      BY <2>2, <1>1, <1>2
    <3> QED BY <3>1, <1>6, <1>1
  <2> QED BY <2>1, <2>2, <1>2
<1> QED BY <1>1, <1>2, <1>3, <1>4, <1>7

(* n calls of nextSeq() after the b-th packet comes the number of the (b+n)-th. *)
LEMMA NumAfterNumOf ==
  ASSUME NEW b \in Int, NEW n \in Int
  PROVE  NumAfter(NumOf(b), n) = NumOf(b + n)
<1> DEFINE a == b - 1
           x == a % NumMod
<1>1. NumMod \in Nat \ {0} /\ a \in Int
  BY ConstantTypes
<1>2. x \in Int /\ x + n \in Int /\ a + n \in Int /\ x + 1 + n - 1 = x + n /\ b + n - 1 = a + n
  BY <1>1, DivMod
<1>3. NumAfter(NumOf(b), n) = ((x + n) % NumMod) + 1 /\ NumOf(b + n) = ((a + n) % NumMod) + 1
  BY <1>2 DEF NumAfter, NumOf
<1> HIDE DEF a
<1> DEFINE p == a \div NumMod
           q == (x + n) \div NumMod
           r == (a + n) \div NumMod
           s == (x + n) % NumMod
           t == (a + n) % NumMod
<1>4. x = a - NumMod * p /\ p \in Int
  BY <1>1, DivMod
<1>5. s = (x + n) - NumMod * q /\ q \in Int /\ s \in 0..(NumMod - 1)
  <2> HIDE DEF x
  <2> QED BY <1>1, <1>2, DivMod
<1>6. t = (a + n) - NumMod * r /\ r \in Int /\ t \in 0..(NumMod - 1)
  BY <1>1, <1>2, DivMod
<1>7. s = t
  <2> HIDE DEF x, p, q, r, s, t
  <2> QED BY <1>1, <1>2, <1>4, <1>5, <1>6, SameRemainder
<1> QED BY <1>3, <1>7

(* The numbers nextSeq() gives from its initial state on. *)
LEMMA NumAfterZero == ASSUME NEW n \in Int PROVE NumAfter(0, n) = NumOf(n)
BY DEF NumAfter, NumOf

-----------------------------------------------------------------------------
(* A converted packet number, and that converting it twice restores it. *)
LEMMA ByteSwapNum ==
  ASSUME NEW s \in 0..NumMod
  PROVE  Htonl(s) = 16777216 * s /\ Ntohl(Htonl(s)) = s
<1>1. s \in 0..127
  BY SMT, ConstantTypes
<1> QED BY SMT, <1>1, SwapByte, FifoAssumption DEF Ntohl, Htonl, FifoAssumption

(* The converted length is no packet number, and ntohl() restores it. *)
LEMMA ByteSwapSize ==
  /\ Ntohl(Htonl(FileBytes)) = FileBytes
  /\ Htonl(FileBytes) \notin 0..NumMod
<1>1. FileBytes \in Int /\ 0 < FileBytes /\ FileBytes < 16777216
  BY SMT, FifoAssumption DEF FifoAssumption
<1> QED BY SMT, <1>1, SwapThreeBytes, ConstantTypes, FifoAssumption DEF Ntohl, Htonl, FifoAssumption

(* The bytes of the file name are no packet number in either byte order. *)
LEMMA NameNoNumber == NameNum \notin 0..NumMod /\ Ntohl(NameNum) \notin 0..NumMod
<1>1. NameNum \in Nat /\ NameNum > 127 /\ NameNum % 256 # 0
  BY RudpClientAssumption DEF RudpClientAssumption
<1> QED BY <1>1, SwapName, ConstantTypes, FifoAssumption DEF Ntohl, FifoAssumption

-----------------------------------------------------------------------------
(* Thinning a channel out keeps its order and adds nothing to it. *)
LEMMA ThinsKeeps ==
  ASSUME NEW chan \in Seq(Datagram), NEW chan2, Thins(chan2, chan), Ordered(chan)
  PROVE  /\ Ordered(chan2) /\ chan2 \in Seq(Datagram)
         /\ \A i \in 1..Len(chan2) : \E p \in 1..Len(chan) : chan2[i] = chan[p]
<1>1. \A i \in 1..Len(chan2) : \E p \in 1..Len(chan) : chan2[i] = chan[p]
  BY DEF Thins
<1>2. ASSUME NEW i \in 1..Len(chan2), NEW j \in 1..Len(chan2), i < j
      PROVE  Before(chan2[i].blk, chan2[j])
  <2>1. PICK p \in 1..Len(chan), q \in 1..Len(chan) :
          p <= q /\ chan2[i] = chan[p] /\ chan2[j] = chan[q]
    BY <1>2 DEF Thins
  <2>2. CASE p < q
    BY <2>1, <2>2 DEF Ordered
  <2>3. CASE p = q
    <3>1. chan[p] \in Datagram
      OBVIOUS
    <3>2. chan[p].blk \in Int
      BY <3>1 DEF Datagram
    <3> QED BY <2>1, <2>3, <3>2, ConstantTypes DEF Before
  <2> QED BY <2>1, <2>2, <2>3
<1>3. Ordered(chan2)
  BY <1>2 DEF Ordered
<1> QED BY <1>1, <1>3 DEF Thins

(* Sending keeps the order when what is sent may follow what is in flight. *)
LEMMA PutKeeps ==
  ASSUME NEW chan \in Seq(Datagram), NEW msgs \in Seq(Datagram),
         Ordered(chan), Ordered(msgs),
         \A i \in 1..Len(chan), j \in 1..Len(msgs) : Before(chan[i].blk, msgs[j])
  PROVE  /\ Put(chan, msgs) \in Seq(Datagram)
         /\ Ordered(Put(chan, msgs))
         /\ \A i \in 1..Len(Put(chan, msgs)) :
              \/ \E p \in 1..Len(chan) : Put(chan, msgs)[i] = chan[p]
              \/ \E p \in 1..Len(msgs) : Put(chan, msgs)[i] = msgs[p]
<1> DEFINE all == chan \o msgs
<1>1. all \in Seq(Datagram) /\ Len(all) = Len(chan) + Len(msgs)
  OBVIOUS
<1>2. \A i \in 1..Len(all) : /\ i <= Len(chan) => all[i] = chan[i]
                             /\ i > Len(chan) => all[i] = msgs[i - Len(chan)]
  OBVIOUS
<1> HIDE DEF all
<1>3. ASSUME NEW i \in 1..Len(all), NEW j \in 1..Len(all), i < j
      PROVE  Before(all[i].blk, all[j])
  <2>1. Len(chan) \in Nat /\ Len(msgs) \in Nat
    OBVIOUS
  <2>2. CASE j <= Len(chan)
    <3>1. i \in 1..Len(chan) /\ j \in 1..Len(chan)
      BY <1>1, <1>3, <2>1, <2>2
    <3> QED BY <1>2, <1>3, <2>1, <3>1 DEF Ordered
  <2>3. CASE j > Len(chan) /\ i <= Len(chan)
    <3>1. i \in 1..Len(chan) /\ j - Len(chan) \in 1..Len(msgs)
      BY <1>1, <1>3, <2>1, <2>3
    <3> QED BY <1>2, <2>3, <3>1
  <2>4. CASE i > Len(chan)
    <3>1. /\ i - Len(chan) \in 1..Len(msgs) /\ j - Len(chan) \in 1..Len(msgs)
          /\ i - Len(chan) < j - Len(chan) /\ j > Len(chan)
      BY <1>1, <1>3, <2>1, <2>4
    <3> QED BY <1>2, <2>4, <3>1 DEF Ordered
  <2> QED BY <2>1, <2>2, <2>3, <2>4
<1>4. Ordered(all)
  BY <1>3 DEF Ordered
<1>5. Thins(Put(chan, msgs), all)
  BY PutThins DEF all
<1>6. /\ Ordered(Put(chan, msgs)) /\ Put(chan, msgs) \in Seq(Datagram)
      /\ \A i \in 1..Len(Put(chan, msgs)) : \E p \in 1..Len(all) : Put(chan, msgs)[i] = all[p]
  <2>1. all \in Seq(Datagram)
    BY <1>1
  <2> QED BY <2>1, <1>4, <1>5, ThinsKeeps
<1>7. ASSUME NEW p \in 1..Len(all)
      PROVE  \/ \E q \in 1..Len(chan) : all[p] = chan[q]
             \/ \E q \in 1..Len(msgs) : all[p] = msgs[q]
  <2>1. CASE p <= Len(chan)
    BY <1>2, <2>1
  <2>2. CASE p > Len(chan)
    <3>1. p - Len(chan) \in 1..Len(msgs)
      BY <1>1, <2>2
    <3> QED BY <1>2, <2>2, <3>1
  <2> QED BY <2>1, <2>2
<1> DEFINE sent == Put(chan, msgs)
<1>8. /\ Ordered(sent) /\ sent \in Seq(Datagram)
      /\ \A i \in 1..Len(sent) : \E p \in 1..Len(all) : sent[i] = all[p]
  BY <1>6
<1> HIDE DEF sent
<1>9. \A i \in 1..Len(sent) : \/ \E p \in 1..Len(chan) : sent[i] = chan[p]
                             \/ \E p \in 1..Len(msgs) : sent[i] = msgs[p]
  <2> TAKE i \in 1..Len(sent)
  <2>1. PICK p \in 1..Len(all) : sent[i] = all[p]
    BY <1>8
  <2> QED BY <1>7, <2>1
<1> QED BY <1>8, <1>9 DEF sent

-----------------------------------------------------------------------------
(* The initial states. *)
LEMMA FifoInit == Init => FifoInv
<1> SUFFICES ASSUME Init PROVE FifoInv
  OBVIOUS
<1> USE DEF Init, SrvInit, CliInit, NetInit
<1>1. TypeOK
  BY ConstantTypes, RudpServerAssumption, UdpNetworkAssumption
     DEF TypeOK, SrvStates, CliStates, NotBuffered, RudpServerAssumption, UdpNetworkAssumption
<1>2. Total \in Nat
  BY FifoAssumption DEF FifoAssumption, Total, PacketsIn, BlockSize
<1>3. ServerInv
  BY <1>2, ConstantTypes DEF NoEmptyPop, ServerInv
<1>4. ClientInv
  BY DEF ClientInv, Buffered
<1>5. ChannelInv
  BY DEF ChannelInv, Ordered
<1>6. FilePrefix /\ BufferOfThisLap /\ AckedWritten /\ Len(file) <= packetsInMem
  BY DEF FilePrefix, BufferOfThisLap, AckedWritten, Buffered
<1> QED BY <1>1, <1>3, <1>4, <1>5, <1>6 DEF FifoInv

-----------------------------------------------------------------------------
(* The network.  Loss and duplication thin a channel out or repeat parts *)
(* of it: nothing else of the invariant depends on the channels.         *)
LEMMA ThinToClient ==
  ASSUME FifoInv, Thins(toClient', toClient), faults' \in 0..MaxFaults,
         UNCHANGED <<srvVars, cliVars, toServer>>
  PROVE  FifoInv'
<1> USE DEF srvVars, cliVars
<1>1. /\ Ordered(toClient') /\ toClient' \in Seq(Datagram)
      /\ \A i \in 1..Len(toClient') : \E p \in 1..Len(toClient) : toClient'[i] = toClient[p]
  <2>1. toClient \in Seq(Datagram) /\ Ordered(toClient)
    BY DEF FifoInv, TypeOK, ChannelInv
  <2> QED BY <2>1, ThinsKeeps
<1>2. TypeOK'
  BY <1>1 DEF FifoInv, TypeOK
<1>3. ServerInv' /\ ClientInv'
  BY DEF NoEmptyPop, FifoInv, ServerInv, ClientInv, Buffered
<1>4. ChannelInv'
  BY <1>1 DEF FifoInv, ChannelInv, Buffered, IsSize, IsData, IsAck, IsJunk, Ordered
<1>5. FilePrefix' /\ BufferOfThisLap' /\ AckedWritten' /\ (Len(file) <= packetsInMem)'
  BY DEF FifoInv, FilePrefix, BufferOfThisLap, AckedWritten, Buffered
<1> QED BY <1>2, <1>3, <1>4, <1>5 DEF FifoInv

(* The same for the other direction. *)
LEMMA ThinToServer ==
  ASSUME FifoInv, Thins(toServer', toServer), faults' \in 0..MaxFaults,
         UNCHANGED <<srvVars, cliVars, toClient>>
  PROVE  FifoInv'
<1> USE DEF srvVars, cliVars
<1>1. /\ Ordered(toServer') /\ toServer' \in Seq(Datagram)
      /\ \A i \in 1..Len(toServer') : \E p \in 1..Len(toServer) : toServer'[i] = toServer[p]
  <2>1. toServer \in Seq(Datagram) /\ Ordered(toServer)
    BY DEF FifoInv, TypeOK, ChannelInv
  <2> QED BY <2>1, ThinsKeeps
<1>2. TypeOK'
  BY <1>1 DEF FifoInv, TypeOK
<1>3. ServerInv' /\ ClientInv'
  BY DEF NoEmptyPop, FifoInv, ServerInv, ClientInv, Buffered
<1>4. ChannelInv'
  BY <1>1 DEF FifoInv, ChannelInv, Buffered, IsSize, IsData, IsAck, IsJunk, Ordered
<1>5. FilePrefix' /\ BufferOfThisLap' /\ AckedWritten' /\ (Len(file) <= packetsInMem)'
  BY DEF FifoInv, FilePrefix, BufferOfThisLap, AckedWritten, Buffered
<1> QED BY <1>2, <1>3, <1>4, <1>5 DEF FifoInv

(* The faults of the path preserve the invariant. *)
LEMMA FifoNetwork ==
  ASSUME FifoInv, Lose \/ Duplicate \/ Reorder \/ Corrupt, UNCHANGED <<srvVars, cliVars>>
  PROVE  FifoInv'
<1>1. toClient \in Seq(Datagram) /\ toServer \in Seq(Datagram) /\ faults \in 0..MaxFaults
  BY DEF FifoInv, TypeOK
<1>2. faults' \in 0..MaxFaults
  BY <1>1, UdpNetworkAssumption
     DEF UdpNetworkAssumption, Lose, Duplicate, Reorder, Corrupt, Fault
<1>3. CASE Lose
  BY <1>1, <1>2, <1>3, LossyThins, ThinToClient, ThinToServer DEF Lose
<1>4. CASE Duplicate
  BY <1>1, <1>2, <1>4, DuplicatingThins, ThinToClient, ThinToServer DEF Duplicate
<1>5. CASE Reorder \/ Corrupt
  BY <1>5, FifoAssumption DEF FifoAssumption, Reorder, Corrupt, Fault
<1> QED BY <1>3, <1>4, <1>5

-----------------------------------------------------------------------------
(* The server. *)
LEMMA TotalType == Total \in Nat /\ Total >= 1
BY FifoAssumption DEF FifoAssumption, Total, PacketsIn, BlockSize

(* A datagram the server may send: none of the blocks in flight, buffered *)
(* or written is WindowSize or more ahead of it.                          *)
LEMMA ServerSends ==
  ASSUME FifoInv, NEW pkt \in Datagram, NEW P \in Nat, packetsInMem <= P,
         \/ pkt.blk = NoBlock /\ pkt.num = Htonl(FileBytes)
         \/ pkt.blk \in 1..P /\ pkt.num = NumOf(pkt.blk) /\ packetsInMem < pkt.blk + WindowSize,
         NEW chan, chan = Put(toClient, <<pkt>>)
  PROVE  /\ chan \in Seq(Datagram) /\ Ordered(chan)
         /\ \A i \in 1..Len(chan) :
              /\ IsSize(chan[i]) \/ (chan[i].blk \in 1..P /\ chan[i].num = NumOf(chan[i].blk))
              /\ Before(Len(file), chan[i])
              /\ \A s \in 1..NumMod : Buffered(s) => Before(cliOutOfOrder[s], chan[i])
              /\ \A j \in 1..Len(toServer) : Before(toServer[j].blk, chan[i])
<1>1. toClient \in Seq(Datagram) /\ toServer \in Seq(Datagram) /\ packetsInMem \in Nat
      /\ cliOutOfOrder \in [1..NumMod -> Int] /\ <<pkt>> \in Seq(Datagram)
      /\ pkt.blk \in Int /\ file \in Seq(Int)
  BY DatagramFields DEF FifoInv, TypeOK
<1>2. \A x \in Int : x <= packetsInMem => Before(x, pkt)
  BY <1>1, ConstantTypes DEF Before
<1>3. Len(file) <= packetsInMem /\ Len(file) \in Int
  BY <1>1 DEF FifoInv
<1>4. ASSUME NEW i \in 1..Len(toClient)
      PROVE  toClient[i].blk \in Int /\ toClient[i].blk <= packetsInMem
  <2>1. IsSize(toClient[i]) \/ IsData(toClient[i])
    BY DEF FifoInv, ChannelInv
  <2> QED BY <2>1, <1>1 DEF IsSize, IsData, NoBlock
<1>5. ASSUME NEW i \in 1..Len(toServer)
      PROVE  toServer[i].blk \in Int /\ toServer[i].blk <= packetsInMem
  <2>1. IsAck(toServer[i]) \/ IsJunk(toServer[i])
    BY DEF FifoInv, ChannelInv
  <2> QED BY <2>1, <1>1 DEF IsAck, IsJunk, NoBlock
<1>6. ASSUME NEW s \in 1..NumMod, Buffered(s)
      PROVE  cliOutOfOrder[s] \in Int /\ cliOutOfOrder[s] <= packetsInMem
  BY <1>1, <1>6 DEF FifoInv, ClientInv
<1>7. Ordered(toClient) /\ Ordered(<<pkt>>)
  BY DEF FifoInv, ChannelInv, Ordered
<1>8. /\ chan \in Seq(Datagram) /\ Ordered(chan)
      /\ \A i \in 1..Len(chan) : \/ \E p \in 1..Len(toClient) : chan[i] = toClient[p]
                                \/ chan[i] = pkt
  <2>1. \A i \in 1..Len(toClient), j \in 1..Len(<<pkt>>) : Before(toClient[i].blk, <<pkt>>[j])
    BY <1>2, <1>4
  <2>2. /\ Put(toClient, <<pkt>>) \in Seq(Datagram) /\ Ordered(Put(toClient, <<pkt>>))
        /\ \A i \in 1..Len(Put(toClient, <<pkt>>)) :
             \/ \E p \in 1..Len(toClient) : Put(toClient, <<pkt>>)[i] = toClient[p]
             \/ \E p \in 1..Len(<<pkt>>) : Put(toClient, <<pkt>>)[i] = <<pkt>>[p]
    BY <1>1, <1>7, <2>1, PutKeeps
  <2> QED BY <2>2
<1>9. ASSUME NEW i \in 1..Len(chan)
      PROVE  /\ IsSize(chan[i]) \/ (chan[i].blk \in 1..P /\ chan[i].num = NumOf(chan[i].blk))
             /\ Before(Len(file), chan[i])
             /\ \A s \in 1..NumMod : Buffered(s) => Before(cliOutOfOrder[s], chan[i])
             /\ \A j \in 1..Len(toServer) : Before(toServer[j].blk, chan[i])
  <2>1. CASE chan[i] = pkt
    BY <2>1, <1>2, <1>3, <1>5, <1>6 DEF IsSize
  <2>2. ASSUME NEW p \in 1..Len(toClient), chan[i] = toClient[p]
        PROVE  <1>9!2
    <3>1. /\ IsSize(toClient[p]) \/ IsData(toClient[p])
          /\ Before(Len(file), toClient[p])
          /\ \A s \in 1..NumMod : Buffered(s) => Before(cliOutOfOrder[s], toClient[p])
          /\ \A j \in 1..Len(toServer) : Before(toServer[j].blk, toClient[p])
      BY DEF FifoInv, ChannelInv
    <3>2. IsData(toClient[p]) => toClient[p].blk \in 1..P
      BY <1>1 DEF IsData
    <3> QED BY <2>2, <3>1, <3>2 DEF IsData
  <2> QED BY <1>8, <2>1, <2>2
<1> QED BY <1>8, <1>9

(* The server takes the name and sends the length. *)
LEMMA FifoRecvName ==
  ASSUME FifoInv, RecvName, UNCHANGED cliVars
  PROVE  FifoInv'
<1> USE DEF RecvName, cliVars
<1> DEFINE size == SizeDatagram
<1>1. size \in Datagram /\ size.blk = NoBlock /\ size.num = Htonl(FileBytes)
  BY ByteSwapInt, DatagramFields, FifoAssumption DEF SizeDatagram, NoBlock, FifoAssumption
<1>2. packetsInMem \in Nat /\ packetsInMem = 0 /\ ackCounter = 0 /\ resendCnt = 0
  BY DEF FifoInv, TypeOK, ServerInv
<1>3. /\ toClient' \in Seq(Datagram) /\ Ordered(toClient')
      /\ \A i \in 1..Len(toClient') :
           /\ IsSize(toClient'[i]) \/ IsData(toClient'[i])
           /\ Before(Len(file), toClient'[i])
           /\ \A s \in 1..NumMod : Buffered(s) => Before(cliOutOfOrder[s], toClient'[i])
           /\ \A j \in 1..Len(toServer) : Before(toServer[j].blk, toClient'[i])
  <2> HIDE DEF size
  <2>1. toClient' = Put(toClient, <<size>>)
    BY DEF size
  <2>2. packetsInMem <= packetsInMem
    BY <1>2
  <2>3. /\ toClient' \in Seq(Datagram) /\ Ordered(toClient')
        /\ \A i \in 1..Len(toClient') :
             /\ \/ IsSize(toClient'[i])
                \/ /\ toClient'[i].blk \in 1..packetsInMem
                   /\ toClient'[i].num = NumOf(toClient'[i].blk)
             /\ Before(Len(file), toClient'[i])
             /\ \A s \in 1..NumMod : Buffered(s) => Before(cliOutOfOrder[s], toClient'[i])
             /\ \A j \in 1..Len(toServer) : Before(toServer[j].blk, toClient'[i])
    BY <1>1, <1>2, <2>1, <2>2, ServerSends
  <2> QED BY <2>3 DEF IsData
<1>4. /\ Ordered(toServer') /\ toServer' \in Seq(Datagram)
      /\ \A i \in 1..Len(toServer') : \E p \in 1..Len(toServer) : toServer'[i] = toServer[p]
  BY TailThins, ThinsKeeps DEF FifoInv, TypeOK, ChannelInv
<1>5. TypeOK'
  BY <1>3, <1>4 DEF FifoInv, TypeOK, SrvStates
<1>6. ServerInv'
  BY <1>2, TotalType, RudpServerAssumption DEF NoEmptyPop, FifoInv, ServerInv, RudpServerAssumption
<1>7. ClientInv'
  BY DEF FifoInv, ClientInv, Buffered
<1>8. ChannelInv'
  <2>1. (\A i \in 1..Len(toClient) : IsSize(toClient[i]) \/ IsData(toClient[i]))'
    BY <1>3 DEF IsSize, IsData
  <2>2. (\A i \in 1..Len(toServer) : IsAck(toServer[i]) \/ IsJunk(toServer[i]))'
    BY <1>4 DEF FifoInv, ChannelInv, IsAck, IsJunk
  <2>3. (\A i \in 1..Len(toClient) :
           /\ Before(Len(file), toClient[i])
           /\ \A s \in 1..NumMod : Buffered(s) => Before(cliOutOfOrder[s], toClient[i])
           /\ \A j \in 1..Len(toServer) : Before(toServer[j].blk, toClient[i]))'
    BY <1>3, <1>4 DEF Buffered
  <2>4. (\A j \in 1..Len(toServer) : Before(ackCounter, toServer[j]))'
    BY <1>4 DEF FifoInv, ChannelInv
  <2> QED BY <1>3, <1>4, <2>1, <2>2, <2>3, <2>4 DEF ChannelInv
<1>9. FilePrefix' /\ BufferOfThisLap' /\ AckedWritten' /\ (Len(file) <= packetsInMem)'
  BY DEF FifoInv, FilePrefix, BufferOfThisLap, AckedWritten, Buffered
<1> QED BY <1>5, <1>6, <1>7, <1>8, <1>9 DEF FifoInv

(* A packet the server sends keeps the channels in order. *)
LEMMA ServerSent ==
  ASSUME FifoInv, NEW pkt \in Datagram,
         packetsInMem' \in Nat, packetsInMem <= packetsInMem',
         pkt.blk \in 1..packetsInMem', pkt.num = NumOf(pkt.blk),
         packetsInMem < pkt.blk + WindowSize,
         toClient' = Put(toClient, <<pkt>>),
         UNCHANGED <<cliVars, toServer, ackCounter>>
  PROVE  ChannelInv' /\ toClient' \in Seq(Datagram)
<1> USE DEF cliVars
<1>1. /\ toClient' \in Seq(Datagram) /\ Ordered(toClient')
      /\ \A i \in 1..Len(toClient') :
           /\ \/ IsSize(toClient'[i])
              \/ /\ toClient'[i].blk \in 1..packetsInMem'
                 /\ toClient'[i].num = NumOf(toClient'[i].blk)
           /\ Before(Len(file), toClient'[i])
           /\ \A s \in 1..NumMod : Buffered(s) => Before(cliOutOfOrder[s], toClient'[i])
           /\ \A j \in 1..Len(toServer) : Before(toServer[j].blk, toClient'[i])
  BY ServerSends
<1>2. (\A i \in 1..Len(toClient) : IsSize(toClient[i]) \/ IsData(toClient[i]))'
  BY <1>1 DEF IsSize, IsData
<1>3. ASSUME NEW i \in 1..Len(toServer) PROVE (IsAck(toServer[i]) \/ IsJunk(toServer[i]))'
  <2>1. IsAck(toServer[i]) \/ IsJunk(toServer[i])
    BY DEF FifoInv, ChannelInv
  <2>2. packetsInMem \in Nat
    BY DEF FifoInv, TypeOK
  <2>3. \A x \in 1..packetsInMem : x \in 1..packetsInMem'
    BY <2>2
  <2> QED BY <2>1, <2>3 DEF IsAck, IsJunk
<1>4. (\A i \in 1..Len(toClient) :
         /\ Before(Len(file), toClient[i])
         /\ \A s \in 1..NumMod : Buffered(s) => Before(cliOutOfOrder[s], toClient[i])
         /\ \A j \in 1..Len(toServer) : Before(toServer[j].blk, toClient[i]))'
  BY <1>1 DEF Buffered
<1>5. Ordered(toServer) /\ \A j \in 1..Len(toServer) : Before(ackCounter, toServer[j])
  BY DEF FifoInv, ChannelInv
<1> QED BY <1>1, <1>2, <1>3, <1>4, <1>5 DEF ChannelInv

(* fillWindow() preserves the invariant. *)
LEMMA FifoFillWindow ==
  ASSUME FifoInv, FillWindow, UNCHANGED cliVars
  PROVE  FifoInv'
<1> USE DEF cliVars
<1> DEFINE pkt == [num |-> NumAfter(srvSeq, 1), blk |-> packetsInMem + 1]
<1>1. /\ packetsInMem \in Nat /\ ackCounter \in Nat /\ Total \in Nat
      /\ srvWindow \in Seq(Datagram) /\ Len(srvWindow) < WindowSize /\ packetsInMem < Total
      /\ packetsInMem' = packetsInMem + 1 /\ ackCounter' = ackCounter
  BY TotalType DEF FifoInv, TypeOK, FillWindow, RoomToSend
<1>2. NumAfter(srvSeq, 1) = NumOf(packetsInMem + 1) /\ NumOf(packetsInMem + 1) \in 1..NumMod
  <2>1. srvSeq = IF packetsInMem = 0 THEN 0 ELSE NumOf(packetsInMem)
    BY DEF FifoInv, ServerInv
  <2>2. NumAfter(srvSeq, 1) = NumOf(packetsInMem + 1)
    <3>1. CASE packetsInMem = 0
      <4>1. NumAfter(0, 1) = NumOf(1)
        BY NumAfterZero
      <4> QED BY <2>1, <3>1, <4>1
    <3>2. CASE packetsInMem # 0
      <4>1. NumAfter(NumOf(packetsInMem), 1) = NumOf(packetsInMem + 1)
        BY <1>1, NumAfterNumOf
      <4> QED BY <2>1, <3>2, <4>1
    <3> QED BY <3>1, <3>2
  <2> QED BY <1>1, <2>2, NumOfType
<1>3. pkt = [num |-> NumOf(packetsInMem + 1), blk |-> packetsInMem + 1]
      /\ pkt \in Datagram /\ pkt.num = NumOf(packetsInMem + 1) /\ pkt.blk = packetsInMem + 1
  BY <1>1, <1>2, DatagramFields
<1>4. /\ srvSeq' = NumOf(packetsInMem + 1) /\ srvWindow' = Append(srvWindow, pkt)
      /\ toClient' = Put(toClient, <<pkt>>)
  BY <1>2 DEF FillWindow
<1> HIDE DEF pkt
<1>5. ChannelInv' /\ toClient' \in Seq(Datagram)
  BY <1>1, <1>3, <1>4, ConstantTypes, ServerSent DEF FillWindow
<1>6. TypeOK'
  BY <1>1, <1>2, <1>3, <1>4, <1>5 DEF FifoInv, TypeOK, FillWindow
<1>7. ServerInv'
  <2>1. /\ Len(srvWindow) = packetsInMem - ackCounter
        /\ \A i \in 1..Len(srvWindow) :
             srvWindow[i] = [num |-> NumOf(ackCounter + i), blk |-> ackCounter + i]
    BY DEF FifoInv, ServerInv
  <2>2. Len(srvWindow') = Len(srvWindow) + 1
    BY <1>1, <1>3, <1>4
  <2>3. ASSUME NEW i \in 1..Len(srvWindow')
        PROVE  srvWindow'[i] = [num |-> NumOf(ackCounter + i), blk |-> ackCounter + i]
    <3>1. CASE i <= Len(srvWindow)
      BY <1>1, <1>3, <1>4, <2>1, <2>2, <3>1
    <3>2. CASE i = Len(srvWindow) + 1
      <4>1. srvWindow'[i] = pkt
        BY <1>1, <1>3, <1>4, <3>2
      <4>2. ackCounter + i = packetsInMem + 1
        BY <1>1, <2>1, <3>2
      <4> QED BY <1>3, <4>1, <4>2
    <3> QED BY <1>1, <2>2, <3>1, <3>2
  <2>4. packetsInMem' # 0 /\ srvSeq' = NumOf(packetsInMem')
    BY <1>1, <1>4
  <2> QED BY <1>1, <2>1, <2>2, <2>3, <2>4, ConstantTypes
          DEF NoEmptyPop, FifoInv, ServerInv, FillWindow
<1>8. ClientInv'
  <2>1. ASSUME NEW s \in 1..NumMod, Buffered(s) PROVE cliOutOfOrder[s] <= packetsInMem'
    <3>1. cliOutOfOrder[s] \in Int
      BY DEF FifoInv, TypeOK
    <3>2. cliOutOfOrder[s] <= packetsInMem
      BY <2>1 DEF FifoInv, ClientInv
    <3> QED BY <1>1, <3>1, <3>2
  <2> QED BY <1>1, <2>1 DEF FifoInv, ClientInv, Buffered
<1>9. FilePrefix' /\ BufferOfThisLap' /\ AckedWritten' /\ (Len(file) <= packetsInMem)'
  <2>1. Len(file) \in Nat
    BY DEF FifoInv, TypeOK
  <2> QED BY <1>1, <2>1 DEF FifoInv, FilePrefix, BufferOfThisLap, AckedWritten, Buffered
<1> QED BY <1>5, <1>6, <1>7, <1>8, <1>9 DEF FifoInv

(* While the server sends, its front packet is the first block not acknowledged. *)
LEMMA FrontPacket ==
  ASSUME FifoInv, Receiving
  PROVE  /\ srvWindow # <<>> /\ FrontOf(srvWindow) = {srvWindow[1]}
         /\ srvWindow[1] = [num |-> NumOf(ackCounter + 1), blk |-> ackCounter + 1]
         /\ srvWindow[1] \in Datagram
         /\ ackCounter < packetsInMem /\ packetsInMem <= ackCounter + WindowSize
<1>1. /\ packetsInMem \in Nat /\ ackCounter \in Nat /\ Total \in Nat
      /\ srvWindow \in Seq(Datagram)
      /\ ackCounter < Total /\ packetsInMem <= Total
      /\ Len(srvWindow) = packetsInMem - ackCounter
      /\ packetsInMem <= ackCounter + WindowSize
      /\ ~(Len(srvWindow) < WindowSize /\ packetsInMem < Total)
  BY TotalType DEF FifoInv, TypeOK, ServerInv, Receiving, RoomToSend
<1>2. Len(srvWindow) >= 1
  BY <1>1, ConstantTypes
<1>3. srvWindow # <<>> /\ 1 \in 1..Len(srvWindow) /\ ackCounter < packetsInMem
  BY <1>1, <1>2
<1>4. FrontOf(srvWindow) = {srvWindow[1]}
  BY <1>1, <1>3 DEF FrontOf
<1>5. srvWindow[1] = [num |-> NumOf(ackCounter + 1), blk |-> ackCounter + 1]
  BY <1>3 DEF FifoInv, ServerInv
<1> QED BY <1>1, <1>3, <1>4, <1>5

(* reSend() preserves the invariant: what it sends again is the front packet. *)
LEMMA FifoTimeout ==
  ASSUME FifoInv, Timeout, UNCHANGED cliVars
  PROVE  FifoInv'
<1> USE DEF cliVars
<1> DEFINE pkt == srvWindow[1]
<1>1. /\ packetsInMem \in Nat /\ ackCounter \in Nat /\ resendCnt \in 0..MaxResend
      /\ MaxResend \in Nat /\ tries \in Nat /\ srvState = "sending" /\ resendCnt < MaxResend
  BY RudpServerAssumption
     DEF RudpServerAssumption, FifoInv, TypeOK, Timeout, Receiving, ServerInv
<1>2. /\ pkt \in Datagram /\ pkt.num = NumOf(pkt.blk) /\ pkt.blk = ackCounter + 1
      /\ pkt.num \in Int /\ FrontOf(srvWindow) = {pkt}
      /\ ackCounter < packetsInMem /\ packetsInMem <= ackCounter + WindowSize
  <2>1. Receiving
    BY DEF Timeout
  <2>2. /\ pkt = [num |-> NumOf(ackCounter + 1), blk |-> ackCounter + 1]
        /\ pkt \in Datagram /\ FrontOf(srvWindow) = {pkt}
        /\ ackCounter < packetsInMem /\ packetsInMem <= ackCounter + WindowSize
    BY <2>1, FrontPacket
  <2> HIDE DEF pkt
  <2>3. pkt.num = NumOf(pkt.blk) /\ pkt.blk = ackCounter + 1
    BY <2>2
  <2> QED BY <2>2, <2>3, DatagramFields
<1> HIDE DEF pkt
<1>3. /\ toClient' = Put(toClient, <<pkt>>) /\ lastResend' = pkt.num
      /\ resendCnt' = IF lastResend = pkt.num THEN resendCnt + 1 ELSE 0
      /\ srvState' = IF resendCnt' = MaxResend THEN "gaveUp" ELSE srvState
  BY <1>2 DEF Timeout, Resends
<1>4. ChannelInv' /\ toClient' \in Seq(Datagram)
  <2>1. /\ packetsInMem' = packetsInMem /\ UNCHANGED <<cliVars, toServer, ackCounter>>
    BY DEF Timeout
  <2>2. /\ packetsInMem' \in Nat /\ packetsInMem <= packetsInMem'
        /\ pkt.blk \in 1..packetsInMem' /\ packetsInMem < pkt.blk + WindowSize
    BY <1>1, <1>2, <2>1, ConstantTypes
  <2> QED BY <1>2, <1>3, <2>1, <2>2, ServerSent
<1>5. TypeOK'
  BY <1>1, <1>2, <1>3, <1>4 DEF FifoInv, TypeOK, Timeout, SrvStates
<1>6. ServerInv'
  BY <1>1, <1>3 DEF NoEmptyPop, FifoInv, ServerInv, Timeout
<1>7. ClientInv'
  BY DEF FifoInv, ClientInv, Buffered, Timeout
<1>8. FilePrefix' /\ BufferOfThisLap' /\ AckedWritten' /\ (Len(file) <= packetsInMem)'
  BY DEF FifoInv, FilePrefix, BufferOfThisLap, AckedWritten, Buffered, Timeout
<1> QED BY <1>4, <1>5, <1>6, <1>7, <1>8 DEF FifoInv

(* An acknowledgement the server takes for its front packet's is that, and *)
(* the client has written the block.                                       *)
LEMMA AckOfFront ==
  ASSUME FifoInv, Receiving, NEW i \in 1..Len(toServer),
         Acks(toServer[i], srvWindow[1])
  PROVE  toServer[i].blk = ackCounter + 1 /\ ackCounter + 1 <= Len(file)
<1> DEFINE a == toServer[i]
<1>1. /\ ackCounter \in Nat /\ packetsInMem \in Nat /\ file \in Seq(Int)
      /\ cliOutOfOrder \in [1..NumMod -> Int] /\ ackCounter <= Len(file)
      /\ packetsInMem <= ackCounter + WindowSize
  BY DEF FifoInv, TypeOK, ServerInv, AckedWritten
<1>2. Ntohl(a.num) = NumOf(ackCounter + 1) /\ NumOf(ackCounter + 1) \in 1..NumMod
  <2>1. srvWindow[1] = [num |-> NumOf(ackCounter + 1), blk |-> ackCounter + 1]
    BY FrontPacket
  <2>2. srvWindow[1].num = NumOf(ackCounter + 1)
    BY <2>1
  <2>3. ackCounter + 1 \in Int
    BY <1>1
  <2> QED BY <2>2, <2>3, NumOfType DEF Acks
<1>3. IsAck(a)
  <2>1. IsAck(a) \/ IsJunk(a)
    BY DEF FifoInv, ChannelInv
  <2> HIDE DEF a
  <2> QED BY <1>2, <2>1, ConstantTypes DEF IsJunk
<1>4. Before(ackCounter, a)
  BY DEF FifoInv, ChannelInv
<1> HIDE DEF a
<1>5. a.blk \in 1..packetsInMem /\ NumOf(a.blk) = NumOf(ackCounter + 1)
  <2>1. a.blk \in 1..packetsInMem /\ a.num = Htonl(NumOf(a.blk))
    BY <1>3 DEF IsAck
  <2>2. NumOf(a.blk) \in 0..NumMod
    <3>1. a.blk \in Int
      BY <1>1, <2>1
    <3>2. NumOf(a.blk) \in 1..NumMod
      BY <3>1, NumOfType
    <3> QED BY <3>2, ConstantTypes
  <2> QED BY <1>2, <2>1, <2>2, ByteSwapNum
<1>6. a.blk = ackCounter + 1
  <2>1. ackCounter < a.blk + WindowSize
    BY <1>4, <1>5, <1>1 DEF Before, NoBlock
  <2>2. a.blk - (ackCounter + 1) < NumMod /\ (ackCounter + 1) - a.blk < NumMod
    BY <1>1, <1>5, <2>1, ConstantTypes, SMTT(30)
  <2> QED BY <1>1, <1>5, <2>2, NumOfSame
<1>7. ASSUME ackCounter + 1 > Len(file) PROVE FALSE
  <2> DEFINE s == NumOf(a.blk)
  <2>1. cliOutOfOrder[s] = ackCounter + 1 /\ s \in 1..NumMod
    BY <1>1, <1>2, <1>3, <1>5, <1>6, <1>7 DEF IsAck
  <2> HIDE DEF s
  <2>2. Buffered(s)
    BY <1>1, <2>1 DEF Buffered, NotBuffered
  <2>3. PICK j \in 2..WindowSize : cliOutOfOrder[s] = Len(file) + j
    BY <2>1, <2>2 DEF FifoInv, BufferOfThisLap
  <2> QED BY <1>1, <1>7, <2>1, <2>3, ConstantTypes
<1> QED BY <1>1, <1>6, <1>7 DEF a

(* recvAck() preserves the invariant. *)
LEMMA FifoRecvAck ==
  ASSUME FifoInv, RecvAck, UNCHANGED cliVars
  PROVE  FifoInv'
<1> USE DEF cliVars
<1> DEFINE ack == toServer[1]
           rest == Tail(srvWindow)
<1>1. /\ packetsInMem \in Nat /\ ackCounter \in Nat /\ Total \in Nat
      /\ srvWindow \in Seq(Datagram) /\ toServer \in Seq(Datagram) /\ toServer # <<>>
      /\ 1 \in 1..Len(toServer) /\ srvState = "sending" /\ Receiving
      /\ Head(toServer) = ack /\ srvOutOfOrder \subseteq Int
      /\ packetsInMem <= Total /\ packetsInMem' = packetsInMem
  BY TotalType DEF FifoInv, TypeOK, RecvAck, Receiving, ServerInv
<1>2. /\ srvWindow # <<>> /\ FrontOf(srvWindow) = {srvWindow[1]}
      /\ ackCounter < packetsInMem /\ packetsInMem <= ackCounter + WindowSize
  BY <1>1, FrontPacket
<1>3. /\ Ordered(toServer') /\ toServer' \in Seq(Datagram)
      /\ \A i \in 1..Len(toServer') : \E p \in 1..Len(toServer) : toServer'[i] = toServer[p]
  <2>1. Ordered(toServer) /\ toServer' = Tail(toServer)
    BY DEF FifoInv, ChannelInv, RecvAck
  <2> QED BY <1>1, <2>1, TailThins, ThinsKeeps
<1>4. \A x \in srvOutOfOrder : x \notin 0..NumMod
  BY DEF FifoInv, ServerInv
<1>5. ASSUME ackCounter' = ackCounter PROVE ChannelInv'
  <2>1. (\A i \in 1..Len(toClient) : IsSize(toClient[i]) \/ IsData(toClient[i]))'
    BY DEF FifoInv, ChannelInv, IsSize, IsData, RecvAck
  <2>2. (\A i \in 1..Len(toServer) : IsAck(toServer[i]) \/ IsJunk(toServer[i]))'
    BY <1>3 DEF FifoInv, ChannelInv, IsAck, IsJunk, RecvAck
  <2>3. (\A i \in 1..Len(toClient) :
           /\ Before(Len(file), toClient[i])
           /\ \A s \in 1..NumMod : Buffered(s) => Before(cliOutOfOrder[s], toClient[i])
           /\ \A j \in 1..Len(toServer) : Before(toServer[j].blk, toClient[i]))'
    BY <1>3 DEF FifoInv, ChannelInv, Buffered, RecvAck
  <2>4. (\A j \in 1..Len(toServer) : Before(ackCounter, toServer[j]))'
    BY <1>3, <1>5 DEF FifoInv, ChannelInv
  <2>5. Ordered(toClient)'
    BY DEF FifoInv, ChannelInv, RecvAck
  <2> QED BY <1>3, <2>1, <2>2, <2>3, <2>4, <2>5 DEF ChannelInv
<1>6. ClientInv' /\ FilePrefix' /\ BufferOfThisLap' /\ (Len(file) <= packetsInMem)'
  BY <1>1 DEF FifoInv, ClientInv, Buffered, FilePrefix, BufferOfThisLap
<1>7. CASE Acks(ack, srvWindow[1])
  <2>1. AckFront
    BY <1>1, <1>2, <1>7 DEF RecvAck
  <2>2. ack.blk = ackCounter + 1 /\ ackCounter + 1 <= Len(file)
    BY <1>1, <1>7, AckOfFront
  <2>3. /\ rest \in Seq(Datagram) /\ Len(rest) = packetsInMem - (ackCounter + 1)
        /\ \A i \in 1..Len(rest) : rest[i] = srvWindow[i + 1]
    BY <1>1, <1>2 DEF FifoInv, ServerInv
  <2>4. ASSUME NEW i \in 1..Len(rest)
        PROVE  /\ rest[i] = [num |-> NumOf(ackCounter + 1 + i), blk |-> ackCounter + 1 + i]
               /\ rest[i].num \in 1..NumMod
    <3>1. i + 1 \in 1..Len(srvWindow)
      BY <1>1, <2>3 DEF FifoInv, ServerInv
    <3>2. srvWindow[i + 1] = [num |-> NumOf(ackCounter + (i + 1)), blk |-> ackCounter + (i + 1)]
      BY <3>1 DEF FifoInv, ServerInv
    <3>3. ackCounter + (i + 1) = ackCounter + 1 + i /\ ackCounter + 1 + i \in Int
      BY <1>1, <2>3, SMTT(30)
    <3>4. NumOf(ackCounter + 1 + i) \in 1..NumMod
      BY <3>3, NumOfType
    <3> HIDE DEF rest
    <3> QED BY <2>3, <3>2, <3>3, <3>4
  <2>5. PICK n \in 0..Len(rest) :
          /\ Drains(rest, n)
          /\ srvWindow' = SubSeq(rest, n + 1, Len(rest))
          /\ srvOutOfOrder' = srvOutOfOrder \ {rest[i].num : i \in 1..n}
          /\ ackCounter' = ackCounter + n + 1
          /\ \E front \in FrontOf(srvWindow') :
               srvState' = IF front.num \in srvOutOfOrder' THEN "undefined"
                           ELSE IF AllAcked(ackCounter') THEN "complete" ELSE "sending"
          /\ tries' = 0
    BY <2>1 DEF AckFront
  <2> HIDE DEF rest
  <2>6. n = 0
    <3>1. ASSUME n >= 1 PROVE FALSE
      <4>1. 1 \in 1..n /\ 1 \in 1..Len(rest)
        BY <2>3, <3>1
      <4>2. rest[1].num \in srvOutOfOrder
        BY <2>5, <4>1 DEF Drains, Stored
      <4>3. rest[1].num \in 1..NumMod
        BY <2>4, <4>1
      <4> QED BY <1>4, <4>2, <4>3, ConstantTypes
    <3> QED BY <2>3, <3>1
  <2>7. /\ srvWindow' = rest /\ srvOutOfOrder' = srvOutOfOrder
        /\ ackCounter' = ackCounter + 1
    <3>1. SubSeq(rest, 1, Len(rest)) = rest
      BY <2>3
    <3>2. {rest[i].num : i \in 1..n} = {}
      BY <2>6
    <3> QED BY <1>1, <2>5, <2>6, <3>1, <3>2
  <2>8. srvState' = IF ackCounter' = Total THEN "complete" ELSE "sending"
    <3>1. PICK front \in FrontOf(srvWindow') :
            srvState' = IF front.num \in srvOutOfOrder' THEN "undefined"
                        ELSE IF AllAcked(ackCounter') THEN "complete" ELSE "sending"
      BY <2>5
    <3>2. front.num \in 0..NumMod
      <4>1. CASE rest = <<>>
        BY <2>7, <3>1, <4>1 DEF FrontOf, StaleSeqs
      <4>2. CASE rest # <<>>
        <5>1. 1 \in 1..Len(rest) /\ Head(rest) = rest[1]
          BY <2>3, <4>2
        <5>2. front = rest[1]
          BY <2>7, <3>1, <4>2, <5>1 DEF FrontOf
        <5>3. rest[1].num \in 1..NumMod
          BY <2>4, <5>1
        <5> QED BY <5>2, <5>3, ConstantTypes
      <4> QED BY <4>1, <4>2
    <3> QED BY <1>4, <2>7, <3>1, <3>2 DEF AllAcked
  <2>9. TypeOK'
    <3>1. srvState' \in SrvStates /\ tries' \in Nat /\ ackCounter' \in Nat
      BY <1>1, <2>5, <2>7, <2>8 DEF SrvStates
    <3>2. srvWindow' \in Seq(Datagram) /\ srvOutOfOrder' \subseteq Int
      BY <1>1, <2>3, <2>7
    <3> QED BY <1>3, <3>1, <3>2 DEF FifoInv, TypeOK, RecvAck
  <2>10. ServerInv'
    <3>1. packetsInMem' = packetsInMem /\ srvSeq' = srvSeq /\ resendCnt' = resendCnt
      BY DEF RecvAck
    <3>2. /\ ackCounter <= packetsInMem /\ packetsInMem <= Total
          /\ packetsInMem <= ackCounter + WindowSize
          /\ Len(srvWindow) = packetsInMem - ackCounter
          /\ srvSeq = IF packetsInMem = 0 THEN 0 ELSE NumOf(packetsInMem)
          /\ \A x \in srvOutOfOrder : x \notin 0..NumMod
          /\ srvState = "sending" => ackCounter < Total /\ resendCnt < MaxResend
      BY DEF FifoInv, ServerInv
    <3>3. srvState = "sending"
      BY DEF RecvAck, Receiving
    <3>4. /\ ackCounter' <= packetsInMem /\ packetsInMem <= ackCounter' + WindowSize
          /\ Len(srvWindow') = packetsInMem - ackCounter'
      BY <1>1, <2>3, <2>7, <3>2, ConstantTypes
    <3>5. \A i \in 1..Len(srvWindow') :
            srvWindow'[i] = [num |-> NumOf(ackCounter' + i), blk |-> ackCounter' + i]
      BY <2>4, <2>7
    <3>6. /\ srvState' \notin {"undefined", "lost", "awaitName"}
          /\ srvState' = "sending" => ackCounter' < Total /\ resendCnt < MaxResend
          /\ srvState' = "complete" => ackCounter' = Total
      BY <1>1, <2>7, <2>8, <3>2, <3>3
    <3> QED BY <2>7, <3>1, <3>2, <3>4, <3>5, <3>6 DEF NoEmptyPop, ServerInv
  <2>11. AckedWritten'
    BY <1>1, <2>2, <2>7 DEF AckedWritten
  <2>12. ChannelInv'
    <3>1. (\A i \in 1..Len(toClient) : IsSize(toClient[i]) \/ IsData(toClient[i]))'
      BY DEF FifoInv, ChannelInv, IsSize, IsData, RecvAck
    <3>2. (\A i \in 1..Len(toServer) : IsAck(toServer[i]) \/ IsJunk(toServer[i]))'
      BY <1>3 DEF FifoInv, ChannelInv, IsAck, IsJunk, RecvAck
    <3>3. (\A i \in 1..Len(toClient) :
             /\ Before(Len(file), toClient[i])
             /\ \A s \in 1..NumMod : Buffered(s) => Before(cliOutOfOrder[s], toClient[i])
             /\ \A j \in 1..Len(toServer) : Before(toServer[j].blk, toClient[i]))'
      BY <1>3 DEF FifoInv, ChannelInv, Buffered, RecvAck
    <3>4. ASSUME NEW j \in 1..Len(toServer') PROVE Before(ackCounter', toServer'[j])
      <4>1. /\ toServer'[j] = toServer[j + 1] /\ j + 1 \in 1..Len(toServer) /\ 1 < j + 1
        BY <1>1 DEF RecvAck
      <4>2. Before(ack.blk, toServer[j + 1])
        BY <1>1, <4>1 DEF FifoInv, ChannelInv, Ordered
      <4> QED BY <2>2, <2>7, <4>1, <4>2
    <3>5. Ordered(toClient)'
      BY DEF FifoInv, ChannelInv, RecvAck
    <3> QED BY <1>3, <3>1, <3>2, <3>3, <3>4, <3>5 DEF ChannelInv
  <2> QED BY <1>6, <2>9, <2>10, <2>11, <2>12 DEF FifoInv
<1>8. CASE ~Acks(ack, srvWindow[1])
  <2>1. AckOther(ack)
    BY <1>1, <1>2, <1>8 DEF RecvAck
  <2>2. ack.num \notin 0..NumMod /\ ack.num \in Int
    <3>1. IsAck(ack) \/ IsJunk(ack)
      BY <1>1 DEF FifoInv, ChannelInv
    <3>2. ack \in Datagram
      BY <1>1
    <3> HIDE DEF ack
    <3>3. CASE IsAck(ack)
      <4>1. ack.blk \in 1..packetsInMem /\ ack.num = Htonl(NumOf(ack.blk))
        BY <3>3 DEF IsAck
      <4>2. NumOf(ack.blk) \in 1..NumMod
        BY <4>1, <1>1, NumOfType, SMTT(30)
      <4>3. ack.num = 16777216 * NumOf(ack.blk)
        BY SMT, <4>1, <4>2, ByteSwapNum
      <4> QED BY SMT, <4>2, <4>3, ConstantTypes
    <3> QED BY <3>1, <3>2, <3>3, DatagramFields DEF IsJunk
  <2>3. /\ srvOutOfOrder' = srvOutOfOrder \cup {ack.num}
        /\ UNCHANGED <<srvState, srvWindow, ackCounter, tries>>
    BY <2>1 DEF Stores, AckOther
  <2> HIDE DEF ack
  <2>4. TypeOK'
    BY <1>1, <1>3, <2>2, <2>3 DEF FifoInv, TypeOK, RecvAck
  <2>5. ServerInv'
    BY <1>4, <2>2, <2>3 DEF NoEmptyPop, FifoInv, ServerInv, RecvAck
  <2>6. AckedWritten'
    BY <2>3 DEF FifoInv, AckedWritten
  <2> QED BY <1>5, <1>6, <2>3, <2>4, <2>5, <2>6 DEF FifoInv
<1> QED BY <1>7, <1>8

-----------------------------------------------------------------------------
(* The client. *)
LEMMA ClientTypes ==
  ASSUME FifoInv
  PROVE  /\ packetsInMem \in Nat /\ ackCounter \in Nat /\ file \in Seq(Int)
         /\ Len(file) \in Nat /\ cliOutOfOrder \in [1..NumMod -> Int]
         /\ toClient \in Seq(Datagram) /\ toServer \in Seq(Datagram)
         /\ Ordered(toClient) /\ Ordered(toServer)
         /\ ackCounter <= Len(file) /\ Len(file) <= packetsInMem
         /\ packetsInMem <= ackCounter + WindowSize
BY DEF FifoInv, TypeOK, ServerInv, ChannelInv, AckedWritten

(* A datagram that carries no block follows and precedes any other. *)
LEMMA BeforeNoBlock ==
  ASSUME FifoInv
  PROVE  /\ \A x \in Int, d \in Datagram : d.blk = NoBlock => Before(x, d)
         /\ \A i \in 1..Len(toClient) : Before(NoBlock, toClient[i])
<1>1. \A x \in Int, d \in Datagram : d.blk = NoBlock => Before(x, d)
  BY DEF Before
<1>2. ASSUME NEW i \in 1..Len(toClient) PROVE Before(NoBlock, toClient[i])
  <2>1. IsSize(toClient[i]) \/ IsData(toClient[i])
    BY DEF FifoInv, ChannelInv
  <2> QED BY SMTT(30), <2>1, ClientTypes, ConstantTypes DEF IsSize, IsData, Before, NoBlock
<1> QED BY <1>1, <1>2

(* The client sends the name. *)
LEMMA FifoSendName ==
  ASSUME FifoInv, SendName, UNCHANGED srvVars
  PROVE  FifoInv'
<1> USE DEF srvVars
<1> DEFINE name == [num |-> NameNum, blk |-> NoBlock]
<1>1. name \in Datagram /\ name.blk = NoBlock /\ name.num = NameNum
      /\ <<name>> \in Seq(Datagram) /\ toServer' = Put(toServer, <<name>>)
  BY DatagramFields, RudpClientAssumption DEF RudpClientAssumption, NoBlock, SendName
<1>2. IsJunk(name)
  BY <1>1, NameNoNumber DEF IsJunk
<1> HIDE DEF name
<1>3. /\ toServer' \in Seq(Datagram) /\ Ordered(toServer')
      /\ \A i \in 1..Len(toServer') : \/ \E p \in 1..Len(toServer) : toServer'[i] = toServer[p]
                                    \/ toServer'[i] = name
  <2>1. Ordered(<<name>>)
    BY DEF Ordered
  <2>2. \A i \in 1..Len(toServer), j \in 1..Len(<<name>>) : Before(toServer[i].blk, <<name>>[j])
    BY <1>1 DEF Before
  <2>3. /\ Put(toServer, <<name>>) \in Seq(Datagram) /\ Ordered(Put(toServer, <<name>>))
        /\ \A i \in 1..Len(Put(toServer, <<name>>)) :
             \/ \E p \in 1..Len(toServer) : Put(toServer, <<name>>)[i] = toServer[p]
             \/ \E p \in 1..Len(<<name>>) : Put(toServer, <<name>>)[i] = <<name>>[p]
    BY <1>1, <2>1, <2>2, ClientTypes, PutKeeps
  <2> QED BY <1>1, <2>3
<1>4. TypeOK'
  BY <1>3 DEF FifoInv, TypeOK, SendName, CliStates
<1>5. ServerInv' /\ ClientInv'
  BY DEF NoEmptyPop, FifoInv, ServerInv, ClientInv, Buffered, SendName
<1>6. ChannelInv'
  <2>1. (\A i \in 1..Len(toClient) : IsSize(toClient[i]) \/ IsData(toClient[i]))'
    BY DEF FifoInv, ChannelInv, IsSize, IsData, SendName
  <2>2. ASSUME NEW i \in 1..Len(toServer') PROVE (IsAck(toServer[i]) \/ IsJunk(toServer[i]))'
    <3>1. CASE toServer'[i] = name
      BY <1>2, <3>1 DEF IsJunk
    <3>2. ASSUME NEW p \in 1..Len(toServer), toServer'[i] = toServer[p]
          PROVE  (IsAck(toServer[i]) \/ IsJunk(toServer[i]))'
      <4>1. IsAck(toServer[p]) \/ IsJunk(toServer[p])
        BY DEF FifoInv, ChannelInv
      <4> QED BY <3>2, <4>1 DEF IsAck, IsJunk, SendName
    <3> QED BY <1>3, <3>1, <3>2
  <2>3. (\A i \in 1..Len(toClient) :
           /\ Before(Len(file), toClient[i])
           /\ \A s \in 1..NumMod : Buffered(s) => Before(cliOutOfOrder[s], toClient[i])
           /\ \A j \in 1..Len(toServer) : Before(toServer[j].blk, toClient[i]))'
    BY <1>1, <1>3, BeforeNoBlock DEF FifoInv, ChannelInv, Buffered, SendName
  <2>4. (\A j \in 1..Len(toServer) : Before(ackCounter, toServer[j]))'
    BY <1>1, <1>3 DEF FifoInv, ChannelInv, Before
  <2>5. Ordered(toClient)'
    BY DEF FifoInv, ChannelInv, SendName
  <2> QED BY <1>3, <2>1, <2>2, <2>3, <2>4, <2>5 DEF ChannelInv
<1>7. FilePrefix' /\ BufferOfThisLap' /\ AckedWritten' /\ (Len(file) <= packetsInMem)'
  BY DEF FifoInv, FilePrefix, BufferOfThisLap, AckedWritten, Buffered, SendName
<1> QED BY <1>4, <1>5, <1>6, <1>7 DEF FifoInv

(* Receiving a datagram thins out the channel and does nothing else to it. *)
LEMMA ClientTail ==
  ASSUME FifoInv, toClient # <<>>, toClient' = Tail(toClient)
  PROVE  /\ toClient' \in Seq(Datagram) /\ Ordered(toClient')
         /\ Len(toClient') = Len(toClient) - 1
         /\ \A i \in 1..Len(toClient') :
              /\ toClient'[i] = toClient[i + 1] /\ i + 1 \in 1..Len(toClient)
              /\ Before(toClient[1].blk, toClient[i + 1])
         /\ 1 \in 1..Len(toClient) /\ Head(toClient) = toClient[1]
         /\ toClient[1] \in Datagram
<1>1. /\ toClient' \in Seq(Datagram) /\ Len(toClient') = Len(toClient) - 1
      /\ \A i \in 1..Len(toClient') : toClient'[i] = toClient[i + 1]
      /\ 1 \in 1..Len(toClient) /\ Head(toClient) = toClient[1]
      /\ toClient[1] \in Datagram /\ Len(toClient) \in Nat
  BY ClientTypes
<1>2. \A i \in 1..Len(toClient') : i + 1 \in 1..Len(toClient) /\ 1 < i + 1
  BY <1>1
<1>3. \A i \in 1..Len(toClient') : Before(toClient[1].blk, toClient[i + 1])
  BY <1>1, <1>2, ClientTypes DEF Ordered
<1>4. Ordered(toClient')
  BY ClientTypes, TailThins, ThinsKeeps
<1> QED BY <1>1, <1>2, <1>3, <1>4

(* The client takes the length, or a packet in its place, for the length. *)
LEMMA FifoRecvSize ==
  ASSUME FifoInv, RecvSize, UNCHANGED srvVars
  PROVE  FifoInv'
<1> USE DEF srvVars
<1> DEFINE d == toClient[1]
<1>1. /\ toClient # <<>> /\ toClient' = Tail(toClient) /\ Head(toClient) = d
      /\ cliState = "awaitSize" /\ cliState' = "receiving" /\ d \in Datagram
      /\ cliWindow = <<>> /\ file = <<>> /\ cliSeq = 0 /\ file' = <<>>
  BY ClientTail DEF RecvSize, FifoInv, ClientInv
<1>2. totalBytes' >= FileBytes /\ totalBytes' \in Int
  <2>1. IsSize(d) \/ IsData(d)
    BY <1>1, ClientTail DEF FifoInv, ChannelInv
  <2>2. totalBytes' = Ntohl(d.num) /\ d.num \in Int
    BY <1>1, DatagramFields DEF RecvSize
  <2> HIDE DEF d
  <2>3. CASE IsSize(d)
    BY SMT, <2>2, <2>3, ByteSwapSize, FifoAssumption DEF IsSize, FifoAssumption
  <2>4. CASE IsData(d)
    <3>1. d.num \in 1..NumMod
      <4>1. d.num = NumOf(d.blk) /\ d.blk \in Int
        BY <2>4, ClientTypes DEF IsData
      <4> QED BY <4>1, NumOfType
    <3>2. Ntohl(d.num) = 16777216 * d.num
      BY SMT, <3>1, ByteSwapNum, ConstantTypes DEF Htonl
    <3> QED BY SMT, <2>2, <3>1, <3>2, ConstantTypes, FifoAssumption DEF FifoAssumption
  <2> QED BY <2>1, <2>3, <2>4
<1>3. /\ cliWindow' = [j \in 1..WindowSize |-> NumOf(0 + j)]
      /\ cliSeq' = NumOf(0 + WindowSize)
      /\ cliWindow' \in Seq(1..NumMod) /\ cliSeq' \in 0..NumMod /\ cliWindow' # <<>>
  <2>1. \A j \in Int : NumAfter(0, j) = NumOf(0 + j) /\ NumOf(0 + j) \in 1..NumMod
    BY NumAfterZero, NumOfType
  <2>2. /\ cliWindow' = [j \in 1..WindowSize |-> NumOf(0 + j)]
        /\ cliSeq' = NumOf(0 + WindowSize)
    BY <1>1, <2>1, ConstantTypes DEF RecvSize
  <2>3. cliWindow' \in Seq(1..NumMod) /\ Len(cliWindow') = WindowSize
    BY <2>1, <2>2, ConstantTypes, SMTT(30)
  <2>4. cliWindow' # <<>>
    BY <2>3, ConstantTypes
  <2>5. cliSeq' \in 0..NumMod
    <3>1. WindowSize \in Int
      BY ConstantTypes
    <3>2. cliSeq' \in 1..NumMod
      BY <2>1, <2>2, <3>1
    <3> QED BY <3>2, ConstantTypes
  <2> QED BY <2>2, <2>3, <2>4, <2>5
<1>4. TypeOK'
  BY <1>1, <1>2, <1>3, ClientTail DEF FifoInv, TypeOK, RecvSize, CliStates
<1>5. ServerInv'
  BY DEF NoEmptyPop, FifoInv, ServerInv, RecvSize
<1>6. ClientInv'
  <2>1. Len(file') = 0
    BY <1>1
  <2> QED BY <1>1, <1>2, <1>3, <2>1 DEF FifoInv, ClientInv, Buffered, RecvSize
<1>7. ChannelInv'
  <2>1. (\A i \in 1..Len(toClient) : IsSize(toClient[i]) \/ IsData(toClient[i]))'
    BY <1>1, ClientTail DEF FifoInv, ChannelInv, IsSize, IsData
  <2>2. (\A i \in 1..Len(toServer) : IsAck(toServer[i]) \/ IsJunk(toServer[i]))'
    BY DEF FifoInv, ChannelInv, IsAck, IsJunk, RecvSize
  <2>3. (\A i \in 1..Len(toClient) :
           /\ Before(Len(file), toClient[i])
           /\ \A s \in 1..NumMod : Buffered(s) => Before(cliOutOfOrder[s], toClient[i])
           /\ \A j \in 1..Len(toServer) : Before(toServer[j].blk, toClient[i]))'
    BY <1>1, ClientTail DEF FifoInv, ChannelInv, Buffered, RecvSize
  <2>4. (\A j \in 1..Len(toServer) : Before(ackCounter, toServer[j]))' /\ Ordered(toServer)'
    BY DEF FifoInv, ChannelInv, RecvSize
  <2> QED BY <1>1, ClientTail, <2>1, <2>2, <2>3, <2>4 DEF ChannelInv
<1>8. FilePrefix' /\ BufferOfThisLap' /\ AckedWritten' /\ (Len(file) <= packetsInMem)'
  BY <1>1 DEF FifoInv, ClientInv, FilePrefix, BufferOfThisLap, AckedWritten, Buffered, RecvSize
<1> QED BY <1>4, <1>5, <1>6, <1>7, <1>8 DEF FifoInv

(* The client dies. *)
LEMMA FifoClientCrash ==
  ASSUME FifoInv, ClientCrash, UNCHANGED srvVars
  PROVE  FifoInv'
<1> USE DEF srvVars, ClientCrash
<1>1. TypeOK'
  BY UdpNetworkAssumption DEF UdpNetworkAssumption, FifoInv, TypeOK, CliStates, Fault
<1>2. ServerInv' /\ ClientInv'
  BY DEF NoEmptyPop, FifoInv, ServerInv, ClientInv, Buffered
<1>3. ChannelInv'
  BY DEF FifoInv, ChannelInv, Buffered, IsSize, IsData, IsAck, IsJunk, Ordered
<1>4. FilePrefix' /\ BufferOfThisLap' /\ AckedWritten' /\ (Len(file) <= packetsInMem)'
  BY DEF FifoInv, FilePrefix, BufferOfThisLap, AckedWritten, Buffered
<1> QED BY <1>1, <1>2, <1>3, <1>4 DEF FifoInv

-----------------------------------------------------------------------------
(* The client's window and what its numbers mean. *)
LEMMA WindowNumbers ==
  ASSUME FifoInv, cliWindow # <<>>
  PROVE  /\ cliWindow = [j \in 1..WindowSize |-> NumOf(Len(file) + j)]
         /\ Len(cliWindow) = WindowSize
         /\ \A j \in 1..WindowSize : /\ cliWindow[j] = NumOf(Len(file) + j)
                                    /\ cliWindow[j] \in 1..NumMod
         /\ \A i, j \in 1..WindowSize : cliWindow[i] = cliWindow[j] => i = j
<1>1. cliWindow = [j \in 1..WindowSize |-> NumOf(Len(file) + j)]
  BY DEF FifoInv, ClientInv
<1>2. Len(cliWindow) = WindowSize /\ Len(file) \in Nat
  BY <1>1, ConstantTypes, ClientTypes
<1>3. \A j \in 1..WindowSize : cliWindow[j] = NumOf(Len(file) + j)
  BY <1>1
<1>4. \A j \in 1..WindowSize : cliWindow[j] \in 1..NumMod
  BY <1>2, <1>3, NumOfType
<1>5. ASSUME NEW i \in 1..WindowSize, NEW j \in 1..WindowSize, cliWindow[i] = cliWindow[j]
      PROVE  i = j
  <2> DEFINE a == Len(file) + i
             b == Len(file) + j
  <2>1. /\ a \in Int /\ b \in Int /\ a - b < NumMod /\ b - a < NumMod /\ (a = b => i = j)
    BY <1>2, ConstantTypes
  <2>2. NumOf(a) = NumOf(b)
    BY <1>3, <1>5
  <2> HIDE DEF a, b
  <2> QED BY <2>1, <2>2, NumOfSame
<1> QED BY <1>1, <1>2, <1>3, <1>4, <1>5

(* A packet on its way to the client has the j-th number of its window only *)
(* when it holds the j-th block the client has not written; and a block     *)
(* that is not written is in the window.                                    *)
LEMMA PacketNumbers ==
  ASSUME FifoInv, cliWindow # <<>>, NEW i \in 1..Len(toClient), IsData(toClient[i])
  PROVE  LET b == toClient[i].blk IN
         /\ b \in 1..packetsInMem /\ b < Len(file) + WindowSize + 1 /\ Len(file) < b + WindowSize
         /\ \A j \in 1..WindowSize : (cliWindow[j] = toClient[i].num) <=> (b = Len(file) + j)
<1> DEFINE b == toClient[i].blk
<1>1. b \in 1..packetsInMem /\ toClient[i].num = NumOf(b)
  BY DEF IsData
<1>2. Before(Len(file), toClient[i])
  BY DEF FifoInv, ChannelInv
<1>3. Len(file) < b + WindowSize
  BY <1>1, <1>2 DEF Before, NoBlock
<1> HIDE DEF b
<1>4. b \in Int /\ Len(file) \in Int /\ b < Len(file) + WindowSize + 1
  BY <1>1, ClientTypes, ConstantTypes
<1>5. ASSUME NEW j \in 1..WindowSize
      PROVE  (cliWindow[j] = NumOf(b)) <=> (b = Len(file) + j)
  <2> DEFINE a == Len(file) + j
  <2>1. a \in Int /\ a - b < NumMod /\ b - a < NumMod
    BY <1>3, <1>4, ConstantTypes
  <2>2. cliWindow[j] = NumOf(a)
    BY WindowNumbers
  <2> HIDE DEF a
  <2>3. (NumOf(a) = NumOf(b)) <=> (a = b)
    BY <1>4, <2>1, NumOfSame
  <2> QED BY <2>2, <2>3 DEF a
<1> QED BY <1>1, <1>3, <1>4, <1>5 DEF b

(* What the client buffers is behind the front of its window. *)
LEMMA BufferedBlock ==
  ASSUME FifoInv, NEW s \in 1..NumMod, Buffered(s)
  PROVE  /\ cliWindow # <<>> /\ cliOutOfOrder[s] <= packetsInMem
         /\ \E j \in 2..WindowSize :
              cliWindow[j] = s /\ cliOutOfOrder[s] = Len(file) + j /\ s = NumOf(Len(file) + j)
<1>1. cliWindow # <<>> /\ cliOutOfOrder[s] <= packetsInMem
  BY DEF FifoInv, ClientInv
<1>2. PICK j \in 2..WindowSize : cliWindow[j] = s /\ cliOutOfOrder[s] = Len(file) + j
  BY DEF FifoInv, BufferOfThisLap
<1>3. j \in 1..WindowSize
  BY ConstantTypes
<1> QED BY <1>1, <1>2, <1>3, WindowNumbers

(* recvFile() preserves the invariant when the packet is not the next one. *)
LEMMA FifoRecvOutOfOrder ==
  ASSUME FifoInv, RecvOutOfOrder, UNCHANGED srvVars
  PROVE  FifoInv'
<1> USE DEF srvVars
<1> DEFINE d == toClient[1]
           ack == [num |-> Htonl(d.num), blk |-> d.blk]
<1>1. /\ toClient # <<>> /\ toClient' = Tail(toClient) /\ Head(toClient) = d
      /\ d \in Datagram /\ 1 \in 1..Len(toClient) /\ cliState = "receiving"
      /\ cliWindow # <<>> /\ d.num # cliWindow[1]
      /\ toServer' = Put(toServer, <<ack>>)
      /\ cliOutOfOrder' = IF InWindow(d.num) THEN [cliOutOfOrder EXCEPT ![d.num] = d.blk]
                          ELSE cliOutOfOrder
      /\ UNCHANGED <<cliState, cliWindow, cliSeq, totalBytes, packetCounter,
                     bytesWritten, file, faults>>
  BY ClientTail DEF RecvOutOfOrder, FifoInv, ClientInv, InOrder
<1>2. ack \in Datagram /\ ack.blk = d.blk /\ ack.num = Htonl(d.num) /\ d.blk \in Int
      /\ <<ack>> \in Seq(Datagram)
  BY <1>1, DatagramFields, ByteSwapInt
<1>3. IsSize(d) \/ IsData(d)
  BY <1>1 DEF FifoInv, ChannelInv
<1>4. Before(Len(file), d) /\ \A j \in 1..Len(toServer) : Before(toServer[j].blk, d)
  BY <1>1 DEF FifoInv, ChannelInv
<1> HIDE DEF d, ack
<1>5. ASSUME NEW j \in 1..WindowSize, cliWindow[j] = d.num
      PROVE  /\ IsData(d) /\ j \in 2..WindowSize /\ d.blk = Len(file) + j
             /\ d.num \in 1..NumMod /\ d.blk <= packetsInMem
  <2>1. d.num \in 1..NumMod
    BY <1>1, <1>5, WindowNumbers
  <2>2. IsData(d)
    BY <1>3, <2>1, ByteSwapSize, ConstantTypes DEF IsSize
  <2>3. d.blk = Len(file) + j /\ d.blk \in 1..packetsInMem
    BY <1>1, <1>5, <2>2, PacketNumbers DEF d
  <2>4. j \in 2..WindowSize
    BY <1>1, <1>5, ConstantTypes
  <2>5. d.blk <= packetsInMem
    BY <2>3, ClientTypes
  <2> QED BY <2>1, <2>2, <2>3, <2>4, <2>5
<1>6. IsData(d) /\ d.blk > Len(file) =>
        /\ InWindow(d.num) /\ d.num \in 1..NumMod /\ cliOutOfOrder'[d.num] = d.blk
  <2> SUFFICES ASSUME IsData(d), d.blk > Len(file)
               PROVE  InWindow(d.num) /\ d.num \in 1..NumMod /\ cliOutOfOrder'[d.num] = d.blk
    OBVIOUS
  <2> DEFINE j == d.blk - Len(file)
  <2>1. d.blk < Len(file) + WindowSize + 1
        /\ \A k \in 1..WindowSize : (cliWindow[k] = d.num) <=> (d.blk = Len(file) + k)
    BY <1>1, PacketNumbers DEF d
  <2>2. j \in 1..WindowSize /\ d.blk = Len(file) + j
    <3>1. Len(file) \in Nat
      BY ClientTypes
    <3> QED BY <1>2, <2>1, <3>1, ConstantTypes
  <2>3. cliWindow[j] = d.num
    BY <2>1, <2>2
  <2> HIDE DEF j
  <2>4. InWindow(d.num) /\ d.num \in 1..NumMod
    BY <1>5, <2>2, <2>3 DEF InWindow
  <2> QED BY <1>1, <2>4, ClientTypes
<1>7. /\ cliOutOfOrder' \in [1..NumMod -> Int]
      /\ \A s \in 1..NumMod : s # d.num => cliOutOfOrder'[s] = cliOutOfOrder[s]
      /\ \A s \in 1..NumMod : ~InWindow(s) => cliOutOfOrder'[s] = cliOutOfOrder[s]
  BY <1>1, <1>2, ClientTypes
<1>8. ASSUME NEW s \in 1..NumMod, Buffered(s)'
      PROVE  \/ Buffered(s) /\ cliOutOfOrder'[s] = cliOutOfOrder[s]
             \/ s = d.num /\ InWindow(s) /\ cliOutOfOrder'[s] = d.blk
  BY <1>1, <1>7, <1>8, ClientTypes DEF Buffered
<1>9. ASSUME NEW s \in 1..NumMod, Buffered(s)'
      PROVE  /\ cliOutOfOrder'[s] <= packetsInMem
             /\ \E j \in 2..WindowSize : cliWindow[j] = s /\ cliOutOfOrder'[s] = Len(file) + j
  <2>1. CASE Buffered(s) /\ cliOutOfOrder'[s] = cliOutOfOrder[s]
    BY <2>1, BufferedBlock
  <2>2. CASE s = d.num /\ InWindow(s) /\ cliOutOfOrder'[s] = d.blk
    BY <1>5, <2>2 DEF InWindow
  <2> QED BY <1>8, <1>9, <2>1, <2>2
<1>10. /\ toServer' \in Seq(Datagram) /\ Ordered(toServer')
       /\ \A i \in 1..Len(toServer') : \/ \E p \in 1..Len(toServer) : toServer'[i] = toServer[p]
                                     \/ toServer'[i] = ack
  <2>1. Ordered(<<ack>>)
    BY DEF Ordered
  <2>2. \A i \in 1..Len(toServer), j \in 1..Len(<<ack>>) : Before(toServer[i].blk, <<ack>>[j])
    BY <1>2, <1>4 DEF Before
  <2>3. /\ Put(toServer, <<ack>>) \in Seq(Datagram) /\ Ordered(Put(toServer, <<ack>>))
        /\ \A i \in 1..Len(Put(toServer, <<ack>>)) :
             \/ \E p \in 1..Len(toServer) : Put(toServer, <<ack>>)[i] = toServer[p]
             \/ \E p \in 1..Len(<<ack>>) : Put(toServer, <<ack>>)[i] = <<ack>>[p]
    BY <1>2, <2>1, <2>2, ClientTypes, PutKeeps
  <2> QED BY <1>1, <2>3
<1>11. TypeOK'
  BY <1>1, <1>7, <1>10, ClientTail DEF FifoInv, TypeOK, RecvOutOfOrder
<1>12. ServerInv'
  BY DEF NoEmptyPop, FifoInv, ServerInv, RecvOutOfOrder
<1>13. ClientInv'
  <2>1. \A s \in 1..NumMod : Buffered(s)' => cliOutOfOrder'[s] <= packetsInMem'
    BY <1>9 DEF RecvOutOfOrder
  <2> QED BY <1>1, <2>1 DEF FifoInv, ClientInv, Buffered
<1>14. \/ IsJunk(ack)
       \/ /\ ack.blk \in 1..packetsInMem' /\ ack.num = Htonl(NumOf(ack.blk))
          /\ ack.blk <= Len(file') \/ cliOutOfOrder'[NumOf(ack.blk)] = ack.blk
  <2>1. CASE IsSize(d)
    <3>1. d.blk = NoBlock /\ Htonl(d.num) = FileBytes
      BY <2>1, ByteSwapSize DEF IsSize, Htonl
    <3>2. FileBytes \notin 0..NumMod
      BY SMT, FifoAssumption, ConstantTypes DEF FifoAssumption
    <3>3. Ntohl(FileBytes) \notin 0..NumMod
      BY ByteSwapSize DEF Htonl
    <3>4. ack.num = FileBytes /\ ack.blk = NoBlock
      BY <1>2, <3>1
    <3> QED BY <3>2, <3>3, <3>4 DEF IsJunk
  <2>2. CASE IsData(d)
    <3>1. ack.blk \in 1..packetsInMem /\ ack.num = Htonl(NumOf(ack.blk)) /\ NumOf(ack.blk) = d.num
      BY <1>2, <2>2 DEF IsData
    <3>2. ack.blk <= Len(file) \/ cliOutOfOrder'[NumOf(ack.blk)] = ack.blk
      BY <1>2, <1>6, <2>2, <3>1, ClientTypes
    <3>3. packetsInMem' = packetsInMem /\ file' = file
      BY <1>1
    <3> QED BY <3>1, <3>2, <3>3
  <2> QED BY <1>3, <2>1, <2>2
<1>15. ASSUME NEW a \in Datagram, IsAck(a), a.blk > Len(file)
       PROVE  cliOutOfOrder'[NumOf(a.blk)] = a.blk
  <2> DEFINE s == NumOf(a.blk)
  <2>1. s \in 1..NumMod /\ cliOutOfOrder[s] = a.blk /\ a.blk \in Nat
    <3>1. a.blk \in 1..packetsInMem /\ Len(file) \in Nat /\ packetsInMem \in Nat
      BY <1>15, ClientTypes DEF IsAck
    <3>2. a.blk \in Nat /\ ~(a.blk <= Len(file))
      BY <1>15, <3>1
    <3> QED BY <1>15, <3>2, NumOfType DEF IsAck
  <2>2. Buffered(s)
    BY <2>1 DEF Buffered, NotBuffered
  <2> HIDE DEF s
  <2>3. PICK j \in 2..WindowSize : cliWindow[j] = s /\ cliOutOfOrder[s] = Len(file) + j
    BY <2>1, <2>2, BufferedBlock
  <2>4. CASE s = d.num
    <3>1. j \in 1..WindowSize
      BY <2>3, ConstantTypes
    <3>2. d.blk = Len(file) + j /\ IsData(d)
      BY <1>5, <2>3, <2>4, <3>1
    <3>3. d.blk > Len(file)
      BY <3>2, ClientTypes
    <3> QED BY <1>6, <2>1, <2>3, <2>4, <3>2, <3>3 DEF s
  <2>5. CASE s # d.num
    BY <1>7, <2>1, <2>5 DEF s
  <2> QED BY <2>4, <2>5
<1>16. ChannelInv'
  <2>1. (\A i \in 1..Len(toClient) : IsSize(toClient[i]) \/ IsData(toClient[i]))'
    BY <1>1, ClientTail DEF FifoInv, ChannelInv, IsSize, IsData
  <2>2. ASSUME NEW i \in 1..Len(toServer') PROVE (IsAck(toServer[i]) \/ IsJunk(toServer[i]))'
    <3>1. CASE toServer'[i] = ack
      BY <1>14, <3>1 DEF IsAck, IsJunk
    <3>2. ASSUME NEW p \in 1..Len(toServer), toServer'[i] = toServer[p]
          PROVE  (IsAck(toServer[i]) \/ IsJunk(toServer[i]))'
      <4>1. (IsAck(toServer[p]) \/ IsJunk(toServer[p])) /\ toServer[p] \in Datagram
        BY ClientTypes DEF FifoInv, ChannelInv
      <4>2. CASE IsJunk(toServer[p])
        BY <3>2, <4>2 DEF IsJunk
      <4>3. CASE IsAck(toServer[p])
        <5>1. \/ toServer[p].blk <= Len(file)
              \/ cliOutOfOrder'[NumOf(toServer[p].blk)] = toServer[p].blk
          <6>1. toServer[p].blk \in Int /\ Len(file) \in Int
            BY <4>1, DatagramFields, ClientTypes
          <6>2. toServer[p].blk <= Len(file) \/ toServer[p].blk > Len(file)
            BY <6>1
          <6> QED BY <1>15, <4>1, <4>3, <6>2
        <5> QED BY <1>1, <3>2, <4>3, <5>1 DEF IsAck
      <4> QED BY <4>1, <4>2, <4>3
    <3> QED BY <1>10, <3>1, <3>2
  <2>3. ASSUME NEW i \in 1..Len(toClient')
        PROVE  /\ Before(Len(file'), toClient'[i])
               /\ \A s \in 1..NumMod : Buffered(s)' => Before(cliOutOfOrder'[s], toClient'[i])
               /\ \A j \in 1..Len(toServer') : Before(toServer'[j].blk, toClient'[i])
    <3>1. /\ toClient'[i] = toClient[i + 1] /\ i + 1 \in 1..Len(toClient)
          /\ Before(d.blk, toClient[i + 1])
      BY <1>1, ClientTail DEF d
    <3>2. /\ Before(Len(file), toClient[i + 1])
          /\ \A s \in 1..NumMod : Buffered(s) => Before(cliOutOfOrder[s], toClient[i + 1])
          /\ \A j \in 1..Len(toServer) : Before(toServer[j].blk, toClient[i + 1])
      BY <3>1 DEF FifoInv, ChannelInv
    <3>3. \A s \in 1..NumMod : Buffered(s)' => Before(cliOutOfOrder'[s], toClient'[i])
      BY <1>8, <3>1, <3>2
    <3>4. \A j \in 1..Len(toServer') : Before(toServer'[j].blk, toClient'[i])
      BY <1>2, <1>10, <3>1, <3>2
    <3> QED BY <1>1, <3>1, <3>2, <3>3, <3>4
  <2>4. ASSUME NEW j \in 1..Len(toServer') PROVE Before(ackCounter, toServer'[j])
    <3>1. Before(ackCounter, ack)
      <4>1. ackCounter \in Int /\ Len(file) \in Int /\ ackCounter <= Len(file)
        BY ClientTypes
      <4>2. d.blk # NoBlock => Len(file) < d.blk + WindowSize
        BY <1>4 DEF Before
      <4>3. d.blk # NoBlock => ackCounter < d.blk + WindowSize
        BY <1>2, <4>1, <4>2, ConstantTypes
      <4> QED BY <1>2, <4>3 DEF Before
    <3> QED BY <1>10, <3>1 DEF FifoInv, ChannelInv
  <2> QED BY <1>1, <1>10, ClientTail, <2>1, <2>2, <2>3, <2>4 DEF ChannelInv
<1>17. FilePrefix' /\ BufferOfThisLap' /\ AckedWritten' /\ (Len(file) <= packetsInMem)'
  <2>1. FilePrefix' /\ AckedWritten' /\ (Len(file) <= packetsInMem)'
    BY <1>1 DEF FifoInv, FilePrefix, AckedWritten
  <2>2. BufferOfThisLap'
    BY <1>1, <1>9 DEF BufferOfThisLap
  <2> QED BY <2>1, <2>2
<1> QED BY <1>11, <1>12, <1>13, <1>16, <1>17 DEF FifoInv

-----------------------------------------------------------------------------
(* A length announced too great makes for no fewer packets. *)
LEMMA MorePackets ==
  ASSUME NEW x \in Nat, x >= FileBytes
  PROVE  PacketsIn(x) \in Nat /\ PacketsIn(x) >= Total
<1> DEFINE y == FileBytes
           p == x \div 1000
           q == y \div 1000
           r == x % 1000
           s == y % 1000
<1>1. y \in Int /\ x \in Int /\ x >= y /\ x >= 0 /\ y >= 0 /\ 1000 \in Nat \ {0}
  BY FifoAssumption DEF FifoAssumption
<1> HIDE DEF y
<1>2. p \in Int /\ r \in 0..999 /\ r = x - 1000 * p
  BY <1>1, DivMod
<1>3. q \in Int /\ s \in 0..999 /\ s = y - 1000 * q
  BY <1>1, DivMod
<1>4. /\ PacketsIn(x) = p + (IF r = 0 THEN 0 ELSE 1)
      /\ PacketsIn(y) = q + (IF s = 0 THEN 0 ELSE 1)
  BY DEF PacketsIn, BlockSize
<1> HIDE DEF p, q, r, s
<1>5. p >= q /\ p >= 0 /\ (p = q => r >= s)
  BY <1>1, <1>2, <1>3
<1>6. PacketsIn(x) \in Nat /\ PacketsIn(x) >= PacketsIn(y)
  BY <1>2, <1>3, <1>4, <1>5
<1> QED BY <1>6 DEF Total, y

(* What an in-order packet makes the client deliver: the next n blocks. *)
LEMMA DeliveredBlocks ==
  ASSUME FifoInv, cliState = "receiving", toClient # <<>>, InOrder(toClient[1]),
         NEW n \in 1..WindowSize, Deliverable(n)
  PROVE  /\ cliWindow # <<>> /\ toClient[1].blk = Len(file) + 1
         /\ \A k \in 1..n : /\ BlockAt(toClient[1], k) = Len(file) + k
                            /\ Len(file) + k \in 1..packetsInMem
                            /\ k >= 2 => cliOutOfOrder[cliWindow[k]] = Len(file) + k
                                           /\ Buffered(cliWindow[k])
<1> DEFINE d == toClient[1]
<1>1. /\ cliWindow # <<>> /\ 1 \in 1..Len(toClient) /\ d \in Datagram /\ Len(file) \in Nat
      /\ packetsInMem \in Nat /\ d.num = cliWindow[1] /\ 1 \in 1..WindowSize
  BY SMTT(30), ClientTypes, ConstantTypes DEF FifoInv, ClientInv, InOrder
<1>2. IsData(d)
  <2>1. IsSize(d) \/ IsData(d)
    BY <1>1 DEF FifoInv, ChannelInv
  <2>2. d.num \in 0..NumMod
    <3>1. cliWindow[1] \in 1..NumMod
      BY <1>1, WindowNumbers
    <3> QED BY <1>1, <3>1, ConstantTypes
  <2> QED BY <2>1, <2>2, ByteSwapSize DEF IsSize
<1>3. d.blk \in 1..packetsInMem /\ d.blk = Len(file) + 1
  BY <1>1, <1>2, PacketNumbers
<1>4. ASSUME NEW k \in 1..n
      PROVE  /\ BlockAt(d, k) = Len(file) + k /\ Len(file) + k \in 1..packetsInMem
             /\ k >= 2 => cliOutOfOrder[cliWindow[k]] = Len(file) + k /\ Buffered(cliWindow[k])
  <2>1. CASE k = 1
    BY <1>3, <2>1 DEF BlockAt
  <2>2. CASE k # 1
    <3> DEFINE s == cliWindow[k]
    <3>1. k \in 2..n /\ k \in 1..WindowSize
      BY <2>2, ConstantTypes
    <3>2. Buffered(s) /\ s \in 1..NumMod
      BY <1>1, <3>1, WindowNumbers DEF Deliverable
    <3> HIDE DEF s
    <3>3. PICK j \in 2..WindowSize : cliWindow[j] = s /\ cliOutOfOrder[s] = Len(file) + j
      BY <3>2, BufferedBlock
    <3>4. j = k
      <4>1. j \in 1..WindowSize
        BY <3>3, ConstantTypes
      <4> QED BY <1>1, <3>1, <3>3, <4>1, WindowNumbers DEF s
    <3>5. cliOutOfOrder[s] <= packetsInMem
      BY <3>2, BufferedBlock
    <3>6. Len(file) + k \in 1..packetsInMem
      BY <1>1, <3>1, <3>3, <3>4, <3>5
    <3> QED BY <2>2, <3>2, <3>3, <3>4, <3>6 DEF BlockAt, s
  <2> QED BY <2>1, <2>2
<1> QED BY <1>1, <1>3, <1>4

(* The acknowledgements of these blocks. *)
LEMMA AcksOfDelivered ==
  ASSUME FifoInv, NEW pkt, NEW n \in 1..WindowSize, cliWindow # <<>>,
         \A k \in 1..n : BlockAt(pkt, k) = Len(file) + k
  PROVE  /\ AcksFor(pkt, n) \in Seq(Datagram)
         /\ \A i \in 1..Len(AcksFor(pkt, n)) : \E k \in 1..n :
              AcksFor(pkt, n)[i] = [num |-> Htonl(NumOf(Len(file) + k)), blk |-> Len(file) + k]
<1> DEFINE L == Len(file)
           Ack(k) == [num |-> Htonl(NumOf(L + k)), blk |-> L + k]
           acks == [j \in 1..n |-> [num |-> Htonl(cliWindow[j]), blk |-> BlockAt(pkt, j)]]
           copies == [i \in 1..FinalAcks |-> acks[n]]
<1>1. L \in Nat /\ FinalAcks \in Nat /\ n \in Nat /\ n >= 1
  BY ClientTypes, ConstantTypes, RudpClientAssumption DEF RudpClientAssumption
<1>2. \A k \in 1..n : cliWindow[k] = NumOf(L + k)
  BY WindowNumbers, ConstantTypes
<1>3. acks = [k \in 1..n |-> Ack(k)]
  BY <1>2
<1>4. ASSUME NEW k \in 1..n PROVE Ack(k) \in Datagram
  <2>1. L + k \in Int
    BY <1>1
  <2>2. NumOf(L + k) \in Int
    BY <2>1, NumOfType
  <2>3. Htonl(NumOf(L + k)) \in Int
    BY <2>2, ByteSwapInt
  <2> QED BY <2>1, <2>3 DEF Datagram
<1> HIDE DEF acks, Ack
<1>5. acks \in Seq(Datagram) /\ Len(acks) = n /\ \A k \in 1..n : acks[k] = Ack(k)
  BY <1>1, <1>3, <1>4
<1>6. copies \in Seq(Datagram) /\ Len(copies) = FinalAcks
      /\ \A i \in 1..FinalAcks : copies[i] = Ack(n)
  BY <1>1, <1>4, <1>5
<1> HIDE DEF copies
<1>7. AcksFor(pkt, n) = IF packetCounter + n = PacketsExpected THEN acks \o copies ELSE acks
  BY DEF AcksFor, acks, copies
<1>8. /\ acks \o copies \in Seq(Datagram) /\ Len(acks \o copies) = n + FinalAcks
      /\ \A i \in 1..(n + FinalAcks) :
           (acks \o copies)[i] = IF i <= n THEN acks[i] ELSE copies[i - n]
  <2>1. acks \in Seq(Datagram) /\ copies \in Seq(Datagram)
        /\ Len(acks) = n /\ Len(copies) = FinalAcks
    BY <1>5, <1>6
  <2>2. /\ acks \o copies \in Seq(Datagram)
        /\ Len(acks \o copies) = Len(acks) + Len(copies)
        /\ \A i \in 1..(Len(acks) + Len(copies)) :
             (acks \o copies)[i] = IF i <= Len(acks) THEN acks[i] ELSE copies[i - Len(acks)]
    BY <2>1, Concatenation, Zenon
  <2> QED BY <2>1, <2>2
<1>9. ASSUME NEW i \in 1..Len(AcksFor(pkt, n))
      PROVE  \E k \in 1..n : AcksFor(pkt, n)[i] = Ack(k)
  <2>1. CASE i <= n
    <3>1. i \in 1..n /\ AcksFor(pkt, n)[i] = acks[i]
      BY <1>1, <1>5, <1>7, <1>8, <2>1
    <3> QED BY <1>5, <2>1, <3>1
  <2>2. CASE i > n
    <3>1. AcksFor(pkt, n)[i] = copies[i - n] /\ i - n \in 1..FinalAcks
      BY <1>1, <1>5, <1>7, <1>8, <2>2
    <3>2. n \in 1..n
      BY <1>1
    <3> QED BY <1>6, <3>1, <3>2
  <2> QED BY <1>1, <2>1, <2>2
<1> QED BY <1>5, <1>7, <1>8, <1>9 DEF Ack

(* What stays buffered is behind the front of the window that results, and *)
(* what leaves the buffer is written.                                      *)
LEMMA StillBuffered ==
  ASSUME FifoInv, cliState = "receiving", NEW n \in 1..WindowSize, Deliverable(n),
         NEW s \in 1..NumMod, Buffered(s)
  PROVE  /\ EraseDelivered(n)[s] # NotBuffered =>
              /\ EraseDelivered(n)[s] = cliOutOfOrder[s]
              /\ cliOutOfOrder[s] <= packetsInMem
              /\ \E j \in 2..WindowSize : /\ j - n \in 2..WindowSize /\ s = NumOf(Len(file) + j)
                                          /\ cliOutOfOrder[s] = Len(file) + j
         /\ \/ cliOutOfOrder[s] <= Len(file) + n
            \/ EraseDelivered(n)[s] = cliOutOfOrder[s]
<1>1. /\ cliWindow # <<>> /\ Len(file) \in Nat /\ packetsInMem \in Nat /\ packetsInMem <= Total
      /\ n \in Nat /\ packetCounter = Len(file) /\ WindowSize \in Nat
      /\ totalBytes \in Int /\ totalBytes >= FileBytes
  BY ClientTypes, ConstantTypes DEF FifoInv, TypeOK, ClientInv, ServerInv
<1>2. PICK j \in 2..WindowSize :
        cliWindow[j] = s /\ cliOutOfOrder[s] = Len(file) + j /\ s = NumOf(Len(file) + j)
  BY BufferedBlock
<1>3. cliOutOfOrder[s] <= packetsInMem
  BY BufferedBlock
<1>4. j \in Nat /\ j \in 1..WindowSize
  BY <1>1
<1>5. EraseDelivered(n)[s] = IF \E i \in 2..n : cliWindow[i] = s THEN NotBuffered
                             ELSE cliOutOfOrder[s]
  BY DEF EraseDelivered
<1>6. CASE j <= n
  <2>1. j \in 2..n /\ cliOutOfOrder[s] <= Len(file) + n
    BY <1>1, <1>2, <1>6
  <2> QED BY <1>2, <1>5, <2>1
<1>7. CASE j > n
  <2>1. ASSUME NEW i \in 2..n, cliWindow[i] = s PROVE FALSE
    <3>1. i \in 1..WindowSize /\ i # j
      BY <1>1, <1>4, <1>7
    <3> QED BY <1>1, <1>2, <1>4, <2>1, <3>1, WindowNumbers
  <2>2. EraseDelivered(n)[s] = cliOutOfOrder[s]
    BY <1>5, <2>1
  <2>3. ASSUME j = n + 1 PROVE FALSE
    <3>1. n < WindowSize /\ Buffered(cliWindow[n + 1])
      BY <1>1, <1>2, <1>4, <2>3
    <3>2. packetCounter + n = PacketsExpected
      BY <3>1 DEF Deliverable
    <3>3. PacketsExpected = PacketsIn(totalBytes)
      BY DEF PacketsExpected, PacketsIn, BlockSize
    <3>4. totalBytes \in Nat
      BY <1>1, FifoAssumption DEF FifoAssumption
    <3>5. PacketsIn(totalBytes) \in Nat /\ PacketsIn(totalBytes) >= Total
      BY <1>1, <3>4, MorePackets
    <3>6. Len(file) + n >= packetsInMem
      BY <1>1, <3>2, <3>3, <3>5, TotalType
    <3>7. Len(file) + (n + 1) <= packetsInMem
      BY <1>2, <1>3, <2>3
    <3> QED BY <1>1, <3>6, <3>7
  <2>4. j - n \in 2..WindowSize
    BY <1>1, <1>4, <1>7, <2>3
  <2> QED BY <1>2, <1>3, <2>2, <2>4
<1> QED BY <1>1, <1>4, <1>6, <1>7

(* The window moves on with the file. *)
LEMMA WindowMoves ==
  ASSUME FifoInv, cliWindow # <<>>, NEW n \in 1..WindowSize
  PROVE  LET win == SubSeq(cliWindow, n + 1, WindowSize)
                      \o [j \in 1..n |-> NumAfter(cliSeq, j)]
         IN  /\ win = [j \in 1..WindowSize |-> NumOf(Len(file) + n + j)]
             /\ win \in Seq(1..NumMod) /\ win # <<>>
             /\ NumAfter(cliSeq, n) = NumOf(Len(file) + n + WindowSize)
             /\ NumAfter(cliSeq, n) \in 0..NumMod
<1> DEFINE L == Len(file)
           W == WindowSize
           old == SubSeq(cliWindow, n + 1, W)
           new == [j \in 1..n |-> NumAfter(cliSeq, j)]
           win == old \o new
<1>1. L \in Nat /\ W \in Nat /\ n \in Nat /\ n >= 1 /\ n <= W
  BY ClientTypes, ConstantTypes
<1>2. /\ cliWindow \in Seq(1..NumMod) /\ Len(cliWindow) = W
      /\ \A j \in 1..W : cliWindow[j] = NumOf(L + j)
  BY WindowNumbers DEF FifoInv, TypeOK
<1>3. cliSeq = NumOf(L + W)
  BY DEF FifoInv, ClientInv
<1> HIDE DEF L, W
<1>4. \A j \in Int : NumAfter(cliSeq, j) = NumOf(L + W + j) /\ NumOf(L + W + j) \in 1..NumMod
  <2> TAKE j \in Int
  <2>1. L + W \in Int /\ L + W + j \in Int
    BY <1>1
  <2> HIDE DEF L, W
  <2> QED BY <1>3, <2>1, NumAfterNumOf, NumOfType
<1>5. /\ new \in Seq(1..NumMod) /\ Len(new) = n
      /\ \A j \in 1..n : new[j] = NumOf(L + W + j)
  <2>1. \A j \in 1..n : NumAfter(cliSeq, j) = NumOf(L + W + j) /\ NumAfter(cliSeq, j) \in 1..NumMod
    <3> TAKE j \in 1..n
    <3>1. j \in Int
      BY <1>1
    <3> QED BY <1>4, <3>1
  <2>2. new \in [1..n -> 1..NumMod]
    BY <2>1
  <2>3. new \in Seq(1..NumMod)
    BY <1>1, <2>2
  <2>4. DOMAIN new = 1..n
    OBVIOUS
  <2>5. Len(new) = n
    BY <1>1, <2>3, <2>4
  <2> QED BY <2>1, <2>3, <2>5
<1>6. /\ old \in Seq(1..NumMod) /\ Len(old) = W - n
      /\ \A j \in 1..(W - n) : old[j] = cliWindow[n + j]
  <2> DEFINE c == cliWindow
  <2>0. c \in Seq(1..NumMod) /\ Len(c) = W
    BY <1>2
  <2>1. old = SubSeq(c, n + 1, W)
    OBVIOUS
  <2> HIDE DEF old, c
  <2>2. \A i \in (n + 1)..W : i \in 1..Len(c)
    BY <1>1, <2>0
  <2>3. old \in Seq(1..NumMod)
    <3> DEFINE S == 1..NumMod
    <3>1. c \in Seq(S) /\ n + 1 \in Nat /\ W \in Nat /\ n + 1 >= 1 /\ n <= Len(c)
      BY <1>1, <2>0
    <3> HIDE DEF S
    <3>2. SubSeq(c, n + 1, W) \in Seq(S)
      BY <1>1, <2>0, <2>2, <3>1
    <3> QED BY <2>1, <3>2 DEF S
  <2>4. Len(old) = W - n
    BY <1>1, <2>0, <2>1
  <2>5. ASSUME NEW j \in 1..(W - n) PROVE old[j] = c[n + j]
    BY <1>1, <2>0, <2>1, <2>5
  <2> QED BY <2>3, <2>4, <2>5 DEF c
<1> HIDE DEF old, new
<1>7. /\ win \in Seq(1..NumMod) /\ Len(win) = W
      /\ \A j \in 1..W : win[j] = IF j <= W - n THEN old[j] ELSE new[j - (W - n)]
  <2>1. win \in Seq(1..NumMod)
    BY <1>5, <1>6
  <2>2. Len(win) = W
    BY <1>1, <1>5, <1>6, SMTT(30)
  <2>3. ASSUME NEW j \in 1..W
        PROVE  win[j] = IF j <= W - n THEN old[j] ELSE new[j - (W - n)]
    BY <1>1, <1>5, <1>6
  <2> QED BY <2>1, <2>2, <2>3
<1>8. ASSUME NEW j \in 1..W PROVE win[j] = NumOf(L + n + j)
  <2>1. CASE j <= W - n
    <3>1. j \in 1..(W - n) /\ n + j \in 1..W /\ L + (n + j) = L + n + j
      BY <1>1, <2>1
    <3>2. win[j] = cliWindow[n + j]
      BY <1>6, <1>7, <2>1, <3>1
    <3>3. cliWindow[n + j] = NumOf(L + (n + j))
      BY <1>2, <3>1
    <3> QED BY <3>1, <3>2, <3>3
  <2>2. CASE ~(j <= W - n)
    <3> DEFINE k == j - (W - n)
    <3>1. k \in 1..n /\ L + W + k = L + n + j
      BY <1>1, <2>2
    <3>2. win[j] = new[k]
      BY <1>7, <2>2
    <3> HIDE DEF k
    <3> QED BY <1>5, <3>1, <3>2
  <2> QED BY <2>1, <2>2
<1> HIDE DEF win
<1>9. win = [j \in 1..W |-> NumOf(L + n + j)] /\ win # <<>>
  <2>1. DOMAIN win = 1..W
    BY <1>7
  <2>2. win = [j \in 1..W |-> win[j]]
    BY <1>7, <2>1
  <2>3. win # <<>>
    BY <1>1, <1>7
  <2> QED BY <1>8, <2>2, <2>3
<1>10. NumAfter(cliSeq, n) = NumOf(L + n + W) /\ NumAfter(cliSeq, n) \in 0..NumMod
  <2>1. L + W + n = L + n + W /\ n \in Int
    BY <1>1
  <2> QED BY <1>4, <2>1, ConstantTypes
<1> QED BY <1>7, <1>9, <1>10 DEF win, old, new, L, W

(* What sendAck() puts behind the acknowledgements in flight: each number is *)
(* again of a block written or held.                                         *)
LEMMA AcksSent ==
  ASSUME FifoInv, NEW pkt, NEW n \in 1..WindowSize, cliWindow # <<>>,
         \A k \in 1..n : BlockAt(pkt, k) = Len(file) + k,
         \A i \in 1..Len(toServer) : toServer[i].blk < Len(file) + 1 + WindowSize
  PROVE  /\ Put(toServer, AcksFor(pkt, n)) \in Seq(Datagram)
         /\ Ordered(Put(toServer, AcksFor(pkt, n)))
         /\ \A i \in 1..Len(Put(toServer, AcksFor(pkt, n))) :
              \/ \E p \in 1..Len(toServer) : Put(toServer, AcksFor(pkt, n))[i] = toServer[p]
              \/ \E k \in 1..n : Put(toServer, AcksFor(pkt, n))[i]
                                  = [num |-> Htonl(NumOf(Len(file) + k)), blk |-> Len(file) + k]
<1> DEFINE L == Len(file)
           acks == AcksFor(pkt, n)
<1>1. L \in Nat /\ n \in Nat /\ n <= WindowSize /\ WindowSize \in Nat
  BY ClientTypes, ConstantTypes
<1>2. /\ acks \in Seq(Datagram)
      /\ \A i \in 1..Len(acks) : \E k \in 1..n :
           acks[i] = [num |-> Htonl(NumOf(L + k)), blk |-> L + k]
  BY AcksOfDelivered
<1> HIDE DEF acks, L
<1>3. ASSUME NEW i \in 1..Len(acks), NEW j \in 1..Len(acks), i < j
      PROVE  Before(acks[i].blk, acks[j])
  <2>1. PICK k \in 1..n : acks[i] = [num |-> Htonl(NumOf(L + k)), blk |-> L + k]
    BY <1>2
  <2>2. PICK m \in 1..n : acks[j] = [num |-> Htonl(NumOf(L + m)), blk |-> L + m]
    BY <1>2
  <2>3. L + k < (L + m) + WindowSize
    BY <1>1
  <2> QED BY <2>1, <2>2, <2>3 DEF Before
<1>4. Ordered(acks)
  BY <1>3 DEF Ordered
<1>5. ASSUME NEW i \in 1..Len(toServer), NEW j \in 1..Len(acks)
      PROVE  Before(toServer[i].blk, acks[j])
  <2>1. PICK m \in 1..n : acks[j] = [num |-> Htonl(NumOf(L + m)), blk |-> L + m]
    BY <1>2
  <2>2. toServer[i].blk < L + 1 + WindowSize /\ toServer[i].blk \in Int
    BY ClientTypes, DatagramFields DEF L
  <2>3. toServer[i].blk < (L + m) + WindowSize
    BY <1>1, <2>2
  <2> QED BY <2>1, <2>3 DEF Before
<1>6. /\ Put(toServer, acks) \in Seq(Datagram)
      /\ Ordered(Put(toServer, acks))
      /\ \A i \in 1..Len(Put(toServer, acks)) :
           \/ \E p \in 1..Len(toServer) : Put(toServer, acks)[i] = toServer[p]
           \/ \E p \in 1..Len(acks) : Put(toServer, acks)[i] = acks[p]
  BY <1>2, <1>4, <1>5, ClientTypes, PutKeeps
<1>7. \A i \in 1..Len(Put(toServer, acks)) :
        \/ \E p \in 1..Len(toServer) : Put(toServer, acks)[i] = toServer[p]
        \/ \E k \in 1..n : Put(toServer, acks)[i] = [num |-> Htonl(NumOf(L + k)), blk |-> L + k]
  <2> DEFINE s == Put(toServer, acks)
             ack(k) == [num |-> Htonl(NumOf(L + k)), blk |-> L + k]
  <2>1. \A i \in 1..Len(acks) : \E k \in 1..n : acks[i] = ack(k)
    BY <1>2
  <2>2. \A i \in 1..Len(s) :
          \/ \E p \in 1..Len(toServer) : s[i] = toServer[p]
          \/ \E p \in 1..Len(acks) : s[i] = acks[p]
    BY <1>6
  <2> HIDE DEF s, ack
  <2>3. \A i \in 1..Len(s) :
          \/ \E p \in 1..Len(toServer) : s[i] = toServer[p]
          \/ \E k \in 1..n : s[i] = ack(k)
    BY <2>1, <2>2
  <2> QED BY <2>3 DEF s, ack
<1> QED BY <1>6, <1>7 DEF acks, L

(* recvFile() preserves the invariant when the packet is the next one. *)
LEMMA FifoRecvInOrder ==
  ASSUME FifoInv, RecvInOrder, UNCHANGED srvVars
  PROVE  FifoInv'
<1> USE DEF srvVars
<1> DEFINE d == toClient[1]
           L == Len(file)
<1>1. /\ cliState = "receiving" /\ toClient # <<>> /\ toClient' = Tail(toClient)
      /\ InOrder(d) /\ Head(toClient) = d /\ 1 \in 1..Len(toClient)
      /\ UNCHANGED <<totalBytes, faults>>
  BY ClientTail DEF RecvInOrder
<1>2. PICK n \in 1..WindowSize : Deliverable(n) /\ Deliver(d, n)
  BY <1>1 DEF RecvInOrder
<1>3. /\ cliWindow # <<>> /\ d.blk = L + 1
      /\ \A k \in 1..n : /\ BlockAt(d, k) = L + k
                         /\ L + k \in 1..packetsInMem
                         /\ k >= 2 => cliOutOfOrder[cliWindow[k]] = L + k
                                        /\ Buffered(cliWindow[k])
  BY <1>1, <1>2, DeliveredBlocks
<1>4. /\ L \in Nat /\ n \in Nat /\ n >= 1 /\ WindowSize \in Nat /\ n <= WindowSize
      /\ packetsInMem \in Nat /\ ackCounter \in Nat /\ ackCounter <= L
      /\ packetsInMem <= ackCounter + WindowSize /\ packetCounter = L
  BY ClientTypes, ConstantTypes DEF FifoInv, ClientInv
<1>5. /\ file' \in Seq(Int) /\ Len(file') = L + n
      /\ \A i \in 1..(L + n) : file'[i] = i
  <2>1. [k \in 1..n |-> BlockAt(d, k)] = [k \in 1..n |-> L + k]
    BY <1>3
  <2> DEFINE more == [k \in 1..n |-> L + k]
  <2>2. file' = file \o more
    BY <1>2, <2>1 DEF Deliver
  <2>3. more \in Seq(Int) /\ Len(more) = n /\ \A k \in 1..n : more[k] = L + k
    BY <1>4
  <2>4. file \in Seq(Int) /\ \A i \in 1..L : file[i] = i
    BY ClientTypes DEF FifoInv, FilePrefix
  <2> HIDE DEF more
  <2>5. /\ file \o more \in Seq(Int) /\ Len(file \o more) = Len(file) + Len(more)
        /\ \A i \in 1..(Len(file) + Len(more)) :
             (file \o more)[i] = IF i <= Len(file) THEN file[i] ELSE more[i - Len(file)]
    BY <2>3, <2>4, Concatenation
  <2>6. ASSUME NEW i \in 1..(L + n) PROVE (file \o more)[i] = i
    <3>1. CASE i <= L
      <4>1. (file \o more)[i] = file[i] /\ i \in 1..L
        BY <1>4, <2>3, <2>5, <3>1
      <4> QED BY <2>4, <4>1
    <3>2. CASE i > L
      <4>1. (file \o more)[i] = more[i - L] /\ i - L \in 1..n
        BY <1>4, <2>3, <2>5, <3>2
      <4> QED BY <1>4, <2>3, <4>1
    <3>3. i <= L \/ i > L
      BY <1>4
    <3> QED BY <3>1, <3>2, <3>3
  <2> QED BY <2>2, <2>3, <2>5, <2>6
<1>6. /\ cliWindow' = [j \in 1..WindowSize |-> NumOf(L + n + j)]
      /\ cliWindow' \in Seq(1..NumMod) /\ cliWindow' # <<>>
      /\ cliSeq' = NumOf(L + n + WindowSize) /\ cliSeq' \in 0..NumMod
  BY <1>2, <1>3, WindowMoves DEF Deliver
<1>7. \A i \in 1..Len(toServer) : toServer[i].blk < L + 1 + WindowSize
  <2> TAKE i \in 1..Len(toServer)
  <2>1. Before(toServer[i].blk, d)
    BY <1>1 DEF FifoInv, ChannelInv
  <2>2. d.blk # NoBlock
    BY <1>3, <1>4 DEF NoBlock
  <2> QED BY <1>3, <2>1, <2>2 DEF Before
<1>8. /\ toServer' \in Seq(Datagram) /\ Ordered(toServer')
      /\ \A i \in 1..Len(toServer') :
           \/ \E p \in 1..Len(toServer) : toServer'[i] = toServer[p]
           \/ \E k \in 1..n : toServer'[i] = [num |-> Htonl(NumOf(L + k)), blk |-> L + k]
  <2>1. toServer' = Put(toServer, AcksFor(d, n))
    BY <1>2 DEF Deliver
  <2>2. \A k \in 1..n : BlockAt(d, k) = Len(file) + k
    BY <1>3
  <2> HIDE DEF d
  <2>3. \A i \in 1..Len(toServer) : toServer[i].blk < Len(file) + 1 + WindowSize
    BY <1>7
  <2>4. cliWindow # <<>>
    BY <1>3
  <2> DEFINE sent == Put(toServer, AcksFor(d, n))
  <2>5. sent \in Seq(Datagram) /\ Ordered(sent)
    BY <1>3, <2>2, <2>3, AcksSent
  <2>6. \A i \in 1..Len(sent) :
          \/ \E p \in 1..Len(toServer) : sent[i] = toServer[p]
          \/ \E k \in 1..n : sent[i] = [num |-> Htonl(NumOf(Len(file) + k)), blk |-> Len(file) + k]
    BY <2>2, <2>3, <2>4, AcksSent, ZenonT(40)
  <2> QED BY <2>1, <2>5, <2>6
<1>9. ASSUME NEW s \in 1..NumMod, Buffered(s)'
      PROVE  /\ Buffered(s) /\ cliOutOfOrder'[s] = cliOutOfOrder[s]
             /\ cliOutOfOrder[s] <= packetsInMem
             /\ \E j \in 2..WindowSize : /\ j - n \in 2..WindowSize /\ s = NumOf(L + j)
                                         /\ cliOutOfOrder[s] = L + j
  <2>1. cliOutOfOrder'[s] = EraseDelivered(n)[s] /\ cliOutOfOrder'[s] # NotBuffered
    BY <1>2, <1>9 DEF Deliver, Buffered
  <2>2. Buffered(s)
    BY <2>1 DEF EraseDelivered, Buffered
  <2> QED BY <1>1, <1>2, <2>1, <2>2, StillBuffered
<1>10. \A s \in 1..NumMod : Buffered(s) =>
         cliOutOfOrder[s] <= L + n \/ cliOutOfOrder'[s] = cliOutOfOrder[s]
  <2>1. cliOutOfOrder' = EraseDelivered(n)
    BY <1>2 DEF Deliver
  <2> QED BY <1>1, <1>2, <2>1, StillBuffered
<1>11. /\ cliOutOfOrder' \in [1..NumMod -> Int] /\ packetCounter' = L + n
       /\ cliState' \in {"receiving", "exited"} /\ bytesWritten' \in Int
  <2>1. cliOutOfOrder' \in [1..NumMod -> Int]
    BY <1>2, ClientTypes DEF Deliver, EraseDelivered, NotBuffered
  <2>2. packetCounter' = L + n /\ cliState' \in {"receiving", "exited"}
    BY <1>1, <1>2, <1>4 DEF Deliver
  <2>3. bytesWritten' = WriteBytes(n) /\ totalBytes \in Int /\ bytesWritten \in Int
    BY <1>2 DEF Deliver, FifoInv, TypeOK
  <2>4. bytesWritten' \in Int
    BY <1>4, <2>3 DEF WriteBytes
  <2> QED BY <2>1, <2>2, <2>4
<1> HIDE DEF d, L
<1>12. TypeOK'
  <2>1. TypeOK /\ UNCHANGED srvVars
    BY DEF FifoInv
  <2>2. toClient' \in Seq(Datagram)
    BY <1>1, ClientTail
  <2>3. packetCounter' \in Nat
    BY <1>4, <1>11
  <2>4. cliState' \in CliStates
    BY <1>11 DEF CliStates
  <2> QED BY <1>1, <1>5, <1>6, <1>8, <1>11, <2>1, <2>2, <2>3, <2>4 DEF TypeOK
<1>13. ServerInv'
  BY DEF NoEmptyPop, FifoInv, ServerInv
<1>14. ClientInv'
  <2>1. \A s \in 1..NumMod : Buffered(s)' => cliOutOfOrder'[s] <= packetsInMem'
    BY <1>9
  <2>2. totalBytes' >= FileBytes
    BY <1>1, <1>3 DEF FifoInv, ClientInv
  <2> QED BY <1>5, <1>6, <1>11, <2>1, <2>2 DEF ClientInv
<1>15. ChannelInv'
  <2>1. (\A i \in 1..Len(toClient) : IsSize(toClient[i]) \/ IsData(toClient[i]))'
    BY <1>1, ClientTail DEF FifoInv, ChannelInv, IsSize, IsData
  <2>2. ASSUME NEW i \in 1..Len(toServer')
        PROVE  (IsAck(toServer[i]) \/ IsJunk(toServer[i]))' /\ Before(ackCounter', toServer'[i])
    <3>1. ASSUME NEW p \in 1..Len(toServer), toServer'[i] = toServer[p]
          PROVE  (IsAck(toServer[i]) \/ IsJunk(toServer[i]))' /\ Before(ackCounter', toServer'[i])
      <4> DEFINE a == toServer[p]
      <4>1. (IsAck(a) \/ IsJunk(a)) /\ a \in Datagram /\ Before(ackCounter, a)
        BY ClientTypes DEF FifoInv, ChannelInv
      <4> HIDE DEF a
      <4>2. Before(ackCounter', toServer'[i])
        BY <3>1, <4>1 DEF a
      <4>3. CASE IsJunk(a)
        BY <3>1, <4>2, <4>3 DEF IsJunk, a
      <4>4. CASE IsAck(a)
        <5> DEFINE s == NumOf(a.blk)
        <5>1. a.blk \in 1..packetsInMem /\ a.num = Htonl(s) /\ a.blk \in Int
          BY <4>4, <1>4 DEF IsAck
        <5>2. a.blk <= L + n \/ cliOutOfOrder'[s] = a.blk
          <6>1. CASE a.blk <= L
            BY <1>4, <5>1, <6>1
          <6>2. CASE ~(a.blk <= L)
            <7>1. cliOutOfOrder[s] = a.blk /\ s \in 1..NumMod
              BY <4>4, <5>1, <6>2, NumOfType DEF IsAck, L
            <7>2. Buffered(s)
              BY <5>1, <7>1 DEF Buffered, NotBuffered
            <7> QED BY <1>10, <7>1, <7>2
          <6> QED BY <6>1, <6>2
        <5>3. toServer'[i] = a /\ packetsInMem' = packetsInMem /\ Len(file') = L + n
          BY <1>5, <3>1 DEF a
        <5>4. IsAck(toServer[i])'
          BY <5>1, <5>2, <5>3 DEF IsAck
        <5> QED BY <4>2, <5>4
      <4> QED BY <4>1, <4>3, <4>4
    <3>2. ASSUME NEW k \in 1..n,
                 toServer'[i] = [num |-> Htonl(NumOf(L + k)), blk |-> L + k]
          PROVE  (IsAck(toServer[i]) \/ IsJunk(toServer[i]))' /\ Before(ackCounter', toServer'[i])
      <4>1. /\ toServer'[i].blk = L + k /\ toServer'[i].num = Htonl(NumOf(L + k))
            /\ L + k \in 1..packetsInMem /\ L + k <= L + n /\ ackCounter < (L + k) + WindowSize
        BY <1>3, <1>4, <3>2
      <4>2. packetsInMem' = packetsInMem /\ Len(file') = L + n /\ ackCounter' = ackCounter
        BY <1>5
      <4>3. IsAck(toServer[i])'
        BY <4>1, <4>2 DEF IsAck
      <4>4. Before(ackCounter', toServer'[i])
        BY <4>1, <4>2 DEF Before
      <4> QED BY <4>3, <4>4
    <3> QED BY <1>8, <3>1, <3>2
  <2>3. ASSUME NEW i \in 1..Len(toClient')
        PROVE  /\ Before(Len(file'), toClient'[i])
               /\ \A s \in 1..NumMod : Buffered(s)' => Before(cliOutOfOrder'[s], toClient'[i])
               /\ \A j \in 1..Len(toServer') : Before(toServer'[j].blk, toClient'[i])
    <3>1. /\ toClient'[i] = toClient[i + 1] /\ i + 1 \in 1..Len(toClient)
          /\ Before(d.blk, toClient[i + 1])
      BY <1>1, ClientTail DEF d
    <3>2. /\ \A s \in 1..NumMod : Buffered(s) => Before(cliOutOfOrder[s], toClient[i + 1])
          /\ \A j \in 1..Len(toServer) : Before(toServer[j].blk, toClient[i + 1])
      BY <3>1 DEF FifoInv, ChannelInv
    <3>3. ASSUME NEW k \in 1..n PROVE Before(L + k, toClient'[i])
      <4>1. CASE k = 1
        BY <1>3, <3>1, <4>1
      <4>2. CASE k # 1
        <5>1. k >= 2 /\ k \in 1..WindowSize
          BY <1>4, <4>2
        <5>2. /\ cliOutOfOrder[cliWindow[k]] = L + k /\ Buffered(cliWindow[k])
              /\ cliWindow[k] \in 1..NumMod
          BY <1>3, <5>1, WindowNumbers
        <5> QED BY <3>1, <3>2, <5>2
      <4> QED BY <4>1, <4>2
    <3>4. Before(Len(file'), toClient'[i])
      <4>1. n \in 1..n
        BY <1>4
      <4> QED BY <1>5, <3>3, <4>1
    <3>5. \A s \in 1..NumMod : Buffered(s)' => Before(cliOutOfOrder'[s], toClient'[i])
      BY <1>9, <3>1, <3>2
    <3>6. ASSUME NEW j \in 1..Len(toServer') PROVE Before(toServer'[j].blk, toClient'[i])
      <4>1. CASE \E p \in 1..Len(toServer) : toServer'[j] = toServer[p]
        BY <3>1, <3>2, <4>1
      <4>2. ASSUME NEW k \in 1..n,
                   toServer'[j] = [num |-> Htonl(NumOf(L + k)), blk |-> L + k]
            PROVE  Before(toServer'[j].blk, toClient'[i])
        BY <3>3, <4>2
      <4> QED BY <1>8, <4>1, <4>2
    <3> QED BY <3>4, <3>5, <3>6
  <2>4. Ordered(toClient') /\ Ordered(toServer')
    BY <1>1, <1>8, ClientTail
  <2> QED BY <2>1, <2>2, <2>3, <2>4 DEF ChannelInv, Ordered
<1>16. FilePrefix'
  BY <1>5 DEF FilePrefix
<1>17. AckedWritten' /\ (Len(file) <= packetsInMem)'
  <2>1. L + n \in 1..packetsInMem /\ Len(file') = L + n
    <3>1. n \in 1..n
      BY <1>4
    <3> QED BY <1>3, <1>5, <3>1
  <2>2. L + n <= packetsInMem /\ ackCounter <= L + n
    BY <1>4, <2>1
  <2> QED BY <2>1, <2>2 DEF AckedWritten
<1>18. BufferOfThisLap'
  <2> SUFFICES ASSUME NEW s \in 1..NumMod, Buffered(s)'
               PROVE  \E j \in 2..WindowSize : /\ cliWindow'[j] = s
                                               /\ cliOutOfOrder'[s] = Len(file') + j
    BY DEF BufferOfThisLap
  <2>1. PICK j \in 2..WindowSize : /\ j - n \in 2..WindowSize /\ s = NumOf(L + j)
                                   /\ cliOutOfOrder'[s] = L + j
    BY <1>9
  <2> DEFINE i == j - n
  <2>2. i \in 1..WindowSize /\ L + n + i = L + j
    BY <1>4, <2>1
  <2>3. cliWindow'[i] = NumOf(L + n + i)
    BY <1>6, <2>2
  <2>4. i \in 2..WindowSize
    BY <2>1
  <2> WITNESS i \in 2..WindowSize
  <2> QED BY <1>5, <2>1, <2>2, <2>3
<1> QED BY <1>12, <1>13, <1>14, <1>15, <1>16, <1>17, <1>18 DEF FifoInv

-----------------------------------------------------------------------------
(* The invariant of every behaviour. *)
LEMMA FifoStep ==
  ASSUME FifoInv, [Next]_vars
  PROVE  FifoInv'
<1>1. CASE SrvNext /\ UNCHANGED cliVars
  <2>1. ~GoOnUndefined
    BY DEF NoEmptyPop, FifoInv, ServerInv, GoOnUndefined
  <2> QED BY <1>1, <2>1, FifoRecvName, FifoFillWindow, FifoRecvAck, FifoTimeout DEF SrvNext
<1>2. CASE CliNext /\ UNCHANGED srvVars
  BY <1>2, FifoSendName, FifoRecvSize, FifoRecvInOrder, FifoRecvOutOfOrder, FifoClientCrash
     DEF CliNext
<1>3. CASE (Lose \/ Duplicate \/ Reorder \/ Corrupt) /\ UNCHANGED <<srvVars, cliVars>>
  BY <1>3, FifoNetwork
<1>4. CASE UNCHANGED vars
  <2> USE <1>4 DEF vars, srvVars, cliVars
  <2>1. TypeOK' /\ ServerInv' /\ ClientInv'
    BY DEF NoEmptyPop, FifoInv, TypeOK, ServerInv, ClientInv, Buffered
  <2>2. ChannelInv'
    BY DEF FifoInv, ChannelInv, Buffered, IsSize, IsData, IsAck, IsJunk, Ordered
  <2>3. FilePrefix' /\ BufferOfThisLap' /\ AckedWritten' /\ (Len(file) <= packetsInMem)'
    BY DEF FifoInv, FilePrefix, BufferOfThisLap, AckedWritten, Buffered
  <2> QED BY <2>1, <2>2, <2>3 DEF FifoInv
<1> QED BY <1>1, <1>2, <1>3, <1>4 DEF Next

(* The inductive invariant holds throughout, for every window, number space, *)
(* file length, channel capacity and number of losses and duplications.      *)
THEOREM FifoInvariant == Spec => []FifoInv
BY FifoInit, FifoStep, PTL DEF Spec

(* Every variable of both programs keeps its type. *)
THEOREM TypeCorrect == Spec => []TypeOK
<1>1. FifoInv => TypeOK
  BY DEF FifoInv
<1> QED BY <1>1, FifoInvariant, PTL

(* On a path that keeps the order, recvFile() writes the blocks of the file   *)
(* in order, each once, although ten numbers stand for all the blocks.        *)
THEOREM FilePrefixAlways == Spec => []FilePrefix
<1>1. FifoInv => FilePrefix
  BY DEF FifoInv
<1> QED BY <1>1, FifoInvariant, PTL

(* NoEmptyPop of RudpTransfer: over a path that keeps the order the queue is *)
(* never popped when it is empty (server.cpp:122,148), for files of any      *)
(* number of laps.                                                           *)
THEOREM NoEmptyPopAlways == Spec => []NoEmptyPop
<1>1. FifoInv => NoEmptyPop
  BY DEF FifoInv, ServerInv
<1> QED BY <1>1, FifoInvariant, PTL

(* What recvAck() has counted, the client has written: an acknowledgement of *)
(* an earlier lap is never taken for one of the front packet.                *)
THEOREM AckedWrittenAlways == Spec => []AckedWritten
<1>1. FifoInv => AckedWritten
  BY DEF FifoInv
<1> QED BY <1>1, FifoInvariant, PTL

(* What the client's outOfOrder map holds is of the present lap of numbers. *)
THEOREM BufferAlwaysOfThisLap == Spec => []BufferOfThisLap
<1>1. FifoInv => BufferOfThisLap
  BY DEF FifoInv
<1> QED BY <1>1, FifoInvariant, PTL

-----------------------------------------------------------------------------
(* A step of recvFile() that writes is a Write of the abstract transfer. *)
LEMMA WriteRefines ==
  ASSUME FifoInv, FifoInv', RecvInOrder, UNCHANGED srvVars
  PROVE  Abstract!Write
<1>1. PICK n \in 1..WindowSize : Deliverable(n) /\ Deliver(toClient[1], n)
  BY ClientTail DEF RecvInOrder
<1>2. cliState = "receiving" /\ toClient # <<>> /\ InOrder(toClient[1])
  BY ClientTail DEF RecvInOrder
<1>3. \A k \in 1..n : /\ BlockAt(toClient[1], k) = Len(file) + k
                      /\ Len(file) + k \in 1..packetsInMem
  BY <1>1, <1>2, DeliveredBlocks
<1>4. file' = file \o [k \in 1..n |-> Len(file) + k]
  BY <1>1, <1>3 DEF Deliver
<1>5. Len(file) + n <= Total
  <2>1. n \in 1..n /\ packetsInMem \in Nat /\ packetsInMem <= Total
    BY <1>1, ClientTypes, ConstantTypes DEF FifoInv, ServerInv
  <2>2. Len(file) + n \in 1..packetsInMem
    BY <1>3, <2>1
  <2> QED BY <2>1, <2>2, ClientTypes, ConstantTypes, TotalType
<1>6. Verdict' = Verdict
  BY DEF Verdict, srvVars
<1> QED BY <1>1, <1>4, <1>5, <1>6 DEF Abstract!Write

(* The server's verdicts: success when all is written. *)
LEMMA VerdictRefines ==
  ASSUME FifoInv, FifoInv', SrvNext, UNCHANGED cliVars
  PROVE  [Abstract!FTNext]_<<file, Verdict>>
<1>1. file' = file
  BY DEF cliVars
<1>2. CASE RecvName \/ FillWindow
  <2>1. Verdict' = Verdict
    BY <1>2 DEF RecvName, FillWindow, Verdict
  <2> QED BY <1>1, <2>1
<1>3. CASE RecvAck
  <2>1. srvState = "sending" /\ srvState' \in {"sending", "complete"}
    <3>1. srvState = "sending" /\ srvState' \in {"undefined", "sending", "complete"}
      BY <1>3 DEF RecvAck, Receiving, AckOther, AckFront
    <3> QED BY <3>1 DEF NoEmptyPop, FifoInv, ServerInv
  <2>2. CASE srvState' = "sending"
    <3>1. Verdict' = Verdict
      BY <2>1, <2>2 DEF Verdict
    <3> QED BY <1>1, <3>1
  <2>3. CASE srvState' = "complete"
    <3>1. ackCounter' = Total /\ packetsInMem' <= Total
      BY <2>3 DEF FifoInv, ServerInv
    <3>2. ackCounter' <= Len(file') /\ Len(file') <= packetsInMem' /\ packetsInMem' \in Nat
          /\ Len(file') \in Nat
      BY DEF FifoInv, AckedWritten, TypeOK
    <3>3. Len(file) = Total
      BY <1>1, <3>1, <3>2, TotalType
    <3>4. Verdict = "none" /\ Verdict' = "complete"
      BY <2>1, <2>3 DEF Verdict
    <3> QED BY <1>1, <3>3, <3>4 DEF Abstract!FTNext, Abstract!Succeed
  <2> QED BY <2>1, <2>2, <2>3
<1>4. CASE Timeout
  <2>1. srvState = "sending" /\ srvState' \in {"sending", "gaveUp"}
    BY <1>4 DEF Timeout, Receiving
  <2>2. CASE srvState' = "sending"
    <3>1. Verdict' = Verdict
      BY <2>1, <2>2 DEF Verdict
    <3> QED BY <1>1, <3>1
  <2>3. CASE srvState' = "gaveUp"
    <3>1. Verdict = "none" /\ Verdict' = "gaveUp"
      BY <2>1, <2>3 DEF Verdict
    <3> QED BY <1>1, <3>1 DEF Abstract!FTNext, Abstract!GiveUp
  <2> QED BY <2>1, <2>2, <2>3
<1>5. ~GoOnUndefined
  BY DEF NoEmptyPop, FifoInv, ServerInv, GoOnUndefined
<1> QED BY <1>2, <1>3, <1>4, <1>5 DEF SrvNext

(* Every step of the two programs is a step of the abstract transfer or       *)
(* changes neither the file nor the verdict: main() says that the transfer is *)
(* complete only when the client has written every block.                     *)
THEOREM TransferImplemented == Spec => ImplementsTransfer
<1>1. Init => Abstract!FTInit
  BY DEF Init, SrvInit, CliInit, Abstract!FTInit, Verdict
<1>2. FifoInv /\ FifoInv' /\ [Next]_vars => [Abstract!FTNext]_<<file, Verdict>>
  <2> SUFFICES ASSUME FifoInv, FifoInv', [Next]_vars
               PROVE  [Abstract!FTNext]_<<file, Verdict>>
    OBVIOUS
  <2>1. CASE SrvNext /\ UNCHANGED cliVars
    BY <2>1, VerdictRefines
  <2>2. CASE RecvInOrder /\ UNCHANGED srvVars
    BY <2>2, WriteRefines DEF Abstract!FTNext
  <2>3. ASSUME UNCHANGED <<srvState, file>> PROVE [Abstract!FTNext]_<<file, Verdict>>
    <3>1. Verdict' = Verdict /\ file' = file
      BY <2>3 DEF Verdict
    <3> QED BY <3>1
  <2>4. CASE CliNext /\ UNCHANGED srvVars
    BY <2>2, <2>3, <2>4
       DEF CliNext, SendName, RecvSize, RecvOutOfOrder, ClientCrash, srvVars
  <2>5. CASE (Lose \/ Duplicate \/ Reorder \/ Corrupt) /\ UNCHANGED <<srvVars, cliVars>>
    BY <2>3, <2>5 DEF srvVars, cliVars
  <2>6. CASE UNCHANGED vars
    BY <2>3, <2>6 DEF vars, srvVars, cliVars
  <2> QED BY <2>1, <2>4, <2>5, <2>6 DEF Next
<1> QED BY <1>1, <1>2, FifoInvariant, PTL DEF Spec, ImplementsTransfer, Abstract!FTSpec

-----------------------------------------------------------------------------
(* How far the client is: it has written whole blocks up to the length it  *)
(* was told, and while it has not exited it expects more packets.          *)
WrittenSoFar ==
  bytesWritten = IF totalBytes >= 1000 * Len(file) THEN 1000 * Len(file) ELSE totalBytes

ExpectsMore ==
  cliWindow # <<>> =>
    IF cliState = "exited" THEN Len(file) = PacketsExpected ELSE Len(file) < PacketsExpected

ClientCounts ==
  /\ totalBytes >= 0 /\ WrittenSoFar /\ ExpectsMore
  /\ cliState = "exited" => cliWindow # <<>>

(* Initially the client has nothing and expects nothing. *)
LEMMA ClientCountsAtStart == Init => ClientCounts
BY DEF Init, CliInit, ClientCounts, WrittenSoFar, ExpectsMore

(* The number of packets of a length. *)
LEMMA PacketsOfLength ==
  ASSUME NEW x \in Nat
  PROVE  /\ PacketsIn(x) \in Nat
         /\ 1000 * PacketsIn(x) >= x /\ (x > 0 => PacketsIn(x) > 0)
<1>1. 1000 \in Nat \ {0} /\ x \in Int
  OBVIOUS
<1> DEFINE p == x \div 1000
           r == x % 1000
<1>2. p \in Int /\ r \in 0..999 /\ r = x - 1000 * p
  BY <1>1, DivMod
<1>3. PacketsIn(x) = p + (IF r = 0 THEN 0 ELSE 1)
  BY DEF PacketsIn, BlockSize
<1> HIDE DEF p, r
<1> QED BY <1>2, <1>3

(* The client computes the number of packets as the server does. *)
LEMMA ExpectedIsPackets == PacketsExpected = PacketsIn(totalBytes)
BY DEF PacketsExpected, PacketsIn, BlockSize

(* The length says how many packets to expect. *)
LEMMA CountsAfterSize ==
  ASSUME FifoInv, FifoInv', ClientCounts, RecvSize
  PROVE  ClientCounts'
<1>1. /\ cliState = "awaitSize" /\ cliState' = "receiving" /\ cliWindow = <<>>
      /\ file = <<>> /\ file' = <<>> /\ bytesWritten' = bytesWritten
  BY DEF RecvSize, FifoInv, ClientInv
<1>2. cliWindow' # <<>> /\ totalBytes' >= FileBytes /\ totalBytes' \in Int
  BY <1>1 DEF FifoInv, ClientInv, TypeOK
<1>3. totalBytes' \in Nat /\ totalBytes' > 0
  BY <1>2, FifoAssumption
<1>4. bytesWritten = 0
  <2>1. Len(file) = 0
    BY <1>1
  <2> QED BY <2>1 DEF ClientCounts, WrittenSoFar
<1>5. PacketsExpected' = PacketsIn(totalBytes')
  BY DEF PacketsExpected, PacketsIn, BlockSize
<1>6. PacketsExpected' > 0 /\ PacketsExpected' \in Nat
  BY <1>3, <1>5, PacketsOfLength
<1>7. Len(file') = 0
  BY <1>1
<1> QED BY <1>1, <1>2, <1>3, <1>4, <1>6, <1>7 DEF ClientCounts, WrittenSoFar, ExpectsMore

(* The packets delivered are no more than those expected. *)
LEMMA CountsAfterPacket ==
  ASSUME FifoInv, FifoInv', ClientCounts, RecvInOrder
  PROVE  ClientCounts'
<1>1. PICK n \in 1..WindowSize : Deliverable(n) /\ Deliver(Head(toClient), n)
  BY DEF RecvInOrder
<1>2. cliState = "receiving" /\ totalBytes' = totalBytes
  BY DEF RecvInOrder
<1>3. /\ cliWindow # <<>> /\ packetCounter = Len(file) /\ packetCounter' = Len(file')
      /\ totalBytes \in Int /\ Len(file) \in Nat /\ packetCounter' = packetCounter + n
      /\ n \in Nat /\ n >= 1
  BY <1>1, <1>2, ClientTypes, ConstantTypes DEF FifoInv, ClientInv, TypeOK, Deliver
<1>4. PacketsExpected' = PacketsExpected /\ PacketsExpected \in Nat
  <2>1. totalBytes \in Nat
    BY <1>3 DEF ClientCounts
  <2> QED BY <1>2, <2>1, PacketsOfLength, ExpectedIsPackets DEF PacketsExpected
<1>5. Len(file) + n <= PacketsExpected
  <2>1. Len(file) < PacketsExpected
    BY <1>2, <1>3 DEF ClientCounts, ExpectsMore
  <2>2. SUFFICES ASSUME Len(file) + n > PacketsExpected PROVE FALSE
    BY <1>3, <1>4
  <2>3. PacketsExpected - Len(file) \in 1..(n - 1)
    BY <1>3, <1>4, <2>1, <2>2
  <2>4. \A j \in 1..(n - 1) : Len(file) + j # PacketsExpected
    BY <1>1, <1>3 DEF Deliverable
  <2> QED BY <1>3, <1>4, <2>3, <2>4
<1>6. Len(file') = Len(file) + n
  BY <1>3
<1>7. WrittenSoFar'
  <2>1. bytesWritten' = IF totalBytes - bytesWritten >= 1000 * n THEN bytesWritten + 1000 * n
                        ELSE totalBytes
    BY <1>1 DEF Deliver, WriteBytes
  <2>2. bytesWritten = IF totalBytes >= 1000 * Len(file) THEN 1000 * Len(file) ELSE totalBytes
    BY DEF ClientCounts, WrittenSoFar
  <2> DEFINE L == Len(file)
  <2>a. L \in Nat /\ 1000 * (L + n) = 1000 * L + 1000 * n /\ 1000 * n >= 1000
    BY <1>3
  <2> HIDE DEF L
  <2>3. bytesWritten' = IF totalBytes >= 1000 * (L + n) THEN 1000 * (L + n) ELSE totalBytes
    <3>1. CASE totalBytes >= 1000 * L
      <4>1. bytesWritten = 1000 * L
        BY <2>2, <3>1 DEF L
      <4> QED BY <1>3, <2>1, <2>a, <4>1
    <3>2. CASE ~ (totalBytes >= 1000 * L)
      <4>1. bytesWritten = totalBytes
        BY <2>2, <3>2 DEF L
      <4> QED BY <1>3, <2>1, <2>a, <3>2, <4>1
    <3> QED BY <3>1, <3>2
  <2> QED BY <1>2, <1>6, <2>3 DEF WrittenSoFar, L
<1>8. cliState' = IF Len(file) + n = PacketsExpected THEN "exited" ELSE "receiving"
  BY <1>1, <1>2, <1>3, <1>4 DEF Deliver
<1>9. cliWindow' # <<>>
  BY <1>3, <1>6, <1>8 DEF FifoInv, ClientInv
<1> QED BY <1>2, <1>3, <1>4, <1>5, <1>6, <1>7, <1>8, <1>9 DEF ClientCounts, ExpectsMore

(* The client's counts are inductive over FifoInv. *)
LEMMA ClientCountsKept ==
  ASSUME FifoInv, FifoInv', ClientCounts, [Next]_vars
  PROVE  ClientCounts'
<1>1. CASE RecvSize
  BY <1>1, CountsAfterSize
<1>2. CASE RecvInOrder
  BY <1>2, CountsAfterPacket
<1>3. ASSUME UNCHANGED <<cliWindow, totalBytes, bytesWritten, file>>,
             cliState' = cliState \/ (cliState' # "exited" /\ cliState # "exited")
      PROVE  ClientCounts'
  BY <1>3 DEF ClientCounts, WrittenSoFar, ExpectsMore, PacketsExpected
<1>4. CASE SendName \/ RecvOutOfOrder \/ ClientCrash
  BY <1>3, <1>4 DEF SendName, RecvOutOfOrder, ClientCrash
<1>5. CASE UNCHANGED cliVars
  BY <1>3, <1>5 DEF cliVars
<1> QED BY <1>1, <1>2, <1>4, <1>5 DEF Next, CliNext, vars

(* A server that reports success to a client that was told the right length *)
(* has had every block written, and the client has exited.                  *)
THEOREM CompleteAlwaysMeansWhole == Spec => []CompleteMeansWhole
<1>1. Spec => []ClientCounts
  BY ClientCountsAtStart, ClientCountsKept, FifoInvariant, PTL DEF Spec
<1>2. FifoInv /\ ClientCounts => CompleteMeansWhole
  <2> SUFFICES ASSUME FifoInv, ClientCounts, srvState = "complete", totalBytes = FileBytes
               PROVE  /\ cliState = "exited"
                      /\ FilePrefix /\ Len(file) = Total /\ bytesWritten = FileBytes
    BY DEF CompleteMeansWhole
  <2>1. Len(file) = Total
    <3>1. ackCounter = Total /\ packetsInMem <= Total
      BY DEF FifoInv, ServerInv
    <3> QED BY <3>1, ClientTypes, TotalType
  <2>2. FileBytes \in Nat /\ PacketsExpected = Total /\ 1000 * Total >= FileBytes
    BY FifoAssumption, ExpectedIsPackets, PacketsOfLength DEF Total
  <2>3. cliWindow # <<>>
    <3>1. cliWindow = <<>> => Len(file) = 0
      BY DEF FifoInv, ClientInv
    <3> QED BY <2>1, <3>1, TotalType
  <2>4. cliState = "exited"
    BY <2>1, <2>2, <2>3, TotalType DEF ClientCounts, ExpectsMore
  <2>5. bytesWritten = FileBytes
    BY <2>1, <2>2, TotalType DEF ClientCounts, WrittenSoFar
  <2> QED BY <2>1, <2>4, <2>5 DEF FifoInv
<1> QED BY <1>1, <1>2, FifoInvariant, PTL
=============================================================================
