----------------------------- MODULE RudpServer -----------------------------
(***************************************************************************)
(* The file server of project2/server.cpp: it waits for a file name, sends *)
(* the length of the file once and then its blocks, numbered 1..NumMod     *)
(* cyclically, through a sliding window.  Every variable is a global of    *)
(* the program, but for srvState, where its main loop stands, and tries,   *)
(* an auxiliary counter of the timeouts the front packet has had.          *)
(*                                                                         *)
(* std::queue::front() and pop() of an empty queue are undefined: front()  *)
(* reads memory nobody wrote, here any number in StaleSeqs, and after a    *)
(* pop() the state is "undefined": the loop goes on with a queue that has  *)
(* no meaning and a count that is past what was sent, for ever or until it *)
(* is "lost", by a crash or by any of its two messages.                    *)
(***************************************************************************)
EXTENDS UdpNetwork

CONSTANTS FileBytes,   \* st_size of the file asked for
          MaxResend    \* the literal 15 of reSend()

ASSUME RudpServerAssumption ==
  /\ FileBytes \in Nat
  /\ MaxResend \in Nat \ {0}

VARIABLES srvState,       \* see SrvStates
          srvWindow,      \* windowQueue
          srvOutOfOrder,  \* outOfOrder
          packetsInMem, ackCounter, resendCnt, lastResend,
          srvSeq,         \* seqNum
          tries           \* auxiliary: timeouts since the front packet became it

srvVars == <<srvState, srvWindow, srvOutOfOrder, packetsInMem, ackCounter,
             resendCnt, lastResend, srvSeq, tries>>

SrvStates == {"awaitName", "sending", "complete", "gaveUp", "undefined", "lost"}

BlockSize == 1000

PacketsIn(bytes) == (bytes \div BlockSize) + (IF bytes % BlockSize = 0 THEN 0 ELSE 1)

Total == PacketsIn(FileBytes)

StaleSeqs == 0..NumMod

SrvInit ==
  /\ srvState = "awaitName"
  /\ srvWindow = <<>>
  /\ srvOutOfOrder = {}
  /\ packetsInMem = 0 /\ ackCounter = 0 /\ srvSeq = 0
  /\ resendCnt = 0 /\ lastResend = 0
  /\ tries = 0

-----------------------------------------------------------------------------
(* The length datagram: htonl(st_size). *)
SizeDatagram == [num |-> Htonl(FileBytes), blk |-> NoBlock]

(* The first datagram, whatever it holds, is taken for the name of a file. *)
(* The length is sent here and never again.                                *)
RecvName ==
  /\ srvState = "awaitName"
  /\ toServer # <<>>
  /\ srvState' = "sending"
  /\ toServer' = Tail(toServer)
  /\ toClient' = Put(toClient, <<SizeDatagram>>)
  /\ UNCHANGED <<srvWindow, srvOutOfOrder, packetsInMem, ackCounter, resendCnt,
                 lastResend, srvSeq, tries, faults>>

(* One iteration of fillWindow(): buildPacket() and sendPacket(). *)
RoomToSend == Len(srvWindow) < WindowSize /\ packetsInMem < Total

FillWindow ==
  /\ srvState = "sending"
  /\ RoomToSend
  /\ LET pkt == [num |-> NumAfter(srvSeq, 1), blk |-> packetsInMem + 1]
     IN  /\ srvSeq' = pkt.num
         /\ srvWindow' = Append(srvWindow, pkt)
         /\ toClient' = Put(toClient, <<pkt>>)
  /\ packetsInMem' = packetsInMem + 1
  /\ UNCHANGED <<srvState, srvOutOfOrder, ackCounter, resendCnt, lastResend,
                 tries, toServer, faults>>

-----------------------------------------------------------------------------
(* recvAck() and reSend() run once fillWindow() has returned. *)
Receiving == srvState = "sending" /\ ~RoomToSend

(* What windowQueue.front() may return. *)
FrontOf(queue) ==
  IF queue = <<>> THEN [num : StaleSeqs, blk : {NoBlock}] ELSE {Head(queue)}

Stored(queue, i) == queue[i].num \in srvOutOfOrder

(* checkOutOfOrder() pops n packets of the queue: the n in front of the     *)
(* first one whose number is not in the set.  The numbers of a window are   *)
(* distinct, so erasing one does not change the answer for the others.      *)
Drains(queue, n) ==
  /\ \A i \in 1..n : Stored(queue, i)
  /\ n < Len(queue) => ~Stored(queue, n + 1)

(* recvAck() compares what ntohl() makes of the datagram with the front. *)
(* (A fault: any packet number moves the window.)                        *)
AnyAcks(ack, front) == Ntohl(ack.num) \in 1..NumMod
Acks(ack, front) == Ntohl(ack.num) = front.num

(* (A fault: the last packet is not waited for.) *)
AllButOneAcked(count) == count >= Total - 1
AllAcked(count) == count = Total

(* The acknowledgement of the front packet: pop it and those behind it whose *)
(* acknowledgements are stored.  When that empties the queue, the last call  *)
(* of checkOutOfOrder() still reads front().                                 *)
AckFront ==
  LET rest == Tail(srvWindow) IN
  \E n \in 0..Len(rest) :
    /\ Drains(rest, n)
    /\ srvWindow' = SubSeq(rest, n + 1, Len(rest))
    /\ srvOutOfOrder' = srvOutOfOrder \ {rest[i].num : i \in 1..n}
    /\ ackCounter' = ackCounter + n + 1
    /\ \E front \in FrontOf(srvWindow') :
         srvState' = IF front.num \in srvOutOfOrder' THEN "undefined"
                     ELSE IF AllAcked(ackCounter') THEN "complete" ELSE "sending"
    /\ tries' = 0

(* Any other number is stored, as it came off the wire: without ntohl().  (A *)
(* fault: with it, so that what is stored can be found, and old ones, too.)   *)
StoresConverted(ack) == Ntohl(ack.num)
Stores(ack) == ack.num

AckOther(ack) ==
  /\ srvOutOfOrder' = srvOutOfOrder \cup {Stores(ack)}
  /\ UNCHANGED <<srvState, srvWindow, ackCounter, tries>>

(* recvAck(), when a datagram is there. *)
RecvAck ==
  /\ Receiving
  /\ toServer # <<>>
  /\ toServer' = Tail(toServer)
  /\ \E front \in FrontOf(srvWindow) :
       LET ack == Head(toServer) IN
       IF ~Acks(ack, front) THEN AckOther(ack)
       ELSE IF srvWindow # <<>> THEN AckFront
       ELSE /\ srvState' = "undefined"
            /\ UNCHANGED <<srvWindow, srvOutOfOrder, ackCounter, tries>>
  /\ UNCHANGED <<packetsInMem, resendCnt, lastResend, srvSeq, toClient, faults>>

(* reSend() counts the resends of one number in a row.  (Faults: the count *)
(* is not reset at another number; it is reset at every resend.)           *)
ResendsUnreset(front) == resendCnt + 1
ResendsForgotten(front) == 0
Resends(front) == IF lastResend = front.num THEN resendCnt + 1 ELSE 0

(* recvAck() returns -1 and main() calls reSend().  An acknowledgement that  *)
(* is still in flight does not prevent it.  tries stops counting at the      *)
(* bound MaxResend + 1.                                                      *)
Timeout ==
  /\ Receiving
  /\ \E front \in FrontOf(srvWindow) :
       /\ toClient' = Put(toClient, <<front>>)
       /\ resendCnt' = Resends(front)
       /\ srvState' = IF resendCnt' = MaxResend THEN "gaveUp" ELSE srvState
       /\ lastResend' = front.num
  /\ tries' = IF tries <= MaxResend THEN tries + 1 ELSE tries
  /\ UNCHANGED <<srvWindow, srvOutOfOrder, packetsInMem, ackCounter, srvSeq,
                 toServer, faults>>

(* The loop of main() after a pop() of the empty queue.  Its size, an unsigned *)
(* number, has passed 0, so fillWindow() adds nothing: each round takes a      *)
(* datagram, or times out and sends what front() reads.                        *)
GoOnUndefined ==
  /\ srvState = "undefined" /\ srvState' \in {"undefined", "lost"}
  /\ \/ toServer # <<>> /\ toServer' = Tail(toServer) /\ UNCHANGED toClient
     \/ /\ \E front \in FrontOf(<<>>) : toClient' = Put(toClient, <<front>>)
        /\ UNCHANGED toServer
  /\ UNCHANGED <<srvWindow, srvOutOfOrder, packetsInMem, ackCounter, resendCnt,
                 lastResend, srvSeq, tries, faults>>

SrvNext == RecvName \/ FillWindow \/ RecvAck \/ Timeout \/ GoOnUndefined
=============================================================================
