----------------------------- MODULE UdpNetwork -----------------------------
(***************************************************************************)
(* The UDP path between the file server and the client of project2: two    *)
(* sequences of datagrams, one for each direction.                         *)
(*                                                                         *)
(* A datagram is its first four bytes, num, as an int of the hosts (data   *)
(* packets carry the packet number there unconverted, the length datagram  *)
(* and the acknowledgements a number converted by htonl) and the block of  *)
(* the file it is about.  Of an acknowledgement only num is on the wire:   *)
(* its blk is an auxiliary field that no action of the server reads.       *)
(*                                                                         *)
(* The faults are the ones the repository's test bed injects: netem loss,  *)
(* duplication and reordering (project2/mininetsetup.txt) and the bit      *)
(* flips of project2/packetcorrupt.py.                                     *)
(***************************************************************************)
EXTENDS SeqSpace, Sequences, SequencesExt

CONSTANTS Faults,      \* the kinds of fault that may occur
          MaxFaults,   \* bound: how many faults a behaviour has
          ChanCap,     \* bound: datagrams a direction holds; more are dropped
          FlipBits     \* the bits of num a corruption may flip

VARIABLES toClient,    \* datagrams from the server to the client
          toServer,    \* datagrams from the client to the server
          faults       \* faults injected so far

FaultKinds == {"lose", "duplicate", "reorder", "corrupt", "crash"}

ASSUME UdpNetworkAssumption ==
  /\ Faults \subseteq FaultKinds
  /\ MaxFaults \in Nat
  /\ ChanCap \in Nat \ {0}
  /\ FlipBits \subseteq 0..30

NoBlock == 0     \* the datagram carries no block of the file
Damaged == -1    \* a block with a flipped bit

Datagram == [num : Int, blk : Int]

NetInit == toClient = <<>> /\ toServer = <<>> /\ faults = 0

(* sendto(): the datagrams are queued behind the ones in flight; what does *)
(* not fit the receive buffer is dropped, as UDP does.                     *)
Put(chan, msgs) ==
  LET all == chan \o msgs
  IN  IF Len(all) <= ChanCap THEN all ELSE SubSeq(all, 1, ChanCap)

-----------------------------------------------------------------------------
Flip(x, k) == IF (x \div 2^k) % 2 = 1 THEN x - 2^k ELSE x + 2^k

(* netem loss, duplicate and reorder on one direction. *)
Lossy(chan, chan2) == \E i \in 1..Len(chan) : chan2 = RemoveAt(chan, i)

Duplicating(chan, chan2) == \E i \in 1..Len(chan) :
  Len(chan) < ChanCap /\ chan2 = InsertAt(chan, i, chan[i])

Reordering(chan, chan2) == \E i \in 1..(Len(chan) - 1) :
  chan2 = [chan EXCEPT ![i] = chan[i + 1], ![i + 1] = chan[i]]

(* LearningSwitch._handle_PacketIn: one bit of the payload is flipped, of the *)
(* number or of the data.                                                     *)
Corrupting(chan, chan2) == \E i \in 1..Len(chan) :
  \/ \E k \in FlipBits : chan2 = [chan EXCEPT ![i].num = Flip(@, k)]
  \/ chan[i].blk > NoBlock /\ chan2 = [chan EXCEPT ![i].blk = Damaged]

Fault(kind) == kind \in Faults /\ faults < MaxFaults /\ faults' = faults + 1

Lose ==
  /\ Fault("lose")
  /\ \/ Lossy(toClient, toClient') /\ UNCHANGED toServer
     \/ Lossy(toServer, toServer') /\ UNCHANGED toClient

Duplicate ==
  /\ Fault("duplicate")
  /\ \/ Duplicating(toClient, toClient') /\ UNCHANGED toServer
     \/ Duplicating(toServer, toServer') /\ UNCHANGED toClient

Reorder ==
  /\ Fault("reorder")
  /\ \/ Reordering(toClient, toClient') /\ UNCHANGED toServer
     \/ Reordering(toServer, toServer') /\ UNCHANGED toClient

Corrupt ==
  /\ Fault("corrupt")
  /\ \/ Corrupting(toClient, toClient') /\ UNCHANGED toServer
     \/ Corrupting(toServer, toServer') /\ UNCHANGED toClient
=============================================================================
