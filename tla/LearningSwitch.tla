--------------------------- MODULE LearningSwitch ---------------------------
(***************************************************************************)
(* The controller of project2/packetcorrupt.py, the switch it controls and *)
(* the hosts, which may move from port to port.  The switch sends every    *)
(* frame to the controller, except those of a flow that the controller has *)
(* told it to drop; controller and switch talk over a connection that      *)
(* keeps the order, in both directions.  One flow stands for all kinds of  *)
(* packet of a pair of addresses.  (The bit that the controller flips in a *)
(* payload is an action of UdpNetwork.)                                    *)
(***************************************************************************)
EXTENDS Naturals, Sequences

CONSTANTS Hosts,       \* the hosts, by their hardware addresses
          Ports,       \* the ports of the switch; several hosts may share one
          Multicast,   \* a multicast address
          Filtered,    \* an address that bridges do not forward, or LLDP
          Transparent, \* forward those, too
          HoldDown,    \* the controller is started with a hold_down
          Pending,     \* bound: frames on the way to the controller or back
          MaxMoves     \* bound: how often hosts move

Unknown == "unknown"   \* not in the table
Flood == "flood"       \* OFPP_FLOOD: every port but the one the frame came from
Nowhere == "nowhere"   \* no action: the switch discards the frame

Dsts == Hosts \cup {Multicast, Filtered}
Frame == [src : Hosts, dst : Dsts, port : Ports]
Message == [cmd : {"out", "drop"}, frame : Frame, to : Ports \cup {Flood, Nowhere}]

ASSUME SwitchAssumption ==
  /\ Multicast # Filtered /\ {Multicast, Filtered} \cap Hosts = {}
  /\ {Unknown, Flood, Nowhere} \cap Ports = {}
  /\ {Transparent, HoldDown} \subseteq BOOLEAN
  /\ Pending \in Nat /\ MaxMoves \in Nat

VARIABLES
  location,  \* the port where each host is
  moves,     \* how often hosts have moved
  packetIns, \* frames on their way to the controller
  macToPort, \* the controller's table
  held,      \* hold_down_expired is False
  messages,  \* on their way to the switch
  dropped,   \* the flows that the switch drops
  heard,     \* auxiliary: the pairs of which the last frame has arrived
  sentFrom   \* auxiliary: the port of the last frame of each host that the
             \* controller is to see

vars == <<location, moves, packetIns, macToPort, held, messages, dropped, heard,
          sentFrom>>

Init ==
  /\ location \in [Hosts -> Ports] /\ moves = 0
  /\ packetIns = <<>> /\ messages = <<>>
  /\ macToPort = [h \in Hosts |-> Unknown]
  /\ held = HoldDown
  /\ dropped = {} /\ heard = {}
  /\ sentFrom = [h \in Hosts |-> Unknown]

-----------------------------------------------------------------------------
(* A host sends a frame.  Those on its own port hear it at once.  The switch *)
(* drops it if its flow is to be dropped.                                    *)
Send(src, dst) ==
  /\ Len(packetIns) + Len(messages) < Pending
  /\ LET frame == [src |-> src, dst |-> dst, port |-> location[src]]
         near == dst \in Hosts /\ location[dst] = location[src]
     IN  /\ IF <<src, dst>> \in dropped
            THEN UNCHANGED <<packetIns, sentFrom>>
            ELSE /\ packetIns' = Append(packetIns, frame)
                 /\ sentFrom' = [sentFrom EXCEPT ![src] = location[src]]
         /\ heard' = IF near THEN heard \cup {<<src, dst>>} ELSE heard \ {<<src, dst>>}
  /\ UNCHANGED <<location, moves, macToPort, held, messages, dropped>>

Move(h, port) ==
  /\ moves < MaxMoves /\ moves' = moves + 1
  /\ location[h] # port /\ location' = [location EXCEPT ![h] = port]
  /\ UNCHANGED <<packetIns, macToPort, held, messages, dropped, heard, sentFrom>>

-----------------------------------------------------------------------------
(* _handle_PacketIn().  The table learns from every frame.  (A fault: only  *)
(* from the first of a host.)                                               *)
LearnedOnce(frame) ==
  IF macToPort[frame.src] = Unknown
  THEN [macToPort EXCEPT ![frame.src] = frame.port] ELSE macToPort
Learned(frame) == [macToPort EXCEPT ![frame.src] = frame.port]

(* flood(): during the hold-down the message has no action. *)
FloodTo == IF held THEN Nowhere ELSE Flood

Out(frame, to) == [cmd |-> "out", frame |-> frame, to |-> to]

(* drop(10): the flow of the frame is dropped, whatever port it comes from.  *)
Drop(frame) == [cmd |-> "drop", frame |-> frame, to |-> Nowhere]

(* (A fault: the table is read without asking whether it has the address.)   *)
AnswerUnasked(frame, table) ==
  CASE frame.dst = Filtered /\ ~Transparent -> Out(frame, Nowhere)
    [] frame.dst = Multicast \/ (frame.dst = Filtered /\ Transparent) -> Out(frame, FloodTo)
    [] frame.dst \in Hosts /\ table[frame.dst] = frame.port -> Drop(frame)
    [] OTHER -> Out(frame, table[frame.dst])

Answer(frame, table) ==
  CASE frame.dst = Filtered /\ ~Transparent -> Out(frame, Nowhere)
    [] frame.dst = Multicast \/ (frame.dst = Filtered /\ Transparent) -> Out(frame, FloodTo)
    [] frame.dst \in Hosts /\ table[frame.dst] = Unknown -> Out(frame, FloodTo)
    [] frame.dst \in Hosts /\ table[frame.dst] = frame.port -> Drop(frame)
    [] OTHER -> Out(frame, table[frame.dst])

HandlePacketIn ==
  /\ packetIns # <<>>
  /\ LET frame == Head(packetIns) IN
     /\ macToPort' = Learned(frame)
     /\ messages' = Append(messages, Answer(frame, Learned(frame)))
  /\ packetIns' = Tail(packetIns)
  /\ UNCHANGED <<location, moves, held, dropped, heard, sentFrom>>

(* The hold-down runs out. *)
HoldDownExpires ==
  /\ held /\ held' = FALSE
  /\ UNCHANGED <<location, moves, packetIns, macToPort, messages, dropped, heard, sentFrom>>

-----------------------------------------------------------------------------
(* The switch obeys a message. *)
Reaches(message, port) ==
  /\ message.cmd = "out"
  /\ message.to = port \/ (message.to = Flood /\ port # message.frame.port)

Obey ==
  /\ messages # <<>> /\ messages' = Tail(messages)
  /\ LET message == Head(messages)
         frame == message.frame
         pair == <<frame.src, frame.dst>>
     IN  /\ heard' = IF frame.dst \in Hosts /\ Reaches(message, location[frame.dst])
                     THEN heard \cup {pair} ELSE heard
         /\ dropped' = IF message.cmd = "drop" THEN dropped \cup {pair} ELSE dropped
  /\ UNCHANGED <<location, moves, packetIns, macToPort, held, sentFrom>>

(* Ten seconds pass: idle_timeout or hard_timeout. *)
Expire(pair) ==
  /\ pair \in dropped /\ dropped' = dropped \ {pair}
  /\ UNCHANGED <<location, moves, packetIns, macToPort, held, messages, heard, sentFrom>>

Next ==
  \/ \E src \in Hosts, dst \in Dsts : src # dst /\ Send(src, dst)
  \/ \E h \in Hosts, port \in Ports : Move(h, port)
  \/ HandlePacketIn \/ HoldDownExpires
  \/ Obey
  \/ \E pair \in Hosts \X Hosts : Expire(pair)

Spec == Init /\ [][Next]_vars

(* Controller and switch run and their timers expire; hosts keep sending to  *)
(* each other, as the two programs of a transfer do.                         *)
FairSpec ==
  /\ Spec
  /\ WF_vars(HandlePacketIn) /\ WF_vars(HoldDownExpires) /\ WF_vars(Obey)
  /\ \A src, dst \in Hosts : src # dst =>
       WF_vars(Expire(<<src, dst>>)) /\ SF_vars(Send(src, dst))

-----------------------------------------------------------------------------
(* The types; in particular, no message names a port the table does not have *)
(* (lines 167-170).                                                          *)
SwitchTypeOK ==
  /\ location \in [Hosts -> Ports] /\ moves \in 0..MaxMoves
  /\ packetIns \in Seq(Frame) /\ messages \in Seq(Message)
  /\ Len(packetIns) + Len(messages) <= Pending
  /\ macToPort \in [Hosts -> Ports \cup {Unknown}]
  /\ held \in BOOLEAN
  /\ dropped \subseteq Hosts \X Dsts /\ heard \subseteq Hosts \X Hosts
  /\ sentFrom \in [Hosts -> Ports \cup {Unknown}]

(* The table is as new as the frames the controller has been shown, however  *)
(* hosts move in between: once nothing of a host is on its way, the table    *)
(* has the port that its last frame came from (line 157).                    *)
FramesOf(h) == {i \in DOMAIN packetIns : packetIns[i].src = h}

TableCurrent ==
  \A h \in Hosts :
    /\ FramesOf(h) = {} => macToPort[h] = sentFrom[h]
    /\ \A i \in FramesOf(h) :
         (\A j \in FramesOf(h) : j <= i) => packetIns[i].port = sentFrom[h]

(* Hosts that keep sending reach each other, wherever they have moved: an    *)
(* old entry of the table, or a flow that is dropped because both were on    *)
(* one port (lines 170-176), cannot cut a host off for ever.                 *)
ReachableAgain ==
  \A src, dst \in Hosts : src # dst => []<>(<<src, dst>> \in heard)
=============================================================================
