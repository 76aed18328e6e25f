---------------------------- MODULE SwitchProofs ----------------------------
(***************************************************************************)
(* What is proved of the learning switch, for any number of hosts, ports,  *)
(* frames on the way and moves: its types, and that its table keeps up     *)
(* with the frames the controller is shown.                                *)
(***************************************************************************)
EXTENDS LearningSwitch, TLAPS

SwitchInv == SwitchTypeOK /\ TableCurrent

-----------------------------------------------------------------------------
(* Whatever the controller answers is a message (lines 113-187). *)
LEMMA AnswerTyped ==
  ASSUME NEW frame \in Frame, NEW table \in [Hosts -> Ports \cup {Unknown}],
         held \in BOOLEAN
  PROVE  Answer(frame, table) \in Message
<1>1. FloodTo \in {Flood, Nowhere} BY DEF FloodTo
<1>2. \A to \in Ports \cup {Flood, Nowhere} : Out(frame, to) \in Message
  BY DEF Out, Message
<1>3. Drop(frame) \in Message BY DEF Drop, Message
<1>4. CASE frame.dst = Filtered /\ ~Transparent
  BY <1>2, <1>4, SwitchAssumption DEF Answer
<1>5. CASE ~(frame.dst = Filtered /\ ~Transparent)
  <2>1. CASE frame.dst = Multicast \/ (frame.dst = Filtered /\ Transparent)
    BY <1>1, <1>2, <1>5, <2>1, SwitchAssumption DEF Answer
  <2>2. CASE ~(frame.dst = Multicast \/ (frame.dst = Filtered /\ Transparent))
    <3>1. frame.dst \in Hosts
      BY <1>5, <2>2 DEF Frame, Dsts
    <3>2. frame.dst # Multicast /\ frame.dst # Filtered
      BY <3>1, SwitchAssumption
    <3>3. CASE table[frame.dst] = Unknown
      <4>1. table[frame.dst] # frame.port
        BY <3>3, SwitchAssumption DEF Frame
      <4> QED BY <1>1, <1>2, <3>1, <3>2, <3>3, <4>1 DEF Answer
    <3>4. CASE table[frame.dst] = frame.port
      <4>1. table[frame.dst] # Unknown
        BY <3>4, SwitchAssumption DEF Frame
      <4> QED BY <1>3, <3>1, <3>2, <3>4, <4>1 DEF Answer
    <3>5. CASE table[frame.dst] # Unknown /\ table[frame.dst] # frame.port
      <4>1. table[frame.dst] \in Ports BY <3>1, <3>5
      <4>2. Answer(frame, table) = Out(frame, table[frame.dst])
        BY <3>1, <3>2, <3>5 DEF Answer
      <4> QED BY <1>2, <4>1, <4>2
    <3> QED BY <3>3, <3>4, <3>5
  <2> QED BY <2>1, <2>2
<1> QED BY <1>4, <1>5

LEMMA SwitchInit ==
  ASSUME Init PROVE SwitchInv
<1>1. SwitchTypeOK BY SwitchAssumption DEF Init, SwitchTypeOK
<1>2. DOMAIN packetIns = {} BY DEF Init
<1>3. \A h \in Hosts : FramesOf(h) = {} BY <1>2 DEF FramesOf
<1>4. TableCurrent BY <1>3 DEF Init, TableCurrent
<1> QED BY <1>1, <1>4 DEF SwitchInv

(* A host sends: what the controller is shown is appended, and no older     *)
(* frame of the host is the last one any more.                              *)
LEMMA SendKeeps ==
  ASSUME SwitchInv, NEW src \in Hosts, NEW dst \in Dsts, Send(src, dst)
  PROVE  SwitchInv'
<1> USE SwitchAssumption
<1> DEFINE frame == [src |-> src, dst |-> dst, port |-> location[src]]
<1>0. SwitchTypeOK /\ TableCurrent BY DEF SwitchInv
<1>1. frame \in Frame BY <1>0 DEF SwitchTypeOK, Frame
<1>2. heard' \subseteq Hosts \X Hosts BY <1>0 DEF Send, SwitchTypeOK
<1>3. CASE <<src, dst>> \in dropped
  <2>1. packetIns' = packetIns /\ sentFrom' = sentFrom BY <1>3 DEF Send
  <2>2. SwitchTypeOK' BY <1>0, <1>2, <2>1 DEF Send, SwitchTypeOK
  <2>3. TableCurrent' BY <1>0, <2>1 DEF Send, TableCurrent, FramesOf
  <2> QED BY <2>2, <2>3 DEF SwitchInv
<1>4. CASE <<src, dst>> \notin dropped
  <2>1. /\ packetIns' = Append(packetIns, frame)
        /\ sentFrom' = [sentFrom EXCEPT ![src] = location[src]]
        /\ Len(packetIns) + Len(messages) < Pending
        /\ UNCHANGED <<location, moves, macToPort, held, messages, dropped>>
    BY <1>4 DEF Send
  <2>2. packetIns' \in Seq(Frame) /\ Len(packetIns') = Len(packetIns) + 1
    BY <1>0, <1>1, <2>1 DEF SwitchTypeOK
  <2>3. SwitchTypeOK'
    <3>1. sentFrom' \in [Hosts -> Ports \cup {Unknown}]
      BY <1>0, <2>1 DEF SwitchTypeOK
    <3>2. Len(packetIns') + Len(messages') <= Pending
      BY <1>0, <2>1, <2>2 DEF SwitchTypeOK
    <3> QED BY <1>0, <1>2, <2>1, <2>2, <3>1, <3>2 DEF SwitchTypeOK
  <2>4. ASSUME NEW h \in Hosts
        PROVE  /\ FramesOf(h)' = {} => macToPort'[h] = sentFrom'[h]
               /\ \A i \in FramesOf(h)' :
                    (\A j \in FramesOf(h)' : j <= i) => packetIns'[i].port = sentFrom'[h]
    <3> DEFINE n == Len(packetIns) + 1
    <3>1. /\ DOMAIN packetIns' = 1..n /\ DOMAIN packetIns = 1..(n - 1)
          /\ n \in Nat /\ n >= 1
          /\ packetIns'[n] = frame
          /\ \A i \in 1..(n - 1) : packetIns'[i] = packetIns[i]
      BY <1>0, <1>1, <2>1 DEF SwitchTypeOK
    <3> HIDE DEF n
    <3>2. CASE h = src
      <4>1. n \in FramesOf(h)'
        BY <3>1, <3>2 DEF FramesOf
      <4>2. sentFrom'[h] = location[src]
        BY <1>0, <2>1, <3>2 DEF SwitchTypeOK
      <4>3. ASSUME NEW i \in FramesOf(h)', \A j \in FramesOf(h)' : j <= i
            PROVE  packetIns'[i].port = sentFrom'[h]
        <5>1. i \in 1..n /\ n <= i BY <3>1, <4>1, <4>3 DEF FramesOf
        <5>2. i = n BY <3>1, <5>1
        <5> QED BY <3>1, <4>2, <5>2
      <4> QED BY <4>1, <4>3
    <3>3. CASE h # src
      <4>1. FramesOf(h)' = FramesOf(h)
        BY <3>1, <3>3 DEF FramesOf
      <4>2. sentFrom'[h] = sentFrom[h] /\ macToPort'[h] = macToPort[h]
        BY <1>0, <2>1, <3>3 DEF SwitchTypeOK
      <4>3. \A i \in FramesOf(h) : packetIns'[i] = packetIns[i]
        BY <3>1 DEF FramesOf
      <4> QED BY <1>0, <4>1, <4>2, <4>3 DEF TableCurrent
    <3> QED BY <3>2, <3>3
  <2>5. TableCurrent' BY <2>4 DEF TableCurrent
  <2> QED BY <2>3, <2>5 DEF SwitchInv
<1> QED BY <1>3, <1>4

(* The controller handles the oldest frame: the others move up by one, and  *)
(* the table gets the port of the one that is handled.                      *)
LEMMA HandleKeeps ==
  ASSUME SwitchInv, HandlePacketIn
  PROVE  SwitchInv'
<1> USE SwitchAssumption
<1> DEFINE frame == Head(packetIns)
           n == Len(packetIns)
<1>0. SwitchTypeOK /\ TableCurrent BY DEF SwitchInv
<1>1. /\ packetIns # <<>> /\ packetIns' = Tail(packetIns)
      /\ macToPort' = Learned(frame)
      /\ messages' = Append(messages, Answer(frame, Learned(frame)))
      /\ UNCHANGED <<location, moves, held, dropped, heard, sentFrom>>
  BY DEF HandlePacketIn
<1>2. /\ n \in Nat /\ n >= 1 /\ DOMAIN packetIns = 1..n
      /\ frame \in Frame /\ frame = packetIns[1]
      /\ packetIns' \in Seq(Frame) /\ Len(packetIns') = n - 1
      /\ DOMAIN packetIns' = 1..(n - 1)
      /\ \A i \in 1..(n - 1) : packetIns'[i] = packetIns[i + 1]
  BY <1>0, <1>1 DEF SwitchTypeOK
<1>3. Learned(frame) \in [Hosts -> Ports \cup {Unknown}]
  BY <1>0, <1>2 DEF SwitchTypeOK, Learned, Frame
<1>4. Answer(frame, Learned(frame)) \in Message
  BY <1>0, <1>2, <1>3, AnswerTyped DEF SwitchTypeOK
<1>5. SwitchTypeOK'
  <2>1. messages' \in Seq(Message) /\ Len(messages') = Len(messages) + 1
    BY <1>0, <1>1, <1>4 DEF SwitchTypeOK
  <2>2. Len(packetIns') + Len(messages') <= Pending
    BY <1>0, <1>2, <2>1 DEF SwitchTypeOK
  <2> QED BY <1>0, <1>1, <1>2, <1>3, <2>1, <2>2 DEF SwitchTypeOK
<1> HIDE DEF n
<1>6. ASSUME NEW h \in Hosts
      PROVE  /\ FramesOf(h)' = {} => macToPort'[h] = sentFrom'[h]
             /\ \A i \in FramesOf(h)' :
                  (\A j \in FramesOf(h)' : j <= i) => packetIns'[i].port = sentFrom'[h]
  <2>1. \A i \in FramesOf(h)' : i \in 1..(n - 1) /\ i + 1 \in FramesOf(h)
    BY <1>2 DEF FramesOf
  <2>2. \A j \in FramesOf(h) : j \in 1..n /\ (j # 1 => j - 1 \in FramesOf(h)')
    <3> SUFFICES ASSUME NEW j \in FramesOf(h)
                 PROVE  j \in 1..n /\ (j # 1 => j - 1 \in FramesOf(h)')
      OBVIOUS
    <3>1. j \in 1..n /\ packetIns[j].src = h BY <1>2 DEF FramesOf
    <3>2. CASE j # 1
      <4>1. j - 1 \in 1..(n - 1) /\ (j - 1) + 1 = j BY <1>2, <3>1, <3>2
      <4>2. packetIns'[j - 1] = packetIns[j] BY <1>2, <4>1
      <4> QED BY <1>2, <3>1, <4>1, <4>2 DEF FramesOf
    <3> QED BY <3>1, <3>2
  <2>3. ASSUME FramesOf(h)' = {} PROVE macToPort'[h] = sentFrom'[h]
    <3>1. \A j \in FramesOf(h) : j = 1 BY <2>2, <2>3
    <3>2. CASE frame.src = h
      <4>1. 1 \in FramesOf(h) BY <1>2, <3>2 DEF FramesOf
      <4>2. frame.port = sentFrom[h]
        BY <1>0, <1>2, <3>1, <4>1 DEF TableCurrent
      <4> QED BY <1>0, <1>1, <3>2, <4>2 DEF Learned, SwitchTypeOK
    <3>3. CASE frame.src # h
      <4>1. FramesOf(h) = {} BY <1>2, <3>1, <3>3 DEF FramesOf
      <4>2. macToPort'[h] = macToPort[h]
        BY <1>0, <1>1, <3>3 DEF Learned, SwitchTypeOK
      <4> QED BY <1>0, <1>1, <4>1, <4>2 DEF TableCurrent
    <3> QED BY <3>2, <3>3
  <2>4. ASSUME NEW i \in FramesOf(h)', \A j \in FramesOf(h)' : j <= i
        PROVE  packetIns'[i].port = sentFrom'[h]
    <3>1. i \in 1..(n - 1) /\ i + 1 \in FramesOf(h) BY <2>1
    <3>2. \A j \in FramesOf(h) : j <= i + 1
      <4> SUFFICES ASSUME NEW j \in FramesOf(h) PROVE j <= i + 1
        OBVIOUS
      <4>1. j \in 1..n BY <2>2
      <4>2. CASE j = 1 BY <1>2, <3>1, <4>2
      <4>3. CASE j # 1
        <5>1. j - 1 <= i BY <2>2, <2>4, <4>3
        <5> QED BY <1>2, <3>1, <4>1, <5>1
      <4> QED BY <4>2, <4>3
    <3>3. packetIns[i + 1].port = sentFrom[h]
      BY <1>0, <3>1, <3>2 DEF TableCurrent
    <3> QED BY <1>1, <1>2, <3>1, <3>3
  <2> QED BY <2>3, <2>4
<1>7. TableCurrent' BY <1>6 DEF TableCurrent
<1> QED BY <1>5, <1>7 DEF SwitchInv

(* The other steps change neither the frames on the way nor the table. *)
LEMMA OthersKeep ==
  ASSUME SwitchInv,
         \/ \E h \in Hosts, port \in Ports : Move(h, port)
         \/ HoldDownExpires \/ Obey
         \/ \E pair \in Hosts \X Hosts : Expire(pair)
         \/ UNCHANGED vars
  PROVE  SwitchInv'
<1> USE SwitchAssumption
<1>0. SwitchTypeOK /\ TableCurrent BY DEF SwitchInv
<1>1. UNCHANGED <<packetIns, macToPort, sentFrom>>
  BY DEF Move, HoldDownExpires, Obey, Expire, vars
<1>2. TableCurrent' BY <1>0, <1>1 DEF TableCurrent, FramesOf
<1>3. SwitchTypeOK'
  <2>1. ASSUME NEW h \in Hosts, NEW port \in Ports, Move(h, port) PROVE SwitchTypeOK'
    BY <1>0, <2>1 DEF Move, SwitchTypeOK
  <2>2. CASE HoldDownExpires BY <1>0, <2>2 DEF HoldDownExpires, SwitchTypeOK
  <2>3. CASE Obey
    <3>1. /\ messages # <<>> /\ messages' = Tail(messages)
          /\ UNCHANGED <<location, moves, packetIns, macToPort, held, sentFrom>>
      BY <2>3 DEF Obey
    <3>2. /\ messages' \in Seq(Message) /\ Len(messages') = Len(messages) - 1
          /\ Head(messages) \in Message /\ Len(messages) \in Nat
      BY <1>0, <3>1 DEF SwitchTypeOK
    <3>3. Head(messages).frame.src \in Hosts /\ Head(messages).frame.dst \in Dsts
      BY <3>2 DEF Message, Frame
    <3>4. heard' \subseteq Hosts \X Hosts
      BY <1>0, <2>3, <3>3 DEF Obey, SwitchTypeOK
    <3>5. dropped' \subseteq Hosts \X Dsts
      BY <1>0, <2>3, <3>3 DEF Obey, SwitchTypeOK
    <3>6. Len(packetIns) \in Nat BY <1>0 DEF SwitchTypeOK
    <3>7. Len(packetIns') + Len(messages') <= Pending
      BY <1>0, <3>1, <3>2, <3>6 DEF SwitchTypeOK
    <3> QED BY <1>0, <3>1, <3>2, <3>4, <3>5, <3>7 DEF SwitchTypeOK
  <2>4. ASSUME NEW pair \in Hosts \X Hosts, Expire(pair) PROVE SwitchTypeOK'
    BY <1>0, <2>4 DEF Expire, SwitchTypeOK
  <2>5. CASE UNCHANGED vars BY <1>0, <2>5 DEF vars, SwitchTypeOK
  <2> QED BY <2>1, <2>2, <2>3, <2>4, <2>5
<1> QED BY <1>2, <1>3 DEF SwitchInv

-----------------------------------------------------------------------------
(* Types and table together are inductive: every step of hosts, controller  *)
(* and switch keeps them.                                                   *)
THEOREM SwitchInvariant == Spec => []SwitchInv
<1>1. Init => SwitchInv BY SwitchInit
<1>2. SwitchInv /\ [Next]_vars => SwitchInv'
  BY SendKeeps, HandleKeeps, OthersKeep DEF Next
<1> QED BY <1>1, <1>2, PTL DEF Spec

(* The types hold in every behaviour; no message names an unknown port      *)
(* (lines 167-170).                                                         *)
THEOREM SwitchTypeCorrect == Spec => []SwitchTypeOK
<1>1. SwitchInv => SwitchTypeOK BY DEF SwitchInv
<1> QED BY <1>1, SwitchInvariant, PTL

(* The table is always as new as the frames shown to the controller         *)
(* (line 157), however often and wherever hosts move.                       *)
THEOREM TableAlwaysCurrent == Spec => []TableCurrent
<1>1. SwitchInv => TableCurrent BY DEF SwitchInv
<1> QED BY <1>1, SwitchInvariant, PTL
=============================================================================
