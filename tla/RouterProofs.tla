---------------------------- MODULE RouterProofs ----------------------------
(***************************************************************************)
(* Proofs about the router of project3 and its neighbours: RouterInv is an *)
(* inductive invariant, for every set of interfaces, every routing table,  *)
(* every word size and every number of frames, and the properties that     *)
(* follow from it; and which tables the lookup of the route reads rightly. *)
(***************************************************************************)
EXTENDS RouterNetwork, WellFoundedInduction, TLAPS

-----------------------------------------------------------------------------
(* Sequences: what Head and Tail leave, what Append adds. *)
LEMMA TailElements ==
  ASSUME NEW S, NEW s \in Seq(S), s # <<>>
  PROVE  /\ Tail(s) \in Seq(S) /\ Head(s) \in S /\ Head(s) = s[1]
         /\ Len(s) \in Nat /\ 1 \in 1..Len(s) /\ Len(Tail(s)) = Len(s) - 1
         /\ \A n \in 1..Len(Tail(s)) : n + 1 \in 1..Len(s) /\ Tail(s)[n] = s[n + 1]
OBVIOUS

LEMMA AppendElements ==
  ASSUME NEW S, NEW s \in Seq(S), NEW e \in S
  PROVE  /\ Append(s, e) \in Seq(S)
         /\ Len(s) \in Nat /\ Len(Append(s, e)) = Len(s) + 1
         /\ Append(s, e)[Len(s) + 1] = e
         /\ \A n \in 1..Len(s) : Append(s, e)[n] = s[n]
OBVIOUS

(* The same, for the sockets and the inboxes. *)
LEMMA ReceiveElements ==
  ASSUME RouterTypeOK, NEW f \in Ifaces, socks[f] # <<>>, Receive(f)
  PROVE  /\ socks' \in [Ifaces -> Seq(Arrival)]
         /\ Head(socks[f]) \in Arrival /\ Head(socks[f]) = socks[f][1]
         /\ \A g \in Ifaces : g # f => socks'[g] = socks[g]
         /\ Len(socks[f]) \in Nat /\ 1 \in 1..Len(socks[f]) /\ Len(socks'[f]) = Len(socks[f]) - 1
         /\ \A n \in 1..Len(socks'[f]) :
              n + 1 \in 1..Len(socks[f]) /\ socks'[f][n] = socks[f][n + 1]
<1>1. socks \in [Ifaces -> Seq(Arrival)] /\ socks[f] \in Seq(Arrival)
  BY DEF RouterTypeOK
<1>2. socks' = [socks EXCEPT ![f] = Tail(socks[f])]
  BY DEF Receive
<1>3. socks'[f] = Tail(socks[f]) /\ \A g \in Ifaces : g # f => socks'[g] = socks[g]
  BY <1>1, <1>2
<1>4. Tail(socks[f]) \in Seq(Arrival)
  BY <1>1, TailElements
<1>5. socks' \in [Ifaces -> Seq(Arrival)]
  BY <1>1, <1>2, <1>4
<1>6. /\ Head(socks[f]) \in Arrival /\ Head(socks[f]) = socks[f][1]
      /\ Len(socks[f]) \in Nat /\ 1 \in 1..Len(socks[f]) /\ Len(Tail(socks[f])) = Len(socks[f]) - 1
      /\ \A n \in 1..Len(Tail(socks[f])) :
           n + 1 \in 1..Len(socks[f]) /\ Tail(socks[f])[n] = socks[f][n + 1]
  BY <1>1, TailElements
<1> QED BY <1>3, <1>5, <1>6

LEMMA ArriveElements ==
  ASSUME RouterTypeOK, NEW f \in Ifaces, NEW e \in Arrival,
         socks' = [socks EXCEPT ![f] = Append(@, e)]
  PROVE  /\ socks' \in [Ifaces -> Seq(Arrival)]
         /\ \A g \in Ifaces : g # f => socks'[g] = socks[g]
         /\ Len(socks[f]) \in Nat /\ Len(socks'[f]) = Len(socks[f]) + 1
         /\ socks'[f][Len(socks[f]) + 1] = e
         /\ \A n \in 1..Len(socks[f]) : socks'[f][n] = socks[f][n]
<1>1. socks \in [Ifaces -> Seq(Arrival)] /\ socks[f] \in Seq(Arrival)
  BY DEF RouterTypeOK
<1>2. socks'[f] = Append(socks[f], e) /\ \A g \in Ifaces : g # f => socks'[g] = socks[g]
  BY <1>1
<1>3. Append(socks[f], e) \in Seq(Arrival)
  BY <1>1, AppendElements
<1>4. socks' \in [Ifaces -> Seq(Arrival)]
  BY <1>1, <1>3
<1>5. /\ Len(socks[f]) \in Nat /\ Len(Append(socks[f], e)) = Len(socks[f]) + 1
      /\ Append(socks[f], e)[Len(socks[f]) + 1] = e
      /\ \A n \in 1..Len(socks[f]) : Append(socks[f], e)[n] = socks[f][n]
  BY <1>1, AppendElements
<1> QED BY <1>2, <1>4, <1>5

LEMMA SendToElements ==
  ASSUME RouterTypeOK, NEW f \in Ifaces, NEW e \in Frame, SendTo(f, e)
  PROVE  /\ inbox' \in [Ifaces -> Seq(Frame)]
         /\ \A g \in Ifaces : g # f => inbox'[g] = inbox[g]
         /\ Len(inbox[f]) \in Nat /\ Len(inbox'[f]) = Len(inbox[f]) + 1
         /\ inbox'[f][Len(inbox[f]) + 1] = e
         /\ \A n \in 1..Len(inbox[f]) : inbox'[f][n] = inbox[f][n]
<1>1. inbox \in [Ifaces -> Seq(Frame)] /\ inbox[f] \in Seq(Frame)
  BY DEF RouterTypeOK
<1>2. inbox' = [inbox EXCEPT ![f] = Append(inbox[f], e)]
  BY DEF SendTo
<1>3. inbox'[f] = Append(inbox[f], e) /\ \A g \in Ifaces : g # f => inbox'[g] = inbox[g]
  BY <1>1, <1>2
<1>4. Append(inbox[f], e) \in Seq(Frame)
  BY <1>1, AppendElements
<1>5. inbox' \in [Ifaces -> Seq(Frame)]
  BY <1>1, <1>2, <1>4
<1>6. /\ Len(inbox[f]) \in Nat /\ Len(Append(inbox[f], e)) = Len(inbox[f]) + 1
      /\ Append(inbox[f], e)[Len(inbox[f]) + 1] = e
      /\ \A n \in 1..Len(inbox[f]) : Append(inbox[f], e)[n] = inbox[f][n]
  BY <1>1, AppendElements
<1> QED BY <1>3, <1>5, <1>6

LEMMA TakeElements ==
  ASSUME RouterTypeOK, NEW f \in Ifaces, inbox[f] # <<>>,
         inbox' = [inbox EXCEPT ![f] = Tail(@)]
  PROVE  /\ inbox' \in [Ifaces -> Seq(Frame)]
         /\ Head(inbox[f]) \in Frame /\ Head(inbox[f]) = inbox[f][1]
         /\ \A g \in Ifaces : g # f => inbox'[g] = inbox[g]
         /\ Len(inbox[f]) \in Nat /\ 1 \in 1..Len(inbox[f]) /\ Len(inbox'[f]) = Len(inbox[f]) - 1
         /\ \A n \in 1..Len(inbox'[f]) :
              n + 1 \in 1..Len(inbox[f]) /\ inbox'[f][n] = inbox[f][n + 1]
<1>1. inbox \in [Ifaces -> Seq(Frame)] /\ inbox[f] \in Seq(Frame)
  BY DEF RouterTypeOK
<1>2. inbox'[f] = Tail(inbox[f]) /\ \A g \in Ifaces : g # f => inbox'[g] = inbox[g]
  BY <1>1
<1>3. Tail(inbox[f]) \in Seq(Frame)
  BY <1>1, TailElements
<1>4. inbox' \in [Ifaces -> Seq(Frame)]
  BY <1>1, <1>3
<1>5. /\ Head(inbox[f]) \in Frame /\ Head(inbox[f]) = inbox[f][1]
      /\ Len(inbox[f]) \in Nat /\ 1 \in 1..Len(inbox[f]) /\ Len(Tail(inbox[f])) = Len(inbox[f]) - 1
      /\ \A n \in 1..Len(Tail(inbox[f])) :
           n + 1 \in 1..Len(inbox[f]) /\ Tail(inbox[f])[n] = inbox[f][n + 1]
  BY <1>1, TailElements
<1> QED BY <1>2, <1>4, <1>5

-----------------------------------------------------------------------------
(* The frames of either end are frames. *)
LEMMA MacTypes ==
  ASSUME NEW f \in Ifaces
  PROVE  RouterMac(f) \in Mac /\ HostMac(f) \in Mac /\ Broadcast \in Mac
         /\ RouterMac(f) # HostMac(f)
BY DEF RouterMac, HostMac, Broadcast, Mac

LEMMA Constants ==
  /\ RouterIface \in Ifaces /\ OwnAddr \in Addrs
  /\ IfAddr \in [Ifaces -> Addrs] /\ HostAddr \in [Ifaces -> Addrs]
  /\ Base \in Nat /\ Base > 1 /\ DataWords \in Nat /\ Request \in Word /\ Request # 0
  /\ 0 \in Word /\ Word \subseteq Nat
BY RouterAssumption, NetworkAssumption DEF OwnAddr, Word

LEMMA ArpReplyType ==
  ASSUME NEW arp \in Arp
  PROVE  /\ ArpReplyTo(arp) \in Arp /\ ArpReplyTo(arp).op = 2
         /\ ArpReplyTo(arp).kind = "arp"
         /\ ArpReplyTo(arp).sha = RouterMac(RouterIface)
         /\ ArpReplyTo(arp).spa = arp.dpa
BY MacTypes, Constants DEF ArpReplyTo, Arp

LEMMA ArpRequestType ==
  ASSUME NEW f \in Ifaces, NEW a \in Addrs
  PROVE  /\ ArpRequest(f, a) \in Arp /\ ArpRequest(f, a).kind = "arp"
         /\ ArpRequest(f, a).sha = RouterMac(f) /\ ArpRequest(f, a).spa = IfAddr[f]
         /\ ArpRequest(f, a).dpa = a
BY MacTypes, Constants DEF ArpRequest, Arp

LEMMA NoReplyType == NoReply \in Ip
<1>1. [w \in 1..DataWords |-> 0] \in Data
  BY Constants DEF Data
<1>2. IfAddr[RouterIface] \in Addrs
  BY Constants
<1> QED BY <1>1, <1>2, MacTypes, Constants DEF NoReply, Ip

LEMMA EchoReplyType ==
  ASSUME NEW ip \in Ip
  PROVE  /\ EchoReplyTo(ip) \in Ip /\ EchoReplyTo(ip).id = ip.id
         /\ EchoReplyTo(ip).data = ip.data /\ EchoReplyTo(ip).saddr = ip.daddr
         /\ EchoReplyTo(ip).kind = "ip"
BY MacTypes, Constants DEF EchoReplyTo, Ip

LEMMA SentType ==
  ASSUME NEW ip \in Ip, acc \in 1..(Base - 1)
  PROVE  /\ Sent(ip) \in Ip /\ Sent(ip).id = ip.id /\ Sent(ip).data = ip.data
         /\ Sent(ip).saddr = ip.saddr /\ Sent(ip).kind = "ip"
         /\ Sent(ip).checksum = Base - 1 - acc
<1>1. Base - 1 - acc \in Word
  BY Constants DEF Word
<1> QED BY <1>1 DEF Sent, Ip

LEMMA HostFrameTypes ==
  ASSUME NEW f \in Ifaces
  PROVE  /\ \A a \in Addrs : /\ HostRequest(f, a) \in Arp
                             /\ HostRequest(f, a).shost = HostMac(f)
                             /\ HostRequest(f, a).kind = "arp"
         /\ \A arp \in Arp : /\ HostReply(f, arp) \in Arp
                             /\ HostReply(f, arp).shost = HostMac(f)
                             /\ HostReply(f, arp).kind = "arp"
BY MacTypes, Constants DEF HostRequest, HostReply, Arp

LEMMA FrameKinds ==
  ASSUME NEW e \in Frame
  PROVE  /\ e.kind = "arp" => e \in Arp
         /\ e.kind = "ip" => e \in Ip
         /\ e.kind \in {"arp", "ip"}
BY DEF Frame, Arp, Ip

(* What is read from a socket or an inbox. *)
LEMMA GotType ==
  ASSUME RouterTypeOK, NEW f \in Ifaces, socks[f] # <<>>
  PROVE  /\ Got(f) \in Frame /\ Got(f) = socks[f][1].frame
         /\ Head(socks[f]).out \in BOOLEAN /\ 1 \in 1..Len(socks[f])
         /\ Head(socks[f]) = socks[f][1]
<1>1. socks[f] \in Seq(Arrival)
  BY DEF RouterTypeOK
<1>2. Head(socks[f]) \in Arrival /\ Head(socks[f]) = socks[f][1] /\ 1 \in 1..Len(socks[f])
  BY <1>1, TailElements
<1> QED BY <1>2 DEF Got, Arrival

LEMMA ReadingType ==
  ASSUME RouterTypeOK, NEW kind, Reading(kind)
  PROVE  /\ at = "main" /\ socks[RouterIface] # <<>> /\ ~Head(socks[RouterIface]).out
         /\ Got(RouterIface) \in Frame /\ Got(RouterIface).kind = kind
         /\ kind = "arp" => Got(RouterIface) \in Arp
         /\ kind = "ip" => Got(RouterIface) \in Ip
<1>1. at = "main" /\ socks[RouterIface] # <<>> /\ ~Head(socks[RouterIface]).out
      /\ Got(RouterIface).kind = kind
  BY DEF Reading, Incoming
<1>2. Got(RouterIface) \in Frame
  BY <1>1, GotType, Constants
<1> QED BY <1>1, <1>2, FrameKinds

-----------------------------------------------------------------------------
(* The frames on the way: what a reception, an arrival and a transmission do *)
(* to SocksRight and InboxRight.                                             *)
LEMMA SocksReceive ==
  ASSUME RouterTypeOK, SocksRight, NEW f \in Ifaces, socks[f] # <<>>, Receive(f)
  PROVE  SocksRight'
<1> SUFFICES ASSUME NEW g \in Ifaces, NEW n \in 1..Len(socks'[g])
             PROVE  ~socks'[g][n].out => socks'[g][n].frame.shost = HostMac(g)
  BY DEF SocksRight, HostMac
<1>1. CASE g = f
  <2>1. n + 1 \in 1..Len(socks[f]) /\ socks'[f][n] = socks[f][n + 1]
    BY <1>1, ReceiveElements
  <2> QED BY <1>1, <2>1 DEF SocksRight
<1>2. CASE g # f
  <2>1. socks'[g] = socks[g]
    BY <1>2, ReceiveElements
  <2> QED BY <2>1 DEF SocksRight
<1> QED BY <1>1, <1>2

LEMMA SocksArrive ==
  ASSUME RouterTypeOK, SocksRight, NEW f \in Ifaces, NEW e \in Arrival,
         ~e.out => e.frame.shost = HostMac(f),
         socks' = [socks EXCEPT ![f] = Append(@, e)]
  PROVE  SocksRight'
<1> SUFFICES ASSUME NEW g \in Ifaces, NEW n \in 1..Len(socks'[g])
             PROVE  ~socks'[g][n].out => socks'[g][n].frame.shost = HostMac(g)
  BY DEF SocksRight, HostMac
<1>1. CASE g = f
  <2>1. /\ Len(socks[f]) \in Nat /\ Len(socks'[f]) = Len(socks[f]) + 1
        /\ socks'[f][Len(socks[f]) + 1] = e
        /\ \A m \in 1..Len(socks[f]) : socks'[f][m] = socks[f][m]
    BY ArriveElements
  <2>2. n \in 1..Len(socks[f]) \/ n = Len(socks[f]) + 1
    BY <1>1, <2>1
  <2> QED BY <1>1, <2>1, <2>2 DEF SocksRight
<1>2. CASE g # f
  <2>1. socks'[g] = socks[g]
    BY <1>2, ArriveElements
  <2> QED BY <2>1 DEF SocksRight
<1> QED BY <1>1, <1>2

LEMMA InboxSend ==
  ASSUME RouterTypeOK, InboxRight, NEW f \in Ifaces, NEW e \in Frame, SendTo(f, e),
         e.kind = "arp" => e.spa = IfAddr[f] /\ e.sha = RouterMac(f)
  PROVE  InboxRight'
<1> SUFFICES ASSUME NEW g \in Ifaces, NEW n \in 1..Len(inbox'[g]), inbox'[g][n].kind = "arp"
             PROVE  inbox'[g][n].spa = IfAddr[g] /\ inbox'[g][n].sha = RouterMac(g)
  BY DEF InboxRight, RouterMac
<1>1. CASE g = f
  <2>1. /\ Len(inbox[f]) \in Nat /\ Len(inbox'[f]) = Len(inbox[f]) + 1
        /\ inbox'[f][Len(inbox[f]) + 1] = e
        /\ \A m \in 1..Len(inbox[f]) : inbox'[f][m] = inbox[f][m]
    BY SendToElements
  <2>2. n \in 1..Len(inbox[f]) \/ n = Len(inbox[f]) + 1
    BY <1>1, <2>1
  <2> QED BY <1>1, <2>1, <2>2 DEF InboxRight
<1>2. CASE g # f
  <2>1. inbox'[g] = inbox[g]
    BY <1>2, SendToElements
  <2> QED BY <2>1 DEF InboxRight
<1> QED BY <1>1, <1>2

LEMMA InboxTake ==
  ASSUME RouterTypeOK, InboxRight, NEW f \in Ifaces, inbox[f] # <<>>,
         inbox' = [inbox EXCEPT ![f] = Tail(@)]
  PROVE  InboxRight'
<1> SUFFICES ASSUME NEW g \in Ifaces, NEW n \in 1..Len(inbox'[g]), inbox'[g][n].kind = "arp"
             PROVE  inbox'[g][n].spa = IfAddr[g] /\ inbox'[g][n].sha = RouterMac(g)
  BY DEF InboxRight, RouterMac
<1>1. CASE g = f
  <2>1. n + 1 \in 1..Len(inbox[f]) /\ inbox'[f][n] = inbox[f][n + 1]
    BY <1>1, TakeElements
  <2> QED BY <1>1, <2>1 DEF InboxRight
<1>2. CASE g # f
  <2>1. inbox'[g] = inbox[g]
    BY <1>2, TakeElements
  <2> QED BY <2>1 DEF InboxRight
<1> QED BY <1>1, <1>2

-----------------------------------------------------------------------------
(* The checksum: adding a word keeps acc congruent to total. *)
LEMMA Multiple ==
  ASSUME NEW m \in Nat \ {0}, NEW x \in Int
  PROVE  x % m = 0 <=> \E q \in Int : x = q * m
<1>1. ASSUME x % m = 0 PROVE \E q \in Int : x = q * m
  <2>1. x = m * (x \div m) + (x % m) /\ x \div m \in Int
    OBVIOUS
  <2> QED BY <1>1, <2>1
<1>2. ASSUME NEW q \in Int, x = q * m PROVE x % m = 0
  BY <1>2
<1> QED BY <1>1, <1>2

LEMMA AddWordType ==
  ASSUME NEW a \in 1..(Base - 1), NEW w \in Word
  PROVE  AddWord(a, w) \in 1..(Base - 1) /\ AddWord(a, w) \in {a + w, a + w - (Base - 1)}
BY Constants DEF AddWord, Word

LEMMA AddWordCongruent ==
  ASSUME NEW a \in 1..(Base - 1), NEW w \in Word, NEW t \in Nat,
         (t - a) % (Base - 1) = 0
  PROVE  ((t + w) - AddWord(a, w)) % (Base - 1) = 0
<1> DEFINE m == Base - 1
<1>1. m \in Nat \ {0} /\ w \in Int
  BY Constants DEF Word
<1>2. PICK q \in Int : t - a = q * m
  <2>1. t - a \in Int /\ (t - a) % m = 0
    BY <1>1
  <2> HIDE DEF m
  <2> QED BY <1>1, <2>1, Multiple
<1>3. AddWord(a, w) \in {a + w, a + w - m} /\ AddWord(a, w) \in Int
  BY AddWordType
<1>4. (t + w) - AddWord(a, w) = q * m \/ (t + w) - AddWord(a, w) = q * m + m
  BY <1>1, <1>2, <1>3
<1>5. q * m + m = (q + 1) * m
  BY <1>1
<1>6. (t + w) - AddWord(a, w) \in Int /\ \E p \in Int : (t + w) - AddWord(a, w) = p * m
  <2>1. (t + w) - AddWord(a, w) \in Int
    BY <1>1, <1>3
  <2>2. q + 1 \in Int
    OBVIOUS
  <2> QED BY <2>1, <2>2, <1>4, <1>5
<1> QED BY <1>1, <1>6, Multiple

LEMMA WordsType ==
  ASSUME NEW ip \in Ip, NEW data \in Data, NEW n \in 0..(2 + DataWords)
  PROVE  Words(ip, data)[n + 1] \in Word
<1>1. data \in Seq(Word) /\ Len(data) = DataWords
  BY Constants DEF Data
<1>2. <<ip.type, ip.checksum, ip.id>> \in Seq(Word) /\ Len(<<ip.type, ip.checksum, ip.id>>) = 3
  BY DEF Ip
<1>3. Words(ip, data) \in Seq(Word) /\ Len(Words(ip, data)) = 3 + DataWords
  BY <1>1, <1>2 DEF Words
<1>4. n + 1 \in 1..(3 + DataWords)
  BY Constants
<1> QED BY <1>3, <1>4

-----------------------------------------------------------------------------
(* Every action keeps the types, the frames, the caches and the sum. *)
LEMMA FramesInit == Init => FramesRight
<1> SUFFICES ASSUME Init PROVE FramesRight
  OBVIOUS
<1> USE DEF Init, RouterInit
<1>1. RouterTypeOK
  <2>1. resp \in Ip /\ stale \in Data
    BY NoReplyType DEF Ip
  <2>2. /\ i \in 0..(3 + DataWords) /\ acc \in 1..(Base - 1) /\ total \in Nat
        /\ kernel \in 0..MaxKernel
    BY Constants, NetworkAssumption
  <2>3. sent \in [Ifaces -> Nat] /\ \A f \in Ifaces : sent[f] <= MaxSent[f]
    BY NetworkAssumption
  <2>4. at \in {"main", "summing", "waiting"} /\ waitOn \in Ifaces
    BY Constants
  <2>5. /\ socks \in [Ifaces -> Seq(Arrival)] /\ inbox \in [Ifaces -> Seq(Frame)]
        /\ pinged \in [Ifaces -> Seq(Ip)] /\ echoed \in [Ifaces -> Seq(Ip)]
    OBVIOUS
  <2>6. cache \in [Ifaces -> [Addrs -> Mac \cup {NoMac, Incomplete}]]
    OBVIOUS
  <2> QED BY <2>1, <2>2, <2>3, <2>4, <2>5, <2>6 DEF RouterTypeOK
<1>2. SocksRight /\ InboxRight
  BY DEF SocksRight, InboxRight
<1>3. CacheRight
  BY DEF CacheRight, Resolved
<1>4. SumRight
  BY DEF SumRight
<1> QED BY <1>1, <1>2, <1>3, <1>4 DEF FramesRight

(* The router drops a frame. *)
LEMMA FramesDrop ==
  ASSUME FramesRight, NEW f \in Ifaces, socks[f] # <<>>, Receive(f),
         UNCHANGED <<inbox, waitOn, resp, stale, i, acc, total, hostVars>>,
         at' = at \/ at' = "main"
  PROVE  FramesRight'
<1> USE DEF FramesRight, hostVars
<1>1. RouterTypeOK'
  <2>1. socks' \in [Ifaces -> Seq(Arrival)]
    BY ReceiveElements
  <2> QED BY <2>1 DEF RouterTypeOK
<1>2. SocksRight'
  BY SocksReceive
<1>3. InboxRight' /\ CacheRight' /\ SumRight'
  BY DEF InboxRight, CacheRight, Resolved, SumRight
<1> QED BY <1>1, <1>2, <1>3

LEMMA FramesIgnore == ASSUME FramesRight, Ignore, UNCHANGED hostVars PROVE FramesRight'
<1> DEFINE f == IF at = "waiting" THEN waitOn ELSE RouterIface
<1>1. f \in Ifaces
  BY Constants DEF FramesRight, RouterTypeOK
<1>2. socks[f] # <<>> /\ Receive(f) /\ UNCHANGED <<inbox, routerVars>>
  BY DEF Ignore
<1> HIDE DEF f
<1> QED BY <1>1, <1>2, FramesDrop DEF routerVars

LEMMA FramesIgnoreArp == ASSUME FramesRight, IgnoreArp, UNCHANGED hostVars PROVE FramesRight'
BY FramesDrop, Constants DEF IgnoreArp, Reading, Incoming, routerVars

LEMMA FramesDropPacket == ASSUME FramesRight, DropPacket, UNCHANGED hostVars PROVE FramesRight'
BY FramesDrop, Constants DEF DropPacket, Reading, Incoming, routerVars

LEMMA FramesEndWait == ASSUME FramesRight, EndWait, UNCHANGED hostVars PROVE FramesRight'
<1>1. waitOn \in Ifaces
  BY DEF FramesRight, RouterTypeOK
<1> QED BY <1>1, FramesDrop DEF EndWait, Incoming

LEMMA FramesSendArpReply ==
  ASSUME FramesRight, SendArpReply, UNCHANGED hostVars PROVE FramesRight'
<1> DEFINE arp == Got(RouterIface)
<1> USE DEF FramesRight
<1>1. arp \in Arp /\ socks[RouterIface] # <<>>
  BY ReadingType DEF SendArpReply
<1>2. Receive(RouterIface) /\ SendTo(RouterIface, ArpReplyTo(arp)) /\ ForRouter(arp)
      /\ UNCHANGED <<routerVars, hostVars>>
  BY DEF SendArpReply
<1> HIDE DEF arp
<1>3. ArpReplyTo(arp) \in Frame
  BY <1>1, ArpReplyType DEF Frame
<1>4. RouterTypeOK'
  <2>1. socks' \in [Ifaces -> Seq(Arrival)] /\ inbox' \in [Ifaces -> Seq(Frame)]
    BY <1>1, <1>2, <1>3, Constants, ReceiveElements, SendToElements
  <2> QED BY <1>2, <2>1 DEF RouterTypeOK, routerVars, hostVars
<1>5. SocksRight'
  BY <1>1, <1>2, Constants, SocksReceive
<1>6. InboxRight'
  <2>1. ArpReplyTo(arp).spa = IfAddr[RouterIface] /\ ArpReplyTo(arp).sha = RouterMac(RouterIface)
    BY <1>1, <1>2, ArpReplyType DEF ForRouter, OwnAddr
  <2> QED BY <1>2, <1>3, <2>1, Constants, InboxSend
<1>7. CacheRight' /\ SumRight'
  BY <1>2 DEF CacheRight, Resolved, SumRight, routerVars, hostVars
<1> QED BY <1>4, <1>5, <1>6, <1>7

LEMMA FramesStartEcho ==
  ASSUME FramesRight, StartEcho, UNCHANGED hostVars PROVE FramesRight'
<1> USE DEF FramesRight
<1>1. Got(RouterIface) \in Ip /\ socks[RouterIface] # <<>>
  BY ReadingType DEF StartEcho
<1>2. /\ resp' = EchoReplyTo(Got(RouterIface)) /\ stale' \in Data
      /\ at' = "summing" /\ i' = 0 /\ acc' = Base - 1 /\ total' = 0
      /\ Receive(RouterIface) /\ UNCHANGED <<inbox, waitOn, hostVars>>
  BY DEF StartEcho
<1>3. RouterTypeOK'
  <2>1. socks' \in [Ifaces -> Seq(Arrival)]
    BY <1>1, <1>2, Constants, ReceiveElements
  <2>2. resp' \in Ip
    BY <1>1, <1>2, EchoReplyType
  <2>3. i' \in 0..(3 + DataWords) /\ acc' \in 1..(Base - 1) /\ total' \in Nat
    BY <1>2, Constants
  <2> QED BY <1>2, <2>1, <2>2, <2>3 DEF RouterTypeOK, hostVars
<1>4. SocksRight'
  BY <1>1, <1>2, Constants, SocksReceive
<1>5. InboxRight' /\ CacheRight'
  BY <1>2 DEF InboxRight, CacheRight, Resolved, hostVars
<1>6. SumRight'
  <2>1. 0 - (Base - 1) = (0 - 1) * (Base - 1) /\ 0 - (Base - 1) \in Int /\ 0 - 1 \in Int
        /\ Base - 1 \in Nat \ {0}
    BY Constants
  <2>2. (0 - (Base - 1)) % (Base - 1) = 0
    BY <2>1, Multiple
  <2> QED BY <1>2, <2>2 DEF SumRight
<1> QED BY <1>3, <1>4, <1>5, <1>6

LEMMA FramesSumWord ==
  ASSUME FramesRight, SumWord, UNCHANGED hostVars PROVE FramesRight'
<1> DEFINE w == Words(resp, stale)[i + 1]
<1> USE DEF FramesRight
<1>1. /\ at = "summing" /\ i < 3 + DataWords /\ i' = i + 1
      /\ acc' = AddWord(acc, w) /\ total' = total + w
      /\ UNCHANGED <<socks, inbox, at, waitOn, resp, stale, hostVars>>
  BY DEF SumWord
<1>2. resp \in Ip /\ stale \in Data /\ i \in 0..(2 + DataWords) /\ acc \in 1..(Base - 1)
      /\ total \in Nat
  BY <1>1, Constants DEF RouterTypeOK
<1>3. w \in Word
  BY <1>2, WordsType
<1> HIDE DEF w
<1>4. acc' \in 1..(Base - 1) /\ total' \in Nat /\ i' \in 0..(3 + DataWords)
  <2>1. acc' \in 1..(Base - 1)
    BY <1>1, <1>2, <1>3, AddWordType
  <2>2. total' \in Nat
    BY <1>1, <1>2, <1>3, Constants
  <2> QED BY <1>1, <1>2, <2>1, <2>2, Constants
<1>5. RouterTypeOK'
  BY <1>1, <1>4 DEF RouterTypeOK, hostVars
<1>6. SumRight'
  BY <1>1, <1>2, <1>3, AddWordCongruent DEF SumRight
<1>7. SocksRight' /\ InboxRight' /\ CacheRight'
  BY <1>1 DEF SocksRight, InboxRight, CacheRight, Resolved, hostVars
<1> QED BY <1>5, <1>6, <1>7

LEMMA FramesSendEcho ==
  ASSUME FramesRight, SendEcho, UNCHANGED hostVars PROVE FramesRight'
<1> USE DEF FramesRight
<1>1. /\ SendTo(RouterIface, Sent(resp)) /\ at' = "main"
      /\ UNCHANGED <<socks, waitOn, resp, stale, i, acc, total, hostVars>>
  BY DEF SendEcho
<1>2. Sent(resp) \in Frame /\ Sent(resp).kind = "ip"
  BY SentType DEF RouterTypeOK, Frame
<1>3. RouterTypeOK'
  <2>1. inbox' \in [Ifaces -> Seq(Frame)]
    BY <1>1, <1>2, Constants, SendToElements
  <2> QED BY <1>1, <2>1 DEF RouterTypeOK, hostVars
<1>4. InboxRight'
  BY <1>1, <1>2, Constants, InboxSend
<1>5. SocksRight' /\ CacheRight' /\ SumRight'
  BY <1>1 DEF SocksRight, CacheRight, Resolved, SumRight, hostVars
<1> QED BY <1>3, <1>4, <1>5

(* Of some lines of a table one is the last. *)
LEMMA LastOf ==
  ASSUME NEW n \in Nat, NEW S \in SUBSET (1..n), S # {}
  PROVE  \E x \in S : \A y \in S : y <= x
<1> DEFINE D == {n - x : x \in S}
           R == OpToRel(<, Nat)
<1>1. D \in SUBSET Nat /\ D # {}
  <2>1. \A x \in S : n - x \in Nat
    OBVIOUS
  <2> QED BY <2>1
<1>2. PICK d \in D : \A e \in D : ~ (<<e, d>> \in R)
  <2> HIDE DEF D
  <2>1. \E d \in D : \A e \in D : ~ (<<e, d>> \in R)
    BY <1>1, WFMin, NatLessThanWellFounded
  <2> QED BY <2>1
<1>3. PICK x \in S : d = n - x
  BY <1>2
<1>4. ASSUME NEW y \in S PROVE y <= x
  <2>1. n - y \in D /\ n - y \in Nat /\ d \in Nat
    BY <1>1, <1>2
  <2>2. n - y < d => <<n - y, d>> \in R
    BY <2>1 DEF OpToRel
  <2>3. ~ (<<n - y, d>> \in R)
    BY <1>2, <2>1
  <2> HIDE DEF D, R
  <2>4. ~ (n - y < d)
    BY <2>2, <2>3
  <2> QED BY <1>3, <2>4
<1> QED BY <1>4

(* What rmap holds for a key is the last line with that key, a route. *)
LEMMA RouteType ==
  ASSUME NEW key, Listed(key)
  PROVE  \E l \in DOMAIN Table :
           /\ rmap(key) = Table[l] /\ Key(Table[l].net) = key /\ Table[l] \in Route
           /\ \A m \in DOMAIN Table : m > l => Key(Table[m].net) # key
<1> DEFINE P(l) == /\ Key(Table[l].net) = key
                   /\ \A m \in DOMAIN Table : m > l => Key(Table[m].net) # key
           Lines == {l \in DOMAIN Table : Key(Table[l].net) = key}
<1>1. DOMAIN Table = 1..Len(Table) /\ Len(Table) \in Nat
      /\ \A m \in DOMAIN Table : Table[m] \in Route
  BY RouterAssumption
<1>2. Lines \in SUBSET (1..Len(Table)) /\ Lines # {}
  BY <1>1 DEF Listed
<1>3. PICK x \in Lines : \A y \in Lines : y <= x
  <2> HIDE DEF Lines
  <2> QED BY <1>1, <1>2, LastOf
<1>4. P(x) /\ x \in DOMAIN Table
  <2>1. x \in DOMAIN Table /\ Key(Table[x].net) = key
    BY <1>3
  <2>2. ASSUME NEW m \in DOMAIN Table, m > x PROVE Key(Table[m].net) # key
    <3>1. ~ (m <= x)
      BY <1>1, <2>1, <2>2
    <3> QED BY <1>3, <3>1
  <2> QED BY <2>1, <2>2
<1> DEFINE c == CHOOSE k \in DOMAIN Table : P(k)
<1>5. c \in DOMAIN Table /\ P(c)
  BY <1>4
<1>6. rmap(key) = Table[c]
  BY DEF rmap
<1> QED BY <1>1, <1>5, <1>6

LEMMA TargetType ==
  ASSUME NEW a \in Addrs, NEW route \in Route PROVE Target(a, route) \in Addrs
BY DEF Target, Route

LEMMA FramesSendArpRequest ==
  ASSUME FramesRight, SendArpRequest, UNCHANGED hostVars PROVE FramesRight'
<1> DEFINE addr == Got(RouterIface).daddr
           route == rmap(Prefix(addr))
<1> USE DEF FramesRight
<1>1. Got(RouterIface) \in Ip /\ socks[RouterIface] # <<>>
  BY ReadingType DEF SendArpRequest
<1>2. addr \in Addrs /\ route \in Route
  <2>1. Listed(Prefix(addr))
    BY DEF SendArpRequest
  <2> QED BY <1>1, <2>1, RouteType DEF Ip
<1>3. /\ SendTo(route.iface, ArpRequest(route.iface, Target(addr, route)))
      /\ waitOn' = route.iface /\ at' = "waiting" /\ Receive(RouterIface)
      /\ UNCHANGED <<resp, stale, i, acc, total, hostVars>>
  BY DEF SendArpRequest
<1> HIDE DEF addr, route
<1>4. route.iface \in Ifaces
  BY <1>2 DEF Route
<1> DEFINE e == ArpRequest(route.iface, Target(addr, route))
<1>5. e \in Frame /\ e.spa = IfAddr[route.iface] /\ e.sha = RouterMac(route.iface)
  BY <1>2, <1>4, TargetType, ArpRequestType DEF Frame
<1>6. SendTo(route.iface, e)
  BY <1>3
<1> HIDE DEF e
<1>7. RouterTypeOK'
  <2>1. socks' \in [Ifaces -> Seq(Arrival)] /\ inbox' \in [Ifaces -> Seq(Frame)]
    BY <1>1, <1>3, <1>4, <1>5, <1>6, Constants, ReceiveElements, SendToElements
  <2> QED BY <1>3, <1>4, <2>1 DEF RouterTypeOK, hostVars
<1>8. SocksRight'
  BY <1>1, <1>3, Constants, SocksReceive
<1>9. InboxRight'
  BY <1>4, <1>5, <1>6, InboxSend
<1>10. CacheRight' /\ SumRight'
  BY <1>3 DEF CacheRight, Resolved, SumRight, hostVars
<1> QED BY <1>7, <1>8, <1>9, <1>10

LEMMA SendsType ==
  ASSUME RouterTypeOK, NEW f \in Ifaces, Sends(f)
  PROVE  /\ sent' \in [Ifaces -> Nat] /\ \A g \in Ifaces : sent'[g] <= MaxSent[g]
         /\ sent[f] \in Word /\ sent'[f] = sent[f] + 1
         /\ \A g \in Ifaces : g # f => sent'[g] = sent[g]
<1>1. /\ sent \in [Ifaces -> Nat] /\ MaxSent \in [Ifaces -> Nat] /\ Base \in Nat
      /\ \A g \in Ifaces : sent[g] <= MaxSent[g] /\ MaxSent[g] <= Base
  BY Constants, NetworkAssumption DEF RouterTypeOK
<1>2. sent[f] < MaxSent[f] /\ sent' = [sent EXCEPT ![f] = sent[f] + 1]
  BY DEF Sends
<1>3. sent' \in [Ifaces -> Nat] /\ sent'[f] = sent[f] + 1
      /\ \A g \in Ifaces : g # f => sent'[g] = sent[g]
  BY <1>1, <1>2
<1>4. \A g \in Ifaces : sent'[g] <= MaxSent[g]
  BY <1>1, <1>2, <1>3
<1>5. sent[f] \in Word
  BY <1>1, <1>2 DEF Word
<1> QED BY <1>3, <1>4, <1>5

LEMMA ArrivalType ==
  ASSUME NEW e \in Frame, NEW b \in BOOLEAN
  PROVE  /\ [frame |-> e, out |-> b] \in Arrival
         /\ [frame |-> e, out |-> b].frame = e /\ [frame |-> e, out |-> b].out = b
BY DEF Arrival

LEMMA FramesResolve ==
  ASSUME FramesRight, NEW f \in Ifaces, NEW a \in Targets[f], Resolve(f, a),
         UNCHANGED routerVars
  PROVE  FramesRight'
<1> USE DEF FramesRight
<1>1. a \in Addrs
  BY NetworkAssumption
<1>2. /\ Sends(f) /\ cache' = [cache EXCEPT ![f][a] = Incomplete]
      /\ Deliver(f, HostRequest(f, a)) /\ UNCHANGED <<inbox, pinged, echoed, kernel>>
  BY DEF Resolve
<1> DEFINE e == [frame |-> HostRequest(f, a), out |-> FALSE]
<1>3. e \in Arrival /\ e.frame.shost = HostMac(f)
  BY <1>1, HostFrameTypes, ArrivalType DEF Frame
<1>4. socks' = [socks EXCEPT ![f] = Append(@, e)]
  BY <1>2 DEF Deliver
<1> HIDE DEF e
<1>5. cache \in [Ifaces -> [Addrs -> Mac \cup {NoMac, Incomplete}]]
  BY DEF RouterTypeOK
<1>6. cache' \in [Ifaces -> [Addrs -> Mac \cup {NoMac, Incomplete}]]
  BY <1>1, <1>2, <1>5
<1>7. RouterTypeOK'
  <2>1. socks' \in [Ifaces -> Seq(Arrival)]
    BY <1>3, <1>4, ArriveElements
  <2> QED BY <1>2, <1>6, <2>1, SendsType DEF RouterTypeOK, routerVars
<1>8. SocksRight'
  BY <1>3, <1>4, SocksArrive
<1>9. CacheRight'
  <2> SUFFICES ASSUME NEW g \in Ifaces, NEW b \in Addrs, cache'[g][b] \notin {NoMac, Incomplete}
               PROVE  b = IfAddr[g] /\ cache'[g][b] = RouterMac(g)
    BY DEF CacheRight, Resolved, RouterMac
  <2>1. cache'[g][b] = cache[g][b]
    BY <1>1, <1>2, <1>5
  <2> QED BY <2>1 DEF CacheRight, Resolved
<1>10. InboxRight' /\ SumRight'
  BY <1>2 DEF InboxRight, SumRight, routerVars
<1> QED BY <1>7, <1>8, <1>9, <1>10

(* The echo request of Ping. *)
EchoRequest(f, a, data) ==
  [kind |-> "ip", shost |-> HostMac(f),
   dhost |-> IF a \in Broadcasts THEN Broadcast ELSE cache[f][IfAddr[f]],
   saddr |-> HostAddr[f], daddr |-> a, type |-> Request,
   checksum |-> 0, id |-> sent[f], data |-> data]

LEMMA EchoRequestType ==
  ASSUME RouterTypeOK, NEW f \in Ifaces, NEW a \in Dests[f], NEW data \in Payloads,
         Ping(f, a, data)
  PROVE  /\ EchoRequest(f, a, data) \in Ip /\ EchoRequest(f, a, data) \in Frame
         /\ EchoRequest(f, a, data).shost = HostMac(f)
         /\ EchoRequest(f, a, data).id = sent[f]
         /\ EchoRequest(f, a, data).daddr = a
<1>1. a \in Addrs /\ data \in Data
  BY NetworkAssumption
<1>2. (IF a \in Broadcasts THEN Broadcast ELSE cache[f][IfAddr[f]]) \in Mac
  <2>1. cache[f][IfAddr[f]] \in Mac \cup {NoMac, Incomplete}
    BY Constants DEF RouterTypeOK
  <2>2. a \in Broadcasts \/ cache[f][IfAddr[f]] \notin {NoMac, Incomplete}
    BY DEF Ping, Resolved
  <2> QED BY <2>1, <2>2, MacTypes
<1>3. sent[f] \in Word
  BY SendsType DEF Ping
<1>4. HostAddr[f] \in Addrs /\ HostMac(f) \in Mac
  BY Constants, MacTypes
<1> QED BY <1>1, <1>2, <1>3, <1>4, Constants DEF EchoRequest, Ip, Frame

LEMMA PingStep ==
  ASSUME NEW f \in Ifaces, NEW a, NEW data, Ping(f, a, data)
  PROVE  /\ Sends(f) /\ UNCHANGED <<inbox, cache, echoed, kernel>>
         /\ socks' = [socks EXCEPT ![f] =
                        Append(@, [frame |-> EchoRequest(f, a, data), out |-> FALSE])]
         /\ pinged' = IF a = OwnAddr
                      THEN [pinged EXCEPT ![f] = Append(@, EchoRequest(f, a, data))]
                      ELSE pinged
BY DEF Ping, EchoRequest, Deliver

LEMMA FramesPing ==
  ASSUME FramesRight, NEW f \in Ifaces, NEW a \in Dests[f], NEW data \in Payloads,
         Ping(f, a, data), UNCHANGED routerVars
  PROVE  FramesRight'
<1> USE DEF FramesRight
<1> DEFINE e == [frame |-> EchoRequest(f, a, data), out |-> FALSE]
<1>1. EchoRequest(f, a, data) \in Ip
  BY EchoRequestType
<1>2. e \in Arrival /\ e.frame.shost = HostMac(f)
  <2>1. /\ EchoRequest(f, a, data) \in Frame
        /\ EchoRequest(f, a, data).shost = HostMac(f)
    BY EchoRequestType
  <2> QED BY <2>1, ArrivalType
<1>3. socks' = [socks EXCEPT ![f] = Append(@, e)]
  BY PingStep
<1> HIDE DEF e
<1>4. Sends(f) /\ UNCHANGED <<inbox, cache, echoed, kernel>>
  BY PingStep
<1>5. pinged' \in [Ifaces -> Seq(Ip)]
  <2>1. pinged \in [Ifaces -> Seq(Ip)] /\ pinged[f] \in Seq(Ip)
    BY DEF RouterTypeOK
  <2>2. Append(pinged[f], EchoRequest(f, a, data)) \in Seq(Ip)
    BY <1>1, <2>1, AppendElements
  <2>3. pinged' = [pinged EXCEPT ![f] = Append(pinged[f], EchoRequest(f, a, data))]
        \/ pinged' = pinged
    <3>1. pinged' = IF a = OwnAddr
                    THEN [pinged EXCEPT ![f] = Append(@, EchoRequest(f, a, data))]
                    ELSE pinged
      BY PingStep
    <3> QED BY <3>1
  <2> QED BY <2>1, <2>2, <2>3
<1>6. RouterTypeOK'
  <2>1. socks' \in [Ifaces -> Seq(Arrival)]
    BY <1>2, <1>3, ArriveElements
  <2> QED BY <1>4, <1>5, <2>1, SendsType DEF RouterTypeOK, routerVars
<1>7. SocksRight'
  BY <1>2, <1>3, SocksArrive
<1>8. InboxRight' /\ SumRight' /\ CacheRight'
  BY <1>4 DEF InboxRight, SumRight, CacheRight, Resolved, routerVars
<1> QED BY <1>6, <1>7, <1>8

LEMMA FramesHostGetsArp ==
  ASSUME FramesRight, NEW f \in Ifaces, HostGetsArp(f), UNCHANGED routerVars
  PROVE  FramesRight'
<1> USE DEF FramesRight
<1> DEFINE arp == Head(inbox[f])
<1>1. inbox[f] # <<>> /\ arp.kind = "arp" /\ inbox' = [inbox EXCEPT ![f] = Tail(@)]
      /\ UNCHANGED <<sent, pinged, echoed, kernel>>
  BY DEF HostGetsArp, Reads
<1>2. arp \in Arp /\ arp.spa = IfAddr[f] /\ arp.sha = RouterMac(f)
  <2>1. arp \in Frame /\ arp = inbox[f][1] /\ 1 \in 1..Len(inbox[f])
    BY <1>1, TakeElements
  <2> QED BY <1>1, <2>1, FrameKinds DEF InboxRight
<1>3. cache' = [cache EXCEPT ![f][arp.spa] = arp.sha] \/ cache' = cache
  BY DEF HostGetsArp, Learn
<1>4. socks' = [socks EXCEPT ![f] = Append(@, [frame |-> HostReply(f, arp), out |-> FALSE])]
      \/ socks' = socks
  BY DEF HostGetsArp, Deliver
<1> HIDE DEF arp
<1> DEFINE e == [frame |-> HostReply(f, arp), out |-> FALSE]
<1>5. e \in Arrival /\ e.frame.shost = HostMac(f)
  BY <1>2, HostFrameTypes, ArrivalType DEF Frame
<1>6. socks' = [socks EXCEPT ![f] = Append(@, e)] \/ socks' = socks
  BY <1>4
<1> HIDE DEF e
<1>7. cache \in [Ifaces -> [Addrs -> Mac \cup {NoMac, Incomplete}]] /\ IfAddr[f] \in Addrs
      /\ RouterMac(f) \in Mac
  BY Constants, MacTypes DEF RouterTypeOK
<1>8. cache' = [cache EXCEPT ![f][IfAddr[f]] = RouterMac(f)] \/ cache' = cache
  BY <1>2, <1>3
<1>9. cache' \in [Ifaces -> [Addrs -> Mac \cup {NoMac, Incomplete}]]
  BY <1>7, <1>8
<1>10. RouterTypeOK'
  <2>1. socks' \in [Ifaces -> Seq(Arrival)]
    BY <1>5, <1>6, ArriveElements DEF RouterTypeOK
  <2>2. inbox' \in [Ifaces -> Seq(Frame)]
    BY <1>1, TakeElements
  <2> QED BY <1>1, <1>9, <2>1, <2>2 DEF RouterTypeOK, routerVars
<1>11. SocksRight'
  <2>1. CASE socks' = socks
    BY <2>1 DEF SocksRight
  <2> QED BY <1>5, <1>6, <2>1, SocksArrive
<1>12. CacheRight'
  <2> SUFFICES ASSUME NEW g \in Ifaces, NEW b \in Addrs, cache'[g][b] \notin {NoMac, Incomplete}
               PROVE  b = IfAddr[g] /\ cache'[g][b] = RouterMac(g)
    BY DEF CacheRight, Resolved, RouterMac
  <2>1. CASE g = f /\ b = IfAddr[f] /\ cache' = [cache EXCEPT ![f][IfAddr[f]] = RouterMac(f)]
    BY <2>1, <1>7
  <2>2. CASE ~(g = f /\ b = IfAddr[f]) \/ cache' = cache
    <3>1. cache'[g][b] = cache[g][b]
      BY <1>7, <1>8, <2>2
    <3> QED BY <3>1 DEF CacheRight, Resolved
  <2> QED BY <1>8, <2>1, <2>2
<1>13. InboxRight'
  BY <1>1, InboxTake
<1>14. SumRight'
  BY DEF SumRight, routerVars
<1> QED BY <1>10, <1>11, <1>12, <1>13, <1>14

LEMMA FramesHostGetsIp ==
  ASSUME FramesRight, NEW f \in Ifaces, HostGetsIp(f), UNCHANGED routerVars
  PROVE  FramesRight'
<1> USE DEF FramesRight
<1> DEFINE ip == Head(inbox[f])
<1>1. /\ inbox[f] # <<>> /\ ip.kind = "ip" /\ inbox' = [inbox EXCEPT ![f] = Tail(@)]
      /\ UNCHANGED <<socks, cache, sent, pinged, kernel>>
      /\ echoed' = [echoed EXCEPT ![f] = Append(@, ip)] \/ echoed' = echoed
  BY DEF HostGetsIp, Reads
<1>2. ip \in Ip
  BY <1>1, TakeElements, FrameKinds
<1> HIDE DEF ip
<1>3. RouterTypeOK'
  <2>1. inbox' \in [Ifaces -> Seq(Frame)]
    BY <1>1, TakeElements
  <2>2. echoed \in [Ifaces -> Seq(Ip)] /\ echoed[f] \in Seq(Ip)
    BY DEF RouterTypeOK
  <2>3. Append(echoed[f], ip) \in Seq(Ip)
    BY <1>2, <2>2, AppendElements
  <2>4. echoed' \in [Ifaces -> Seq(Ip)]
    BY <1>1, <2>2, <2>3
  <2> QED BY <1>1, <2>1, <2>4 DEF RouterTypeOK, routerVars
<1>4. InboxRight'
  BY <1>1, InboxTake
<1>5. SocksRight' /\ SumRight' /\ CacheRight'
  BY <1>1 DEF SocksRight, SumRight, CacheRight, Resolved, routerVars
<1> QED BY <1>3, <1>4, <1>5

(* The note of the router's own kernel. *)
LEMMA NoteStep ==
  ASSUME NEW f \in Ifaces, KernelSends(f)
  PROVE  /\ \E e \in Arrival : /\ e.out /\ e.frame.kind = "ip"
                               /\ socks' = [socks EXCEPT ![f] = Append(@, e)]
         /\ UNCHANGED <<inbox, cache, sent, pinged, echoed>>
         /\ kernel < MaxKernel /\ kernel' = kernel + 1
<1> DEFINE note == [NoReply EXCEPT !.shost = RouterMac(f), !.dhost = HostMac(f),
                                   !.saddr = IfAddr[f], !.daddr = HostAddr[f],
                                   !.type = Request]
<1>1. note \in Ip
  BY NoReplyType, MacTypes, Constants DEF Ip
<1>2. note.kind = "ip"
  BY <1>1 DEF Ip
<1>3. socks' = [socks EXCEPT ![f] = Append(@, [frame |-> note, out |-> TRUE])]
      /\ UNCHANGED <<inbox, cache, sent, pinged, echoed>>
      /\ kernel < MaxKernel /\ kernel' = kernel + 1
  BY DEF KernelSends
<1> HIDE DEF note
<1>4. [frame |-> note, out |-> TRUE] \in Arrival
  BY <1>1, ArrivalType DEF Frame
<1> QED BY <1>2, <1>3, <1>4

LEMMA FramesKernelSends ==
  ASSUME FramesRight, NEW f \in Ifaces, KernelSends(f), UNCHANGED routerVars
  PROVE  FramesRight'
<1> USE DEF FramesRight
<1>1. PICK e \in Arrival : e.out /\ socks' = [socks EXCEPT ![f] = Append(@, e)]
  BY NoteStep
<1>2. UNCHANGED <<inbox, cache, sent, pinged, echoed>>
      /\ kernel < MaxKernel /\ kernel' = kernel + 1
  BY NoteStep
<1>3. RouterTypeOK'
  <2>1. socks' \in [Ifaces -> Seq(Arrival)]
    BY <1>1, ArriveElements
  <2>2. kernel' \in 0..MaxKernel
    BY <1>2, NetworkAssumption DEF RouterTypeOK
  <2> QED BY <1>2, <2>1, <2>2 DEF RouterTypeOK, routerVars
<1>4. SocksRight'
  BY <1>1, SocksArrive
<1>5. InboxRight' /\ SumRight' /\ CacheRight'
  BY <1>2 DEF InboxRight, SumRight, CacheRight, Resolved, routerVars
<1> QED BY <1>3, <1>4, <1>5

LEMMA FramesStutter == ASSUME FramesRight, UNCHANGED vars PROVE FramesRight'
BY DEF FramesRight, vars, routerVars, hostVars, RouterTypeOK, SocksRight, InboxRight,
       CacheRight, Resolved, SumRight

-----------------------------------------------------------------------------
(* Echoes on the way: what Tail and Append do to their numbers and order. *)
LEMMA PingsTail ==
  ASSUME NEW s \in Seq(Arrival), s # <<>>, NEW p
  PROVE  /\ PingIds(Tail(s)) \subseteq PingIds(s)
         /\ PingsOrdered(s) => PingsOrdered(Tail(s))
         /\ PingsOrdered(s) /\ IsPing(Head(s)) =>
              /\ Head(s).frame.id \in PingIds(s)
              /\ AllBelow({Head(s).frame.id}, PingIds(Tail(s)))
         /\ PingsAsked(s, p) => PingsAsked(Tail(s), p)
         /\ PingsAsked(s, p) /\ IsPing(Head(s)) =>
              \E m \in 1..Len(p) : p[m] = Head(s).frame
<1> DEFINE t == Tail(s)
<1>1. /\ Head(s) = s[1] /\ Len(s) \in Nat /\ 1 \in 1..Len(s) /\ Len(t) = Len(s) - 1
      /\ \A n \in 1..Len(t) : n + 1 \in 1..Len(s) /\ t[n] = s[n + 1]
  BY TailElements
<1> HIDE DEF t
<1>2. PingIds(t) \subseteq PingIds(s)
  BY <1>1 DEF PingIds
<1>3. ASSUME PingsOrdered(s) PROVE PingsOrdered(t)
  <2> SUFFICES ASSUME NEW n \in 1..Len(t), NEW m \in 1..(n - 1), IsPing(t[n]), IsPing(t[m])
               PROVE  t[m].frame.id < t[n].frame.id
    BY DEF PingsOrdered
  <2>1. m \in 1..Len(t) /\ m + 1 \in 1..((n + 1) - 1) /\ n + 1 \in 1..Len(s)
    BY <1>1
  <2>2. t[n] = s[n + 1] /\ t[m] = s[m + 1]
    BY <1>1, <2>1
  <2> QED BY <1>3, <2>1, <2>2 DEF PingsOrdered
<1>4. ASSUME PingsOrdered(s), IsPing(Head(s))
      PROVE  Head(s).frame.id \in PingIds(s) /\ AllBelow({Head(s).frame.id}, PingIds(t))
  <2>1. Head(s).frame.id \in PingIds(s)
    BY <1>1, <1>4 DEF PingIds
  <2>2. ASSUME NEW n \in 1..Len(t), IsPing(t[n]) PROVE Head(s).frame.id < t[n].frame.id
    <3>1. n + 1 \in 1..Len(s) /\ t[n] = s[n + 1] /\ 1 \in 1..((n + 1) - 1)
      BY <1>1
    <3> QED BY <1>1, <1>4, <2>2, <3>1 DEF PingsOrdered
  <2> QED BY <2>1, <2>2 DEF AllBelow, PingIds
<1>5. PingsAsked(s, p) => PingsAsked(t, p)
  BY <1>1 DEF PingsAsked
<1>6. PingsAsked(s, p) /\ IsPing(Head(s)) => \E m \in 1..Len(p) : p[m] = Head(s).frame
  BY <1>1 DEF PingsAsked
<1> QED BY <1>2, <1>3, <1>4, <1>5, <1>6 DEF t

LEMMA PingsAppend ==
  ASSUME NEW s \in Seq(Arrival), NEW e \in Arrival, NEW p
  PROVE  /\ ~IsPing(e) => PingIds(Append(s, e)) \subseteq PingIds(s)
         /\ PingIds(Append(s, e)) \subseteq PingIds(s) \cup {e.frame.id}
         /\ PingsOrdered(s) /\ (IsPing(e) => AllBelow(PingIds(s), {e.frame.id})) =>
              PingsOrdered(Append(s, e))
         /\ PingsAsked(s, p) /\ (IsPing(e) => \E m \in 1..Len(p) : p[m] = e.frame) =>
              PingsAsked(Append(s, e), p)
<1> DEFINE t == Append(s, e)
<1>1. /\ Len(s) \in Nat /\ Len(t) = Len(s) + 1 /\ t[Len(s) + 1] = e
      /\ \A n \in 1..Len(s) : t[n] = s[n]
  BY AppendElements
<1> HIDE DEF t
<1>2. \A n \in 1..Len(t) : (n \in 1..Len(s) /\ t[n] = s[n]) \/ t[n] = e
  <2> SUFFICES ASSUME NEW n \in 1..Len(t) PROVE (n \in 1..Len(s) /\ t[n] = s[n]) \/ t[n] = e
    OBVIOUS
  <2>1. n \in 1..Len(s) \/ n = Len(s) + 1
    BY <1>1
  <2> QED BY <1>1, <2>1
<1>3. ~IsPing(e) => PingIds(t) \subseteq PingIds(s)
  BY <1>2 DEF PingIds
<1>4. PingIds(t) \subseteq PingIds(s) \cup {e.frame.id}
  BY <1>2 DEF PingIds
<1>5. ASSUME PingsOrdered(s), IsPing(e) => AllBelow(PingIds(s), {e.frame.id})
      PROVE  PingsOrdered(t)
  <2> SUFFICES ASSUME NEW n \in 1..Len(t), NEW m \in 1..(n - 1), IsPing(t[n]), IsPing(t[m])
               PROVE  t[m].frame.id < t[n].frame.id
    BY DEF PingsOrdered
  <2>1. m \in 1..Len(s) /\ t[m] = s[m]
    BY <1>1
  <2>2. CASE n \in 1..Len(s) /\ t[n] = s[n]
    BY <1>5, <2>1, <2>2 DEF PingsOrdered
  <2>3. CASE t[n] = e
    <3>1. s[m].frame.id \in PingIds(s)
      BY <2>1 DEF PingIds
    <3> QED BY <1>5, <2>1, <2>3, <3>1 DEF AllBelow
  <2> QED BY <1>2, <2>2, <2>3
<1>6. PingsAsked(s, p) /\ (IsPing(e) => \E m \in 1..Len(p) : p[m] = e.frame) =>
        PingsAsked(t, p)
  BY <1>2 DEF PingsAsked
<1> QED BY <1>3, <1>4, <1>5, <1>6 DEF t

LEMMA EchoesTail ==
  ASSUME NEW s \in Seq(Frame), s # <<>>, NEW p
  PROVE  /\ EchoIds(Tail(s)) \subseteq EchoIds(s)
         /\ EchoesOrdered(s) => EchoesOrdered(Tail(s))
         /\ EchoesOrdered(s) /\ Head(s).kind = "ip" =>
              /\ Head(s).id \in EchoIds(s)
              /\ AllBelow({Head(s).id}, EchoIds(Tail(s)))
         /\ EchoesAsked(s, p) => EchoesAsked(Tail(s), p)
         /\ EchoesAsked(s, p) /\ Head(s).kind = "ip" => Asked(Head(s), p)
<1> DEFINE t == Tail(s)
<1>1. /\ Head(s) = s[1] /\ Len(s) \in Nat /\ 1 \in 1..Len(s) /\ Len(t) = Len(s) - 1
      /\ \A n \in 1..Len(t) : n + 1 \in 1..Len(s) /\ t[n] = s[n + 1]
  BY TailElements
<1> HIDE DEF t
<1>2. EchoIds(t) \subseteq EchoIds(s)
  BY <1>1 DEF EchoIds
<1>3. ASSUME EchoesOrdered(s) PROVE EchoesOrdered(t)
  <2> SUFFICES ASSUME NEW n \in 1..Len(t), NEW m \in 1..(n - 1),
                      t[n].kind = "ip", t[m].kind = "ip"
               PROVE  t[m].id < t[n].id
    BY DEF EchoesOrdered
  <2>1. m \in 1..Len(t) /\ m + 1 \in 1..((n + 1) - 1) /\ n + 1 \in 1..Len(s)
    BY <1>1
  <2>2. t[n] = s[n + 1] /\ t[m] = s[m + 1]
    BY <1>1, <2>1
  <2> QED BY <1>3, <2>1, <2>2 DEF EchoesOrdered
<1>4. ASSUME EchoesOrdered(s), Head(s).kind = "ip"
      PROVE  Head(s).id \in EchoIds(s) /\ AllBelow({Head(s).id}, EchoIds(t))
  <2>1. Head(s).id \in EchoIds(s)
    BY <1>1, <1>4 DEF EchoIds
  <2>2. ASSUME NEW n \in 1..Len(t), t[n].kind = "ip" PROVE Head(s).id < t[n].id
    <3>1. n + 1 \in 1..Len(s) /\ t[n] = s[n + 1] /\ 1 \in 1..((n + 1) - 1)
      BY <1>1
    <3> QED BY <1>1, <1>4, <2>2, <3>1 DEF EchoesOrdered
  <2> QED BY <2>1, <2>2 DEF AllBelow, EchoIds
<1>5. EchoesAsked(s, p) => EchoesAsked(t, p)
  BY <1>1 DEF EchoesAsked
<1>6. EchoesAsked(s, p) /\ Head(s).kind = "ip" => Asked(Head(s), p)
  BY <1>1 DEF EchoesAsked
<1> QED BY <1>2, <1>3, <1>4, <1>5, <1>6 DEF t

LEMMA EchoesAppend ==
  ASSUME NEW s \in Seq(Frame), NEW e \in Frame, NEW p
  PROVE  /\ e.kind = "arp" => EchoIds(Append(s, e)) \subseteq EchoIds(s)
         /\ EchoIds(Append(s, e)) \subseteq EchoIds(s) \cup {e.id}
         /\ EchoesOrdered(s) /\ (e.kind = "ip" => AllBelow(EchoIds(s), {e.id})) =>
              EchoesOrdered(Append(s, e))
         /\ EchoesAsked(s, p) /\ (e.kind = "ip" => Asked(e, p)) =>
              EchoesAsked(Append(s, e), p)
<1> DEFINE t == Append(s, e)
<1>1. /\ Len(s) \in Nat /\ Len(t) = Len(s) + 1 /\ t[Len(s) + 1] = e
      /\ \A n \in 1..Len(s) : t[n] = s[n]
  BY AppendElements
<1> HIDE DEF t
<1>2. \A n \in 1..Len(t) : (n \in 1..Len(s) /\ t[n] = s[n]) \/ t[n] = e
  <2> SUFFICES ASSUME NEW n \in 1..Len(t) PROVE (n \in 1..Len(s) /\ t[n] = s[n]) \/ t[n] = e
    OBVIOUS
  <2>1. n \in 1..Len(s) \/ n = Len(s) + 1
    BY <1>1
  <2> QED BY <1>1, <2>1
<1>3. e.kind = "arp" => EchoIds(t) \subseteq EchoIds(s)
  BY <1>2 DEF EchoIds
<1>4. EchoIds(t) \subseteq EchoIds(s) \cup {e.id}
  BY <1>2 DEF EchoIds
<1>5. ASSUME EchoesOrdered(s), e.kind = "ip" => AllBelow(EchoIds(s), {e.id})
      PROVE  EchoesOrdered(t)
  <2> SUFFICES ASSUME NEW n \in 1..Len(t), NEW m \in 1..(n - 1),
                      t[n].kind = "ip", t[m].kind = "ip"
               PROVE  t[m].id < t[n].id
    BY DEF EchoesOrdered
  <2>1. m \in 1..Len(s) /\ t[m] = s[m]
    BY <1>1
  <2>2. CASE n \in 1..Len(s) /\ t[n] = s[n]
    BY <1>5, <2>1, <2>2 DEF EchoesOrdered
  <2>3. CASE t[n] = e
    <3>1. s[m].id \in EchoIds(s)
      BY <2>1 DEF EchoIds
    <3> QED BY <1>5, <2>1, <2>3, <3>1 DEF AllBelow
  <2> QED BY <1>2, <2>2, <2>3
<1>6. EchoesAsked(s, p) /\ (e.kind = "ip" => Asked(e, p)) => EchoesAsked(t, p)
  BY <1>2 DEF EchoesAsked
<1> QED BY <1>3, <1>4, <1>5, <1>6 DEF t

(* One more request takes no answer away. *)
LEMMA MoreRequests ==
  ASSUME NEW p \in Seq(Ip), NEW e \in Ip
  PROVE  /\ \A s : PingsAsked(s, p) => PingsAsked(s, Append(p, e))
         /\ \A s : EchoesAsked(s, p) => EchoesAsked(s, Append(p, e))
         /\ \A r : Asked(r, p) => Asked(r, Append(p, e))
         /\ \E m \in 1..Len(Append(p, e)) : Append(p, e)[m] = e
<1> DEFINE q == Append(p, e)
<1>1. /\ Len(p) \in Nat /\ Len(q) = Len(p) + 1 /\ q[Len(p) + 1] = e
      /\ \A n \in 1..Len(p) : q[n] = p[n]
  BY AppendElements
<1> HIDE DEF q
<1>2. \A n \in 1..Len(p) : n \in 1..Len(q) /\ q[n] = p[n]
  BY <1>1
<1>3. \A r : Asked(r, p) => Asked(r, q)
  BY <1>2 DEF Asked
<1>4. \A s : PingsAsked(s, p) => PingsAsked(s, q)
  BY <1>2 DEF PingsAsked
<1>5. \A s : EchoesAsked(s, p) => EchoesAsked(s, q)
  BY <1>3 DEF EchoesAsked
<1>6. \E m \in 1..Len(q) : q[m] = e
  <2>1. Len(p) + 1 \in 1..Len(q)
    BY <1>1
  <2> QED BY <1>1, <2>1
<1> QED BY <1>3, <1>4, <1>5, <1>6 DEF q

LEMMA IdTypes ==
  ASSUME RouterTypeOK
  PROVE  /\ EchoedIds \cup InboxIds \cup RespIds \cup SockIds \subseteq Nat
         /\ sent[RouterIface] \in Nat
<1>1. /\ socks[RouterIface] \in Seq(Arrival) /\ inbox[RouterIface] \in Seq(Frame)
      /\ echoed[RouterIface] \in Seq(Ip) /\ resp \in Ip /\ sent[RouterIface] \in Nat
  BY Constants DEF RouterTypeOK
<1>2. \A ip \in Ip : ip.id \in Nat
  BY Constants DEF Ip
<1>3. SockIds \subseteq Nat
  <2> SUFFICES ASSUME NEW n \in 1..Len(socks[RouterIface]), IsPing(socks[RouterIface][n])
               PROVE  socks[RouterIface][n].frame.id \in Nat
    BY DEF SockIds, PingIds
  <2>1. socks[RouterIface][n] \in Arrival
    BY <1>1
  <2>2. socks[RouterIface][n].frame \in Frame
    BY <2>1 DEF Arrival
  <2>3. socks[RouterIface][n].frame \in Ip
    BY <2>2, FrameKinds DEF IsPing
  <2> QED BY <1>2, <2>3
<1>4. InboxIds \subseteq Nat
  <2> SUFFICES ASSUME NEW n \in 1..Len(inbox[RouterIface]), inbox[RouterIface][n].kind = "ip"
               PROVE  inbox[RouterIface][n].id \in Nat
    BY DEF InboxIds, EchoIds
  <2>1. inbox[RouterIface][n] \in Frame
    BY <1>1
  <2> QED BY <1>2, <2>1, FrameKinds
<1>5. EchoedIds \subseteq Nat
  <2> SUFFICES ASSUME NEW n \in 1..Len(echoed[RouterIface])
               PROVE  echoed[RouterIface][n].id \in Nat
    BY DEF EchoedIds, EchoIds
  <2>1. echoed[RouterIface][n] \in Ip
    BY <1>1
  <2> QED BY <1>2, <2>1
<1>6. RespIds \subseteq Nat
  BY <1>1, <1>2 DEF RespIds
<1> QED BY <1>1, <1>3, <1>4, <1>5, <1>6

(* What an action does to the echoes at the socket of RouterIface, ...       *)
SocksKept ==
  /\ PingsOrdered(socks'[RouterIface])
  /\ PingsAsked(socks'[RouterIface], pinged[RouterIface])
  /\ PingIds(socks'[RouterIface]) \subseteq PingIds(socks[RouterIface])

(* ... and to those in the inboxes, if it adds none. *)
InboxKept ==
  /\ EchoesOrdered(inbox'[RouterIface])
  /\ EchoesAsked(inbox'[RouterIface], pinged[RouterIface])
  /\ EchoIds(inbox'[RouterIface]) \subseteq EchoIds(inbox[RouterIface])
  /\ \A f \in Ifaces \ {RouterIface} :
       \A n \in 1..Len(inbox'[f]) : inbox'[f][n].kind = "arp"

LEMMA SocksSame == ASSUME RouterInv, UNCHANGED socks PROVE SocksKept
BY DEF RouterInv, EchoesRight, OrderRight, SocksKept

LEMMA InboxSame == ASSUME RouterInv, UNCHANGED inbox PROVE InboxKept
BY DEF RouterInv, EchoesRight, OrderRight, InboxKept

LEMMA KeepReceive ==
  ASSUME RouterInv, NEW f \in Ifaces, socks[f] # <<>>, Receive(f)
  PROVE  SocksKept
<1> USE DEF RouterInv, FramesRight
<1>1. /\ socks[RouterIface] \in Seq(Arrival) /\ PingsOrdered(socks[RouterIface])
      /\ PingsAsked(socks[RouterIface], pinged[RouterIface])
  BY Constants DEF RouterTypeOK, EchoesRight, OrderRight
<1>2. CASE f = RouterIface
  <2>1. socks'[RouterIface] = Tail(socks[RouterIface])
    BY <1>2 DEF Receive, RouterTypeOK
  <2> QED BY <1>1, <1>2, <2>1, PingsTail DEF SocksKept
<1>3. CASE f # RouterIface
  <2>1. socks'[RouterIface] = socks[RouterIface]
    BY <1>3, Constants, ReceiveElements
  <2> QED BY <1>1, <2>1 DEF SocksKept
<1> QED BY <1>2, <1>3

LEMMA KeepArrive ==
  ASSUME RouterInv, NEW f \in Ifaces, NEW e \in Arrival,
         f = RouterIface => ~IsPing(e),
         socks' = [socks EXCEPT ![f] = Append(@, e)]
  PROVE  SocksKept
<1> USE DEF RouterInv, FramesRight
<1>1. /\ socks[RouterIface] \in Seq(Arrival) /\ PingsOrdered(socks[RouterIface])
      /\ PingsAsked(socks[RouterIface], pinged[RouterIface])
  BY Constants DEF RouterTypeOK, EchoesRight, OrderRight
<1>2. CASE f = RouterIface
  <2>1. socks'[RouterIface] = Append(socks[RouterIface], e)
    BY <1>2 DEF RouterTypeOK
  <2> QED BY <1>1, <1>2, <2>1, PingsAppend DEF SocksKept
<1>3. CASE f # RouterIface
  <2>1. socks'[RouterIface] = socks[RouterIface]
    BY <1>3, Constants, ArriveElements
  <2> QED BY <1>1, <2>1 DEF SocksKept
<1> QED BY <1>2, <1>3

LEMMA KeepSendArp ==
  ASSUME RouterInv, NEW f \in Ifaces, NEW e \in Frame, e.kind = "arp", SendTo(f, e)
  PROVE  InboxKept
<1> USE DEF RouterInv, FramesRight
<1>1. /\ inbox[RouterIface] \in Seq(Frame) /\ EchoesOrdered(inbox[RouterIface])
      /\ EchoesAsked(inbox[RouterIface], pinged[RouterIface])
  BY Constants DEF RouterTypeOK, EchoesRight, OrderRight
<1>2. /\ EchoesOrdered(inbox'[RouterIface])
      /\ EchoesAsked(inbox'[RouterIface], pinged[RouterIface])
      /\ EchoIds(inbox'[RouterIface]) \subseteq EchoIds(inbox[RouterIface])
  <2>1. CASE f = RouterIface
    <3>1. inbox'[RouterIface] = Append(inbox[RouterIface], e)
      BY <2>1 DEF SendTo, RouterTypeOK
    <3>2. e.kind # "ip"
      OBVIOUS
    <3> QED BY <1>1, <3>1, <3>2, EchoesAppend
  <2>2. CASE f # RouterIface
    <3>1. inbox'[RouterIface] = inbox[RouterIface]
      BY <2>2, Constants, SendToElements
    <3> QED BY <1>1, <3>1
  <2> QED BY <2>1, <2>2
<1>3. ASSUME NEW g \in Ifaces \ {RouterIface}, NEW n \in 1..Len(inbox'[g])
      PROVE  inbox'[g][n].kind = "arp"
  <2>1. \A k \in 1..Len(inbox[g]) : inbox[g][k].kind = "arp"
    BY DEF EchoesRight
  <2>2. CASE g = f
    <3>1. /\ Len(inbox[f]) \in Nat /\ Len(inbox'[f]) = Len(inbox[f]) + 1
          /\ inbox'[f][Len(inbox[f]) + 1] = e
          /\ \A k \in 1..Len(inbox[f]) : inbox'[f][k] = inbox[f][k]
      BY SendToElements
    <3>2. n \in 1..Len(inbox[f]) \/ n = Len(inbox[f]) + 1
      BY <2>2, <3>1
    <3> QED BY <2>1, <2>2, <3>1, <3>2
  <2>3. CASE g # f
    <3>1. inbox'[g] = inbox[g]
      BY <2>3, SendToElements
    <3> QED BY <2>1, <3>1
  <2> QED BY <2>2, <2>3
<1> QED BY <1>2, <1>3 DEF InboxKept

LEMMA KeepTake ==
  ASSUME RouterInv, NEW f \in Ifaces, inbox[f] # <<>>,
         inbox' = [inbox EXCEPT ![f] = Tail(@)]
  PROVE  InboxKept
<1> USE DEF RouterInv, FramesRight
<1>1. /\ inbox[RouterIface] \in Seq(Frame) /\ EchoesOrdered(inbox[RouterIface])
      /\ EchoesAsked(inbox[RouterIface], pinged[RouterIface])
  BY Constants DEF RouterTypeOK, EchoesRight, OrderRight
<1>2. /\ EchoesOrdered(inbox'[RouterIface])
      /\ EchoesAsked(inbox'[RouterIface], pinged[RouterIface])
      /\ EchoIds(inbox'[RouterIface]) \subseteq EchoIds(inbox[RouterIface])
  <2>1. CASE f = RouterIface
    <3>1. inbox'[RouterIface] = Tail(inbox[RouterIface])
      BY <2>1 DEF RouterTypeOK
    <3> QED BY <1>1, <2>1, <3>1, EchoesTail
  <2>2. CASE f # RouterIface
    <3>1. inbox'[RouterIface] = inbox[RouterIface]
      BY <2>2, Constants, TakeElements
    <3> QED BY <1>1, <3>1
  <2> QED BY <2>1, <2>2
<1>3. ASSUME NEW g \in Ifaces \ {RouterIface}, NEW n \in 1..Len(inbox'[g])
      PROVE  inbox'[g][n].kind = "arp"
  <2>1. \A k \in 1..Len(inbox[g]) : inbox[g][k].kind = "arp"
    BY DEF EchoesRight
  <2>2. CASE g = f
    <3>1. n + 1 \in 1..Len(inbox[f]) /\ inbox'[f][n] = inbox[f][n + 1]
      BY <2>2, TakeElements
    <3> QED BY <2>1, <2>2, <3>1
  <2>3. CASE g # f
    <3>1. inbox'[g] = inbox[g]
      BY <2>3, TakeElements
    <3> QED BY <2>1, <3>1
  <2> QED BY <2>2, <2>3
<1> QED BY <1>2, <1>3 DEF InboxKept

(* An action that adds no echo anywhere keeps their order. *)
LEMMA FewerEchoes ==
  ASSUME RouterInv, SocksKept, InboxKept, UNCHANGED <<resp, echoed>>,
         pinged'[RouterIface] = pinged[RouterIface],
         sent'[RouterIface] \in {sent[RouterIface], sent[RouterIface] + 1},
         at' = "summing" => at = "summing"
  PROVE  EchoesRight' /\ OrderRight'
<1> USE DEF RouterInv, FramesRight
<1>1. EchoesRight'
  BY DEF EchoesRight, SocksKept, InboxKept
<1>2. SockIds' \subseteq SockIds /\ InboxIds' \subseteq InboxIds
      /\ RespIds' \subseteq RespIds /\ EchoedIds' = EchoedIds
  BY DEF SocksKept, InboxKept, SockIds, InboxIds, RespIds, EchoedIds
<1>3. /\ PingsOrdered(socks'[RouterIface]) /\ EchoesOrdered(inbox'[RouterIface])
      /\ EchoesOrdered(echoed'[RouterIface])
  BY DEF OrderRight, SocksKept, InboxKept
<1>4. /\ AllBelow(EchoedIds', InboxIds' \cup RespIds' \cup SockIds')
      /\ AllBelow(InboxIds', RespIds' \cup SockIds')
      /\ AllBelow(RespIds', SockIds')
  BY <1>2 DEF OrderRight, AllBelow
<1>5. AllBelow(EchoedIds' \cup InboxIds' \cup RespIds' \cup SockIds', {sent'[RouterIface]})
  BY <1>2, IdTypes DEF OrderRight, AllBelow
<1>6. OrderRight'
  BY <1>3, <1>4, <1>5 DEF OrderRight, AllBelow
<1> QED BY <1>1, <1>6

(* Every action keeps the echoes in order. *)
LEMMA EchoesInit == Init => EchoesRight /\ OrderRight
<1> SUFFICES ASSUME Init PROVE EchoesRight /\ OrderRight
  OBVIOUS
<1>1. /\ socks[RouterIface] = <<>> /\ inbox[RouterIface] = <<>> /\ echoed[RouterIface] = <<>>
      /\ at = "main"
      /\ \A f \in Ifaces : echoed[f] = <<>> /\ inbox[f] = <<>>
  BY Constants DEF Init, RouterInit
<1>2. PingIds(<<>>) = {} /\ EchoIds(<<>>) = {}
  BY DEF PingIds, EchoIds
<1>3. PingsOrdered(<<>>) /\ EchoesOrdered(<<>>)
      /\ \A p : PingsAsked(<<>>, p) /\ EchoesAsked(<<>>, p)
  BY DEF PingsOrdered, EchoesOrdered, PingsAsked, EchoesAsked
<1>4. EchoesRight
  BY <1>1, <1>3 DEF EchoesRight
<1>5. OrderRight
  BY <1>1, <1>2, <1>3 DEF OrderRight, AllBelow, SockIds, InboxIds, EchoedIds, RespIds
<1> QED BY <1>4, <1>5

LEMMA EchoesStartEcho ==
  ASSUME RouterInv, StartEcho, UNCHANGED hostVars
  PROVE  EchoesRight' /\ OrderRight'
<1> DEFINE h == Head(socks[RouterIface])
<1> USE DEF RouterInv, FramesRight
<1>1. /\ at = "main" /\ socks[RouterIface] # <<>> /\ ~h.out
      /\ h.frame = Got(RouterIface) /\ h.frame \in Ip /\ h.frame.daddr = OwnAddr
      /\ h.frame.kind = "ip"
  BY ReadingType DEF StartEcho, Got
<1>2. /\ resp' = EchoReplyTo(h.frame) /\ at' = "summing" /\ Receive(RouterIface)
      /\ UNCHANGED <<inbox, pinged, echoed, sent>>
  BY DEF StartEcho, Got, hostVars
<1>3. socks[RouterIface] \in Seq(Arrival) /\ socks'[RouterIface] = Tail(socks[RouterIface])
  BY <1>2, Constants DEF RouterTypeOK, Receive
<1>4. IsPing(h)
  BY <1>1 DEF IsPing
<1>5. /\ PingsOrdered(socks[RouterIface])
      /\ PingsAsked(socks[RouterIface], pinged[RouterIface])
  BY DEF EchoesRight, OrderRight
<1>6. /\ PingsOrdered(socks'[RouterIface])
      /\ PingsAsked(socks'[RouterIface], pinged[RouterIface])
      /\ SockIds' \subseteq SockIds
      /\ h.frame.id \in SockIds /\ AllBelow({h.frame.id}, SockIds')
      /\ \E m \in 1..Len(pinged[RouterIface]) : pinged[RouterIface][m] = h.frame
  BY <1>1, <1>3, <1>4, <1>5, PingsTail DEF SockIds
<1> HIDE DEF h
<1>7. Asked(resp', pinged[RouterIface]) /\ resp'.id = h.frame.id
  <2>1. /\ resp'.id = h.frame.id /\ resp'.data = h.frame.data
        /\ resp'.saddr = h.frame.daddr
    BY <1>1, <1>2, EchoReplyType
  <2> QED BY <1>6, <2>1 DEF Asked, Answers
<1>8. EchoesRight'
  BY <1>2, <1>6, <1>7 DEF EchoesRight
<1>9. InboxIds' = InboxIds /\ EchoedIds' = EchoedIds /\ RespIds' = {h.frame.id}
  BY <1>2, <1>7 DEF InboxIds, EchoedIds, RespIds
<1>10. /\ AllBelow(EchoedIds', InboxIds' \cup RespIds' \cup SockIds')
       /\ AllBelow(InboxIds', RespIds' \cup SockIds')
       /\ AllBelow(RespIds', SockIds')
       /\ AllBelow(EchoedIds' \cup InboxIds' \cup RespIds' \cup SockIds', {sent'[RouterIface]})
  BY <1>2, <1>6, <1>9 DEF OrderRight, AllBelow
<1>11. EchoesOrdered(inbox'[RouterIface]) /\ EchoesOrdered(echoed'[RouterIface])
  BY <1>2 DEF OrderRight
<1>12. OrderRight'
  BY <1>6, <1>10, <1>11 DEF OrderRight, AllBelow
<1> QED BY <1>8, <1>12

LEMMA EchoesSendEcho ==
  ASSUME RouterInv, SendEcho, UNCHANGED hostVars
  PROVE  EchoesRight' /\ OrderRight'
<1> DEFINE e == Sent(resp)
<1> USE DEF RouterInv, FramesRight
<1>1. /\ at = "summing" /\ at' = "main" /\ SendTo(RouterIface, e)
      /\ UNCHANGED <<socks, resp, pinged, echoed, sent>>
  BY DEF SendEcho, hostVars
<1>2. /\ e \in Frame /\ e.kind = "ip" /\ e.id = resp.id
      /\ e.data = resp.data /\ e.saddr = resp.saddr
  BY SentType DEF RouterTypeOK, Frame
<1> HIDE DEF e
<1>3. /\ inbox[RouterIface] \in Seq(Frame)
      /\ inbox'[RouterIface] = Append(inbox[RouterIface], e)
      /\ \A f \in Ifaces \ {RouterIface} : inbox'[f] = inbox[f]
  BY <1>1, Constants DEF RouterTypeOK, SendTo
<1>4. /\ EchoesOrdered(inbox[RouterIface]) /\ EchoesAsked(inbox[RouterIface], pinged[RouterIface])
      /\ Asked(resp, pinged[RouterIface])
      /\ AllBelow(InboxIds, {resp.id})
  BY <1>1 DEF EchoesRight, OrderRight, RespIds, AllBelow
<1>5. Asked(e, pinged[RouterIface])
  BY <1>2, <1>4 DEF Asked, Answers
<1>6. /\ EchoesOrdered(inbox'[RouterIface]) /\ EchoesAsked(inbox'[RouterIface], pinged[RouterIface])
      /\ InboxIds' \subseteq InboxIds \cup {resp.id}
  BY <1>2, <1>3, <1>4, <1>5, EchoesAppend DEF InboxIds
<1>7. EchoesRight'
  BY <1>1, <1>3, <1>6 DEF EchoesRight
<1>8. RespIds' = {} /\ RespIds = {resp.id} /\ SockIds' = SockIds /\ EchoedIds' = EchoedIds
  BY <1>1 DEF RespIds, SockIds, EchoedIds
<1>9. /\ AllBelow(EchoedIds', InboxIds' \cup RespIds' \cup SockIds')
      /\ AllBelow(InboxIds', RespIds' \cup SockIds')
      /\ AllBelow(RespIds', SockIds')
      /\ AllBelow(EchoedIds' \cup InboxIds' \cup RespIds' \cup SockIds', {sent'[RouterIface]})
  BY <1>1, <1>6, <1>8 DEF OrderRight, AllBelow
<1>10. PingsOrdered(socks'[RouterIface]) /\ EchoesOrdered(echoed'[RouterIface])
  BY <1>1 DEF OrderRight
<1>11. OrderRight'
  BY <1>6, <1>9, <1>10 DEF OrderRight, AllBelow
<1> QED BY <1>7, <1>11

LEMMA EchoesPing ==
  ASSUME RouterInv, NEW f \in Ifaces, NEW a \in Dests[f], NEW data \in Payloads,
         Ping(f, a, data), UNCHANGED routerVars
  PROVE  EchoesRight' /\ OrderRight'
<1> USE DEF RouterInv, FramesRight
<1> DEFINE e == [frame |-> EchoRequest(f, a, data), out |-> FALSE]
<1>1. /\ EchoRequest(f, a, data) \in Ip /\ EchoRequest(f, a, data) \in Frame
      /\ EchoRequest(f, a, data).id = sent[f] /\ EchoRequest(f, a, data).daddr = a
  BY EchoRequestType
<1>2. e \in Arrival /\ e.frame = EchoRequest(f, a, data) /\ ~e.out
  BY <1>1, ArrivalType
<1>3. socks' = [socks EXCEPT ![f] = Append(@, e)]
  BY PingStep
<1> HIDE DEF e
<1>4. Sends(f) /\ UNCHANGED <<inbox, echoed, resp, at>>
  BY PingStep DEF routerVars
<1>5. pinged' = IF a = OwnAddr
                THEN [pinged EXCEPT ![f] = Append(@, EchoRequest(f, a, data))]
                ELSE pinged
  BY PingStep
<1>6. CASE f = RouterIface /\ a = OwnAddr
  <2>1. /\ socks[RouterIface] \in Seq(Arrival)
        /\ socks'[RouterIface] = Append(socks[RouterIface], e)
    BY <1>3, <1>6 DEF RouterTypeOK
  <2>2. /\ pinged[RouterIface] \in Seq(Ip)
        /\ pinged'[RouterIface] = Append(pinged[RouterIface], e.frame)
    <3>1. pinged' = [pinged EXCEPT ![RouterIface] = Append(@, EchoRequest(f, a, data))]
      BY <1>5, <1>6
    <3> QED BY <1>2, <1>6, <3>1 DEF RouterTypeOK
  <2>3. sent'[RouterIface] = sent[RouterIface] + 1 /\ sent[RouterIface] = e.frame.id
        /\ e.frame \in Ip
    BY <1>1, <1>2, <1>4, <1>6, SendsType
  <2>4. /\ PingsAsked(socks[RouterIface], pinged'[RouterIface])
        /\ EchoesAsked(inbox[RouterIface], pinged'[RouterIface])
        /\ EchoesAsked(echoed[RouterIface], pinged'[RouterIface])
        /\ at = "summing" => Asked(resp, pinged'[RouterIface])
        /\ \E m \in 1..Len(pinged'[RouterIface]) : pinged'[RouterIface][m] = e.frame
    <3> DEFINE p == pinged[RouterIface]
               r == e.frame
    <3>1. /\ PingsAsked(socks[RouterIface], p)
          /\ EchoesAsked(inbox[RouterIface], p)
          /\ EchoesAsked(echoed[RouterIface], p)
          /\ at = "summing" => Asked(resp, p)
      BY DEF EchoesRight
    <3>2. p \in Seq(Ip) /\ r \in Ip /\ pinged'[RouterIface] = Append(p, r)
      BY <2>2, <2>3
    <3> HIDE DEF p, r
    <3>3. /\ \A s : PingsAsked(s, p) => PingsAsked(s, Append(p, r))
          /\ \A s : EchoesAsked(s, p) => EchoesAsked(s, Append(p, r))
          /\ \A x : Asked(x, p) => Asked(x, Append(p, r))
          /\ \E m \in 1..Len(Append(p, r)) : Append(p, r)[m] = r
      BY <3>2, MoreRequests
    <3>4. /\ PingsAsked(socks[RouterIface], Append(p, r))
          /\ EchoesAsked(inbox[RouterIface], Append(p, r))
          /\ EchoesAsked(echoed[RouterIface], Append(p, r))
          /\ at = "summing" => Asked(resp, Append(p, r))
      BY <3>1, <3>3
    <3> QED BY <3>2, <3>3, <3>4 DEF r
  <2>5. PingsOrdered(socks[RouterIface]) /\ AllBelow(SockIds, {e.frame.id})
    BY <2>3 DEF OrderRight, AllBelow
  <2>6. /\ PingsOrdered(socks'[RouterIface])
        /\ PingsAsked(socks'[RouterIface], pinged'[RouterIface])
        /\ SockIds' \subseteq SockIds \cup {e.frame.id}
    BY <1>2, <2>1, <2>4, <2>5, PingsAppend DEF SockIds
  <2>7. EchoesRight'
    BY <1>4, <2>4, <2>6 DEF EchoesRight
  <2>8. InboxIds' = InboxIds /\ EchoedIds' = EchoedIds /\ RespIds' = RespIds
    BY <1>4 DEF InboxIds, EchoedIds, RespIds
  <2>9. /\ AllBelow(EchoedIds', InboxIds' \cup RespIds' \cup SockIds')
        /\ AllBelow(InboxIds', RespIds' \cup SockIds')
        /\ AllBelow(RespIds', SockIds')
    BY <2>3, <2>6, <2>8 DEF OrderRight, AllBelow
  <2>10. AllBelow(EchoedIds' \cup InboxIds' \cup RespIds' \cup SockIds', {sent'[RouterIface]})
    BY <2>3, <2>6, <2>8, IdTypes DEF OrderRight, AllBelow
  <2>11. EchoesOrdered(inbox'[RouterIface]) /\ EchoesOrdered(echoed'[RouterIface])
    BY <1>4 DEF OrderRight
  <2>12. OrderRight'
    BY <2>6, <2>9, <2>10, <2>11 DEF OrderRight, AllBelow
  <2> QED BY <2>7, <2>12
<1>7. CASE ~(f = RouterIface /\ a = OwnAddr)
  <2>1. f = RouterIface => ~IsPing(e)
    BY <1>1, <1>2, <1>7 DEF IsPing
  <2>2. SocksKept
    BY <1>2, <1>3, <2>1, KeepArrive
  <2>3. pinged'[RouterIface] = pinged[RouterIface]
    BY <1>5, <1>7, Constants DEF RouterTypeOK
  <2>4. sent'[RouterIface] \in {sent[RouterIface], sent[RouterIface] + 1}
    BY <1>4, Constants, SendsType
  <2> QED BY <1>4, <2>2, <2>3, <2>4, InboxSame, FewerEchoes
<1> QED BY <1>6, <1>7

LEMMA EchoesHostGetsIp ==
  ASSUME RouterInv, NEW f \in Ifaces, HostGetsIp(f), UNCHANGED routerVars
  PROVE  EchoesRight' /\ OrderRight'
<1> USE DEF RouterInv, FramesRight
<1> DEFINE h == Head(inbox[f])
<1>1. /\ inbox[f] # <<>> /\ h.kind = "ip" /\ inbox' = [inbox EXCEPT ![f] = Tail(@)]
      /\ UNCHANGED <<socks, sent, pinged, resp, at>>
      /\ echoed' = [echoed EXCEPT ![f] = Append(@, h)] \/ echoed' = echoed
  BY DEF HostGetsIp, Reads, routerVars
<1>2. f = RouterIface
  <2>1. h = inbox[f][1] /\ 1 \in 1..Len(inbox[f])
    BY <1>1, TakeElements
  <2> QED BY <1>1, <2>1 DEF EchoesRight
<1>3. /\ inbox[RouterIface] \in Seq(Frame) /\ inbox[RouterIface] # <<>>
      /\ h = Head(inbox[RouterIface]) /\ h \in Frame
  BY <1>1, <1>2, TakeElements DEF RouterTypeOK
<1>4. /\ EchoesOrdered(inbox[RouterIface])
      /\ EchoesAsked(inbox[RouterIface], pinged[RouterIface])
      /\ EchoesOrdered(echoed[RouterIface])
      /\ EchoesAsked(echoed[RouterIface], pinged[RouterIface])
      /\ echoed[RouterIface] \in Seq(Frame)
  <2>1. echoed[RouterIface] \in Seq(Ip)
    BY <1>2 DEF RouterTypeOK
  <2>2. \A s \in Seq(Ip) : s \in Seq(Frame)
    BY DEF Frame
  <2> QED BY <2>1, <2>2 DEF EchoesRight, OrderRight
<1>5. InboxKept
  BY <1>1, KeepTake
<1>6. h.id \in InboxIds /\ AllBelow({h.id}, InboxIds') /\ Asked(h, pinged[RouterIface])
  <2>1. inbox'[RouterIface] = Tail(inbox[RouterIface])
    BY <1>1, <1>2 DEF RouterTypeOK
  <2> QED BY <1>1, <1>3, <1>4, <2>1, EchoesTail DEF InboxIds
<1> HIDE DEF h
<1>7. /\ EchoesOrdered(echoed'[RouterIface])
      /\ EchoesAsked(echoed'[RouterIface], pinged[RouterIface])
      /\ EchoedIds' \subseteq EchoedIds \cup {h.id}
      /\ \A g \in Ifaces \ {RouterIface} : echoed'[g] = echoed[g]
  <2>1. CASE echoed' = echoed
    BY <1>4, <2>1 DEF EchoedIds
  <2>2. CASE echoed' = [echoed EXCEPT ![f] = Append(@, h)]
    <3>1. /\ echoed'[RouterIface] = Append(echoed[RouterIface], h)
          /\ \A g \in Ifaces \ {RouterIface} : echoed'[g] = echoed[g]
      BY <1>2, <2>2 DEF RouterTypeOK
    <3>2. AllBelow(EchoIds(echoed[RouterIface]), {h.id})
      BY <1>6 DEF OrderRight, AllBelow, EchoedIds
    <3> QED BY <1>3, <1>4, <1>6, <3>1, <3>2, EchoesAppend DEF EchoedIds
  <2> QED BY <1>1, <2>1, <2>2
<1>8. EchoesRight'
  BY <1>1, <1>5, <1>7 DEF EchoesRight, InboxKept
<1>9. InboxIds' \subseteq InboxIds /\ RespIds' = RespIds /\ SockIds' = SockIds
  BY <1>1, <1>5 DEF InboxIds, RespIds, SockIds, InboxKept
<1>10. /\ AllBelow(EchoedIds', InboxIds' \cup RespIds' \cup SockIds')
       /\ AllBelow(InboxIds', RespIds' \cup SockIds')
       /\ AllBelow(RespIds', SockIds')
       /\ AllBelow(EchoedIds' \cup InboxIds' \cup RespIds' \cup SockIds', {sent'[RouterIface]})
  BY <1>1, <1>6, <1>7, <1>9 DEF OrderRight, AllBelow
<1>11. PingsOrdered(socks'[RouterIface]) /\ EchoesOrdered(inbox'[RouterIface])
  BY <1>1, <1>5 DEF OrderRight, InboxKept
<1>12. OrderRight'
  BY <1>7, <1>10, <1>11 DEF OrderRight, AllBelow
<1> QED BY <1>8, <1>12

LEMMA EchoesStutter ==
  ASSUME RouterInv, UNCHANGED vars PROVE EchoesRight' /\ OrderRight'
BY SocksSame, InboxSame, FewerEchoes DEF vars, routerVars, hostVars

-----------------------------------------------------------------------------
LEMMA RouterStep == ASSUME RouterInv, RouterNext, UNCHANGED hostVars PROVE RouterInv'
<1> USE DEF RouterInv
<1>1. CASE Ignore
  <2> DEFINE f == IF at = "waiting" THEN waitOn ELSE RouterIface
  <2>1. f \in Ifaces
    BY Constants DEF FramesRight, RouterTypeOK
  <2>2. socks[f] # <<>> /\ Receive(f) /\ UNCHANGED <<inbox, routerVars, hostVars>>
    BY <1>1 DEF Ignore
  <2> HIDE DEF f
  <2>3. EchoesRight' /\ OrderRight'
    BY <2>1, <2>2, KeepReceive, InboxSame, FewerEchoes DEF routerVars, hostVars
  <2> QED BY <1>1, <2>3, FramesIgnore
<1>2. CASE SendArpReply
  <2>1. Got(RouterIface) \in Arp /\ socks[RouterIface] # <<>>
    BY <1>2, ReadingType DEF SendArpReply, FramesRight
  <2>2. ArpReplyTo(Got(RouterIface)) \in Frame /\ ArpReplyTo(Got(RouterIface)).kind = "arp"
    BY <2>1, ArpReplyType DEF Frame
  <2>3. Receive(RouterIface) /\ SendTo(RouterIface, ArpReplyTo(Got(RouterIface)))
        /\ UNCHANGED <<routerVars, hostVars>>
    BY <1>2 DEF SendArpReply
  <2>4. SocksKept /\ InboxKept
    BY <2>1, <2>2, <2>3, Constants, KeepReceive, KeepSendArp
  <2>5. EchoesRight' /\ OrderRight'
    BY <2>3, <2>4, FewerEchoes DEF routerVars, hostVars
  <2> QED BY <1>2, <2>5, FramesSendArpReply
<1>3. CASE IgnoreArp
  <2>1. socks[RouterIface] # <<>> /\ Receive(RouterIface)
        /\ UNCHANGED <<inbox, routerVars, hostVars>>
    BY <1>3 DEF IgnoreArp, Reading, Incoming
  <2>2. EchoesRight' /\ OrderRight'
    BY <2>1, Constants, KeepReceive, InboxSame, FewerEchoes DEF routerVars, hostVars
  <2> QED BY <1>3, <2>2, FramesIgnoreArp
<1>4. CASE StartEcho
  BY <1>4, FramesStartEcho, EchoesStartEcho
<1>5. CASE SumWord
  <2>1. UNCHANGED <<socks, inbox, at, resp, hostVars>>
    BY <1>5 DEF SumWord
  <2>2. EchoesRight' /\ OrderRight'
    BY <2>1, SocksSame, InboxSame, FewerEchoes DEF hostVars
  <2> QED BY <1>5, <2>2, FramesSumWord
<1>6. CASE SendEcho
  BY <1>6, FramesSendEcho, EchoesSendEcho
<1>7. CASE DropPacket
  <2>1. socks[RouterIface] # <<>> /\ Receive(RouterIface)
        /\ UNCHANGED <<inbox, routerVars, hostVars>>
    BY <1>7 DEF DropPacket, Reading, Incoming
  <2>2. EchoesRight' /\ OrderRight'
    BY <2>1, Constants, KeepReceive, InboxSame, FewerEchoes DEF routerVars, hostVars
  <2> QED BY <1>7, <2>2, FramesDropPacket
<1>8. CASE SendArpRequest
  <2> DEFINE addr == Got(RouterIface).daddr
             route == rmap(Prefix(addr))
             e == ArpRequest(route.iface, Target(addr, route))
  <2>1. Got(RouterIface) \in Ip /\ socks[RouterIface] # <<>>
    BY <1>8, ReadingType DEF SendArpRequest, FramesRight
  <2>2. addr \in Addrs /\ route \in Route
    <3>1. Listed(Prefix(addr))
      BY <1>8 DEF SendArpRequest
    <3> QED BY <2>1, <3>1, RouteType DEF Ip
  <2>3. SendTo(route.iface, e) /\ at' = "waiting" /\ Receive(RouterIface)
        /\ UNCHANGED <<resp, hostVars>>
    BY <1>8 DEF SendArpRequest
  <2> HIDE DEF addr, route
  <2>4. route.iface \in Ifaces /\ e \in Frame /\ e.kind = "arp"
    BY <2>2, TargetType, ArpRequestType DEF Route, Frame
  <2> HIDE DEF e
  <2>5. SocksKept /\ InboxKept
    BY <2>1, <2>3, <2>4, Constants, KeepReceive, KeepSendArp
  <2>6. EchoesRight' /\ OrderRight'
    BY <2>3, <2>5, FewerEchoes DEF hostVars
  <2> QED BY <1>8, <2>6, FramesSendArpRequest
<1>9. CASE EndWait
  <2>1. /\ waitOn \in Ifaces /\ socks[waitOn] # <<>> /\ Receive(waitOn)
        /\ at' = "main" /\ UNCHANGED <<inbox, resp, hostVars>>
    BY <1>9 DEF EndWait, Incoming, FramesRight, RouterTypeOK
  <2>2. EchoesRight' /\ OrderRight'
    BY <2>1, KeepReceive, InboxSame, FewerEchoes DEF hostVars
  <2> QED BY <1>9, <2>2, FramesEndWait
<1> QED BY <1>1, <1>2, <1>3, <1>4, <1>5, <1>6, <1>7, <1>8, <1>9 DEF RouterNext

LEMMA HostStep ==
  ASSUME RouterInv, NEW f \in Ifaces, HostNext(f), UNCHANGED routerVars PROVE RouterInv'
<1> USE DEF RouterInv
<1>1. ASSUME NEW a \in Targets[f], Resolve(f, a) PROVE RouterInv'
  <2> DEFINE e == [frame |-> HostRequest(f, a), out |-> FALSE]
  <2>1. a \in Addrs
    BY NetworkAssumption
  <2>2. HostRequest(f, a) \in Frame /\ HostRequest(f, a).kind = "arp"
    BY <2>1, HostFrameTypes DEF Frame
  <2>3. e \in Arrival /\ e.frame.kind = "arp"
    BY <2>2, ArrivalType
  <2>4. socks' = [socks EXCEPT ![f] = Append(@, e)]
    BY <1>1 DEF Resolve, Deliver
  <2> HIDE DEF e
  <2>5. Sends(f) /\ UNCHANGED <<inbox, pinged, echoed, resp, at>>
    BY <1>1 DEF Resolve, routerVars
  <2>6. SocksKept
    BY <2>3, <2>4, KeepArrive DEF IsPing
  <2>7. sent'[RouterIface] \in {sent[RouterIface], sent[RouterIface] + 1}
    BY <2>5, Constants, SendsType DEF FramesRight
  <2>8. EchoesRight' /\ OrderRight'
    BY <2>5, <2>6, <2>7, InboxSame, FewerEchoes
  <2> QED BY <1>1, <2>8, FramesResolve
<1>2. ASSUME NEW a \in Dests[f], NEW data \in Payloads, Ping(f, a, data) PROVE RouterInv'
  BY <1>2, FramesPing, EchoesPing
<1>3. CASE HostGetsArp(f)
  <2> DEFINE arp == Head(inbox[f])
             e == [frame |-> HostReply(f, arp), out |-> FALSE]
  <2>1. inbox[f] # <<>> /\ arp.kind = "arp" /\ inbox' = [inbox EXCEPT ![f] = Tail(@)]
        /\ UNCHANGED <<sent, pinged, echoed, resp, at>>
    BY <1>3 DEF HostGetsArp, Reads, routerVars
  <2>2. arp \in Arp
    BY <2>1, TakeElements, FrameKinds DEF FramesRight
  <2>3. socks' = [socks EXCEPT ![f] = Append(@, e)] \/ socks' = socks
    BY <1>3 DEF HostGetsArp, Deliver
  <2>4. e \in Arrival /\ e.frame.kind = "arp"
    BY <2>2, HostFrameTypes, ArrivalType DEF Frame
  <2> HIDE DEF e
  <2>5. SocksKept
    BY <2>3, <2>4, KeepArrive, SocksSame DEF IsPing
  <2>6. InboxKept
    BY <2>1, KeepTake
  <2>7. EchoesRight' /\ OrderRight'
    BY <2>1, <2>5, <2>6, FewerEchoes
  <2> QED BY <1>3, <2>7, FramesHostGetsArp
<1>4. CASE HostGetsIp(f)
  BY <1>4, FramesHostGetsIp, EchoesHostGetsIp
<1>5. CASE KernelSends(f)
  <2>1. PICK e \in Arrival : e.out /\ socks' = [socks EXCEPT ![f] = Append(@, e)]
    BY <1>5, NoteStep
  <2>2. UNCHANGED <<inbox, sent, pinged, echoed, resp, at>>
    BY <1>5, NoteStep DEF routerVars
  <2>3. SocksKept
    BY <2>1, KeepArrive DEF IsPing
  <2>4. EchoesRight' /\ OrderRight'
    BY <2>2, <2>3, InboxSame, FewerEchoes
  <2> QED BY <1>5, <2>4, FramesKernelSends
<1> QED BY <1>1, <1>2, <1>3, <1>4, <1>5 DEF HostNext, HostGets

(* RouterInv holds in every reachable state of the router and its neighbours. *)
THEOREM RouterInvariant == Spec => []RouterInv
<1>1. Init => RouterInv
  BY FramesInit, EchoesInit DEF RouterInv
<1>2. RouterInv /\ [Next]_vars => RouterInv'
  <2> SUFFICES ASSUME RouterInv, [Next]_vars PROVE RouterInv'
    OBVIOUS
  <2>1. CASE Next
    BY <2>1, RouterStep, HostStep DEF Next
  <2>2. CASE UNCHANGED vars
    BY <2>2, FramesStutter, EchoesStutter DEF RouterInv
  <2> QED BY <2>1, <2>2
<1> QED BY <1>1, <1>2, PTL DEF Spec

(* The type invariant of the router and its neighbours. *)
THEOREM RouterTypeCorrect == Spec => []RouterTypeOK
<1>1. RouterInv => RouterTypeOK
  BY DEF RouterInv, FramesRight
<1> QED BY <1>1, RouterInvariant, PTL

(* No neighbour ever believes a wrong hardware address. *)
THEOREM CacheAlwaysRight == Spec => []CacheRight
<1>1. RouterInv => CacheRight
  BY DEF RouterInv, FramesRight
<1> QED BY <1>1, RouterInvariant, PTL

(* The checksum of every reply closes the sum it was computed over, for every *)
(* word size and length: one carry per addition is enough.                    *)
THEOREM ChecksumAlwaysCloses == Spec => []ChecksumCloses
<1>1. RouterInv => ChecksumCloses
  <2> SUFFICES ASSUME RouterInv, at = "summing"
               PROVE  (total + Sent(resp).checksum) % (Base - 1) = 0
    BY DEF ChecksumCloses
  <2> DEFINE m == Base - 1
  <2>1. resp \in Ip /\ acc \in 1..m /\ total \in Nat /\ m \in Nat \ {0}
    BY Constants DEF RouterInv, FramesRight, RouterTypeOK
  <2>2. Sent(resp).checksum = m - acc
    BY <2>1, SentType
  <2>3. (total - acc) % m = 0 /\ total - acc \in Int
    BY <2>1 DEF RouterInv, FramesRight, SumRight
  <2> HIDE DEF m
  <2>4. PICK q \in Int : total - acc = q * m
    BY <2>1, <2>3, Multiple
  <2>5. total + (m - acc) = (q + 1) * m /\ q + 1 \in Int /\ total + (m - acc) \in Int
    <3>1. q * m + m = (q + 1) * m
      BY <2>1
    <3>2. total + (m - acc) = (total - acc) + m
      BY <2>1
    <3> QED BY <2>1, <2>4, <3>1, <3>2
  <2>6. (total + (m - acc)) % m = 0
    BY <2>1, <2>5, Multiple
  <2> QED BY <2>2, <2>6 DEF m
<1> QED BY <1>1, RouterInvariant, PTL

(* The echo replies a neighbour receives answer its requests, in their order. *)
THEOREM AnswersAlwaysInOrder == Spec => []AnswersInOrder
<1>1. RouterInv => AnswersInOrder
  <2> SUFFICES ASSUME RouterInv, NEW f \in Ifaces, NEW n \in 1..Len(echoed[f])
               PROVE  /\ \E m \in 1..Len(pinged[f]) : Answers(echoed[f][n], pinged[f][m])
                      /\ \A m \in 1..(n - 1) : echoed[f][m].id < echoed[f][n].id
    BY DEF AnswersInOrder
  <2>1. f = RouterIface
    BY DEF RouterInv, EchoesRight
  <2>2. echoed[f] \in Seq(Ip)
    BY DEF RouterInv, FramesRight, RouterTypeOK
  <2>3. \A m \in 1..n : echoed[f][m] \in Ip /\ echoed[f][m].kind = "ip"
    <3> SUFFICES ASSUME NEW m \in 1..n
                 PROVE  echoed[f][m] \in Ip /\ echoed[f][m].kind = "ip"
      OBVIOUS
    <3>1. m \in 1..Len(echoed[f])
      BY <2>2
    <3>2. echoed[f][m] \in Ip
      BY <2>2, <3>1
    <3> QED BY <3>2 DEF Ip
  <2>4. Asked(echoed[f][n], pinged[f])
    BY <2>1, <2>3 DEF RouterInv, EchoesRight, EchoesAsked
  <2>5. \A m \in 1..(n - 1) : echoed[f][m].id < echoed[f][n].id
    BY <2>1, <2>3 DEF RouterInv, OrderRight, EchoesOrdered
  <2> QED BY <2>4, <2>5 DEF Asked
<1> QED BY <1>1, RouterInvariant, PTL

-----------------------------------------------------------------------------
(* The weights of an octet: those of a longer prefix divide those of a shorter. *)
LEMMA WeightsDivide ==
  ASSUME NEW b \in 0..8, NEW d \in 0..8, b <= d
  PROVE  /\ Weights[b + 1] \in Nat \ {0} /\ Weights[d + 1] \in Nat \ {0}
         /\ \E r \in Nat : Weights[b + 1] = r * Weights[d + 1]
<1>1. Weights[b + 1] \in Nat \ {0} /\ Weights[d + 1] \in Nat \ {0}
  BY SMT DEF Weights
<1>2. PICK r \in {1, 2, 4, 8, 16, 32, 64, 128, 256} : Weights[b + 1] = r * Weights[d + 1]
  BY SMTT(60) DEF Weights
<1> QED BY <1>1, <1>2

LEMMA BitsType ==
  ASSUME NEW len \in 0..32, NEW k \in Octets
  PROVE  /\ FixedBits(len, k) \in 0..8
         /\ \A n \in 0..32 : len <= n => FixedBits(len, k) <= FixedBits(n, k)
         /\ len <= 24 /\ k = 4 => Weight(len, k) = 256
<1>1. FixedBits(len, k) \in 0..8
  BY DEF FixedBits, Octets
<1>2. \A n \in 0..32 : len <= n => FixedBits(len, k) <= FixedBits(n, k)
  BY DEF FixedBits, Octets
<1>3. ASSUME len <= 24, k = 4 PROVE Weight(len, k) = 256
  <2>1. FixedBits(len, k) = 0
    BY <1>3 DEF FixedBits
  <2> QED BY <2>1 DEF Weight, Weights
<1> QED BY <1>1, <1>2, <1>3

(* An octet without host bits has none for a longer prefix either. *)
LEMMA NoMoreHostBits ==
  ASSUME NEW len \in 0..32, NEW n \in 0..32, len <= n, NEW k \in Octets, NEW x \in Nat,
         x % Weight(len, k) = 0
  PROVE  x % Weight(n, k) = 0
<1> DEFINE v == Weight(len, k)
           w == Weight(n, k)
<1>1. FixedBits(len, k) \in 0..8 /\ FixedBits(n, k) \in 0..8
      /\ FixedBits(len, k) <= FixedBits(n, k)
  BY BitsType
<1>2. v \in Nat \ {0} /\ w \in Nat \ {0} /\ \E r \in Nat : v = r * w
  BY <1>1, WeightsDivide DEF Weight
<1> HIDE DEF v, w
<1>3. PICK r \in Nat : v = r * w
  BY <1>2
<1>4. PICK q \in Int : x = q * v
  <2>1. x % v = 0 /\ x \in Int /\ v \in Nat \ {0}
    BY <1>2 DEF v
  <2> QED BY <2>1, Multiple
<1>5. x = (q * r) * w /\ q * r \in Int
  BY <1>2, <1>3, <1>4
<1>6. x % w = 0
  BY <1>2, <1>5, Multiple
<1> QED BY <1>6 DEF w

(* Two octets without host bits that a prefix does not tell apart are the same. *)
LEMMA SameOctet ==
  ASSUME NEW w \in Nat \ {0}, NEW x \in Nat, NEW y \in Nat,
         x % w = 0, y % w = 0, x \div w = y \div w
  PROVE  x = y
<1>1. x = w * (x \div w) + (x % w) /\ y = w * (y \div w) + (y % w)
  OBVIOUS
<1> QED BY <1>1

(* Eight characters of a prefix whose last octet is 0 are its key, or the key *)
(* is never looked up.                                                        *)
LEMMA KeyOfPrefix ==
  ASSUME NEW net \in [Octets -> 0..255], net[4] = 0, Key(net)[4] = 0
  PROVE  Key(net) = net
<1> DEFINE two == Digits(net[1]) + Digits(net[2]) + 2
           three == two + Digits(net[3]) + 1
<1>1. \A n \in 0..255 : Digits(n) \in 1..3
  BY DEF Digits
<1>2. net[1] \in 0..255 /\ net[2] \in 0..255 /\ net[3] \in 0..255
  BY DEF Octets
<1>3. two \in 4..8 /\ three \in 6..12 /\ three = two + Digits(net[3]) + 1
  BY <1>1, <1>2
<1>4. Key(net) = IF three < 8 /\ 8 - three <= Digits(net[4])
                 THEN [net EXCEPT ![4] = Leading(net[4], 8 - three)]
                 ELSE IF three > 8 /\ two < 8
                      THEN [net EXCEPT ![3] = 0, ![4] = Leading(net[3], 8 - two)]
                      ELSE InaddrNone
  BY DEF Key
<1> HIDE DEF two, three
<1>5. CASE three < 8 /\ 8 - three <= Digits(net[4])
  <2>1. Digits(net[4]) = 1 /\ three = 7
    BY <1>3, <1>5 DEF Digits
  <2>2. Leading(net[4], 8 - three) = 0
    BY <2>1 DEF Leading
  <2> QED BY <1>4, <1>5, <2>2
<1>6. CASE three > 8 /\ two < 8
  <2>1. ~ (three < 8) /\ Key(net) = [net EXCEPT ![3] = 0, ![4] = Leading(net[3], 8 - two)]
    BY <1>3, <1>4, <1>6
  <2>2. Leading(net[3], 8 - two) = 0
    BY <2>1 DEF Octets
  <2>3. 8 - two \in 1..Digits(net[3])
    BY <1>1, <1>2, <1>3, <1>6
  <2>4. net[3] = 0
    <3>1. CASE net[3] < 10
      <4>1. Digits(net[3]) = 1 /\ 8 - two = 1
        BY <1>3, <2>3, <3>1 DEF Digits
      <4>2. Leading(net[3], 8 - two) = net[3] \div 1
        BY <4>1 DEF Leading
      <4> QED BY <1>2, <2>2, <4>2
    <3>2. CASE net[3] >= 10 /\ net[3] < 100
      <4>1. Digits(net[3]) = 2 /\ 8 - two \in {1, 2}
        BY <1>2, <1>3, <2>3, <3>2 DEF Digits
      <4>2. Leading(net[3], 8 - two) \in {net[3] \div 1, net[3] \div 10}
        BY <4>1 DEF Leading
      <4> QED BY <1>2, <2>2, <3>2, <4>2
    <3>3. CASE net[3] >= 100
      <4>1. Digits(net[3]) = 3 /\ 8 - two \in {1, 2, 3}
        BY <1>2, <1>3, <2>3, <3>3 DEF Digits
      <4>2. Leading(net[3], 8 - two) \in {net[3] \div 1, net[3] \div 10, net[3] \div 100}
        BY <4>1 DEF Leading
      <4> QED BY <1>2, <2>2, <3>3, <4>2
    <3> QED BY <1>2, <3>1, <3>2, <3>3
  <2> QED BY <2>1, <2>2, <2>4
<1>7. CASE ~ (three < 8 /\ 8 - three <= Digits(net[4])) /\ ~ (three > 8 /\ two < 8)
  BY <1>4, <1>7 DEF InaddrNone
<1> QED BY <1>5, <1>6, <1>7

(* The lines of a plain table, octet by octet. *)
LEMMA PlainLine ==
  ASSUME PlainTable, NEW l \in DOMAIN Table
  PROVE  /\ Table[l].net \in [Octets -> 0..255] /\ Table[l].len \in 0..24
         /\ \A k \in Octets : Table[l].net[k] % Weight(Table[l].len, k) = 0
         /\ Table[l].net[4] = 0
<1>1. Table[l] \in Route
  BY RouterAssumption
<1>2. Table[l].net \in [Octets -> 0..255] /\ Table[l].len \in 0..32
  BY <1>1, RouterAssumption DEF Route
<1>3. /\ Table[l].len <= 24
      /\ \A k \in Octets : Table[l].net[k] % Weight(Table[l].len, k) = 0
  BY DEF PlainTable
<1>4. 4 \in Octets /\ Weight(Table[l].len, 4) = 256
  BY <1>2, <1>3, BitsType DEF Octets
<1>5. Table[l].net[4] % 256 = 0 /\ Table[l].net[4] \in 0..255
  BY <1>2, <1>3, <1>4
<1> QED BY <1>2, <1>3, <1>5

(* A key that is found in a plain table is that of the longest prefix: the     *)
(* lengths, which the program drops, are not needed for it.                    *)
LEMMA KeyIsBest ==
  ASSUME PlainTable, NEW a \in Addrs, NEW l \in DOMAIN Table,
         Key(Table[l].net) = Prefix(a),
         \A m \in DOMAIN Table : m > l => Key(Table[m].net) # Prefix(a)
  PROVE  BestRoute(Table[l], a)
<1>1. a \in [Octets -> 0..255]
  BY RouterAssumption
<1>2. /\ Prefix(a) \in [Octets -> 0..255] /\ Prefix(a)[4] = 0
      /\ \A k \in 1..3 : Prefix(a)[k] = a[k]
  BY <1>1 DEF Prefix, Octets
<1>3. Table[l].net = Prefix(a)
  BY <1>2, PlainLine, KeyOfPrefix
<1>4. 4 \in Octets /\ \A k \in Octets : k \in 1..3 \/ k = 4
  BY DEF Octets
<1>5. Covers(Table[l], a)
  <2>1. Weight(Table[l].len, 4) = 256
    BY <1>4, PlainLine, BitsType
  <2>2. a[4] \in 0..255 /\ Prefix(a)[4] \in 0..255
    BY <1>1, <1>2, <1>4
  <2>3. a[4] \div 256 = Prefix(a)[4] \div 256
    BY <1>2, <2>2
  <2> QED BY <1>2, <1>3, <1>4, <2>1, <2>3 DEF Covers
<1>6. ASSUME NEW m \in DOMAIN Table, Covers(Table[m], a) PROVE Table[m].len <= Table[l].len
  <2> SUFFICES ASSUME Table[m].len > Table[l].len PROVE FALSE
    BY PlainLine
  <2>1. \A k \in Octets : Table[m].net[k] = Table[l].net[k]
    <3> SUFFICES ASSUME NEW k \in Octets PROVE Table[m].net[k] = Table[l].net[k]
      OBVIOUS
    <3>1. CASE k = 4
      BY <3>1, PlainLine
    <3>2. CASE k \in 1..3
      <4> DEFINE w == Weight(Table[m].len, k)
      <4>1. /\ Table[l].net[k] \in Nat /\ Table[m].net[k] \in Nat
            /\ Table[l].len \in 0..32 /\ Table[m].len \in 0..32 /\ Table[l].len <= Table[m].len
        <5>1. /\ Table[l].net \in [Octets -> 0..255] /\ Table[l].len \in 0..24
              /\ Table[m].net \in [Octets -> 0..255] /\ Table[m].len \in 0..24
          BY PlainLine
        <5>2. Table[l].net[k] \in 0..255 /\ Table[m].net[k] \in 0..255
          BY <5>1
        <5> QED BY <5>1, <5>2
      <4>2. Table[l].net[k] % w = 0 /\ Table[m].net[k] % w = 0
        BY <4>1, PlainLine, NoMoreHostBits
      <4>3. w \in Nat \ {0}
        <5>1. FixedBits(Table[m].len, k) \in 0..8
          BY <4>1, BitsType
        <5> QED BY <5>1, WeightsDivide DEF Weight
      <4>4. Table[l].net[k] \div w = Table[m].net[k] \div w
        BY <1>2, <1>3, <1>6, <3>2 DEF Covers
      <4> HIDE DEF w
      <4> QED BY <4>1, <4>2, <4>3, <4>4, SameOctet
    <3> QED BY <1>4, <3>1, <3>2
  <2>2. Table[m].net = Table[l].net
    BY <2>1, PlainLine
  <2>3. m <= l
    <3>1. l \in Nat /\ m \in Nat
      BY RouterAssumption
    <3> QED BY <1>3, <2>2, <3>1
  <2>4. l > m \/ l = m
    BY <2>3, RouterAssumption
  <2>5. l > m => Table[l].len >= Table[m].len
    BY <2>2 DEF PlainTable
  <2> QED BY <2>4, <2>5, PlainLine
<1> QED BY <1>5, <1>6 DEF BestRoute

(* What PlainTable asks of repeated prefixes is needed: where the last line of *)
(* a prefix is shorter than an earlier one, rmap holds the wrong route for     *)
(* every address of that key.                                                  *)
LEMMA ShorterLineWins ==
  ASSUME NEW l \in DOMAIN Table, NEW m \in DOMAIN Table, NEW a \in Addrs,
         Covers(Table[l], a), Table[m].len < Table[l].len, Table[l].len \in Nat,
         Table[m].len \in Nat, Key(Table[m].net) = Prefix(a),
         \A n \in DOMAIN Table : n > m => Key(Table[n].net) # Prefix(a)
  PROVE  Listed(Prefix(a)) /\ ~ BestRoute(rmap(Prefix(a)), a)
<1>1. Listed(Prefix(a))
  BY DEF Listed
<1>2. PICK c \in DOMAIN Table :
        /\ rmap(Prefix(a)) = Table[c] /\ Key(Table[c].net) = Prefix(a)
        /\ \A n \in DOMAIN Table : n > c => Key(Table[n].net) # Prefix(a)
  BY <1>1, RouteType
<1>3. c = m
  BY <1>2, RouterAssumption
<1>4. ~ BestRoute(Table[m], a)
  BY DEF BestRoute
<1> QED BY <1>1, <1>2, <1>3, <1>4

LEMMA TargetOnLink ==
  ASSUME PlainTable, NEW a \in Addrs, NEW l \in DOMAIN Table, BestRoute(Table[l], a)
  PROVE  OnLink(Table[l].iface, Target(a, Table[l]))
<1>1. CASE Table[l].hop = Direct
  BY <1>1 DEF OnLink, Target, BestRoute
<1>2. CASE Table[l].hop # Direct
  BY <1>2 DEF Target, PlainTable
<1> QED BY <1>1, <1>2

LEMMA OnlyRequestsWait ==
  ASSUME [Next]_vars, at = "main", at' = "waiting"
  PROVE  SendArpRequest
<1>1. CASE RouterNext
  BY <1>1 DEF RouterNext, Ignore, SendArpReply, IgnoreArp, StartEcho, SumWord, SendEcho,
              DropPacket, EndWait, routerVars
<1>2. CASE UNCHANGED routerVars
  BY <1>2 DEF routerVars
<1> QED BY <1>1, <1>2 DEF Next, vars, routerVars

(* With a table that the lookup does not misread (PlainTable), every ARP      *)
(* request of the router is for a packet of a neighbour, on the interface of  *)
(* the longest prefix, for an address on that link, although rmap keeps no    *)
(* lengths and its keys are made of eight characters (router.cpp:325-329).    *)
THEOREM AsksAlwaysOnRoute == ASSUME PlainTable PROVE Spec => AsksOnRoute
<1> DEFINE OnRoute ==
      at = "main" /\ at' = "waiting" =>
        /\ Got(RouterIface).shost = HostMac(RouterIface)
        /\ \E l \in DOMAIN Table :
             BestRoute(Table[l], Got(RouterIface).daddr) /\ Table[l].iface = waitOn'
        /\ inbox'[waitOn'] # <<>>
        /\ OnLink(waitOn', Last(inbox'[waitOn']).dpa)
<1>1. RouterInv /\ [Next]_vars => OnRoute
  <2> SUFFICES ASSUME RouterInv, SendArpRequest, at = "main", at' = "waiting" PROVE OnRoute
    BY OnlyRequestsWait
  <2> USE DEF RouterInv, FramesRight
  <2> DEFINE a == Got(RouterIface).daddr
             route == rmap(Prefix(a))
             e == ArpRequest(route.iface, Target(a, route))
  <2>1. /\ Got(RouterIface) \in Ip /\ socks[RouterIface] # <<>>
        /\ ~Head(socks[RouterIface]).out
    BY ReadingType DEF SendArpRequest
  <2>2. Got(RouterIface).shost = HostMac(RouterIface)
    BY <2>1, Constants, GotType DEF SocksRight
  <2>3. a \in Addrs
    BY <2>1 DEF Ip
  <2>4. /\ SendTo(route.iface, e) /\ waitOn' = route.iface /\ Listed(Prefix(a))
    BY DEF SendArpRequest
  <2> HIDE DEF a
  <2>5. PICK l \in DOMAIN Table :
          /\ route = Table[l] /\ Key(Table[l].net) = Prefix(a) /\ route \in Route
          /\ \A m \in DOMAIN Table : m > l => Key(Table[m].net) # Prefix(a)
    BY <2>4, RouteType
  <2>6. BestRoute(Table[l], a) /\ OnLink(route.iface, Target(a, route))
    BY <2>3, <2>5, KeyIsBest, TargetOnLink
  <2> HIDE DEF route
  <2>7. /\ route.iface \in Ifaces /\ e \in Frame /\ e.dpa = Target(a, route)
    BY <2>3, <2>5, TargetType, ArpRequestType DEF Route, Frame
  <2> HIDE DEF e
  <2>8. inbox'[waitOn'] # <<>> /\ Last(inbox'[waitOn']) = e
    <3>1. /\ inbox'[route.iface] \in Seq(Frame) /\ Len(inbox[route.iface]) \in Nat
          /\ Len(inbox'[route.iface]) = Len(inbox[route.iface]) + 1
          /\ inbox'[route.iface][Len(inbox[route.iface]) + 1] = e
      BY <2>4, <2>7, SendToElements
    <3> QED BY <2>4, <3>1 DEF Last
  <2>9. OnLink(waitOn', Last(inbox'[waitOn']).dpa)
    BY <2>4, <2>6, <2>7, <2>8
  <2> QED BY <2>2, <2>4, <2>5, <2>6, <2>8, <2>9 DEF a
<1> QED BY <1>1, RouterInvariant, PTL DEF Spec, AsksOnRoute, OnRoute
=============================================================================
