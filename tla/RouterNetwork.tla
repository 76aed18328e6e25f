---------------------------- MODULE RouterNetwork ----------------------------
(***************************************************************************)
(* The router of project3 and what is at the other end of its links: hosts *)
(* that resolve addresses and send echo requests (their kernels), and r2,  *)
(* which the test bed tells not to answer ARP (setup.py).                  *)
(***************************************************************************)
EXTENDS Router, SequencesExt

CONSTANTS HostAddr,    \* the address of the neighbour on each interface
          Answering,   \* the interfaces whose neighbour answers ARP
          Targets,     \* addresses a neighbour may resolve on its link
          Dests,       \* addresses a neighbour may send echo requests to
          Broadcasts,  \* those of them that are the broadcast address of its link
          Payloads,    \* the data of the echo requests
          MaxSent,     \* bound: frames a neighbour sends of its own accord
          MaxKernel    \* bound: frames the router's kernel sends

ASSUME NetworkAssumption ==
  /\ HostAddr \in [Ifaces -> Addrs]
  /\ \A f, g \in Ifaces : HostAddr[f] # IfAddr[g]
  /\ \A f, g \in Ifaces : IfAddr[f] = IfAddr[g] => f = g
  /\ \A f, g \in Ifaces : HostAddr[f] = HostAddr[g] => f = g
  /\ Answering \subseteq Ifaces
  /\ Targets \in [Ifaces -> SUBSET Addrs] /\ Dests \in [Ifaces -> SUBSET Addrs]
  /\ Broadcasts \subseteq Addrs /\ Payloads \subseteq Data
  /\ MaxSent \in [Ifaces -> Nat] /\ \A f \in Ifaces : MaxSent[f] <= Base
  /\ MaxKernel \in Nat

VARIABLES
  cache,    \* each neighbour's ARP cache
  sent,     \* the frames it has sent of its own accord
  pinged,   \* auxiliary: the echo requests it has sent to the router's own address
  echoed,   \* the echo replies that have reached it, before the test of their checksum
  kernel    \* the frames the router's kernel has sent

hostVars == <<cache, sent, pinged, echoed, kernel>>
vars == <<socks, inbox, routerVars, hostVars>>

(* An address of which nothing is known, and one that has been asked for. *)
NoMac == <<>>
Incomplete == <<"incomplete">>
Resolved(f, addr) == cache[f][addr] \notin {NoMac, Incomplete}

Init ==
  /\ RouterInit
  /\ cache = [f \in Ifaces |-> [a \in Addrs |-> NoMac]]
  /\ sent = [f \in Ifaces |-> 0]
  /\ pinged = [f \in Ifaces |-> <<>>]
  /\ echoed = [f \in Ifaces |-> <<>>]
  /\ kernel = 0

-----------------------------------------------------------------------------
(* A frame from the neighbour reaches the packet socket of the interface. *)
Deliver(f, frame) ==
  socks' = [socks EXCEPT ![f] = Append(@, [frame |-> frame, out |-> FALSE])]

Sends(f) == sent[f] < MaxSent[f] /\ sent' = [sent EXCEPT ![f] = @ + 1]

HostRequest(f, addr) ==
  [kind |-> "arp", shost |-> HostMac(f), dhost |-> Broadcast, op |-> 1,
   sha |-> HostMac(f), spa |-> HostAddr[f], dpa |-> addr]

HostReply(f, arp) ==
  [kind |-> "arp", shost |-> HostMac(f), dhost |-> arp.sha, op |-> 2,
   sha |-> HostMac(f), spa |-> arp.dpa, dpa |-> arp.spa]

(* What the neighbour's kernel sends: an ARP request for an address it has *)
(* not resolved, an echo request by way of the router, or to everyone on   *)
(* its link.                                                               *)
Resolve(f, addr) ==
  /\ Sends(f)
  /\ ~Resolved(f, addr)
  /\ cache' = [cache EXCEPT ![f][addr] = Incomplete]
  /\ Deliver(f, HostRequest(f, addr))
  /\ UNCHANGED <<inbox, pinged, echoed, kernel>>

Ping(f, addr, data) ==
  /\ Sends(f)
  /\ addr \in Broadcasts \/ Resolved(f, IfAddr[f])
  /\ LET echo == [kind |-> "ip", shost |-> HostMac(f),
                  dhost |-> IF addr \in Broadcasts THEN Broadcast ELSE cache[f][IfAddr[f]],
                  saddr |-> HostAddr[f], daddr |-> addr, type |-> Request,
                  checksum |-> 0, id |-> sent[f], data |-> data]
     IN  /\ Deliver(f, echo)
         /\ pinged' = IF addr = OwnAddr THEN [pinged EXCEPT ![f] = Append(@, echo)]
                      ELSE pinged
  /\ UNCHANGED <<inbox, cache, echoed, kernel>>

(* What the neighbour's kernel receives.  It learns an address from a reply  *)
(* and from a request for its own address, which it answers.                 *)
Reads(f, kind) == inbox[f] # <<>> /\ Head(inbox[f]).kind = kind

Learn(f, arp) == cache' = [cache EXCEPT ![f][arp.spa] = arp.sha]

HostGetsArp(f) ==
  /\ Reads(f, "arp")
  /\ inbox' = [inbox EXCEPT ![f] = Tail(@)]
  /\ LET arp == Head(inbox[f])
         request == arp.op = 1
         mine == arp.dpa = HostAddr[f] /\ arp.dhost \in {HostMac(f), Broadcast}
     IN  /\ IF mine /\ (request => f \in Answering) THEN Learn(f, arp) ELSE UNCHANGED cache
         /\ IF mine /\ request /\ f \in Answering
            THEN Deliver(f, HostReply(f, arp)) ELSE UNCHANGED socks
  /\ UNCHANGED <<sent, pinged, echoed, kernel>>

HostGetsIp(f) ==
  /\ Reads(f, "ip")
  /\ inbox' = [inbox EXCEPT ![f] = Tail(@)]
  /\ LET ip == Head(inbox[f]) IN
     echoed' = IF ip.daddr = HostAddr[f] /\ ip.dhost = HostMac(f) /\ ip.type = 0
               THEN [echoed EXCEPT ![f] = Append(@, ip)] ELSE echoed
  /\ UNCHANGED <<socks, cache, sent, pinged, kernel>>

(* The router's kernel sends something of its own to the neighbour ("for    *)
(* example ICMP port unreachable messages"): the socket sees it.  Of the    *)
(* neighbour, which does nothing about it, the reception is left out.       *)
KernelSends(f) ==
  /\ kernel < MaxKernel /\ kernel' = kernel + 1
  /\ LET note == [NoReply EXCEPT !.shost = RouterMac(f), !.dhost = HostMac(f),
                                 !.saddr = IfAddr[f], !.daddr = HostAddr[f],
                                 !.type = Request]
     IN  socks' = [socks EXCEPT ![f] = Append(@, [frame |-> note, out |-> TRUE])]
  /\ UNCHANGED <<inbox, cache, sent, pinged, echoed>>

HostGets(f) == HostGetsArp(f) \/ HostGetsIp(f)

HostNext(f) ==
  \/ \E addr \in Targets[f] : Resolve(f, addr)
  \/ \E addr \in Dests[f], data \in Payloads : Ping(f, addr, data)
  \/ HostGets(f)
  \/ KernelSends(f)

Next ==
  \/ RouterNext /\ UNCHANGED hostVars
  \/ \E f \in Ifaces : HostNext(f) /\ UNCHANGED routerVars

Spec == Init /\ [][Next]_vars

(* The system runs the router and delivers frames; nobody has to send. *)
FairSpec == Spec /\ WF_vars(RouterNext /\ UNCHANGED hostVars)
                 /\ \A f \in Ifaces : WF_vars(HostGets(f) /\ UNCHANGED routerVars)

-----------------------------------------------------------------------------
(* The type invariant. *)
RouterTypeOK ==
  /\ socks \in [Ifaces -> Seq(Arrival)]
  /\ inbox \in [Ifaces -> Seq(Frame)]
  /\ at \in {"main", "summing", "waiting"} /\ waitOn \in Ifaces
  /\ resp \in Ip /\ stale \in Data
  /\ i \in 0..(3 + DataWords) /\ acc \in 1..(Base - 1) /\ total \in Nat
  /\ cache \in [Ifaces -> [Addrs -> Mac \cup {NoMac, Incomplete}]]
  /\ sent \in [Ifaces -> Nat] /\ \A f \in Ifaces : sent[f] <= MaxSent[f]
  /\ pinged \in [Ifaces -> Seq(Ip)] /\ echoed \in [Ifaces -> Seq(Ip)]
  /\ kernel \in 0..MaxKernel

(* No neighbour ever believes a wrong hardware address: on its link an address *)
(* belongs to the router's interface or to itself, and everything else to      *)
(* nobody, whoever asks for what and whatever the router asks for itself.      *)
CacheRight ==
  \A f \in Ifaces, a \in Addrs :
    Resolved(f, a) => a = IfAddr[f] /\ cache[f][a] = RouterMac(f)

(* The checksum of a reply closes the sum of the words it was computed over: *)
(* with it they add up to a multiple of 65535, so a receiver that found these *)
(* words would accept the message.                                            *)
ChecksumCloses ==
  at = "summing" /\ i = 3 + DataWords => (total + Sent(resp).checksum) % (Base - 1) = 0

(* What a neighbour gets back are echo requests that it sent to the router,  *)
(* each once, in the order it sent them and with its data, although the       *)
(* buffer is used again and a wait may drop requests that come between.       *)
Answers(reply, request) ==
  /\ reply.id = request.id /\ reply.data = request.data
  /\ reply.saddr = request.daddr

AnswersInOrder ==
  \A f \in Ifaces : \A n \in 1..Len(echoed[f]) :
    /\ \E m \in 1..Len(pinged[f]) : Answers(echoed[f][n], pinged[f][m])
    /\ \A m \in 1..(n - 1) : echoed[f][m].id < echoed[f][n].id

(* The router asks for an address only for a packet of a neighbour, on the   *)
(* interface of the longest prefix that covers its destination, although it  *)
(* compares 24 bits whatever the length of the prefix, and for an address    *)
(* that is on that link.                                                     *)
AsksOnRoute ==
  [][at = "main" /\ at' = "waiting" =>
       /\ Got(RouterIface).shost = HostMac(RouterIface)
       /\ \E l \in DOMAIN Table :
            BestRoute(Table[l], Got(RouterIface).daddr) /\ Table[l].iface = waitOn'
       /\ inbox'[waitOn'] # <<>>
       /\ OnLink(waitOn', Last(inbox'[waitOn']).dpa)]_vars

(* The inductive invariant.  Frames that are not marked come from the          *)
(* neighbour; an ARP frame to a neighbour tells it the router's addresses      *)
(* there; acc is total up to a multiple of Base - 1; echo requests to the      *)
(* router and their answers keep the order in which they were sent on the way  *)
(* through socket, buffer and inbox.                                           *)
SocksRight ==
  \A f \in Ifaces : \A n \in 1..Len(socks[f]) :
    ~socks[f][n].out => socks[f][n].frame.shost = HostMac(f)

InboxRight ==
  \A f \in Ifaces : \A n \in 1..Len(inbox[f]) :
    inbox[f][n].kind = "arp" =>
      inbox[f][n].spa = IfAddr[f] /\ inbox[f][n].sha = RouterMac(f)

SumRight == at = "summing" => (total - acc) % (Base - 1) = 0

IsPing(arrival) ==
  ~arrival.out /\ arrival.frame.kind = "ip" /\ arrival.frame.daddr = OwnAddr

(* Of the arrivals at a socket, and of the frames in an inbox: their numbers, *)
(* their order, and that they are or answer a request of a list.              *)
PingIds(s) == {s[n].frame.id : n \in {m \in 1..Len(s) : IsPing(s[m])}}
PingsOrdered(s) ==
  \A n \in 1..Len(s) : \A m \in 1..(n - 1) :
    IsPing(s[n]) /\ IsPing(s[m]) => s[m].frame.id < s[n].frame.id
PingsAsked(s, requests) ==
  \A n \in 1..Len(s) : IsPing(s[n]) =>
    \E m \in 1..Len(requests) : requests[m] = s[n].frame

EchoIds(s) == {s[n].id : n \in {m \in 1..Len(s) : s[m].kind = "ip"}}
EchoesOrdered(s) ==
  \A n \in 1..Len(s) : \A m \in 1..(n - 1) :
    s[n].kind = "ip" /\ s[m].kind = "ip" => s[m].id < s[n].id
Asked(reply, requests) == \E m \in 1..Len(requests) : Answers(reply, requests[m])
EchoesAsked(s, requests) ==
  \A n \in 1..Len(s) : s[n].kind = "ip" => Asked(s[n], requests)

EchoesRight ==
  /\ \A f \in Ifaces \ {RouterIface} :
       echoed[f] = <<>> /\ \A n \in 1..Len(inbox[f]) : inbox[f][n].kind = "arp"
  /\ PingsAsked(socks[RouterIface], pinged[RouterIface])
  /\ at = "summing" => Asked(resp, pinged[RouterIface])
  /\ EchoesAsked(inbox[RouterIface], pinged[RouterIface])
  /\ EchoesAsked(echoed[RouterIface], pinged[RouterIface])

SockIds == PingIds(socks[RouterIface])
RespIds == IF at = "summing" THEN {resp.id} ELSE {}
InboxIds == EchoIds(inbox[RouterIface])
EchoedIds == EchoIds(echoed[RouterIface])

AllBelow(S, T) == \A x \in S, y \in T : x < y

OrderRight ==
  /\ PingsOrdered(socks[RouterIface])
  /\ EchoesOrdered(inbox[RouterIface]) /\ EchoesOrdered(echoed[RouterIface])
  /\ AllBelow(EchoedIds, InboxIds \cup RespIds \cup SockIds)
  /\ AllBelow(InboxIds, RespIds \cup SockIds)
  /\ AllBelow(RespIds, SockIds)
  /\ AllBelow(EchoedIds \cup InboxIds \cup RespIds \cup SockIds, {sent[RouterIface]})

FramesRight == RouterTypeOK /\ SocksRight /\ InboxRight /\ CacheRight /\ SumRight

RouterInv == FramesRight /\ EchoesRight /\ OrderRight

(* "Recieved responce from arp request" (router.cpp:134): the frame that ends *)
(* the wait is an ARP reply.                                                  *)
WaitTakesReply ==
  [][at = "waiting" /\ at' = "main" =>
       Got(waitOn).kind = "arp" /\ Got(waitOn).op = 2]_vars

(* Requests for the router and their answers on the way, and what is lost.  *)
EchoesUnderway == SockIds \cup RespIds \cup InboxIds
LostEchoes ==
  {pinged[RouterIface][m].id : m \in 1..Len(pinged[RouterIface])}
    \ (EchoesUnderway \cup EchoedIds)

AsksRouter(arrival) ==
  ~arrival.out /\ arrival.frame.kind = "arp" /\ ForRouter(arrival.frame)
TellsHost(frame) ==
  frame.kind = "arp" /\ frame.op = 2 /\ frame.dpa = HostAddr[RouterIface]
ArpUnderway ==
  \/ \E n \in 1..Len(socks[RouterIface]) : AsksRouter(socks[RouterIface][n])
  \/ \E n \in 1..Len(inbox[RouterIface]) : TellsHost(inbox[RouterIface][n])
LostArp == cache[RouterIface][OwnAddr] = Incomplete /\ ~ArpUnderway

(* No request for the router is lost but to a wait.  An ARP request or an echo *)
(* request goes unanswered only when a wait on the interface it came in by     *)
(* takes it for the ARP reply (router.cpp:130-134); and if the router is never *)
(* stuck in a wait, nothing stays on the way for ever.                         *)
Unstuck == []<>(at # "waiting")
AnsweredUnlessTaken ==
  /\ [][LostEchoes' # LostEchoes \/ (LostArp' /\ ~LostArp) =>
          at = "waiting" /\ at' = "main" /\ waitOn = RouterIface]_vars
  /\ Unstuck => []<>(EchoesUnderway = {} /\ ~ArpUnderway)
=============================================================================
