------------------------------- MODULE Router -------------------------------
(***************************************************************************)
(* The virtual router of project3/router.cpp.  It reads one interface,     *)
(* RouterIface (eth1): it answers ARP requests and echo requests for its   *)
(* own address there, and for every other packet that is in its table it   *)
(* sends an ARP request for the next hop on the interface of the route and *)
(* waits, on that interface's socket, for one frame.  The packet itself is *)
(* not sent on: that part of the program is not written ("WIP", line 210). *)
(*                                                                         *)
(* Every link joins the router to one neighbour, so the neighbours and     *)
(* what they keep are indexed by the interface.  A frame holds the fields  *)
(* that either end reads.  An ICMP message is a sequence of words: type    *)
(* and code, checksum, identifier, data.                                   *)
(***************************************************************************)
EXTENDS Integers, Sequences

CONSTANTS Ifaces,        \* the interfaces of the router
          RouterIface,   \* router_iname: the one the main loop reads
          Addrs,         \* the IP addresses in use, tuples of four octets
          IfAddr,        \* the address of each interface
          Table,         \* the lines of r1-table.txt
          Base,          \* how many values a word has, 65536
          Request,       \* the word of type 8 and code 0
          DataWords      \* words of data in an echo, 28

Direct == <<>>           \* "-" in the table: no next hop
Octets == 1..4

Word == 0..(Base - 1)
Data == [1..DataWords -> Word]

Route == [net : Addrs, len : 0..32, hop : Addrs \cup {Direct}, iface : Ifaces]

ASSUME RouterAssumption ==
  /\ RouterIface \in Ifaces
  /\ Addrs \subseteq [Octets -> 0..255]
  /\ IfAddr \in [Ifaces -> Addrs]
  /\ Table \in Seq(Route)
  /\ Base \in Nat \ {0, 1} /\ DataWords \in Nat
  /\ Request \in Word \ {0}

(* Longest-prefix routing, which the program does not implement, for the   *)
(* properties.  Of octet k, a prefix fixes what is left of it by a division. *)
Weights == <<256, 128, 64, 32, 16, 8, 4, 2, 1>>
FixedBits(len, k) == IF len < 8 * k - 8 THEN 0 ELSE IF len > 8 * k THEN 8 ELSE len - (8 * k - 8)
Weight(len, k) == Weights[FixedBits(len, k) + 1]

Covers(line, addr) ==
  \A k \in Octets : addr[k] \div Weight(line.len, k) = line.net[k] \div Weight(line.len, k)
BestRoute(line, addr) ==
  /\ Covers(line, addr)
  /\ \A l \in DOMAIN Table : Covers(Table[l], addr) => Table[l].len <= line.len
OnLink(f, addr) ==
  \E l \in DOMAIN Table :
    Table[l].iface = f /\ Table[l].hop = Direct /\ Covers(Table[l], addr)

(* The tables that the lookup, which knows no lengths, does not misread: no *)
(* prefix has host bits or more than 24 bits, of two lines with the same    *)
(* prefix the later is not the shorter, and a next hop is on the link of    *)
(* the interface of its line.                                               *)
PlainTable ==
  \A l \in DOMAIN Table :
    /\ Table[l].len <= 24
    /\ \A k \in Octets : Table[l].net[k] % Weight(Table[l].len, k) = 0
    /\ \A m \in DOMAIN Table :
         m > l /\ Table[m].net = Table[l].net => Table[m].len >= Table[l].len
    /\ Table[l].hop # Direct => OnLink(Table[l].iface, Table[l].hop)

RouterMac(i) == <<"router", i>>
HostMac(i) == <<"host", i>>
Broadcast == <<"all", "all">>
Mac == ({"router", "host"} \X Ifaces) \cup {Broadcast}

Arp == [kind : {"arp"}, shost : Mac, dhost : Mac, op : {1, 2},
        sha : Mac, spa : Addrs, dpa : Addrs]
Ip == [kind : {"ip"}, shost : Mac, dhost : Mac, saddr : Addrs, daddr : Addrs,
       type : Word, checksum : Word, id : Word, data : Data]
Frame == Arp \cup Ip

(* What a packet socket holds: a frame, and whether it is PACKET_OUTGOING. *)
Arrival == [frame : Frame, out : BOOLEAN]

VARIABLES
  socks,    \* the packet socket of each interface: what has arrived and was not read
  inbox,    \* what is on its way to the neighbour of each interface
  at,       \* "main", "summing" (in checksum()) or "waiting" (in send_arp_request())
  waitOn,   \* the interface whose socket send_arp_request() reads
  resp,     \* the reply being built
  stale,    \* what the data part of the buffer held before
  i, acc,   \* the locals of checksum(): i counts words from the ICMP header on
  total     \* auxiliary: the plain sum of the words that acc has taken in

routerVars == <<at, waitOn, resp, stale, i, acc, total>>

NoReply == [kind |-> "ip", shost |-> Broadcast, dhost |-> Broadcast,
            saddr |-> IfAddr[RouterIface], daddr |-> IfAddr[RouterIface],
            type |-> 0, checksum |-> 0, id |-> 0, data |-> [w \in 1..DataWords |-> 0]]

RouterInit ==
  /\ socks = [f \in Ifaces |-> <<>>]
  /\ inbox = [f \in Ifaces |-> <<>>]
  /\ at = "main" /\ waitOn = RouterIface
  /\ resp = NoReply /\ stale = NoReply.data
  /\ i = 0 /\ acc = Base - 1 /\ total = 0

OwnAddr == IfAddr[RouterIface]

(* The frame recvfrom() returns on interface f, and what it leaves.  (A fault: *)
(* sll_pkttype is not looked at.)                                             *)
AnyFrame(f) == socks[f] # <<>>
Incoming(f) == socks[f] # <<>> /\ ~Head(socks[f]).out
Got(f) == Head(socks[f]).frame
Receive(f) == socks' = [socks EXCEPT ![f] = Tail(@)]

(* send() on interface f.  The socket a frame is sent on does not see it. *)
SendTo(f, frame) == inbox' = [inbox EXCEPT ![f] = Append(@, frame)]

-----------------------------------------------------------------------------
(* Frames of the router's own kernel are seen, and passed over, by the main *)
(* loop and by the wait.                                                    *)
Ignore ==
  LET f == IF at = "waiting" THEN waitOn ELSE RouterIface IN
  /\ at # "summing"
  /\ socks[f] # <<>> /\ Head(socks[f]).out
  /\ Receive(f)
  /\ UNCHANGED <<inbox, routerVars>>

(* The main loop has received a frame of this kind. *)
Reading(kind) == at = "main" /\ Incoming(RouterIface) /\ Got(RouterIface).kind = kind

(* Only a request for the router's own address is answered.  (A fault, as in *)
(* the first version, newc.c: all are.)                                      *)
ForAnyone(arp) == arp.op = 1
ForRouter(arp) == arp.op = 1 /\ arp.dpa = OwnAddr

(* send_arp_reply(): the addresses change places, except that the hardware *)
(* address is now the interface's.                                         *)
ArpReplyUnswapped(arp) ==
  [arp EXCEPT !.op = 2, !.sha = RouterMac(RouterIface),
              !.dhost = arp.shost, !.shost = RouterMac(RouterIface)]
ArpReplyTo(arp) ==
  [arp EXCEPT !.op = 2, !.sha = RouterMac(RouterIface),
              !.dpa = arp.spa, !.spa = arp.dpa,
              !.dhost = arp.shost, !.shost = RouterMac(RouterIface)]

SendArpReply ==
  /\ Reading("arp") /\ ForRouter(Got(RouterIface))
  /\ SendTo(RouterIface, ArpReplyTo(Got(RouterIface)))
  /\ Receive(RouterIface)
  /\ UNCHANGED routerVars

(* ARP replies, and requests for others. *)
IgnoreArp ==
  /\ Reading("arp") /\ ~ForRouter(Got(RouterIface))
  /\ Receive(RouterIface)
  /\ UNCHANGED <<inbox, routerVars>>

-----------------------------------------------------------------------------
(* Whatever is not ARP is taken for ICMP, and whatever ICMP is for the router *)
(* is answered as an echo: the headers are turned round and copied to a new   *)
(* buffer, whose data part is not initialised when checksum() is called.      *)
EchoReplyTo(ip) ==
  [ip EXCEPT !.dhost = ip.shost, !.shost = RouterMac(RouterIface),
             !.daddr = ip.saddr, !.saddr = ip.daddr,
             !.checksum = 0, !.type = 0]

StartEcho ==
  /\ Reading("ip") /\ Got(RouterIface).daddr = OwnAddr
  /\ resp' = EchoReplyTo(Got(RouterIface))
  /\ stale' \in Data
  /\ at' = "summing" /\ i' = 0 /\ acc' = Base - 1 /\ total' = 0
  /\ Receive(RouterIface)
  /\ UNCHANGED <<inbox, waitOn>>

(* The words checksum() reads. *)
Words(ip, data) == <<ip.type, ip.checksum, ip.id>> \o data

(* Ones' complement addition.  (A fault: the carry is dropped.) *)
AddWithoutCarry(a, w) == (a + w) % Base
AddWord(a, w) == IF a + w > Base - 1 THEN a + w - (Base - 1) ELSE a + w

(* One iteration of the loop of checksum().  A reply has an even number of  *)
(* bytes, so the branch for an odd one never runs.                          *)
SumWord ==
  /\ at = "summing" /\ i < 3 + DataWords
  /\ i' = i + 1
  /\ acc' = AddWord(acc, Words(resp, stale)[i + 1])
  /\ total' = total + Words(resp, stale)[i + 1]
  /\ UNCHANGED <<socks, inbox, at, waitOn, resp, stale>>

(* The checksum goes into the header, the header into the buffer, and only   *)
(* then are the data of the request copied behind it.  (A fault: the copy is *)
(* forgotten.)                                                               *)
SentStale(ip) == [ip EXCEPT !.checksum = Base - 1 - acc, !.data = stale]
Sent(ip) == [ip EXCEPT !.checksum = Base - 1 - acc]

SendEcho ==
  /\ at = "summing" /\ i = 3 + DataWords
  /\ SendTo(RouterIface, Sent(resp))
  /\ at' = "main"
  /\ UNCHANGED <<socks, waitOn, resp, stale, i, acc, total>>

-----------------------------------------------------------------------------
(* The key of a line is what inet_addr() makes of the first eight characters *)
(* of its prefix.  They hold the whole address only if the first three octets *)
(* take four digits.  They may end within the fourth octet or, where          *)
(* inet_addr() takes the third part for the two last octets, in the third;    *)
(* after a dot or in the "/" of the length they are no address.               *)
Digits(n) == IF n < 10 THEN 1 ELSE IF n < 100 THEN 2 ELSE 3
Leading(n, k) == n \div <<1, 10, 100>>[Digits(n) - k + 1]
InaddrNone == <<255, 255, 255, 255>>
Key(net) ==
  LET two == Digits(net[1]) + Digits(net[2]) + 2     \* characters up to the second dot
      three == two + Digits(net[3]) + 1              \* and up to the third
  IN IF three < 8 /\ 8 - three <= Digits(net[4])
     THEN [net EXCEPT ![4] = Leading(net[4], 8 - three)]
     ELSE IF three > 8 /\ two < 8
          THEN [net EXCEPT ![3] = 0, ![4] = Leading(net[3], 8 - two)]
          ELSE InaddrNone

(* rmap: a later line with the same key replaces the earlier one, and the *)
(* length of a prefix is not kept.                                        *)
Listed(key) == \E l \in DOMAIN Table : Key(Table[l].net) = key
rmap(key) ==
  Table[CHOOSE l \in DOMAIN Table :
          /\ Key(Table[l].net) = key
          /\ \A m \in DOMAIN Table : m > l => Key(Table[m].net) # key]

(* The key that is looked up: the address with the last octet cleared. *)
Prefix(addr) == [addr EXCEPT ![4] = 0]

(* The packet is for someone else, and its prefix is not in the table. *)
DropPacket ==
  /\ Reading("ip") /\ Got(RouterIface).daddr # OwnAddr
  /\ ~Listed(Prefix(Got(RouterIface).daddr))
  /\ Receive(RouterIface)
  /\ UNCHANGED <<inbox, routerVars>>

(* The address asked for: the next hop, or the destination on its own link.  *)
(* (Fault: always the destination.)                                          *)
TargetDirect(addr, route) == addr
Target(addr, route) == IF route.hop # Direct THEN route.hop ELSE addr

(* The request carries the addresses of the interface it goes out on.        *)
(* (A fault: those of the interface the packet came from.)                   *)
RequestFromRouterIface(f, target) ==
  [kind |-> "arp", shost |-> RouterMac(f), dhost |-> Broadcast, op |-> 1,
   sha |-> RouterMac(f), spa |-> OwnAddr, dpa |-> target]
ArpRequest(f, target) ==
  [kind |-> "arp", shost |-> RouterMac(f), dhost |-> Broadcast, op |-> 1,
   sha |-> RouterMac(f), spa |-> IfAddr[f], dpa |-> target]

SendArpRequest ==
  /\ Reading("ip") /\ Got(RouterIface).daddr # OwnAddr
  /\ Listed(Prefix(Got(RouterIface).daddr))
  /\ LET addr == Got(RouterIface).daddr
         route == rmap(Prefix(addr))
     IN  /\ SendTo(route.iface, ArpRequest(route.iface, Target(addr, route)))
         /\ waitOn' = route.iface
  /\ at' = "waiting"
  /\ Receive(RouterIface)
  /\ UNCHANGED <<resp, stale, i, acc, total>>

(* The first frame that arrives ends the wait, and is dropped; so is the *)
(* packet that the wait was for.                                         *)
EndWait ==
  /\ at = "waiting" /\ Incoming(waitOn)
  /\ at' = "main"
  /\ Receive(waitOn)
  /\ UNCHANGED <<inbox, waitOn, resp, stale, i, acc, total>>

RouterNext ==
  \/ Ignore \/ SendArpReply \/ IgnoreArp
  \/ StartEcho \/ SumWord \/ SendEcho
  \/ DropPacket \/ SendArpRequest \/ EndWait
=============================================================================
