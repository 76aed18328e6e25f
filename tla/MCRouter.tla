------------------------------ MODULE MCRouter ------------------------------
(* r1 of the test bed (setup.py) with h1, h2 and r2, and its table         *)
(* (r1-table.txt).                                                         *)
EXTENDS RouterNetwork

CONSTANTS eth0, eth1, eth2

h1 == <<10, 1, 0, 3>>
h2 == <<10, 1, 1, 5>>
h3 == <<10, 3, 0, 32>>
h4 == <<10, 3, 1, 201>>
nobody == <<10, 1, 0, 9>>
everyone == <<10, 1, 0, 255>>   \* the broadcast address of h1's link
r2 == <<10, 0, 0, 2>>

MCIfaces == {eth0, eth1, eth2}
MCIfAddr == (eth0 :> <<10, 0, 0, 1>>) @@ (eth1 :> <<10, 1, 0, 1>>) @@ (eth2 :> <<10, 1, 1, 1>>)
MCHostAddr == (eth0 :> r2) @@ (eth1 :> h1) @@ (eth2 :> h2)
MCTable ==
  << [net |-> <<10, 0, 0, 0>>, len |-> 16, hop |-> Direct, iface |-> eth0],
     [net |-> <<10, 1, 0, 0>>, len |-> 24, hop |-> Direct, iface |-> eth1],
     [net |-> <<10, 1, 1, 0>>, len |-> 24, hop |-> Direct, iface |-> eth2],
     [net |-> <<10, 3, 0, 0>>, len |-> 16, hop |-> r2, iface |-> eth0] >>
(* The table is one that the lookup reads rightly. *)
ASSUME PlainTableAssumption == PlainTable

MCAddrs ==
  {h1, h2, h3, h4, nobody, everyone, r2} \cup {MCIfAddr[f] : f \in MCIfaces}
    \cup {MCTable[l].net : l \in 1..4}

(* h1 resolves its gateway or an address nobody has, and sends echo requests *)
(* to the router, to h2, to an address with a route, to one that only the    *)
(* shorter prefix covers and to everyone on its own link.  h2 resolves its   *)
(* gateway.  r2 may say something.                                           *)
MCTargets == (eth0 :> {MCIfAddr[eth0]}) @@ (eth1 :> {MCIfAddr[eth1], nobody})
               @@ (eth2 :> {MCIfAddr[eth2]})
MCDests == (eth0 :> {}) @@ (eth1 :> {MCIfAddr[eth1], h2, h3, h4, everyone})
             @@ (eth2 :> {MCIfAddr[eth1]})
MCBroadcasts == {everyone}
MCMaxSent == (eth0 :> 1) @@ (eth1 :> 4) @@ (eth2 :> 1)
MCAnswering == {eth1, eth2}
MCPayloads == {[w \in 1..1 |-> 3]}
=============================================================================
