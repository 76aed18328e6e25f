-------------------------- MODULE MCLearningSwitch --------------------------
(* Two hosts and two ports: the hosts are on one port or on two, and a host  *)
(* that moves leaves its old port to the other or to nobody.                 *)
EXTENDS LearningSwitch

CONSTANTS h1, h2, p1, p2
MCHosts == {h1, h2}
MCPorts == {p1, p2}
=============================================================================
