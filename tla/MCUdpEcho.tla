----------------------------- MODULE MCUdpEcho -----------------------------
(* Two clients of three lines each, sockets of two datagrams, one loss. *)
EXTENDS UdpEcho

CONSTANTS a, b, nobody
MCClients == {a, b}
=============================================================================
