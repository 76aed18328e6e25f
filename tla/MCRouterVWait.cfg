CONSTANTS
  eth0 = eth0
  eth1 = eth1
  eth2 = eth2
  Ifaces <- MCIfaces
  RouterIface = eth1
  Addrs <- MCAddrs
  IfAddr <- MCIfAddr
  Table <- MCTable
  Base = 4
  Request = 2
  DataWords = 1
  HostAddr <- MCHostAddr
  Answering <- MCAnswering
  Targets <- MCTargets
  Dests <- MCDests
  Broadcasts <- MCBroadcasts
  Payloads <- MCPayloads
  MaxSent <- MCMaxSent
  MaxKernel = 1
SPECIFICATION Spec
CHECK_DEADLOCK FALSE

PROPERTIES WaitTakesReply
