CONSTANTS
  h1 = h1
  h2 = h2
  p1 = p1
  p2 = p2
  Hosts <- MCHosts
  Ports <- MCPorts
  Multicast = multicast
  Filtered = filtered
  Transparent = FALSE
  HoldDown = TRUE
  Pending = 2
  MaxMoves = 3
SPECIFICATION FairSpec
CHECK_DEADLOCK FALSE
INVARIANTS SwitchTypeOK TableCurrent
PROPERTIES ReachableAgain
