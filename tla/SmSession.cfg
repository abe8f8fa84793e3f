SPECIFICATION Spec
CONSTANTS
  u1 = u1
  u2 = u2
  u3 = u3
  p1 = p1
  p2 = p2
  NULL = NULL
  Tunnels <- MCTunnels
  Peers <- MCPeers
  MaxTeid = 3
  MaxRequests = 4
INVARIANTS
  TypeOK
  HandlesMatchTunnels
  TunnelsOwned
  AcceptedIsAnswered
SYMMETRY Symmetry
CHECK_DEADLOCK FALSE
