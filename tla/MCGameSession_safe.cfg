SPECIFICATION Spec
CONSTANTS
  u1 = u1  u2 = u2
  k1 = k1  k2 = k2  k3 = k3
  Users <- OneUser
  Conns <- ThreeConns
  Owner <- OneOwner
  NoConn = NoConn
  Consumers = {}
  ChanSize = 1
  MaxBroadcasts = 2
  MaxFaults = 1
SYMMETRY Reconnects
INVARIANTS NoDeadClient OpenIsReachable
CHECK_DEADLOCK FALSE
