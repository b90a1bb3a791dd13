SPECIFICATION FairSpec
CONSTANTS
  u1 = u1  u2 = u2
  k1 = k1  k2 = k2  k3 = k3
  Users <- TwoUsers
  Conns <- TwoConns
  Owner <- TwoOwners
  NoConn = NoConn
  Consumers = {h1}
  ChanSize = 1
  MaxBroadcasts = 2
  MaxFaults = 0
PROPERTIES BroadcastEndsOrHangs DeadIsUnregistered ImplementsBroadcasting
CHECK_DEADLOCK FALSE
