SPECIFICATION Spec
CONSTANTS
  m1 = m1  m2 = m2  f1 = f1
  k1 = k1  k2 = k2  k3 = k3  k4 = k4
  Users <- PairUsers
  Males <- PairMales
  Age <- PairAges
  CoupleCount = 1
  Conns <- PairConns
  Owner <- PairOwner
  NoConn = NoConn
  MaxFaults = 1
SYMMETRY TwoConns
INVARIANTS QueueHasOwner ClientIsOpen
PROPERTY ImplementsMatchmaking
CHECK_DEADLOCK FALSE
