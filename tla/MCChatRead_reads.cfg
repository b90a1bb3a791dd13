SPECIFICATION Spec
CONSTANTS
  Users = {u1, u2}
  NoUser = NoUser
  MaxMsgs = 2
  MaxJoins = 2
  MaxFaults = 1
SYMMETRY UserSymmetry
INVARIANTS CountsSettle DoubleReadIsRaced UndercountExplained BadgeFollowsJoins ClientsSeeCounts
PROPERTY ImplementsReadReceipts
CHECK_DEADLOCK FALSE
