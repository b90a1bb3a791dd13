SPECIFICATION Spec
CONSTANTS
  Rooms = {r1, r2}
  Users = {u1}
  Groups <- OneMember
  NoRoom = NoRoom
  MaxInputs = 1
  MaxFaults = 1
SYMMETRY RoomSymmetry
INVARIANTS MatchNotForgotten HistoryIsOwn GhostIsExplained IdleIsExplained MemberNotForgotten
PROPERTY ImplementsRoomLife
CHECK_DEADLOCK FALSE
