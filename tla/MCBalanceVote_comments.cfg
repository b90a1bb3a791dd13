SPECIFICATION Spec
CONSTANTS
  u1 = u1  u2 = u2
  r1 = r1  r2 = r2  r3 = r3  r4 = r4
  red = red  blue = blue
  Requests <- FourRequests
  Users <- TwoUsers
  Owner <- FourOwners
  Colors <- TwoColors
  NoColor = NoColor
  MaxFaults = 0
SYMMETRY Symmetry
INVARIANT CommentsDeleted
CHECK_DEADLOCK FALSE
