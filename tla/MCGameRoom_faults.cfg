SPECIFICATION Spec
CONSTANTS
  Users = {u1, u2}
  GameHandlers = {h1, h2}
  ChatHandlers = {c1}
  NoChoice = NoChoice
  ActiveSets <- AllActive
  TimeoutSenders = {}
  MaxChoices = 1
  MaxFaults = 1
SYMMETRY Symmetry
INVARIANTS FinalTimeoutsBounded PanicOnlyAfterEnd
PROPERTY ImplementsRound
CHECK_DEADLOCK FALSE
