SPECIFICATION FairSpec
CONSTANTS
  Users = {u1, u2}
  GameHandlers = {h1}
  ChatHandlers = {c1}
  NoChoice = NoChoice
  ActiveSets <- AllActive
  TimeoutSenders = {}
  MaxChoices = 1
  MaxFaults = 0
PROPERTIES RoomCloses TimeoutLeadsToCleanup 
CHECK_DEADLOCK FALSE
