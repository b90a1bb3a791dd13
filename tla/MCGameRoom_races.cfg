SPECIFICATION Spec
CONSTANTS
  Users = {u1, u2}
  GameHandlers = {h1}
  ChatHandlers = {}
  NoChoice = NoChoice
  ActiveSets <- AnyActive
  TimeoutSenders = {u1, u2}
  MaxChoices = 1
  MaxFaults = 0
SYMMETRY Symmetry
INVARIANTS RoomNotForgotten ChoiceNotForgotten WindowCutOnlyByRoomTimeout ResultAllOrNothing ResultNeedsEveryone RecordedWasBroadcast
CHECK_DEADLOCK FALSE
