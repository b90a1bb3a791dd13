--------------------------- MODULE GameRoomProofs ---------------------------
(***************************************************************************)
(* Proofs, for every number of members, handlers, messages and faults, of  *)
(* the invariants of GameRoom and of its refinement of ChoiceRound.        *)
(*                                                                         *)
(* None of the invariants is inductive by itself.  The strengthenings are  *)
(* grouped by the question they answer, and each group is preserved by     *)
(* every step, given the groups before it.                                 *)
(***************************************************************************)
EXTENDS GameRoom, FiniteSetTheorems, TLAPS

-----------------------------------------------------------------------------
\* The strengthenings.

\* The chat monitor works only on a listed room.
ChatMonitorInv == chatMon # "idle" => roomsList

\* What the chat monitor may still publish without another fault.
MayPublish == IF roomsList /\ chatMon \in {"idle", "publish"} THEN 1 ELSE 0

RoomTimeoutsInv == roomTimeouts + MayPublish <= 1 + faults + gamePanics

\* A goroutine past a step of BroadCastFinalChoiceStart has done the steps before.
StartInv ==
  /\ \A g \in Goroutines :
       /\ pc[g] \in {"clearOld", "setStatus", "setTimer", "listChoice"} => starts > 0
       /\ pc[g] \in {"setTimer", "listChoice"} => status = "ChoiceIng"
  /\ status = "ChoiceIng" => starts > 0
  /\ choiceMon # "idle" \/ roomsChoice \/ finalTimeouts > 0 => status = "ChoiceIng"

\* The chat service closes a room only when a choice timeout was published, and
\* nothing routes that timeout to the game service.
ClosingInv ==
  /\ \A h \in ChatHandlers : chatPc[h] # "idle" => finalTimeouts > 0
  /\ chatQ["final_choice_timeout"] > 0 => finalTimeouts > 0
  /\ ~roomDoc => finalTimeouts > 0
  /\ gameQ["final_choice_timeout"] = 0
  /\ gamePanics > 0 => finalTimeouts > 0

\* A timeout event on its way to the choice phase.
Starting ==
  \/ gameQ["room.timeout"] > 0
  \/ \E g \in Goroutines : pc[g] \in {"readStatus", "announce", "clearOld", "setStatus"}

NotForgottenInv ==
  /\ faults = 0 /\ status = "GameIng" /\ (~roomsList \/ chatMon \in {"del", "srem"})
       => Starting
  /\ faults = 0 /\ choiceMon \in {"del", "srem"} => finalTimeouts > 0
  /\ ChoiceNotForgotten

\* Before the first room timeout nobody deletes the choice timer.
WindowInv ==
  clock < 2 /\ roomTimeouts = 0 /\ faults = 0 =>
    /\ finalTimeouts = 0
    /\ choiceMon = "idle"
    /\ chatMon \in {"idle", "publish"}
    /\ roomsChoice => timer = "choice"
    /\ \A g \in Goroutines : pc[g] = "listChoice" => timer = "choice"

\* BroadcastFinalChoices records what it has sent.
ResultInv ==
  /\ \A g \in Goroutines : pc[g] \in {"saveResult", "clearResult"} => got[g] \in results
  /\ RecordedWasBroadcast
  /\ gamePanics > 0 => results # {}

Gathering == {"gather", "sendResult", "saveResult", "clearResult"}

\* A goroutine gathers only after everybody has chosen.
EveryoneInv ==
  /\ \A u \in Users : choices[u] # NoChoice => sent[u] > 0
  /\ \A g \in Goroutines : pc[g] \in Gathering => \A u \in Users : sent[u] > 0
  /\ ResultNeedsEveryone

Whole(c) == c = NoChoices \/ IsAllChoicesCompleted(c)

ChoseOnce == \A u \in Users : sent[u] <= 1

\* While somebody gathers, the hash is full or deleted.
WholeInv ==
  ChoseOnce =>
    /\ \A g \in Goroutines : pc[g] \in Gathering => Whole(choices)
    /\ \A g \in Goroutines : pc[g] = "sendResult" => Whole(got[g])
    /\ \A r \in results : Whole(r)

\* Goroutines that will still list the room for the choice monitor.
ListingPcs == {"clearOld", "setStatus", "setTimer", "listChoice"}

Listing == {g \in Goroutines : pc[g] \in ListingPcs}

\* What the choice monitor may publish for the room as listed now.
MayClose ==
  IF choiceMon = "publish" \/ (roomsChoice /\ choiceMon = "idle") THEN 1 ELSE 0

FinalTimeoutsInv ==
  finalTimeouts + MayClose + Cardinality(Listing) <= starts + faults + gamePanics

\* Chat goroutines that hold a choice timeout.
Closing == {h \in ChatHandlers : chatPc[h] # "idle"}

PanicInv ==
  /\ Cardinality(Closing) + chatQ["final_choice_timeout"] + (IF roomDoc THEN 0 ELSE 1)
       <= finalTimeouts
  /\ chatPanics > 0 => finalTimeouts > 1

-----------------------------------------------------------------------------
\* Type correctness.

\* The empty hash is a value of the choices.
LEMMA NoChoicesType == NoChoices \in Choices
BY DEF NoChoices, Choices

\* The state CreateRoom leaves is typed.
LEMMA TypeInit == Init => TypeOK
<1> SUFFICES ASSUME Init PROVE TypeOK
  OBVIOUS
<1> USE NoChoicesType DEF Init
<1>1. pc \in [Goroutines -> GamePcs] /\ chatPc \in [ChatHandlers -> ChatPcs]
  BY DEF GamePcs, ChatPcs
<1>2. got \in [Goroutines -> Choices]
  OBVIOUS
<1>3. gameQ \in [Keys -> Nat] /\ chatQ \in [Keys -> Nat] /\ sent \in [Users -> Nat]
  OBVIOUS
<1>4. chatTimeout \subseteq Users /\ notified \subseteq Users /\ results \subseteq Choices
  OBVIOUS
<1>5. chatMon \in MonitorPcs /\ choiceMon \in MonitorPcs
  BY DEF MonitorPcs
<1>6. clock \in 0..2 /\ choices \in Choices /\ finalMatch \in Choices
  OBVIOUS
<1>7. QED
  BY <1>1, <1>2, <1>3, <1>4, <1>5, <1>6 DEF TypeOK

\* A queue that a message is routed to stays a queue.
LEMMA RoutedType ==
  ASSUME NEW q \in [Keys -> Nat], NEW bindings, NEW key \in Keys
  PROVE  Routed(q, bindings, key) \in [Keys -> Nat]
<1>1. CASE key \in bindings
  <2>1. q[key] + 1 \in Nat
    OBVIOUS
  <2> QED
    BY <1>1, <2>1, Zenon DEF Routed
<1>2. CASE key \notin bindings
  BY <1>2 DEF Routed
<1> QED
  BY <1>1, <1>2

\* Each step of a goroutine, monitor, consumer or fault keeps the types.
LEMMA TypeNext == TypeOK /\ [Next]_vars => TypeOK'
<1> SUFFICES ASSUME TypeOK, [Next]_vars PROVE TypeOK'
  OBVIOUS
<1> USE NoChoicesType DEF TypeOK, redisVars, mongoVars, queueVars, monVars, histVars,
      Goto, GotoChat, Goroutines, Choices, GamePcs, MonitorPcs, ChatPcs, Keys
<1>1. CASE Tick
  BY <1>1 DEF Tick
<1>2. ASSUME NEW u \in Users, UserMessage(u) \/ UserCall(u) PROVE TypeOK'
  <2>1. CASE SendRoomTimeout(u)
    BY <2>1 DEF SendRoomTimeout
  <2>2. ASSUME NEW v \in Users, SendFinalChoice(u, v) PROVE TypeOK'
    BY <2>2 DEF SendFinalChoice
  <2>3. CASE CountTimeouts(u)
    BY <2>3 DEF CountTimeouts
  <2>4. CASE CountChoices(u)
    BY <2>4 DEF CountChoices
  <2>5. QED
    BY <1>2, <2>1, <2>2, <2>3, <2>4 DEF UserMessage, UserCall
<1>3. ASSUME NEW h \in GameHandlers, NEW key \in Keys, Deliver(h, key) PROVE TypeOK'
  BY <1>3 DEF Deliver, HandlerEntry
<1>4. ASSUME NEW g \in Goroutines, StartStep(g) PROVE TypeOK'
  <2>1. CASE StartReadStatus(g)
    BY <2>1 DEF StartReadStatus
  <2>2. CASE StartAnnounce(g)
    BY <2>2, ConstantsAssumption DEF StartAnnounce
  <2>3. CASE StartClearChoices(g)
    BY <2>3 DEF StartClearChoices
  <2>4. CASE StartSetStatus(g)
    BY <2>4 DEF StartSetStatus
  <2>5. CASE StartSetTimer(g)
    BY <2>5 DEF StartSetTimer
  <2>6. CASE StartListChoice(g)
    BY <2>6 DEF StartListChoice
  <2>7. QED
    BY <1>4, <2>1, <2>2, <2>3, <2>4, <2>5, <2>6 DEF StartStep
<1>5. ASSUME NEW g \in Goroutines, ResultStep(g) PROVE TypeOK'
  <2>1. CASE GatherChoices(g)
    BY <2>1 DEF GatherChoices
  <2>2. CASE SendResult(g)
    BY <2>2 DEF SendResult
  <2>3. CASE SaveResult(g)
    BY <2>3 DEF SaveResult
  <2>4. CASE SaveResultPanic(g)
    BY <2>4 DEF SaveResultPanic, GameDies
  <2>5. CASE ClearResult(g)
    BY <2>5 DEF ClearResult
  <2>6. QED
    BY <1>5, <2>1, <2>2, <2>3, <2>4, <2>5 DEF ResultStep
<1>6. CASE ChatMonitor
  <2>1. CASE ChatMonFindExpired
    BY <2>1 DEF ChatMonFindExpired
  <2>2. CASE ChatMonPublish
    <3> HIDE DEF Keys
    <3>1. gameQ' \in [Keys -> Nat] /\ chatQ' \in [Keys -> Nat]
      BY <2>2, RoutedType DEF ChatMonPublish, Publish, Keys
    <3>2. QED
      BY <2>2, <3>1 DEF ChatMonPublish
  <2>3. CASE ChatMonDel
    BY <2>3 DEF ChatMonDel
  <2>4. CASE ChatMonSRem
    <3>1. roomsList' \in BOOLEAN /\ chatMon' \in MonitorPcs
      BY <2>4 DEF ChatMonSRem
    <3>2. QED
      BY <2>4, <3>1 DEF ChatMonSRem
  <2>5. QED
    BY <1>6, <2>1, <2>2, <2>3, <2>4 DEF ChatMonitor
<1>7. CASE ChoiceMonitor
  <2>1. CASE ChoiceMonFindExpired
    BY <2>1 DEF ChoiceMonFindExpired
  <2>2. CASE ChoiceMonPublish
    <3> HIDE DEF Keys
    <3>1. gameQ' \in [Keys -> Nat] /\ chatQ' \in [Keys -> Nat]
      BY <2>2, RoutedType DEF ChoiceMonPublish, Publish, Keys
    <3>2. QED
      BY <2>2, <3>1 DEF ChoiceMonPublish
  <2>3. CASE ChoiceMonDel
    BY <2>3 DEF ChoiceMonDel
  <2>4. CASE ChoiceMonSRem
    <3>1. roomsChoice' \in BOOLEAN /\ choiceMon' \in MonitorPcs
      BY <2>4 DEF ChoiceMonSRem
    <3>2. QED
      BY <2>4, <3>1 DEF ChoiceMonSRem
  <2>5. QED
    BY <1>7, <2>1, <2>2, <2>3, <2>4 DEF ChoiceMonitor
<1>8. CASE ChatRoomTimeout
  BY <1>8 DEF ChatRoomTimeout, SetMongoStatus
<1>9. ASSUME NEW h \in ChatHandlers, ChatHandler(h) PROVE TypeOK'
  <2>1. CASE ChatFinalTimeout(h)
    BY <2>1 DEF ChatFinalTimeout
  <2>2. CASE ChatComplete(h)
    BY <2>2 DEF ChatComplete, SetMongoStatus
  <2>3. CASE ChatDel(h)
    BY <2>3 DEF ChatDel
  <2>4. CASE ChatSRem(h)
    <3>1. chatPc' \in [ChatHandlers -> ChatPcs]
      BY <2>4 DEF ChatSRem, ChatPcs
    <3>2. roomsChoice' \in BOOLEAN
      BY <2>4 DEF ChatSRem
    <3>3. QED
      BY <2>4, <3>1, <3>2 DEF ChatSRem
  <2>5. CASE ChatEnd(h)
    BY <2>5 DEF ChatEnd, SetMongoStatus
  <2>6. CASE Cleanup(h)
    BY <2>6 DEF Cleanup
  <2>7. CASE CleanupPanic(h)
    BY <2>7 DEF CleanupPanic, ChatDies
  <2>8. QED
    BY <1>9, <2>1, <2>2, <2>3, <2>4, <2>5, <2>6, <2>7 DEF ChatHandler
<1>10. CASE Faults
  <2>1. ASSUME NEW g \in Goroutines, GameCallFails(g) PROVE TypeOK'
    BY <2>1 DEF GameCallFails, Fault
  <2>2. CASE ChatMonCallFails
    BY <2>2 DEF ChatMonCallFails, Fault
  <2>3. CASE ChoiceMonCallFails
    BY <2>3 DEF ChoiceMonCallFails, Fault
  <2>4. ASSUME NEW h \in ChatHandlers, ChatCallFails(h) PROVE TypeOK'
    BY <2>4 DEF ChatCallFails, Fault
  <2>5. CASE GameCrash
    BY <2>5 DEF GameCrash, GameDies, Fault
  <2>6. CASE ChatCrash
    BY <2>6 DEF ChatCrash, ChatDies, Fault
  <2>7. CASE ChatRoomTimeoutFails
    BY <2>7 DEF ChatRoomTimeoutFails, Fault
  <2>8. QED
    BY <1>10, <2>1, <2>2, <2>3, <2>4, <2>5, <2>6, <2>7 DEF Faults
<1>11. CASE UNCHANGED vars
  BY <1>11 DEF vars
<1>12. QED
  BY <1>1, <1>2, <1>3, <1>4, <1>5, <1>6, <1>7, <1>8, <1>9, <1>10, <1>11 DEF Next

\* The variables keep their types: no queue length goes negative, no goroutine
\* leaves the code.
THEOREM TypeCorrect == Spec => []TypeOK
<1>1. Init => TypeOK  BY TypeInit
<1>2. TypeOK /\ [Next]_vars => TypeOK'  BY TypeNext
<1>3. QED BY <1>1, <1>2, PTL DEF Spec

-----------------------------------------------------------------------------
\* Safety, group by group.

\* Each step keeps the budget of room timeouts: a publish uses up the monitor's turn.
LEMMA RoomTimeoutsNext ==
  TypeOK /\ ChatMonitorInv /\ RoomTimeoutsInv /\ [Next]_vars
    => (ChatMonitorInv /\ RoomTimeoutsInv)'
<1> SUFFICES ASSUME TypeOK, ChatMonitorInv, RoomTimeoutsInv, [Next]_vars
             PROVE  (ChatMonitorInv /\ RoomTimeoutsInv)'
  OBVIOUS
<1> USE DEF TypeOK, ChatMonitorInv, RoomTimeoutsInv, MayPublish, MonitorPcs, redisVars,
      mongoVars, queueVars, monVars, histVars, Goto, GotoChat
<1>1. CASE Tick
  BY <1>1 DEF Tick
<1>2. ASSUME NEW u \in Users, UserMessage(u) \/ UserCall(u)
      PROVE  (ChatMonitorInv /\ RoomTimeoutsInv)'
  BY <1>2 DEF UserMessage, UserCall, SendRoomTimeout, SendFinalChoice, CountTimeouts,
     CountChoices
<1>3. ASSUME NEW h \in GameHandlers, NEW key \in Keys, Deliver(h, key)
      PROVE  (ChatMonitorInv /\ RoomTimeoutsInv)'
  BY <1>3 DEF Deliver, HandlerEntry, Keys
<1>4. ASSUME NEW g \in Goroutines, StartStep(g) PROVE (ChatMonitorInv /\ RoomTimeoutsInv)'
  BY <1>4 DEF StartStep, StartReadStatus, StartAnnounce, StartClearChoices,
     StartSetStatus, StartSetTimer, StartListChoice
<1>5. ASSUME NEW g \in Goroutines, ResultStep(g) PROVE (ChatMonitorInv /\ RoomTimeoutsInv)'
  BY <1>5 DEF ResultStep, GatherChoices, SendResult, SaveResult, SaveResultPanic,
     GameDies, Keys, ClearResult
<1>6. CASE ChatMonitor
  BY <1>6 DEF ChatMonitor, ChatMonFindExpired, ChatMonPublish, Publish, Routed,
     GameBindings, ChatBindings, Keys, ChatMonDel, ChatMonSRem
<1>7. CASE ChoiceMonitor
  BY <1>7 DEF ChoiceMonitor, ChoiceMonFindExpired, Expired, ChoiceMonPublish, Publish,
     Routed, GameBindings, ChatBindings, Keys, ChoiceMonDel, ChoiceMonSRem
<1>8. CASE ChatRoomTimeout
  BY <1>8 DEF ChatRoomTimeout, Keys, SetMongoStatus
<1>9. ASSUME NEW h \in ChatHandlers, ChatHandler(h)
      PROVE  (ChatMonitorInv /\ RoomTimeoutsInv)'
  BY <1>9 DEF ChatHandler, ChatFinalTimeout, Keys, ChatComplete, ChatDel, ChatSRem,
     ChatEnd, Cleanup, CleanupPanic, ChatDies
<1>10. CASE Faults
  BY <1>10 DEF Faults, Fault, GameCallFails, ChatMonCallFails, ChoiceMonCallFails,
     ChatCallFails, ChatRoomTimeoutFails, GameCrash, GameDies, Keys, ChatCrash, ChatDies
<1>11. CASE UNCHANGED vars
  BY <1>11 DEF vars
<1>12. QED
  BY <1>1, <1>2, <1>3, <1>4, <1>5, <1>6, <1>7, <1>8, <1>9, <1>10, <1>11 DEF Next

\* Each step keeps StartInv: a goroutine past the announcement has made it.
LEMMA StartNext ==
  TypeOK /\ StartInv /\ [Next]_vars => StartInv'
<1> SUFFICES ASSUME TypeOK, StartInv, [Next]_vars
             PROVE  StartInv'
  OBVIOUS
<1> USE DEF TypeOK, StartInv, Goroutines, redisVars, mongoVars, queueVars, monVars,
      histVars, Goto, GotoChat
<1>1. CASE Tick
  BY <1>1 DEF Tick
<1>2. ASSUME NEW u \in Users, UserMessage(u) \/ UserCall(u) PROVE StartInv'
  BY <1>2 DEF UserMessage, UserCall, SendRoomTimeout, SendFinalChoice, CountTimeouts,
     CountChoices
<1>3. ASSUME NEW h \in GameHandlers, NEW key \in Keys, Deliver(h, key) PROVE StartInv'
  BY <1>3 DEF Deliver, HandlerEntry, Keys
<1>4. ASSUME NEW g \in Goroutines, StartStep(g) PROVE StartInv'
  BY <1>4 DEF StartStep, StartReadStatus, StartAnnounce, StartClearChoices,
     StartSetStatus, StartSetTimer, StartListChoice
<1>5. ASSUME NEW g \in Goroutines, ResultStep(g) PROVE StartInv'
  BY <1>5 DEF ResultStep, GatherChoices, SendResult, SaveResult, SaveResultPanic,
     GameDies, Keys, ClearResult
<1>6. CASE ChatMonitor
  BY <1>6 DEF ChatMonitor, ChatMonFindExpired, ChatMonPublish, Publish, Routed,
     GameBindings, ChatBindings, Keys, ChatMonDel, ChatMonSRem
<1>7. CASE ChoiceMonitor
  BY <1>7 DEF ChoiceMonitor, ChoiceMonFindExpired, Expired, ChoiceMonPublish, Publish,
     Routed, GameBindings, ChatBindings, Keys, ChoiceMonDel, ChoiceMonSRem
<1>8. CASE ChatRoomTimeout
  BY <1>8 DEF ChatRoomTimeout, Keys, SetMongoStatus
<1>9. ASSUME NEW h \in ChatHandlers, ChatHandler(h) PROVE StartInv'
  BY <1>9 DEF ChatHandler, ChatFinalTimeout, Keys, ChatComplete, ChatDel, ChatSRem,
     ChatEnd, Cleanup, CleanupPanic, ChatDies
<1>10. CASE Faults
  BY <1>10 DEF Faults, Fault, GameCallFails, ChatMonCallFails, ChoiceMonCallFails,
     ChatCallFails, ChatRoomTimeoutFails, GameCrash, GameDies, Keys, ChatCrash, ChatDies
<1>11. CASE UNCHANGED vars
  BY <1>11 DEF vars
<1>12. QED
  BY <1>1, <1>2, <1>3, <1>4, <1>5, <1>6, <1>7, <1>8, <1>9, <1>10, <1>11 DEF Next

\* Each step keeps ClosingInv: the choice monitor works on a room in its choice phase.
LEMMA ClosingNext ==
  TypeOK /\ ClosingInv /\ [Next]_vars => ClosingInv'
<1> SUFFICES ASSUME TypeOK, ClosingInv, [Next]_vars
             PROVE  ClosingInv'
  OBVIOUS
<1> USE DEF TypeOK, ClosingInv, GameBindings, ChatBindings, redisVars, mongoVars,
      queueVars, monVars, histVars, Goto, GotoChat
<1>1. CASE Tick
  BY <1>1 DEF Tick
<1>2. ASSUME NEW u \in Users, UserMessage(u) \/ UserCall(u) PROVE ClosingInv'
  BY <1>2 DEF UserMessage, UserCall, SendRoomTimeout, SendFinalChoice, CountTimeouts,
     CountChoices
<1>3. ASSUME NEW h \in GameHandlers, NEW key \in Keys, Deliver(h, key) PROVE ClosingInv'
  BY <1>3 DEF Deliver, HandlerEntry, Keys
<1>4. ASSUME NEW g \in Goroutines, StartStep(g) PROVE ClosingInv'
  BY <1>4 DEF StartStep, StartReadStatus, StartAnnounce, StartClearChoices,
     StartSetStatus, StartSetTimer, StartListChoice
<1>5. ASSUME NEW g \in Goroutines, ResultStep(g) PROVE ClosingInv'
  BY <1>5 DEF ResultStep, GatherChoices, SendResult, SaveResult, SaveResultPanic,
     GameDies, Keys, ClearResult
<1>6. CASE ChatMonitor
  BY <1>6 DEF ChatMonitor, ChatMonFindExpired, ChatMonPublish, Publish, Routed,
     GameBindings, ChatBindings, Keys, ChatMonDel, ChatMonSRem
<1>7. CASE ChoiceMonitor
  BY <1>7 DEF ChoiceMonitor, ChoiceMonFindExpired, Expired, ChoiceMonPublish, Publish,
     Routed, GameBindings, ChatBindings, Keys, ChoiceMonDel, ChoiceMonSRem
<1>8. CASE ChatRoomTimeout
  BY <1>8 DEF ChatRoomTimeout, Keys, SetMongoStatus
<1>9. ASSUME NEW h \in ChatHandlers, ChatHandler(h) PROVE ClosingInv'
  BY <1>9 DEF ChatHandler, ChatFinalTimeout, Keys, ChatComplete, ChatDel, ChatSRem,
     ChatEnd, Cleanup, CleanupPanic, ChatDies
<1>10. CASE Faults
  BY <1>10 DEF Faults, Fault, GameCallFails, ChatMonCallFails, ChoiceMonCallFails,
     ChatCallFails, ChatRoomTimeoutFails, GameCrash, GameDies, Keys, ChatCrash, ChatDies
<1>11. CASE UNCHANGED vars
  BY <1>11 DEF vars
<1>12. QED
  BY <1>1, <1>2, <1>3, <1>4, <1>5, <1>6, <1>7, <1>8, <1>9, <1>10, <1>11 DEF Next

\* Each step hands a room in its chat hour on: from list to queue to goroutine.
LEMMA NotForgottenNext ==
  TypeOK /\ StartInv /\ ClosingInv /\ NotForgottenInv /\ [Next]_vars => NotForgottenInv'
<1> SUFFICES ASSUME TypeOK, StartInv, ClosingInv, NotForgottenInv, [Next]_vars
             PROVE  NotForgottenInv'
  OBVIOUS
<1> USE DEF TypeOK, StartInv, ClosingInv, NotForgottenInv, Starting, ChoiceNotForgotten,
      Goroutines, redisVars, mongoVars, queueVars, monVars, histVars, Goto, GotoChat
<1>1. CASE Tick
  BY <1>1 DEF Tick
<1>2. ASSUME NEW u \in Users, UserMessage(u) \/ UserCall(u) PROVE NotForgottenInv'
  BY <1>2 DEF UserMessage, UserCall, SendRoomTimeout, SendFinalChoice, CountTimeouts,
     CountChoices
<1>3. ASSUME NEW h \in GameHandlers, NEW key \in Keys, Deliver(h, key)
      PROVE  NotForgottenInv'
  BY <1>3 DEF Deliver, HandlerEntry, Keys
<1>4. ASSUME NEW g \in Goroutines, StartStep(g) PROVE NotForgottenInv'
  BY <1>4 DEF StartStep, StartReadStatus, StartAnnounce, StartClearChoices,
     StartSetStatus, StartSetTimer, StartListChoice
<1>5. ASSUME NEW g \in Goroutines, ResultStep(g) PROVE NotForgottenInv'
  BY <1>5 DEF ResultStep, GatherChoices, SendResult, SaveResult, SaveResultPanic,
     GameDies, Keys, ClearResult
<1>6. CASE ChatMonitor
  BY <1>6 DEF ChatMonitor, ChatMonFindExpired, ChatMonPublish, Publish, Routed,
     GameBindings, ChatBindings, Keys, ChatMonDel, ChatMonSRem
<1>7. CASE ChoiceMonitor
  BY <1>7 DEF ChoiceMonitor, ChoiceMonFindExpired, Expired, ChoiceMonPublish, Publish,
     Routed, GameBindings, ChatBindings, Keys, ChoiceMonDel, ChoiceMonSRem
<1>8. CASE ChatRoomTimeout
  BY <1>8 DEF ChatRoomTimeout, Keys, SetMongoStatus
<1>9. ASSUME NEW h \in ChatHandlers, ChatHandler(h) PROVE NotForgottenInv'
  BY <1>9 DEF ChatHandler, ChatFinalTimeout, Keys, ChatComplete, ChatDel, ChatSRem,
     ChatEnd, Cleanup, CleanupPanic, ChatDies
<1>10. CASE Faults
  BY <1>10 DEF Faults, Fault, GameCallFails, ChatMonCallFails, ChoiceMonCallFails,
     ChatCallFails, ChatRoomTimeoutFails, GameCrash, GameDies, Keys, ChatCrash, ChatDies
<1>11. CASE UNCHANGED vars
  BY <1>11 DEF vars
<1>12. QED
  BY <1>1, <1>2, <1>3, <1>4, <1>5, <1>6, <1>7, <1>8, <1>9, <1>10, <1>11 DEF Next

\* Each step keeps WindowInv: only the removal of the room deletes the choice timer early.
LEMMA WindowNext ==
  TypeOK /\ ClosingInv /\ WindowInv /\ [Next]_vars => WindowInv'
<1> SUFFICES ASSUME TypeOK, ClosingInv, WindowInv, [Next]_vars
             PROVE  WindowInv'
  OBVIOUS
<1> USE DEF TypeOK, ClosingInv, WindowInv, Goroutines, redisVars, mongoVars, queueVars,
      monVars, histVars, Goto, GotoChat
<1>1. CASE Tick
  BY <1>1 DEF Tick
<1>2. ASSUME NEW u \in Users, UserMessage(u) \/ UserCall(u) PROVE WindowInv'
  BY <1>2 DEF UserMessage, UserCall, SendRoomTimeout, SendFinalChoice, CountTimeouts,
     CountChoices
<1>3. ASSUME NEW h \in GameHandlers, NEW key \in Keys, Deliver(h, key) PROVE WindowInv'
  BY <1>3 DEF Deliver, HandlerEntry, Keys
<1>4. ASSUME NEW g \in Goroutines, StartStep(g) PROVE WindowInv'
  BY <1>4 DEF StartStep, StartReadStatus, StartAnnounce, StartClearChoices,
     StartSetStatus, StartSetTimer, StartListChoice
<1>5. ASSUME NEW g \in Goroutines, ResultStep(g) PROVE WindowInv'
  BY <1>5 DEF ResultStep, GatherChoices, SendResult, SaveResult, SaveResultPanic,
     GameDies, Keys, ClearResult
<1>6. CASE ChatMonitor
  BY <1>6 DEF ChatMonitor, ChatMonFindExpired, ChatMonPublish, Publish, Routed,
     GameBindings, ChatBindings, Keys, ChatMonDel, ChatMonSRem
<1>7. CASE ChoiceMonitor
  BY <1>7 DEF ChoiceMonitor, ChoiceMonFindExpired, Expired, ChoiceMonPublish, Publish,
     Routed, GameBindings, ChatBindings, Keys, ChoiceMonDel, ChoiceMonSRem
<1>8. CASE ChatRoomTimeout
  BY <1>8 DEF ChatRoomTimeout, Keys, SetMongoStatus
<1>9. ASSUME NEW h \in ChatHandlers, ChatHandler(h) PROVE WindowInv'
  BY <1>9 DEF ChatHandler, ChatFinalTimeout, Keys, ChatComplete, ChatDel, ChatSRem,
     ChatEnd, Cleanup, CleanupPanic, ChatDies
<1>10. CASE Faults
  BY <1>10 DEF Faults, Fault, GameCallFails, ChatMonCallFails, ChoiceMonCallFails,
     ChatCallFails, ChatRoomTimeoutFails, GameCrash, GameDies, Keys, ChatCrash, ChatDies
<1>11. CASE UNCHANGED vars
  BY <1>11 DEF vars
<1>12. QED
  BY <1>1, <1>2, <1>3, <1>4, <1>5, <1>6, <1>7, <1>8, <1>9, <1>10, <1>11 DEF Next

\* Each step keeps ResultInv: a gathered hash is everybody's or empty.
LEMMA ResultNext ==
  TypeOK /\ ClosingInv /\ ResultInv /\ [Next]_vars => ResultInv'
<1> SUFFICES ASSUME TypeOK, ClosingInv, ResultInv, [Next]_vars
             PROVE  ResultInv'
  OBVIOUS
<1> USE DEF TypeOK, ClosingInv, ResultInv, RecordedWasBroadcast, Goroutines, redisVars,
      mongoVars, queueVars, monVars, histVars, Goto, GotoChat
<1>1. CASE Tick
  BY <1>1 DEF Tick
<1>2. ASSUME NEW u \in Users, UserMessage(u) \/ UserCall(u) PROVE ResultInv'
  BY <1>2 DEF UserMessage, UserCall, SendRoomTimeout, SendFinalChoice, CountTimeouts,
     CountChoices
<1>3. ASSUME NEW h \in GameHandlers, NEW key \in Keys, Deliver(h, key) PROVE ResultInv'
  BY <1>3 DEF Deliver, HandlerEntry, Keys
<1>4. ASSUME NEW g \in Goroutines, StartStep(g) PROVE ResultInv'
  BY <1>4 DEF StartStep, StartReadStatus, StartAnnounce, StartClearChoices,
     StartSetStatus, StartSetTimer, StartListChoice
<1>5. ASSUME NEW g \in Goroutines, ResultStep(g) PROVE ResultInv'
  BY <1>5 DEF ResultStep, GatherChoices, SendResult, SaveResult, SaveResultPanic,
     GameDies, Keys, ClearResult
<1>6. CASE ChatMonitor
  BY <1>6 DEF ChatMonitor, ChatMonFindExpired, ChatMonPublish, Publish, Routed,
     GameBindings, ChatBindings, Keys, ChatMonDel, ChatMonSRem
<1>7. CASE ChoiceMonitor
  BY <1>7 DEF ChoiceMonitor, ChoiceMonFindExpired, Expired, ChoiceMonPublish, Publish,
     Routed, GameBindings, ChatBindings, Keys, ChoiceMonDel, ChoiceMonSRem
<1>8. CASE ChatRoomTimeout
  BY <1>8 DEF ChatRoomTimeout, Keys, SetMongoStatus
<1>9. ASSUME NEW h \in ChatHandlers, ChatHandler(h) PROVE ResultInv'
  BY <1>9 DEF ChatHandler, ChatFinalTimeout, Keys, ChatComplete, ChatDel, ChatSRem,
     ChatEnd, Cleanup, CleanupPanic, ChatDies
<1>10. CASE Faults
  BY <1>10 DEF Faults, Fault, GameCallFails, ChatMonCallFails, ChoiceMonCallFails,
     ChatCallFails, ChatRoomTimeoutFails, GameCrash, GameDies, Keys, ChatCrash, ChatDies
<1>11. CASE UNCHANGED vars
  BY <1>11 DEF vars
<1>12. QED
  BY <1>1, <1>2, <1>3, <1>4, <1>5, <1>6, <1>7, <1>8, <1>9, <1>10, <1>11 DEF Next

\* Each step keeps EveryoneInv: a goroutine that gathers has seen everyone choose.
LEMMA EveryoneNext ==
  TypeOK /\ ClosingInv /\ EveryoneInv /\ [Next]_vars => EveryoneInv'
<1> SUFFICES ASSUME TypeOK, ClosingInv, EveryoneInv, [Next]_vars
             PROVE  EveryoneInv'
  OBVIOUS
<1> USE DEF TypeOK, ClosingInv, EveryoneInv, ResultNeedsEveryone, Gathering,
      IsAllChoicesCompleted, NoChoices, Goroutines, redisVars, mongoVars, queueVars,
      monVars, histVars, Goto, GotoChat
<1>1. CASE Tick
  BY <1>1 DEF Tick
<1>2. ASSUME NEW u \in Users, UserMessage(u) \/ UserCall(u) PROVE EveryoneInv'
  <2>1. CASE SendRoomTimeout(u)
    BY <2>1 DEF SendRoomTimeout
  <2>2. ASSUME NEW v \in Users, SendFinalChoice(u, v) PROVE EveryoneInv'
    BY <2>2 DEF SendFinalChoice
  <2>3. CASE CountTimeouts(u)
    BY <2>3 DEF CountTimeouts
  <2>4. CASE CountChoices(u)
    BY <2>4 DEF CountChoices
  <2>5. QED
    BY <1>2, <2>1, <2>2, <2>3, <2>4 DEF UserMessage, UserCall
<1>3. ASSUME NEW h \in GameHandlers, NEW key \in Keys, Deliver(h, key) PROVE EveryoneInv'
  BY <1>3 DEF Deliver, HandlerEntry, Keys
<1>4. ASSUME NEW g \in Goroutines, StartStep(g) PROVE EveryoneInv'
  BY <1>4 DEF StartStep, StartReadStatus, StartAnnounce, StartClearChoices,
     StartSetStatus, StartSetTimer, StartListChoice
<1>5. ASSUME NEW g \in Goroutines, ResultStep(g) PROVE EveryoneInv'
  BY <1>5 DEF ResultStep, GatherChoices, SendResult, SaveResult, SaveResultPanic,
     GameDies, Keys, ClearResult
<1>6. CASE ChatMonitor
  BY <1>6 DEF ChatMonitor, ChatMonFindExpired, ChatMonPublish, Publish, Routed,
     GameBindings, ChatBindings, Keys, ChatMonDel, ChatMonSRem
<1>7. CASE ChoiceMonitor
  BY <1>7 DEF ChoiceMonitor, ChoiceMonFindExpired, Expired, ChoiceMonPublish, Publish,
     Routed, GameBindings, ChatBindings, Keys, ChoiceMonDel, ChoiceMonSRem
<1>8. CASE ChatRoomTimeout
  BY <1>8 DEF ChatRoomTimeout, Keys, SetMongoStatus
<1>9. ASSUME NEW h \in ChatHandlers, ChatHandler(h) PROVE EveryoneInv'
  BY <1>9 DEF ChatHandler, ChatFinalTimeout, Keys, ChatComplete, ChatDel, ChatSRem,
     ChatEnd, Cleanup, CleanupPanic, ChatDies
<1>10. CASE Faults
  BY <1>10 DEF Faults, Fault, GameCallFails, ChatMonCallFails, ChoiceMonCallFails,
     ChatCallFails, ChatRoomTimeoutFails, GameCrash, GameDies, Keys, ChatCrash, ChatDies
<1>11. CASE UNCHANGED vars
  BY <1>11 DEF vars
<1>12. QED
  BY <1>1, <1>2, <1>3, <1>4, <1>5, <1>6, <1>7, <1>8, <1>9, <1>10, <1>11 DEF Next

\* Each step keeps WholeInv: what a goroutine is about to record it has broadcast.
LEMMA WholeNext ==
  TypeOK /\ ClosingInv /\ EveryoneInv /\ WholeInv /\ [Next]_vars => WholeInv'
<1> SUFFICES ASSUME TypeOK, ClosingInv, EveryoneInv, WholeInv, [Next]_vars
             PROVE  WholeInv'
  OBVIOUS
<1> USE DEF TypeOK, ClosingInv, EveryoneInv, WholeInv, Whole, ChoseOnce, Gathering,
      IsAllChoicesCompleted, NoChoices, Goroutines, redisVars, mongoVars, queueVars,
      monVars, histVars, Goto, GotoChat
<1>1. CASE Tick
  BY <1>1 DEF Tick
<1>2. ASSUME NEW u \in Users, UserMessage(u) \/ UserCall(u) PROVE WholeInv'
  <2>1. CASE SendRoomTimeout(u)
    BY <2>1 DEF SendRoomTimeout
  <2>2. ASSUME NEW v \in Users, SendFinalChoice(u, v) PROVE WholeInv'
    BY <2>2 DEF SendFinalChoice
  <2>3. CASE CountTimeouts(u)
    BY <2>3 DEF CountTimeouts
  <2>4. CASE CountChoices(u)
    BY <2>4 DEF CountChoices
  <2>5. QED
    BY <1>2, <2>1, <2>2, <2>3, <2>4 DEF UserMessage, UserCall
<1>3. ASSUME NEW h \in GameHandlers, NEW key \in Keys, Deliver(h, key) PROVE WholeInv'
  BY <1>3 DEF Deliver, HandlerEntry, Keys
<1>4. ASSUME NEW g \in Goroutines, StartStep(g) PROVE WholeInv'
  BY <1>4 DEF StartStep, StartReadStatus, StartAnnounce, StartClearChoices,
     StartSetStatus, StartSetTimer, StartListChoice
<1>5. ASSUME NEW g \in Goroutines, ResultStep(g) PROVE WholeInv'
  BY <1>5 DEF ResultStep, GatherChoices, SendResult, SaveResult, SaveResultPanic,
     GameDies, Keys, ClearResult
<1>6. CASE ChatMonitor
  BY <1>6 DEF ChatMonitor, ChatMonFindExpired, ChatMonPublish, Publish, Routed,
     GameBindings, ChatBindings, Keys, ChatMonDel, ChatMonSRem
<1>7. CASE ChoiceMonitor
  BY <1>7 DEF ChoiceMonitor, ChoiceMonFindExpired, Expired, ChoiceMonPublish, Publish,
     Routed, GameBindings, ChatBindings, Keys, ChoiceMonDel, ChoiceMonSRem
<1>8. CASE ChatRoomTimeout
  BY <1>8 DEF ChatRoomTimeout, Keys, SetMongoStatus
<1>9. ASSUME NEW h \in ChatHandlers, ChatHandler(h) PROVE WholeInv'
  BY <1>9 DEF ChatHandler, ChatFinalTimeout, Keys, ChatComplete, ChatDel, ChatSRem,
     ChatEnd, Cleanup, CleanupPanic, ChatDies
<1>10. CASE Faults
  BY <1>10 DEF Faults, Fault, GameCallFails, ChatMonCallFails, ChoiceMonCallFails,
     ChatCallFails, ChatRoomTimeoutFails, GameCrash, GameDies, Keys, ChatCrash, ChatDies
<1>11. CASE UNCHANGED vars
  BY <1>11 DEF vars
<1>12. QED
  BY <1>1, <1>2, <1>3, <1>4, <1>5, <1>6, <1>7, <1>8, <1>9, <1>10, <1>11 DEF Next

\* The goroutines about to list the room are finitely many.
LEMMA ListingFinite == IsFiniteSet(Listing) /\ Cardinality(Listing) \in Nat
<1>1. IsFiniteSet(Goroutines)
  BY ConstantsAssumption, FS_Union DEF Goroutines
<1>2. Listing \in SUBSET Goroutines
  BY DEF Listing
<1>3. QED
  BY <1>1, <1>2, FS_Subset, FS_CardinalityType

\* A goroutine enters the set of listing goroutines, leaves it, or does neither.
LEMMA ListingEntered ==
  ASSUME TypeOK, NEW g \in Goroutines, NEW to \in ListingPcs,
         pc[g] \notin ListingPcs, pc' = [pc EXCEPT ![g] = to]
  PROVE  Cardinality(Listing') = Cardinality(Listing) + 1
<1>1. Listing' = Listing \cup {g} /\ g \notin Listing
  BY DEF Listing, TypeOK
<1>2. QED
  BY <1>1, ListingFinite, FS_AddElement

\* A goroutine leaves the set of listing goroutines.
LEMMA ListingLeft ==
  ASSUME TypeOK, NEW g \in Goroutines, NEW to, to \notin ListingPcs,
         pc[g] \in ListingPcs, pc' = [pc EXCEPT ![g] = to]
  PROVE  Cardinality(Listing') = Cardinality(Listing) - 1
<1>1. Listing' = Listing \ {g} /\ g \in Listing
  BY DEF Listing, TypeOK
<1>2. QED
  BY <1>1, ListingFinite, FS_RemoveElement

\* A step within it, or outside it, leaves the set alone.
LEMMA ListingStays ==
  ASSUME TypeOK, NEW g \in Goroutines, NEW to,
         to \in ListingPcs <=> pc[g] \in ListingPcs, pc' = [pc EXCEPT ![g] = to]
  PROVE  Listing' = Listing
BY DEF Listing, TypeOK

\* So does a step of another process.
LEMMA ListingKept ==
  ASSUME pc' = pc
  PROVE  Listing' = Listing
BY DEF Listing

\* Each step keeps the budget of choice timeouts: a start pays for one listing.
LEMMA FinalTimeoutsNext ==
  TypeOK /\ FinalTimeoutsInv /\ [Next]_vars => FinalTimeoutsInv'
<1> SUFFICES ASSUME TypeOK, FinalTimeoutsInv, [Next]_vars
             PROVE  FinalTimeoutsInv'
  OBVIOUS
<1> USE DEF TypeOK, FinalTimeoutsInv, MayClose, MonitorPcs, Goroutines, redisVars,
      mongoVars, queueVars, monVars, histVars, Goto, GotoChat
<1>1. CASE Tick
  BY <1>1, ListingKept, ListingFinite DEF Tick
<1>2. ASSUME NEW u \in Users, UserMessage(u) \/ UserCall(u) PROVE FinalTimeoutsInv'
  <2>1. CASE SendRoomTimeout(u)
    <3>1. Listing' = Listing
      BY <2>1, ListingStays DEF SendRoomTimeout, ListingPcs
    <3>2. QED
      BY <2>1, <3>1, ListingFinite DEF SendRoomTimeout
  <2>2. ASSUME NEW v \in Users, SendFinalChoice(u, v) PROVE FinalTimeoutsInv'
    <3>1. Listing' = Listing
      BY <2>2, ListingStays DEF SendFinalChoice, ListingPcs
    <3>2. QED
      BY <2>2, <3>1, ListingFinite DEF SendFinalChoice
  <2>3. CASE CountTimeouts(u)
    <3>1. Listing' = Listing
      BY <2>3, ListingStays DEF CountTimeouts, ListingPcs
    <3>2. QED
      BY <2>3, <3>1, ListingFinite DEF CountTimeouts
  <2>4. CASE CountChoices(u)
    <3>1. Listing' = Listing
      BY <2>4, ListingStays DEF CountChoices, ListingPcs
    <3>2. QED
      BY <2>4, <3>1, ListingFinite DEF CountChoices
  <2>5. QED
    BY <1>2, <2>1, <2>2, <2>3, <2>4 DEF UserMessage, UserCall
<1>3. ASSUME NEW h \in GameHandlers, NEW key \in Keys, Deliver(h, key)
      PROVE  FinalTimeoutsInv'
  <2>1. Listing' = Listing
    BY <1>3, ListingStays DEF Deliver, HandlerEntry, ListingPcs
  <2>2. QED
    BY <1>3, <2>1, ListingFinite DEF Deliver, HandlerEntry
<1>4. ASSUME NEW g \in Goroutines, StartStep(g) PROVE FinalTimeoutsInv'
  <2>1. CASE StartReadStatus(g)
    <3>1. Listing' = Listing
      BY <2>1, ListingStays DEF StartReadStatus, ListingPcs
    <3>2. QED
      BY <2>1, <3>1, ListingFinite DEF StartReadStatus
  <2>2. CASE StartAnnounce(g)
    <3>1. Cardinality(Listing') = Cardinality(Listing) + 1
      BY <2>2, ListingEntered DEF StartAnnounce, ListingPcs
    <3>2. QED
      BY <2>2, <3>1, ListingFinite DEF StartAnnounce
  <2>3. CASE StartClearChoices(g)
    <3>1. Listing' = Listing
      BY <2>3, ListingStays DEF StartClearChoices, ListingPcs
    <3>2. QED
      BY <2>3, <3>1, ListingFinite DEF StartClearChoices
  <2>4. CASE StartSetStatus(g)
    <3>1. Listing' = Listing
      BY <2>4, ListingStays DEF StartSetStatus, ListingPcs
    <3>2. QED
      BY <2>4, <3>1, ListingFinite DEF StartSetStatus
  <2>5. CASE StartSetTimer(g)
    <3>1. Listing' = Listing
      BY <2>5, ListingStays DEF StartSetTimer, ListingPcs
    <3>2. QED
      BY <2>5, <3>1, ListingFinite DEF StartSetTimer
  <2>6. CASE StartListChoice(g)
    <3>1. Cardinality(Listing') = Cardinality(Listing) - 1
      BY <2>6, ListingLeft DEF StartListChoice, ListingPcs
    <3>2. QED
      BY <2>6, <3>1, ListingFinite DEF StartListChoice
  <2>7. QED
    BY <1>4, <2>1, <2>2, <2>3, <2>4, <2>5, <2>6 DEF StartStep
<1>5. ASSUME NEW g \in Goroutines, ResultStep(g) PROVE FinalTimeoutsInv'
  <2>1. CASE GatherChoices(g)
    <3>1. Listing' = Listing
      BY <2>1, ListingStays DEF GatherChoices, ListingPcs
    <3>2. QED
      BY <2>1, <3>1, ListingFinite DEF GatherChoices
  <2>2. CASE SendResult(g)
    <3>1. Listing' = Listing
      BY <2>2, ListingStays DEF SendResult, ListingPcs
    <3>2. QED
      BY <2>2, <3>1, ListingFinite DEF SendResult
  <2>3. CASE SaveResult(g)
    <3>1. Listing' = Listing
      BY <2>3, ListingStays DEF SaveResult, ListingPcs
    <3>2. QED
      BY <2>3, <3>1, ListingFinite DEF SaveResult
  <2>4. CASE SaveResultPanic(g)
    <3>1. Listing' = {}
      BY <2>4 DEF SaveResultPanic, GameDies, Listing, ListingPcs
    <3>2. Cardinality(Listing') = 0
      BY <3>1, FS_EmptySet
    <3>3. QED
      BY <2>4, <3>2, ListingFinite DEF SaveResultPanic, GameDies
  <2>5. CASE ClearResult(g)
    <3>1. Listing' = Listing
      BY <2>5, ListingStays DEF ClearResult, ListingPcs
    <3>2. QED
      BY <2>5, <3>1, ListingFinite DEF ClearResult
  <2>6. QED
    BY <1>5, <2>1, <2>2, <2>3, <2>4, <2>5 DEF ResultStep
<1>6. CASE ChatMonitor
  BY <1>6, ListingKept, ListingFinite DEF ChatMonitor, ChatMonFindExpired, ChatMonPublish,
     ChatMonDel, ChatMonSRem
<1>7. CASE ChoiceMonitor
  BY <1>7, ListingKept, ListingFinite DEF ChoiceMonitor, ChoiceMonFindExpired,
     ChoiceMonPublish, ChoiceMonDel, ChoiceMonSRem
<1>8. CASE ChatRoomTimeout
  BY <1>8, ListingKept, ListingFinite DEF ChatRoomTimeout
<1>9. ASSUME NEW h \in ChatHandlers, ChatHandler(h) PROVE FinalTimeoutsInv'
  BY <1>9, ListingKept, ListingFinite DEF ChatHandler, ChatFinalTimeout, ChatComplete,
     ChatDel, ChatSRem, ChatEnd, Cleanup, CleanupPanic
<1>10. CASE Faults
  <2>1. ASSUME NEW g \in Goroutines, GameCallFails(g) PROVE FinalTimeoutsInv'
    <3>1. CASE pc[g] \in ListingPcs /\ pc[g] # "clearOld"
      <4>1. Cardinality(Listing') = Cardinality(Listing) - 1
        BY <2>1, <3>1, ListingLeft DEF GameCallFails, ListingPcs
      <4>2. QED
        BY <2>1, <4>1, ListingFinite DEF GameCallFails, Fault
    <3>2. CASE pc[g] \notin ListingPcs \/ pc[g] = "clearOld"
      <4>1. Listing' = Listing
        BY <2>1, <3>2, ListingStays DEF GameCallFails, ListingPcs
      <4>2. QED
        BY <2>1, <4>1, ListingFinite DEF GameCallFails, Fault
    <3>3. QED
      BY <3>1, <3>2
  <2>2. CASE ChatMonCallFails
    BY <2>2, ListingKept, ListingFinite DEF ChatMonCallFails, Fault
  <2>3. CASE ChoiceMonCallFails
    BY <2>3, ListingKept, ListingFinite DEF ChoiceMonCallFails, Fault
  <2>4. ASSUME NEW h \in ChatHandlers, ChatCallFails(h) PROVE FinalTimeoutsInv'
    BY <2>4, ListingKept, ListingFinite DEF ChatCallFails, Fault
  <2>5. CASE GameCrash
    <3>1. Listing' = {}
      BY <2>5 DEF GameCrash, GameDies, Listing, ListingPcs
    <3>2. Cardinality(Listing') = 0
      BY <3>1, FS_EmptySet
    <3>3. QED
      BY <2>5, <3>2, ListingFinite DEF GameCrash, Fault, GameDies
  <2>6. CASE ChatCrash
    BY <2>6, ListingKept, ListingFinite DEF ChatCrash, Fault
  <2>7. CASE ChatRoomTimeoutFails
    BY <2>7, ListingKept, ListingFinite DEF ChatRoomTimeoutFails, Fault
  <2>8. QED
    BY <1>10, <2>1, <2>2, <2>3, <2>4, <2>5, <2>6, <2>7 DEF Faults
<1>11. CASE UNCHANGED vars
  BY <1>11, ListingKept, ListingFinite DEF vars
<1>12. QED
  BY <1>1, <1>2, <1>3, <1>4, <1>5, <1>6, <1>7, <1>8, <1>9, <1>10, <1>11 DEF Next

\* The chat goroutines at work on a choice timeout are finitely many.
LEMMA ClosingFinite == IsFiniteSet(Closing) /\ Cardinality(Closing) \in Nat
<1>1. Closing \in SUBSET ChatHandlers
  BY DEF Closing
<1>2. QED
  BY <1>1, ConstantsAssumption, FS_Subset, FS_CardinalityType

\* A chat goroutine takes a choice timeout, is done with it, or does neither.
LEMMA ClosingEntered ==
  ASSUME TypeOK, NEW h \in ChatHandlers, NEW to, to # "idle",
         chatPc[h] = "idle", chatPc' = [chatPc EXCEPT ![h] = to]
  PROVE  Cardinality(Closing') = Cardinality(Closing) + 1
<1>1. Closing' = Closing \cup {h} /\ h \notin Closing
  BY DEF Closing, TypeOK
<1>2. QED
  BY <1>1, ClosingFinite, FS_AddElement

\* A chat goroutine is done with its choice timeout.
LEMMA ClosingLeft ==
  ASSUME TypeOK, NEW h \in ChatHandlers,
         chatPc[h] # "idle", chatPc' = [chatPc EXCEPT ![h] = "idle"]
  PROVE  Cardinality(Closing') = Cardinality(Closing) - 1
<1>1. Closing' = Closing \ {h} /\ h \in Closing
  BY DEF Closing, TypeOK
<1>2. QED
  BY <1>1, ClosingFinite, FS_RemoveElement

\* A step between two calls of one handler leaves the set alone.
LEMMA ClosingStays ==
  ASSUME TypeOK, NEW h \in ChatHandlers, NEW to,
         to = "idle" <=> chatPc[h] = "idle", chatPc' = [chatPc EXCEPT ![h] = to]
  PROVE  Closing' = Closing
BY DEF Closing, TypeOK

\* So does a step of another process.
LEMMA ClosingKept ==
  ASSUME chatPc' = chatPc
  PROVE  Closing' = Closing
BY DEF Closing

\* Each step keeps PanicInv: a deleted room was closed, a second clean-up timed out twice.
LEMMA PanicNext ==
  TypeOK /\ PanicInv /\ [Next]_vars => PanicInv'
<1> SUFFICES ASSUME TypeOK, PanicInv, [Next]_vars
             PROVE  PanicInv'
  OBVIOUS
<1> USE DEF TypeOK, PanicInv, redisVars, mongoVars, queueVars, monVars, histVars, Goto,
      GotoChat
<1>1. CASE Tick
  BY <1>1, ClosingKept, ClosingFinite DEF Tick
<1>2. ASSUME NEW u \in Users, UserMessage(u) \/ UserCall(u) PROVE PanicInv'
  BY <1>2, ClosingKept, ClosingFinite DEF UserMessage, UserCall, SendRoomTimeout,
     SendFinalChoice, CountTimeouts, CountChoices
<1>3. ASSUME NEW h \in GameHandlers, NEW key \in Keys, Deliver(h, key) PROVE PanicInv'
  BY <1>3, ClosingKept, ClosingFinite DEF Deliver, HandlerEntry, Keys
<1>4. ASSUME NEW g \in Goroutines, StartStep(g) PROVE PanicInv'
  BY <1>4, ClosingKept, ClosingFinite DEF StartStep, StartReadStatus, StartAnnounce,
     StartClearChoices, StartSetStatus, StartSetTimer, StartListChoice
<1>5. ASSUME NEW g \in Goroutines, ResultStep(g) PROVE PanicInv'
  BY <1>5, ClosingKept, ClosingFinite DEF ResultStep, GatherChoices, SendResult,
     SaveResult, SaveResultPanic, GameDies, Keys, ClearResult
<1>6. CASE ChatMonitor
  BY <1>6, ClosingKept, ClosingFinite DEF ChatMonitor, ChatMonFindExpired, ChatMonPublish,
     Publish, Routed, GameBindings, ChatBindings, Keys, ChatMonDel, ChatMonSRem
<1>7. CASE ChoiceMonitor
  BY <1>7, ClosingKept, ClosingFinite DEF ChoiceMonitor, ChoiceMonFindExpired, Expired,
     ChoiceMonPublish, Publish, Routed, GameBindings, ChatBindings, Keys, ChoiceMonDel,
     ChoiceMonSRem
<1>8. CASE ChatRoomTimeout
  BY <1>8, ClosingKept, ClosingFinite DEF ChatRoomTimeout, Keys, SetMongoStatus
<1>9. ASSUME NEW h \in ChatHandlers, ChatHandler(h) PROVE PanicInv'
  <2>1. CASE ChatFinalTimeout(h)
    <3>1. Cardinality(Closing') = Cardinality(Closing) + 1
      BY <2>1, ClosingEntered DEF ChatFinalTimeout
    <3>2. QED
      BY <2>1, <3>1, ClosingFinite DEF ChatFinalTimeout, Keys
  <2>2. CASE ChatComplete(h)
    <3>1. Closing' = Closing
      BY <2>2, ClosingStays DEF ChatComplete
    <3>2. QED
      BY <2>2, <3>1, ClosingFinite DEF ChatComplete, SetMongoStatus
  <2>3. CASE ChatDel(h)
    <3>1. Closing' = Closing
      BY <2>3, ClosingStays DEF ChatDel
    <3>2. QED
      BY <2>3, <3>1, ClosingFinite DEF ChatDel
  <2>4. CASE ChatSRem(h)
    <3>1. Closing' = Closing
      BY <2>4, ClosingStays DEF ChatSRem
    <3>2. QED
      BY <2>4, <3>1, ClosingFinite DEF ChatSRem
  <2>5. CASE ChatEnd(h)
    <3>1. Closing' = Closing
      BY <2>5, ClosingStays DEF ChatEnd
    <3>2. QED
      BY <2>5, <3>1, ClosingFinite DEF ChatEnd, SetMongoStatus
  <2>6. CASE Cleanup(h)
    <3>1. Cardinality(Closing') = Cardinality(Closing) - 1
      BY <2>6, ClosingLeft DEF Cleanup
    <3>2. QED
      BY <2>6, <3>1, ClosingFinite DEF Cleanup, Keys
  <2>7. CASE CleanupPanic(h)
    <3>1. Closing' = {}
      BY <2>7 DEF CleanupPanic, ChatDies, Closing
    <3>2. Cardinality(Closing') = 0
      BY <3>1, FS_EmptySet
    <3>3. Cardinality(Closing) # 0
      BY <2>7, ClosingFinite, FS_EmptySet DEF CleanupPanic, Closing
    <3>4. finalTimeouts > 1
      BY <2>7, <3>3, ClosingFinite DEF CleanupPanic, Keys
    <3>5. QED
      BY <2>7, <3>2, <3>4, ClosingFinite DEF CleanupPanic, ChatDies, Keys
  <2>8. QED
    BY <1>9, <2>1, <2>2, <2>3, <2>4, <2>5, <2>6, <2>7 DEF ChatHandler
<1>10. CASE Faults
  <2>1. ASSUME NEW g \in Goroutines, GameCallFails(g) PROVE PanicInv'
    BY <2>1, ClosingKept, ClosingFinite DEF GameCallFails
  <2>2. CASE ChatMonCallFails
    BY <2>2, ClosingKept, ClosingFinite DEF ChatMonCallFails
  <2>3. CASE ChoiceMonCallFails
    BY <2>3, ClosingKept, ClosingFinite DEF ChoiceMonCallFails
  <2>4. ASSUME NEW h \in ChatHandlers, ChatCallFails(h) PROVE PanicInv'
    <3>1. CASE chatPc[h] = "sleep"
      <4>1. Cardinality(Closing') = Cardinality(Closing) - 1
        BY <2>4, <3>1, ClosingLeft DEF ChatCallFails
      <4>2. UNCHANGED <<chatQ, roomDoc, finalTimeouts, chatPanics>>
        BY <2>4 DEF ChatCallFails
      <4>3. QED
        BY <4>1, <4>2, ClosingFinite DEF Keys
    <3>2. CASE chatPc[h] # "sleep"
      <4>1. Closing' = Closing
        BY <2>4, <3>2, ClosingStays DEF ChatCallFails
      <4>2. QED
        BY <2>4, <4>1, ClosingFinite DEF ChatCallFails
    <3>3. QED
      BY <3>1, <3>2
  <2>5. CASE GameCrash
    BY <2>5, ClosingKept, ClosingFinite DEF GameCrash, GameDies
  <2>6. CASE ChatCrash
    <3>1. Closing' = {}
      BY <2>6 DEF ChatCrash, ChatDies, Closing
    <3>2. Cardinality(Closing') = 0
      BY <3>1, FS_EmptySet
    <3>3. QED
      BY <2>6, <3>2, ClosingFinite DEF ChatCrash, ChatDies, Keys
  <2>7. CASE ChatRoomTimeoutFails
    BY <2>7, ClosingKept, ClosingFinite DEF ChatRoomTimeoutFails, Keys
  <2>8. QED
    BY <1>10, <2>1, <2>2, <2>3, <2>4, <2>5, <2>6, <2>7 DEF Faults
<1>11. CASE UNCHANGED vars
  BY <1>11, ClosingKept, ClosingFinite DEF vars
<1>12. QED
  BY <1>1, <1>2, <1>3, <1>4, <1>5, <1>6, <1>7, <1>8, <1>9, <1>10, <1>11 DEF Next

-----------------------------------------------------------------------------
\* The invariant, and what it implies.

IInv ==
  /\ TypeOK
  /\ ChatMonitorInv
  /\ RoomTimeoutsInv
  /\ StartInv
  /\ ClosingInv
  /\ NotForgottenInv
  /\ WindowInv
  /\ ResultInv
  /\ EveryoneInv
  /\ WholeInv
  /\ FinalTimeoutsInv
  /\ PanicInv

\* The strengthened invariant holds at first.
LEMMA IInvInit == Init => IInv
<1> SUFFICES ASSUME Init PROVE IInv
  OBVIOUS
<1>1. TypeOK
  BY TypeInit
<1>2. ChatMonitorInv /\ RoomTimeoutsInv
  BY DEF Init, ChatMonitorInv, RoomTimeoutsInv, MayPublish
<1>3. StartInv /\ ClosingInv /\ NotForgottenInv
  BY DEF Init, StartInv, ClosingInv, NotForgottenInv, ChoiceNotForgotten, Keys
<1>4. WindowInv /\ ResultInv
  BY DEF Init, WindowInv, ResultInv, RecordedWasBroadcast
<1>5. EveryoneInv /\ WholeInv
  BY DEF Init, EveryoneInv, ResultNeedsEveryone, WholeInv, Whole, NoChoices, Gathering
<1>6. Listing = {} /\ Closing = {}
  BY DEF Init, Listing, ListingPcs, Closing
<1>7. FinalTimeoutsInv /\ PanicInv
  BY <1>6, FS_EmptySet DEF Init, FinalTimeoutsInv, PanicInv, MayClose, Keys
<1>8. QED
  BY <1>1, <1>2, <1>3, <1>4, <1>5, <1>7 DEF IInv

\* Every step keeps the strengthened invariant.
LEMMA IInvNext == IInv /\ [Next]_vars => IInv'
BY TypeNext, RoomTimeoutsNext, StartNext, ClosingNext, NotForgottenNext, WindowNext,
   ResultNext, EveryoneNext, WholeNext, FinalTimeoutsNext, PanicNext DEF IInv

\* Every reachable state satisfies the strengthened invariant.
THEOREM Invariance == Spec => []IInv
<1>1. Init => IInv  BY IInvInit
<1>2. IInv /\ [Next]_vars => IInv'  BY IInvNext
<1>3. QED BY <1>1, <1>2, PTL DEF Spec

\* Without a fault, a room in its chat hour is listed, its timeout queued, or its
\* choice phase being started.
THEOREM RoomIsNotForgotten == Spec => []RoomNotForgotten
<1>1. IInv => RoomNotForgotten
  BY DEF IInv, RoomNotForgotten, TypeOK, NotForgottenInv, Starting, MonitorPcs
<1>2. QED BY <1>1, Invariance, PTL

\* Without a fault, a room in its choice phase is listed, about to be, or timed out.
THEOREM ChoiceIsNotForgotten == Spec => []ChoiceNotForgotten
<1>1. IInv => ChoiceNotForgotten
  BY DEF IInv, ChoiceNotForgotten, NotForgottenInv
<1>2. QED BY <1>1, Invariance, PTL

\* No choice phase is timed out that was not started, whatever fails.
THEOREM ChoiceComesAfterStart == Spec => []ChoiceOnlyAfterStart
<1>1. IInv => ChoiceOnlyAfterStart
  BY DEF IInv, ChoiceOnlyAfterStart, StartInv
<1>2. QED BY <1>1, Invariance, PTL

\* One room timeout, and one more per fault or restart.
THEOREM RoomTimeoutsAreBounded == Spec => []RoomTimeoutsBounded
<1>1. IInv => RoomTimeoutsBounded
  BY DEF IInv, RoomTimeoutsBounded, TypeOK, RoomTimeoutsInv, MayPublish
<1>2. QED BY <1>1, Invariance, PTL

\* At most one choice timeout per start, fault or restart.
THEOREM FinalTimeoutsAreBounded == Spec => []FinalTimeoutsBounded
<1>1. IInv => FinalTimeoutsBounded
  BY ListingFinite DEF IInv, FinalTimeoutsBounded, TypeOK, FinalTimeoutsInv, MayClose
<1>2. QED BY <1>1, Invariance, PTL

\* Without a fault or a published room timeout, the choice window is kept.
THEOREM WindowIsCutOnlyByRoomTimeout == Spec => []WindowCutOnlyByRoomTimeout
<1>1. IInv => WindowCutOnlyByRoomTimeout
  BY DEF IInv, WindowCutOnlyByRoomTimeout, TypeOK, WindowInv
<1>2. QED BY <1>1, Invariance, PTL

\* A broadcast result is everybody's choice or empty.
THEOREM ResultIsAllOrNothing == Spec => []ResultAllOrNothing
<1>1. IInv => ResultAllOrNothing
  BY DEF IInv, ResultAllOrNothing, WholeInv, Whole, ChoseOnce
<1>2. QED BY <1>1, Invariance, PTL

\* No result before everybody has chosen.
THEOREM ResultComesAfterEveryone == Spec => []ResultNeedsEveryone
<1>1. IInv => ResultNeedsEveryone
  BY DEF IInv, ResultNeedsEveryone, EveryoneInv
<1>2. QED BY <1>1, Invariance, PTL

\* The record was broadcast.
THEOREM RecordIsBroadcast == Spec => []RecordedWasBroadcast
<1>1. IInv => RecordedWasBroadcast
  BY DEF IInv, RecordedWasBroadcast, ResultInv
<1>2. QED BY <1>1, Invariance, PTL

\* A missing document kills a process only after the room's end.
THEOREM PanicComesAfterEnd == Spec => []PanicOnlyAfterEnd
<1>1. IInv => PanicOnlyAfterEnd
  BY DEF IInv, PanicOnlyAfterEnd, ClosingInv, ResultInv, PanicInv
<1>2. QED BY <1>1, Invariance, PTL

\* The room implements the abstract round: each step is Start, Close, Show or Record,
\* or leaves the abstract state alone.
LEMMA RoundStep == IInv /\ [Next]_vars => [Round!Next]_(Round!vars)
<1> SUFFICES ASSUME IInv, [Next]_vars
             PROVE  [Round!Next]_(Round!vars)
  OBVIOUS
<1> USE DEF IInv, TypeOK, Phase, Round!Next, Round!vars, Round!Start, Round!Close,
      Round!Show, Round!Record, redisVars, mongoVars, queueVars, monVars, histVars,
      Goto, GotoChat
<1>1. CASE Tick
  BY <1>1 DEF Tick
<1>2. ASSUME NEW u \in Users, UserMessage(u) \/ UserCall(u) PROVE [Round!Next]_(Round!vars)
  BY <1>2 DEF UserMessage, UserCall, SendRoomTimeout, SendFinalChoice, CountTimeouts,
     CountChoices
<1>3. ASSUME NEW h \in GameHandlers, NEW key \in Keys, Deliver(h, key)
      PROVE  [Round!Next]_(Round!vars)
  BY <1>3 DEF Deliver, HandlerEntry, Keys
<1>4. ASSUME NEW g \in Goroutines, StartStep(g) PROVE [Round!Next]_(Round!vars)
  BY <1>4 DEF StartStep, StartReadStatus, StartAnnounce, StartClearChoices, StartSetStatus,
     StartSetTimer, StartListChoice, StartInv
<1>5. ASSUME NEW g \in Goroutines, ResultStep(g) PROVE [Round!Next]_(Round!vars)
  BY <1>5 DEF ResultStep, GatherChoices, SendResult, SaveResult, SaveResultPanic, GameDies,
     ClearResult, ResultInv, Goroutines
<1>6. CASE ChatMonitor
  BY <1>6 DEF ChatMonitor, ChatMonFindExpired, ChatMonPublish, Publish, Routed,
     GameBindings, ChatBindings, Keys, ChatMonDel, ChatMonSRem
<1>7. CASE ChoiceMonitor
  BY <1>7 DEF ChoiceMonitor, ChoiceMonFindExpired, ChoiceMonPublish, ChoiceMonDel,
     ChoiceMonSRem, StartInv
<1>8. CASE ChatRoomTimeout
  BY <1>8 DEF ChatRoomTimeout, Keys, SetMongoStatus
<1>9. ASSUME NEW h \in ChatHandlers, ChatHandler(h) PROVE [Round!Next]_(Round!vars)
  BY <1>9 DEF ChatHandler, ChatFinalTimeout, Keys, ChatComplete, ChatDel, ChatSRem,
     ChatEnd, Cleanup, CleanupPanic, ChatDies
<1>10. CASE Faults
  BY <1>10 DEF Faults, Fault, GameCallFails, ChatMonCallFails, ChoiceMonCallFails,
     ChatCallFails, ChatRoomTimeoutFails, GameCrash, GameDies, Keys, ChatCrash, ChatDies
<1>11. CASE UNCHANGED vars
  BY <1>11 DEF vars
<1>12. QED
  BY <1>1, <1>2, <1>3, <1>4, <1>5, <1>6, <1>7, <1>8, <1>9, <1>10, <1>11 DEF Next

\* Whatever fails or crashes, the detailed room implements ChoiceRound.
THEOREM Refinement == Spec => ImplementsRound
<1>1. Init => Round!Init
  BY DEF Init, Round!Init, Phase
<1>2. IInv /\ [Next]_vars => [Round!Next]_(Round!vars)
  BY RoundStep
<1>3. QED
  BY <1>1, <1>2, Invariance, PTL DEF Spec, ImplementsRound, Round!Spec

=============================================================================
