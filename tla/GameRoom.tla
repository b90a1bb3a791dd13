------------------------------ MODULE GameRoom ------------------------------
(***************************************************************************)
(* The life of ONE game room from the end of CreateRoom to the clean-up of *)
(* its data: the chat hour, the final-choice window and the two monitors   *)
(* of the game service, the users' goroutines that race with them, and the *)
(* chat service's consumers of the two timeout events.                     *)
(*                                                                         *)
(* Every variable is shared state of the running system (Redis keys, Mongo *)
(* documents, RabbitMQ queues), the position of a goroutine between two    *)
(* remote calls, or a history variable that only properties read.  Rooms   *)
(* share no key, so one room is the whole story; its id is left out.       *)
(***************************************************************************)
EXTENDS Naturals, FiniteSets

CONSTANTS
  Users,         \* the members of the room, Redis set room:{id}
  GameHandlers,  \* goroutines that the game service's MQ consumer may start
  ChatHandlers,  \* goroutines that the chat service's MQ consumer may start
  NoChoice,      \* a user without an entry in final_choice_room:{id}
  ActiveSets,    \* the sets of members that may be connected at a broadcast
  TimeoutSenders,\* the members whose clients send room_timeout
  MaxChoices,    \* bound: final_choice messages one user sends
  MaxFaults      \* bound: failed remote calls, crashes and lost publishes

ASSUME ConstantsAssumption ==
  /\ Users # {} /\ IsFiniteSet(Users)
  /\ IsFiniteSet(GameHandlers) /\ IsFiniteSet(ChatHandlers)
  /\ Users \cap GameHandlers = {}
  /\ NoChoice \notin Users
  /\ ActiveSets \subseteq SUBSET Users
  /\ TimeoutSenders \subseteq Users
  /\ MaxChoices \in Nat
  /\ MaxFaults \in Nat

VARIABLES
  clock,        \* 0: before FinishChatAt, 1: before FinishFinalChoiceAt, 2: after it
  status,       \* Redis room_status:{id}
  timer,        \* Redis key {id}, written by both the chat and the choice timer
  roomsList,    \* is the room in Redis set rooms:list
  roomsChoice,  \* is the room in Redis set rooms:choice
  chatTimeout,  \* Redis set chat_timeout:{id}
  choices,      \* Redis hash final_choice_room:{id}
  finalMatch,   \* Mongo match_histories.final_match
  mongoStatus,  \* Mongo rooms.status
  roomDoc,      \* is the room's document still in Mongo
  gameQ,        \* undelivered messages of game_queue, by routing key
  chatQ,        \* undelivered messages of chat_queue, by routing key
  pc,           \* position of each goroutine of the game service
  got,          \* what a goroutine's HGETALL returned
  chatMon,      \* position of MonitorChatTimeouts
  choiceMon,    \* position of MonitorFinalChoiceTimeouts
  chatPc,       \* position of each goroutine of the chat service
  notified,     \* history: users that were sent final_choice_start
  sent,         \* history: final_choice messages sent by each user
  starts,       \* history: final_choice_start broadcasts
  roomTimeouts, \* history: RoomTimeoutEvents published
  finalTimeouts,\* history: FinalChoiceTimeoutEvents published
  results,      \* history: final_choice_result payloads broadcast
  skipped,      \* history: a clean-up found a status other than GameEnd
  chatPanics,   \* history: chat processes lost to a missing room document
  gamePanics,   \* history: game processes lost to a missing room document
  faults        \* history: faults so far

redisVars == <<status, timer, roomsList, roomsChoice, chatTimeout, choices>>
mongoVars == <<finalMatch, mongoStatus, roomDoc>>
queueVars == <<gameQ, chatQ>>
monVars   == <<chatMon, choiceMon>>
histVars  == <<notified, sent, starts, roomTimeouts, finalTimeouts, results, skipped,
              chatPanics, gamePanics>>

vars == <<clock, redisVars, mongoVars, queueVars, pc, got, monVars, chatPc,
          histVars, faults>>

-----------------------------------------------------------------------------
Goroutines == Users \cup GameHandlers

Choices == [Users -> Users \cup {NoChoice}]

NoChoices == [u \in Users |-> NoChoice]

\* HLEN final_choice_room:{id} = len(SMEMBERS room:{id}); only members choose.
IsAllChoicesCompleted(c) == \A u \in Users : c[u] # NoChoice

\* Routing keys of the two timeout events.
Keys == {"room.timeout", "final_choice_timeout"}

\* Mutant: the game service binds the other of its two timeout handlers.
GameBindsFinalTimeout == {"final_choice_timeout"}

\* The routing keys of Keys that each service binds its queue to.
GameBindings == {"room.timeout"}
ChatBindings == {"room.timeout", "final_choice_timeout"}

Routed(q, bindings, key) == IF key \in bindings THEN [q EXCEPT ![key] = @ + 1] ELSE q

\* The topic exchange copies a message into every queue bound to its key.
Publish(key) ==
  /\ gameQ' = Routed(gameQ, GameBindings, key)
  /\ chatQ' = Routed(chatQ, ChatBindings, key)

\* Mutant: a key without an expiry (TTL -1) counts as running.
ExpiredIfGone == timer = "none"

\* TTL {id} <= 0: the key is gone, or it was SET with a duration that had
\* already run out, which go-redis stores without an expiry (TTL is -1).
Expired == timer \in {"none", "noExpiry"}

\* The handler that the consumer's map names for a routing key.
HandlerEntry(key) == IF key = "room.timeout" THEN "readStatus" ELSE "gather"

GamePcs ==
  {"idle",
   "countTimeouts",                                  \* ProcessRoomTimeoutMessage
   "readStatus", "announce", "clearOld", "setStatus", "setTimer", "listChoice",
                                                     \* BroadCastFinalChoiceStart
   "countChoices",                                   \* ProcessFinalChoice
   "gather", "sendResult", "saveResult", "clearResult"} \* BroadcastFinalChoices

MonitorPcs == {"idle", "publish", "del", "srem"}

ChatPcs == {"idle", "complete", "del", "srem", "end", "sleep"}

TypeOK ==
  /\ clock \in 0..2
  /\ status \in {"GameIng", "ChoiceIng"}
  /\ timer \in {"none", "noExpiry", "chat", "choice"}
  /\ roomsList \in BOOLEAN
  /\ roomsChoice \in BOOLEAN
  /\ chatTimeout \in SUBSET Users
  /\ choices \in Choices
  /\ finalMatch \in Choices
  /\ mongoStatus \in {"GameStart", "ChoiceIng", "ChoiceComplete", "GameEnd"}
  /\ roomDoc \in BOOLEAN
  /\ gameQ \in [Keys -> Nat]
  /\ chatQ \in [Keys -> Nat]
  /\ pc \in [Goroutines -> GamePcs]
  /\ got \in [Goroutines -> Choices]
  /\ chatMon \in MonitorPcs
  /\ choiceMon \in MonitorPcs
  /\ chatPc \in [ChatHandlers -> ChatPcs]
  /\ notified \in SUBSET Users
  /\ sent \in [Users -> Nat]
  /\ starts \in Nat
  /\ roomTimeouts \in Nat
  /\ finalTimeouts \in Nat
  /\ results \in SUBSET Choices
  /\ skipped \in BOOLEAN
  /\ chatPanics \in Nat
  /\ gamePanics \in Nat
  /\ faults \in Nat

\* CreateRoom has inserted the room in Mongo, added its members and its status
\* to Redis, set the timer of FinishChatAt and published room.create.
Init ==
  /\ clock = 0
  /\ status = "GameIng"
  /\ timer = "chat"
  /\ roomsList = TRUE
  /\ roomsChoice = FALSE
  /\ chatTimeout = {}
  /\ choices = NoChoices
  /\ finalMatch = NoChoices
  /\ mongoStatus = "GameStart"
  /\ roomDoc = TRUE
  /\ gameQ = [k \in Keys |-> 0]
  /\ chatQ = [k \in Keys |-> 0]
  /\ pc = [g \in Goroutines |-> "idle"]
  /\ got = [g \in Goroutines |-> NoChoices]
  /\ chatMon = "idle"
  /\ choiceMon = "idle"
  /\ chatPc = [h \in ChatHandlers |-> "idle"]
  /\ notified = {}
  /\ sent = [u \in Users |-> 0]
  /\ starts = 0
  /\ roomTimeouts = 0
  /\ finalTimeouts = 0
  /\ results = {}
  /\ skipped = FALSE
  /\ chatPanics = 0
  /\ gamePanics = 0
  /\ faults = 0

-----------------------------------------------------------------------------
\* Time.  FinishChatAt and FinishFinalChoiceAt are fixed when the room is
\* created, so passing one of them is what makes a key set for it expire.

Tick ==
  /\ clock < 2
  /\ clock' = clock + 1
  /\ timer' = IF timer = (IF clock = 0 THEN "chat" ELSE "choice") THEN "none" ELSE timer
  /\ UNCHANGED <<status, roomsList, roomsChoice, chatTimeout, choices, mongoVars,
                 queueVars, pc, got, monVars, chatPc, histVars, faults>>

-----------------------------------------------------------------------------
\* Steps of a goroutine g of the game service.

Goto(g, from, to) ==
  /\ pc[g] = from
  /\ pc' = [pc EXCEPT ![g] = to]

\* A user's room_timeout message: SADD chat_timeout.
SendRoomTimeout(u) ==
  /\ Goto(u, "idle", "countTimeouts")
  /\ chatTimeout' = chatTimeout \cup {u}
  /\ UNCHANGED <<clock, status, timer, roomsList, roomsChoice, choices, mongoVars,
                 queueVars, got, monVars, chatPc, histVars, faults>>

\* SCARD chat_timeout against the number of members.
CountTimeouts(u) ==
  /\ Goto(u, "countTimeouts", IF chatTimeout = Users THEN "readStatus" ELSE "idle")
  /\ UNCHANGED <<clock, redisVars, mongoVars, queueVars, got, monVars, chatPc,
                 histVars, faults>>

\* ConsumeMessages takes a message off game_queue and starts its handler.
Deliver(h, key) ==
  /\ gameQ[key] > 0
  /\ Goto(h, "idle", HandlerEntry(key))
  /\ gameQ' = [gameQ EXCEPT ![key] = @ - 1]
  /\ UNCHANGED <<clock, redisVars, mongoVars, chatQ, got, monVars, chatPc,
                 histVars, faults>>

\* BroadCastFinalChoiceStart, one remote call at a time.

StartReadStatus(g) ==
  /\ Goto(g, "readStatus", IF status = "GameIng" THEN "announce" ELSE "idle")
  /\ UNCHANGED <<clock, redisVars, mongoVars, queueVars, got, monVars, chatPc,
                 histVars, faults>>


\* SendMessageToRoom reaches the members that are connected at this moment.
StartAnnounce(g) ==
  /\ Goto(g, "announce", "clearOld")
  /\ \E active \in ActiveSets : notified' = notified \cup active
  /\ starts' = starts + 1
  /\ UNCHANGED <<clock, redisVars, mongoVars, queueVars, got, monVars, chatPc, sent,
                 roomTimeouts, finalTimeouts, results, skipped, chatPanics, gamePanics,
                 faults>>

StartClearChoices(g) ==
  /\ Goto(g, "clearOld", "setStatus")
  /\ choices' = NoChoices
  /\ UNCHANGED <<clock, status, timer, roomsList, roomsChoice, chatTimeout, mongoVars,
                 queueVars, got, monVars, chatPc, histVars, faults>>

StartSetStatus(g) ==
  /\ Goto(g, "setStatus", "setTimer")
  /\ status' = "ChoiceIng"
  /\ UNCHANGED <<clock, timer, roomsList, roomsChoice, chatTimeout, choices, mongoVars,
                 queueVars, got, monVars, chatPc, histVars, faults>>

\* Mutant: the choice timer runs to FinishChatAt.
StartSetChatTimer(g) ==
  /\ Goto(g, "setTimer", "listChoice")
  /\ timer' = IF clock < 1 THEN "chat" ELSE "noExpiry"
  /\ UNCHANGED <<clock, status, roomsList, roomsChoice, chatTimeout, choices, mongoVars,
                 queueVars, got, monVars, chatPc, histVars, faults>>

\* SetFinalChoiceTimeout(time.Until(FinishFinalChoiceAt)), its SET ...
StartSetTimer(g) ==
  /\ Goto(g, "setTimer", "listChoice")
  /\ timer' = IF clock < 2 THEN "choice" ELSE "noExpiry"
  /\ UNCHANGED <<clock, status, roomsList, roomsChoice, chatTimeout, choices, mongoVars,
                 queueVars, got, monVars, chatPc, histVars, faults>>

\* Mutant: a room whose choice timer is already gone is not listed.
StartListIfTimed(g) ==
  /\ Goto(g, "listChoice", "idle")
  /\ roomsChoice' = (roomsChoice \/ timer = "choice")
  /\ UNCHANGED <<clock, status, timer, roomsList, chatTimeout, choices, mongoVars,
                 queueVars, got, monVars, chatPc, histVars, faults>>

\* ... and its SADD rooms:choice.
StartListChoice(g) ==
  /\ Goto(g, "listChoice", "idle")
  /\ roomsChoice' = TRUE
  /\ UNCHANGED <<clock, status, timer, roomsList, chatTimeout, choices, mongoVars,
                 queueVars, got, monVars, chatPc, histVars, faults>>

\* A user's final_choice message: HSET final_choice_room.  The server checks
\* neither the status nor the time; a client answers a final_choice_start.
SendFinalChoice(u, v) ==
  /\ u \in notified
  /\ sent[u] < MaxChoices
  /\ Goto(u, "idle", "countChoices")
  /\ choices' = [choices EXCEPT ![u] = v]
  /\ sent' = [sent EXCEPT ![u] = @ + 1]
  /\ UNCHANGED <<clock, status, timer, roomsList, roomsChoice, chatTimeout, mongoVars,
                 queueVars, got, monVars, chatPc, notified, starts, roomTimeouts,
                 finalTimeouts, results, skipped, chatPanics, gamePanics,
                 faults>>

\* Mutant: any choice counts as all of them.
CountAnyChoice(u) ==
  /\ Goto(u, "countChoices", IF choices # NoChoices THEN "gather" ELSE "idle")
  /\ UNCHANGED <<clock, redisVars, mongoVars, queueVars, got, monVars, chatPc,
                 histVars, faults>>

CountChoices(u) ==
  /\ Goto(u, "countChoices", IF IsAllChoicesCompleted(choices) THEN "gather" ELSE "idle")
  /\ UNCHANGED <<clock, redisVars, mongoVars, queueVars, got, monVars, chatPc,
                 histVars, faults>>

\* BroadcastFinalChoices: HGETALL, send, record, DEL.

\* Mutant: the record is written without the broadcast.
GatherSilently(g) ==
  /\ Goto(g, "gather", "saveResult")
  /\ got' = [got EXCEPT ![g] = choices]
  /\ UNCHANGED <<clock, redisVars, mongoVars, queueVars, monVars, chatPc, histVars, faults>>

GatherChoices(g) ==
  /\ Goto(g, "gather", "sendResult")
  /\ got' = [got EXCEPT ![g] = choices]
  /\ UNCHANGED <<clock, redisVars, mongoVars, queueVars, monVars, chatPc, histVars, faults>>

SendResult(g) ==
  /\ Goto(g, "sendResult", "saveResult")
  /\ results' = results \cup {got[g]}
  /\ UNCHANGED <<clock, redisVars, mongoVars, queueVars, got, monVars, chatPc, notified,
                 sent, starts, roomTimeouts, finalTimeouts, skipped, chatPanics, gamePanics,
                 faults>>

\* GetRoomByID for the room's sequence number, then the update.
SaveResult(g) ==
  /\ roomDoc
  /\ Goto(g, "saveResult", "clearResult")
  /\ finalMatch' = got[g]
  /\ UNCHANGED <<clock, redisVars, mongoStatus, roomDoc, queueVars, got, monVars, chatPc,
                 histVars, faults>>

\* The game process dies with all its goroutines.  The queue survives, but with
\* autoAck what was already pushed to the consumer is gone.
GameDies ==
  /\ pc' = [g \in Goroutines |-> "idle"]
  /\ got' = [g \in Goroutines |-> NoChoices]
  /\ chatMon' = "idle"
  /\ choiceMon' = "idle"
  /\ gameQ' \in {gameQ, [k \in Keys |-> 0]}

\* GetRoomByID of a deleted room returns nil without an error, and
\* chatRoom.Seq is a nil dereference in a goroutine that nobody recovers.
SaveResultPanic(g) ==
  /\ ~roomDoc
  /\ pc[g] = "saveResult"
  /\ GameDies
  /\ gamePanics' = gamePanics + 1
  /\ UNCHANGED <<clock, redisVars, mongoVars, chatQ, chatPc, notified, sent, starts,
                 roomTimeouts, finalTimeouts, results, skipped, chatPanics, faults>>

\* Mutant: a goroutine deletes its own user's field, not the hash.
ClearOwnChoice(g) ==
  /\ Goto(g, "clearResult", "idle")
  /\ choices' = [u \in Users |-> IF u = g THEN NoChoice ELSE choices[u]]
  /\ got' = [got EXCEPT ![g] = NoChoices]
  /\ UNCHANGED <<clock, status, timer, roomsList, roomsChoice, chatTimeout, mongoVars,
                 queueVars, monVars, chatPc, histVars, faults>>

\* ClearFinalChoiceRoom, and the goroutine is done.
ClearResult(g) ==
  /\ Goto(g, "clearResult", "idle")
  /\ choices' = NoChoices
  /\ got' = [got EXCEPT ![g] = NoChoices]
  /\ UNCHANGED <<clock, status, timer, roomsList, roomsChoice, chatTimeout, mongoVars,
                 queueVars, monVars, chatPc, histVars, faults>>

-----------------------------------------------------------------------------
\* MonitorChatTimeouts, one pass over this room.

ChatMonFindExpired ==
  /\ chatMon = "idle"
  /\ roomsList
  /\ Expired
  /\ chatMon' = "publish"
  /\ UNCHANGED <<clock, redisVars, mongoVars, queueVars, pc, got, choiceMon, chatPc,
                 histVars, faults>>

ChatMonPublish ==
  /\ chatMon = "publish"
  /\ chatMon' = "del"
  /\ Publish("room.timeout")
  /\ roomTimeouts' = roomTimeouts + 1
  /\ UNCHANGED <<clock, redisVars, mongoVars, pc, got, choiceMon, chatPc, notified, sent,
                 starts, finalTimeouts, results, skipped, chatPanics, gamePanics,
                 faults>>

\* RemoveRoomFromRedis: DEL {id}, the key that the choice timer uses too ...
ChatMonDel ==
  /\ chatMon = "del"
  /\ chatMon' = "srem"
  /\ timer' = "none"
  /\ UNCHANGED <<clock, status, roomsList, roomsChoice, chatTimeout, choices, mongoVars,
                 queueVars, pc, got, choiceMon, chatPc, histVars, faults>>

\* ... then SREM rooms:list.
ChatMonSRem ==
  /\ chatMon = "srem"
  /\ chatMon' = "idle"
  /\ roomsList' = FALSE
  /\ UNCHANGED <<clock, status, timer, roomsChoice, chatTimeout, choices, mongoVars,
                 queueVars, pc, got, choiceMon, chatPc, histVars, faults>>

\* MonitorFinalChoiceTimeouts, one pass over this room.

\* Mutant: the monitor walks rooms:list.
ChoiceMonFindListed ==
  /\ choiceMon = "idle"
  /\ roomsList
  /\ Expired
  /\ choiceMon' = "publish"
  /\ UNCHANGED <<clock, redisVars, mongoVars, queueVars, pc, got, chatMon, chatPc,
                 histVars, faults>>

ChoiceMonFindExpired ==
  /\ choiceMon = "idle"
  /\ roomsChoice
  /\ Expired
  /\ choiceMon' = "publish"
  /\ UNCHANGED <<clock, redisVars, mongoVars, queueVars, pc, got, chatMon, chatPc,
                 histVars, faults>>

ChoiceMonPublish ==
  /\ choiceMon = "publish"
  /\ choiceMon' = "del"
  /\ Publish("final_choice_timeout")
  /\ finalTimeouts' = finalTimeouts + 1
  /\ UNCHANGED <<clock, redisVars, mongoVars, pc, got, chatMon, chatPc, notified, sent,
                 starts, roomTimeouts, results, skipped, chatPanics, gamePanics,
                 faults>>

ChoiceMonDel ==
  /\ choiceMon = "del"
  /\ choiceMon' = "srem"
  /\ timer' = "none"
  /\ UNCHANGED <<clock, status, roomsList, roomsChoice, chatTimeout, choices, mongoVars,
                 queueVars, pc, got, chatMon, chatPc, histVars, faults>>

\* Mutant: the room stays in rooms:choice.
ChoiceMonKeepListed ==
  /\ choiceMon = "srem"
  /\ choiceMon' = "idle"
  /\ UNCHANGED <<clock, redisVars, mongoVars, queueVars, pc, got, chatMon, chatPc,
                 histVars, faults>>

ChoiceMonSRem ==
  /\ choiceMon = "srem"
  /\ choiceMon' = "idle"
  /\ roomsChoice' = FALSE
  /\ UNCHANGED <<clock, status, timer, roomsList, chatTimeout, choices, mongoVars,
                 queueVars, pc, got, chatMon, chatPc, histVars, faults>>

-----------------------------------------------------------------------------
\* The chat service.

\* UpdateChatRoomStatus: no document, no effect.
SetMongoStatus(s) == mongoStatus' = IF roomDoc THEN s ELSE mongoStatus

\* HandleRoomTimeout is a single update, so delivering it and running it are one step.
ChatRoomTimeout ==
  /\ chatQ["room.timeout"] > 0
  /\ chatQ' = [chatQ EXCEPT !["room.timeout"] = @ - 1]
  /\ SetMongoStatus("ChoiceIng")
  /\ UNCHANGED <<clock, redisVars, finalMatch, roomDoc, gameQ, pc, got, monVars, chatPc,
                 histVars, faults>>

GotoChat(h, from, to) ==
  /\ chatPc[h] = from
  /\ chatPc' = [chatPc EXCEPT ![h] = to]

\* Mutant: the message stays queued, to be delivered again.
ChatFinalTimeoutUnacked(h) ==
  /\ chatQ["final_choice_timeout"] > 0
  /\ GotoChat(h, "idle", "complete")
  /\ UNCHANGED <<clock, redisVars, mongoVars, queueVars, pc, got, monVars, histVars,
                 faults>>

\* HandleFinalChoiceTimeout.
ChatFinalTimeout(h) ==
  /\ chatQ["final_choice_timeout"] > 0
  /\ GotoChat(h, "idle", "complete")
  /\ chatQ' = [chatQ EXCEPT !["final_choice_timeout"] = @ - 1]
  /\ UNCHANGED <<clock, redisVars, mongoVars, gameQ, pc, got, monVars, histVars, faults>>

ChatComplete(h) ==
  /\ GotoChat(h, "complete", "del")
  /\ SetMongoStatus("ChoiceComplete")
  /\ UNCHANGED <<clock, redisVars, finalMatch, roomDoc, queueVars, pc, got, monVars,
                 histVars, faults>>

ChatDel(h) ==
  /\ GotoChat(h, "del", "srem")
  /\ timer' = "none"
  /\ UNCHANGED <<clock, status, roomsList, roomsChoice, chatTimeout, choices, mongoVars,
                 queueVars, pc, got, monVars, histVars, faults>>

ChatSRem(h) ==
  /\ GotoChat(h, "srem", "end")
  /\ roomsChoice' = FALSE
  /\ UNCHANGED <<clock, status, timer, roomsList, chatTimeout, choices, mongoVars,
                 queueVars, pc, got, monVars, histVars, faults>>

\* Mutant: nobody waits for the clean-up.
ChatEndForgetsCleanup(h) ==
  /\ GotoChat(h, "end", "idle")
  /\ SetMongoStatus("GameEnd")
  /\ UNCHANGED <<clock, redisVars, finalMatch, roomDoc, queueVars, pc, got, monVars,
                 histVars, faults>>

ChatEnd(h) ==
  /\ GotoChat(h, "end", "sleep")
  /\ SetMongoStatus("GameEnd")
  /\ UNCHANGED <<clock, redisVars, finalMatch, roomDoc, queueVars, pc, got, monVars,
                 histVars, faults>>

\* cleanupRoomData, RemoveRoomDataTimer (ten minutes) later.
Cleanup(h) ==
  /\ roomDoc
  /\ GotoChat(h, "sleep", "idle")
  /\ roomDoc' = (mongoStatus # "GameEnd")
  /\ skipped' = (skipped \/ mongoStatus # "GameEnd")
  /\ UNCHANGED <<clock, redisVars, finalMatch, mongoStatus, queueVars, pc, got, monVars,
                 notified, sent, starts, roomTimeouts, finalTimeouts, results,
                 chatPanics, gamePanics, faults>>

\* The chat process dies; with autoAck what was already pushed to it is gone too.
ChatDies ==
  /\ chatPc' = [h \in ChatHandlers |-> "idle"]
  /\ chatQ' \in {chatQ, [k \in Keys |-> 0]}

\* GetChatRoomByID of a deleted room returns nil without an error, and
\* room.Status is a nil dereference in a goroutine that nobody recovers.
CleanupPanic(h) ==
  /\ chatPc[h] = "sleep"
  /\ ~roomDoc
  /\ ChatDies
  /\ chatPanics' = chatPanics + 1
  /\ UNCHANGED <<clock, redisVars, mongoVars, gameQ, pc, got, monVars, notified, sent,
                 starts, roomTimeouts, finalTimeouts, results, skipped, gamePanics, faults>>

-----------------------------------------------------------------------------
\* Faults.

Fault == faults < MaxFaults /\ faults' = faults + 1

\* A remote call returns an error: the function returns, except that a failed
\* ClearFinalChoiceRoom at the start is only logged.
GameCallFails(g) ==
  /\ Fault
  /\ pc[g] # "idle"
  /\ pc' = [pc EXCEPT ![g] = IF @ = "clearOld" THEN "setStatus" ELSE "idle"]
  /\ got' = [got EXCEPT ![g] = NoChoices]
  /\ UNCHANGED <<clock, redisVars, mongoVars, queueVars, monVars, chatPc, histVars>>

\* A failed read leaves the room for the next tick; a failed publish is logged
\* and the room is removed all the same; a failed removal keeps it listed.
ChatMonCallFails ==
  /\ Fault
  /\ chatMon # "idle"
  /\ chatMon' \in (IF chatMon = "publish" THEN {"idle", "del"} ELSE {"idle"})
  /\ UNCHANGED <<clock, redisVars, mongoVars, queueVars, pc, got, choiceMon, chatPc,
                 histVars>>

ChoiceMonCallFails ==
  /\ Fault
  /\ choiceMon # "idle"
  /\ choiceMon' \in (IF choiceMon = "publish" THEN {"idle", "del"} ELSE {"idle"})
  /\ UNCHANGED <<clock, redisVars, mongoVars, queueVars, pc, got, chatMon, chatPc,
                 histVars>>

\* HandleFinalChoiceTimeout logs an error and goes on with its next call.
ChatCallFails(h) ==
  /\ Fault
  /\ \/ GotoChat(h, "complete", "del")
     \/ GotoChat(h, "del", "end")
     \/ GotoChat(h, "srem", "end")
     \/ GotoChat(h, "end", "sleep")
     \/ GotoChat(h, "sleep", "idle")
  /\ UNCHANGED <<clock, redisVars, mongoVars, queueVars, pc, got, monVars, histVars>>

\* HandleRoomTimeout only logs a failed update, and with autoAck the message is gone.
ChatRoomTimeoutFails ==
  /\ Fault
  /\ chatQ["room.timeout"] > 0
  /\ chatQ' = [chatQ EXCEPT !["room.timeout"] = @ - 1]
  /\ UNCHANGED <<clock, redisVars, mongoVars, gameQ, pc, got, monVars, chatPc, histVars>>

GameCrash ==
  /\ Fault
  /\ GameDies
  /\ UNCHANGED <<clock, redisVars, mongoVars, chatQ, chatPc, histVars>>

ChatCrash ==
  /\ Fault
  /\ ChatDies
  /\ UNCHANGED <<clock, redisVars, mongoVars, gameQ, pc, got, monVars, histVars>>

-----------------------------------------------------------------------------
StartStep(g) ==
  \/ StartReadStatus(g)
  \/ StartAnnounce(g)
  \/ StartClearChoices(g)
  \/ StartSetStatus(g)
  \/ StartSetTimer(g)
  \/ StartListChoice(g)

ResultStep(g) ==
  \/ GatherChoices(g)
  \/ SendResult(g)
  \/ SaveResult(g)
  \/ SaveResultPanic(g)
  \/ ClearResult(g)

UserCall(u) == CountTimeouts(u) \/ CountChoices(u)

UserMessage(u) ==
  \/ u \in TimeoutSenders /\ SendRoomTimeout(u)
  \/ \E v \in Users \ {u} : SendFinalChoice(u, v)

ChatMonitor == ChatMonFindExpired \/ ChatMonPublish \/ ChatMonDel \/ ChatMonSRem

ChoiceMonitor == ChoiceMonFindExpired \/ ChoiceMonPublish \/ ChoiceMonDel \/ ChoiceMonSRem

ChatHandler(h) ==
  \/ ChatFinalTimeout(h)
  \/ ChatComplete(h)
  \/ ChatDel(h)
  \/ ChatSRem(h)
  \/ ChatEnd(h)
  \/ Cleanup(h)
  \/ CleanupPanic(h)

Faults ==
  \/ \E g \in Goroutines : GameCallFails(g)
  \/ ChatMonCallFails
  \/ ChoiceMonCallFails
  \/ \E h \in ChatHandlers : ChatCallFails(h)
  \/ ChatRoomTimeoutFails
  \/ GameCrash
  \/ ChatCrash

Next ==
  \/ Tick
  \/ \E u \in Users : UserMessage(u) \/ UserCall(u)
  \/ \E h \in GameHandlers, key \in Keys : Deliver(h, key)
  \/ \E g \in Goroutines : StartStep(g) \/ ResultStep(g)
  \/ ChatMonitor
  \/ ChoiceMonitor
  \/ ChatRoomTimeout
  \/ \E h \in ChatHandlers : ChatHandler(h)
  \/ Faults

Spec == Init /\ [][Next]_vars

\* Time passes, goroutines are scheduled, tickers tick and RabbitMQ delivers;
\* nothing obliges a user to send anything.
Fairness ==
  /\ WF_vars(Tick)
  /\ \A u \in Users : WF_vars(UserCall(u))
  /\ \A g \in Goroutines : WF_vars(StartStep(g) \/ ResultStep(g))
  /\ WF_vars(\E h \in GameHandlers, key \in Keys : Deliver(h, key))
  /\ WF_vars(ChatMonitor)
  /\ WF_vars(ChoiceMonitor)
  /\ WF_vars(ChatRoomTimeout)
  /\ \A h \in ChatHandlers : WF_vars(ChatHandler(h))

FairSpec == Spec /\ Fairness

-----------------------------------------------------------------------------
\* Safety.

\* While no fault has occurred, a room in its chat hour is always somebody's
\* responsibility: the chat monitor still lists it, its timeout event is queued,
\* or a goroutine is on its way to moving it to the choice phase.
RoomNotForgotten ==
  status = "GameIng" /\ faults = 0 =>
    \/ roomsList
    \/ gameQ["room.timeout"] > 0
    \/ \E g \in Goroutines : pc[g] \in {"readStatus", "announce", "clearOld", "setStatus"}

\* The same for a room in its choice phase: it is listed for the choice monitor,
\* about to be, or its timeout has been published.
ChoiceNotForgotten ==
  status = "ChoiceIng" /\ faults = 0 =>
    \/ roomsChoice
    \/ finalTimeouts > 0
    \/ \E g \in Goroutines : pc[g] \in {"setTimer", "listChoice"}

\* The choice phase of a room is never timed out before a final_choice_start was
\* broadcast and the room's status moved, whatever fails or crashes.
ChoiceOnlyAfterStart ==
  roomsChoice \/ finalTimeouts > 0 => status = "ChoiceIng" /\ starts > 0

\* A room's timeout is published once, and once more for each fault or restart of
\* the game service at most.
RoomTimeoutsBounded == roomTimeouts <= 1 + faults + gamePanics

\* Every FinalChoiceTimeoutEvent is paid for by a broadcast start, a fault or a restart.
FinalTimeoutsBounded == finalTimeouts <= starts + faults + gamePanics

\* Without a fault the choice window is cut short only in the shadow of a
\* published room timeout, whose removal of the room deletes the shared key.
WindowCutOnlyByRoomTimeout ==
  finalTimeouts > 0 /\ clock < 2 => roomTimeouts + faults > 0

\* When each user chooses at most once, a broadcast result is either everybody's
\* choice or empty, never a part: concurrent clean-ups only delete the whole hash.
ResultAllOrNothing ==
  (\A u \in Users : sent[u] <= 1) =>
    \A r \in results : r = NoChoices \/ IsAllChoicesCompleted(r)

\* No result goes out, and none is recorded, before every user has chosen.
ResultNeedsEveryone ==
  results # {} => \A u \in Users : sent[u] > 0

\* What the match history records was broadcast to the room.
RecordedWasBroadcast == finalMatch = NoChoices \/ finalMatch \in results

\* A missing room document kills a process only after the room's choice phase was
\* timed out: the game service on a late last choice, the chat service on the
\* clean-up of a second timeout.
PanicOnlyAfterEnd ==
  /\ gamePanics > 0 => finalTimeouts > 0 /\ results # {}
  /\ chatPanics > 0 => finalTimeouts > 1

-----------------------------------------------------------------------------
\* What the code promises and does not do.

\* consumer_handler.go:152 (game): a final-choice timeout broadcasts the choices.
TimeoutYieldsResult == finalTimeouts > 0 ~> results # {}

-----------------------------------------------------------------------------
\* Liveness.

\* Every room's choice phase is eventually timed out, by the fair scheduling of
\* monitors and handlers alone: no user need ever send a message.
RoomCloses == <>(finalTimeouts > 0)

\* A published final-choice timeout eventually has the room's data deleted, or
\* its clean-up find that another event has moved the room's status back.
TimeoutLeadsToCleanup == finalTimeouts > 0 ~> ~roomDoc \/ skipped


-----------------------------------------------------------------------------
\* Refinement: the room implements the abstract round of ChoiceRound.

Phase ==
  IF finalTimeouts > 0 THEN "closed"
  ELSE IF status = "ChoiceIng" THEN "choosing" ELSE "chat"

Round == INSTANCE ChoiceRound WITH
  Outcomes <- Choices,
  Undecided <- NoChoices,
  phase <- Phase,
  shown <- results,
  recorded <- finalMatch

\* Whatever fails or crashes, the room goes through the phases of ChoiceRound in
\* order and records only what it has broadcast.
ImplementsRound == Round!Spec

=============================================================================
