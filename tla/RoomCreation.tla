----------------------------- MODULE RoomCreation -----------------------------
(***************************************************************************)
(* What a match sets in motion.  The chat service makes the room: its Mongo *)
(* document and six Redis keys, one remote call after the other, and then  *)
(* its record in match_histories.  Meanwhile the user service marks the    *)
(* members as playing in it, and when the room has ended as standing by.   *)
(*                                                                         *)
(* Every event has a goroutine of its own, acknowledged before it starts:  *)
(* events of different rooms, and the first and last event of one room,    *)
(* are handled together and in any order.  A user may be matched again     *)
(* while his room is still open, for nothing in the services forbids it.   *)
(* GameRoom has the details of a room's end: here the start of the final   *)
(* choice is one step, its timer is left out, and the event of its end is  *)
(* one more, with what may be left undone of each.                         *)
(***************************************************************************)
EXTENDS Naturals, FiniteSets

CONSTANTS
  Rooms,      \* the ids of the matches
  Users,
  Groups,     \* the sets of users that may be matched
  NoRoom,     \* the empty GameRoomID
  MaxInputs,  \* bound: what clients write back, and the choices that they start
  MaxFaults   \* bound: failed calls and crashes

ASSUME ConstantsAssumption ==
  /\ NoRoom \notin Rooms
  /\ Groups \subseteq SUBSET Users /\ {} \notin Groups
  /\ MaxInputs \in Nat /\ MaxFaults \in Nat

VARIABLES
  members,   \* MatchedUsers of each match, {} before it
  queue,     \* events not yet delivered: <<service, event, room>>
  pc,        \* what CreateRoom is about to make of a room, or "none"
  room_counter, \* Mongo room_counter.seq
  RoomSeq,   \* the Seq of each room
  keys,      \* what there is of each room in Mongo and Redis
  choosing,  \* rooms:choice
  histories, \* match_histories: whose it is, RoomSeq, and whose FinalMatch it has
  todo,      \* for each event, the users whose rows its handler has yet to update
  row,       \* GameStatus and GameRoomID in the table users
  profile,   \* the same as each user's client has last read it
  joined,    \* history: the users marked as playing in each room
  released,  \* history: the users marked as standing by at its end
  late,      \* history: <<user, room>> marked as playing after its end
  missed,    \* history: <<user, room>> whose update was lost
  stale,     \* history: <<user, room>> written from a profile out of date
  expired,   \* history: rooms whose FinishChatAt has passed
  over,      \* history: rooms whose end was published
  lost,      \* history: rooms that a fault has stopped, and nothing has helped on
  inputs,    \* history: rows changed by clients and choices started by them so far
  faults     \* history: faults so far

roomVars    == <<pc, room_counter, RoomSeq, keys, choosing, histories>>
userVars    == <<todo, row, profile, joined, released, late, missed, stale, inputs>>

endVars     == <<expired, over, lost>>

vars == <<members, queue, roomVars, userVars, endVars, faults>>

-----------------------------------------------------------------------------
\* What CreateRoom makes, in its order: the document, room:{id}, room_status:{id},
\* {id}, rooms:list, balance_game_timer:{id} with rooms:balance_game.
Pieces == {"doc", "members", "status", "timer", "list", "formTimer"}

\* What the end of the game leaves in Redis besides: chat_timeout:{id} with all of the
\* members, and room_status:{id} no longer GAME_ING but CHOICE_ING.
Marks == {"timeouts", "choice"}

\* The events that the user service handles.
Kinds == {"match", "final_choice_timeout"}

STANDBY == [status |-> "STANDBY", room |-> NoRoom]

Playing(r) == [status |-> "GAME_ING", room |-> r]

\* The fields that a row or a profile may have.
GameInfo == [status : {"STANDBY", "GAME_ING"}, room : Rooms \cup {NoRoom}]

TypeOK ==
  /\ members \in [Rooms -> SUBSET Users]
  /\ queue \subseteq ({"chat", "user"} \X (Kinds \cup {"room.create"}) \X Rooms)
  /\ pc \in [Rooms -> Pieces \cup {"none", "seq", "publish"}]
  /\ room_counter \in Nat
  /\ RoomSeq \in [Rooms -> Nat]
  /\ keys \in [Rooms -> SUBSET (Pieces \cup Marks)]
  /\ choosing \subseteq Rooms
  /\ histories \subseteq [room : Rooms, seq : Nat, result : Rooms \cup {NoRoom}]
  /\ todo \in [Kinds \X Rooms -> SUBSET Users]
  /\ row \in [Users -> GameInfo]
  /\ profile \in [Users -> GameInfo]
  /\ joined \in [Rooms -> SUBSET Users]
  /\ released \in [Rooms -> SUBSET Users]
  /\ late \subseteq Users \X Rooms
  /\ missed \subseteq Users \X Rooms
  /\ stale \subseteq Users \X Rooms
  /\ expired \subseteq Rooms
  /\ over \subseteq Rooms
  /\ lost \subseteq Rooms
  /\ inputs \in Nat
  /\ faults \in Nat

Init ==
  /\ members = [r \in Rooms |-> {}]
  /\ queue = {}
  /\ pc = [r \in Rooms |-> "none"]
  /\ room_counter = 0
  /\ RoomSeq = [r \in Rooms |-> 0]
  /\ keys = [r \in Rooms |-> {}]
  /\ choosing = {}
  /\ histories = {}
  /\ todo = [e \in Kinds \X Rooms |-> {}]
  /\ row = [u \in Users |-> STANDBY]
  /\ profile = [u \in Users |-> STANDBY]
  /\ joined = [r \in Rooms |-> {}]
  /\ released = [r \in Rooms |-> {}]
  /\ late = {}
  /\ missed = {}
  /\ stale = {}
  /\ expired = {}
  /\ over = {}
  /\ lost = {}
  /\ inputs = 0
  /\ faults = 0

-----------------------------------------------------------------------------
Fault == faults < MaxFaults /\ faults' = faults + 1

\* The fan-out exchange copies a match event into the queues of both services.
NotifyMatchSuccess(r, g) ==
  /\ members[r] = {}
  /\ members' = [members EXCEPT ![r] = g]
  /\ queue' = queue \cup {<<"chat", "match", r>>, <<"user", "match", r>>}
  /\ UNCHANGED <<roomVars, userVars, endVars, faults>>

\* The chat service's handler of a match event starts CreateRoom.
HandleMatchEvent(r) ==
  /\ <<"chat", "match", r>> \in queue
  /\ queue' = queue \ {<<"chat", "match", r>>}
  /\ pc' = [pc EXCEPT ![r] = "seq"]
  /\ UNCHANGED <<members, room_counter, RoomSeq, keys, choosing, histories, userVars,
                 endVars, faults>>

\* Mutant: the counter is read, and nobody increments it.
ReadSequence(r) ==
  /\ pc[r] = "seq"
  /\ RoomSeq' = [RoomSeq EXCEPT ![r] = room_counter + 1]
  /\ pc' = [pc EXCEPT ![r] = "doc"]
  /\ UNCHANGED <<members, queue, room_counter, keys, choosing, histories, userVars,
                 endVars, faults>>

\* FindOneAndUpdate increments and returns the counter in one step.
GetNextSequence(r) ==
  /\ pc[r] = "seq"
  /\ room_counter' = room_counter + 1
  /\ RoomSeq' = [RoomSeq EXCEPT ![r] = room_counter + 1]
  /\ pc' = [pc EXCEPT ![r] = "doc"]
  /\ UNCHANGED <<members, queue, keys, choosing, histories, userVars, endVars, faults>>

\* GetNextSequence has failed for the room: its RoomSeq is 0.
Unnumbered(r) ==
  /\ members[r] # {} /\ <<"chat", "match", r>> \notin queue
  /\ pc[r] # "seq" /\ RoomSeq[r] = 0

\* CreateRoom ignores the error of GetNextSequence.  The bound counts all the rooms that
\* go without a number as one fault.
SequenceFails(r) ==
  /\ pc[r] = "seq"
  /\ pc' = [pc EXCEPT ![r] = "doc"]
  /\ IF \E q \in Rooms : Unnumbered(q) THEN UNCHANGED faults ELSE Fault
  /\ UNCHANGED <<members, queue, room_counter, RoomSeq, keys, choosing, histories, userVars,
                 endVars>>

\* A remote call of CreateRoom that makes a piece, and the one that follows it.
Make(r, at, piece, next) ==
  /\ pc[r] = at
  /\ keys' = [keys EXCEPT ![r] = @ \cup {piece}]
  /\ pc' = [pc EXCEPT ![r] = next]
  /\ UNCHANGED <<members, queue, room_counter, RoomSeq, choosing, histories, userVars,
                 endVars, faults>>

InsertRoom(r) == Make(r, "doc", "doc", "members")

AddRoomToRedis(r) == Make(r, "members", "members", "status")

SetRoomStatus(r) == Make(r, "status", "status", "timer")

\* Mutant: a room that has its timer is not put on the list.
SetTimerOnly(r) == Make(r, "timer", "timer", "formTimer")

\* Mutant: the room is listed before it has its timer.
ListRoomFirst(r) ==
  \/ Make(r, "timer", "list", "list")
  \/ Make(r, "list", "timer", "formTimer")

\* The key, and in a second call the list that MonitorChatTimeouts goes through.
SetRoomTimeout(r) ==
  \/ Make(r, "timer", "timer", "list")
  \/ Make(r, "list", "list", "formTimer")

\* Its key and its list, which BalanceTimers tells apart.
SetBalanceGameTimer(r) == Make(r, "formTimer", "formTimer", "publish")

PublishChatRoomCreateEvent(r) ==
  /\ pc[r] = "publish"
  /\ queue' = queue \cup {<<"chat", "room.create", r>>}
  /\ pc' = [pc EXCEPT ![r] = "none"]
  /\ UNCHANGED <<members, room_counter, RoomSeq, keys, choosing, histories, userVars,
                 endVars, faults>>

\* A room that CreateRoom leaves here will not be found by a monitor.
Stranded(r) == "list" \notin keys'[r] /\ "choice" \notin keys[r]

\* CreateRoom returns at the first error and nobody calls it again.  A call whose
\* answer does not arrive may have done its work.
CreateRoomFails(r) ==
  /\ pc[r] \in Pieces \cup {"publish"}
  /\ \E done \in SUBSET ({pc[r]} \cap Pieces) : keys' = [keys EXCEPT ![r] = @ \cup done]
  /\ pc' = [pc EXCEPT ![r] = "none"]
  /\ lost' = IF Stranded(r) THEN lost \cup {r} ELSE lost
  /\ Fault
  /\ UNCHANGED <<members, queue, room_counter, RoomSeq, choosing, histories, userVars,
                 expired, over>>

\* The chat service dies with the rooms that it is making.
ChatServiceCrash ==
  /\ \E r \in Rooms : pc[r] # "none"
  /\ UNCHANGED keys
  /\ pc' = [r \in Rooms |-> "none"]
  /\ lost' = lost \cup {r \in Rooms : pc[r] # "none" /\ Stranded(r)}
  /\ Fault
  /\ UNCHANGED <<members, queue, room_counter, RoomSeq, choosing, histories, userVars,
                 expired, over>>

\* SaveMatchHistory, with the Seq that came with the event.  Its error is ignored: a
\* record that is not saved is a room.create event that was not published.
HandleRoomCreateEvent(r) ==
  /\ <<"chat", "room.create", r>> \in queue
  /\ queue' = queue \ {<<"chat", "room.create", r>>}
  /\ histories' = histories \cup {[room |-> r, seq |-> RoomSeq[r], result |-> NoRoom]}
  /\ UNCHANGED <<members, pc, room_counter, RoomSeq, keys, choosing, userVars, endVars,
                 faults>>

-----------------------------------------------------------------------------
ChatHourEnds(r) ==
  /\ "timer" \in keys[r]
  /\ keys' = [keys EXCEPT ![r] = @ \ {"timer"}]
  /\ expired' = expired \cup {r}
  /\ UNCHANGED <<members, queue, pc, room_counter, RoomSeq, choosing, histories, userVars,
                 over, lost, faults>>

TimedOut(r) == "list" \in keys[r] /\ "timer" \notin keys[r]

\* BroadCastFinalChoiceStart goes on if it finds the document and the status GAME_ING.
GameIng(r) == {"doc", "status"} \subseteq keys[r] /\ "choice" \notin keys[r]

\* MonitorChatTimeouts takes the room off its list, and its event starts the choice:
\* the status, and the list of the final choices.
MonitorChatTimeouts(r) ==
  /\ TimedOut(r)
  /\ keys' = [keys EXCEPT ![r] = (@ \ {"list"}) \cup (IF GameIng(r) THEN {"choice"} ELSE {})]
  /\ choosing' = IF GameIng(r) THEN choosing \cup {r} ELSE choosing
  /\ UNCHANGED <<members, queue, pc, room_counter, RoomSeq, histories, userVars, endVars,
                 faults>>

\* The event is lost, or a call of its handler fails: before the status is set, or after.
RoomTimeoutFails(r) ==
  /\ TimedOut(r) /\ GameIng(r)
  /\ \E set \in SUBSET {"choice"} : keys' = [keys EXCEPT ![r] = (@ \ {"list"}) \cup set]
  /\ lost' = lost \cup {r}
  /\ Fault
  /\ UNCHANGED <<members, queue, pc, room_counter, RoomSeq, choosing, histories, userVars,
                 expired, over>>

\* Taking it off its list fails, and the next pass publishes the event again.
RoomNotRemoved(r) ==
  /\ TimedOut(r) /\ GameIng(r)
  /\ keys' = [keys EXCEPT ![r] = @ \cup {"choice"}]
  /\ choosing' = choosing \cup {r}
  /\ Fault
  /\ UNCHANGED <<members, queue, pc, room_counter, RoomSeq, histories, userVars, endVars>>

\* The last member's room_timeout, which the server does not compare with the time, or
\* another one after it: all members are counted, and the choice starts.  The room may be
\* on the first list still, or not yet, or have been stopped.
ProcessRoomTimeoutMessage(r) ==
  /\ "members" \in keys[r] /\ GameIng(r)
  /\ inputs < MaxInputs /\ inputs' = inputs + 1
  /\ keys' = [keys EXCEPT ![r] = @ \cup {"timeouts", "choice"}]
  /\ choosing' = choosing \cup {r}
  /\ lost' = lost \ {r}
  /\ UNCHANGED <<members, queue, pc, room_counter, RoomSeq, histories, todo, row, profile,
                 joined, released, late, missed, stale, expired, over, faults>>

\* The same, with the status set, but then the key {id} or the list not.
FinalChoiceStartFails(r) ==
  /\ "members" \in keys[r] /\ GameIng(r)
  /\ inputs < MaxInputs /\ inputs' = inputs + 1
  /\ keys' = [keys EXCEPT ![r] = @ \cup {"timeouts", "choice"}]
  /\ lost' = lost \cup {r}
  /\ Fault
  /\ UNCHANGED <<members, queue, pc, room_counter, RoomSeq, choosing, histories, todo, row,
                 profile, joined, released, late, missed, stale, expired, over>>

\* The end of BroadcastFinalChoices, at the last choice, however late: UpdateOne takes
\* one of the records that have the room's RoomSeq, and there may be none.
UpdateMatchHistoryFinalMatch(r) ==
  /\ "choice" \in keys[r]
  /\ \E h \in histories :
       /\ h.seq = RoomSeq[r]
       /\ histories' = (histories \ {h}) \cup {[h EXCEPT !.result = r]}
  /\ UNCHANGED <<members, queue, pc, room_counter, RoomSeq, keys, choosing, userVars, endVars,
                 faults>>

\* Its key {id} is gone, which has been the chat timer or is the choice timer.
ChoiceTimedOut(r) == r \in choosing /\ "timer" \notin keys[r]

\* Mutant: the event goes to nobody but the chat service.
FinalTimeoutToChatOnly(r) ==
  /\ ChoiceTimedOut(r)
  /\ choosing' = choosing \ {r}
  /\ over' = over \cup {r}
  /\ UNCHANGED <<members, queue, pc, room_counter, RoomSeq, keys, histories, userVars,
                 expired, lost, faults>>

\* The event with the members of room:{id}; the room is then taken off the list.
MonitorFinalChoiceTimeouts(r) ==
  /\ ChoiceTimedOut(r)
  /\ queue' = queue \cup {<<"user", "final_choice_timeout", r>>}
  /\ choosing' = choosing \ {r}
  /\ over' = over \cup {r}
  /\ UNCHANGED <<members, pc, room_counter, RoomSeq, keys, histories, userVars,
                 expired, lost, faults>>

\* Publishing it fails, which is logged, and the room is taken off the list all the same.
FinalTimeoutFails(r) ==
  /\ ChoiceTimedOut(r)
  /\ choosing' = choosing \ {r}
  /\ lost' = lost \cup ({r} \ over)
  /\ Fault
  /\ UNCHANGED <<members, queue, pc, room_counter, RoomSeq, keys, histories, userVars,
                 expired, over>>

\* Taking it off fails, and the next pass publishes the event again.
ChoiceRoomNotRemoved(r) ==
  /\ ChoiceTimedOut(r)
  /\ queue' = queue \cup {<<"user", "final_choice_timeout", r>>}
  /\ over' = over \cup {r}
  /\ Fault
  /\ UNCHANGED <<members, roomVars, userVars, expired, lost>>

-----------------------------------------------------------------------------
\* The consumer of the user service starts a handler.  If the event comes a second
\* time while the first handler is at work, the two are one that starts again.
HandleEvent(kind, r) ==
  /\ <<"user", kind, r>> \in queue
  /\ queue' = queue \ {<<"user", kind, r>>}
  /\ todo' = [todo EXCEPT ![<<kind, r>>] = members[r]]
  /\ UNCHANGED <<members, roomVars, row, profile, joined, released, late, missed, stale,
                 inputs, endVars, faults>>

\* Mutant: gorm is given a struct and leaves the fields with a zero value alone.
UpdateNonZero(u, info) ==
  row' = [row EXCEPT ![u] = IF info = STANDBY THEN @ ELSE info]

\* gorm is given a map, zero values included.
UpdateUserGameInfo(u, info) == row' = [row EXCEPT ![u] = info]

\* One round of the loop of HandleMatchEvent over the matched users.
MarkPlaying(r, u) ==
  /\ u \in todo[<<"match", r>>]
  /\ UpdateUserGameInfo(u, Playing(r))
  /\ todo' = [todo EXCEPT ![<<"match", r>>] = @ \ {u}]
  /\ joined' = [joined EXCEPT ![r] = @ \cup {u}]
  /\ late' = IF u \in released[r] THEN late \cup {<<u, r>>} ELSE late
  /\ UNCHANGED <<members, queue, roomVars, profile, released, missed, stale, inputs,
                 endVars, faults>>

\* One round of the loop of HandleFinalChoiceTimeout over the event's UserIDs: the
\* row is reset whatever room it names.
MarkStandby(r, u) ==
  /\ u \in todo[<<"final_choice_timeout", r>>]
  /\ UpdateUserGameInfo(u, STANDBY)
  /\ todo' = [todo EXCEPT ![<<"final_choice_timeout", r>>] = @ \ {u}]
  /\ released' = [released EXCEPT ![r] = @ \cup {u}]
  /\ UNCHANGED <<members, queue, roomVars, profile, joined, late, missed, stale, inputs,
                 endVars, faults>>

\* The error of an update is logged and the loop goes on.
UpdateFails(kind, r, u) ==
  /\ u \in todo[<<kind, r>>]
  /\ todo' = [todo EXCEPT ![<<kind, r>>] = @ \ {u}]
  /\ missed' = missed \cup {<<u, r>>}
  /\ Fault
  /\ UNCHANGED <<members, queue, roomVars, row, profile, joined, released, late, stale,
                 inputs, endVars>>

\* The user service dies with the events that it is handling.
UserServiceCrash ==
  /\ todo # [e \in Kinds \X Rooms |-> {}]
  /\ todo' = [e \in Kinds \X Rooms |-> {}]
  /\ missed' = missed \cup {e \in Users \X Rooms :
                            \E kind \in Kinds : e[1] \in todo[<<kind, e[2]>>]}
  /\ Fault
  /\ UNCHANGED <<members, queue, roomVars, row, profile, joined, released, late, stale,
                 inputs, endVars>>

\* The bound on inputs also bounds the reads that could lead to one.
FindUser(u) ==
  /\ inputs < MaxInputs
  /\ profile' = [profile EXCEPT ![u] = row[u]]
  /\ UNCHANGED <<members, queue, roomVars, todo, row, joined, released, late, missed,
                 stale, inputs, endVars, faults>>

\* Mutant: the client's whole profile is written, zero values included.
WholeProfile(u) == profile[u]

\* gorm is given a struct: GameStatus 0 and GameRoomID "" are left alone.
NonZeroFields(u) == IF profile[u] = STANDBY THEN row[u] ELSE profile[u]

\* A client changes its profile and sends all of it back, game status included.
UpdateUser(u) ==
  /\ inputs < MaxInputs
  /\ row' = [row EXCEPT ![u] = NonZeroFields(u)]
  /\ inputs' = IF row' = row THEN inputs ELSE inputs + 1
  /\ stale' = IF row'[u] = row[u] THEN stale ELSE stale \cup {<<u, profile[u].room>>}
  /\ UNCHANGED <<members, queue, roomVars, todo, profile, joined, released, late, missed,
                 endVars, faults>>

-----------------------------------------------------------------------------
CreateRoom(r) ==
  \/ GetNextSequence(r)
  \/ InsertRoom(r) \/ AddRoomToRedis(r) \/ SetRoomStatus(r)
  \/ SetRoomTimeout(r) \/ SetBalanceGameTimer(r)
  \/ PublishChatRoomCreateEvent(r)

Failure ==
  \/ \E r \in Rooms :
       \/ SequenceFails(r) \/ CreateRoomFails(r)
       \/ RoomTimeoutFails(r) \/ RoomNotRemoved(r) \/ FinalChoiceStartFails(r)
       \/ FinalTimeoutFails(r) \/ ChoiceRoomNotRemoved(r)
       \/ \E kind \in Kinds, u \in Users : UpdateFails(kind, r, u)
  \/ ChatServiceCrash
  \/ UserServiceCrash

Next ==
  \/ \E r \in Rooms :
       \/ \E g \in Groups : NotifyMatchSuccess(r, g)
       \/ HandleMatchEvent(r) \/ CreateRoom(r) \/ HandleRoomCreateEvent(r)
       \/ ChatHourEnds(r) \/ MonitorChatTimeouts(r)
       \/ ProcessRoomTimeoutMessage(r)
       \/ UpdateMatchHistoryFinalMatch(r) \/ MonitorFinalChoiceTimeouts(r)
       \/ \E kind \in Kinds : HandleEvent(kind, r)
       \/ \E u \in Users : MarkPlaying(r, u) \/ MarkStandby(r, u)
  \/ \E u \in Users : FindUser(u) \/ UpdateUser(u)
  \/ Failure

Spec == Init /\ [][Next]_vars

-----------------------------------------------------------------------------
\* Properties.

\* How far a room has come, whatever of it there still is in Mongo and Redis.
Phase(r) ==
  IF r \in over THEN "over"
  ELSE IF r \in choosing THEN "choosing"
  ELSE IF r \in lost THEN IF "choice" \in keys[r] THEN "lost" ELSE "stalled"
  ELSE IF "list" \in keys[r] THEN "open"
  ELSE IF members[r] # {} THEN "making"
  ELSE "none"

Life == INSTANCE RoomLife WITH
  phase <- [r \in Rooms |-> Phase(r)],
  ended <- expired \cup {r \in Rooms : "timeouts" \in keys[r]}

\* However the remote calls of CreateRoom, the monitors, the members' messages, the two
\* services' handlers and the faults interleave, a room lives the life that RoomLife
\* tells: it does not go back to an earlier phase, chooses only when its hour is over or
\* all of its members say so, is stopped by nothing in its hour, and marks and releases
\* none but its own members.
ImplementsRoomLife == Life!Spec

\* A room that MonitorChatTimeouts goes through has all that the end of the game
\* needs, and its hour has begun: CreateRoom lists it after everything else, though
\* the monitors may look at any time.
ListedIsWhole ==
  \A r \in Rooms : "list" \in keys[r] =>
    /\ {"doc", "members", "status"} \subseteq keys[r]
    /\ "timer" \in keys[r] \/ r \in expired

\* From the match to the event of its end, some queue, goroutine or list always has
\* the room, or a failure or a crash has stopped it: before it is listed, at its room
\* timeout, at the start of its choice, or at the publication of its end.  No one looks
\* for rooms that are half made or whose event is gone.  The first list is of no use to a
\* room that is past GAME_ING.
MatchNotForgotten ==
  \A r \in Rooms : members[r] # {} =>
    \/ r \in choosing \cup over \cup lost
    \/ /\ "choice" \notin keys[r]
       /\ <<"chat", "match", r>> \in queue \/ pc[r] # "none" \/ "list" \in keys[r]

\* The final match of a room is recorded in its own history, which is found by RoomSeq:
\* only rooms that were made while the sequence failed share one, 0.
HistoryIsOwn ==
  \A h \in histories : h.result \notin {NoRoom, h.room} => h.seq = 0

\* A user who was released at the end of a room is shown as playing in it only if
\* the match event was handled after the end, or his client has written a profile
\* that it had read before.
GhostIsExplained ==
  \A u \in Users, r \in Rooms :
    row[u].room = r /\ u \in released[r] => <<u, r>> \in late \cup stale

\* A user who was marked as playing in a room that has not released him is shown in
\* it, unless he plays, or has played, in another one too.
IdleIsExplained ==
  \A u \in Users, r \in Rooms :
    u \in joined[r] \ released[r] /\ row[u] # Playing(r) =>
      \E q \in Rooms \ {r} : u \in joined[q] \cup released[q]

\* A member of a room whose end was published is released, or the event or its
\* handler still has him, unless a failed update or a crash of the user service has
\* left him out: no event comes again, and no one compares rows with rooms.
MemberNotForgotten ==
  \A r \in over : \A u \in members[r] :
    \/ <<"user", "final_choice_timeout", r>> \in queue
    \/ u \in todo[<<"final_choice_timeout", r>>]
    \/ u \in released[r]
    \/ <<u, r>> \in missed
=============================================================================
